---------------------------- MODULE MCRunQueue ----------------------------
(***************************************************************************)
(* What happens in the behaviours of the runs of RunQueue.  Each mix is a  *)
(* story of its own, small enough for two or three messages: a worktree    *)
(* that is prepared, fails and is retried; an archive; a Stop with         *)
(* messages or buffered wakes in the queue; the user's commands on the     *)
(* queue; a server that goes down under messages, wakes and a preparation; *)
(* an agent that interrupts a preparation; effects, fibers and the handler *)
(* that fail for good, and what an interrupt or a restart then does.       *)
(***************************************************************************)
EXTENDS RunQueue

Story(kinds, messages) == [kinds |-> kinds, messages |-> messages]

Mixes == { Story({"launch", "send", "retry"}, 3),
           Story({"agent", "archive"}, 3),
           Story({"send", "wake", "stop", "interrupt", "resume"}, 2),
           Story({"send", "cancel", "reorder", "start", "resume"}, 3),
           Story({"send", "agent", "restart"}, 3),
           Story({"wake", "stop", "restart"}, 2),
           Story({"launch", "interrupt", "restart"}, 1),
           Story({"send", "agent", "stop", "failure"}, 2),
           Story({"launch", "agent", "interrupt", "failure"}, 2),
           Story({"agent", "failure", "restart"}, 3) }

(* Only messages follow the launch: nobody resumes the queue.              *)
LaunchAndSend == { Story({"launch", "send"}, 3) }

=============================================================================

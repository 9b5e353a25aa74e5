---------------------------- MODULE CommandGate ----------------------------
(***************************************************************************)
(* The gate that holds client commands back while the server starts        *)
(* (makeCommandGate and the startup and finalizer of                       *)
(* apps/server/src/serverRuntimeStartup.ts).  Commands that arrive early   *)
(* queue behind one worker; once startup signals readiness they run, and   *)
(* later ones run in their callers without queueing.  A startup that fails *)
(* or a server that stops turns the gate to an error.                      *)
(***************************************************************************)
EXTENDS Integers, Sequences

CONSTANTS
  Caller,        (* callers of enqueueCommand, one command each            *)
  NoCaller       (* not a caller                                           *)

VARIABLES
  startup,       (* the startup fiber: recovering, signalling, over        *)
  recovered,     (* history: recovery and activation completed             *)
  server,        (* open, closing (finalizer ran), closed                  *)
  readiness,     (* commandReadinessState                                  *)
  commandReady,  (* the deferred the queued commands await                 *)
  commandQueue,  (* callers whose command is queued                        *)
  serving,       (* the caller whose command the worker has taken          *)
  worker,        (* the command worker: taking, awaiting, executing, gone  *)
  caller,        (* where each caller is                                   *)
  ran            (* history: callers whose command was executed            *)

gateVars ==
  <<startup, recovered, server, readiness, commandReady, commandQueue, serving,
    worker, caller, ran>>

TypeOK ==
  /\ startup \in {"recovering", "signalling", "over"}
  /\ recovered \in BOOLEAN
  /\ server \in {"open", "closing", "closed"}
  /\ readiness \in {"pending", "ready", "error"}
  /\ commandReady \in {"open", "done", "failed"}
  /\ commandQueue \in Seq(Caller)
  /\ serving \in Caller \cup {NoCaller}
  /\ worker \in {"taking", "awaiting", "executing", "gone"}
  /\ caller \in [Caller -> {"new", "early", "queued", "direct", "answered", "rejected"}]
  /\ ran \subseteq Caller

Init ==
  /\ startup = "recovering"
  /\ recovered = FALSE
  /\ server = "open"
  /\ readiness = "pending"
  /\ commandReady = "open"
  /\ commandQueue = <<>>
  /\ serving = NoCaller
  /\ worker = "taking"
  /\ caller = [c \in Caller |-> "new"]
  /\ ran = {}

-----------------------------------------------------------------------------
(* Startup.                                                                *)

(* signalCommandReady, after recovery, the effect worker, the listener and *)
(* the activation: first the state, then the deferred.                     *)
SignalReady ==
  /\ startup = "recovering"
  /\ server = "open"
  /\ recovered' = TRUE
  /\ readiness' = "ready"
  /\ startup' = "signalling"
  /\ UNCHANGED <<server, commandReady, commandQueue, serving, worker, caller, ran>>

CompleteDeferred ==
  /\ startup = "signalling"
  /\ server = "open"
  /\ commandReady' = IF commandReady = "open" THEN "done" ELSE commandReady
  /\ startup' = "over"
  /\ UNCHANGED <<recovered, server, readiness, commandQueue, serving, worker, caller, ran>>

(* failCommandReady: the deferred keeps the outcome it already has.        *)
FailReady ==
  /\ readiness' = "error"
  /\ commandReady' = IF commandReady = "open" THEN "failed" ELSE commandReady

(* A startup phase fails: recovery does not complete.                      *)
StartupFails ==
  /\ startup = "recovering"
  /\ server = "open"
  /\ startup' = "over"
  /\ FailReady
  /\ UNCHANGED <<recovered, server, commandQueue, serving, worker, caller, ran>>

(* The scope closes: the startup fiber is interrupted, then the finalizer  *)
(* fails the gate.                                                         *)
BeginShutdown ==
  /\ server = "open"
  /\ server' = "closing"
  /\ startup' = "over"
  /\ FailReady
  /\ UNCHANGED <<recovered, commandQueue, serving, worker, caller, ran>>

(* The rest of the scope closes: the worker is interrupted last, and what  *)
(* it had not settled stays unsettled.                                     *)
EndShutdown ==
  /\ server = "closing"
  /\ server' = "closed"
  /\ worker' = "gone"
  /\ UNCHANGED <<startup, recovered, readiness, commandReady, commandQueue,
                 serving, caller, ran>>

-----------------------------------------------------------------------------
(* enqueueCommand.                                                         *)

(* The state is read once; the caller acts on what it read.                *)
ReadState(c) ==
  /\ caller[c] = "new"
  /\ server # "closed"
  /\ caller' = [caller EXCEPT ![c] =
                  CASE readiness = "ready" -> "direct"
                    [] readiness = "pending" -> "early"
                    [] readiness = "error" -> "rejected"]
  /\ UNCHANGED <<startup, recovered, server, readiness, commandReady,
                 commandQueue, serving, worker, ran>>

RunDirect(c) ==
  /\ caller[c] = "direct"
  /\ server # "closed"
  /\ ran' = ran \cup {c}
  /\ caller' = [caller EXCEPT ![c] = "answered"]
  /\ UNCHANGED <<startup, recovered, server, readiness, commandReady,
                 commandQueue, serving, worker>>

Offer(c) ==
  /\ caller[c] = "early"
  /\ commandQueue' = Append(commandQueue, c)
  /\ caller' = [caller EXCEPT ![c] = "queued"]
  /\ UNCHANGED <<startup, recovered, server, readiness, commandReady, serving,
                 worker, ran>>

(* The worker takes one command at a time and awaits readiness inside it.  *)
TakeCommand ==
  /\ worker = "taking"
  /\ commandQueue # <<>>
  /\ serving' = Head(commandQueue)
  /\ commandQueue' = Tail(commandQueue)
  /\ worker' = "awaiting"
  /\ UNCHANGED <<startup, recovered, server, readiness, commandReady, caller, ran>>

RunQueued ==
  /\ worker = "awaiting"
  /\ commandReady = "done"
  /\ worker' = "executing"
  /\ ran' = ran \cup {serving}
  /\ UNCHANGED <<startup, recovered, server, readiness, commandReady,
                 commandQueue, serving, caller>>

(* Faulty: the error of the gate ends the worker instead of the command.   *)
SettleExecuted ==
  /\ worker = "executing"
  /\ caller' = [caller EXCEPT ![serving] = "answered"]
  /\ worker' = "taking"
  /\ serving' = NoCaller
  /\ UNCHANGED <<startup, recovered, server, readiness, commandReady,
                 commandQueue, ran>>

(* settleQueuedCommand hands the caller the exit of the command, or the    *)
(* error of the gate.                                                      *)
Settle ==
  /\ \/ worker = "executing"
     \/ worker = "awaiting" /\ commandReady = "failed"
  /\ caller' = [caller EXCEPT ![serving] =
                  IF worker = "executing" THEN "answered" ELSE "rejected"]
  /\ worker' = "taking"
  /\ serving' = NoCaller
  /\ UNCHANGED <<startup, recovered, server, readiness, commandReady,
                 commandQueue, ran>>

Next ==
  \/ SignalReady
  \/ CompleteDeferred
  \/ StartupFails
  \/ BeginShutdown
  \/ EndShutdown
  \/ \E c \in Caller : ReadState(c) \/ RunDirect(c) \/ Offer(c)
  \/ TakeCommand
  \/ RunQueued
  \/ Settle

(* Startup ends one way or the other, the worker runs while it can, and a  *)
(* caller goes on with what it read.                                       *)
Fairness ==
  /\ WF_gateVars(SignalReady \/ StartupFails)
  /\ WF_gateVars(CompleteDeferred)
  /\ \A c \in Caller : WF_gateVars(RunDirect(c)) /\ WF_gateVars(Offer(c))
  /\ WF_gateVars(TakeCommand)
  /\ WF_gateVars(RunQueued)
  /\ WF_gateVars(Settle)

Spec == Init /\ [][Next]_gateVars /\ Fairness

-----------------------------------------------------------------------------
(* No command runs before recovery completed, whichever way it came in and *)
(* however the reading of the state raced startup; a rejected one never    *)
(* ran (serverRuntimeStartup.ts:111).                                       *)
NoEarlyCommand ==
  /\ ran # {} => recovered
  /\ \A c \in Caller : caller[c] = "rejected" => c \notin ran

(* A command that arrived early is answered, with its result or with the   *)
(* error of the startup, unless the server closes under it.                *)
EarlyAnswered ==
  \A c \in Caller :
    []<>(caller[c] \notin {"early", "queued"} \/ server = "closed")

(* The gate holds commands back until the server is ready and lets none    *)
(* of them wait for ever.                                                  *)
GateHolds == []NoEarlyCommand /\ EarlyAnswered
=============================================================================

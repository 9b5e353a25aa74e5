----------------------------- MODULE CommandLedger --------------------------
(***************************************************************************)
(* What a client may rely on when it sends a command more than once: the   *)
(* command is decided once, durably, and every definite answer reports     *)
(* that decision (docs/orchestration-v2/README.md, Key invariants).        *)
(***************************************************************************)
EXTENDS Naturals

CONSTANT CommandId

VARIABLES
  decided,   (* the decision on each command, "absent" before there is one *)
  told       (* the answers given                                          *)

Undecided == [status |-> "absent", sequence |-> 0]

Init ==
  /\ decided = [c \in CommandId |-> Undecided]
  /\ told = {}

(* An accepted command has its place in the log.                           *)
Decision == [status : {"accepted"}, sequence : Nat] \cup [status : {"rejected"}, sequence : {0}]

Decide(c) ==
  /\ decided[c] = Undecided
  /\ decided'[c] \in Decision
  /\ decided' = [decided EXCEPT ![c] = decided'[c]]
  /\ UNCHANGED told

Tell(c) ==
  /\ decided[c] # Undecided
  /\ told' = told \cup {[id |-> c, answer |-> decided[c]]}
  /\ UNCHANGED decided

Next == \E c \in CommandId : Decide(c) \/ Tell(c)

Spec == Init /\ [][Next]_<<decided, told>>
=============================================================================

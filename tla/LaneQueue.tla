----------------------------- MODULE LaneQueue ------------------------------
(***************************************************************************)
(* What the effect outbox promises the commands that enqueue into it: a    *)
(* set of first-in first-out lanes, each with at most one job at work.     *)
(* A job at work may be put back at the head of its lane and tried again;  *)
(* any job may be withdrawn, in the same step that submits another one;    *)
(* a job that has left never returns.                                      *)
(***************************************************************************)
EXTENDS Integers

CONSTANTS
  Job,      (* the jobs                                                    *)
  LaneOf    (* the lane of each job                                        *)

VARIABLES
  place,    (* where each job is                                           *)
  rank      (* arrival order of the jobs in the queue, 0 for the others    *)

Place == {"new", "waiting", "working", "gone"}

Queued(j) == place[j] \in {"waiting", "working"}

Init ==
  /\ place = [j \in Job |-> "new"]
  /\ rank = [j \in Job |-> 0]

Leave(S) ==
  /\ place' = [j \in Job |-> IF j \in S THEN "gone" ELSE place[j]]
  /\ rank' = [j \in Job |-> IF j \in S THEN 0 ELSE rank[j]]

(* Jobs settle or are withdrawn.                                           *)
Withdraw(S) ==
  /\ \A j \in S : Queued(j)
  /\ Leave(S)

(* A new job joins behind every queued one while others are withdrawn.     *)
Submit(new, S) ==
  /\ place[new] = "new"
  /\ \A j \in S : Queued(j)
  /\ place' = [j \in Job |-> IF j = new THEN "waiting"
                             ELSE IF j \in S THEN "gone" ELSE place[j]]
  /\ rank' = [j \in Job |-> IF j = new THEN rank'[new] ELSE IF j \in S THEN 0 ELSE rank[j]]
  /\ rank'[new] \in Nat
  /\ \A j \in Job : rank[j] < rank'[new]

(* The oldest job of a lane nobody works on is taken up.                   *)
Start(j) ==
  /\ place[j] = "waiting"
  /\ \A k \in Job : LaneOf[k] = LaneOf[j] =>
       /\ place[k] # "working"
       /\ place[k] = "waiting" => rank[j] <= rank[k]
  /\ place' = [place EXCEPT ![j] = "working"]
  /\ UNCHANGED rank

(* Work is interrupted and will be taken up again.                         *)
PutBack(S) ==
  /\ \A j \in S : place[j] = "working"
  /\ place' = [j \in Job |-> IF j \in S THEN "waiting" ELSE place[j]]
  /\ UNCHANGED rank

Next ==
  \/ \E S \in SUBSET Job : Withdraw(S) \/ PutBack(S)
  \/ \E new \in Job, S \in SUBSET Job : Submit(new, S)
  \/ \E j \in Job : Start(j)

Spec == Init /\ [][Next]_<<place, rank>>
=============================================================================

----------------------------- MODULE EventFeed ------------------------------
(***************************************************************************)
(* What the event sink promises its subscribers: one log that only grows,  *)
(* and for each subscriber a cursor that only moves forward, having seen   *)
(* every event of the log it asked for up to the cursor and no other one.  *)
(***************************************************************************)
EXTENDS Integers, Sequences

CONSTANTS
  Reader,        (* the subscribers                                        *)
  Topic,         (* what an event is about                                 *)
  Wanted(_, _)   (* whether a subscriber asked for a topic                 *)

VARIABLES
  log,           (* topics of the committed events, by sequence number     *)
  cursor,        (* sequence number each subscriber has reached            *)
  seen           (* sequence numbers each subscriber has received          *)

Init ==
  /\ log = <<>>
  /\ cursor = [r \in Reader |-> 0]
  /\ seen = [r \in Reader |-> {}]

Grow ==
  /\ \E n \in 1..(Len(log') - Len(log)) : SubSeq(log', 1, Len(log') - n) = log
  /\ UNCHANGED <<cursor, seen>>

Deliver(r) ==
  /\ cursor'[r] \in (cursor[r] + 1)..Len(log)
  /\ cursor' = [cursor EXCEPT ![r] = cursor'[r]]
  /\ seen' = [seen EXCEPT ![r] = @ \cup {s \in (cursor[r] + 1)..cursor'[r] : Wanted(r, log[s])}]
  /\ UNCHANGED log

Next == Grow \/ \E r \in Reader : Deliver(r)

Spec == Init /\ [][Next]_<<log, cursor, seen>>
=============================================================================

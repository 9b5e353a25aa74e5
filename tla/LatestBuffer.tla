---------------------------- MODULE LatestBuffer ----------------------------
(***************************************************************************)
(* The buffer of latest states in front of a shell subscriber              *)
(* (bufferLatestLiveStream, LiveStreamBudget.ts).  A source fiber puts     *)
(* full states under a mutex, the latest of each key; a queue of one token *)
(* wakes the reader, which moves all pending states to delivery under the  *)
(* same mutex.  A budget counts what is pending or delivered and not yet   *)
(* acknowledged; a client that lags behind it loses the stream.            *)
(*                                                                         *)
(* A state is its sequence number; the source emits them in order.         *)
(***************************************************************************)
EXTENDS Integers, FiniteSets

CONSTANTS
  Key,           (* projects and threads of the shell                      *)
  MaxStates,     (* bound: how many states the source emits                *)
  MaxItems       (* maxItems of the budget                                 *)

VARIABLES
  pending,       (* the latest undelivered state of each key, or 0         *)
  tokens,        (* tokens in the queue ready, bounded to one              *)
  source,        (* the source fiber: idle, offering a token, ended        *)
  reader,        (* the pull: between batches, on ready, woken, delivering *)
  inFlight,      (* delivered and not acknowledged                         *)
  retained,      (* items charged to the budget                            *)
  full,          (* the budget failed                                      *)
  closed,        (* the buffer is closed, ready is shut down               *)
  emitted,       (* the sequence number of the last state emitted          *)
  emittedOf,     (* history: the last state emitted of each key            *)
  deliveredOf    (* history: the last state delivered of each key          *)

bufferVars ==
  <<pending, tokens, source, reader, inFlight, retained, full, closed, emitted,
    emittedOf, deliveredOf>>

State == 1..MaxStates
Pending == {pending[k] : k \in Key} \ {0}

TypeOK ==
  /\ pending \in [Key -> 0..MaxStates]
  /\ tokens \in {0, 1}
  /\ source \in {"idle", "offering", "ended"}
  /\ reader \in {"between", "taking", "woken", "delivering", "gone"}
  /\ inFlight \subseteq State
  /\ retained \subseteq State
  /\ full \in BOOLEAN
  /\ closed \in BOOLEAN
  /\ emitted \in 0..MaxStates
  /\ emittedOf \in [Key -> 0..MaxStates]
  /\ deliveredOf \in [Key -> 0..MaxStates]

Init ==
  /\ pending = [k \in Key |-> 0]
  /\ tokens = 0
  /\ source = "idle"
  /\ reader = "between"
  /\ inFlight = {}
  /\ retained = {}
  /\ full = FALSE
  /\ closed = FALSE
  /\ emitted = 0
  /\ emittedOf = [k \in Key |-> 0]
  /\ deliveredOf = [k \in Key |-> 0]

(* The source holds the mutex from here until its token is in the queue.   *)
MutexFree == source # "offering"

(* Faulty: only a reader that waits is woken.                              *)
WakeWaiting == Pending = {} /\ reader = "taking"

WakeNeeded == Pending = {}

(* What stays charged when a state of key k replaces the pending one.      *)
Kept(k) == retained \ {pending[k]}

(* A state arrives and replaces the one pending under its key; the first   *)
(* pending state comes with a wakeup.                                      *)
Put(k) ==
  LET n == emitted + 1 IN
  /\ source = "idle"
  /\ n <= MaxStates
  /\ ~full
  /\ emitted' = n
  /\ emittedOf' = [emittedOf EXCEPT ![k] = n]
  /\ IF closed
       THEN UNCHANGED <<pending, source, retained, full>>
       ELSE IF Cardinality(Kept(k)) + 1 > MaxItems
         THEN /\ full' = TRUE
              /\ source' = "ended"
              /\ UNCHANGED <<pending, retained>>
         ELSE /\ pending' = [pending EXCEPT ![k] = n]
              /\ retained' = Kept(k) \cup {n}
              /\ source' = IF WakeNeeded THEN "offering" ELSE "idle"
              /\ UNCHANGED full
  /\ UNCHANGED <<tokens, reader, inFlight, closed, deliveredOf>>

(* The offer suspends while a token is in the queue, with the mutex held.  *)
Wake ==
  /\ source = "offering"
  /\ tokens = 0
  /\ tokens' = 1
  /\ source' = "idle"
  /\ UNCHANGED <<pending, reader, inFlight, retained, full, closed, emitted,
                 emittedOf, deliveredOf>>

(* The source stream ends; a token already in ready is still taken.        *)
EndSource ==
  /\ source = "idle"
  /\ source' = "ended"
  /\ UNCHANGED <<pending, tokens, reader, inFlight, retained, full, closed,
                 emitted, emittedOf, deliveredOf>>

(* The client's next request acknowledges the batch before it.             *)
Pull ==
  /\ reader \in {"between", "delivering"}
  /\ reader' = IF full THEN "gone" ELSE "taking"
  /\ inFlight' = {}
  /\ retained' = retained \ inFlight
  /\ UNCHANGED <<pending, tokens, source, full, closed, emitted, emittedOf, deliveredOf>>

TakeToken ==
  /\ reader = "taking"
  /\ tokens = 1
  /\ tokens' = 0
  /\ reader' = "woken"
  /\ UNCHANGED <<pending, source, inFlight, retained, full, closed, emitted,
                 emittedOf, deliveredOf>>

(* The pending states move to delivery and stay charged.                   *)
Drain ==
  /\ reader = "woken"
  /\ MutexFree
  /\ inFlight' = Pending
  /\ pending' = [k \in Key |-> 0]
  /\ IF full
       THEN /\ reader' = "gone"
            /\ UNCHANGED deliveredOf
       ELSE /\ reader' = "delivering"
            /\ deliveredOf' = [k \in Key |->
                                 IF pending[k] # 0 THEN pending[k] ELSE deliveredOf[k]]
  /\ UNCHANGED <<tokens, source, retained, full, closed, emitted, emittedOf>>

(* The reader learns that the stream is over: the budget failed while it   *)
(* waited, or ready has ended and has no token left.                       *)
StreamOver ==
  /\ \/ reader \in {"taking", "woken"} /\ full
     \/ reader = "taking" /\ tokens = 0 /\ (closed \/ source = "ended")
  /\ reader' = "gone"
  /\ UNCHANGED <<pending, tokens, source, inFlight, retained, full, closed,
                 emitted, emittedOf, deliveredOf>>

(* close, by the failed budget or by the finalizer of a client that left.  *)
Close ==
  /\ full \/ reader = "gone"
  /\ ~closed
  /\ MutexFree
  /\ closed' = TRUE
  /\ pending' = [k \in Key |-> 0]
  /\ retained' = retained \ Pending
  /\ tokens' = 0
  /\ UNCHANGED <<source, reader, inFlight, full, emitted, emittedOf, deliveredOf>>

(* After a failure, deliver releases what is not in flight; the finalizer  *)
(* of a client that left releases the rest.                                *)
ReleaseRest ==
  /\ closed
  /\ retained' = IF reader = "gone" THEN {} ELSE retained \cap inFlight
  /\ inFlight' = IF reader = "gone" THEN {} ELSE inFlight
  /\ UNCHANGED <<pending, tokens, source, reader, full, closed, emitted,
                 emittedOf, deliveredOf>>

(* The client disconnects.                                                 *)
Leave ==
  /\ reader # "gone"
  /\ reader' = "gone"
  /\ UNCHANGED <<pending, tokens, source, inFlight, retained, full, closed,
                 emitted, emittedOf, deliveredOf>>

Next ==
  \/ \E k \in Key : Put(k)
  \/ Wake
  \/ EndSource
  \/ Pull
  \/ TakeToken
  \/ Drain
  \/ StreamOver
  \/ Close
  \/ ReleaseRest
  \/ Leave

(* The fibers of the stream run while they can; a client that stays pulls. *)
Fairness ==
  /\ WF_bufferVars(Wake)
  /\ WF_bufferVars(Pull)
  /\ WF_bufferVars(TakeToken)
  /\ WF_bufferVars(Drain)
  /\ WF_bufferVars(StreamOver)
  /\ WF_bufferVars(Close)
  /\ WF_bufferVars(ReleaseRest)

Spec == Init /\ [][Next]_bufferVars /\ Fairness

-----------------------------------------------------------------------------
(* The wakeup is neither lost nor left over: as long as the buffer is open *)
(* something is pending exactly when the token is on its way to the        *)
(* reader or the reader woken by it has not drained yet; so no token       *)
(* blocks the source, and no batch is empty (LiveStreamBudget.ts:281).      *)
WakeupPaired ==
  ~closed /\ reader # "gone" =>
    (Pending # {}) = (tokens = 1 \/ source = "offering" \/ reader = "woken")

(* The budget charges exactly what is pending or unacknowledged: neither   *)
(* a replaced state nor a state moved to delivery shifts the count.        *)
ChargesExact ==
  ~full /\ reader # "gone" => retained = Pending \cup inFlight

(* The client catches up with the latest state of every key, unless it lags *)
(* too far behind or leaves: replacing a pending state loses no update.    *)
LatestDelivered ==
  \A k \in Key : []<>(deliveredOf[k] = emittedOf[k] \/ reader = "gone")

(* A stream that is over holds no memory: everything charged is released.  *)
ReleasedAtTheEnd == []<>(reader = "gone" => retained = {})

(* A subscriber that stays catches up, and a stream that is over releases  *)
(* its memory.                                                             *)
BufferKeepsUp == LatestDelivered /\ ReleasedAtTheEnd

(* The budget and the wakeups are exact while the stream goes on.          *)
BufferIsExact == WakeupPaired /\ ChargesExact
=============================================================================

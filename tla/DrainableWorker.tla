-------------------------- MODULE DrainableWorker --------------------------
(***************************************************************************)
(* The background worker of packages/shared/src/DrainableWorker.ts: a      *)
(* queue, one fiber that processes its items one by one, and a count of    *)
(* the outstanding ones on which drain waits.  Closing the scope runs two  *)
(* finalizers, the queue's and the fiber's; a parallel scope runs them in  *)
(* either order.                                                           *)
(*                                                                         *)
(* An operation under Effect.tx is one step.  The fiber takes an item and  *)
(* enters its ensuring block in one step too: nothing suspends in between. *)
(***************************************************************************)
EXTENDS Integers, Sequences, FiniteSets

CONSTANTS
  Item,          (* the items offered, each one once                       *)
  Drainer,       (* fibers that call drain, each one once                  *)
  NoItem         (* not an item                                            *)

VARIABLES
  queue,         (* the transactional queue                                *)
  accepting,     (* the queue is not shut down                             *)
  outstanding,   (* the count                                              *)
  running,       (* the item being processed                               *)
  fiber,         (* the worker's fiber: running, interrupted or ended      *)
  drain,         (* each drainer: not called, waiting, returned            *)
  offered,       (* history: items the queue accepted                      *)
  finished,      (* history: items whose processing ended                  *)
  before         (* history: the items accepted when drain was called      *)

drainVars ==
  <<queue, accepting, outstanding, running, fiber, drain, offered, finished, before>>

TypeOK ==
  /\ queue \in Seq(Item)
  /\ accepting \in BOOLEAN
  /\ outstanding \in Int
  /\ running \in Item \cup {NoItem}
  /\ fiber \in {"running", "interrupted", "ended"}
  /\ drain \in [Drainer -> {"idle", "waiting", "returned"}]
  /\ offered \subseteq Item
  /\ finished \subseteq Item
  /\ before \in [Drainer -> SUBSET Item]

Init ==
  /\ queue = <<>>
  /\ accepting = TRUE
  /\ outstanding = 0
  /\ running = NoItem
  /\ fiber = "running"
  /\ drain = [d \in Drainer |-> "idle"]
  /\ offered = {}
  /\ finished = {}
  /\ before = [d \in Drainer |-> {}]

(* An offer to a queue that is shut down is refused and not counted.       *)
Enqueue(i) ==
  /\ i \notin offered
  /\ accepting
  /\ queue' = Append(queue, i)
  /\ outstanding' = outstanding + 1
  /\ offered' = offered \cup {i}
  /\ UNCHANGED <<accepting, running, fiber, drain, finished, before>>

TakeItem ==
  /\ fiber = "running"
  /\ running = NoItem
  /\ queue # <<>>
  /\ running' = Head(queue)
  /\ queue' = Tail(queue)
  /\ UNCHANGED <<accepting, outstanding, fiber, drain, offered, finished, before>>

(* The item ends by success, failure, defect or its own interruption, or   *)
(* by the interruption of the fiber: ensuring uncounts it all the same.    *)
EndItem ==
  /\ running # NoItem
  /\ running' = NoItem
  /\ finished' = finished \cup {running}
  /\ outstanding' = outstanding - 1
  /\ fiber' = IF fiber = "interrupted" THEN "ended" ELSE fiber
  /\ UNCHANGED <<queue, accepting, drain, offered, before>>

(* A take of a queue that is shut down ends the loop.                      *)
StopLoop ==
  /\ fiber = "running"
  /\ running = NoItem
  /\ ~accepting
  /\ fiber' = "ended"
  /\ UNCHANGED <<queue, accepting, outstanding, running, drain, offered, finished, before>>

(* forkScoped: closing the scope interrupts the fiber.                     *)
InterruptFiber ==
  /\ fiber = "running"
  /\ fiber' = IF running = NoItem THEN "ended" ELSE "interrupted"
  /\ UNCHANGED <<queue, accepting, outstanding, running, drain, offered, finished, before>>

(* Faulty: the finalizer drops the items and leaves them counted.          *)
CloseQueueUncounted ==
  /\ accepting
  /\ queue' = <<>>
  /\ accepting' = FALSE
  /\ UNCHANGED <<outstanding, running, fiber, drain, offered, finished, before>>

(* The queue's finalizer: clear, uncount what it dropped, shut down.       *)
CloseQueue ==
  /\ accepting
  /\ queue' = <<>>
  /\ outstanding' = outstanding - Len(queue)
  /\ accepting' = FALSE
  /\ UNCHANGED <<running, fiber, drain, offered, finished, before>>

CallDrain(d) ==
  /\ drain[d] = "idle"
  /\ drain' = [drain EXCEPT ![d] = "waiting"]
  /\ before' = [before EXCEPT ![d] = offered]
  /\ UNCHANGED <<queue, accepting, outstanding, running, fiber, offered, finished>>

(* The transaction retries while n > 0.                                    *)
ReturnDrain(d) ==
  /\ drain[d] = "waiting"
  /\ outstanding <= 0
  /\ drain' = [drain EXCEPT ![d] = "returned"]
  /\ UNCHANGED <<queue, accepting, outstanding, running, fiber, offered, finished, before>>

Next ==
  \/ \E i \in Item : Enqueue(i)
  \/ TakeItem
  \/ EndItem
  \/ StopLoop
  \/ InterruptFiber
  \/ CloseQueue
  \/ \E d \in Drainer : CallDrain(d) \/ ReturnDrain(d)

(* The scheduler runs a fiber that can run, an item's processing ends, and *)
(* a transaction is retried when what it read changed; once one finalizer  *)
(* of the scope ran, the other one does.                                   *)
Fairness ==
  /\ WF_drainVars(TakeItem)
  /\ WF_drainVars(EndItem)
  /\ WF_drainVars(fiber # "running" /\ CloseQueue)
  /\ \A d \in Drainer : WF_drainVars(ReturnDrain(d))

Spec == Init /\ [][Next]_drainVars /\ Fairness

-----------------------------------------------------------------------------
(* The count is exactly what drain waits for, under both orders of the     *)
(* finalizers: an item that runs while the queue closes is uncounted once, *)
(* by itself (DrainableWorker.ts:26).                                       *)
CountIsExact ==
  outstanding = Len(queue) + (IF running = NoItem THEN 0 ELSE 1)

(* While the worker accepts items, drain returns only when every item      *)
(* accepted before the call has been processed.                            *)
DrainWaits ==
  [][\A d \in Drainer :
       accepting /\ drain[d] = "waiting" /\ drain'[d] = "returned"
         => before[d] \subseteq finished]_drainVars

(* A drain always returns: a failing item does not hold it, and the        *)
(* closing of the scope drops what it waited for.                          *)
DrainReturns ==
  \A d \in Drainer : []<>(drain[d] # "waiting")

(* drain means what it says: it does not return early, because the count   *)
(* is exact after every step (DrainableWorker.ts:55).                       *)
DrainIsExact == [][CountIsExact']_drainVars /\ DrainWaits
=============================================================================

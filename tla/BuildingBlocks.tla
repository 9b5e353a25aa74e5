--------------------------- MODULE BuildingBlocks ---------------------------
(***************************************************************************)
(* The small parts of the server that depend on nothing else, together:    *)
(* the keyed lock and, as instances, the two background workers, the       *)
(* buffer of latest states, the gate of commands and the waiters of        *)
(* settled effects.                                                        *)
(***************************************************************************)
EXTENDS KeyedLock

CONSTANTS
  Item, Drainer, NoItem,
  MaxEnqueues, MaxStates, MaxItems,
  Caller, NoCaller,
  Waiter, Deferred, NoDeferred

VARIABLES
  queue, accepting, outstanding, running, fiber, drain, offered, finished, before,
  keyQueue, latestByKey, queuedKeys, activeKeys, taken, working, enqueued,
  processed, draining, open,
  pending, tokens, source, reader, inFlight, retained, full, closed, emitted,
  emittedOf, deliveredOf,
  startup, recovered, server, readiness, commandReady, commandQueue, serving,
  worker, caller, ran,
  row, settledSignal, completed, owed, wait, joined

Drainable == INSTANCE DrainableWorker
Coalescing == INSTANCE KeyedCoalescingWorker
Buffer == INSTANCE LatestBuffer
Gate == INSTANCE CommandGate
Signals == INSTANCE SettledSignals

(* What stands for nothing is not one of the things.                       *)
ASSUME BlocksAssumption ==
  /\ NoItem \notin Item
  /\ NoCaller \notin Caller
  /\ NoDeferred \notin Deferred
  /\ MaxEnqueues \in Nat /\ MaxStates \in Nat

-----------------------------------------------------------------------------
(* drain counts exactly what is queued or running, and returns only when   *)
(* what was enqueued before it is processed (DrainableWorker.ts:55).        *)
DrainIsExact == Drainable!DrainIsExact

(* No key is dropped from the queue of the coalescing worker or doubled,   *)
(* and drainKey waits for what was enqueued (KeyedCoalescingWorker.ts:87).  *)
CoalescesExactly == Coalescing!CoalescesExactly

(* The buffer of latest states pairs each wakeup with something pending    *)
(* and charges exactly what it holds (LiveStreamBudget.ts:281).             *)
BufferIsExact == Buffer!BufferIsExact

(* No client command runs before the server has recovered, and none that   *)
(* was rejected (serverRuntimeStartup.ts:111).                              *)
NoEarlyCommand == Gate!NoEarlyCommand

(* Who awaits an effect returns only after it settled (EffectOutbox.ts:479). *)
WokenAfterSettle == Signals!WokenAfterSettle
=============================================================================

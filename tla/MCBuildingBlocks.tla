-------------------------- MODULE MCBuildingBlocks --------------------------
(* Small instances of the building blocks of the server, side by side: the *)
(* initial state picks one of them, and only that one runs.                *)
EXTENDS BuildingBlocks, ProviderSessions, ThreadLoading, Compaction, TLC

VARIABLE block                         (* the building block that runs      *)

drainVars ==
  <<queue, accepting, outstanding, running, fiber, drain, offered, finished, before>>
coalesceVars ==
  <<keyQueue, latestByKey, queuedKeys, activeKeys, taken, working, enqueued,
    processed, draining, open>>
bufferVars ==
  <<pending, tokens, source, reader, inFlight, retained, full, closed, emitted,
    emittedOf, deliveredOf>>
gateVars ==
  <<startup, recovered, server, readiness, commandReady, commandQueue, serving,
    worker, caller, ran>>
signalVars == <<row, settledSignal, completed, owed, wait, joined>>
providerVars == <<sessionVars, loadVars>>
vars == <<block, lockVars, drainVars, coalesceVars, bufferVars, gateVars, signalVars,
          providerVars, compactionVars>>

Block == {"lock", "drainable", "coalescing", "buffer", "gate", "signals",
          "sessions", "loading", "compaction"}

BlockInit ==
  /\ block \in Block
  /\ Init
  /\ Drainable!Init
  /\ Coalescing!Init
  /\ Buffer!Init
  /\ Gate!Init
  /\ Signals!Init
  /\ SessionsInit
  /\ LoadingInit
  /\ CompactionInit

LockStep ==
  /\ block = "lock"
  /\ Next
  /\ UNCHANGED <<block, drainVars, coalesceVars, bufferVars, gateVars, signalVars,
                 providerVars, compactionVars>>

DrainableStep ==
  /\ block = "drainable"
  /\ Drainable!Next
  /\ UNCHANGED <<block, lockVars, coalesceVars, bufferVars, gateVars, signalVars,
                 providerVars, compactionVars>>

CoalescingStep ==
  /\ block = "coalescing"
  /\ Coalescing!Next
  /\ UNCHANGED <<block, lockVars, drainVars, bufferVars, gateVars, signalVars,
                 providerVars, compactionVars>>

BufferStep ==
  /\ block = "buffer"
  /\ Buffer!Next
  /\ UNCHANGED <<block, lockVars, drainVars, coalesceVars, gateVars, signalVars,
                 providerVars, compactionVars>>

GateStep ==
  /\ block = "gate"
  /\ Gate!Next
  /\ UNCHANGED <<block, lockVars, drainVars, coalesceVars, bufferVars, signalVars,
                 providerVars, compactionVars>>

SignalsStep ==
  /\ block = "signals"
  /\ Signals!Next
  /\ UNCHANGED <<block, lockVars, drainVars, coalesceVars, bufferVars, gateVars,
                 providerVars, compactionVars>>

SessionsStep ==
  /\ block = "sessions"
  /\ SessionsNext
  /\ UNCHANGED <<block, lockVars, drainVars, coalesceVars, bufferVars, gateVars,
                 signalVars, loadVars, compactionVars>>

LoadingStep ==
  /\ block = "loading"
  /\ LoadingNext
  /\ UNCHANGED <<block, lockVars, drainVars, coalesceVars, bufferVars, gateVars,
                 signalVars, sessionVars, compactionVars>>

CompactionStep ==
  /\ block = "compaction"
  /\ CompactionNext
  /\ UNCHANGED <<block, lockVars, drainVars, coalesceVars, bufferVars, gateVars,
                 signalVars, providerVars>>

BlockNext ==
  \/ LockStep
  \/ DrainableStep
  \/ CoalescingStep
  \/ BufferStep
  \/ GateStep
  \/ SignalsStep
  \/ SessionsStep
  \/ LoadingStep
  \/ CompactionStep

(* The fairness of the block that runs; the lock, the loading of threads   *)
(* and the compaction are asked for none.                                  *)
BlockFairness ==
  \/ block \in {"lock", "loading", "compaction"}
  \/ block = "drainable" /\ Drainable!Fairness
  \/ block = "coalescing" /\ Coalescing!Fairness
  \/ block = "buffer" /\ Buffer!Fairness
  \/ block = "gate" /\ Gate!Fairness
  \/ block = "signals" /\ Signals!Fairness
  \/ block = "sessions" /\ SessionsFairness

BlockSpec == BlockInit /\ [][BlockNext]_vars /\ BlockFairness

(* The gate holds commands back and answers every early one.               *)
GateHolds == Gate!GateHolds

(* Nobody is left waiting: a drain returns, every value given to a key is  *)
(* processed, the subscriber of the latest states catches up, and whoever  *)
(* awaits a settled effect returns, and not before.                        *)
WaitersServed ==
  /\ Drainable!DrainReturns
  /\ Coalescing!ValuesProcessed
  /\ Buffer!BufferKeepsUp
  /\ Signals!WaitersExact
=============================================================================

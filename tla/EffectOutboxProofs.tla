------------------------- MODULE EffectOutboxProofs -------------------------
(***************************************************************************)
(* Proofs about EffectOutbox for every set of effects, threads and fibers  *)
(* and every bound.  IInv is inductive; each safety property of the module *)
(* follows from it, and so does the implementation of LaneQueue.  The last *)
(* two sections prove what liveness rests on: a lane always has a next     *)
(* step, and no cancellation is lost.                                      *)
(***************************************************************************)
EXTENDS EffectOutbox, WellFoundedInduction, TLAPS

(* The initial state satisfies the inductive invariant.                    *)
LEMMA InitIInv == Init => IInv
BY ConstantsAssumption DEF Init, IInv, TypeOK, Ownership, OnlyCancelledSignalled, Rowids, LaneOrder, Reconciled,
     DoneStaysDone, BudgetLeft, Budget, LeaseHasFiber, Status, Settled, Unsettled, Phase, PC, Outcome

(* A fiber inside runOnce has claimed an effect.                           *)
LEMMA BusyFiberHasJob ==
  ASSUME TypeOK, Ownership, NEW f \in Fiber, pc[f] # "idle"
  PROVE  job[f] \in Effect
BY DEF TypeOK, Ownership

(* Type correctness is preserved by every step.                            *)
LEMMA TypeStep == TypeOK /\ Ownership /\ [Next]_vars => TypeOK'
<1> SUFFICES ASSUME TypeOK, Ownership, [Next]_vars PROVE TypeOK'
  OBVIOUS
<1> USE ConstantsAssumption DEF TypeOK, Status, Settled, Unsettled, Phase, PC, Outcome,
        rowVars, fiberVars, signalVars, processVars
<1>1. ASSUME NEW t \in Thread, NEW new \in Effect \cup {NoEffect}, NEW kinds,
             Transact(t, new, kinds)
      PROVE  TypeOK'
  BY <1>1 DEF Transact, Insert, Doomed
<1>2. ASSUME NEW f \in Fiber, FiberStep(f) PROVE TypeOK'
  <2>1. ASSUME NEW e \in Effect, ClaimRow(f, e) PROVE TypeOK'
    BY <2>1 DEF ClaimRow
  <2>2. CASE ArmCancellation(f)
    BY <2>2 DEF ArmCancellation, Release
  <2>3. CASE Recheck(f)
    BY <2>3 DEF Recheck, Release
  <2>4. CASE RecheckFails(f)
    BY <2>4 DEF RecheckFails, StorageFails
  <2>5. CASE StopExecution(f)
    BY <2>5 DEF StopExecution, Release
  <2>6. ASSUME NEW o \in Outcome, FinishExecution(f, o) PROVE TypeOK'
    BY <2>6, BusyFiberHasJob DEF FinishExecution
  <2>7. CASE Settle(f)
    BY <2>7 DEF Settle, Release, WriteIfLeased, Verdict
  <2>8. CASE SettleFails(f)
    BY <2>8 DEF SettleFails, StorageFails, RecoveryPlan
  <2>9. CASE RecoverClaim(f)
    BY <2>9 DEF RecoverClaim, Release, WriteIfLeased
  <2>10. CASE RecoverClaimFails(f)
    BY <2>10 DEF RecoverClaimFails, Release
  <2>11. QED
    BY <1>2, <2>1, <2>2, <2>3, <2>4, <2>5, <2>6, <2>7, <2>8, <2>9, <2>10 DEF FiberStep
<1>3. ASSUME NEW e \in Effect, SignalCancellation(e) \/ PruneSettled(e) \/ Elapse(e)
      PROVE  TypeOK'
  <2>1. CASE SignalCancellation(e)
    <3>1. signal' \in [Effect -> {"none", "armed", "fired"}]
      BY <2>1 DEF SignalCancellation
    <3>2. QED
      BY <2>1, <3>1 DEF SignalCancellation
  <2>2. CASE PruneSettled(e)
    BY <2>2 DEF PruneSettled
  <2>3. CASE Elapse(e)
    BY <2>3 DEF Elapse
  <2>4. QED
    BY <1>3, <2>1, <2>2, <2>3
<1>4. CASE ProcessStep
  <2>1. CASE Boot
    BY <2>1 DEF Boot
  <2>2. CASE SweepCancel
    BY <2>2 DEF SweepCancel
  <2>3. CASE SweepRequeue
    BY <2>3 DEF SweepRequeue, ForgetSignals
  <2>4. CASE StartWorkers
    BY <2>4 DEF StartWorkers
  <2>5. CASE StopWorkers
    BY <2>5 DEF StopWorkers, ResetFibers
  <2>6. CASE Crash
    BY <2>6 DEF Crash, ResetFibers, ForgetSignals
  <2>7. QED
    BY <1>4, <2>1, <2>2, <2>3, <2>4, <2>5, <2>6 DEF ProcessStep
<1>5. CASE UNCHANGED vars
  BY <1>5 DEF vars
<1>6. QED
  BY <1>1, <1>2, <1>3, <1>4, <1>5 DEF Next, CommandStep, CommitCommand, RecoverThread

(* Claims stay exclusive and tied to running or cancelled rows.            *)
LEMMA OwnershipStep == IInv /\ TypeOK' /\ [Next]_vars => Ownership'
<1> SUFFICES ASSUME IInv, TypeOK', [Next]_vars PROVE Ownership'
  OBVIOUS
<1> USE ConstantsAssumption DEF IInv, TypeOK, Ownership, LaneOrder, Status, Settled, Unsettled, Phase, PC, Outcome, rowVars, fiberVars, signalVars, processVars
<1>1. ASSUME NEW t \in Thread, NEW new \in Effect \cup {NoEffect}, NEW kinds,
             CommitCommand(t, new, kinds) \/ RecoverThread(t, new)
      PROVE  Ownership'
  BY <1>1 DEF CommitCommand, RecoverThread, Transact, Insert, Doomed
<1>2. ASSUME NEW f \in Fiber, FiberStep(f) PROVE Ownership'
  <2>1. ASSUME NEW e \in Effect, ClaimRow(f, e) PROVE Ownership'
    BY <2>1 DEF ClaimRow, Claimable
  <2>2. CASE ArmCancellation(f)
    BY <2>2 DEF ArmCancellation, Release
  <2>3. CASE Recheck(f)
    BY <2>3 DEF Recheck, Release
  <2>4. CASE RecheckFails(f)
    BY <2>4 DEF RecheckFails, StorageFails
  <2>5. CASE StopExecution(f)
    BY <2>5 DEF StopExecution, Release
  <2>6. ASSUME NEW o \in Outcome, FinishExecution(f, o) PROVE Ownership'
    BY <2>6 DEF FinishExecution
  <2>7. CASE Settle(f)
    BY <2>7 DEF Settle, Release, WriteIfLeased, Verdict, Exhausted
  <2>8. CASE SettleFails(f)
    BY <2>8 DEF SettleFails, StorageFails, RecoveryPlan, Exhausted
  <2>9. CASE RecoverClaim(f)
    BY <2>9 DEF RecoverClaim, Release, WriteIfLeased
  <2>10. CASE RecoverClaimFails(f)
    BY <2>10 DEF RecoverClaimFails, Release
  <2>11. QED
    BY <1>2, <2>1, <2>2, <2>3, <2>4, <2>5, <2>6, <2>7, <2>8, <2>9, <2>10 DEF FiberStep
<1>3. ASSUME NEW e \in Effect, SignalCancellation(e) \/ PruneSettled(e) \/ Elapse(e)
      PROVE  Ownership'
  <2>1. CASE SignalCancellation(e)
    BY <2>1 DEF SignalCancellation
  <2>2. CASE PruneSettled(e)
    BY <2>2 DEF PruneSettled
  <2>3. CASE Elapse(e)
    BY <2>3 DEF Elapse
  <2>4. QED
    BY <1>3, <2>1, <2>2, <2>3
<1>4. CASE ProcessStep
  <2>1. CASE Boot
    BY <2>1 DEF Boot
  <2>2. CASE SweepCancel
    BY <2>2 DEF SweepCancel
  <2>3. CASE SweepRequeue
    BY <2>3 DEF SweepRequeue, ForgetSignals
  <2>4. CASE StartWorkers
    BY <2>4 DEF StartWorkers
  <2>5. CASE StopWorkers
    BY <2>5 DEF StopWorkers, ResetFibers
  <2>6. CASE Crash
    BY <2>6 DEF Crash, ResetFibers, ForgetSignals
  <2>7. QED
    BY <1>4, <2>1, <2>2, <2>3, <2>4, <2>5, <2>6 DEF ProcessStep
<1>5. CASE UNCHANGED vars
  BY <1>5 DEF vars
<1>6. QED
  BY <1>1, <1>2, <1>3, <1>4, <1>5 DEF Next, CommandStep

(* Signals are sent to the fibers of cancelled rows only.                  *)
LEMMA SignalledStep == IInv /\ TypeOK' /\ [Next]_vars => OnlyCancelledSignalled'
<1> SUFFICES ASSUME IInv, TypeOK', [Next]_vars PROVE OnlyCancelledSignalled'
  OBVIOUS
<1> USE ConstantsAssumption DEF IInv, TypeOK, Ownership, OnlyCancelledSignalled, Status, Settled, Unsettled, Phase, PC, Outcome, rowVars, fiberVars, signalVars, processVars
<1>1. ASSUME NEW t \in Thread, NEW new \in Effect \cup {NoEffect}, NEW kinds,
             CommitCommand(t, new, kinds) \/ RecoverThread(t, new)
      PROVE  OnlyCancelledSignalled'
  BY <1>1 DEF CommitCommand, RecoverThread, Transact, Insert, Doomed
<1>2. ASSUME NEW f \in Fiber, FiberStep(f) PROVE OnlyCancelledSignalled'
  <2>1. ASSUME NEW e \in Effect, ClaimRow(f, e) PROVE OnlyCancelledSignalled'
    BY <2>1 DEF ClaimRow, Claimable
  <2>2. CASE ArmCancellation(f)
    BY <2>2 DEF ArmCancellation, Release
  <2>3. CASE Recheck(f)
    BY <2>3 DEF Recheck, Release
  <2>4. CASE RecheckFails(f)
    BY <2>4 DEF RecheckFails, StorageFails
  <2>5. CASE StopExecution(f)
    BY <2>5 DEF StopExecution, Release
  <2>6. ASSUME NEW o \in Outcome, FinishExecution(f, o) PROVE OnlyCancelledSignalled'
    BY <2>6 DEF FinishExecution
  <2>7. CASE Settle(f)
    BY <2>7 DEF Settle, Release, WriteIfLeased, Verdict, Exhausted
  <2>8. CASE SettleFails(f)
    BY <2>8 DEF SettleFails, StorageFails, RecoveryPlan, Exhausted
  <2>9. CASE RecoverClaim(f)
    BY <2>9 DEF RecoverClaim, Release, WriteIfLeased
  <2>10. CASE RecoverClaimFails(f)
    BY <2>10 DEF RecoverClaimFails, Release
  <2>11. QED
    BY <1>2, <2>1, <2>2, <2>3, <2>4, <2>5, <2>6, <2>7, <2>8, <2>9, <2>10 DEF FiberStep
<1>3. ASSUME NEW e \in Effect, SignalCancellation(e) \/ PruneSettled(e) \/ Elapse(e)
      PROVE  OnlyCancelledSignalled'
  <2>1. CASE SignalCancellation(e)
    BY <2>1 DEF SignalCancellation
  <2>2. CASE PruneSettled(e)
    BY <2>2 DEF PruneSettled
  <2>3. CASE Elapse(e)
    BY <2>3 DEF Elapse
  <2>4. QED
    BY <1>3, <2>1, <2>2, <2>3
<1>4. CASE ProcessStep
  <2>1. CASE Boot
    BY <2>1 DEF Boot
  <2>2. CASE SweepCancel
    BY <2>2 DEF SweepCancel
  <2>3. CASE SweepRequeue
    BY <2>3 DEF SweepRequeue, ForgetSignals
  <2>4. CASE StartWorkers
    BY <2>4 DEF StartWorkers
  <2>5. CASE StopWorkers
    BY <2>5 DEF StopWorkers, ResetFibers
  <2>6. CASE Crash
    BY <2>6 DEF Crash, ResetFibers, ForgetSignals
  <2>7. QED
    BY <1>4, <2>1, <2>2, <2>3, <2>4, <2>5, <2>6 DEF ProcessStep
<1>5. CASE UNCHANGED vars
  BY <1>5 DEF vars
<1>6. QED
  BY <1>1, <1>2, <1>3, <1>4, <1>5 DEF Next, CommandStep

(* Rows keep distinct rowids.                                              *)
LEMMA RowidsStep == IInv /\ TypeOK' /\ [Next]_vars => Rowids'
<1> SUFFICES ASSUME IInv, TypeOK', [Next]_vars PROVE Rowids'
  OBVIOUS
<1> USE ConstantsAssumption DEF IInv, TypeOK, Ownership, Rowids, Status, Settled, Unsettled, Phase, PC, Outcome, rowVars, fiberVars, signalVars, processVars
<1>1. ASSUME NEW t \in Thread, NEW new \in Effect \cup {NoEffect}, NEW kinds,
             CommitCommand(t, new, kinds) \/ RecoverThread(t, new)
      PROVE  Rowids'
  BY <1>1 DEF CommitCommand, RecoverThread, Transact, Insert, Doomed
<1>2. ASSUME NEW f \in Fiber, FiberStep(f) PROVE Rowids'
  <2>1. ASSUME NEW e \in Effect, ClaimRow(f, e) PROVE Rowids'
    BY <2>1 DEF ClaimRow, Claimable
  <2>2. CASE ArmCancellation(f)
    BY <2>2 DEF ArmCancellation, Release
  <2>3. CASE Recheck(f)
    BY <2>3 DEF Recheck, Release
  <2>4. CASE RecheckFails(f)
    BY <2>4 DEF RecheckFails, StorageFails
  <2>5. CASE StopExecution(f)
    BY <2>5 DEF StopExecution, Release
  <2>6. ASSUME NEW o \in Outcome, FinishExecution(f, o) PROVE Rowids'
    BY <2>6 DEF FinishExecution
  <2>7. CASE Settle(f)
    BY <2>7 DEF Settle, Release, WriteIfLeased, Verdict, Exhausted
  <2>8. CASE SettleFails(f)
    BY <2>8 DEF SettleFails, StorageFails, RecoveryPlan, Exhausted
  <2>9. CASE RecoverClaim(f)
    BY <2>9 DEF RecoverClaim, Release, WriteIfLeased
  <2>10. CASE RecoverClaimFails(f)
    BY <2>10 DEF RecoverClaimFails, Release
  <2>11. QED
    BY <1>2, <2>1, <2>2, <2>3, <2>4, <2>5, <2>6, <2>7, <2>8, <2>9, <2>10 DEF FiberStep
<1>3. ASSUME NEW e \in Effect, SignalCancellation(e) \/ PruneSettled(e) \/ Elapse(e)
      PROVE  Rowids'
  <2>1. CASE SignalCancellation(e)
    BY <2>1 DEF SignalCancellation
  <2>2. CASE PruneSettled(e)
    BY <2>2 DEF PruneSettled
  <2>3. CASE Elapse(e)
    BY <2>3 DEF Elapse
  <2>4. QED
    BY <1>3, <2>1, <2>2, <2>3
<1>4. CASE ProcessStep
  <2>1. CASE Boot
    BY <2>1 DEF Boot
  <2>2. CASE SweepCancel
    BY <2>2 DEF SweepCancel
  <2>3. CASE SweepRequeue
    BY <2>3 DEF SweepRequeue, ForgetSignals
  <2>4. CASE StartWorkers
    BY <2>4 DEF StartWorkers
  <2>5. CASE StopWorkers
    BY <2>5 DEF StopWorkers, ResetFibers
  <2>6. CASE Crash
    BY <2>6 DEF Crash, ResetFibers, ForgetSignals
  <2>7. QED
    BY <1>4, <2>1, <2>2, <2>3, <2>4, <2>5, <2>6 DEF ProcessStep
<1>5. CASE UNCHANGED vars
  BY <1>5 DEF vars
<1>6. QED
  BY <1>1, <1>2, <1>3, <1>4, <1>5 DEF Next, CommandStep

(* No step starts, requeues or inserts a row out of order.                 *)
LEMMA LaneOrderStep == IInv /\ TypeOK' /\ [Next]_vars => LaneOrder'
<1> SUFFICES ASSUME IInv, TypeOK', [Next]_vars PROVE LaneOrder'
  OBVIOUS
<1> USE ConstantsAssumption DEF IInv, TypeOK, Ownership, Rowids, LaneOrder, SameLane, Status, Settled, Unsettled, Phase, PC, Outcome, rowVars, fiberVars, signalVars, processVars
<1>1. ASSUME NEW t \in Thread, NEW new \in Effect \cup {NoEffect}, NEW kinds,
             CommitCommand(t, new, kinds) \/ RecoverThread(t, new)
      PROVE  LaneOrder'
  BY <1>1 DEF CommitCommand, RecoverThread, Transact, Insert, Doomed
<1>2. ASSUME NEW f \in Fiber, FiberStep(f) PROVE LaneOrder'
  <2>1. ASSUME NEW e \in Effect, ClaimRow(f, e) PROVE LaneOrder'
    BY <2>1 DEF ClaimRow, Claimable
  <2>2. CASE ArmCancellation(f)
    BY <2>2 DEF ArmCancellation, Release
  <2>3. CASE Recheck(f)
    BY <2>3 DEF Recheck, Release
  <2>4. CASE RecheckFails(f)
    BY <2>4 DEF RecheckFails, StorageFails
  <2>5. CASE StopExecution(f)
    BY <2>5 DEF StopExecution, Release
  <2>6. ASSUME NEW o \in Outcome, FinishExecution(f, o) PROVE LaneOrder'
    BY <2>6 DEF FinishExecution
  <2>7. CASE Settle(f)
    BY <2>7 DEF Settle, Release, WriteIfLeased, Verdict, Exhausted
  <2>8. CASE SettleFails(f)
    BY <2>8 DEF SettleFails, StorageFails, RecoveryPlan, Exhausted
  <2>9. CASE RecoverClaim(f)
    BY <2>9 DEF RecoverClaim, Release, WriteIfLeased
  <2>10. CASE RecoverClaimFails(f)
    BY <2>10 DEF RecoverClaimFails, Release
  <2>11. QED
    BY <1>2, <2>1, <2>2, <2>3, <2>4, <2>5, <2>6, <2>7, <2>8, <2>9, <2>10 DEF FiberStep
<1>3. ASSUME NEW e \in Effect, SignalCancellation(e) \/ PruneSettled(e) \/ Elapse(e)
      PROVE  LaneOrder'
  <2>1. CASE SignalCancellation(e)
    BY <2>1 DEF SignalCancellation
  <2>2. CASE PruneSettled(e)
    BY <2>2 DEF PruneSettled
  <2>3. CASE Elapse(e)
    BY <2>3 DEF Elapse
  <2>4. QED
    BY <1>3, <2>1, <2>2, <2>3
<1>4. CASE ProcessStep
  <2>1. CASE Boot
    BY <2>1 DEF Boot
  <2>2. CASE SweepCancel
    BY <2>2 DEF SweepCancel
  <2>3. CASE SweepRequeue
    BY <2>3 DEF SweepRequeue, ForgetSignals
  <2>4. CASE StartWorkers
    BY <2>4 DEF StartWorkers
  <2>5. CASE StopWorkers
    BY <2>5 DEF StopWorkers, ResetFibers
  <2>6. CASE Crash
    BY <2>6 DEF Crash, ResetFibers, ForgetSignals
  <2>7. QED
    BY <1>4, <2>1, <2>2, <2>3, <2>4, <2>5, <2>6 DEF ProcessStep
<1>5. CASE UNCHANGED vars
  BY <1>5 DEF vars
<1>6. QED
  BY <1>1, <1>2, <1>3, <1>4, <1>5 DEF Next, CommandStep

(* Process-bound rows of an earlier process stay retired.                  *)
LEMMA ReconciledStep == IInv /\ TypeOK' /\ [Next]_vars => Reconciled'
<1> SUFFICES ASSUME IInv, TypeOK', [Next]_vars PROVE Reconciled'
  OBVIOUS
<1> USE ConstantsAssumption DEF IInv, TypeOK, Ownership, Reconciled, ProcessBound, ProcessBoundKind, Kind, Status, Settled, Unsettled, Phase, PC, Outcome, rowVars, fiberVars, signalVars, processVars
<1>1. ASSUME NEW t \in Thread, NEW new \in Effect \cup {NoEffect}, NEW kinds,
             CommitCommand(t, new, kinds) \/ RecoverThread(t, new)
      PROVE  Reconciled'
  BY <1>1 DEF CommitCommand, RecoverThread, Transact, Insert, Doomed
<1>2. ASSUME NEW f \in Fiber, FiberStep(f) PROVE Reconciled'
  <2>1. ASSUME NEW e \in Effect, ClaimRow(f, e) PROVE Reconciled'
    BY <2>1 DEF ClaimRow, Claimable
  <2>2. CASE ArmCancellation(f)
    BY <2>2 DEF ArmCancellation, Release
  <2>3. CASE Recheck(f)
    BY <2>3 DEF Recheck, Release
  <2>4. CASE RecheckFails(f)
    BY <2>4 DEF RecheckFails, StorageFails
  <2>5. CASE StopExecution(f)
    BY <2>5 DEF StopExecution, Release
  <2>6. ASSUME NEW o \in Outcome, FinishExecution(f, o) PROVE Reconciled'
    BY <2>6 DEF FinishExecution
  <2>7. CASE Settle(f)
    BY <2>7 DEF Settle, Release, WriteIfLeased, Verdict, Exhausted
  <2>8. CASE SettleFails(f)
    BY <2>8 DEF SettleFails, StorageFails, RecoveryPlan, Exhausted
  <2>9. CASE RecoverClaim(f)
    BY <2>9 DEF RecoverClaim, Release, WriteIfLeased
  <2>10. CASE RecoverClaimFails(f)
    BY <2>10 DEF RecoverClaimFails, Release
  <2>11. QED
    BY <1>2, <2>1, <2>2, <2>3, <2>4, <2>5, <2>6, <2>7, <2>8, <2>9, <2>10 DEF FiberStep
<1>3. ASSUME NEW e \in Effect, SignalCancellation(e) \/ PruneSettled(e) \/ Elapse(e)
      PROVE  Reconciled'
  <2>1. CASE SignalCancellation(e)
    BY <2>1 DEF SignalCancellation
  <2>2. CASE PruneSettled(e)
    BY <2>2 DEF PruneSettled
  <2>3. CASE Elapse(e)
    BY <2>3 DEF Elapse
  <2>4. QED
    BY <1>3, <2>1, <2>2, <2>3
<1>4. CASE ProcessStep
  <2>1. CASE Boot
    BY <2>1 DEF Boot
  <2>2. CASE SweepCancel
    BY <2>2 DEF SweepCancel
  <2>3. CASE SweepRequeue
    BY <2>3 DEF SweepRequeue, ForgetSignals
  <2>4. CASE StartWorkers
    BY <2>4 DEF StartWorkers
  <2>5. CASE StopWorkers
    BY <2>5 DEF StopWorkers, ResetFibers
  <2>6. CASE Crash
    BY <2>6 DEF Crash, ResetFibers, ForgetSignals
  <2>7. QED
    BY <1>4, <2>1, <2>2, <2>3, <2>4, <2>5, <2>6 DEF ProcessStep
<1>5. CASE UNCHANGED vars
  BY <1>5 DEF vars
<1>6. QED
  BY <1>1, <1>2, <1>3, <1>4, <1>5 DEF Next, CommandStep

(* Process-bound work that succeeded is not queued again.                  *)
LEMMA DoneStep == IInv /\ TypeOK' /\ [Next]_vars => DoneStaysDone'
<1> SUFFICES ASSUME IInv, TypeOK', [Next]_vars PROVE DoneStaysDone'
  OBVIOUS
<1> USE ConstantsAssumption DEF IInv, TypeOK, Ownership, DoneStaysDone, ProcessBound, ProcessBoundKind, Kind, Status, Settled, Unsettled, Phase, PC, Outcome, rowVars, fiberVars, signalVars, processVars
<1>1. ASSUME NEW t \in Thread, NEW new \in Effect \cup {NoEffect}, NEW kinds,
             CommitCommand(t, new, kinds) \/ RecoverThread(t, new)
      PROVE  DoneStaysDone'
  BY <1>1 DEF CommitCommand, RecoverThread, Transact, Insert, Doomed
<1>2. ASSUME NEW f \in Fiber, FiberStep(f) PROVE DoneStaysDone'
  <2>1. ASSUME NEW e \in Effect, ClaimRow(f, e) PROVE DoneStaysDone'
    BY <2>1 DEF ClaimRow, Claimable
  <2>2. CASE ArmCancellation(f)
    BY <2>2 DEF ArmCancellation, Release
  <2>3. CASE Recheck(f)
    BY <2>3 DEF Recheck, Release
  <2>4. CASE RecheckFails(f)
    BY <2>4 DEF RecheckFails, StorageFails
  <2>5. CASE StopExecution(f)
    BY <2>5 DEF StopExecution, Release
  <2>6. ASSUME NEW o \in Outcome, FinishExecution(f, o) PROVE DoneStaysDone'
    BY <2>6 DEF FinishExecution
  <2>7. CASE Settle(f)
    BY <2>7 DEF Settle, Release, WriteIfLeased, Verdict, Exhausted
  <2>8. CASE SettleFails(f)
    BY <2>8 DEF SettleFails, StorageFails, RecoveryPlan, Exhausted
  <2>9. CASE RecoverClaim(f)
    BY <2>9 DEF RecoverClaim, Release, WriteIfLeased
  <2>10. CASE RecoverClaimFails(f)
    BY <2>10 DEF RecoverClaimFails, Release
  <2>11. QED
    BY <1>2, <2>1, <2>2, <2>3, <2>4, <2>5, <2>6, <2>7, <2>8, <2>9, <2>10 DEF FiberStep
<1>3. ASSUME NEW e \in Effect, SignalCancellation(e) \/ PruneSettled(e) \/ Elapse(e)
      PROVE  DoneStaysDone'
  <2>1. CASE SignalCancellation(e)
    BY <2>1 DEF SignalCancellation
  <2>2. CASE PruneSettled(e)
    BY <2>2 DEF PruneSettled
  <2>3. CASE Elapse(e)
    BY <2>3 DEF Elapse
  <2>4. QED
    BY <1>3, <2>1, <2>2, <2>3
<1>4. CASE ProcessStep
  <2>1. CASE Boot
    BY <2>1 DEF Boot
  <2>2. CASE SweepCancel
    BY <2>2 DEF SweepCancel
  <2>3. CASE SweepRequeue
    BY <2>3 DEF SweepRequeue, ForgetSignals
  <2>4. CASE StartWorkers
    BY <2>4 DEF StartWorkers
  <2>5. CASE StopWorkers
    BY <2>5 DEF StopWorkers, ResetFibers
  <2>6. CASE Crash
    BY <2>6 DEF Crash, ResetFibers, ForgetSignals
  <2>7. QED
    BY <1>4, <2>1, <2>2, <2>3, <2>4, <2>5, <2>6 DEF ProcessStep
<1>5. CASE UNCHANGED vars
  BY <1>5 DEF vars
<1>6. QED
  BY <1>1, <1>2, <1>3, <1>4, <1>5 DEF Next, CommandStep

(* A claim spends an attempt that a retry or a loss has left.              *)
LEMMA BudgetStep == IInv /\ TypeOK' /\ [Next]_vars => BudgetLeft'
<1> SUFFICES ASSUME IInv, TypeOK', [Next]_vars PROVE BudgetLeft'
  OBVIOUS
<1> USE ConstantsAssumption DEF IInv, TypeOK, Ownership, BudgetLeft, Budget, Status, Settled, Unsettled, Phase, PC, Outcome, rowVars, fiberVars, signalVars, processVars
<1>1. ASSUME NEW t \in Thread, NEW new \in Effect \cup {NoEffect}, NEW kinds,
             CommitCommand(t, new, kinds) \/ RecoverThread(t, new)
      PROVE  BudgetLeft'
  BY <1>1 DEF CommitCommand, RecoverThread, Transact, Insert, Doomed
<1>2. ASSUME NEW f \in Fiber, FiberStep(f) PROVE BudgetLeft'
  <2>1. ASSUME NEW e \in Effect, ClaimRow(f, e) PROVE BudgetLeft'
    BY <2>1 DEF ClaimRow, Claimable
  <2>2. CASE ArmCancellation(f)
    BY <2>2 DEF ArmCancellation, Release
  <2>3. CASE Recheck(f)
    BY <2>3 DEF Recheck, Release
  <2>4. CASE RecheckFails(f)
    BY <2>4 DEF RecheckFails, StorageFails
  <2>5. CASE StopExecution(f)
    BY <2>5 DEF StopExecution, Release
  <2>6. ASSUME NEW o \in Outcome, FinishExecution(f, o) PROVE BudgetLeft'
    BY <2>6 DEF FinishExecution
  <2>7. CASE Settle(f)
    BY <2>7 DEF Settle, Release, WriteIfLeased, Verdict, Exhausted
  <2>8. CASE SettleFails(f)
    BY <2>8 DEF SettleFails, StorageFails, RecoveryPlan, Exhausted
  <2>9. CASE RecoverClaim(f)
    BY <2>9 DEF RecoverClaim, Release, WriteIfLeased
  <2>10. CASE RecoverClaimFails(f)
    BY <2>10 DEF RecoverClaimFails, Release
  <2>11. QED
    BY <1>2, <2>1, <2>2, <2>3, <2>4, <2>5, <2>6, <2>7, <2>8, <2>9, <2>10 DEF FiberStep
<1>3. ASSUME NEW e \in Effect, SignalCancellation(e) \/ PruneSettled(e) \/ Elapse(e)
      PROVE  BudgetLeft'
  <2>1. CASE SignalCancellation(e)
    BY <2>1 DEF SignalCancellation
  <2>2. CASE PruneSettled(e)
    BY <2>2 DEF PruneSettled
  <2>3. CASE Elapse(e)
    BY <2>3 DEF Elapse
  <2>4. QED
    BY <1>3, <2>1, <2>2, <2>3
<1>4. CASE ProcessStep
  <2>1. CASE Boot
    BY <2>1 DEF Boot
  <2>2. CASE SweepCancel
    BY <2>2 DEF SweepCancel
  <2>3. CASE SweepRequeue
    BY <2>3 DEF SweepRequeue, ForgetSignals
  <2>4. CASE StartWorkers
    BY <2>4 DEF StartWorkers
  <2>5. CASE StopWorkers
    BY <2>5 DEF StopWorkers, ResetFibers
  <2>6. CASE Crash
    BY <2>6 DEF Crash, ResetFibers, ForgetSignals
  <2>7. QED
    BY <1>4, <2>1, <2>2, <2>3, <2>4, <2>5, <2>6 DEF ProcessStep
<1>5. CASE UNCHANGED vars
  BY <1>5 DEF vars
<1>6. QED
  BY <1>1, <1>2, <1>3, <1>4, <1>5 DEF Next, CommandStep

(* A lease loses its fiber only on a second storage error or on decoding.  *)
LEMMA LeaseStep == IInv /\ TypeOK' /\ [Next]_vars => LeaseHasFiber'
<1> SUFFICES ASSUME IInv, TypeOK', [Next]_vars PROVE LeaseHasFiber'
  OBVIOUS
<1> USE ConstantsAssumption DEF IInv, TypeOK, Ownership, Reconciled, BudgetLeft, LeaseHasFiber, OnlyCancelledSignalled, ProcessBound, ProcessBoundKind, Status, Settled, Unsettled, Phase, PC, Outcome, rowVars, fiberVars, signalVars, processVars
<1>1. ASSUME NEW t \in Thread, NEW new \in Effect \cup {NoEffect}, NEW kinds,
             CommitCommand(t, new, kinds) \/ RecoverThread(t, new)
      PROVE  LeaseHasFiber'
  BY <1>1 DEF CommitCommand, RecoverThread, Transact, Insert, Doomed
<1>2. ASSUME NEW f \in Fiber, FiberStep(f) PROVE LeaseHasFiber'
  <2>1. ASSUME NEW e \in Effect, ClaimRow(f, e) PROVE LeaseHasFiber'
    BY <2>1 DEF ClaimRow, Claimable
  <2>2. CASE ArmCancellation(f)
    BY <2>2 DEF ArmCancellation, Release
  <2>3. CASE Recheck(f)
    BY <2>3 DEF Recheck, Release
  <2>4. CASE RecheckFails(f)
    BY <2>4 DEF RecheckFails, StorageFails
  <2>5. CASE StopExecution(f)
    BY <2>5 DEF StopExecution, Release
  <2>6. ASSUME NEW o \in Outcome, FinishExecution(f, o) PROVE LeaseHasFiber'
    BY <2>6 DEF FinishExecution
  <2>7. CASE Settle(f)
    BY <2>7 DEF Settle, Release, WriteIfLeased, Verdict, Exhausted
  <2>8. CASE SettleFails(f)
    BY <2>8 DEF SettleFails, StorageFails, RecoveryPlan, Exhausted
  <2>9. CASE RecoverClaim(f)
    BY <2>9 DEF RecoverClaim, Release, WriteIfLeased
  <2>10. CASE RecoverClaimFails(f)
    BY <2>10 DEF RecoverClaimFails, Release
  <2>11. QED
    BY <1>2, <2>1, <2>2, <2>3, <2>4, <2>5, <2>6, <2>7, <2>8, <2>9, <2>10 DEF FiberStep
<1>3. ASSUME NEW e \in Effect, SignalCancellation(e) \/ PruneSettled(e) \/ Elapse(e)
      PROVE  LeaseHasFiber'
  <2>1. CASE SignalCancellation(e)
    BY <2>1 DEF SignalCancellation
  <2>2. CASE PruneSettled(e)
    BY <2>2 DEF PruneSettled
  <2>3. CASE Elapse(e)
    BY <2>3 DEF Elapse
  <2>4. QED
    BY <1>3, <2>1, <2>2, <2>3
<1>4. CASE ProcessStep
  <2>1. CASE Boot
    BY <2>1 DEF Boot
  <2>2. CASE SweepCancel
    BY <2>2 DEF SweepCancel
  <2>3. CASE SweepRequeue
    BY <2>3 DEF SweepRequeue, ForgetSignals
  <2>4. CASE StartWorkers
    BY <2>4 DEF StartWorkers
  <2>5. CASE StopWorkers
    BY <2>5 DEF StopWorkers, ResetFibers
  <2>6. CASE Crash
    BY <2>6 DEF Crash, ResetFibers, ForgetSignals
  <2>7. QED
    BY <1>4, <2>1, <2>2, <2>3, <2>4, <2>5, <2>6 DEF ProcessStep
<1>5. CASE UNCHANGED vars
  BY <1>5 DEF vars
<1>6. QED
  BY <1>1, <1>2, <1>3, <1>4, <1>5 DEF Next, CommandStep
(* IInv is inductive.                                                      *)
LEMMA IInvStep == IInv /\ [Next]_vars => IInv'
<1> SUFFICES ASSUME IInv, [Next]_vars PROVE IInv'
  OBVIOUS
<1>1. TypeOK'
  BY TypeStep DEF IInv
<1>2. QED
  BY <1>1, OwnershipStep, SignalledStep, RowidsStep, LaneOrderStep, ReconciledStep, DoneStep,
     BudgetStep, LeaseStep DEF IInv

(* The inductive invariant holds in every reachable state.                 *)
THEOREM Invariance == Spec => []IInv
<1>1. QED
  BY InitIInv, IInvStep, PTL DEF Spec

(* The columns, fibers and signals keep their domains (TypeOK).            *)
THEOREM TypeCorrect == Spec => []TypeOK
<1>1. IInv => TypeOK
  BY DEF IInv
<1>2. QED
  BY <1>1, Invariance, PTL

(* Effects of one lane execute one at a time, but for a cancelled one that *)
(* is being interrupted (LaneSerial).                                      *)
THEOREM LanesAreSerial == Spec => []LaneSerial
<1>1. IInv => LaneSerial
  <2> SUFFICES ASSUME IInv, NEW f \in Fiber, NEW g \in Fiber, f # g, Executing(f), Executing(g),
                      SameLane(job[f], job[g])
               PROVE  "cancelled" \in {status[job[f]], status[job[g]]}
    BY DEF LaneSerial
  <2>1. /\ job[f] \in Effect /\ job[g] \in Effect /\ job[f] # job[g]
        /\ status[job[f]] \in {"running", "cancelled"}
        /\ status[job[g]] \in {"running", "cancelled"}
    BY DEF IInv, TypeOK, Ownership, Executing
  <2>2. ~(status[job[f]] = "running" /\ status[job[g]] = "running")
    BY <2>1 DEF IInv, LaneOrder, Unsettled
  <2>3. QED
    BY <2>1, <2>2
<1>2. QED
  BY <1>1, Invariance, PTL

(* A running row is the oldest unsettled row of its lane (LaneOrder).      *)
THEOREM LanesAreOrdered == Spec => []LaneOrder
<1>1. IInv => LaneOrder
  BY DEF IInv
<1>2. QED
  BY <1>1, Invariance, PTL

(* No process executes process-bound work another process accepted.        *)
THEOREM ProcessBoundNeverCrosses == Spec => []ProcessBoundStaysInProcess
<1>1. IInv => ProcessBoundStaysInProcess
  BY ConstantsAssumption
     DEF IInv, TypeOK, Ownership, Reconciled, ProcessBoundStaysInProcess, Executing
<1>2. QED
  BY <1>1, Invariance, PTL

(* Process-bound work that succeeded is never executed again.              *)
THEOREM ProcessBoundAtMostOnce == Spec => []ProcessBoundOnce
<1>1. IInv => ProcessBoundOnce
  BY DEF IInv, DoneStaysDone, ProcessBoundOnce, Executing
<1>2. QED
  BY <1>1, Invariance, PTL

(* Claims are bounded by maxAttempts plus lost processes and failed        *)
(* statements.                                                             *)
THEOREM AttemptsAreBounded == Spec => []AttemptsBounded
<1>1. IInv => AttemptsBounded
  BY DEF IInv, BudgetLeft, Budget, AttemptsBounded
<1>2. QED
  BY <1>1, Invariance, PTL

(* One failed statement strands no lease.                                  *)
THEOREM LeasesAreHeld == Spec => []LeaseHasFiber
<1>1. IInv => LeaseHasFiber
  BY DEF IInv
<1>2. QED
  BY <1>1, Invariance, PTL

-----------------------------------------------------------------------------
(* A settlement leaves rows that are not running alone.                    *)
LEMMA WriteKeepsSettled ==
  ASSUME TypeOK, NEW e \in Effect, NEW s, NEW d, WriteIfLeased(e, s, d), NEW o \in Effect,
         status[o] # "running"
  PROVE  status'[o] = status[o]
BY DEF TypeOK, WriteIfLeased

(* No step revives a settled row: it stays as it is or is pruned           *)
(* (SettledIsFinal).                                                       *)
THEOREM SettledRowsAreFinal == Spec => SettledIsFinal
<1>1. ASSUME IInv, [Next]_vars, NEW e \in Effect, status[e] \in Settled
      PROVE  status'[e] \in {status[e], "pruned"}
  <2> USE ConstantsAssumption DEF IInv, TypeOK, Settled, Unsettled,
          rowVars, fiberVars, signalVars, processVars
  <2>1. CASE CommandStep
    BY <1>1, <2>1 DEF CommandStep, CommitCommand, RecoverThread, Transact, Insert, Doomed
  <2>2. ASSUME NEW f \in Fiber, FiberStep(f) PROVE status'[e] \in {status[e], "pruned"}
    <3>1. CASE Settle(f) \/ RecoverClaim(f)
      <4>1. job[f] \in Effect
        BY <1>1, <3>1, BusyFiberHasJob DEF Settle, RecoverClaim
      <4>2. QED
        BY <1>1, <3>1, <4>1, WriteKeepsSettled DEF Settle, RecoverClaim
    <3>2. CASE \E o \in Effect : ClaimRow(f, o)
      BY <1>1, <3>2 DEF ClaimRow, Claimable
    <3>3. CASE ~(Settle(f) \/ RecoverClaim(f)) /\ ~(\E o \in Effect : ClaimRow(f, o))
      <4>1. status' = status
        BY <2>2, <3>3 DEF FiberStep, ArmCancellation, Recheck, RecheckFails, StopExecution,
                          FinishExecution, SettleFails, StorageFails, RecoverClaimFails
      <4>2. QED
        BY <4>1
    <3>4. QED
      BY <3>1, <3>2, <3>3
  <2>3. ASSUME NEW o \in Effect, SignalCancellation(o) \/ PruneSettled(o) \/ Elapse(o)
        PROVE  status'[e] \in {status[e], "pruned"}
    BY <1>1, <2>3 DEF SignalCancellation, PruneSettled, Elapse
  <2>4. CASE ProcessStep
    BY <1>1, <2>4 DEF ProcessStep, Boot, SweepCancel, SweepRequeue, StartWorkers, StopWorkers, Crash
  <2>5. CASE UNCHANGED vars
    BY <2>5 DEF vars
  <2>6. QED
    BY <1>1, <2>1, <2>2, <2>3, <2>4, <2>5 DEF Next
<1>2. IInv /\ [Next]_vars =>
        [\A e \in Effect : status[e] \in Settled => status'[e] \in {status[e], "pruned"}]_vars
  BY <1>1
<1>3. QED
  BY <1>2, Invariance, PTL DEF Spec, SettledIsFinal

-----------------------------------------------------------------------------
(* Steps that change neither a status between the places of a queue nor a  *)
(* rowid stutter in the lanes.                                             *)
LEMMA LanesStutter ==
  ASSUME status' = status, rowid' = rowid
  PROVE  UNCHANGED <<LanePlace, LaneRank>>
BY DEF LanePlace, LaneRank

(* A settlement is a departure, a return to the head of the lane, or       *)
(* nothing when the row was cancelled in the meantime.                     *)
LEMMA WriteIsLaneStep ==
  ASSUME IInv, NEW e \in Effect, NEW s \in {"pending", "succeeded", "failed"}, NEW d,
         WriteIfLeased(e, s, d), rowid' = rowid
  PROVE  [Lanes!Next]_<<LanePlace, LaneRank>>
<1> USE DEF IInv, TypeOK, Unsettled
<1>1. CASE status[e] # "running"
  BY <1>1, LanesStutter DEF WriteIfLeased
<1>2. CASE status[e] = "running" /\ s = "pending"
  <2>1. Lanes!PutBack({e})
    BY <1>2 DEF WriteIfLeased, Lanes!PutBack, LanePlace, LaneRank
  <2>2. QED
    BY <2>1 DEF Lanes!Next
<1>3. CASE status[e] = "running" /\ s # "pending"
  <2>1. Lanes!Withdraw({e})
    BY <1>3 DEF WriteIfLeased, Lanes!Withdraw, Lanes!Leave, Lanes!Queued, LanePlace, LaneRank
  <2>2. QED
    BY <2>1 DEF Lanes!Next
<1>4. QED
  BY <1>1, <1>2, <1>3

(* A transaction withdraws the doomed rows and submits the new one.        *)
LEMMA TransactIsLaneStep ==
  ASSUME IInv, NEW t \in Thread, NEW new \in Effect \cup {NoEffect}, NEW kinds,
         Transact(t, new, kinds)
  PROVE  Lanes!Next
<1> DEFINE S == Doomed(t, kinds)
<1> USE ConstantsAssumption DEF IInv, TypeOK, Unsettled
<1>1. S \in SUBSET Effect /\ \A e \in S : status[e] \in Unsettled
  BY DEF Doomed
<1>2. \A e \in Effect : status'[e] = IF e \in S THEN "cancelled"
                                     ELSE IF e = new THEN "pending" ELSE status[e]
  BY DEF Transact
<1>3. CASE new = NoEffect
  <2>1. rowid' = rowid
    BY <1>3 DEF Transact, Insert
  <2>2. Lanes!Withdraw(S)
    BY <1>1, <1>2, <1>3, <2>1
       DEF Lanes!Withdraw, Lanes!Leave, Lanes!Queued, LanePlace, LaneRank
  <2>3. QED
    BY <1>1, <2>2 DEF Lanes!Next
<1>4. CASE new # NoEffect
  <2>1. new \in Effect /\ status[new] = "absent" /\ new \notin S
    BY <1>1, <1>4 DEF Transact, Insert
  <2>2. PICK r \in {1} \cup {rowid[e] + 1 : e \in Effect} :
          /\ \A e \in Effect : rowid[e] < r
          /\ rowid' = [rowid EXCEPT ![new] = r]
    BY <1>4 DEF Transact, Insert
  <2>3. r \in Nat
    BY <2>2
  <2>4. /\ LanePlace' = [e \in Effect |-> IF e = new THEN "waiting"
                                          ELSE IF e \in S THEN "gone" ELSE LanePlace[e]]
        /\ LaneRank' = [e \in Effect |-> IF e = new THEN r
                                         ELSE IF e \in S THEN 0 ELSE LaneRank[e]]
    BY <1>1, <1>2, <2>1, <2>2, <2>3 DEF LanePlace, LaneRank
  <2>5. \A e \in Effect : LaneRank[e] < r
    BY <2>2, <2>3 DEF LaneRank, IInv, Rowids
  <2>6. Lanes!Submit(new, S)
    BY <1>1, <2>1, <2>3, <2>4, <2>5 DEF Lanes!Submit, Lanes!Queued, LanePlace
  <2>7. QED
    BY <1>1, <2>1, <2>6 DEF Lanes!Next
<1>5. QED
  BY <1>3, <1>4

(* Only the head of an idle lane is claimed.                               *)
LEMMA ClaimIsLaneStep ==
  ASSUME IInv, NEW f \in Fiber, NEW e \in Effect, ClaimRow(f, e)
  PROVE  Lanes!Next
<1> USE ConstantsAssumption DEF IInv, TypeOK, Unsettled
<1>1. \A o \in Effect : <<ThreadOf[o], KindOf[o] = "title">> = <<ThreadOf[e], KindOf[e] = "title">>
                        => SameLane(e, o)
  BY DEF SameLane
<1>2. LaneRank' = LaneRank /\ LanePlace' = [LanePlace EXCEPT ![e] = "working"]
  BY DEF ClaimRow, Claimable, LanePlace, LaneRank
<1>3. \A o \in Effect : SameLane(e, o) =>
        /\ LanePlace[o] # "working"
        /\ LanePlace[o] = "waiting" => LaneRank[e] <= LaneRank[o]
  BY DEF ClaimRow, Claimable, LanePlace, LaneRank
<1>4. LanePlace[e] = "waiting"
  BY DEF ClaimRow, Claimable, LanePlace
<1>5. Lanes!Start(e)
  BY <1>1, <1>2, <1>3, <1>4 DEF Lanes!Start
<1>6. QED
  BY <1>5 DEF Lanes!Next

(* Every step of the outbox is a step of the lanes or stutters.            *)
LEMMA LaneStep == IInv /\ [Next]_vars => [Lanes!Next]_<<LanePlace, LaneRank>>
<1> SUFFICES ASSUME IInv, [Next]_vars PROVE [Lanes!Next]_<<LanePlace, LaneRank>>
  OBVIOUS
<1> USE ConstantsAssumption DEF rowVars, fiberVars, signalVars, processVars
<1>1. CASE CommandStep
  BY <1>1, TransactIsLaneStep DEF CommandStep, CommitCommand, RecoverThread
<1>2. ASSUME NEW f \in Fiber, FiberStep(f) PROVE [Lanes!Next]_<<LanePlace, LaneRank>>
  <2>1. CASE \E e \in Effect : ClaimRow(f, e)
    BY <2>1, ClaimIsLaneStep
  <2>2. CASE Settle(f)
    <3>1. job[f] \in Effect /\ Verdict(f) \in {"pending", "succeeded", "failed"}
      BY <2>2, BusyFiberHasJob DEF Settle, Verdict, IInv
    <3>2. QED
      BY <2>2, <3>1, WriteIsLaneStep DEF Settle
  <2>3. CASE RecoverClaim(f)
    <3>1. job[f] \in Effect
      BY <2>3, BusyFiberHasJob DEF RecoverClaim, IInv
    <3>2. QED
      BY <2>3, <3>1, WriteIsLaneStep DEF RecoverClaim
  <2>4. CASE ~(\E e \in Effect : ClaimRow(f, e)) /\ ~Settle(f) /\ ~RecoverClaim(f)
    <3>1. status' = status /\ rowid' = rowid
      BY <1>2, <2>4 DEF FiberStep, ArmCancellation, Recheck, RecheckFails, StopExecution,
                        FinishExecution, SettleFails, StorageFails, RecoverClaimFails
    <3>2. QED
      BY <3>1, LanesStutter
  <2>5. QED
    BY <2>1, <2>2, <2>3, <2>4
<1>3. ASSUME NEW e \in Effect, SignalCancellation(e) \/ PruneSettled(e) \/ Elapse(e)
      PROVE  UNCHANGED <<LanePlace, LaneRank>>
  <2>1. CASE SignalCancellation(e) \/ Elapse(e)
    BY <2>1, LanesStutter DEF SignalCancellation, Elapse
  <2>2. CASE PruneSettled(e)
    BY <2>2 DEF PruneSettled, LanePlace, LaneRank, IInv, TypeOK, Unsettled
  <2>3. QED
    BY <1>3, <2>1, <2>2
<1>4. CASE ProcessStep
  <2>1. CASE SweepCancel
    <3> DEFINE S == {e \in Effect : ProcessBound(e) /\ status[e] \in Unsettled}
    <3>1. Lanes!Withdraw(S)
      BY <2>1 DEF SweepCancel, Lanes!Withdraw, Lanes!Leave, Lanes!Queued, LanePlace, LaneRank,
                  IInv, TypeOK, Unsettled
    <3>2. QED
      BY <3>1 DEF Lanes!Next
  <2>2. CASE SweepRequeue
    <3> DEFINE S == {e \in Effect : status[e] = "running" /\ ~ProcessBound(e)}
    <3>1. Lanes!PutBack(S)
      BY <2>2 DEF SweepRequeue, Lanes!PutBack, LanePlace, LaneRank, IInv, TypeOK, Unsettled
    <3>2. QED
      BY <3>1 DEF Lanes!Next
  <2>3. CASE Boot \/ StartWorkers \/ StopWorkers \/ Crash
    BY <2>3, LanesStutter DEF Boot, StartWorkers, StopWorkers, Crash
  <2>4. QED
    BY <1>4, <2>1, <2>2, <2>3 DEF ProcessStep
<1>5. CASE UNCHANGED vars
  BY <1>5, LanesStutter DEF vars
<1>6. QED
  BY <1>1, <1>2, <1>3, <1>4, <1>5 DEF Next

(* The outbox implements first-in first-out lanes (ImplementsLaneQueue).   *)
THEOREM OutboxImplementsLanes == Spec => ImplementsLaneQueue
<1>1. Init => Lanes!Init
  BY DEF Init, Lanes!Init, LanePlace, LaneRank, Unsettled
<1>2. QED
  BY <1>1, LaneStep, Invariance, PTL DEF Spec, ImplementsLaneQueue, Lanes!Spec

-----------------------------------------------------------------------------
(* No lane stalls.                                                         *)

(* In a serving process the oldest unsettled row of a lane is with a fiber,*)
(* can be claimed, or waits for its time, unless its lane is stranded:     *)
(* nothing else has to happen first for the lane to move on.               *)
LaneMoves ==
  \A e \in Effect :
    phase = "up" /\ status[e] \in Unsettled /\ ~Stranded(e) =>
      \E o \in Effect :
        /\ SameLane(e, o) /\ rowid[o] <= rowid[e]
        /\ \/ status[o] = "running" /\ \E f \in Fiber : job[f] = o
           \/ status[o] = "pending" /\ ~due[o]
           \/ Claimable(o)

(* The numbers are well ordered.                                          *)
LEMMA SmallestNumber ==
  ASSUME NEW S \in SUBSET Nat, S # {}
  PROVE  \E n \in S : \A m \in S : n <= m
<1> DEFINE R == {p \in Nat \X Nat : p[1] < p[2]}
<1>1. IsWellFoundedOn(R, Nat)
  BY NatLessThanWellFounded DEF OpToRel
<1>2. PICK n \in S : \A m \in S : <<m, n>> \notin R
  <2> HIDE DEF R
  <2> QED
    BY <1>1, WFMin
<1>3. ASSUME NEW m \in S PROVE n <= m
  <2>1. <<m, n>> \notin R /\ m \in Nat /\ n \in Nat
    BY <1>2
  <2>2. ~(m < n)
    BY <2>1
  <2>3. QED
    BY <2>1, <2>2
<1>4. QED
  BY <1>2, <1>3

(* The head of a lane is its running row, or its oldest pending one.       *)
LEMMA HeadMoves ==
  ASSUME IInv
  PROVE  LaneMoves
<1> SUFFICES ASSUME NEW e \in Effect, phase = "up", status[e] \in Unsettled, ~Stranded(e)
             PROVE  \E o \in Effect :
                      /\ SameLane(e, o) /\ rowid[o] <= rowid[e]
                      /\ \/ status[o] = "running" /\ \E f \in Fiber : job[f] = o
                         \/ status[o] = "pending" /\ ~due[o]
                         \/ Claimable(o)
  BY DEF LaneMoves
<1>1. \A o \in Effect : rowid[o] \in Nat
  BY DEF IInv, TypeOK
<1>2. CASE \E o \in Effect : SameLane(e, o) /\ status[o] = "running"
  <2>1. PICK o \in Effect : SameLane(e, o) /\ status[o] = "running"
    BY <1>2
  <2>2. \E f \in Fiber : job[f] = o
    BY <2>1 DEF IInv, LeaseHasFiber, Stranded
  <2>3. rowid[o] <= rowid[e]
    <3>1. CASE e = o
      BY <1>1, <3>1
    <3>2. CASE e # o
      <4>1. SameLane(o, e)
        BY <2>1 DEF SameLane
      <4>2. rowid[e] > rowid[o]
        BY <2>1, <3>2, <4>1 DEF IInv, LaneOrder
      <4>3. QED
        BY <1>1, <4>2
    <3>3. QED
      BY <3>1, <3>2
  <2>4. QED
    BY <2>1, <2>2, <2>3
<1>3. CASE \A o \in Effect : SameLane(e, o) => status[o] # "running"
  <2> DEFINE Waiting == {o \in Effect : SameLane(e, o) /\ status[o] = "pending"}
  <2> DEFINE Ranks == {rowid[o] : o \in Waiting}
  <2>1. e \in Waiting
    BY <1>3 DEF Unsettled, SameLane
  <2>2. Ranks \in SUBSET Nat /\ Ranks # {}
    BY <1>1, <2>1
  <2>3. PICK n \in Ranks : \A m \in Ranks : n <= m
    <3> HIDE DEF Ranks
    <3> QED
      BY <2>2, SmallestNumber
  <2>4. PICK o \in Waiting : rowid[o] = n
    BY <2>3
  <2>5. \A p \in Waiting : rowid[o] <= rowid[p]
    BY <2>3, <2>4
  <2>6. CASE due[o]
    <3>1. \A p \in Effect : SameLane(o, p) => SameLane(e, p)
      BY <2>4 DEF SameLane
    <3>2. \A p \in Effect : SameLane(o, p) =>
            status[p] # "running" /\ (status[p] = "pending" => rowid[p] >= rowid[o])
      BY <1>1, <1>3, <2>5, <3>1
    <3>3. Claimable(o)
      BY <2>4, <2>6, <3>2 DEF Claimable
    <3>4. QED
      BY <2>1, <2>4, <2>5, <3>3
  <2>7. CASE ~due[o]
    BY <2>1, <2>4, <2>5, <2>7
  <2>8. QED
    BY <2>6, <2>7
<1>4. QED
  BY <1>2, <1>3

(* Whatever is retried, cancelled or redone after a crash, a lane with     *)
(* work left always has somebody who may do the next step of it.           *)
THEOREM LanesNeverStall == Spec => []LaneMoves
<1>1. IInv => LaneMoves
  BY HeadMoves
<1>2. QED
  BY <1>1, Invariance, PTL

-----------------------------------------------------------------------------
(* No cancellation is lost.                                                *)

(* The execution of a row that was cancelled has been signalled, or who    *)
(* cancelled it is about to signal an execution that listens.              *)
CancellationReaches ==
  \A f \in Fiber :
    pc[f] = "executing" /\ status[job[f]] = "cancelled" =>
      \/ signal[job[f]] = "fired"
      \/ signal[job[f]] = "armed" /\ job[f] \in unsignalled

(* A fiber that has armed its signal keeps it until it leaves.             *)
Listening == \A f \in Fiber : pc[f] \in {"armed", "executing"} => signal[job[f]] \in {"armed", "fired"}

SignalInv == Listening /\ CancellationReaches

(* A fiber that stays where it is is not disturbed by what others do to    *)
(* their own rows.                                                         *)
LEMMA FiberListens ==
  ASSUME SignalInv, NEW g \in Fiber, pc'[g] = pc[g], job'[g] = job[g],
         signal'[job[g]] = signal[job[g]], unsignalled \subseteq unsignalled',
         pc[g] = "executing" /\ status'[job[g]] = "cancelled"
           => status[job[g]] = "cancelled" \/ job[g] \in unsignalled'
  PROVE  /\ pc'[g] \in {"armed", "executing"} => signal'[job'[g]] \in {"armed", "fired"}
         /\ pc'[g] = "executing" /\ status'[job'[g]] = "cancelled" =>
              \/ signal'[job'[g]] = "fired"
              \/ signal'[job'[g]] = "armed" /\ job'[g] \in unsignalled'
<1>1. pc'[g] \in {"armed", "executing"} => signal'[job'[g]] \in {"armed", "fired"}
  BY DEF SignalInv, Listening
<1>2. CASE pc[g] = "executing" /\ status'[job[g]] = "cancelled"
  <2>1. signal[job[g]] \in {"armed", "fired"}
    BY <1>2 DEF SignalInv, Listening
  <2>2. CASE status[job[g]] = "cancelled"
    BY <1>1, <1>2, <2>2 DEF SignalInv, CancellationReaches
  <2>3. CASE job[g] \in unsignalled'
    BY <1>1, <2>1, <2>3
  <2>4. QED
    BY <1>2, <2>2, <2>3
<1>3. QED
  BY <1>1, <1>2

(* Steps of a fiber: it arms, it looks again, or it leaves.                *)
LEMMA FiberStepListens ==
  ASSUME IInv, SignalInv, NEW f \in Fiber, FiberStep(f)
  PROVE  SignalInv'
<1> USE DEF IInv
<1>1. ASSUME NEW g \in Fiber, g # f
      PROVE  /\ pc'[g] \in {"armed", "executing"} => signal'[job'[g]] \in {"armed", "fired"}
             /\ pc'[g] = "executing" /\ status'[job'[g]] = "cancelled" =>
                  \/ signal'[job'[g]] = "fired"
                  \/ signal'[job'[g]] = "armed" /\ job'[g] \in unsignalled'
  <2>1. pc'[g] = pc[g] /\ job'[g] = job[g] /\ unsignalled' = unsignalled
    BY <1>1 DEF TypeOK, FiberStep, ClaimRow, ArmCancellation, Recheck, RecheckFails, StorageFails,
                StopExecution, FinishExecution, Settle, SettleFails, RecoverClaim,
                RecoverClaimFails, Release, rowVars, signalVars
  <2>2. CASE pc[g] = "idle"
    BY <2>1, <2>2
  <2>3. CASE pc[g] # "idle"
    <3>1. job[g] \in Effect /\ job[g] # job[f]
      BY <1>1, <2>3, BusyFiberHasJob DEF Ownership
    <3>2. signal'[job[g]] = signal[job[g]]
      BY <3>1 DEF TypeOK, FiberStep, ClaimRow, ArmCancellation, Recheck, RecheckFails,
                  StorageFails, StopExecution, FinishExecution, Settle, SettleFails,
                  RecoverClaim, RecoverClaimFails, WriteIfLeased, signalVars
    <3>3. status'[job[g]] = "cancelled" => status[job[g]] = "cancelled"
      BY <3>1 DEF TypeOK, FiberStep, ClaimRow, ArmCancellation, Recheck, RecheckFails,
                  StorageFails, StopExecution, FinishExecution, Settle, SettleFails,
                  RecoverClaim, RecoverClaimFails, WriteIfLeased, Verdict, rowVars
    <3>4. QED
      BY <2>1, <3>2, <3>3, FiberListens
  <2>4. QED
    BY <2>2, <2>3
<1>2. /\ pc'[f] \in {"armed", "executing"} => signal'[job'[f]] \in {"armed", "fired"}
      /\ pc'[f] = "executing" => status'[job'[f]] # "cancelled"
  <2>1. CASE ArmCancellation(f)
    <3>1. job[f] \in Effect
      BY <2>1, BusyFiberHasJob DEF ArmCancellation
    <3>2. QED
      BY <2>1, <3>1 DEF ArmCancellation, Release, TypeOK
  <2>2. CASE Recheck(f)
    BY <2>2 DEF Recheck, Release, TypeOK, SignalInv, Listening, rowVars
  <2>3. CASE ~ArmCancellation(f) /\ ~Recheck(f)
    <3>1. pc'[f] \notin {"armed", "executing"}
      BY <2>3 DEF TypeOK, FiberStep, ClaimRow, RecheckFails, StorageFails, StopExecution,
                  FinishExecution, Settle, SettleFails, RecoverClaim, RecoverClaimFails, Release
    <3>2. QED
      BY <3>1
  <2>4. QED
    BY <2>1, <2>2, <2>3
<1>3. QED
  BY <1>1, <1>2 DEF SignalInv, Listening, CancellationReaches

(* Steps of commands, of time and of the process.                          *)
LEMMA OtherStepListens ==
  ASSUME IInv, SignalInv, [Next]_vars, ~\E f \in Fiber : FiberStep(f)
  PROVE  SignalInv'
<1> USE DEF IInv
<1>1. CASE CommandStep
  <2>1. PICK t \in Thread, new \in Effect \cup {NoEffect}, kinds \in SUBSET Kind : Transact(t, new, kinds)
    <3>1. ProcessBoundKind \in SUBSET Kind
      BY DEF ProcessBoundKind, Kind
    <3>2. QED
      BY <1>1, <3>1 DEF CommandStep, CommitCommand, RecoverThread
  <2>2. UNCHANGED <<signal, pc, job>> /\ unsignalled \subseteq unsignalled'
    BY <2>1 DEF Transact, fiberVars
  <2>3. ASSUME NEW g \in Fiber, pc[g] = "executing", status'[job[g]] = "cancelled"
        PROVE  status[job[g]] = "cancelled" \/ job[g] \in unsignalled'
    <3>1. job[g] \in Effect
      BY <2>3, BusyFiberHasJob
    <3>2. QED
      BY <2>1, <2>3, <3>1 DEF Transact
  <2>4. QED
    BY <2>2, <2>3, FiberListens DEF SignalInv, Listening, CancellationReaches
<1>2. ASSUME NEW e \in Effect, SignalCancellation(e) PROVE SignalInv'
  <2>1. /\ UNCHANGED <<status, pc, job>> /\ unsignalled' = unsignalled \ {e}
        /\ signal' = [signal EXCEPT ![e] = IF signal[e] = "armed" THEN "fired" ELSE signal[e]]
    BY <1>2 DEF SignalCancellation, rowVars, fiberVars
  <2>2. ASSUME NEW g \in Fiber, pc[g] \in {"armed", "executing"}
        PROVE  /\ job[g] = e => signal'[job[g]] = "fired"
               /\ job[g] # e => /\ signal'[job[g]] = signal[job[g]]
                                /\ job[g] \in unsignalled => job[g] \in unsignalled'
    <3>1. job[g] \in Effect /\ signal[job[g]] \in {"armed", "fired"}
      BY <2>2, BusyFiberHasJob DEF SignalInv, Listening
    <3>2. QED
      BY <2>1, <3>1 DEF TypeOK
  <2>3. QED
    BY <2>1, <2>2 DEF SignalInv, Listening, CancellationReaches
<1>3. ASSUME NEW e \in Effect, PruneSettled(e) \/ Elapse(e) PROVE SignalInv'
  <2>1. /\ UNCHANGED <<signal, unsignalled, pc, job>>
        /\ \A o \in Effect : status'[o] = "cancelled" => status[o] = "cancelled"
    BY <1>3 DEF PruneSettled, Elapse, fiberVars, signalVars, TypeOK
  <2>2. \A g \in Fiber : pc[g] = "executing" => job[g] \in Effect
    BY BusyFiberHasJob
  <2>3. QED
    BY <2>1, <2>2 DEF SignalInv, Listening, CancellationReaches
<1>4. CASE ProcessStep
  <2>1. CASE StartWorkers
    BY <2>1 DEF StartWorkers, rowVars, fiberVars, signalVars, SignalInv, Listening,
                CancellationReaches
  <2>2. CASE ~StartWorkers
    <3>1. \A g \in Fiber : pc'[g] = "idle"
      BY <1>4, <2>2 DEF ProcessStep, Boot, SweepCancel, SweepRequeue, StopWorkers, Crash,
                        ResetFibers, fiberVars, Ownership, TypeOK
    <3>2. QED
      BY <3>1 DEF SignalInv, Listening, CancellationReaches
  <2>3. QED
    BY <2>1, <2>2
<1>5. CASE UNCHANGED vars
  BY <1>5 DEF vars, rowVars, fiberVars, signalVars, SignalInv, Listening, CancellationReaches
<1>6. QED
  BY <1>1, <1>2, <1>3, <1>4, <1>5 DEF Next

(* However a cancellation and the claim of its row interleave, an          *)
(* execution of a cancelled row is or will be told to stop: the signal is  *)
(* armed before the row is read again, so what that reading misses finds it.*)
THEOREM CancellationsReachExecutions == Spec => []CancellationReaches
<1>1. Init => SignalInv
  BY DEF Init, SignalInv, Listening, CancellationReaches
<1>2. IInv /\ SignalInv /\ [Next]_vars => SignalInv'
  BY FiberStepListens, OtherStepListens
<1>3. SignalInv => CancellationReaches
  BY DEF SignalInv
<1>4. QED
  BY <1>1, <1>2, <1>3, Invariance, PTL DEF Spec
=============================================================================

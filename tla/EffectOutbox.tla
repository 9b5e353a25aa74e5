---------------------------- MODULE EffectOutbox ----------------------------
(***************************************************************************)
(* The durable effect outbox of orchestration-v2 together with the worker  *)
(* fibers that drain it and the server process around both.                *)
(*                                                                         *)
(* Commands commit effect rows in SQLite (EffectOutbox.ts); a pool of      *)
(* fibers of one daemon claims a row, arms a cancellation signal, re-reads *)
(* the row, executes it against a provider, and settles it                 *)
(* (EffectWorker.ts).  A command may cancel unsettled rows: the row is     *)
(* cancelled inside the transaction, the fiber is told after the commit.   *)
(* The process may be lost at any step; startup and shutdown reconcile     *)
(* the rows the lost process left behind.                                  *)
(***************************************************************************)
EXTENDS Integers

CONSTANTS
  Effect,            (* effect ids, the primary key of a row               *)
  Thread,            (* conversation threads                               *)
  Fiber,             (* the daemon's worker fibers                         *)
  ThreadOf,          (* thread_id of an effect                             *)
  KindOf,            (* class of its effect_type, see Kind                 *)
  Undecodable,       (* effects whose stored payload no longer decodes     *)
  MaxAttempts,       (* maxAttempts of the worker                          *)
  MaxGenerations,    (* bound: how many times the process starts           *)
  MaxStorageErrors,  (* bound: how many SQL statements of a fiber fail     *)
  NoEffect           (* not an effect                                      *)

(* "turn": provider-turn.start and .restart, which an interrupt retires;   *)
(* "control": the other process-bound types; "title": thread-title         *)
(* generation, replay safe with a lane of its own; "replayable": the rest. *)
Kind == {"turn", "control", "title", "replayable"}
ProcessBoundKind == {"turn", "control"}

ASSUME ConstantsAssumption ==
  /\ ThreadOf \in [Effect -> Thread]
  /\ KindOf \in [Effect -> Kind]
  /\ Undecodable \subseteq Effect
  /\ MaxAttempts \in Nat \ {0}
  /\ MaxGenerations \in Nat
  /\ MaxStorageErrors \in Nat
  /\ NoEffect \notin Effect

VARIABLES
  status,         (* column status, "absent" before the insert             *)
  rowid,          (* SQLite rowid, 0 while there is no row                 *)
  attempts,       (* column attempt_count                                  *)
  due,            (* whether available_at has been reached                 *)
  phase,          (* what the server process is doing                      *)
  pc,             (* where each fiber is inside runOnce                    *)
  job,            (* the effect each fiber has claimed                     *)
  outcome,        (* what the fiber is about to write                      *)
  signal,         (* cancellationSignals: no entry, pending or completed   *)
  unsignalled,    (* cancelled rows whose signal is still to be sent       *)
  gen,            (* generation of the process, counted from 1             *)
  storageErrors,  (* failed SQL statements so far                          *)
  born,           (* history: the generation that committed the row        *)
  done            (* history: effects whose execution once succeeded       *)

rowVars == <<status, rowid, attempts, due, born>>
fiberVars == <<pc, job, outcome, done>>
signalVars == <<signal, unsignalled>>
processVars == <<phase, gen>>
vars == <<rowVars, fiberVars, signalVars, processVars, storageErrors>>

Unsettled == {"pending", "running"}
Settled == {"succeeded", "failed", "cancelled"}
Status == {"absent", "pruned"} \cup Unsettled \cup Settled

Phase == {"down", "boot", "bootSwept", "ready", "up", "stopping", "stopSwept"}
PC == {"idle", "claimed", "armed", "executing", "settling", "recovering"}
Outcome == {"none", "ok", "moot", "error", "requeue", "terminalize"}

ProcessBound(e) == KindOf[e] \in ProcessBoundKind

SameLane(e, o) ==
  /\ ThreadOf[e] = ThreadOf[o]
  /\ (KindOf[e] = "title") = (KindOf[o] = "title")

TypeOK ==
  /\ status \in [Effect -> Status]
  /\ rowid \in [Effect -> Nat]
  /\ attempts \in [Effect -> Nat]
  /\ due \in [Effect -> BOOLEAN]
  /\ born \in [Effect -> Nat]
  /\ phase \in Phase
  /\ gen \in Nat
  /\ storageErrors \in Nat
  /\ pc \in [Fiber -> PC]
  /\ job \in [Fiber -> Effect \cup {NoEffect}]
  /\ outcome \in [Fiber -> Outcome]
  /\ signal \in [Effect -> {"none", "armed", "fired"}]
  /\ unsignalled \subseteq Effect
  /\ done \subseteq Effect

Init ==
  /\ status = [e \in Effect |-> "absent"]
  /\ rowid = [e \in Effect |-> 0]
  /\ attempts = [e \in Effect |-> 0]
  /\ due = [e \in Effect |-> FALSE]
  /\ born = [e \in Effect |-> 0]
  /\ phase = "down"
  /\ gen = 0
  /\ storageErrors = 0
  /\ pc = [f \in Fiber |-> "idle"]
  /\ job = [f \in Fiber |-> NoEffect]
  /\ outcome = [f \in Fiber |-> "none"]
  /\ signal = [e \in Effect |-> "none"]
  /\ unsignalled = {}
  /\ done = {}

-----------------------------------------------------------------------------
(* Transactions of the command path.                                       *)

(* Faulty: a pruned rowid is given out again.                              *)
InsertAtFreeRowid(new) ==
  \/ /\ new = NoEffect
     /\ UNCHANGED <<rowid, due, born>>
  \/ /\ new # NoEffect
     /\ status[new] = "absent"
     /\ \E r \in {1} \cup {rowid[e] + 1 : e \in Effect} :
          /\ \A e \in Effect : rowid[e] # r
          /\ rowid' = [rowid EXCEPT ![new] = r]
     /\ \E now \in BOOLEAN : due' = [due EXCEPT ![new] = now]
     /\ born' = [born EXCEPT ![new] = gen]

(* SQLite gives a new row the largest rowid in the table plus one.  The    *)
(* row may be available now or later.                                      *)
Insert(new) ==
  \/ /\ new = NoEffect
     /\ UNCHANGED <<rowid, due, born>>
  \/ /\ new # NoEffect
     /\ status[new] = "absent"
     /\ \E r \in {1} \cup {rowid[e] + 1 : e \in Effect} :
          /\ \A e \in Effect : rowid[e] < r
          /\ rowid' = [rowid EXCEPT ![new] = r]
     /\ \E now \in BOOLEAN : due' = [due EXCEPT ![new] = now]
     /\ born' = [born EXCEPT ![new] = gen]

Doomed(t, kinds) ==
  {e \in Effect : ThreadOf[e] = t /\ KindOf[e] \in kinds /\ status[e] \in Unsettled}

(* One EventSink transaction: enqueue, then cancelUnsettled of the         *)
(* thread's rows of the given kinds.                                       *)
Transact(t, new, kinds) ==
  /\ new # NoEffect \/ Doomed(t, kinds) # {}
  /\ new # NoEffect => ThreadOf[new] = t
  /\ Insert(new)
  /\ status' = [e \in Effect |-> IF e \in Doomed(t, kinds) THEN "cancelled"
                                 ELSE IF e = new THEN "pending" ELSE status[e]]
  /\ unsignalled' = unsignalled \cup Doomed(t, kinds)
  /\ UNCHANGED <<attempts, signal, fiberVars, processVars, storageErrors>>

(* A command of a client or of a reactor.  Only an interrupt retires rows, *)
(* and it enqueues no turn start of its own.                               *)
CommitCommand(t, new, kinds) ==
  /\ phase \in {"ready", "up", "stopping", "stopSwept"}
  /\ kinds \in {{}, {"turn"}}
  /\ kinds # {} /\ new # NoEffect => KindOf[new] # "turn"
  /\ Transact(t, new, kinds)

(* reconcileProjection: one thread of a lost or stopping process, with the *)
(* continuation that resumes its interrupted run.                          *)
RecoverThread(t, new) ==
  /\ phase \in {"boot", "stopping"}
  /\ new # NoEffect => KindOf[new] = "replayable"
  /\ Transact(t, new, ProcessBoundKind)

(* The post-commit half of a cancellation.                                 *)
SignalCancellation(e) ==
  /\ e \in unsignalled
  /\ unsignalled' = unsignalled \ {e}
  /\ signal' = [signal EXCEPT ![e] = IF @ = "armed" THEN "fired" ELSE @]
  /\ UNCHANGED <<rowVars, fiberVars, processVars, storageErrors>>

(* The retention of seven days outlives every execution of the row.        *)
PruneSettled(e) ==
  /\ phase = "up"
  /\ status[e] \in {"succeeded", "cancelled"}
  /\ \A f \in Fiber : job[f] # e
  /\ e \notin unsignalled
  /\ status' = [status EXCEPT ![e] = "pruned"]
  /\ rowid' = [rowid EXCEPT ![e] = 0]
  /\ UNCHANGED <<attempts, due, born, fiberVars, signalVars, processVars, storageErrors>>

(* available_at passes.                                                    *)
Elapse(e) ==
  /\ status[e] = "pending"
  /\ ~due[e]
  /\ due' = [due EXCEPT ![e] = TRUE]
  /\ UNCHANGED <<status, rowid, attempts, born, fiberVars, signalVars, processVars, storageErrors>>

-----------------------------------------------------------------------------
(* One pass of a fiber through runOnce.                                    *)

(* Faulty: running rows do not block.                                      *)
ClaimableBesideRunning(e) ==
  /\ status[e] = "pending"
  /\ due[e]
  /\ \A o \in Effect : SameLane(e, o) /\ status[o] = "pending" => rowid[o] >= rowid[e]

(* Faulty: rows in backoff do not block.                                   *)
ClaimablePastBackoff(e) ==
  /\ status[e] = "pending"
  /\ due[e]
  /\ \A o \in Effect : SameLane(e, o) =>
       /\ status[o] # "running"
       /\ status[o] = "pending" /\ due[o] => rowid[o] >= rowid[e]

(* Faulty: the whole thread is one lane.                                   *)
ClaimableByThread(e) ==
  /\ status[e] = "pending"
  /\ due[e]
  /\ \A o \in Effect : ThreadOf[e] = ThreadOf[o] =>
       /\ status[o] # "running"
       /\ status[o] = "pending" => rowid[o] >= rowid[e]

(* Retry backoff blocks the later rows of a lane as a running row does.    *)
Claimable(e) ==
  /\ status[e] = "pending"
  /\ due[e]
  /\ \A o \in Effect : SameLane(e, o) =>
       /\ status[o] # "running"
       /\ status[o] = "pending" => rowid[o] >= rowid[e]

Release(f) ==
  /\ pc' = [pc EXCEPT ![f] = "idle"]
  /\ job' = [job EXCEPT ![f] = NoEffect]
  /\ outcome' = [outcome EXCEPT ![f] = "none"]

ClaimRow(f, e) ==
  /\ phase = "up"
  /\ pc[f] = "idle"
  /\ Claimable(e)
  /\ status' = [status EXCEPT ![e] = "running"]
  /\ attempts' = [attempts EXCEPT ![e] = @ + 1]
  /\ pc' = [pc EXCEPT ![f] = "claimed"]
  /\ job' = [job EXCEPT ![f] = e]
  /\ UNCHANGED <<rowid, due, born, outcome, done, signalVars, processVars, storageErrors>>

(* The rest of claimNext: a fresh signal, then the row is decoded.  A row  *)
(* that does not decode fails the claim and stays running.                 *)
ArmCancellation(f) ==
  /\ pc[f] = "claimed"
  /\ signal' = [signal EXCEPT ![job[f]] = "armed"]
  /\ \/ /\ job[f] \in Undecodable
        /\ Release(f)
     \/ /\ job[f] \notin Undecodable
        /\ pc' = [pc EXCEPT ![f] = "armed"]
        /\ UNCHANGED <<job, outcome>>
  /\ UNCHANGED <<done, rowVars, unsignalled, processVars, storageErrors>>

(* Faulty: the row is not read again before execution.                     *)
RecheckSkipped(f) ==
  /\ pc[f] = "armed"
  /\ pc' = [pc EXCEPT ![f] = "executing"]
  /\ UNCHANGED <<job, outcome, done, rowVars, signalVars, processVars, storageErrors>>

Recheck(f) ==
  /\ pc[f] = "armed"
  /\ \/ /\ status[job[f]] = "cancelled"
        /\ signal' = [signal EXCEPT ![job[f]] = "none"]
        /\ Release(f)
     \/ /\ status[job[f]] # "cancelled"
        /\ pc' = [pc EXCEPT ![f] = "executing"]
        /\ UNCHANGED <<job, outcome, signal>>
  /\ UNCHANGED <<done, rowVars, unsignalled, processVars, storageErrors>>

(* A statement of the fiber fails and plan is what its error path runs.    *)
StorageFails(f, plan) ==
  /\ storageErrors < MaxStorageErrors
  /\ storageErrors' = storageErrors + 1
  /\ pc' = [pc EXCEPT ![f] = "recovering"]
  /\ outcome' = [outcome EXCEPT ![f] = plan]
  /\ UNCHANGED <<job, done, rowVars, signalVars, processVars>>

(* Faulty: the error leaves runOnce without a requeue.                     *)
RecheckFailsUnhandled(f) ==
  /\ pc[f] = "armed"
  /\ storageErrors < MaxStorageErrors
  /\ storageErrors' = storageErrors + 1
  /\ Release(f)
  /\ UNCHANGED <<done, rowVars, signalVars, processVars>>

RecheckFails(f) ==
  /\ pc[f] = "armed"
  /\ StorageFails(f, "requeue")

(* The race is won by the cancellation: the execution is interrupted.      *)
StopExecution(f) ==
  /\ pc[f] = "executing"
  /\ signal[job[f]] = "fired"
  /\ signal' = [signal EXCEPT ![job[f]] = "none"]
  /\ Release(f)
  /\ UNCHANGED <<done, rowVars, unsignalled, processVars, storageErrors>>

(* The race is won by the executor: it succeeded, it failed, or it was an  *)
(* interrupt of a turn that had already ended.                             *)
FinishExecution(f, o) ==
  /\ pc[f] = "executing"
  /\ o \in {"ok", "moot", "error"}
  /\ o = "moot" => KindOf[job[f]] = "control"
  /\ pc' = [pc EXCEPT ![f] = "settling"]
  /\ outcome' = [outcome EXCEPT ![f] = o]
  /\ done' = IF o = "ok" THEN done \cup {job[f]} ELSE done
  /\ signal' = [signal EXCEPT ![job[f]] = "none"]
  /\ UNCHANGED <<job, rowVars, unsignalled, processVars, storageErrors>>

(* Faulty: the settlement does not check the row's status.                 *)
WriteAnyRow(e, newStatus, dueAgain) ==
  /\ status' = [status EXCEPT ![e] = newStatus]
  /\ due' = [due EXCEPT ![e] = dueAgain]
  /\ signal' = [signal EXCEPT ![e] = "none"]

(* succeed, retry and fail: they touch the row only while it is running    *)
(* under this worker's lease, and then drop the signal.                    *)
WriteIfLeased(e, newStatus, dueAgain) ==
  IF status[e] = "running"
  THEN /\ status' = [status EXCEPT ![e] = newStatus]
       /\ due' = [due EXCEPT ![e] = dueAgain]
       /\ signal' = [signal EXCEPT ![e] = "none"]
  ELSE UNCHANGED <<status, due, signal>>

(* Faulty: one attempt too many.                                           *)
ExhaustedLate(f) == outcome[f] = "error" /\ attempts[job[f]] > MaxAttempts

Exhausted(f) == outcome[f] = "error" /\ attempts[job[f]] >= MaxAttempts

Verdict(f) ==
  CASE outcome[f] \in {"ok", "moot"} -> "succeeded"
    [] Exhausted(f)                  -> "failed"
    [] OTHER                         -> "pending"

Settle(f) ==
  /\ pc[f] = "settling"
  /\ WriteIfLeased(job[f], Verdict(f), FALSE)
  /\ Release(f)
  /\ UNCHANGED <<rowid, attempts, born, done, unsignalled, processVars, storageErrors>>

(* Faulty: every failed settlement is queued again.                        *)
RecoveryPlanRequeue(f) == IF Exhausted(f) THEN "terminalize" ELSE "requeue"

(* Provider work that happened must not happen again: only replay-safe     *)
(* work, or work that failed with attempts left, is queued once more.      *)
RecoveryPlan(f) ==
  IF \/ outcome[f] = "moot"
     \/ Exhausted(f)
     \/ outcome[f] = "ok" /\ ProcessBound(job[f])
  THEN "terminalize" ELSE "requeue"

SettleFails(f) ==
  /\ pc[f] = "settling"
  /\ StorageFails(f, RecoveryPlan(f))

(* requeueClaim and terminalizeClaim.                                      *)
RecoverClaim(f) ==
  /\ pc[f] = "recovering"
  /\ WriteIfLeased(job[f], IF outcome[f] = "requeue" THEN "pending" ELSE "failed", TRUE)
  /\ Release(f)
  /\ UNCHANGED <<rowid, attempts, born, done, unsignalled, processVars, storageErrors>>

(* Their own failure is only logged.                                       *)
RecoverClaimFails(f) ==
  /\ pc[f] = "recovering"
  /\ storageErrors < MaxStorageErrors
  /\ storageErrors' = storageErrors + 1
  /\ Release(f)
  /\ UNCHANGED <<done, rowVars, signalVars, processVars>>

-----------------------------------------------------------------------------
(* The life of the server process.                                         *)

ResetFibers ==
  /\ pc' = [f \in Fiber |-> "idle"]
  /\ job' = [f \in Fiber |-> NoEffect]
  /\ outcome' = [f \in Fiber |-> "none"]

ForgetSignals ==
  /\ signal' = [e \in Effect |-> "none"]
  /\ unsignalled' = {}

Boot ==
  /\ phase = "down"
  /\ gen < MaxGenerations
  /\ phase' = "boot"
  /\ gen' = gen + 1
  /\ UNCHANGED <<rowVars, fiberVars, signalVars, storageErrors>>

(* Faulty: only claimed rows are retired.                                  *)
SweepCancelRunning ==
  /\ phase \in {"boot", "stopping"}
  /\ phase' = IF phase = "boot" THEN "bootSwept" ELSE "stopSwept"
  /\ status' = [e \in Effect |->
       IF ProcessBound(e) /\ status[e] = "running" THEN "cancelled" ELSE status[e]]
  /\ UNCHANGED <<rowid, attempts, due, born, fiberVars, signalVars, gen, storageErrors>>

(* First statement of reconcileAfterProcessLoss.                           *)
SweepCancel ==
  /\ phase \in {"boot", "stopping"}
  /\ phase' = IF phase = "boot" THEN "bootSwept" ELSE "stopSwept"
  /\ status' = [e \in Effect |->
       IF ProcessBound(e) /\ status[e] \in Unsettled THEN "cancelled" ELSE status[e]]
  /\ UNCHANGED <<rowid, attempts, due, born, fiberVars, signalVars, gen, storageErrors>>

(* Faulty: the leases of the lost process stay.                            *)
SweepRequeueNothing ==
  /\ phase \in {"bootSwept", "stopSwept"}
  /\ \/ phase = "bootSwept" /\ phase' = "ready" /\ UNCHANGED signalVars
     \/ phase = "stopSwept" /\ phase' = "down" /\ ForgetSignals
  /\ UNCHANGED <<rowVars, fiberVars, gen, storageErrors>>

(* Its second statement; at shutdown the process then exits.               *)
SweepRequeue ==
  /\ phase \in {"bootSwept", "stopSwept"}
  /\ LET stranded == {e \in Effect : status[e] = "running" /\ ~ProcessBound(e)}
     IN  /\ status' = [e \in Effect |-> IF e \in stranded THEN "pending" ELSE status[e]]
         /\ due' = [e \in Effect |-> due[e] \/ e \in stranded]
  /\ \/ phase = "bootSwept" /\ phase' = "ready" /\ UNCHANGED signalVars
     \/ phase = "stopSwept" /\ phase' = "down" /\ ForgetSignals
  /\ UNCHANGED <<rowid, attempts, born, fiberVars, gen, storageErrors>>

(* The parked daemon is released.                                          *)
StartWorkers ==
  /\ phase = "ready"
  /\ phase' = "up"
  /\ UNCHANGED <<rowVars, fiberVars, signalVars, gen, storageErrors>>

(* The daemon is interrupted; what its fibers had claimed stays running.   *)
StopWorkers ==
  /\ phase = "up"
  /\ phase' = "stopping"
  /\ ResetFibers
  /\ UNCHANGED <<done, rowVars, signalVars, gen, storageErrors>>

Crash ==
  /\ phase # "down"
  /\ phase' = "down"
  /\ ResetFibers
  /\ ForgetSignals
  /\ UNCHANGED <<done, rowVars, gen, storageErrors>>

-----------------------------------------------------------------------------
FiberStep(f) ==
  \/ \E e \in Effect : ClaimRow(f, e)
  \/ ArmCancellation(f)
  \/ Recheck(f)
  \/ RecheckFails(f)
  \/ StopExecution(f)
  \/ \E o \in Outcome : FinishExecution(f, o)
  \/ Settle(f)
  \/ SettleFails(f)
  \/ RecoverClaim(f)
  \/ RecoverClaimFails(f)

CommandStep ==
  \E t \in Thread, new \in Effect \cup {NoEffect} :
    \/ \E kinds \in SUBSET Kind : CommitCommand(t, new, kinds)
    \/ RecoverThread(t, new)

ProcessStep ==
  Boot \/ SweepCancel \/ SweepRequeue \/ StartWorkers \/ StopWorkers \/ Crash

Next ==
  \/ \E f \in Fiber : FiberStep(f)
  \/ CommandStep
  \/ \E e \in Effect : SignalCancellation(e) \/ PruneSettled(e) \/ Elapse(e)
  \/ ProcessStep

Spec == Init /\ [][Next]_vars

-----------------------------------------------------------------------------
(* Fairness.  Polling gives an idle fiber a claim attempt at least every   *)
(* thirty seconds whether or not a wakeup token arrived, and candidates    *)
(* are taken in the order of available_at, so none is passed over for      *)
(* ever; statements return, time passes, a started process goes on to      *)
(* serve, and the desktop or the service manager restarts an ended one.    *)
(* Crashes, shutdowns and storage errors are never owed.                   *)
WorkerFairness ==
  /\ \A f \in Fiber : WF_vars(ArmCancellation(f)) /\ WF_vars(Recheck(f))
                      /\ WF_vars(StopExecution(f)) /\ WF_vars(Settle(f))
                      /\ WF_vars(RecoverClaim(f))
  /\ \A e \in Effect : /\ SF_vars(\E f \in Fiber : ClaimRow(f, e))
                       /\ WF_vars(SignalCancellation(e))
                       /\ WF_vars(Elapse(e))
  /\ WF_vars(Boot \/ SweepCancel \/ SweepRequeue \/ StartWorkers)

(* Providers may hang: no execution is owed an end.                        *)
FairSpec == Spec /\ WorkerFairness

ExecutionsEnd == \A f \in Fiber : WF_vars(\E o \in Outcome : FinishExecution(f, o))

-----------------------------------------------------------------------------
(* Properties.                                                             *)

Executing(f) == pc[f] = "executing"

(* Two fibers execute effects of one lane at the same time only while one  *)
(* of the two is on its way out after its row was cancelled: the lane is   *)
(* serial even though all fibers share one worker id and cancellation      *)
(* frees the lane before the execution has stopped (EffectOutbox.ts:326).  *)
LaneSerial ==
  \A f, g \in Fiber :
    f # g /\ Executing(f) /\ Executing(g) /\ SameLane(job[f], job[g])
    => "cancelled" \in {status[job[f]], status[job[g]]}

(* A row runs only when every earlier row of its lane is settled, retry    *)
(* backoff and requeueing after a crash included (EffectOutbox.ts:314).    *)
LaneOrder ==
  \A e, o \in Effect :
    status[e] = "running" /\ SameLane(e, o) /\ e # o /\ status[o] \in Unsettled
    => status[o] = "pending" /\ rowid[o] > rowid[e]

(* A process-bound effect is executed only by the process that committed   *)
(* it: nothing accepted before a crash or a shutdown reaches the providers *)
(* of a later process (docs/internals/overview.md, reconcile).             *)
ProcessBoundStaysInProcess ==
  \A f \in Fiber : Executing(f) /\ ProcessBound(job[f]) => born[job[f]] = gen

(* Provider work that succeeded once is never executed again, whatever     *)
(* fails between the execution and its settlement (EffectWorker.ts:729).   *)
ProcessBoundOnce ==
  \A f \in Fiber : Executing(f) /\ ProcessBound(job[f]) => job[f] \notin done

(* Beyond maxAttempts a row is claimed only to redo what a lost process or *)
(* a failed statement left open, once for each of those.                   *)
AttemptsBounded ==
  \A e \in Effect : attempts[e] <= MaxAttempts + gen - 1 + storageErrors

(* In a serving process a running row has a fiber to settle it: one failed *)
(* statement never strands a lease, and so a lane; it takes a second one   *)
(* on the error path of the first, or a payload that cannot be decoded.    *)
LeaseHasFiber ==
  \A e \in Effect :
    phase = "up" /\ status[e] = "running"
    => \/ \E f \in Fiber : job[f] = e
       \/ e \in Undecodable
       \/ storageErrors >= 2

(* A settled row is final: no late settlement of a cancelled effect and no *)
(* reconciliation brings it back.  It may only be pruned.                  *)
SettledIsFinal ==
  [][\A e \in Effect : status[e] \in Settled => status'[e] \in {status[e], "pruned"}]_vars

(* The lane of e is held, until the process ends, by a lease no fiber has. *)
Stranded(e) ==
  /\ phase = "up"
  /\ \E o \in Effect : /\ SameLane(e, o)
                       /\ status[o] = "running"
                       /\ \A f \in Fiber : job[f] # o
                       /\ o \in Undecodable \/ storageErrors >= 2

(* The bound on restarts is used up and the process is down for good.      *)
OutOfGenerations == phase = "down" /\ gen = MaxGenerations

(* If every execution ends, every committed effect settles, over retries,  *)
(* backoff, lost processes and cancellations, unless its lane is held by a *)
(* stranded lease.                                                         *)
EventuallySettled ==
  ExecutionsEnd =>
    \A e \in Effect :
      status[e] \in Unsettled
      ~> status[e] \notin Unsettled \/ Stranded(e) \/ OutOfGenerations

(* An execution whose row was cancelled stops even if the provider never   *)
(* answers: the signal is armed before the row is re-read, so a            *)
(* cancellation that the re-read misses finds it (EffectWorker.ts:758).    *)
CancelledExecutionStops ==
  \A f \in Fiber, e \in Effect :
    (job[f] = e /\ status[e] = "cancelled") ~> job[f] # e
-----------------------------------------------------------------------------
(* The inductive invariant behind the safety properties.                   *)

(* A fiber holds a claim exactly while it is inside runOnce, only in a     *)
(* serving process, and alone; the row is still running unless cancelled.  *)
Ownership ==
  /\ \A f \in Fiber :
       /\ pc[f] = "idle" <=> job[f] = NoEffect
       /\ pc[f] # "idle" => phase = "up" /\ status[job[f]] \in {"running", "cancelled"}
       /\ pc[f] = "settling" => outcome[f] \in {"ok", "moot", "error"}
  /\ \A f, g \in Fiber : f # g /\ job[f] = job[g] => job[f] = NoEffect

(* Only the cancellation of a row interrupts its execution.                *)
OnlyCancelledSignalled ==
  \A e \in Effect : e \in unsignalled \/ signal[e] = "fired" => status[e] \in {"cancelled", "pruned"}

Rowids ==
  /\ \A e \in Effect : rowid[e] = 0 <=> status[e] \in {"absent", "pruned"}
  /\ \A e, o \in Effect : e # o /\ rowid[e] = rowid[o] => rowid[e] = 0

(* What reconciliation has achieved by the time the daemon starts.         *)
Reconciled ==
  /\ phase \in {"bootSwept", "ready", "up"} =>
       \A e \in Effect : ProcessBound(e) /\ status[e] \in Unsettled => born[e] = gen
  /\ phase = "bootSwept" => \A e \in Effect : ProcessBound(e) => status[e] \notin Unsettled
  /\ phase = "ready" => \A e \in Effect : status[e] # "running"
  /\ \A f \in Fiber : job[f] # NoEffect /\ ProcessBound(job[f]) => born[job[f]] = gen

(* Process-bound work that succeeded is on its way to a terminal status.   *)
DoneStaysDone ==
  \A e \in done : ProcessBound(e) =>
    /\ status[e] \notin {"absent", "pending"}
    /\ \A f \in Fiber : job[f] = e =>
         \/ pc[f] = "settling" /\ outcome[f] = "ok"
         \/ pc[f] = "recovering" /\ outcome[f] = "terminalize"

(* A row that can be claimed again has an attempt left in its budget.      *)
Budget == MaxAttempts + gen - 1 + storageErrors

BudgetLeft ==
  /\ phase # "down" => gen >= 1
  /\ \A e \in Effect :
       /\ attempts[e] <= Budget
       /\ phase \in {"boot", "bootSwept", "ready"} => attempts[e] < Budget
       /\ phase = "up" /\ status[e] \in {"absent", "pending"} => attempts[e] < Budget
  /\ \A f \in Fiber : pc[f] = "recovering" => attempts[job[f]] < Budget /\ storageErrors >= 1

IInv ==
  /\ TypeOK /\ Ownership /\ OnlyCancelledSignalled /\ Rowids /\ LaneOrder
  /\ Reconciled /\ DoneStaysDone /\ BudgetLeft /\ LeaseHasFiber

-----------------------------------------------------------------------------
(* The outbox implements the lanes of LaneQueue.                           *)

LanePlace ==
  [e \in Effect |-> CASE status[e] = "absent"  -> "new"
                      [] status[e] = "pending" -> "waiting"
                      [] status[e] = "running" -> "working"
                      [] OTHER                 -> "gone"]

LaneRank == [e \in Effect |-> IF status[e] \in Unsettled THEN rowid[e] ELSE 0]

Lanes ==
  INSTANCE LaneQueue WITH
    Job <- Effect,
    LaneOf <- [e \in Effect |-> <<ThreadOf[e], KindOf[e] = "title">>],
    place <- LanePlace,
    rank <- LaneRank

(* Whatever commands, fibers, crashes and reconciliations do, each lane is *)
(* a first-in first-out queue worked on by one fiber at a time, and a row  *)
(* that left it never comes back (EffectOutbox.ts:314).                    *)
ImplementsLaneQueue == Lanes!Spec
=============================================================================

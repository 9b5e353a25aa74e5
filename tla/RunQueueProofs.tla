--------------------------- MODULE RunQueueProofs ---------------------------
(***************************************************************************)
(* Proofs about RunQueue: one run of a thread is active at a time, and     *)
(* what a user had in the queue at a Stop or a restart waits for the user. *)
(* A run that ended does not come back, and checkpoints precede turns.     *)
(* The last two sections prove what the liveness of the queue rests on:    *)
(* every active run, and every waiting message, has what drives it.        *)
(***************************************************************************)
EXTENDS RunQueue, FiniteSetTheorems, WellFoundedInduction, TLAPS

(* The tables of the thread and what is under way have their types.        *)
Tables ==
  /\ status \in [Run -> Status]
  /\ held \in [Run -> BOOLEAN]
  /\ author \in [Run -> {"none", "user", "agent", "wake"}]
  /\ turn \in [Run -> {"none", "starting", "recorded"}]

(* Messages get their ordinals in the order in which they arrive.          *)
ArrivalOrder == \A q, r \in Run : q < r /\ status[r] # "none" => status[q] # "none"

(* Only messages of users are reviewed by users.                           *)
UsersOnly == \A r \in unreviewed : r \in Run /\ author[r] = "user"

(* A Stop under way aims at a run that left the queue.                     *)
PlanBegun ==
  plan # NoPlan => /\ server # "down" /\ plan.run \in Run /\ plan.run \notin unreviewed
                   /\ status[plan.run] \notin {"none", "queued"}

(* A capture under way has a run that left the queue, and one that was     *)
(* stopped before the capture read it stays stopped.                       *)
CaptureBegun ==
  capturing # NotCapturing =>
    /\ server = "up" /\ capturing.run \in Run
    /\ status[capturing.run] \notin {"none", "queued"}
    /\ capturing.stopped => status[capturing.run] \in {"interrupted", "cancelled"}
    /\ ~capturing.stopped => capturing.run \notin unreviewed

(* What the shutdown read is not older than the queue of its users.        *)
SnapshotKept ==
  snapshot.taken =>
    /\ server = "stopping"
    /\ snapshot.status \in [Run -> Status] /\ snapshot.held \in [Run -> BOOLEAN]
    /\ \A r \in Run :
         /\ status[r] = "none" => snapshot.status[r] = "none"
         /\ status[r] = "queued" /\ author[r] = "user"
            => snapshot.status[r] = "queued" /\ (snapshot.held[r] => held[r])

QInv ==
  /\ Tables /\ ArrivalOrder /\ OneActive /\ HoldRespected /\ UsersOnly
  /\ PlanBegun /\ CaptureBegun /\ SnapshotKept

coreVars == <<status, held, author, turn, unreviewed, plan, capturing, server, snapshot>>

-----------------------------------------------------------------------------
(* Steps that concern none of this.                                        *)
LEMMA CoreUnchanged ==
  ASSUME QInv, UNCHANGED coreVars
  PROVE  QInv'
BY DEF QInv, coreVars, Tables, ArrivalOrder, OneActive, Active, HoldRespected, UsersOnly, PlanBegun,
       CaptureBegun, SnapshotKept

(* An active run moves on, or ends: preparations, turns and their reports. *)
LEMMA RunMoves ==
  ASSUME QInv,
         NEW r \in Run, NEW s \in ActiveStatus \cup SettledStatus,
         status[r] \in ActiveStatus,
         status' = [status EXCEPT ![r] = s],
         turn' \in [Run -> {"none", "starting", "recorded"}],
         UNCHANGED <<held, author, unreviewed, plan, capturing, server, snapshot>>
  PROVE  QInv'
<1>1. Tables'
  BY DEF QInv, Tables, Status
<1>2. ArrivalOrder'
  BY DEF QInv, Tables, ArrivalOrder, ActiveStatus, SettledStatus
<1>3. OneActive'
  BY DEF QInv, Tables, OneActive, Active
<1>4. HoldRespected' /\ UsersOnly'
  BY DEF QInv, Tables, HoldRespected, UsersOnly, ActiveStatus
<1>5. PlanBegun'
  BY DEF QInv, Tables, PlanBegun, ActiveStatus, SettledStatus
<1>6. CaptureBegun'
  BY DEF QInv, Tables, CaptureBegun, ActiveStatus, SettledStatus
<1>7. SnapshotKept'
  BY DEF QInv, Tables, SnapshotKept, ActiveStatus, SettledStatus
<1> QED BY <1>1, <1>2, <1>3, <1>4, <1>5, <1>6, <1>7 DEF QInv

LEMMA MovingSteps ==
  ASSUME QInv, NEW r \in Run,
         \/ ReleasePrepared \/ FailPrepared
         \/ TurnStarts(r) \/ SettleBeforeStart(r) \/ AcceptTurn(r) \/ StartFails(r) \/ TurnEnds(r)
  PROVE  QInv'
<1> USE QueueAssumption
<1> turn \in [Run -> {"none", "starting", "recorded"}]
  BY DEF QInv, Tables
<1>1. CASE ReleasePrepared
  <2>1. FirstRun \in Run /\ "starting" \in ActiveStatus \cup SettledStatus
    BY DEF Run, FirstRun, ActiveStatus
  <2> QED BY <1>1, <2>1, RunMoves DEF ReleasePrepared, ActiveStatus, serverVars, historyVars
<1>2. CASE FailPrepared
  <2>1. FirstRun \in Run /\ "failed" \in ActiveStatus \cup SettledStatus
    BY DEF Run, FirstRun, SettledStatus
  <2> QED BY <1>2, <2>1, RunMoves DEF FailPrepared, ActiveStatus, processVars, serverVars, historyVars
<1>3. CASE TurnStarts(r)
  <2>1. CASE status[r] = "starting"
    <3>1. "running" \in ActiveStatus \cup SettledStatus
      BY DEF ActiveStatus
    <3>2. turn' \in [Run -> {"none", "starting", "recorded"}]
      BY <1>3, <2>1 DEF TurnStarts
    <3> QED BY <1>3, <2>1, <3>1, <3>2, RunMoves
            DEF TurnStarts, ActiveStatus, processVars, serverVars, historyVars
  <2>2. CASE status[r] # "starting"
    BY <1>3, <2>2, CoreUnchanged DEF TurnStarts, coreVars, processVars, serverVars, historyVars
  <2> QED BY <2>1, <2>2
<1>4. CASE SettleBeforeStart(r)
  <2>1. PICK s \in {"completed", "failed"} : Ends(r, s)
    BY <1>4 DEF SettleBeforeStart
  <2>2. s \in ActiveStatus \cup SettledStatus /\ s # "waiting"
    BY DEF SettledStatus
  <2> QED BY <1>4, <2>1, <2>2, RunMoves
          DEF SettleBeforeStart, Ends, ActiveStatus, processVars, serverVars, historyVars
<1>5. CASE AcceptTurn(r)
  <2>1. turn' \in [Run -> {"none", "starting", "recorded"}]
    BY <1>5 DEF AcceptTurn
  <2> QED BY <1>5, <2>1 DEF AcceptTurn, runVars, serverVars, historyVars, QInv, Tables, ArrivalOrder,
              OneActive, Active, HoldRespected, UsersOnly, PlanBegun, CaptureBegun, SnapshotKept
<1>6. CASE StartFails(r)
  <2>1. turn' \in [Run -> {"none", "starting", "recorded"}]
    BY <1>6 DEF StartFails
  <2>2. CASE status[r] = "running"
    <3>1. Ends(r, "failed") /\ "failed" \in ActiveStatus \cup SettledStatus
      BY <1>6, <2>2 DEF StartFails, SettledStatus
    <3> QED BY <1>6, <2>1, <2>2, <3>1, RunMoves
            DEF StartFails, Ends, ActiveStatus, serverVars, historyVars
  <2>3. CASE status[r] # "running"
    BY <1>6, <2>1, <2>3 DEF StartFails, serverVars, historyVars, QInv, Tables, ArrivalOrder,
              OneActive, Active, HoldRespected, UsersOnly, PlanBegun, CaptureBegun, SnapshotKept
  <2> QED BY <2>2, <2>3
<1>7. CASE TurnEnds(r)
  <2>1. turn' \in [Run -> {"none", "starting", "recorded"}]
    BY <1>7 DEF TurnEnds
  <2>2. CASE status[r] = "running"
    <3>1. PICK s \in {"waiting", "interrupted", "failed"} : status' = [status EXCEPT ![r] = s]
      BY <1>7, <2>2 DEF TurnEnds, Finalize, Ends
    <3>2. s \in ActiveStatus \cup SettledStatus
      BY DEF SettledStatus, ActiveStatus
    <3> QED BY <1>7, <2>1, <2>2, <3>1, <3>2, RunMoves
            DEF TurnEnds, ActiveStatus, serverVars, historyVars
  <2>3. CASE status[r] # "running"
    BY <1>7, <2>1, <2>3 DEF TurnEnds, serverVars, historyVars, QInv, Tables, ArrivalOrder,
              OneActive, Active, HoldRespected, UsersOnly, PlanBegun, CaptureBegun, SnapshotKept
  <2> QED BY <2>2, <2>3
<1> QED BY <1>1, <1>2, <1>3, <1>4, <1>5, <1>6, <1>7

(* Steps of the captures.                                                  *)
LEMMA CaptureSteps ==
  ASSUME QInv, Capture
  PROVE  QInv'
<1>1. ASSUME NEW r \in Run, CaptureRead(r) PROVE QInv'
  <2>1. CaptureBegun'
    <3>1. CASE status[r] \in {"waiting", "interrupted", "cancelled"}
      <4>1. /\ capturing' = [run |-> r, stopped |-> status[r] # "waiting"]
            /\ server' = "up" /\ status' = status /\ unreviewed' = unreviewed
        BY <1>1, <3>1 DEF CaptureRead, LaneFree, runVars, serverVars, historyVars
      <4>2. CASE status[r] = "waiting"
        <5>1. capturing' = [run |-> r, stopped |-> FALSE] /\ r \notin unreviewed
          BY <4>1, <4>2 DEF QInv, HoldRespected
        <5> QED BY <4>1, <4>2, <5>1 DEF CaptureBegun
      <4>3. CASE status[r] # "waiting"
        <5>1. capturing' = [run |-> r, stopped |-> TRUE]
          BY <4>1, <4>3
        <5> QED BY <3>1, <4>1, <4>3, <5>1 DEF CaptureBegun
      <4> QED BY <4>2, <4>3
    <3>2. CASE status[r] \notin {"waiting", "interrupted", "cancelled"}
      BY <1>1, <3>2 DEF CaptureRead, QInv, CaptureBegun, runVars, serverVars, historyVars
    <3> QED BY <3>1, <3>2
  <2> QED BY <1>1, <2>1 DEF CaptureRead, runVars, serverVars, historyVars, QInv, Tables,
              ArrivalOrder, OneActive, Active, HoldRespected, UsersOnly, PlanBegun, SnapshotKept
<1>2. ASSUME CaptureCommit PROVE QInv'
  <2> DEFINE r == capturing.run
  <2>1. /\ r \in Run /\ status[r] \notin {"none", "queued"}
        /\ capturing.stopped => status[r] \in {"interrupted", "cancelled"}
        /\ ~capturing.stopped => r \notin unreviewed
    BY <1>2 DEF CaptureCommit, QInv, CaptureBegun
  <2>2. /\ status' = [q \in Run |-> IF q = r /\ ~capturing.stopped THEN "completed" ELSE status[q]]
        /\ capturing' = NotCapturing
        /\ UNCHANGED <<held, author, turn, unreviewed, plan, server, snapshot>>
    BY <1>2 DEF CaptureCommit, serverVars, historyVars, QInv, Tables
  <2> HIDE DEF r
  <2>3. Tables' /\ ArrivalOrder' /\ OneActive'
    BY <2>1, <2>2 DEF QInv, Tables, Status, SettledStatus, ArrivalOrder, OneActive, Active, ActiveStatus
  <2>4. HoldRespected' /\ UsersOnly'
    BY <2>1, <2>2 DEF QInv, HoldRespected, UsersOnly
  <2>5. PlanBegun' /\ CaptureBegun'
    BY <2>1, <2>2 DEF QInv, PlanBegun, CaptureBegun
  <2>6. SnapshotKept'
    BY <2>1, <2>2 DEF QInv, SnapshotKept
  <2> QED BY <2>3, <2>4, <2>5, <2>6 DEF QInv
<1> QED BY <1>1, <1>2 DEF Capture

-----------------------------------------------------------------------------
(* The queue moves: h is what this step leaves held before it starts       *)
(* anything, and it has let go of nothing that a user still reviews.       *)
LEMMA QueueSteps ==
  ASSUME QInv, NEW h \in [Run -> BOOLEAN], NEW ev, NEW ended, NEW failed, NEW chosen \in Run \cup {NoRun},
         StartNext(h, ev, ended, failed, chosen),
         unreviewed' \subseteq unreviewed,
         \A r \in Run : held[r] /\ ~h[r] => r \notin unreviewed' /\ (server = "up" \/ author[r] # "user"),
         \A r \in Run : h[r] => held[r],
         chosen # NoRun => chosen \notin unreviewed',
         UNCHANGED <<author, turn, plan, capturing, server, snapshot>>
  PROVE  QInv'
<1>1. CASE UNCHANGED status /\ held' \in {h, [r \in Run |-> h[r] \/ r \in Queued]}
  <2>1. \A r \in Run : (h[r] => held'[r]) /\ held'[r] \in BOOLEAN
    BY <1>1
  <2>2. held' \in [Run -> BOOLEAN]
    BY <1>1
  <2>3. Tables' /\ ArrivalOrder' /\ OneActive'
    BY <1>1, <2>2 DEF QInv, Tables, ArrivalOrder, OneActive, Active
  <2>4. HoldRespected' /\ UsersOnly'
    BY <1>1, <2>1 DEF QInv, HoldRespected, UsersOnly
  <2>5. PlanBegun' /\ CaptureBegun'
    BY <1>1 DEF QInv, PlanBegun, CaptureBegun
  <2>6. SnapshotKept'
    BY <1>1, <2>1 DEF QInv, SnapshotKept
  <2> QED BY <2>3, <2>4, <2>5, <2>6 DEF QInv
<1>2. ASSUME held' = h, Active = {},
             NEW r \in Candidates(h, chosen), NEW s \in {"starting", "failed"},
             status' = [status EXCEPT ![r] = s]
      PROVE  QInv'
  <2>1. r \in Run /\ status[r] = "queued"
    BY <1>2 DEF Candidates, Queued
  <2>2. r \notin unreviewed'
    BY <1>2, <2>1 DEF Candidates, QInv, HoldRespected
  <2>3. Tables' /\ ArrivalOrder'
    BY <1>2, <2>1 DEF QInv, Tables, Status, ActiveStatus, SettledStatus, ArrivalOrder
  <2>4. OneActive'
    BY <1>2, <2>1 DEF QInv, Tables, OneActive, Active, ActiveStatus
  <2>5. HoldRespected' /\ UsersOnly'
    BY <1>2, <2>1, <2>2 DEF QInv, Tables, HoldRespected, UsersOnly
  <2>6. PlanBegun' /\ CaptureBegun'
    BY <1>2, <2>1 DEF QInv, Tables, PlanBegun, CaptureBegun
  <2>7. SnapshotKept'
    BY <1>2, <2>1 DEF QInv, Tables, SnapshotKept
  <2> QED BY <2>3, <2>4, <2>5, <2>6, <2>7 DEF QInv
<1>3. CASE LeaveQueue(h, ev, chosen)
  BY <1>1, <1>3 DEF LeaveQueue
<1>4. CASE HoldQueue(h, ev, chosen)
  BY <1>1, <1>4 DEF HoldQueue
<1>5. CASE StartQueued(h, ev, ended, failed, chosen)
  BY <1>2, <1>5 DEF StartQueued, CanStart
<1>6. CASE FailQueued(h, ev, ended, failed, chosen)
  BY <1>2, <1>6 DEF FailQueued, CanStart
<1> QED BY <1>3, <1>4, <1>5, <1>6 DEF StartNext

LEMMA HandlerSteps ==
  ASSUME QInv, HandleRunUpdate
  PROVE  QInv'
<1> DEFINE e == Head(events)
           released == IF e.status = "completed" THEN Unattended(e.run) ELSE {}
           failed == IF e.status = "failed" THEN e.run ELSE NoRun
<1>1. PICK h, ev, ended, f :
        /\ h = [r \in Run |-> held[r] /\ r \notin released]
        /\ StartNext(h, ev, ended, f, NoRun)
  BY DEF HandleRunUpdate
<1>2. \A r \in released : author[r] # "user"
  BY DEF Unattended
<1> HIDE DEF released
<1>3. h \in [Run -> BOOLEAN] /\ \A r \in Run : h[r] = (held[r] /\ r \notin released)
  BY <1>1 DEF QInv, Tables
<1>4. \A r \in Run : held[r] /\ ~h[r] => r \notin unreviewed /\ author[r] # "user"
  BY <1>2, <1>3 DEF QInv, UsersOnly
<1>5. UNCHANGED <<author, turn, plan, capturing, server, snapshot, unreviewed>>
  BY DEF HandleRunUpdate, processVars, serverVars
<1> QED BY <1>1, <1>3, <1>4, <1>5, QueueSteps

LEMMA ResumeSteps ==
  ASSUME QInv, QueueResume \/ \E r \in Run : StartSelected(r)
  PROVE  QInv'
<1>1. PICK chosen \in Run \cup {NoRun} :
        Resume(chosen) /\ server = "up" /\ (chosen # NoRun => chosen \in Queued)
  BY DEF QueueResume, StartSelected, UserMay
<1>2. PICK h, ev : /\ h = [q \in Run |-> held[q] /\ q \notin Queued]
                   /\ StartNext(h, ev, NoRun, NoRun, chosen)
  BY <1>1 DEF Resume
<1>3. h \in [Run -> BOOLEAN] /\ \A r \in Run : h[r] = (held[r] /\ r \notin Queued)
  BY <1>2 DEF QInv, Tables
<1>4. UNCHANGED <<author, turn, plan, capturing, server, snapshot>> /\ unreviewed' = unreviewed \ Queued
  BY <1>1 DEF Resume, processVars, serverVars
<1> QED BY <1>1, <1>2, <1>3, <1>4, QueueSteps

-----------------------------------------------------------------------------
(* A Stop ends r, or nothing when r is NoRun, cancels wakes and holds kept. *)
LEMMA StopEffect ==
  ASSUME QInv, NEW r \in Run \cup {NoRun}, NEW wakes, NEW kept,
         wakes \subseteq Queued, \A q \in wakes : author[q] # "user",
         kept \subseteq Queued \ wakes,
         r \in Run => status[r] \notin {"none", "queued"} /\ r \notin unreviewed,
         status' = [q \in Run |-> IF q \in wakes THEN "cancelled"
                                 ELSE IF q = r THEN "interrupted" ELSE status[q]],
         held' = [q \in Run |-> held[q] \/ q \in kept],
         unreviewed' = unreviewed \cup {q \in kept : author[q] = "user"},
         turn' \in [Run -> {"none", "starting", "recorded"}],
         plan' = NoPlan,
         UNCHANGED <<author, capturing, server, snapshot>>
  PROVE  QInv'
<1>1. kept \subseteq Run /\ \A q \in kept : status[q] = "queued" /\ status'[q] = "queued" /\ held'[q]
  BY DEF Queued
<1>2. Tables'
  <2>1. \A q \in Run : status'[q] \in Status
    BY DEF QInv, Tables, Status, SettledStatus
  <2>2. held' \in [Run -> BOOLEAN]
    OBVIOUS
  <2> QED BY <2>1, <2>2 DEF QInv, Tables
<1>3. ArrivalOrder'
  BY DEF QInv, ArrivalOrder, Queued
<1>4. OneActive'
  BY DEF QInv, OneActive, Active, ActiveStatus
<1>5. UsersOnly'
  BY <1>1 DEF QInv, UsersOnly
<1>6. HoldRespected'
  <2>1. ASSUME NEW q \in unreviewed
        PROVE  (status'[q] = "queued" /\ held'[q]) \/ status'[q] = "cancelled"
    BY DEF QInv, HoldRespected, UsersOnly
  <2> QED BY <1>1, <2>1 DEF HoldRespected
<1>7. PlanBegun'
  BY DEF PlanBegun
<1>8. CaptureBegun'
  BY <1>1 DEF QInv, CaptureBegun, Queued
<1>9. SnapshotKept'
  BY DEF QInv, SnapshotKept, Queued
<1> QED BY <1>2, <1>3, <1>4, <1>5, <1>6, <1>7, <1>8, <1>9 DEF QInv

(* holdStoppedThread, with the run that ended at once, if one did.         *)
LEMMA StopApplies ==
  ASSUME QInv, NEW r \in Run \cup {NoRun}, NEW st, NEW end, NEW ev, NEW hold,
         HoldStopped(st, end, ev, hold),
         st = [q \in Run |-> IF q = r THEN "interrupted" ELSE status[q]],
         r \in Run => status[r] \notin {"none", "queued"} /\ r \notin unreviewed,
         turn' \in [Run -> {"none", "starting", "recorded"}],
         plan' = NoPlan,
         UNCHANGED <<author, capturing, server, snapshot>>
  PROVE  QInv'
<1>1. PICK wakes, kept :
        /\ wakes = IF hold THEN {q \in Queued : author[q] = "wake"} ELSE {}
        /\ kept = IF hold THEN Queued \ wakes ELSE {}
        /\ status' = [q \in Run |-> IF q \in wakes THEN "cancelled" ELSE st[q]]
        /\ held' = [q \in Run |-> held[q] \/ q \in kept]
        /\ unreviewed' = unreviewed \cup ToReview(kept)
  BY DEF HoldStopped
<1>2. wakes \subseteq Queued /\ kept \subseteq Queued \ wakes /\ \A q \in wakes : author[q] # "user"
  BY <1>1
<1>3. status' = [q \in Run |-> IF q \in wakes THEN "cancelled"
                              ELSE IF q = r THEN "interrupted" ELSE status[q]]
  BY <1>1
<1>4. unreviewed' = unreviewed \cup {q \in kept : author[q] = "user"}
  BY <1>1 DEF ToReview
<1>5. held' = [q \in Run |-> held[q] \/ q \in kept]
  BY <1>1
<1> QED BY <1>2, <1>3, <1>4, <1>5, StopEffect

LEMMA StopSteps ==
  ASSUME QInv,
         \/ CommitStop \/ StopIdle
         \/ \E r \in Run, hold \in BOOLEAN : MarkStop(r, hold) \/ SettleStop(r, hold)
  PROVE  QInv'
<1> USE QueueAssumption
<1>0. NoRun \notin Run /\ status = [q \in Run |-> status[q]]
  BY DEF NoRun, Run, QInv, Tables
<1>1. CASE CommitStop
  <2>1. PICK r, hold, st, end, ev :
          /\ r = plan.run /\ hold = plan.hold
          /\ st = [status EXCEPT ![r] = "interrupted"]
          /\ HoldStopped(st, end, ev, hold)
    BY <1>1 DEF CommitStop
  <2>2. /\ r \in Run /\ status[r] \notin {"none", "queued"} /\ r \notin unreviewed
    BY <1>1, <2>1 DEF CommitStop, QInv, PlanBegun
  <2>3. st = [q \in Run |-> IF q = r THEN "interrupted" ELSE status[q]]
    BY <2>1, <2>2 DEF QInv, Tables
  <2>4. /\ plan' = NoPlan
        /\ turn' \in [Run -> {"none", "starting", "recorded"}]
        /\ UNCHANGED <<author, capturing, server, snapshot>>
    BY <1>1 DEF CommitStop, processVars, serverVars, QInv, Tables
  <2> QED BY <2>1, <2>2, <2>3, <2>4, StopApplies
<1>2. CASE StopIdle
  <2>1. PICK st, end, ev : st = status /\ HoldStopped(st, end, ev, TRUE)
    BY <1>2 DEF StopIdle
  <2>2. st = [q \in Run |-> IF q = NoRun THEN "interrupted" ELSE status[q]]
    BY <1>0, <2>1
  <2>3. /\ plan' = NoPlan
        /\ turn' \in [Run -> {"none", "starting", "recorded"}]
        /\ UNCHANGED <<author, capturing, server, snapshot>>
    BY <1>2 DEF StopIdle, UserMay, LockFree, processVars, serverVars, QInv, Tables
  <2> QED BY <1>0, <2>1, <2>2, <2>3, StopApplies
<1>3. ASSUME NEW r \in Run, NEW hold \in BOOLEAN, MarkStop(r, hold) PROVE QInv'
  <2>1. PICK st, end, ev : st = status /\ HoldStopped(st, end, ev, hold)
    BY <1>3 DEF MarkStop
  <2>2. st = [q \in Run |-> IF q = NoRun THEN "interrupted" ELSE status[q]]
    BY <1>0, <2>1
  <2>3. /\ plan' = NoPlan
        /\ turn' \in [Run -> {"none", "starting", "recorded"}]
        /\ UNCHANGED <<author, capturing, server, snapshot>>
    BY <1>3 DEF MarkStop, MayStop, UserMay, LockFree, processVars, serverVars, QInv, Tables
  <2> QED BY <1>0, <2>1, <2>2, <2>3, StopApplies
<1>4. ASSUME NEW r \in Run, NEW hold \in BOOLEAN, SettleStop(r, hold) PROVE QInv'
  <2>1. PICK st, end, ev : /\ st = [status EXCEPT ![r] = "interrupted"]
                           /\ HoldStopped(st, end, ev, hold)
    BY <1>4 DEF SettleStop
  <2>2. st = [q \in Run |-> IF q = r THEN "interrupted" ELSE status[q]]
    BY <2>1 DEF QInv, Tables
  <2>3. /\ plan' = NoPlan
        /\ turn' \in [Run -> {"none", "starting", "recorded"}]
        /\ UNCHANGED <<author, capturing, server, snapshot>>
    BY <1>4 DEF SettleStop, MayStop, UserMay, LockFree, serverVars, QInv, Tables
  <2>4. status[r] \notin {"none", "queued"} /\ r \notin unreviewed
    BY <1>4 DEF SettleStop, QInv, HoldRespected
  <2> QED BY <2>1, <2>2, <2>3, <2>4, StopApplies
<1> QED BY <1>1, <1>2, <1>3, <1>4

LEMMA PlanSteps ==
  ASSUME QInv, NEW r \in Run, NEW hold \in BOOLEAN, PlanStop(r, hold)
  PROVE  QInv'
<1>1. plan' = [run |-> r, hold |-> hold] /\ server # "down" /\ status[r] \in {"preparing", "starting", "running"}
  BY DEF PlanStop, MayStop, UserMay, LockFree
<1>2. UNCHANGED <<status, held, author, turn, unreviewed, capturing, server, snapshot>>
  BY DEF PlanStop, runVars, processVars, serverVars, historyVars
<1>3. PlanBegun'
  BY <1>1, <1>2 DEF QInv, PlanBegun, HoldRespected
<1> QED
  BY <1>2, <1>3 DEF QInv, Tables, ArrivalOrder, OneActive, Active, HoldRespected, UsersOnly,
     CaptureBegun, SnapshotKept

-----------------------------------------------------------------------------
(* Messages and the user's commands on the queue.                          *)
LEMMA ArrivalSteps ==
  ASSUME QInv,
         Launch \/ \E r \in Run, by \in {"user", "agent", "wake"}, mode \in {"now", "queue"} : Send(r, by, mode)
  PROVE  QInv'
<1> USE QueueAssumption
<1>1. ASSUME NEW r \in Run, NEW by \in {"user", "agent", "wake"}, NEW s \in {"queued", "starting", "preparing"},
             NEW gone,
             Arrives(r), s = "queued" \/ Active = {},
             status' = [status EXCEPT ![r] = s],
             author' = [author EXCEPT ![r] = by],
             held' \in [Run -> BOOLEAN],
             \A q \in Run : held[q] /\ ~held'[q] => q = r \/ q \in gone,
             gone = {} \/ server = "up",
             by = "user" => server = "up",
             unreviewed' = unreviewed \ gone,
             UNCHANGED <<turn, plan, capturing, server, snapshot>>
      PROVE  QInv'
  <2>1. status[r] = "none" /\ r \notin unreviewed /\ \A q \in Run : q < r => status[q] # "none"
    BY <1>1 DEF Arrives, QInv, HoldRespected
  <2>2. Tables'
    BY <1>1, <2>1 DEF QInv, Tables, Status, ActiveStatus
  <2>3. ArrivalOrder'
    BY <1>1, <2>1 DEF QInv, Tables, ArrivalOrder
  <2>4. OneActive'
    BY <1>1, <2>1 DEF QInv, Tables, OneActive, Active, ActiveStatus
  <2>5. HoldRespected' /\ UsersOnly'
    BY <1>1, <2>1 DEF QInv, Tables, HoldRespected, UsersOnly
  <2>6. PlanBegun' /\ CaptureBegun'
    BY <1>1, <2>1 DEF QInv, Tables, PlanBegun, CaptureBegun
  <2>7. SnapshotKept'
    BY <1>1, <2>1 DEF QInv, Tables, SnapshotKept
  <2> QED BY <2>2, <2>3, <2>4, <2>5, <2>6, <2>7 DEF QInv
<1>2. CASE Launch
  <2>1. FirstRun \in Run /\ \A r \in Run : r # FirstRun => FirstRun < r
    BY DEF FirstRun, Run
  <2>2. Active = {}
    BY <1>2, <2>1 DEF Launch, Arrives, QInv, ArrivalOrder, Active, ActiveStatus
  <2>3. /\ status' = [status EXCEPT ![FirstRun] = "preparing"]
        /\ author' = [author EXCEPT ![FirstRun] = "user"]
        /\ server = "up" /\ Arrives(FirstRun) /\ held' = held /\ unreviewed' = unreviewed \ {}
        /\ UNCHANGED <<turn, plan, capturing, server, snapshot>>
    BY <1>2 DEF Launch, UserMay, serverVars, historyVars
  <2>4. held' \in [Run -> BOOLEAN]
    BY <2>3 DEF QInv, Tables
  <2> QED BY <1>1, <2>1, <2>2, <2>3, <2>4
<1>3. ASSUME NEW r \in Run, NEW by \in {"user", "agent", "wake"}, NEW mode \in {"now", "queue"}, Send(r, by, mode)
      PROVE  QInv'
  <2>1. PICK gone : gone = Released(by)
    OBVIOUS
  <2>2. (by = "user" => server = "up") /\ (gone = {} \/ server = "up")
    BY <1>3, <2>1 DEF Send, UserMay, Released
  <2>3. /\ Arrives(r) /\ author' = [author EXCEPT ![r] = by] /\ unreviewed' = unreviewed \ gone
        /\ UNCHANGED <<turn, plan, capturing, server, snapshot>>
    BY <1>3, <2>1 DEF Send, processVars, serverVars
  <2>4. CASE QueueMessage(r, by, mode)
    <3>1. status' = [status EXCEPT ![r] = "queued"]
      BY <2>4 DEF QueueMessage
    <3>2. held' \in [Run -> BOOLEAN] /\ \A q \in Run : held[q] /\ ~held'[q] => q = r \/ q \in gone
      BY <2>1, <2>4 DEF QueueMessage, QInv, Tables, WorktreeMissing, QueueHeld
    <3> QED BY <1>1, <2>2, <2>3, <3>1, <3>2
  <2>5. CASE StartMessage(r, by, mode)
    <3>1. status' = [status EXCEPT ![r] = "starting"] /\ Active = {}
      BY <2>5 DEF StartMessage
    <3>2. held' \in [Run -> BOOLEAN] /\ \A q \in Run : held[q] /\ ~held'[q] => q = r \/ q \in gone
      BY <2>1, <2>5 DEF StartMessage, QInv, Tables
    <3> QED BY <1>1, <2>2, <2>3, <3>1, <3>2
  <2> QED BY <1>3, <2>4, <2>5 DEF Send
<1> QED BY <1>2, <1>3

LEMMA RetrySteps ==
  ASSUME QInv, RetryPrepared
  PROVE  QInv'
<1> USE QueueAssumption
<1>1. PICK gone : gone = IF Latest = FirstRun THEN Queued ELSE {}
  OBVIOUS
<1>2. /\ FirstRun \in Run /\ status[FirstRun] = "failed" /\ Active = {} /\ server = "up"
      /\ status' = [status EXCEPT ![FirstRun] = "preparing"]
      /\ UNCHANGED <<author, turn, plan, capturing, server, snapshot>>
  BY DEF RetryPrepared, UserMay, FirstRun, Run, serverVars
<1>3. held' \in [Run -> BOOLEAN] /\ \A q \in Run : held[q] /\ ~held'[q] => q \in gone
  BY <1>1 DEF RetryPrepared, QInv, Tables
<1>4. unreviewed' = unreviewed \ gone
  BY <1>1 DEF RetryPrepared
<1>5. Tables'
  BY <1>2, <1>3 DEF QInv, Tables, Status, ActiveStatus
<1>6. ArrivalOrder'
  BY <1>2 DEF QInv, Tables, ArrivalOrder
<1>7. OneActive'
  BY <1>2 DEF QInv, Tables, OneActive, Active, ActiveStatus
<1>8. HoldRespected' /\ UsersOnly'
  BY <1>2, <1>3, <1>4 DEF QInv, Tables, HoldRespected, UsersOnly
<1>9. PlanBegun' /\ CaptureBegun'
  BY <1>2, <1>4 DEF QInv, Tables, PlanBegun, CaptureBegun
<1>10. SnapshotKept'
  BY <1>2 DEF QInv, SnapshotKept
<1> QED BY <1>5, <1>6, <1>7, <1>8, <1>9, <1>10 DEF QInv

(* A cancelled message, and the runs an archive cancels.                   *)
LEMMA CancelSteps ==
  ASSUME QInv, Archive \/ \E r \in Run : CancelQueued(r)
  PROVE  QInv'
<1>1. PICK gone : /\ gone \subseteq {r \in Run : status[r] \in {"queued", "preparing"}}
                  /\ status' = [r \in Run |-> IF r \in gone THEN "cancelled" ELSE status[r]]
  <2>1. CASE Archive
    BY <2>1 DEF Archive
  <2>2. ASSUME NEW r \in Run, CancelQueued(r)
        PROVE  status' = [q \in Run |-> IF q \in {r} THEN "cancelled" ELSE status[q]] /\ status[r] = "queued"
    BY <2>2 DEF CancelQueued, Queued, QInv, Tables
  <2> QED BY <2>1, <2>2
<1>2. server = "up" /\ UNCHANGED <<held, author, turn, unreviewed, plan, capturing, server, snapshot>>
  BY DEF Archive, CancelQueued, UserMay, processVars, serverVars, historyVars
<1>3. Tables' /\ ArrivalOrder'
  BY <1>1, <1>2 DEF QInv, Tables, Status, SettledStatus, ArrivalOrder
<1>4. OneActive'
  BY <1>1, <1>2 DEF QInv, OneActive, Active, ActiveStatus
<1>5. HoldRespected' /\ UsersOnly'
  BY <1>1, <1>2 DEF QInv, HoldRespected, UsersOnly
<1>6. PlanBegun' /\ CaptureBegun'
  BY <1>1, <1>2 DEF QInv, PlanBegun, CaptureBegun
<1>7. SnapshotKept'
  BY <1>1, <1>2 DEF QInv, SnapshotKept
<1> QED BY <1>3, <1>4, <1>5, <1>6, <1>7 DEF QInv

LEMMA QuietSteps ==
  ASSUME QInv, \/ CreateWorktree \/ AbandonSetup \/ Unarchive
               \/ \E r \in Run, b \in Run \cup {NoRun} : Reorder(r, b)
  PROVE  QInv'
<1>1. UNCHANGED coreVars
  BY DEF CreateWorktree, AbandonSetup, Unarchive, Reorder, coreVars, runVars, processVars, serverVars, historyVars
<1> QED BY <1>1, CoreUnchanged

-----------------------------------------------------------------------------
(* The server goes down and comes back.                                    *)
LEMMA ReconcileSteps ==
  ASSUME QInv, NEW st \in [Run -> Status], NEW h \in [Run -> BOOLEAN],
         Reconcile(st, h),
         \A r \in Run : /\ status[r] = "none" => st[r] = "none"
                        /\ status[r] = "queued" /\ author[r] = "user"
                           => st[r] = "queued" /\ (h[r] => held[r]),
         turn' \in [Run -> {"none", "starting", "recorded"}],
         plan' = NoPlan, capturing' = NotCapturing, ~snapshot'.taken
  PROVE  QInv'
<1> DEFINE lost == Lost(st)
           requeued == {r \in Run : st[r] = "queued" /\ ~h[r]} \ lost
<1>1. /\ status' = [r \in Run |-> IF r \in lost THEN "cancelled"
                                  ELSE IF r \in requeued THEN "queued" ELSE status[r]]
      /\ held' = [r \in Run |-> held[r] \/ r \in requeued]
      /\ unreviewed' = unreviewed \cup ToReview(requeued) \cup ToReview(Queued \ lost)
      /\ author' = author
  BY DEF Reconcile
<1>2. /\ \A r \in Run : r \in lost \cup requeued => st[r] # "none" /\ status[r] # "none"
      /\ \A r \in Run : st[r] = "queued" /\ author[r] = "user" => r \notin lost
      /\ \A r \in requeued : st[r] = "queued" /\ r \notin lost
      /\ lost \subseteq Run /\ requeued \subseteq Run
  BY DEF Lost
<1>0. \A r \in Queued \ lost : author[r] = "user" => r \in requeued \/ held[r]
  BY DEF Queued
<1> HIDE DEF lost, requeued
<1>3. Tables'
  <2>1. \A r \in Run : status'[r] \in Status
    BY <1>1 DEF QInv, Tables, Status, SettledStatus
  <2>2. held' \in [Run -> BOOLEAN]
    BY <1>1
  <2> QED BY <1>1, <2>1, <2>2 DEF QInv, Tables
<1>4. ArrivalOrder'
  BY <1>1, <1>2 DEF QInv, ArrivalOrder
<1>5. OneActive'
  BY <1>1 DEF QInv, OneActive, Active, ActiveStatus
<1>6. UsersOnly'
  BY <1>1, <1>2 DEF QInv, UsersOnly, ToReview, Queued
<1>7. HoldRespected'
  <2>1. ASSUME NEW r \in unreviewed
        PROVE  (status'[r] = "queued" /\ held'[r]) \/ status'[r] = "cancelled"
    BY <1>1 DEF QInv, HoldRespected, UsersOnly
  <2>2. ASSUME NEW r \in requeued
        PROVE  status'[r] = "queued" /\ held'[r]
    BY <1>1, <1>2
  <2>3. ASSUME NEW r \in Queued \ lost, author[r] = "user"
        PROVE  status'[r] = "queued" /\ held'[r]
    BY <1>0, <1>1, <2>3 DEF Queued
  <2>4. \A r \in unreviewed' : r \in unreviewed \/ r \in requeued \/ (r \in Queued \ lost /\ author[r] = "user")
    BY <1>1 DEF ToReview
  <2> QED BY <2>1, <2>2, <2>3, <2>4 DEF HoldRespected
<1>8. PlanBegun' /\ CaptureBegun' /\ SnapshotKept'
  BY DEF PlanBegun, CaptureBegun, SnapshotKept
<1> QED BY <1>3, <1>4, <1>5, <1>6, <1>7, <1>8 DEF QInv

LEMMA ProcessSteps ==
  ASSUME QInv, Process
  PROVE  QInv'
<1>1. CASE ServerStops
  <2>1. turn' \in [Run -> {"none", "starting", "recorded"}]
    BY <1>1 DEF ServerStops, QInv, Tables
  <2>2. /\ server = "up" /\ server' = "stopping" /\ capturing' = NotCapturing
        /\ UNCHANGED <<status, held, author, unreviewed, plan, snapshot>>
    BY <1>1 DEF ServerStops, runVars, historyVars
  <2> QED
    BY <2>1, <2>2 DEF QInv, Tables, ArrivalOrder, OneActive, Active, HoldRespected, UsersOnly, PlanBegun,
       CaptureBegun, SnapshotKept
<1>2. CASE ShutdownRead
  <2>1. /\ server = "stopping" /\ snapshot' = [taken |-> TRUE, status |-> status, held |-> held]
        /\ UNCHANGED <<status, held, author, turn, unreviewed, plan, capturing, server>>
    BY <1>2 DEF ShutdownRead, runVars, processVars, historyVars
  <2>2. SnapshotKept'
    BY <2>1 DEF QInv, Tables, SnapshotKept
  <2> QED
    BY <2>1, <2>2 DEF QInv, Tables, ArrivalOrder, OneActive, Active, HoldRespected, UsersOnly, PlanBegun,
       CaptureBegun
<1>3. CASE ShutdownCommit
  <2>1. PICK st, h : st = snapshot.status /\ h = snapshot.held /\ Reconcile(st, h)
    BY <1>3 DEF ShutdownCommit
  <2>2. st \in [Run -> Status] /\ h \in [Run -> BOOLEAN]
    BY <1>3, <2>1 DEF ShutdownCommit, QInv, SnapshotKept
  <2>3. \A r \in Run : /\ status[r] = "none" => st[r] = "none"
                       /\ status[r] = "queued" /\ author[r] = "user"
                          => st[r] = "queued" /\ (h[r] => held[r])
    BY <1>3, <2>1 DEF ShutdownCommit, QInv, SnapshotKept
  <2>4. /\ turn' \in [Run -> {"none", "starting", "recorded"}]
        /\ plan' = NoPlan /\ capturing' = NotCapturing /\ ~snapshot'.taken
    BY <1>3 DEF ShutdownCommit, Forget, NoSnapshot
  <2>5. Reconcile(st, h)
    BY <2>1
  <2> QED BY <2>2, <2>3, <2>4, <2>5, ReconcileSteps
<1>4. CASE Crash
  <2>1. /\ turn' \in [Run -> {"none", "starting", "recorded"}]
        /\ plan' = NoPlan /\ capturing' = NotCapturing /\ snapshot' = NoSnapshot
        /\ UNCHANGED <<status, held, author, unreviewed>>
    BY <1>4 DEF Crash, Forget, runVars, historyVars
  <2> QED
    BY <2>1 DEF QInv, Tables, ArrivalOrder, OneActive, Active, HoldRespected, UsersOnly, PlanBegun,
       CaptureBegun, SnapshotKept, NoSnapshot
<1>5. CASE Startup
  <2>1. PICK st, h : st = status /\ h = held /\ Reconcile(st, h)
    BY <1>5 DEF Startup
  <2>2. st \in [Run -> Status] /\ h \in [Run -> BOOLEAN]
    BY <2>1 DEF QInv, Tables
  <2>3. /\ turn' \in [Run -> {"none", "starting", "recorded"}]
        /\ plan' = NoPlan /\ capturing' = NotCapturing /\ ~snapshot'.taken
    BY <1>5 DEF Startup, processVars, QInv, Tables, PlanBegun, CaptureBegun, SnapshotKept
  <2> QED BY <2>1, <2>2, <2>3, ReconcileSteps
<1> QED BY <1>1, <1>2, <1>3, <1>4, <1>5 DEF Process

(* Failures for good leave the runs and the queue as they are; the handler *)
(* may have let go of messages that no user reviews.                       *)
LEMMA FailureSteps ==
  ASSUME QInv, Failure
  PROVE  QInv'
<1>1. CASE SetupLost \/ \E r \in Run : StartEffectFails(r)
  <2>1. UNCHANGED coreVars
    BY <1>1 DEF SetupLost, StartEffectFails, coreVars, runVars, processVars, historyVars
  <2> QED BY <2>1, CoreUnchanged
<1>2. CASE \E r \in Run : CaptureFails(r)
  <2>1. /\ capturing' = NotCapturing
        /\ UNCHANGED <<status, held, author, turn, unreviewed, plan, server, snapshot>>
    BY <1>2 DEF CaptureFails, runVars, historyVars
  <2> QED
    BY <2>1 DEF QInv, Tables, ArrivalOrder, OneActive, Active, HoldRespected, UsersOnly, PlanBegun,
       CaptureBegun, SnapshotKept
<1>3. CASE \E r \in Run : TurnLost(r)
  <2>1. /\ turn' \in [Run -> {"none", "starting", "recorded"}]
        /\ UNCHANGED <<status, held, author, unreviewed, plan, capturing, server, snapshot>>
    BY <1>3 DEF TurnLost, runVars, historyVars, QInv, Tables
  <2> QED
    BY <2>1 DEF QInv, Tables, ArrivalOrder, OneActive, Active, HoldRespected, UsersOnly, PlanBegun,
       CaptureBegun, SnapshotKept
<1>4. CASE HandlerFails
  <2> DEFINE e == Head(events)
             released == IF e.status = "completed" THEN Unattended(e.run) ELSE {}
  <2>0. \A r \in released : author[r] # "user"
    BY DEF Unattended
  <2>1. held' \in {held, [r \in Run |-> held[r] /\ r \notin released]}
    BY <1>4 DEF HandlerFails
  <2> HIDE DEF released
  <2>2. /\ held' \in [Run -> BOOLEAN]
        /\ \A r \in Run : (held'[r] => held[r]) /\ (author[r] = "user" => held'[r] = held[r])
    BY <2>0, <2>1 DEF QInv, Tables
  <2>3. UNCHANGED <<status, author, turn, unreviewed, plan, capturing, server, snapshot>>
    BY <1>4 DEF HandlerFails, processVars, serverVars
  <2>4. HoldRespected' /\ UsersOnly'
    BY <2>2, <2>3 DEF QInv, HoldRespected, UsersOnly
  <2>5. SnapshotKept'
    <3>1. server = "up"
      BY <1>4 DEF HandlerFails, MayFail
    <3>2. ~snapshot.taken
      BY <3>1 DEF QInv, SnapshotKept
    <3> QED BY <2>3, <3>2 DEF SnapshotKept
  <2> QED
    BY <2>2, <2>3, <2>4, <2>5 DEF QInv, Tables, ArrivalOrder, OneActive, Active, PlanBegun, CaptureBegun
<1> QED BY <1>1, <1>2, <1>3, <1>4 DEF Failure

-----------------------------------------------------------------------------
LEMMA QueueInit == Init => QInv
<1> SUFFICES ASSUME Init PROVE QInv
  OBVIOUS
<1>1. Tables
  BY DEF Init, Tables, Status
<1> QED
  BY <1>1 DEF Init, QInv, ArrivalOrder, OneActive, Active, ActiveStatus, HoldRespected, UsersOnly,
     PlanBegun, CaptureBegun, SnapshotKept, NoSnapshot

LEMMA QueueStep == QInv /\ [Next]_vars => QInv'
<1> SUFFICES ASSUME QInv, [Next]_vars PROVE QInv'
  OBVIOUS
<1>1. CASE UNCHANGED vars
  BY <1>1, CoreUnchanged DEF vars, coreVars, runVars, processVars, serverVars, historyVars
<1>2. CASE Planner
  <2>1. \/ ReleasePrepared \/ FailPrepared
        \/ RetryPrepared
        \/ Archive \/ \E r \in Run : CancelQueued(r)
        \/ QueueResume \/ \E r \in Run : StartSelected(r)
        \/ Launch
        \/ \E r \in Run, by \in {"user", "agent", "wake"}, mode \in {"now", "queue"} : Send(r, by, mode)
        \/ StopIdle \/ \E r \in Run, hold \in BOOLEAN : MarkStop(r, hold) \/ SettleStop(r, hold)
        \/ \E r \in Run, hold \in BOOLEAN : PlanStop(r, hold)
        \/ CreateWorktree \/ AbandonSetup \/ Unarchive
        \/ \E r \in Run, b \in Run \cup {NoRun} : Reorder(r, b)
    BY <1>2 DEF Planner
  <2>2. FirstRun \in Run
    BY QueueAssumption DEF FirstRun, Run
  <2> QED BY <2>1, <2>2, MovingSteps, RetrySteps, CancelSteps, ResumeSteps, ArrivalSteps, StopSteps,
             PlanSteps, QuietSteps
<1>3. CASE CommitStop
  BY <1>3, StopSteps
<1>4. CASE HandleRunUpdate
  BY <1>4, HandlerSteps
<1>5. CASE TurnStart \/ TurnOutcome \/ TurnEnd
  BY <1>5, MovingSteps DEF TurnStart, TurnOutcome, TurnEnd
<1>6. CASE Capture
  BY <1>6, CaptureSteps
<1>7. CASE Process
  BY <1>7, ProcessSteps
<1>8. CASE Failure
  BY <1>8, FailureSteps
<1> QED BY <1>1, <1>2, <1>3, <1>4, <1>5, <1>6, <1>7, <1>8 DEF Next

(* The inductive invariant: arrival order, one active run, and what a Stop, *)
(* a capture and the shutdown have read is still true enough of the thread. *)
THEOREM QueueInvariant == Spec => []QInv
<1> QED BY QueueInit, QueueStep, PTL DEF Spec

(* One run of a thread owns the provider at a time.                        *)
THEOREM OneRunAtATime == Spec => []OneActive
<1>1. QInv => OneActive
  BY DEF QInv
<1> QED BY <1>1, QueueInvariant, PTL

(* What a user had in the queue at a Stop or a restart waits for the user. *)
THEOREM HeldForReview == Spec => []HoldRespected
<1>1. QInv => HoldRespected
  BY DEF QInv
<1> QED BY <1>1, QueueInvariant, PTL

-----------------------------------------------------------------------------
(* Runs that ended stay ended in every step but the retry of a preparation *)
(* and the commit of the shutdown.                                         *)
Settled == {r \in Run : status[r] \in SettledStatus}

LEMMA PlannersKeepSettled ==
  ASSUME QInv, Planner, ~RetryPrepared
  PROVE  Settled \subseteq Settled'
<1> USE QueueAssumption DEF Settled, SettledStatus
<1>1. CASE QueueResume \/ \E r \in Run : StartSelected(r)
  <2>1. PICK chosen, h, ev : StartNext(h, ev, NoRun, NoRun, chosen)
    BY <1>1 DEF QueueResume, StartSelected, Resume
  <2> QED BY <2>1 DEF StartNext, LeaveQueue, HoldQueue, StartQueued, FailQueued, Candidates, Queued, QInv, Tables
<1>2. CASE \E r \in Run, by \in {"user", "agent", "wake"}, mode \in {"now", "queue"} : Send(r, by, mode)
  BY <1>2 DEF Send, Arrives, QueueMessage, StartMessage, QInv, Tables
<1>3. CASE Launch
  BY <1>3 DEF Launch, Arrives, QInv, Tables
<1>4. CASE ReleasePrepared \/ FailPrepared
  BY <1>4 DEF ReleasePrepared, FailPrepared, QInv, Tables
<1>5. CASE Archive \/ \E r \in Run : CancelQueued(r)
  BY <1>5 DEF Archive, CancelQueued, QInv, Tables
<1>6. CASE StopIdle \/ \E r \in Run, hold \in BOOLEAN : MarkStop(r, hold)
  <2>1. PICK end, ev, hold : HoldStopped(status, end, ev, hold)
    BY <1>6 DEF StopIdle, MarkStop
  <2> QED BY <2>1 DEF HoldStopped
<1>7. CASE \E r \in Run, hold \in BOOLEAN : SettleStop(r, hold)
  <2>1. PICK r, st, end, ev, hold :
          st = [status EXCEPT ![r] = "interrupted"] /\ HoldStopped(st, end, ev, hold)
    BY <1>7 DEF SettleStop
  <2> QED BY <2>1 DEF HoldStopped, QInv, Tables
<1>8. CASE \/ CreateWorktree \/ AbandonSetup \/ Unarchive
           \/ \E r \in Run, hold \in BOOLEAN : PlanStop(r, hold)
           \/ \E r \in Run, b \in Run \cup {NoRun} : Reorder(r, b)
  BY <1>8 DEF CreateWorktree, AbandonSetup, Unarchive, PlanStop, Reorder, runVars
<1> QED BY <1>1, <1>2, <1>3, <1>4, <1>5, <1>6, <1>7, <1>8 DEF Planner

LEMMA ServicesKeepSettled ==
  ASSUME QInv, \/ CommitStop \/ HandleRunUpdate \/ TurnStart \/ TurnOutcome \/ TurnEnd \/ Capture
               \/ Failure \/ (Process /\ ~ShutdownCommit)
  PROVE  Settled \subseteq Settled'
<1> USE DEF Settled, SettledStatus
<1>1. CASE CommitStop
  <2>1. PICK st, end, ev, hold :
          st = [status EXCEPT ![plan.run] = "interrupted"] /\ HoldStopped(st, end, ev, hold)
    BY <1>1 DEF CommitStop
  <2> QED BY <2>1 DEF HoldStopped, QInv, Tables
<1>2. CASE HandleRunUpdate
  <2>1. PICK h, ev, ended, failed : StartNext(h, ev, ended, failed, NoRun)
    BY <1>2 DEF HandleRunUpdate
  <2> QED BY <2>1 DEF StartNext, LeaveQueue, HoldQueue, StartQueued, FailQueued, Candidates, Queued, QInv, Tables
<1>3. CASE TurnStart
  BY <1>3 DEF TurnStart, TurnStarts, SettleBeforeStart, Ends, QInv, Tables
<1>4. CASE TurnOutcome
  BY <1>4 DEF TurnOutcome, AcceptTurn, StartFails, Ends, runVars, QInv, Tables
<1>5. CASE TurnEnd
  BY <1>5 DEF TurnEnd, TurnEnds, Finalize, Ends, QInv, Tables
<1>6. CASE Capture
  BY <1>6 DEF Capture, CaptureRead, CaptureCommit, runVars, QInv, Tables
<1>7. CASE Process /\ ~ShutdownCommit
  <2>1. CASE Startup
    BY <2>1 DEF Startup, Reconcile
  <2> QED BY <1>7, <2>1 DEF Process, ServerStops, ShutdownRead, Crash, runVars
<1>8. CASE Failure
  BY <1>8 DEF Failure, SetupLost, HandlerFails, CaptureFails, StartEffectFails, TurnLost, runVars
<1> QED BY <1>1, <1>2, <1>3, <1>4, <1>5, <1>6, <1>7, <1>8

(* A run that ended does not come back to life.                            *)
THEOREM EndedRunsStayEnded == Spec => NoRevival
<1> DEFINE Back(r) == /\ status[r] \in SettledStatus /\ status'[r] \notin SettledStatus
                      => \/ r = FirstRun /\ status'[r] = "preparing" /\ fault[r] = "setup"
                         \/ server = "stopping" /\ status'[r] = "queued"
<1>1. QInv /\ [Next]_vars => [\A r \in Run : Back(r)]_vars
  <2> SUFFICES ASSUME QInv, Next, NEW r \in Run PROVE Back(r)
    OBVIOUS
  <2>1. CASE Settled \subseteq Settled'
    BY <2>1 DEF Settled
  <2>2. CASE RetryPrepared
    BY <2>2 DEF RetryPrepared, QInv, Tables, SettledStatus
  <2>3. CASE ShutdownCommit
    BY <2>3 DEF ShutdownCommit, Reconcile, SettledStatus
  <2> QED BY <2>1, <2>2, <2>3, PlannersKeepSettled, ServicesKeepSettled DEF Next
<1> QED BY <1>1, QueueInvariant, PTL DEF Spec, NoRevival

(* The checkpoint of a run is taken before the next run's turn starts.     *)
THEOREM CheckpointBeforeTurn == Spec => CheckpointFirst
<1> DEFINE First(r) == turn[r] = "none" /\ turn'[r] = "starting"
                       => captures = {} /\ \A q \in Run : status[q] # "waiting"
<1>1. QInv /\ [Next]_vars => [\A r \in Run : First(r)]_vars
  <2> SUFFICES ASSUME QInv, Next, NEW r \in Run PROVE First(r)
    OBVIOUS
  <2>1. CASE Planner
    BY <2>1 DEF Planner, Launch, RetryPrepared, QueueResume, StartSelected, Resume, Archive, Unarchive, StopIdle,
       ReleasePrepared, FailPrepared, CreateWorktree, AbandonSetup, Send, CancelQueued, Reorder, PlanStop,
       MarkStop, SettleStop, processVars, QInv, Tables
  <2>2. CASE CommitStop \/ HandleRunUpdate \/ Capture
    BY <2>2 DEF CommitStop, HandleRunUpdate, Capture, CaptureRead, CaptureCommit, processVars
  <2>3. CASE TurnStart
    BY <2>3 DEF TurnStart, TurnStarts, SettleBeforeStart, processVars, QInv, Tables, OneActive, Active,
           ActiveStatus
  <2>4. CASE TurnOutcome \/ TurnEnd
    BY <2>4 DEF TurnOutcome, AcceptTurn, StartFails, TurnEnd, TurnEnds, QInv, Tables
  <2>5. CASE Process
    BY <2>5 DEF Process, ServerStops, ShutdownRead, ShutdownCommit, Crash, Startup, Forget, processVars
  <2>6. CASE Failure
    BY <2>6 DEF Failure, SetupLost, HandlerFails, CaptureFails, StartEffectFails, TurnLost, processVars,
       QInv, Tables
  <2> QED BY <2>1, <2>2, <2>3, <2>4, <2>5, <2>6 DEF Next
<1> QED BY <1>1, QueueInvariant, PTL DEF Spec, CheckpointFirst

-----------------------------------------------------------------------------
(* Every active run has somebody who moves it on, or was abandoned.        *)

(* While the server runs, a preparing run has its preparation fiber, a     *)
(* starting one its start effect, a running one its provider turn, and a   *)
(* waiting one its capture, unless that has failed for good.               *)
RunsDriven ==
  server = "up" =>
    \A r \in Active :
      \/ status[r] = "preparing" /\ r = FirstRun /\ setup # "none"
      \/ status[r] = "starting" /\ r \in starts
      \/ status[r] = "running" /\ turn[r] # "none"
      \/ status[r] = "waiting" /\ r \in captures
      \/ r \in abandoned

(* A Stop that commits cancels every start effect of the thread: no run    *)
(* but the one it aims at waits for its own.                               *)
PlanAlone == plan # NoPlan => \A r \in Run : status[r] = "starting" => r = plan.run

DrivenInv == RunsDriven /\ PlanAlone

(* A step that starts or launches nothing and takes nobody's driver away,  *)
(* but that of a run it abandons.                                          *)
LEMMA DriversStay ==
  ASSUME QInv, DrivenInv, server' = "up" => server = "up",
         \A r \in Run : status'[r] = status[r] \/ status'[r] \notin ActiveStatus,
         abandoned \subseteq abandoned',
         \A r \in Run \ abandoned' :
           /\ status'[r] = "preparing" /\ r = FirstRun /\ setup' = "none" => setup = "none"
           /\ status'[r] = "starting" /\ r \in starts => r \in starts'
           /\ status'[r] = "running" /\ turn'[r] = "none" => turn[r] = "none"
           /\ status'[r] = "waiting" /\ r \in captures => r \in captures',
         plan' = plan \/ plan' = NoPlan
  PROVE  DrivenInv'
<1>1. RunsDriven'
  BY DEF DrivenInv, RunsDriven, Active, ActiveStatus
<1>2. PlanAlone'
  BY DEF DrivenInv, PlanAlone, ActiveStatus
<1> QED BY <1>1, <1>2 DEF DrivenInv

(* One run becomes active, or moves on, with its driver; nobody else is.   *)
LEMMA DriverComes ==
  ASSUME QInv, DrivenInv, NEW r \in Run, NEW s \in ActiveStatus,
         status' = [status EXCEPT ![r] = s],
         server' = server,
         \A q \in Active : q = r,
         \/ s = "preparing" /\ r = FirstRun /\ setup' # "none"
         \/ s = "starting" /\ r \in starts' /\ plan = NoPlan
         \/ s = "running" /\ turn'[r] # "none"
         \/ s = "waiting" /\ r \in captures',
         plan' = plan
  PROVE  DrivenInv'
<1>1. \A q \in Run : status'[q] \in ActiveStatus => q = r
  BY DEF QInv, Tables, Active
<1>2. status'[r] = s
  BY DEF QInv, Tables
<1>3. RunsDriven'
  BY <1>1, <1>2 DEF RunsDriven, Active
<1>4. PlanAlone'
  BY <1>1, <1>2 DEF DrivenInv, PlanAlone, QInv, Tables, ActiveStatus
<1> QED BY <1>3, <1>4 DEF DrivenInv

(* Whoever plans a start starts one run or none, with its effect.          *)
LEMMA DriversOfQueue ==
  ASSUME QInv, DrivenInv, NEW h, NEW ev, NEW ended, NEW failed, NEW chosen,
         StartNext(h, ev, ended, failed, chosen),
         plan = NoPlan,
         UNCHANGED <<setup, turn, captures, plan, server, abandoned>>
  PROVE  DrivenInv'
<1>1. CASE LeaveQueue(h, ev, chosen) \/ HoldQueue(h, ev, chosen)
  BY <1>1, DriversStay DEF LeaveQueue, HoldQueue
<1>2. CASE StartQueued(h, ev, ended, failed, chosen)
  <2>1. PICK r \in Candidates(h, chosen) :
          status' = [status EXCEPT ![r] = "starting"] /\ starts' = starts \cup {r}
    BY <1>2 DEF StartQueued
  <2>2. r \in Run /\ Active = {} /\ "starting" \in ActiveStatus
    BY <1>2, <2>1 DEF StartQueued, CanStart, Candidates, Queued, ActiveStatus
  <2> QED BY <2>1, <2>2, DriverComes
<1>3. CASE FailQueued(h, ev, ended, failed, chosen)
  <2>1. PICK r \in Candidates(h, chosen) : status' = [status EXCEPT ![r] = "failed"]
    BY <1>3 DEF FailQueued
  <2>2. starts' = starts
    BY <1>3 DEF FailQueued
  <2>3. \A q \in Run : status'[q] = status[q] \/ status'[q] \notin ActiveStatus
    BY <2>1 DEF QInv, Tables, ActiveStatus
  <2> QED BY <2>2, <2>3, DriversStay
<1> QED BY <1>1, <1>2, <1>3 DEF StartNext

LEMMA DriversOfPlanner ==
  ASSUME QInv, DrivenInv, Planner
  PROVE  DrivenInv'
<1> USE QueueAssumption
<1>0. FirstRun \in Run
  BY DEF FirstRun, Run
<1>1. CASE Launch
  <2>1. \A r \in Run : r # FirstRun => FirstRun < r
    BY DEF FirstRun, Run
  <2>2. Active = {}
    BY <1>0, <1>1, <2>1 DEF Launch, Arrives, QInv, ArrivalOrder, Active, ActiveStatus
  <2>3. "preparing" \in ActiveStatus /\ setup' # "none" /\ server' = server
        /\ status' = [status EXCEPT ![FirstRun] = "preparing"] /\ plan' = plan
    BY <1>1 DEF Launch, ActiveStatus, serverVars
  <2> QED BY <1>0, <2>2, <2>3, DriverComes
<1>2. CASE RetryPrepared
  <2>1. "preparing" \in ActiveStatus /\ setup' # "none" /\ Active = {} /\ server' = server
        /\ status' = [status EXCEPT ![FirstRun] = "preparing"] /\ plan' = plan
    BY <1>2 DEF RetryPrepared, ActiveStatus, serverVars
  <2> QED BY <1>0, <2>1, DriverComes
<1>3. CASE QueueResume \/ \E r \in Run : StartSelected(r)
  <2>1. PICK h, chosen : StartNext(h, events, NoRun, NoRun, chosen)
    BY <1>3 DEF QueueResume, StartSelected, Resume
  <2>2. plan = NoPlan /\ UNCHANGED <<setup, turn, captures, plan, server, abandoned>>
    BY <1>3 DEF QueueResume, StartSelected, Resume, UserMay, LockFree, processVars, serverVars
  <2> QED BY <2>1, <2>2, DriversOfQueue
<1>4. CASE Archive
  <2>1. \A r \in Run : status'[r] = status[r] \/ status'[r] = "cancelled"
    BY <1>4 DEF Archive
  <2> QED BY <1>4, <2>1, DriversStay DEF Archive, processVars, serverVars, ActiveStatus
<1>5. ASSUME NEW r \in Run, CancelQueued(r) PROVE DrivenInv'
  <2>1. \A q \in Run : status'[q] = status[q] \/ status'[q] = "cancelled"
    BY <1>5 DEF CancelQueued, QInv, Tables
  <2> QED BY <1>5, <2>1, DriversStay DEF CancelQueued, processVars, serverVars, ActiveStatus
<1>6. CASE Unarchive \/ \E r \in Run, b \in Run \cup {NoRun} : Reorder(r, b)
  BY <1>6, DriversStay DEF Unarchive, Reorder, runVars, processVars, serverVars
<1>7. CASE CreateWorktree
  BY <1>7, DriversStay DEF CreateWorktree, runVars, serverVars
<1>8. CASE AbandonSetup
  <2>1. status[FirstRun] # "preparing"
    BY <1>8 DEF AbandonSetup
  <2> QED BY <1>8, <2>1, DriversStay DEF AbandonSetup, runVars, serverVars
<1>9. CASE ReleasePrepared
  <2>1. status[FirstRun] = "preparing" /\ FirstRun \in starts' /\ plan = NoPlan
        /\ status' = [status EXCEPT ![FirstRun] = "starting"] /\ UNCHANGED <<plan, server, abandoned>>
    BY <1>9 DEF ReleasePrepared, LockFree, serverVars
  <2>2. "starting" \in ActiveStatus /\ \A q \in Active : q = FirstRun
    BY <1>0, <2>1 DEF QInv, OneActive, Active, ActiveStatus
  <2> QED BY <1>0, <2>1, <2>2, DriverComes
<1>10. CASE FailPrepared
  <2>1. /\ status'[FirstRun] = "failed"
        /\ \A q \in Run : status'[q] = status[q] \/ status'[q] = "failed"
    BY <1>0, <1>10 DEF FailPrepared, QInv, Tables
  <2> QED BY <1>10, <2>1, DriversStay DEF FailPrepared, serverVars, ActiveStatus
<1>11. ASSUME NEW r \in Run, NEW by \in {"user", "agent", "wake"}, NEW mode \in {"now", "queue"},
              Send(r, by, mode)
       PROVE  DrivenInv'
  <2>1. plan = NoPlan /\ status[r] = "none" /\ UNCHANGED <<setup, turn, captures, plan, server, abandoned>>
    BY <1>11 DEF Send, Arrives, UserMay, LockFree, processVars, serverVars
  <2>2. CASE QueueMessage(r, by, mode)
    <3>1. \A q \in Run : status'[q] = status[q] \/ status'[q] \notin ActiveStatus
      BY <2>2 DEF QueueMessage, QInv, Tables, ActiveStatus
    <3>2. starts' = starts
      BY <2>2 DEF QueueMessage
    <3> QED BY <2>1, <3>1, <3>2, DriversStay
  <2>3. CASE StartMessage(r, by, mode)
    <3>1. Active = {} /\ status' = [status EXCEPT ![r] = "starting"] /\ r \in starts'
          /\ "starting" \in ActiveStatus
      BY <2>3 DEF StartMessage, ActiveStatus
    <3> QED BY <2>1, <3>1, DriverComes
  <2> QED BY <1>11, <2>2, <2>3 DEF Send
<1>12. ASSUME NEW r \in Run, NEW hold \in BOOLEAN, PlanStop(r, hold) PROVE DrivenInv'
  <2>1. /\ plan'.run = r /\ r \in Active
        /\ UNCHANGED <<status, starts, captures, turn, setup, server, abandoned>>
    BY <1>12 DEF PlanStop, Active, ActiveStatus, runVars, processVars, serverVars
  <2>2. RunsDriven'
    BY <2>1 DEF DrivenInv, RunsDriven, Active
  <2>3. PlanAlone'
    BY <2>1 DEF PlanAlone, QInv, OneActive, Active, ActiveStatus
  <2> QED BY <2>2, <2>3 DEF DrivenInv
<1>13. CASE StopIdle \/ \E r \in Run, hold \in BOOLEAN : MarkStop(r, hold)
  <2>1. PICK end, ev, hold : HoldStopped(status, end, ev, hold)
    BY <1>13 DEF StopIdle, MarkStop
  <2>2. \A r \in Run : status'[r] = status[r] \/ status'[r] = "cancelled"
    BY <2>1 DEF HoldStopped
  <2> QED BY <1>13, <2>2, DriversStay DEF StopIdle, MarkStop, processVars, serverVars, ActiveStatus
<1>14. ASSUME NEW r \in Run, NEW hold \in BOOLEAN, SettleStop(r, hold) PROVE DrivenInv'
  <2>1. PICK st, end, ev : /\ st = [status EXCEPT ![r] = "interrupted"]
                           /\ HoldStopped(st, end, ev, hold)
    BY <1>14 DEF SettleStop
  <2>2. \A q \in Run : \/ status'[q] = status[q] /\ q # r
                       \/ status'[q] \in {"cancelled", "interrupted"}
    BY <2>1 DEF HoldStopped, QInv, Tables
  <2>3. \A q \in Run : q # r => turn'[q] = turn[q]
    BY <1>14 DEF SettleStop, QInv, Tables
  <2>4. captures \subseteq captures' /\ UNCHANGED <<starts, setup, plan, server, abandoned>>
    BY <1>14 DEF SettleStop, serverVars
  <2> QED BY <2>2, <2>3, <2>4, DriversStay DEF ActiveStatus
<1> QED BY <1>1, <1>2, <1>3, <1>4, <1>5, <1>6, <1>7, <1>8, <1>9, <1>10, <1>11, <1>12, <1>13, <1>14
        DEF Planner

LEMMA DriversOfServices ==
  ASSUME QInv, DrivenInv, CommitStop \/ HandleRunUpdate \/ TurnStart \/ TurnOutcome \/ TurnEnd \/ Capture
  PROVE  DrivenInv'
<1>1. CASE CommitStop
  <2>1. PICK r, st, end, ev, hold : /\ r = plan.run
                                    /\ st = [status EXCEPT ![r] = "interrupted"]
                                    /\ HoldStopped(st, end, ev, hold)
    BY <1>1 DEF CommitStop
  <2>2. \A q \in Run : \/ status'[q] = status[q] /\ q # r
                       \/ status'[q] \in {"cancelled", "interrupted"}
    BY <2>1 DEF HoldStopped, QInv, Tables
  <2>3. \A q \in Run : status[q] = "starting" => q = r
    BY <1>1, <2>1 DEF DrivenInv, PlanAlone, CommitStop
  <2>4. plan' = NoPlan /\ UNCHANGED <<captures, turn, setup, server, abandoned>>
    BY <1>1 DEF CommitStop, processVars, serverVars
  <2> QED BY <2>2, <2>3, <2>4, DriversStay DEF ActiveStatus
<1>2. CASE HandleRunUpdate
  <2>1. PICK h, ev, ended, failed : StartNext(h, ev, ended, failed, NoRun)
    BY <1>2 DEF HandleRunUpdate
  <2>2. plan = NoPlan /\ UNCHANGED <<setup, turn, captures, plan, server, abandoned>>
    BY <1>2 DEF HandleRunUpdate, LockFree, processVars, serverVars
  <2> QED BY <2>1, <2>2, DriversOfQueue
<1>3. ASSUME NEW r \in Run, TurnStarts(r) PROVE DrivenInv'
  <2>1. CASE status[r] = "starting"
    <3>1. "running" \in ActiveStatus /\ turn'[r] # "none" /\ UNCHANGED <<plan, server, abandoned>>
          /\ status' = [status EXCEPT ![r] = "running"]
      BY <1>3, <2>1 DEF TurnStarts, ActiveStatus, serverVars, QInv, Tables
    <3>2. \A q \in Active : q = r
      BY <2>1 DEF QInv, OneActive, Active, ActiveStatus
    <3> QED BY <3>1, <3>2, DriverComes
  <2>2. CASE status[r] # "starting"
    <3>1. UNCHANGED <<status, turn, setup, captures, plan, server, abandoned>> /\ starts' = starts \ {r}
      BY <1>3, <2>2 DEF TurnStarts, serverVars
    <3> QED BY <2>2, <3>1, DriversStay
  <2> QED BY <2>1, <2>2
<1>4. ASSUME NEW r \in Run, SettleBeforeStart(r) PROVE DrivenInv'
  <2>1. PICK s \in {"completed", "failed"} : Ends(r, s)
    BY <1>4 DEF SettleBeforeStart
  <2>2. \A q \in Run : \/ status'[q] = status[q] /\ q # r
                       \/ status'[q] \in {"completed", "failed"}
    BY <2>1 DEF Ends, QInv, Tables
  <2>3. starts' = starts \ {r} /\ UNCHANGED <<captures, turn, setup, plan, server, abandoned>>
    BY <1>4 DEF SettleBeforeStart, processVars, serverVars
  <2> QED BY <2>2, <2>3, DriversStay DEF ActiveStatus
<1>5. ASSUME NEW r \in Run, AcceptTurn(r) PROVE DrivenInv'
  <2>1. /\ UNCHANGED <<status, starts, captures, setup, plan, server, abandoned>>
        /\ status[r] = "running" => turn'[r] = "recorded"
        /\ \A q \in Run : q # r => turn'[q] = turn[q]
    BY <1>5 DEF AcceptTurn, runVars, serverVars, QInv, Tables
  <2> QED BY <2>1, DriversStay
<1>6. ASSUME NEW r \in Run, StartFails(r) \/ TurnEnds(r) PROVE DrivenInv'
  <2>1. /\ turn' = [turn EXCEPT ![r] = "none"] /\ captures \subseteq captures'
        /\ UNCHANGED <<starts, setup, plan, server, abandoned>>
    BY <1>6 DEF StartFails, TurnEnds, Finalize, serverVars
  <2>2. CASE status[r] # "running"
    BY <1>6, <2>1, <2>2, DriversStay DEF StartFails, TurnEnds, QInv, Tables
  <2>3. CASE status[r] = "running" /\ \E s \in {"interrupted", "failed"} : Ends(r, s)
    <3>1. \A q \in Run : \/ status'[q] = status[q] /\ q # r
                         \/ status'[q] \in {"interrupted", "failed"}
      BY <2>3 DEF Ends, QInv, Tables
    <3>2. \A q \in Run : q # r => turn'[q] = turn[q]
      BY <2>1 DEF QInv, Tables
    <3> QED BY <2>1, <3>1, <3>2, DriversStay DEF ActiveStatus
  <2>4. CASE status[r] = "running" /\ status' = [status EXCEPT ![r] = "waiting"] /\ r \in captures'
    <3>1. "waiting" \in ActiveStatus /\ \A q \in Active : q = r
      BY <2>4 DEF QInv, OneActive, Active, ActiveStatus
    <3> QED BY <2>1, <2>4, <3>1, DriverComes
  <2> QED BY <1>6, <2>2, <2>3, <2>4 DEF StartFails, TurnEnds, Finalize
<1>7. CASE Capture
  <2>1. ASSUME NEW r \in Run, CaptureRead(r) PROVE DrivenInv'
    <3>1. \A q \in Run : status'[q] = "waiting" /\ q \in captures => q \in captures'
      BY <2>1 DEF CaptureRead, runVars
    <3> QED BY <2>1, <3>1, DriversStay DEF CaptureRead, runVars, serverVars
  <2>2. CASE CaptureCommit
    <3>1. PICK r : r = capturing.run
      OBVIOUS
    <3>2. /\ r \in Run /\ captures' = captures \ {r}
          /\ UNCHANGED <<starts, turn, setup, plan, server, abandoned>>
      BY <2>2, <3>1 DEF CaptureCommit, serverVars, QInv, CaptureBegun
    <3>3. /\ \A q \in Run : status'[q] = status[q] \/ status'[q] = "completed"
          /\ status'[r] # "waiting"
      <4>1. CASE capturing.stopped
        BY <2>2, <3>1, <4>1 DEF CaptureCommit, QInv, CaptureBegun
      <4>2. CASE ~capturing.stopped
        BY <2>2, <3>1, <3>2, <4>2 DEF CaptureCommit, QInv, Tables
      <4> QED BY <4>1, <4>2
    <3> QED BY <3>2, <3>3, DriversStay DEF ActiveStatus
  <2> QED BY <1>7, <2>1, <2>2 DEF Capture
<1> QED BY <1>1, <1>2, <1>3, <1>4, <1>5, <1>6, <1>7 DEF TurnStart, TurnOutcome, TurnEnd

LEMMA DriversOfFailures ==
  ASSUME QInv, DrivenInv, Failure
  PROVE  DrivenInv'
<1>1. CASE SetupLost
  <2>1. status[FirstRun] = "preparing" /\ FirstRun \in Run
    BY <1>1, QueueAssumption DEF SetupLost, FirstRun, Run
  <2>2. abandoned' = abandoned \cup {FirstRun}
    BY <1>1, <2>1 DEF SetupLost, Abandon, Active, ActiveStatus
  <2> QED BY <1>1, <2>2, DriversStay DEF SetupLost, runVars
<1>2. CASE HandlerFails
  BY <1>2, DriversStay DEF HandlerFails, processVars, serverVars
<1>3. ASSUME NEW r \in Run, CaptureFails(r) PROVE DrivenInv'
  <2>1. /\ captures' = captures \ {r} /\ abandoned' = abandoned \cup ({r} \cap Active)
        /\ UNCHANGED <<status, starts, turn, setup, plan, server>>
    BY <1>3 DEF CaptureFails, Abandon, runVars
  <2>2. ASSUME NEW q \in Run \ abandoned', status[q] = "waiting", q \in captures
        PROVE  q \in captures'
    BY <2>1, <2>2 DEF Active, ActiveStatus
  <2> QED BY <2>1, <2>2, DriversStay
<1>4. ASSUME NEW r \in Run, StartEffectFails(r) PROVE DrivenInv'
  <2>1. /\ starts' = starts \ {r} /\ r \in abandoned' /\ abandoned \subseteq abandoned'
        /\ UNCHANGED <<status, captures, turn, setup, plan, server>>
    BY <1>4 DEF StartEffectFails, Abandon, Active, ActiveStatus, runVars, processVars
  <2> QED BY <2>1, DriversStay
<1>5. ASSUME NEW r \in Run, TurnLost(r) PROVE DrivenInv'
  <2>1. /\ turn' = [turn EXCEPT ![r] = "none"] /\ r \in abandoned' /\ abandoned \subseteq abandoned'
        /\ UNCHANGED <<status, starts, captures, setup, plan, server>>
    BY <1>5 DEF TurnLost, Abandon, Active, ActiveStatus, runVars
  <2>2. \A q \in Run : q # r => turn'[q] = turn[q]
    BY <2>1 DEF QInv, Tables
  <2> QED BY <2>1, <2>2, DriversStay
<1> QED BY <1>1, <1>2, <1>3, <1>4, <1>5 DEF Failure

LEMMA DriversOfProcess ==
  ASSUME QInv, DrivenInv, Process
  PROVE  DrivenInv'
<1>1. CASE ~Startup
  <2>1. server' # "up" /\ ((plan' = plan /\ status' = status) \/ plan' = NoPlan)
    BY <1>1 DEF Process, ServerStops, ShutdownRead, ShutdownCommit, Crash, Forget, runVars, processVars
  <2> QED BY <2>1 DEF DrivenInv, RunsDriven, PlanAlone
<1>2. CASE Startup
  <2>1. plan' = plan /\ plan = NoPlan /\ captures' = captures
    BY <1>2 DEF Startup, QInv, PlanBegun
  <2>2. \A r \in Run : status'[r] \in ActiveStatus => status'[r] = "waiting" /\ r \in captures
    BY <1>2 DEF Startup, Reconcile, Lost, ActiveStatus
  <2> QED BY <2>1, <2>2 DEF DrivenInv, RunsDriven, PlanAlone, Active
<1> QED BY <1>1, <1>2

(* While the server runs no run is left alone: whatever its status waits   *)
(* for, a fiber, an effect or a provider turn, is there, unless the last   *)
(* attempt of it failed.  No order of commands, Stops, captures, restarts  *)
(* and late reports loses it otherwise.                                    *)
THEOREM EveryRunIsDriven == Spec => []RunsDriven
<1>1. Init => DrivenInv
  BY DEF Init, DrivenInv, RunsDriven, PlanAlone, Active, ActiveStatus
<1>2. QInv /\ DrivenInv /\ [Next]_vars => DrivenInv'
  <2> SUFFICES ASSUME QInv, DrivenInv, [Next]_vars PROVE DrivenInv'
    OBVIOUS
  <2>1. CASE UNCHANGED vars
    BY <2>1 DEF vars, runVars, processVars, serverVars, DrivenInv, RunsDriven, PlanAlone, Active
  <2> QED BY <2>1, DriversOfPlanner, DriversOfServices, DriversOfFailures, DriversOfProcess DEF Next
<1>3. DrivenInv => RunsDriven
  BY DEF DrivenInv
<1> QED BY <1>1, <1>2, <1>3, QueueInvariant, PTL DEF Spec

-----------------------------------------------------------------------------
(* The queue has somebody who moves it on.                                 *)

(* Not held, and not passed over by an archived thread or a failed handler.*)
Waits(r) == status[r] = "queued" /\ ~held[r] /\ r \notin stranded

(* While the server runs and a message waits, a run is active, the end of  *)
(* one is still to be handled, or the provider is limited.                 *)
QueueDriven ==
  server = "up" /\ (\E r \in Run : Waits(r)) => Active # {} \/ events # <<>> \/ Limited

(* Unhandled updates are a sequence, and queue positions are bounded.      *)
Listed == \E U : events \in Seq(U)
Places == \E n \in Nat : place \in [Run -> 0..n]

WaitingInv == QueueDriven /\ Listed /\ Places

(* The numbers are well ordered, and bounded sets of them have a greatest. *)
LEMMA SmallestNumber ==
  ASSUME NEW S \in SUBSET Nat, S # {}
  PROVE  \E n \in S : \A m \in S : n <= m
<1> DEFINE R == {p \in Nat \X Nat : p[1] < p[2]}
<1>1. IsWellFoundedOn(R, Nat)
  BY NatLessThanWellFounded DEF OpToRel
<1>2. PICK n \in S : \A m \in S : <<m, n>> \notin R
  <2> HIDE DEF R
  <2> QED BY <1>1, WFMin
<1>3. ASSUME NEW m \in S PROVE n <= m
  <2>1. <<m, n>> \notin R /\ m \in Nat /\ n \in Nat
    BY <1>2
  <2> QED BY <2>1
<1> QED BY <1>3

LEMMA GreatestNumber ==
  ASSUME NEW N \in Nat, NEW S, S \subseteq 0..N, S # {}
  PROVE  \E n \in S : \A m \in S : n >= m
<1> DEFINE B == {n \in Nat : \A m \in S : m <= n}
<1>1. B \in SUBSET Nat /\ N \in B
  OBVIOUS
<1>2. PICK n \in B : \A b \in B : n <= b
  <2> HIDE DEF B
  <2> QED BY <1>1, SmallestNumber
<1>3. n \in Nat /\ \A m \in S : m \in Nat /\ m <= n
  BY <1>2
<1>4. n \in S
  <2>1. SUFFICES ASSUME n \notin S PROVE FALSE
    OBVIOUS
  <2>2. PICK m \in S : TRUE
    OBVIOUS
  <2>3. n - 1 \in Nat /\ \A l \in S : l <= n - 1
    BY <1>3, <2>1, <2>2
  <2>4. n - 1 \in B
    BY <2>3
  <2> QED BY <1>2, <1>3, <2>4
<1> QED BY <1>3, <1>4

(* Some queued run is next in delivery order.                              *)
LEMMA NextInOrder ==
  ASSUME Places, NEW S \in SUBSET Run, S # {}
  PROVE  \E r \in S : \A q \in S \ {r} : Ahead(r, q)
<1> USE QueueAssumption
<1>1. \A r \in Run : r \in Nat /\ place[r] \in Nat
  BY DEF Places, Run
<1> DEFINE P == {place[r] : r \in S}
<1>2. PICK p \in P : \A m \in P : p <= m
  <2>1. P \in SUBSET Nat /\ P # {}
    BY <1>1
  <2> HIDE DEF P
  <2> QED BY <2>1, SmallestNumber
<1> DEFINE F == {r \in S : place[r] = p}
<1>3. PICK r \in F : \A q \in F : r <= q
  <2>1. F \in SUBSET Nat /\ F # {}
    BY <1>1, <1>2
  <2> HIDE DEF F
  <2> QED BY <2>1, SmallestNumber
<1>4. ASSUME NEW q \in S \ {r} PROVE Ahead(r, q)
  <2>1. place[r] = p /\ p <= place[q] /\ p \in Nat /\ place[q] \in Nat /\ r \in Nat /\ q \in Nat
    BY <1>1, <1>2, <1>3
  <2>2. place[q] = p => r <= q
    BY <1>3
  <2> QED BY <2>1, <2>2 DEF Ahead
<1> QED BY <1>3, <1>4

(* An update was added: the handler has something to do.                   *)
LEMMA Reported ==
  ASSUME NEW U, NEW s \in Seq(U), NEW e
  PROVE  /\ Append(s, e) # <<>>
         /\ \E W : Append(s, e) \in Seq(W)
<1>1. PICK W : W = U \cup {e}
  OBVIOUS
<1>2. s \in Seq(W) /\ e \in W
  BY <1>1
<1> QED BY <1>2

(* The updates of one commit come after those already there.               *)
LEMMA ReportedTogether ==
  ASSUME NEW U, NEW s \in Seq(U), NEW runs \in SUBSET Run, NEW v
  PROVE  /\ s # <<>> => s \o Updates(runs, v) # <<>>
         /\ \E W : s \o Updates(runs, v) \in Seq(W)
<1> USE QueueAssumption
<1>1. Cardinality(runs) \in Nat
  <2>1. IsFiniteSet(Run)
    BY FS_Interval DEF Run
  <2> QED BY <2>1, FS_Subset, FS_CardinalityType
<1> DEFINE u == Updates(runs, v)
           V == {u[i] : i \in 1..Cardinality(runs)}
<1>2. u = [i \in 1..Cardinality(runs) |-> u[i]]
  BY DEF Updates
<1>3. u \in Seq(V)
  <2> HIDE DEF u
  <2> QED BY <1>1, <1>2
<1>4. s \in Seq(U \cup V) /\ u \in Seq(U \cup V)
  <2> HIDE DEF u, V
  <2> QED BY <1>3
<1> HIDE DEF u, V
<1>5. s \o u \in Seq(U \cup V) /\ (s # <<>> => s \o u # <<>>)
  BY <1>4
<1> QED BY <1>5 DEF u

(* Whoever is the latest run that executed stays it, and so does its limit.*)
LEMMA LimitStays ==
  ASSUME UNCHANGED <<started, endings, fault>>, Executed' = Executed,
         Latest # NoRun => status'[Latest] = status[Latest]
  PROVE  Limited' = Limited
<1>1. Latest' = Latest
  BY DEF Latest
<1> QED BY <1>1 DEF Limited

(* A step that neither lets a message go nor takes what the queue waits    *)
(* for, or that starts, reports or holds what there is.                    *)
LEMMA QueueStays ==
  ASSUME WaitingInv, Listed', Places',
         \/ server' # "up"
         \/ Active' # {}
         \/ events' # <<>>
         \/ \A r \in Run : ~Waits(r)'
         \/ /\ \A r \in Run : Waits(r)' => Waits(r)
            /\ UNCHANGED <<status, events, endings, fault, started, server>>
  PROVE  WaitingInv'
<1>1. CASE UNCHANGED <<status, endings, fault, started>>
  <2>1. Executed' = Executed /\ Active' = Active
    BY <1>1 DEF Executed, Active
  <2>2. Limited' = Limited
    BY <1>1, <2>1, LimitStays
  <2> QED BY <2>1, <2>2 DEF WaitingInv, QueueDriven
<1> QED BY <1>1 DEF WaitingInv, QueueDriven

(* Whoever looks for the next message starts it, fails it, or leaves the   *)
(* queue for one of the reasons the invariant names.                       *)
LEMMA QueueOfStart ==
  ASSUME QInv, WaitingInv, NEW h \in [Run -> BOOLEAN], NEW ev, NEW ended, NEW failed,
         NEW chosen \in Run \cup {NoRun}, chosen # NoRun => chosen \in Queued,
         StartNext(h, ev, ended, failed, chosen),
         \E U : ev \in Seq(U),
         UNCHANGED <<place, started, server>>
  PROVE  WaitingInv'
<1>1. Places'
  BY DEF WaitingInv, Places
<1>2. CASE LeaveQueue(h, ev, chosen)
  <2>1. UNCHANGED <<status, fault, endings, started>> /\ held' = h /\ events' = ev
    BY <1>2 DEF LeaveQueue
  <2>2. Listed'
    BY <2>1 DEF Listed
  <2>3. Executed' = Executed /\ Active' = Active
    BY <2>1 DEF Executed, Active
  <2>4. CASE Limited
    BY <1>1, <2>1, <2>2, <2>3, <2>4, LimitStays DEF WaitingInv, QueueDriven
  <2>5. CASE archived
    <3>1. stranded' = stranded \cup {r \in Queued : ~h[r]}
      BY <1>2, <2>5 DEF LeaveQueue
    <3>2. \A r \in Run : ~Waits(r)'
      BY <2>1, <3>1 DEF Waits, Queued
    <3> QED BY <1>1, <2>2, <3>2, QueueStays
  <2>6. CASE Active # {}
    BY <1>1, <2>2, <2>3, <2>6, QueueStays
  <2>7. CASE \A r \in Queued : h[r]
    <3>1. \A r \in Run : ~Waits(r)'
      BY <2>1, <2>7 DEF Waits, Queued
    <3> QED BY <1>1, <2>2, <3>1, QueueStays
  <2>8. CASE CanStart(h) /\ Candidates(h, chosen) = {}
    <3>1. PICK q \in Queued : ~h[q]
      BY <2>8 DEF CanStart
    <3>2. chosen = NoRun
      BY <2>8 DEF Candidates
    <3>3. PICK r \in {p \in Queued : ~h[p]} : \A p \in {s \in Queued : ~h[s]} \ {r} : Ahead(r, p)
      <4>1. PICK S : S = {p \in Queued : ~h[p]}
        OBVIOUS
      <4>2. S \in SUBSET Run /\ S # {}
        BY <3>1, <4>1 DEF Queued
      <4>3. \E r \in S : \A p \in S \ {r} : Ahead(r, p)
        BY <4>2, NextInOrder DEF WaitingInv
      <4> QED BY <4>1, <4>3
    <3>4. r \in Candidates(h, chosen)
      BY <3>2, <3>3 DEF Candidates
    <3> QED BY <2>8, <3>4
  <2> QED BY <1>2, <2>4, <2>5, <2>6, <2>7, <2>8 DEF LeaveQueue, CanStart
<1>3. CASE HoldQueue(h, ev, chosen)
  <2>1. \A r \in Run : ~Waits(r)'
    BY <1>3 DEF HoldQueue, Waits, Queued
  <2>2. Listed'
    BY <1>3 DEF HoldQueue, Listed
  <2> QED BY <1>1, <2>1, <2>2, QueueStays
<1>4. CASE StartQueued(h, ev, ended, failed, chosen)
  <2>1. PICK r \in Candidates(h, chosen) : status' = [status EXCEPT ![r] = "starting"]
    BY <1>4 DEF StartQueued
  <2>2. r \in Run /\ status'[r] = "starting"
    BY <2>1 DEF Candidates, Queued, QInv, Tables
  <2>3. Active' # {}
    BY <2>2 DEF Active, ActiveStatus
  <2>4. Listed'
    BY <1>4 DEF StartQueued, Listed
  <2> QED BY <1>1, <2>3, <2>4, QueueStays
<1>5. CASE FailQueued(h, ev, ended, failed, chosen)
  <2>1. PICK e : events' = Append(ev, e)
    BY <1>5 DEF FailQueued
  <2>2. events' # <<>> /\ Listed'
    BY <2>1, Reported DEF Listed
  <2> QED BY <1>1, <2>2, QueueStays
<1> QED BY <1>2, <1>3, <1>4, <1>5 DEF StartNext

(* A Stop that ends no run and holds nothing does not concern the queue.   *)
LEMMA QueueOfStop ==
  ASSUME QInv, WaitingInv, NEW st, NEW end, NEW ev, NEW hold \in BOOLEAN, HoldStopped(st, end, ev, hold),
         \E U : ev \in Seq(U),
         hold \/ ev # <<>> \/ Active' # {},
         \A r \in Run : st[r] = status[r] \/ st[r] # "queued",
         UNCHANGED place
  PROVE  WaitingInv'
<1>1. Places'
  BY DEF WaitingInv, Places
<1>2. PICK wakes, kept :
        /\ wakes = IF hold THEN {q \in Queued : author[q] = "wake"} ELSE {}
        /\ kept = IF hold THEN Queued \ wakes ELSE {}
        /\ status' = [q \in Run |-> IF q \in wakes THEN "cancelled" ELSE st[q]]
        /\ held' = [q \in Run |-> held[q] \/ q \in kept]
        /\ events' = ev \o Updates(wakes, "cancelled")
  BY DEF HoldStopped
<1>3. wakes \in SUBSET Run
  BY <1>2 DEF Queued
<1>4. Listed' /\ (ev # <<>> => events' # <<>>)
  BY <1>2, <1>3, ReportedTogether DEF Listed
<1>5. CASE hold
  <2>1. \A r \in Run : ~Waits(r)'
    BY <1>2, <1>5 DEF Waits, Queued
  <2> QED BY <1>1, <1>4, <2>1, QueueStays
<1>6. CASE ~hold
  BY <1>1, <1>4, <1>6, QueueStays
<1> QED BY <1>5, <1>6

(* A message in the queue comes last; a message that waits for a worktree  *)
(* is held, and lets nobody go.                                            *)
LEMMA QueueOfSend ==
  ASSUME QInv, WaitingInv, NEW r \in Run, NEW by \in {"user", "agent", "wake"},
         NEW mode \in {"now", "queue"}, Send(r, by, mode)
  PROVE  WaitingInv'
<1> USE QueueAssumption
<1>1. /\ status[r] = "none" /\ Listed'
      /\ UNCHANGED <<events, endings, fault, started, server, stranded>>
  BY DEF Send, Arrives, WaitingInv, Listed, serverVars
<1>2. CASE StartMessage(r, by, mode)
  <2>1. status'[r] = "starting" /\ Places'
    BY <1>2 DEF StartMessage, QInv, Tables, WaitingInv, Places
  <2>2. Active' # {}
    BY <2>1 DEF Active, ActiveStatus
  <2> QED BY <1>1, <2>1, <2>2, QueueStays
<1>3. CASE QueueMessage(r, by, mode)
  <2>1. status' = [status EXCEPT ![r] = "queued"]
    BY <1>3 DEF QueueMessage
  <2>2. Places'
    <3>1. PICK n \in Nat : place \in [Run -> 0..n]
      BY DEF WaitingInv, Places
    <3>2. PICK S : S = {0} \cup {place[q] : q \in Queued}
      OBVIOUS
    <3>3. S \subseteq 0..n /\ S # {}
      BY <3>1, <3>2 DEF Queued
    <3>4. \E x \in S : \A y \in S : x >= y
      BY <3>1, <3>3, GreatestNumber
    <3>5. Max(S) \in S
      BY <3>4 DEF Max
    <3>6. place' = [place EXCEPT ![r] = Max(S) + 1]
      BY <1>3, <3>2 DEF QueueMessage
    <3>7. Max(S) + 1 \in 0..(n + 1)
      <4>1. PICK m : m = Max(S)
        OBVIOUS
      <4>2. m \in 0..n /\ n \in Nat
        BY <3>1, <3>3, <3>5, <4>1
      <4>3. m + 1 \in 0..(n + 1)
        BY <4>2
      <4> QED BY <4>1, <4>3
    <3>8. n + 1 \in Nat /\ place' \in [Run -> 0..(n + 1)]
      BY <3>1, <3>6, <3>7
    <3> QED BY <3>8 DEF Places
  <2>3. CASE Active # {}
    <3>1. PICK a \in Run : status[a] \in ActiveStatus
      BY <2>3 DEF Active
    <3>2. status'[a] \in ActiveStatus
      BY <1>1, <2>1, <3>1 DEF QInv, Tables, ActiveStatus
    <3>3. Active' # {}
      BY <3>2 DEF Active
    <3> QED BY <1>1, <2>2, <3>3, QueueStays
  <2>4. CASE WorktreeMissing(mode)
    <3>1. /\ Latest = FirstRun /\ FirstRun \in Run
          /\ status[FirstRun] \in {"failed", "interrupted"} /\ SetupPending
      BY <2>4 DEF WorktreeMissing, Prepared, SetupPending, FirstRun, Run
    <3>2. Released(by) = {}
      BY <3>1 DEF Released
    <3>3. held' = [q \in Run |-> IF q = r THEN TRUE ELSE held[q]]
      BY <1>3, <2>4, <3>2 DEF QueueMessage, QInv, Tables
    <3>4. \A q \in Run : Waits(q)' => Waits(q)
      BY <1>1, <2>1, <3>3 DEF Waits, QInv, Tables
    <3>5. status'[Latest] = status[Latest]
      BY <1>1, <2>1, <3>1 DEF QInv, Tables
    <3>6. Executed' = Executed /\ Active' = Active
      BY <1>1, <2>1 DEF Executed, Active, ActiveStatus, QInv, Tables
    <3>7. Limited' = Limited
      BY <1>1, <3>5, <3>6, LimitStays
    <3> QED BY <1>1, <2>2, <3>4, <3>6, <3>7 DEF WaitingInv, QueueDriven
  <2> QED BY <1>3, <2>3, <2>4 DEF QueueMessage
<1> QED BY <1>2, <1>3 DEF Send

LEMMA QueueOfReorder ==
  ASSUME WaitingInv, NEW r \in Run, NEW b \in Run \cup {NoRun}, Reorder(r, b)
  PROVE  WaitingInv'
<1> USE QueueAssumption
<1> DEFINE others == Queued \ {r}
           before(q) == {p \in others : Ahead(p, q)}
           rank(q) == Cardinality(before(q)) + 1
           target == IF b = NoRun THEN Cardinality(Queued) ELSE rank(b)
<1>1. place' = [q \in Run |->
           IF q = r THEN target
           ELSE IF q \in others THEN rank(q) + (IF rank(q) >= target THEN 1 ELSE 0)
           ELSE place[q]]
  BY DEF Reorder
<1>2. ASSUME NEW S \in SUBSET Run PROVE Cardinality(S) \in 0..MaxRuns
  <2>1. IsFiniteSet(Run) /\ Cardinality(Run) = MaxRuns
    <3>1. IsFiniteSet(1..MaxRuns)
          /\ Cardinality(1..MaxRuns) = IF 1 > MaxRuns THEN 0 ELSE MaxRuns - 1 + 1
      BY FS_Interval
    <3>2. (IF 1 > MaxRuns THEN 0 ELSE MaxRuns - 1 + 1) = MaxRuns
      OBVIOUS
    <3> QED BY <3>1, <3>2, Zenon DEF Run
  <2>2. Cardinality(S) \in Nat /\ Cardinality(S) <= MaxRuns
    BY <2>1, FS_Subset, FS_CardinalityType
  <2> QED BY <2>2
<1>3. ASSUME NEW q PROVE rank(q) \in 1..(MaxRuns + 1)
  <2>1. before(q) \in SUBSET Run
    BY DEF Queued
  <2>2. Cardinality(before(q)) \in 0..MaxRuns
    BY <1>2, <2>1
  <2> HIDE DEF before
  <2> QED BY <2>2
<1>4. target \in 0..(MaxRuns + 1)
  <2>1. Queued \in SUBSET Run
    BY DEF Queued
  <2>2. Cardinality(Queued) \in 0..MaxRuns /\ rank(b) \in 1..(MaxRuns + 1)
    BY <1>2, <1>3, <2>1
  <2> HIDE DEF rank
  <2> QED BY <2>2
<1>5. PICK n \in Nat : place \in [Run -> 0..n]
  BY DEF WaitingInv, Places
<1> HIDE DEF others, before, rank, target
<1>6. \A q \in Run : place'[q] \in 0..(n + MaxRuns + 2)
  <2> SUFFICES ASSUME NEW q \in Run PROVE place'[q] \in 0..(n + MaxRuns + 2)
    OBVIOUS
  <2>1. rank(q) \in Nat /\ rank(q) <= MaxRuns + 1 /\ target \in Nat /\ target <= MaxRuns + 1
    BY <1>3, <1>4
  <2>2. place[q] \in Nat /\ place[q] <= n
    BY <1>5
  <2> QED BY <1>1, <2>1, <2>2
<1>7. n + MaxRuns + 2 \in Nat /\ place' \in [Run -> 0..(n + MaxRuns + 2)]
  BY <1>1, <1>5, <1>6
<1>8. UNCHANGED <<status, held, stranded, events, endings, fault, started, server>>
  BY DEF Reorder, serverVars, historyVars
<1>9. Places' /\ Listed'
  BY <1>7, <1>8 DEF Places, WaitingInv, Listed
<1>10. \A q \in Run : Waits(q)' => Waits(q)
  BY <1>8 DEF Waits
<1> QED BY <1>8, <1>9, <1>10, QueueStays

LEMMA QueueOfPlanner ==
  ASSUME QInv, WaitingInv, Planner
  PROVE  WaitingInv'
<1> USE QueueAssumption
<1>0. FirstRun \in Run /\ \E U : events \in Seq(U)
  BY DEF FirstRun, Run, WaitingInv, Listed
<1>1. CASE Launch \/ RetryPrepared \/ ReleasePrepared
  <2>1. status'[FirstRun] \in {"preparing", "starting"} /\ UNCHANGED <<events, place>>
    BY <1>0, <1>1 DEF Launch, RetryPrepared, ReleasePrepared, QInv, Tables
  <2>2. Active' # {} /\ Listed' /\ Places'
    BY <1>0, <2>1 DEF Active, ActiveStatus, WaitingInv, Listed, Places
  <2> QED BY <2>2, QueueStays
<1>2. CASE QueueResume \/ \E r \in Run : StartSelected(r)
  <2>1. PICK chosen \in Run \cup {NoRun} : Resume(chosen) /\ (chosen # NoRun => chosen \in Queued)
    BY <1>2 DEF QueueResume, StartSelected
  <2>2. PICK h : /\ h = [q \in Run |-> held[q] /\ q \notin Queued]
                 /\ StartNext(h, events, NoRun, NoRun, chosen)
    BY <2>1 DEF Resume
  <2>3. h \in [Run -> BOOLEAN] /\ UNCHANGED <<place, started, server>>
    BY <2>1, <2>2 DEF Resume, serverVars, QInv, Tables
  <2> QED BY <1>0, <2>1, <2>2, <2>3, QueueOfStart
<1>3. CASE Archive
  <2>1. PICK waiting : /\ waiting = {r \in Run : status[r] \in {"queued", "preparing"}}
                       /\ status' = [r \in Run |-> IF r \in waiting THEN "cancelled" ELSE status[r]]
                       /\ events' = events \o Updates(waiting, "cancelled")
    BY <1>3 DEF Archive
  <2>2. waiting \in SUBSET Run
    BY <2>1
  <2>3. Listed'
    BY <1>0, <2>1, <2>2, ReportedTogether DEF Listed
  <2>4. Places' /\ \A r \in Run : ~Waits(r)'
    BY <1>3, <2>1 DEF Archive, WaitingInv, Places, Waits
  <2> QED BY <2>3, <2>4, QueueStays
<1>4. ASSUME FailPrepared \/ \E r \in Run : CancelQueued(r) PROVE WaitingInv'
  <2>1. PICK e : events' = Append(events, e)
    BY <1>4 DEF FailPrepared, CancelQueued
  <2>2. events' # <<>> /\ Listed'
    BY <1>0, <2>1, Reported DEF Listed
  <2>3. Places'
    BY <1>4 DEF FailPrepared, CancelQueued, WaitingInv, Places
  <2> QED BY <2>2, <2>3, QueueStays
<1>5. CASE \/ Unarchive \/ CreateWorktree \/ AbandonSetup
           \/ \E r \in Run, hold \in BOOLEAN : PlanStop(r, hold)
  <2>1. UNCHANGED <<status, held, stranded, place, events, endings, fault, started, server>>
    BY <1>5 DEF Unarchive, CreateWorktree, AbandonSetup, PlanStop, runVars, serverVars, historyVars
  <2>2. Listed' /\ Places' /\ \A r \in Run : Waits(r)' => Waits(r)
    BY <2>1 DEF WaitingInv, Listed, Places, Waits
  <2> QED BY <2>1, <2>2, QueueStays
<1>6. CASE StopIdle
  <2>1. PICK st : st = status /\ HoldStopped(st, endings, events, TRUE)
    BY <1>6 DEF StopIdle
  <2>2. UNCHANGED place
    BY <1>6 DEF StopIdle
  <2> QED BY <1>0, <2>1, <2>2, QueueOfStop
<1>7. ASSUME NEW r \in Run, NEW hold \in BOOLEAN, MarkStop(r, hold) PROVE WaitingInv'
  <2>1. PICK st : st = status /\ HoldStopped(st, endings, events, hold)
    BY <1>7 DEF MarkStop
  <2>2. UNCHANGED place /\ status[r] = "running"
    BY <1>7 DEF MarkStop
  <2>3. status'[r] = "running"
    BY <2>1, <2>2 DEF HoldStopped, Queued
  <2>4. Active' # {}
    BY <2>3 DEF Active, ActiveStatus
  <2> QED BY <1>0, <2>1, <2>2, <2>4, QueueOfStop
<1>8. ASSUME NEW r \in Run, NEW hold \in BOOLEAN, SettleStop(r, hold) PROVE WaitingInv'
  <2>1. PICK st, end, ev, e : /\ st = [status EXCEPT ![r] = "interrupted"]
                              /\ ev = Append(events, e)
                              /\ HoldStopped(st, end, ev, hold)
    BY <1>8 DEF SettleStop
  <2>2. UNCHANGED place /\ ev # <<>> /\ \E U : ev \in Seq(U)
    BY <1>0, <1>8, <2>1, Reported DEF SettleStop
  <2>3. \A q \in Run : st[q] = status[q] \/ st[q] # "queued"
    BY <2>1 DEF QInv, Tables
  <2> QED BY <2>1, <2>2, <2>3, QueueOfStop
<1> QED BY <1>1, <1>2, <1>3, <1>4, <1>5, <1>6, <1>7, <1>8, QueueOfSend, QueueOfReorder DEF Planner

LEMMA QueueOfServices ==
  ASSUME QInv, WaitingInv, CommitStop \/ HandleRunUpdate \/ TurnStart \/ TurnOutcome \/ TurnEnd \/ Capture
  PROVE  WaitingInv'
<1>0. PICK U : events \in Seq(U)
  BY DEF WaitingInv, Listed
<1>1. ASSUME NEW e, events' = Append(events, e), UNCHANGED place PROVE WaitingInv'
  <2>1. events' # <<>> /\ Listed'
    BY <1>0, <1>1, Reported DEF Listed
  <2>2. Places'
    BY <1>1 DEF WaitingInv, Places
  <2> QED BY <2>1, <2>2, QueueStays
<1>2. ASSUME NEW r \in Run, NEW s \in ActiveStatus, status' = [status EXCEPT ![r] = s],
             UNCHANGED <<events, place>>
      PROVE  WaitingInv'
  <2>1. Active' # {}
    BY <1>2 DEF Active, QInv, Tables
  <2>2. Listed' /\ Places'
    BY <1>2 DEF WaitingInv, Listed, Places
  <2> QED BY <2>1, <2>2, QueueStays
<1>3. ASSUME UNCHANGED <<status, held, stranded, place, events, endings, fault, server>>,
             started' = started
      PROVE  WaitingInv'
  <2>1. Listed' /\ Places' /\ \A r \in Run : Waits(r)' => Waits(r)
    BY <1>3 DEF WaitingInv, Listed, Places, Waits
  <2> QED BY <1>3, <2>1, QueueStays
<1>4. CASE CommitStop
  <2>1. PICK r, hold, st, end, ev, e : /\ r = plan.run /\ hold = plan.hold
                                       /\ st = [status EXCEPT ![r] = "interrupted"]
                                       /\ ev = Append(events, e)
                                       /\ HoldStopped(st, end, ev, hold)
    BY <1>4 DEF CommitStop
  <2>2. UNCHANGED place /\ ev # <<>> /\ \E W : ev \in Seq(W)
    BY <1>0, <1>4, <2>1, Reported DEF CommitStop
  <2>3. \A q \in Run : st[q] = status[q] \/ st[q] # "queued"
    BY <2>1 DEF QInv, Tables
  <2>4. PICK g \in BOOLEAN : HoldStopped(st, end, ev, g)
    <3>1. CASE hold
      <4>1. HoldStopped(st, end, ev, TRUE)
        BY <2>1, <3>1 DEF HoldStopped
      <4> QED BY <4>1
    <3>2. CASE ~hold
      <4>1. HoldStopped(st, end, ev, FALSE)
        BY <2>1, <3>2 DEF HoldStopped
      <4> QED BY <4>1
    <3> QED BY <3>1, <3>2
  <2> QED BY <2>2, <2>3, <2>4, QueueOfStop
<1>5. CASE HandleRunUpdate
  <2>1. PICK h, ended, failed, released :
          /\ h = [r \in Run |-> held[r] /\ r \notin released]
          /\ StartNext(h, Tail(events), ended, failed, NoRun)
    BY <1>5 DEF HandleRunUpdate
  <2>2. h \in [Run -> BOOLEAN] /\ UNCHANGED <<place, started, server>> /\ Tail(events) \in Seq(U)
    BY <1>0, <1>5, <2>1 DEF HandleRunUpdate, serverVars, QInv, Tables
  <2> QED BY <2>1, <2>2, QueueOfStart
<1>6. ASSUME NEW r \in Run, TurnStarts(r) PROVE WaitingInv'
  <2>1. "running" \in ActiveStatus /\ UNCHANGED <<held, stranded, place, events, endings, fault, server>>
    BY <1>6 DEF TurnStarts, ActiveStatus, serverVars, historyVars
  <2> QED BY <1>2, <1>3, <1>6, <2>1 DEF TurnStarts
<1>7. ASSUME NEW r \in Run, SettleBeforeStart(r) PROVE WaitingInv'
  BY <1>1, <1>7 DEF SettleBeforeStart, Ends
<1>8. ASSUME NEW r \in Run, AcceptTurn(r) PROVE WaitingInv'
  BY <1>3, <1>8 DEF AcceptTurn, runVars, serverVars, historyVars
<1>9. ASSUME NEW r \in Run, StartFails(r) \/ TurnEnds(r) PROVE WaitingInv'
  <2>1. /\ "waiting" \in ActiveStatus
        /\ UNCHANGED <<held, stranded, place, started, server>>
    BY <1>9 DEF StartFails, TurnEnds, ActiveStatus, serverVars, historyVars
  <2>2. CASE UNCHANGED <<status, events, endings, fault>>
    BY <1>3, <2>1, <2>2
  <2>3. CASE \E s : Ends(r, s)
    BY <1>1, <2>1, <2>3 DEF Ends
  <2>4. CASE status' = [status EXCEPT ![r] = "waiting"] /\ UNCHANGED events
    BY <1>2, <2>1, <2>4
  <2> QED BY <1>9, <2>2, <2>3, <2>4 DEF StartFails, TurnEnds, Finalize
<1>10. CASE Capture
  <2>1. CASE CaptureCommit
    BY <1>1, <2>1 DEF CaptureCommit
  <2>2. ASSUME NEW r \in Run, CaptureRead(r) PROVE WaitingInv'
    BY <1>3, <2>2 DEF CaptureRead, runVars, serverVars, historyVars
  <2> QED BY <1>10, <2>1, <2>2 DEF Capture
<1> QED BY <1>4, <1>5, <1>6, <1>7, <1>8, <1>9, <1>10 DEF TurnStart, TurnOutcome, TurnEnd

(* A handler that fails passes over all that waits; other failures leave   *)
(* the queue alone.                                                        *)
LEMMA QueueOfFailures ==
  ASSUME QInv, WaitingInv, Failure
  PROVE  WaitingInv'
<1>1. CASE HandlerFails
  <2>1. PICK U : events \in Seq(U)
    BY DEF WaitingInv, Listed
  <2>2. Tail(events) \in Seq(U)
    BY <1>1, <2>1 DEF HandlerFails
  <2>3. Listed' /\ Places'
    BY <1>1, <2>2 DEF HandlerFails, WaitingInv, Listed, Places
  <2>4. \A r \in Run : ~Waits(r)'
    BY <1>1 DEF HandlerFails, Waits, Queued
  <2> QED BY <2>3, <2>4, QueueStays
<1>2. CASE ~HandlerFails
  <2>1. UNCHANGED <<status, held, stranded, place, events, endings, fault, started, server>>
    BY <1>2 DEF Failure, SetupLost, CaptureFails, StartEffectFails, TurnLost, runVars, historyVars
  <2>2. Listed' /\ Places' /\ \A r \in Run : Waits(r)' => Waits(r)
    BY <2>1 DEF WaitingInv, Listed, Places, Waits
  <2> QED BY <2>1, <2>2, QueueStays
<1> QED BY <1>1, <1>2

(* A server that starts holds every message it finds.                      *)
LEMMA QueueOfProcess ==
  ASSUME QInv, WaitingInv, Process
  PROVE  WaitingInv'
<1>1. (events' = events \/ events' = <<>>) /\ place' = place
  BY DEF Process, ServerStops, ShutdownRead, ShutdownCommit, Crash, Startup, Forget, Reconcile, runVars
<1>2. Listed' /\ Places'
  <2>1. <<>> \in Seq({})
    OBVIOUS
  <2> QED BY <1>1, <2>1 DEF WaitingInv, Listed, Places
<1>3. CASE ~Startup
  <2>1. server' # "up"
    BY <1>3 DEF Process, ServerStops, ShutdownRead, ShutdownCommit, Crash
  <2> QED BY <1>2, <2>1, QueueStays
<1>4. CASE Startup
  <2>1. \A r \in Run : ~Waits(r)'
    BY <1>4 DEF Startup, Reconcile, Waits
  <2> QED BY <1>2, <2>1, QueueStays
<1> QED BY <1>3, <1>4

(* No message is forgotten: while one waits, a run is active, the end of   *)
(* one is still to be handled, or the provider is limited.                 *)
THEOREM QueueIsDriven == Spec => []QueueDriven
<1> USE QueueAssumption
<1>1. Init => WaitingInv
  <2> SUFFICES ASSUME Init PROVE WaitingInv
    OBVIOUS
  <2>1. <<>> \in Seq({}) /\ place \in [Run -> 0..0] /\ 0 \in Nat
    BY DEF Init
  <2> QED BY <2>1 DEF Init, WaitingInv, QueueDriven, Listed, Places, Waits
<1>2. QInv /\ WaitingInv /\ [Next]_vars => WaitingInv'
  <2> SUFFICES ASSUME QInv, WaitingInv, [Next]_vars PROVE WaitingInv'
    OBVIOUS
  <2>1. CASE UNCHANGED vars
    <3>1. UNCHANGED <<status, held, stranded, place, events, endings, fault, started, server>>
      BY <2>1 DEF vars, runVars, serverVars, historyVars
    <3>2. Listed' /\ Places' /\ \A r \in Run : Waits(r)' => Waits(r)
      BY <3>1 DEF WaitingInv, Listed, Places, Waits
    <3> QED BY <3>1, <3>2, QueueStays
  <2> QED BY <2>1, QueueOfPlanner, QueueOfServices, QueueOfFailures, QueueOfProcess DEF Next
<1>3. WaitingInv => QueueDriven
  BY DEF WaitingInv
<1> QED BY <1>1, <1>2, <1>3, QueueInvariant, PTL DEF Spec
=============================================================================

------------------------------ MODULE RunQueue ------------------------------
(***************************************************************************)
(* The runs of one conversation thread and its queue of waiting messages   *)
(* (apps/server/src/orchestration-v2): the planners of Orchestrator.ts     *)
(* that send, queue, hold, release, stop and archive, the handler that     *)
(* starts the next queued run when another ended, the services that start  *)
(* a provider turn and end it, the checkpoint capture that completes a     *)
(* run, the preparation of a worktree for the first run, and the           *)
(* reconciliation of a server that stops, crashes and starts.              *)
(*                                                                         *)
(* Commands and the handler's writes hold the thread's lock; the effect    *)
(* worker, the provider's events and the shutdown reconciliation do not.   *)
(***************************************************************************)
EXTENDS Integers, Sequences, FiniteSets, FiniteSetsExt, SequencesExt

CONSTANTS
  MaxRuns,       (* bound: how many messages the thread receives           *)
  MaxEvents,     (* bound: unhandled updates when a command is accepted    *)
  MaxRestarts,   (* bound: how many times the server goes down             *)
  Traffics       (* bound: what happens in one behaviour                   *)

(* What clients, agents, providers, the disk and the operating system may  *)
(* do.                                                                     *)
Kind == {"launch", "send", "agent", "wake", "retry", "resume", "start", "cancel", "reorder",
         "archive", "stop", "interrupt", "failure", "restart"}

ASSUME QueueAssumption ==
  /\ MaxRuns \in Nat \ {0}
  /\ MaxEvents \in Nat
  /\ MaxRestarts \in Nat
  /\ Traffics # {} /\ Traffics \subseteq [kinds : SUBSET Kind, messages : Nat]

Run == 1..MaxRuns        (* a run is its ordinal at creation                 *)
NoRun == 0
FirstRun == 1

VARIABLES
  status,        (* run.status; "none" before the message arrives          *)
  held,          (* run.queueHeld                                          *)
  place,         (* run.queuePosition, read while the run is queued        *)
  author,        (* who created the message: a user, an agent or a task,   *)
                 (* or a provider's buffered notification ("wake")         *)
  fault,         (* the failure class of a failed run's error item         *)
  started,       (* runs with a startedAt                                  *)
  endings,       (* the runs with a completedAt, in that order             *)
  launched,      (* the first run carries workspacePreparation "worktree"  *)
  worktree,      (* thread.worktreePath is not null                        *)
  archived,      (* thread.archivedAt is not null                          *)
  stopped,       (* runs with a run_interrupt_request item                 *)
  starts,        (* unsettled provider-turn.start effects                  *)
  captures,      (* unsettled checkpoint.capture effects                   *)
  events,        (* terminal run updates the handler has not reached       *)
  turn,          (* the provider turn of a run: starting or recorded       *)
  capturing,     (* the run whose capture has read its context             *)
  setup,         (* the preparation fiber of the first run                 *)
  plan,          (* a Stop that was decided and is about to commit         *)
  server,        (* up, stopping or down                                   *)
  snapshot,      (* what the shutdown reconciliation has read              *)
  restarts,      (* how often the server went down                         *)
  traffic,       (* bound: what happens in this behaviour                  *)
  unreviewed,    (* history: user messages held by a Stop or a restart     *)
  stranded,      (* history: messages passed over while archived, or when  *)
                 (* the handler failed                                     *)
  abandoned      (* history: active runs whose effect or fiber failed for  *)
                 (* good while this server runs                            *)

runVars == <<status, held, place, author, fault, started, endings>>
threadVars == <<launched, worktree, archived, stopped>>
processVars == <<turn, capturing, setup>>
serverVars == <<server, snapshot, restarts, traffic, abandoned>>
historyVars == <<unreviewed, stranded>>
vars == <<runVars, threadVars, starts, captures, events, processVars, plan, serverVars, historyVars>>

ActiveStatus == {"preparing", "starting", "running", "waiting"}
SettledStatus == {"completed", "failed", "interrupted", "cancelled"}
Status == {"none", "queued"} \cup ActiveStatus \cup SettledStatus
Update == [run : Run, status : SettledStatus]
NoPlan == [run |-> NoRun, hold |-> FALSE]
NoSnapshot == [taken |-> FALSE]

TypeOK ==
  /\ status \in [Run -> Status]
  /\ held \in [Run -> BOOLEAN]
  /\ place \in [Run -> Nat]
  /\ author \in [Run -> {"none", "user", "agent", "wake"}]
  /\ fault \in [Run -> {"none", "limit", "provider", "rejected", "setup"}]
  /\ started \subseteq Run
  /\ endings \in Seq(Run)
  /\ {launched, worktree, archived} \subseteq BOOLEAN
  /\ stopped \subseteq Run
  /\ starts \subseteq Run
  /\ captures \subseteq Run
  /\ events \in Seq(Update)
  /\ turn \in [Run -> {"none", "starting", "recorded"}]
  /\ capturing \in [run : Run \cup {NoRun}, stopped : BOOLEAN]
  /\ setup \in {"none", "preparing", "created"}
  /\ plan \in [run : Run \cup {NoRun}, hold : BOOLEAN]
  /\ server \in {"up", "stopping", "down"}
  /\ snapshot \in {NoSnapshot} \cup
       [taken : {TRUE}, status : [Run -> Status], held : [Run -> BOOLEAN]]
  /\ restarts \in 0..MaxRestarts
  /\ traffic \in Traffics
  /\ unreviewed \subseteq Run
  /\ stranded \subseteq Run
  /\ abandoned \subseteq Run

NotCapturing == [run |-> NoRun, stopped |-> FALSE]

Init ==
  /\ status = [r \in Run |-> "none"]
  /\ held = [r \in Run |-> FALSE]
  /\ place = [r \in Run |-> 0]
  /\ author = [r \in Run |-> "none"]
  /\ fault = [r \in Run |-> "none"]
  /\ started = {} /\ endings = <<>>
  /\ launched = FALSE /\ worktree = FALSE /\ archived = FALSE
  /\ stopped = {} /\ starts = {} /\ captures = {}
  /\ events = <<>>
  /\ turn = [r \in Run |-> "none"]
  /\ capturing = NotCapturing /\ setup = "none" /\ plan = NoPlan
  /\ server = "up" /\ snapshot = NoSnapshot /\ restarts = 0 /\ traffic \in Traffics
  /\ unreviewed = {} /\ stranded = {} /\ abandoned = {}

-----------------------------------------------------------------------------
(* What the planners read from the projection.                             *)

Active == {r \in Run : status[r] \in ActiveStatus}
Queued == {r \in Run : status[r] = "queued"}

(* A run that started, or is about to; a message cancelled in the queue    *)
(* never did.                                                              *)
Executed == {r \in Run : /\ status[r] \notin {"none", "queued"}
                         /\ status[r] = "cancelled" => r \in started}

(* latestExecutedRun: unfinished runs count as latest, then the last end.  *)
LatestOf(executed, ends) ==
  LET unfinished == executed \ ToSet(ends)
      ended == SelectSeq(ends, LAMBDA r : r \in executed)
  IN  IF unfinished # {} THEN Max(unfinished)
      ELSE IF ended = <<>> THEN NoRun ELSE Last(ended)

Latest == LatestOf(Executed, endings)

Prepared(r) == launched /\ r = FirstRun

(* worktreeSetupPending *)
SetupPending ==
  ~worktree /\ \E r \in Run : Prepared(r) /\ status[r] \in {"failed", "interrupted"}

(* usageLimitHoldsQueue *)
Limited == Latest # NoRun /\ status[Latest] = "failed" /\ fault[Latest] = "limit"

(* queuedRunsInDeliveryOrder *)
Ahead(p, q) == place[p] < place[q] \/ (place[p] = place[q] /\ p < q)

(* nextQueuedRun, or the run the user selected. *)
Candidates(h, chosen) ==
  IF chosen # NoRun THEN {chosen} \cap Queued
  ELSE {r \in Queued : ~h[r] /\ \A q \in Queued \ {r} : ~h[q] => Ahead(r, q)}

QueueHeld == \E r \in Queued : held[r]

InOrder(runs) == SetToSortSeq(runs, <)

(* The terminal updates one commit writes, in the order of its runs.       *)
Updates(runs, s) ==
  [i \in 1..Cardinality(runs) |-> [run |-> InOrder(runs)[i], status |-> s]]

(* Commands and handler steps wait for the thread's lock.  The gate turns  *)
(* a user's commands away once the server stops.                           *)
LockFree == plan = NoPlan /\ server # "down"
Sent(kind) == kind \in traffic.kinds /\ Len(events) <= MaxEvents
UserMay(command) == Sent(command) /\ LockFree /\ server = "up"

(* User messages in the queue that only the user may let go from now on.   *)
ToReview(runs) == {r \in runs : author[r] = "user"}

-----------------------------------------------------------------------------
(* startNextQueuedRun.  h is queueHeld as this step has left it, ev the    *)
(* updates still unhandled, ended the run whose update is handled, failed  *)
(* that run if it failed, chosen the run the user selected.                *)

(* Faulty: the next message starts without looking for an active run.      *)
CanStartBeside(h) == ~archived /\ \E r \in Queued : ~h[r]

CanStart(h) == ~archived /\ Active = {} /\ \E r \in Queued : ~h[r]

MustHold(ended, failed) ==
  \/ Latest # NoRun /\ Latest = ended /\ Prepared(Latest) /\ ~worktree
  \/ Latest # NoRun /\ Latest = failed /\ fault[Latest] \notin {"rejected", "setup"}

(* Nothing to start, or a limited provider that would consume the queue.   *)
LeaveQueue(h, ev, chosen) ==
  /\ ~CanStart(h) \/ Limited \/ Candidates(h, chosen) = {}
  /\ held' = h
  /\ events' = ev
  /\ stranded' = stranded \cup (IF archived THEN {r \in Queued : ~h[r]} ELSE {})
  /\ UNCHANGED <<status, fault, endings, starts>>

(* The whole queue waits for the user: no worktree, the provider failed,   *)
(* or its instance is disabled, which the settings may say at any time.    *)
HoldQueue(h, ev, chosen) ==
  /\ CanStart(h) /\ ~Limited /\ Candidates(h, chosen) # {}
  /\ held' = [r \in Run |-> h[r] \/ r \in Queued]
  /\ events' = ev
  /\ UNCHANGED <<status, fault, endings, starts, stranded>>

StartQueued(h, ev, ended, failed, chosen) ==
  /\ CanStart(h) /\ ~Limited /\ ~MustHold(ended, failed)
  /\ \E r \in Candidates(h, chosen) :
       /\ status' = [status EXCEPT ![r] = "starting"]
       /\ starts' = starts \cup {r}
  /\ held' = h
  /\ events' = ev
  /\ UNCHANGED <<fault, endings, stranded>>

(* failQueuedRunStart: planning the start failed.                          *)
FailQueued(h, ev, ended, failed, chosen) ==
  /\ CanStart(h) /\ ~Limited /\ ~MustHold(ended, failed)
  /\ \E r \in Candidates(h, chosen), f \in {"provider", "rejected"} :
       /\ status' = [status EXCEPT ![r] = "failed"]
       /\ fault' = [fault EXCEPT ![r] = f]
       /\ endings' = Append(endings, r)
       /\ events' = Append(ev, [run |-> r, status |-> "failed"])
  /\ held' = h
  /\ UNCHANGED <<starts, stranded>>

StartNext(h, ev, ended, failed, chosen) ==
  \/ LeaveQueue(h, ev, chosen)
  \/ HoldQueue(h, ev, chosen)
  \/ StartQueued(h, ev, ended, failed, chosen)
  \/ FailQueued(h, ev, ended, failed, chosen)

(* Faulty: every held message is let go.                                    *)
UnattendedByAll(r) ==
  IF Latest = r /\ r \notin stopped /\ ~SetupPending THEN {q \in Queued : held[q]} ELSE {}

(* releaseUnattendedHolds: a completed run lets go of held messages nobody *)
(* reviews.                                                                *)
Unattended(r) ==
  IF Latest = r /\ r \notin stopped /\ ~SetupPending
  THEN {q \in Queued : held[q] /\ author[q] # "user"} ELSE {}

(* Faulty: an interrupted run is not followed by the queue.                 *)
HandleOtherUpdate ==
  /\ LockFree /\ events # <<>>
  /\ LET e == Head(events)
         released == IF e.status = "completed" THEN Unattended(e.run) ELSE {}
     IN  IF e.status = "interrupted"
         THEN events' = Tail(events) /\ UNCHANGED <<status, held, fault, endings, starts, stranded>>
         ELSE StartNext([r \in Run |-> held[r] /\ r \notin released], Tail(events), e.run,
                        IF e.status = "failed" THEN e.run ELSE NoRun, NoRun)
  /\ UNCHANGED <<place, author, started, threadVars, captures, processVars, plan,
                 serverVars, unreviewed>>

(* handleRunUpdate of the next terminal update.                            *)
HandleRunUpdate ==
  /\ LockFree /\ events # <<>>
  /\ LET e == Head(events)
         released == IF e.status = "completed" THEN Unattended(e.run) ELSE {}
     IN  StartNext([r \in Run |-> held[r] /\ r \notin released], Tail(events), e.run,
                   IF e.status = "failed" THEN e.run ELSE NoRun, NoRun)
  /\ UNCHANGED <<place, author, started, threadVars, captures, processVars, plan,
                 serverVars, unreviewed>>

-----------------------------------------------------------------------------
(* Messages.                                                               *)

Arrives(r) == /\ status[r] = "none" /\ r <= traffic.messages
              /\ \A q \in Run : q < r => status[q] # "none"

(* The launch of a thread in a new worktree sends its first message with   *)
(* defer_start and prepares the worktree in the background.                *)
Launch ==
  /\ UserMay("launch")
  /\ Arrives(FirstRun)
  /\ launched' = TRUE
  /\ setup' = "preparing"
  /\ status' = [status EXCEPT ![FirstRun] = "preparing"]
  /\ author' = [author EXCEPT ![FirstRun] = "user"]
  /\ UNCHANGED <<held, place, fault, started, endings, worktree, archived, stopped, starts,
                 captures, events, turn, capturing, plan, serverVars, historyVars>>

(* A message queued behind a worktree that was cancelled or never created. *)
WorktreeMissing(mode) ==
  /\ Active = {} /\ mode = "queue"
  /\ Latest # NoRun /\ Prepared(Latest) /\ status[Latest] \in {"failed", "interrupted"}
  /\ ~worktree

(* A user's message releases what is held, unless the worktree is missing. *)
Released(by) == IF by = "user" /\ ~SetupPending THEN {q \in Queued : held[q]} ELSE {}

(* Buffered wakes pass a hold: their provider already produces the output. *)
WakeSkips(by) == by = "wake" /\ ~SetupPending /\ \E a \in Active : a \notin stopped

QueueMessage(r, by, mode) ==
  /\ Active # {} \/ WorktreeMissing(mode)
  /\ status' = [status EXCEPT ![r] = "queued"]
  /\ held' = [q \in Run |->
       IF q = r THEN \/ WorktreeMissing(mode)
                     \/ QueueHeld /\ Released(by) = {} /\ ~WakeSkips(by)
       ELSE held[q] /\ q \notin Released(by)]
  /\ place' = [place EXCEPT ![r] = Max({0} \cup {place[q] : q \in Queued}) + 1]
  /\ UNCHANGED starts

StartMessage(r, by, mode) ==
  /\ Active = {} /\ ~WorktreeMissing(mode)
  /\ status' = [status EXCEPT ![r] = "starting"]
  /\ held' = [q \in Run |-> held[q] /\ q \notin Released(by)]
  /\ starts' = starts \cup {r}
  /\ UNCHANGED place

(* message.dispatch with start_immediately or queue_after_active; provider *)
(* notifications only come in the latter.                                  *)
Send(r, by, mode) ==
  /\ IF by = "user" THEN UserMay("send") ELSE Sent(by) /\ LockFree
  /\ Arrives(r)
  /\ by = "wake" => mode = "queue"
  /\ author' = [author EXCEPT ![r] = by]
  /\ QueueMessage(r, by, mode) \/ StartMessage(r, by, mode)
  /\ unreviewed' = unreviewed \ Released(by)
  /\ UNCHANGED <<fault, started, endings, threadVars, captures, events, processVars, plan,
                 serverVars, stranded>>

-----------------------------------------------------------------------------
(* The preparation of the worktree.                                        *)

(* The preparation created the worktree and recorded it in the thread.     *)
CreateWorktree ==
  /\ LockFree /\ setup = "preparing" /\ ~worktree
  /\ setup' = "created"
  /\ worktree' = TRUE
  /\ UNCHANGED <<runVars, launched, archived, stopped, starts, captures, events, turn,
                 capturing, plan, serverVars, historyVars>>

ReleasePrepared ==
  /\ LockFree /\ setup # "none" /\ worktree
  /\ status[FirstRun] = "preparing"
  /\ setup' = "none"
  /\ status' = [status EXCEPT ![FirstRun] = "starting"]
  /\ starts' = starts \cup {FirstRun}
  /\ UNCHANGED <<held, place, author, fault, started, endings, threadVars, captures, events,
                 turn, capturing, plan, serverVars, historyVars>>

FailPrepared ==
  /\ LockFree /\ setup # "none"
  /\ status[FirstRun] = "preparing"
  /\ setup' = "none"
  /\ status' = [status EXCEPT ![FirstRun] = "failed"]
  /\ fault' = [fault EXCEPT ![FirstRun] = "setup"]
  /\ endings' = Append(endings, FirstRun)
  /\ events' = Append(events, [run |-> FirstRun, status |-> "failed"])
  /\ UNCHANGED <<held, place, author, started, threadVars, starts, captures, turn, capturing,
                 plan, serverVars, historyVars>>

(* The run was stopped or archived meanwhile: the preparation interrupts   *)
(* itself and removes the worktree it created, or leaves it if that fails. *)
AbandonSetup ==
  /\ LockFree /\ setup # "none" /\ status[FirstRun] \in {"interrupted", "cancelled"}
  /\ setup' = "none"
  /\ worktree' \in IF setup = "created" THEN {FALSE, worktree} ELSE {worktree}
  /\ UNCHANGED <<runVars, launched, archived, stopped, starts, captures, events, turn,
                 capturing, plan, serverVars, historyVars>>

(* prepared-run.retry; the queue follows only if this failure held it.     *)
RetryPrepared ==
  /\ UserMay("retry")
  /\ launched /\ status[FirstRun] = "failed" /\ fault[FirstRun] = "setup"
  /\ ~archived /\ Active = {} /\ setup = "none"
  /\ status' = [status EXCEPT ![FirstRun] = "preparing"]
  /\ fault' = [fault EXCEPT ![FirstRun] = "none"]
  /\ endings' = SelectSeq(endings, LAMBDA r : r # FirstRun)
  /\ held' = [q \in Run |-> held[q] /\ (q \in Queued => Latest # FirstRun)]
  /\ setup' = "preparing"
  /\ unreviewed' = IF Latest = FirstRun THEN unreviewed \ Queued ELSE unreviewed
  /\ UNCHANGED <<place, author, started, threadVars, starts, captures, events, turn,
                 capturing, plan, serverVars, stranded>>

-----------------------------------------------------------------------------
(* The user's commands on the queue.                                       *)

(* queue.resume, and queued-run.start of a selected message: everything is *)
(* released, then the next or the selected message starts.                 *)
Resume(chosen) ==
  /\ ~archived /\ ~Limited
  /\ StartNext([q \in Run |-> held[q] /\ q \notin Queued], events, NoRun, NoRun, chosen)
  /\ unreviewed' = unreviewed \ Queued
  /\ UNCHANGED <<place, author, started, threadVars, captures, processVars, plan, serverVars>>

QueueResume == UserMay("resume") /\ Queued # {} /\ Resume(NoRun)

StartSelected(r) ==
  /\ UserMay("start")
  /\ r \in Queued /\ author[r] # "wake" /\ Active = {}
  /\ Resume(r)

CancelQueued(r) ==
  /\ UserMay("cancel") /\ r \in Queued
  /\ status' = [status EXCEPT ![r] = "cancelled"]
  /\ endings' = Append(endings, r)
  /\ events' = Append(events, [run |-> r, status |-> "cancelled"])
  /\ UNCHANGED <<held, place, author, fault, started, threadVars, starts, captures,
                 processVars, plan, serverVars, historyVars>>

(* queued-run.reorder: r moves before b, or to the end; every position is  *)
(* numbered again.                                                         *)
Reorder(r, b) ==
  /\ UserMay("reorder")
  /\ r \in Queued /\ author[r] # "wake"
  /\ b \in (Queued \ {r}) \cup {NoRun}
  /\ LET others == Queued \ {r}
         rank(q) == Cardinality({p \in others : Ahead(p, q)}) + 1
         target == IF b = NoRun THEN Cardinality(Queued) ELSE rank(b)
     IN  place' = [q \in Run |->
           IF q = r THEN target
           ELSE IF q \in others
                THEN rank(q) + (IF rank(q) >= target THEN 1 ELSE 0)
                ELSE place[q]]
  /\ UNCHANGED <<status, held, author, fault, started, endings, threadVars, starts, captures,
                 events, processVars, plan, serverVars, historyVars>>

(* thread.archive cancels what waits; a run at work goes on.               *)
Archive ==
  /\ UserMay("archive") /\ ~archived
  /\ archived' = TRUE
  /\ LET waiting == {r \in Run : status[r] \in {"queued", "preparing"}}
     IN  /\ status' = [r \in Run |-> IF r \in waiting THEN "cancelled" ELSE status[r]]
         /\ endings' = endings \o InOrder(waiting)
         /\ events' = events \o Updates(waiting, "cancelled")
  /\ UNCHANGED <<held, place, author, fault, started, launched, worktree, stopped, starts,
                 captures, processVars, plan, serverVars, historyVars>>

Unarchive ==
  /\ UserMay("archive") /\ archived
  /\ archived' = FALSE
  /\ UNCHANGED <<runVars, launched, worktree, stopped, starts, captures, events, processVars,
                 plan, serverVars, historyVars>>

-----------------------------------------------------------------------------
(* Stop.                                                                   *)

(* holdStoppedThread: wakes are cancelled, everything else in the queue    *)
(* waits for the user.                                                     *)
HoldStopped(st, end, ev, hold) ==
  LET wakes == IF hold THEN {q \in Queued : author[q] = "wake"} ELSE {}
      kept == IF hold THEN Queued \ wakes ELSE {}
  IN  /\ status' = [q \in Run |-> IF q \in wakes THEN "cancelled" ELSE st[q]]
      /\ held' = [q \in Run |-> held[q] \/ q \in kept]
      /\ endings' = end \o InOrder(wakes)
      /\ events' = ev \o Updates(wakes, "cancelled")
      /\ unreviewed' = unreviewed \cup ToReview(kept)

(* A user's Stop holds the queue, an agent's interrupt does not.           *)
MayStop(hold) == IF hold THEN UserMay("stop") ELSE Sent("interrupt") /\ LockFree

(* dispatchRunInterrupt of a run whose provider turn is not recorded yet   *)
(* decides to end it; the commit comes later, and the run may move on.     *)
PlanStop(r, hold) ==
  /\ MayStop(hold)
  /\ status[r] \in {"preparing", "starting", "running"} /\ turn[r] # "recorded"
  /\ plan' = [run |-> r, hold |-> hold]
  /\ UNCHANGED <<runVars, threadVars, starts, captures, events, processVars, serverVars,
                 historyVars>>

(* It commits what it read: the run ends as interrupted and every start    *)
(* effect of the thread is cancelled.                                      *)
CommitStop ==
  /\ plan # NoPlan
  /\ LET r == plan.run
     IN  /\ HoldStopped([status EXCEPT ![r] = "interrupted"],
                        Append(SelectSeq(endings, LAMBDA q : q # r), r),
                        Append(events, [run |-> r, status |-> "interrupted"]), plan.hold)
         /\ stopped' = stopped \cup {r}
  /\ starts' = {}
  /\ plan' = NoPlan
  /\ UNCHANGED <<place, author, fault, started, launched, worktree, archived, captures,
                 processVars, serverVars, stranded>>

(* With a recorded turn the Stop only asks the provider, which ends it.    *)
MarkStop(r, hold) ==
  /\ MayStop(hold)
  /\ status[r] = "running" /\ turn[r] = "recorded"
  /\ HoldStopped(status, endings, events, hold)
  /\ stopped' = stopped \cup {r}
  /\ UNCHANGED <<place, author, fault, started, launched, worktree, archived, starts, captures,
                 processVars, plan, serverVars, stranded>>

(* settleInterruptedRun: the session of the recorded turn is gone.         *)
SettleStop(r, hold) ==
  /\ MayStop(hold)
  /\ status[r] = "running" /\ turn[r] = "recorded"
  /\ HoldStopped([status EXCEPT ![r] = "interrupted"], Append(endings, r),
                 Append(events, [run |-> r, status |-> "interrupted"]), hold)
  /\ stopped' = stopped \cup {r}
  /\ captures' = captures \cup {r}
  /\ turn' = [turn EXCEPT ![r] = "none"]
  /\ UNCHANGED <<place, author, fault, started, launched, worktree, archived, starts,
                 capturing, setup, plan, serverVars, stranded>>

(* thread.stop with no run to interrupt: Stop reaches the last run that    *)
(* executed, and the queue is held.                                        *)
StopIdle ==
  /\ UserMay("stop")
  /\ \A r \in Run : status[r] \notin {"preparing", "starting", "running"}
  /\ HoldStopped(status, endings, events, TRUE)
  /\ stopped' = stopped \cup ({Latest} \cap Run)
  /\ UNCHANGED <<place, author, fault, started, launched, worktree, archived, starts, captures,
                 processVars, plan, serverVars, stranded>>

-----------------------------------------------------------------------------
(* The effects of the thread run one at a time, in order: the capture of   *)
(* a run comes before the start of the next.                               *)

LaneFree == /\ server = "up" /\ capturing = NotCapturing
            /\ \A q \in Run : turn[q] # "starting"

(* Faulty: the lane does not wait for the checkpoint.                       *)
TurnStartsEarly(r) ==
  /\ LaneFree /\ r \in starts
  /\ IF status[r] = "starting"
     THEN /\ status' = [status EXCEPT ![r] = "running"]
          /\ started' = started \cup {r}
          /\ turn' = [turn EXCEPT ![r] = "starting"]
     ELSE UNCHANGED <<status, started, turn>>
  /\ starts' = starts \ {r}
  /\ UNCHANGED <<held, place, author, fault, endings, threadVars, captures, events, capturing,
                 setup, plan, serverVars, historyVars>>

(* The start effect of a run that is starting; else it does nothing.       *)
TurnStarts(r) ==
  /\ LaneFree /\ captures = {} /\ r \in starts
  /\ IF status[r] = "starting"
     THEN /\ status' = [status EXCEPT ![r] = "running"]
          /\ started' = started \cup {r}
          /\ turn' = [turn EXCEPT ![r] = "starting"]
     ELSE UNCHANGED <<status, started, turn>>
  /\ starts' = starts \ {r}
  /\ UNCHANGED <<held, place, author, fault, endings, threadVars, captures, events, capturing,
                 setup, plan, serverVars, historyVars>>

Ends(r, s) ==
  /\ status' = [status EXCEPT ![r] = s]
  /\ endings' = Append(endings, r)
  /\ events' = Append(events, [run |-> r, status |-> s])

(* settleRunBeforeStart: an account command that needs no turn, or a start *)
(* that failed early.                                                      *)
SettleBeforeStart(r) ==
  /\ LaneFree /\ captures = {} /\ r \in starts
  /\ status[r] = "starting"
  /\ \/ Ends(r, "completed") /\ UNCHANGED fault
     \/ \E f \in {"provider", "rejected"} :
          Ends(r, "failed") /\ fault' = [fault EXCEPT ![r] = f]
  /\ starts' = starts \ {r}
  /\ UNCHANGED <<held, place, author, started, threadVars, captures, processVars, plan,
                 serverVars, historyVars>>

(* The provider took the prompt.  A run stopped in between may or may not  *)
(* have been noticed.                                                      *)
AcceptTurn(r) ==
  /\ server = "up" /\ turn[r] = "starting"
  /\ \E t \in IF status[r] = "running" THEN {"recorded"} ELSE {"none", "recorded"} :
       turn' = [turn EXCEPT ![r] = t]
  /\ UNCHANGED <<runVars, threadVars, starts, captures, events, capturing, setup, plan,
                 serverVars, historyVars>>

(* startRootRun could not start the turn: writeIfRunCurrent.               *)
StartFails(r) ==
  /\ server = "up" /\ turn[r] = "starting"
  /\ turn' = [turn EXCEPT ![r] = "none"]
  /\ IF status[r] = "running"
     THEN \E f \in {"limit", "provider"} :
            Ends(r, "failed") /\ fault' = [fault EXCEPT ![r] = f]
     ELSE UNCHANGED <<status, endings, events, fault>>
  /\ UNCHANGED <<held, place, author, started, threadVars, starts, captures, capturing, setup,
                 plan, serverVars, historyVars>>

(* The provider ended the turn.  A completed run waits for its checkpoint. *)
Finalize(r) ==
  \/ /\ status' = [status EXCEPT ![r] = "waiting"]
     /\ captures' = captures \cup {r}
     /\ UNCHANGED <<endings, events, fault>>
  \/ Ends(r, "interrupted") /\ captures' = captures \cup {r} /\ UNCHANGED fault
  \/ /\ Ends(r, "failed") /\ UNCHANGED captures
     /\ \E f \in {"limit", "provider"} : fault' = [fault EXCEPT ![r] = f]

(* Faulty: the end of a turn does not look at its run.                      *)
TurnEndsBlindly(r) ==
  /\ server # "down" /\ turn[r] = "recorded"
  /\ turn' = [turn EXCEPT ![r] = "none"]
  /\ Finalize(r)
  /\ UNCHANGED <<held, place, author, started, threadVars, starts, capturing, setup, plan,
                 serverVars, historyVars>>

TurnEnds(r) ==
  /\ server # "down" /\ turn[r] = "recorded"
  /\ turn' = [turn EXCEPT ![r] = "none"]
  /\ IF status[r] = "running" THEN Finalize(r)
     ELSE UNCHANGED <<status, endings, events, fault, captures>>
  /\ UNCHANGED <<held, place, author, started, threadVars, starts, capturing, setup, plan,
                 serverVars, historyVars>>

(* The capture reads the run, takes the checkpoint, and commits from what  *)
(* it read: a waiting run completes, a stopped one is written again.  A    *)
(* target that is neither fails the effect.                                *)
CaptureRead(r) ==
  /\ LaneFree /\ r \in captures
  /\ IF status[r] \in {"waiting", "interrupted", "cancelled"}
     THEN capturing' = [run |-> r, stopped |-> status[r] # "waiting"] /\ UNCHANGED captures
     ELSE captures' = captures \ {r} /\ UNCHANGED capturing
  /\ UNCHANGED <<runVars, threadVars, starts, events, turn, setup, plan, serverVars, historyVars>>

CaptureCommit ==
  /\ server = "up" /\ capturing # NotCapturing
  /\ LET r == capturing.run
     IN  /\ IF capturing.stopped
            THEN /\ events' = Append(events, [run |-> r, status |-> status[r]])
                 /\ UNCHANGED <<status, endings>>
            ELSE /\ status' = [status EXCEPT ![r] = "completed"]
                 /\ endings' = Append(SelectSeq(endings, LAMBDA q : q # r), r)
                 /\ events' = Append(events, [run |-> r, status |-> "completed"])
         /\ captures' = captures \ {r}
  /\ capturing' = NotCapturing
  /\ UNCHANGED <<held, place, author, fault, started, threadVars, starts, turn, setup, plan,
                 serverVars, historyVars>>

-----------------------------------------------------------------------------
(* Failures for good: the last attempt of an effect, or the statement that *)
(* would have recorded a failure.  Each leaves its run as it stands.       *)

MayFail == "failure" \in traffic.kinds /\ server = "up"

Abandon(r) == abandoned' = abandoned \cup ({r} \cap Active)

(* The capture fails in its last attempt: a waiting run stays waiting.     *)
CaptureFails(r) ==
  /\ MayFail /\ r \in captures
  /\ LaneFree \/ capturing.run = r
  /\ captures' = captures \ {r}
  /\ capturing' = NotCapturing
  /\ Abandon(r)
  /\ UNCHANGED <<runVars, threadVars, starts, events, turn, setup, plan, server, snapshot,
                 restarts, traffic, historyVars>>

(* So does the start of a turn, whose run stays starting ...               *)
StartEffectFails(r) ==
  /\ MayFail /\ LaneFree /\ captures = {}
  /\ r \in starts /\ status[r] = "starting"
  /\ starts' = starts \ {r}
  /\ Abandon(r)
  /\ UNCHANGED <<runVars, threadVars, captures, events, processVars, plan, server, snapshot,
                 restarts, traffic, historyVars>>

(* ... or running, when it had begun: the next attempt finds the run begun *)
(* and does nothing.                                                       *)
TurnLost(r) ==
  /\ MayFail /\ turn[r] = "starting" /\ status[r] = "running"
  /\ turn' = [turn EXCEPT ![r] = "none"]
  /\ Abandon(r)
  /\ UNCHANGED <<runVars, threadVars, starts, captures, events, capturing, setup, plan, server,
                 snapshot, restarts, traffic, historyVars>>

(* The failure of a preparation could not be recorded.                     *)
SetupLost ==
  /\ MayFail /\ LockFree /\ setup # "none" /\ status[FirstRun] = "preparing"
  /\ setup' = "none"
  /\ Abandon(FirstRun)
  /\ UNCHANGED <<runVars, threadVars, starts, captures, events, turn, capturing, plan, server,
                 snapshot, restarts, traffic, historyVars>>

(* The handler drops an update it could not handle, before or after it let *)
(* go of what nobody reviews; what waits is passed over.                   *)
HandlerFails ==
  /\ MayFail /\ LockFree /\ events # <<>>
  /\ LET e == Head(events)
         released == IF e.status = "completed" THEN Unattended(e.run) ELSE {}
     IN  held' \in {held, [r \in Run |-> held[r] /\ r \notin released]}
  /\ events' = Tail(events)
  /\ stranded' = stranded \cup {r \in Queued : ~held'[r]}
  /\ UNCHANGED <<status, place, author, fault, started, endings, threadVars, starts, captures,
                 processVars, plan, serverVars, unreviewed>>

-----------------------------------------------------------------------------
(* The server stops, is lost, and starts again.                            *)

(* What reconcileProjection cancels, given the runs it has read: all that  *)
(* is not settled, except a run whose checkpoint can still be taken and    *)
(* the messages of the queue; a buffered wake is cancelled.                *)
Lost(st) ==
  {r \in Run : \/ st[r] \in {"preparing", "starting", "running"}
               \/ st[r] = "waiting" /\ r \notin captures
               \/ st[r] = "queued" /\ author[r] = "wake"}

(* It commits from that read, over whatever was written since, and cancels *)
(* the start effects of the thread.                                        *)
Reconcile(st, h) ==
  LET lost == Lost(st)
      requeued == {r \in Run : st[r] = "queued" /\ ~h[r]} \ lost
  IN  /\ status' = [r \in Run |-> IF r \in lost THEN "cancelled"
                                  ELSE IF r \in requeued THEN "queued" ELSE status[r]]
      /\ held' = [r \in Run |-> held[r] \/ r \in requeued]
      /\ endings' = SelectSeq(endings, LAMBDA r : r \notin lost \cup requeued) \o InOrder(lost)
      /\ unreviewed' = unreviewed \cup ToReview(requeued) \cup ToReview(Queued \ lost)
      /\ starts' = {}
      /\ UNCHANGED <<place, author, fault, started>>

(* The process ends: its fibers, its events and its turns are gone.        *)
Forget ==
  /\ events' = <<>>
  /\ turn' = [r \in Run |-> "none"]
  /\ capturing' = NotCapturing
  /\ setup' = "none"
  /\ plan' = NoPlan
  /\ snapshot' = NoSnapshot

MayGoDown == "restart" \in traffic.kinds /\ restarts < MaxRestarts

(* The finalizer closes the gate and interrupts the effect worker.         *)
ServerStops ==
  /\ server = "up" /\ MayGoDown
  /\ server' = "stopping"
  /\ restarts' = restarts + 1
  /\ turn' = [r \in Run |-> IF turn[r] = "starting" THEN "none" ELSE turn[r]]
  /\ capturing' = NotCapturing
  /\ UNCHANGED <<runVars, threadVars, starts, captures, events, setup, plan, snapshot, traffic,
                 abandoned, historyVars>>

(* Its reconciliation reads the thread without the lock ...                *)
ShutdownRead ==
  /\ server = "stopping" /\ ~snapshot.taken
  /\ snapshot' = [taken |-> TRUE, status |-> status, held |-> held]
  /\ UNCHANGED <<runVars, threadVars, starts, captures, events, processVars, plan, server,
                 restarts, traffic, abandoned, historyVars>>

(* ... and commits from what it read, after which the process ends.        *)
ShutdownCommit ==
  /\ server = "stopping" /\ snapshot.taken
  /\ Reconcile(snapshot.status, snapshot.held)
  /\ server' = "down"
  /\ Forget
  /\ UNCHANGED <<threadVars, captures, restarts, traffic, abandoned, stranded>>

Crash ==
  /\ server = "stopping" \/ (server = "up" /\ MayGoDown)
  /\ server' = "down"
  /\ restarts' = IF server = "up" THEN restarts + 1 ELSE restarts
  /\ Forget
  /\ UNCHANGED <<runVars, threadVars, starts, captures, traffic, abandoned, historyVars>>

(* Startup reconciles before it accepts commands or runs effects; nothing  *)
(* starts the queue.                                                       *)
Startup ==
  /\ server = "down"
  /\ Reconcile(status, held)
  /\ server' = "up"
  /\ abandoned' = {}
  /\ UNCHANGED <<threadVars, captures, events, processVars, plan, snapshot, restarts,
                 traffic, stranded>>

-----------------------------------------------------------------------------
Planner ==
  \/ Launch \/ RetryPrepared \/ QueueResume \/ Archive \/ Unarchive \/ StopIdle
  \/ ReleasePrepared \/ FailPrepared \/ CreateWorktree \/ AbandonSetup
  \/ \E r \in Run :
       \/ \E by \in {"user", "agent", "wake"}, mode \in {"now", "queue"} : Send(r, by, mode)
       \/ StartSelected(r) \/ CancelQueued(r)
       \/ \E b \in Run \cup {NoRun} : Reorder(r, b)
       \/ \E hold \in BOOLEAN : PlanStop(r, hold) \/ MarkStop(r, hold) \/ SettleStop(r, hold)

TurnStart == \E r \in Run : TurnStarts(r) \/ SettleBeforeStart(r)
TurnOutcome == \E r \in Run : AcceptTurn(r) \/ StartFails(r)
TurnEnd == \E r \in Run : TurnEnds(r)
Capture == CaptureCommit \/ \E r \in Run : CaptureRead(r)

Failure ==
  \/ SetupLost \/ HandlerFails
  \/ \E r \in Run : CaptureFails(r) \/ StartEffectFails(r) \/ TurnLost(r)

Process == ServerStops \/ ShutdownRead \/ ShutdownCommit \/ Crash \/ Startup

Next ==
  \/ Planner \/ CommitStop \/ HandleRunUpdate
  \/ TurnStart \/ TurnOutcome \/ TurnEnd \/ Capture
  \/ Failure \/ Process

(* Whoever holds the thread's lock goes on, and so does the thread's lane  *)
(* of effects while the server runs, unless two statements in a row failed *)
(* on it (the stranded lanes of EffectOutbox).  A provider may work on a   *)
(* turn for ever, a preparation may hang, and nobody has to send a command.*)
LockHolder == HandleRunUpdate \/ CommitStop
EffectLane == TurnStart \/ TurnOutcome \/ Capture
Fairness == WF_vars(LockHolder) /\ WF_vars(EffectLane)

Spec == Init /\ [][Next]_vars
LiveSpec == Spec /\ Fairness

-----------------------------------------------------------------------------
(* Properties.                                                             *)

(* One run of a thread owns the provider at a time, however commands, the  *)
(* handler, retries, the capture and the reconciliation of a lost process  *)
(* interleave: no queued message starts beside a run that is preparing,    *)
(* starting, running or waiting for its checkpoint.                        *)
OneActive == \A r, q \in Active : r = q

(* A message that a user had in the queue when somebody pressed Stop, or   *)
(* when the server went down, does not start by itself: it stays held or   *)
(* is cancelled until the user resumes, sends, selects or retries.         *)
HoldRespected ==
  \A r \in unreviewed : (status[r] = "queued" /\ held[r]) \/ status[r] = "cancelled"

(* A run that ended does not come back to life, whatever late report of    *)
(* its provider, stale Stop or repeated capture arrives: only the retry of *)
(* its preparation makes it active again.  (The reconciliation of a        *)
(* shutdown, which commits from a stale read, may put a message back.)     *)
NoRevival ==
  [][\A r \in Run :
       /\ status[r] \in SettledStatus /\ status'[r] \notin SettledStatus
       => \/ r = FirstRun /\ status'[r] = "preparing" /\ fault[r] = "setup"
          \/ server = "stopping" /\ status'[r] = "queued"]_vars

(* The checkpoint of a run is taken before the next run's turn starts, so  *)
(* the edits of two runs never share a checkpoint, unless the capture has  *)
(* failed for good; and no turn starts beside a run that waits for its own.*)
CheckpointFirst ==
  [][\A r \in Run : turn[r] = "none" /\ turn'[r] = "starting"
       => captures = {} /\ \A q \in Run : status[q] # "waiting"]_vars

TurnRuns == \E q \in Run : \/ status[q] = "preparing"
                           \/ status[q] = "running" /\ turn[q] = "recorded"

(* No message waits in the queue for ever: unless it is held, it was       *)
(* passed over (when its turn came the thread was archived or the handler  *)
(* failed), the thread is archived, the provider is limited, the server is *)
(* down, a turn or a preparation is under way, or the effect or fiber of   *)
(* the active run has failed for good and left it as it was, it starts,    *)
(* fails, is held or is cancelled; so again and again none waits idle.     *)
QueueMoves ==
  []<>(\/ \A r \in Queued : held[r] \/ r \in stranded
       \/ archived \/ Limited \/ server # "up" \/ TurnRuns
       \/ Active \cap abandoned # {})

(* "Failed worktree setup keeps the queue held so queued messages cannot   *)
(* start in the project checkout": without the user's resume no message    *)
(* that was queued behind the preparation starts while the worktree is     *)
(* missing.                                                                *)
WorktreeHold ==
  [][\A r \in Run :
       status[r] = "queued" /\ status'[r] = "starting" /\ (\A q \in Executed : q < r => q = FirstRun)
       => ~SetupPending]_vars

=============================================================================

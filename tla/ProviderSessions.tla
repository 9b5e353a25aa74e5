-------------------------- MODULE ProviderSessions --------------------------
(***************************************************************************)
(* One provider session id and the runtimes that live under it one after   *)
(* the other (orchestration-v2/ProviderSessionManager.ts): turns open the  *)
(* session or join the live one and mark it busy, every activity restarts  *)
(* the idle timer, and timers, force stops, closes and the end of the      *)
(* provider's event stream release it.  A release removes the entry from   *)
(* the live map at once, and closes the runtime and writes its records     *)
(* afterwards, while another turn may be opening a replacement.            *)
(***************************************************************************)
EXTENDS Integers, FiniteSets

CONSTANTS
  Turn,          (* turns, each of its own thread, started once            *)
  Client,        (* whoever else disturbed the session: get, steer, detach   *)
  Nobody,        (* not a turn, the client or a runtime                    *)
  MaxRuntimes,   (* runtimes that are opened; each turn opens at most one  *)
  MaxTimers,     (* idle timers alive at once                              *)
  MaxDisturbances, (* disturbed, stops, releases and failures                *)
  MaxPins        (* idle windows that pending background work may add      *)

Runtime == 1..MaxRuntimes
Timer == 1..MaxTimers
Actor == Turn \cup Runtime \cup {Client}

VARIABLES
  entry,         (* the live entry: its runtime (0: none), busyTurns,      *)
                 (* idleGeneration, idleFiber, idle windows since it was   *)
                 (* pinned                                                 *)
  opened,        (* runtimes opened so far                                 *)
  opening,       (* who holds the sessionOpen lock                         *)
  turn,          (* where each turn is, and the runtime it was given       *)
  join,          (* the runtime whose record a turn, which joined it, has  *)
                 (* yet to write (0: none)                                 *)
  timer,         (* idle timers: sleeping or probing for background work   *)
  reschedule,    (* the generation an actor will set, between cancelling   *)
                 (* the old timer and recording the new one                *)
  pump,          (* the event pump of each runtime                         *)
  terminal,      (* ended turns the pump has not reached                   *)
  release,       (* the release of each runtime                            *)
  record,        (* status of the session's row                            *)
  disturbed,     (* disturbances so far                                    *)
  forsaken,      (* history: a start stopped between cancel and record     *)
  unrecorded     (* history: a release was cut before its records, or a    *)
                 (* runtime's status was written after its release         *)

sessionVars ==
  <<entry, opened, opening, turn, join, timer, reschedule, pump, terminal, release,
    record, disturbed, forsaken, unrecorded>>

NoEntry == [runtime |-> 0, busy |-> {}, generation |-> 0, fiber |-> 0, pins |-> 0]
NoTimer == [at |-> "free", generation |-> 0, probed |-> 0]
NoReschedule == [generation |-> 0, active |-> FALSE]
NoRelease == [at |-> "none", by |-> "none", ends |-> {}, fiber |-> 0]

SessionsTypeOK ==
  /\ entry \in [runtime : Runtime \cup {0}, busy : SUBSET Turn, generation : Nat,
                fiber : Timer \cup {0}, pins : 0..MaxPins]
  /\ opened \in 0..MaxRuntimes
  /\ opening \in Turn \cup {Nobody}
  /\ turn \in [Turn -> [at : {"new", "launching", "attaching", "undoing", "joining",
                              "attached", "opened", "started", "working", "over"},
                        runtime : Runtime \cup {0}]]
  /\ join \in [Turn -> Runtime \cup {0}]
  /\ timer \in [Timer -> [at : {"free", "sleeping", "probing"}, generation : Nat,
                          probed : Runtime \cup {0}]]
  /\ reschedule \in [Actor -> [generation : Nat, active : BOOLEAN]]
  /\ pump \in [Runtime -> {"none", "running", "writing", "over"}]
  /\ terminal \in [Runtime -> SUBSET Turn]
  /\ release \in [Runtime -> [at : {"none", "removed", "closed", "retrying", "over"},
                              by : {"none", "idle", "force", "undo", "stream", "close"},
                              ends : SUBSET Turn, fiber : Timer \cup {0}]]
  /\ record \in {"none", "ready", "stopped"}
  /\ disturbed \in 0..MaxDisturbances
  /\ forsaken \in BOOLEAN
  /\ unrecorded \in BOOLEAN

SessionsInit ==
  /\ entry = NoEntry
  /\ opened = 0
  /\ opening = Nobody
  /\ turn = [t \in Turn |-> [at |-> "new", runtime |-> 0]]
  /\ join = [t \in Turn |-> 0]
  /\ timer = [n \in Timer |-> NoTimer]
  /\ reschedule = [a \in Actor |-> NoReschedule]
  /\ pump = [r \in Runtime |-> "none"]
  /\ terminal = [r \in Runtime |-> {}]
  /\ release = [r \in Runtime |-> NoRelease]
  /\ record = "none"
  /\ disturbed = 0
  /\ forsaken = FALSE
  /\ unrecorded = FALSE

Live == entry.runtime # 0

(* What neither the turns nor the timers nor the pump bring about by       *)
(* themselves has one bound.                                               *)
Disturb ==
  /\ disturbed < MaxDisturbances
  /\ disturbed' = disturbed + 1

(* writeProviderSessionEvents: whoever writes the row read its runtime     *)
(* before, and asks nothing now.                                           *)
Recording(r, status) ==
  /\ record' = status
  /\ unrecorded' = (status # "stopped" /\ (unrecorded \/ entry.runtime # r))

-----------------------------------------------------------------------------
(* The idle timer.                                                         *)

(* cancelIdleFiber: the timer is interrupted wherever it is.               *)
Cancelled(n) == [m \in Timer |-> IF m = n THEN NoTimer ELSE timer[m]]

(* The first half of scheduleIdleReleaseInternal, on the entry e: a busy   *)
(* or missing session keeps what it has, of another the timer is cancelled *)
(* and the fiber waits for it to end.                                      *)
CancelForReschedule(a, e, active) ==
  IF e.runtime = 0 \/ e.busy # {}
    THEN UNCHANGED <<timer, reschedule>>
    ELSE /\ timer' = Cancelled(e.fiber)
         /\ reschedule' = [reschedule EXCEPT ![a] =
                             [generation |-> e.generation + 1, active |-> active]]

FreeTimers ==
  {n \in Timer : /\ timer[n].at = "free"
                 /\ n # entry.fiber
                 /\ \A r \in Runtime : release[r].fiber # n}

(* The second half: the new timer is forked, and recorded in whatever      *)
(* entry is live by now and not busy.  Provider activity restarts the pin  *)
(* budget.                                                                 *)
Recorded(n, s) ==
  IF Live /\ entry.busy = {}
    THEN [entry EXCEPT !.generation = s.generation, !.fiber = n,
                       !.pins = IF s.active THEN 0 ELSE @]
    ELSE entry

Reschedule(a) ==
  /\ reschedule[a] # NoReschedule
  /\ FreeTimers # {}
  /\ LET n == CHOOSE m \in FreeTimers : TRUE
     IN  /\ timer' = [timer EXCEPT ![n] = [at |-> "sleeping", probed |-> 0,
                                           generation |-> reschedule[a].generation]]
         /\ entry' = Recorded(n, reschedule[a])
         /\ forsaken' = (forsaken /\ entry' = entry)
  /\ reschedule' = [reschedule EXCEPT ![a] = NoReschedule]
  /\ UNCHANGED <<opened, opening, turn, join, pump, terminal, release, record,
                 disturbed, unrecorded>>

(* What a timer knows of the session is its generation.                    *)
StillIdle(n) ==
  /\ Live
  /\ entry.busy = {}
  /\ entry.generation = timer[n].generation

(* releaseIfStillIdle, when the idle window is over: the runtime it probes *)
(* is remembered, the answer comes later.                                  *)
Fire(n) ==
  /\ timer[n].at = "sleeping"
  /\ timer' = [timer EXCEPT ![n] =
                 IF StillIdle(n) THEN [@ EXCEPT !.at = "probing", !.probed = entry.runtime]
                                 ELSE NoTimer]
  /\ UNCHANGED <<entry, opened, opening, turn, join, reschedule, pump, terminal,
                 release, record, disturbed, forsaken, unrecorded>>

(* Background work pins the session for another window, within the budget. *)
Pin(n) ==
  /\ timer[n].at = "probing"
  /\ IF StillIdle(n) /\ entry.runtime = timer[n].probed
       THEN /\ entry.pins < MaxPins
            /\ timer' = [timer EXCEPT ![n] = [@ EXCEPT !.at = "sleeping", !.probed = 0]]
            /\ entry' = [entry EXCEPT !.pins = @ + 1]
       ELSE /\ timer' = [timer EXCEPT ![n] = NoTimer]
            /\ UNCHANGED entry
  /\ UNCHANGED <<opened, opening, turn, join, reschedule, pump, terminal, release,
                 record, disturbed, forsaken, unrecorded>>

(* removeLiveEntry: the entry leaves the map, its release begins.  "ends"  *)
(* are the turns it may cut short.                                         *)
RemoveEntry(by, ends) ==
  /\ entry' = NoEntry
  /\ release' = [release EXCEPT ![entry.runtime] =
                   [at |-> "removed", by |-> by, ends |-> ends, fiber |-> entry.fiber]]

(* Faulty: the decision taken before the probe is not checked again.       *)
ReleaseProbed(n) ==
  /\ timer[n].at = "probing"
  /\ timer' = [timer EXCEPT ![n] = NoTimer]
  /\ IF Live THEN RemoveEntry("idle", {}) ELSE UNCHANGED <<entry, release>>
  /\ UNCHANGED <<opened, opening, turn, join, reschedule, pump, terminal, record,
                 disturbed, forsaken, unrecorded>>

(* No work, or the budget is used up.  The generation and the busy turns   *)
(* are checked where the entry is removed; the timer does not cancel       *)
(* itself.                                                                 *)
ReleaseIdle(n) ==
  /\ timer[n].at = "probing"
  /\ timer' = [timer EXCEPT ![n] = NoTimer]
  /\ IF StillIdle(n) THEN RemoveEntry("idle", {}) ELSE UNCHANGED <<entry, release>>
  /\ UNCHANGED <<opened, opening, turn, join, reschedule, pump, terminal, record,
                 disturbed, forsaken, unrecorded>>

-----------------------------------------------------------------------------
(* A turn opens the session.                                               *)

(* open takes the session's lock.  A live session is shared.               *)
Open(t) ==
  /\ turn[t].at = "new"
  /\ opening = Nobody
  /\ opening' = t
  /\ turn' = [turn EXCEPT ![t] = [at |-> IF Live THEN "joining" ELSE "launching",
                                  runtime |-> entry.runtime]]
  /\ join' = [join EXCEPT ![t] = entry.runtime]
  /\ UNCHANGED <<entry, opened, timer, reschedule, pump, terminal, release, record,
                 disturbed, forsaken, unrecorded>>

(* attachThreadToSession writes the attachment of a thread it put into the *)
(* live entry.  The entry is read again before: if it is gone by then,     *)
(* nothing is written, but no lock keeps a release out afterwards.         *)
WriteJoin(t) ==
  /\ join[t] # 0
  /\ join' = [join EXCEPT ![t] = 0]
  /\ \/ Recording(join[t], "ready")
     \/ entry.runtime # join[t] /\ UNCHANGED <<record, unrecorded>>
  /\ UNCHANGED <<entry, opened, opening, turn, timer, reschedule, pump, terminal,
                 release, disturbed, forsaken>>

(* A session that was joined is touched.                                   *)
TouchJoined(t) ==
  /\ turn[t].at = "joining"
  /\ join[t] = 0
  /\ turn' = [turn EXCEPT ![t].at = "attached"]
  /\ CancelForReschedule(t, entry, FALSE)
  /\ UNCHANGED <<entry, opened, opening, join, pump, terminal, release, record,
                 disturbed, forsaken, unrecorded>>

(* openSession of the adapter returns, and the entry is live at once.      *)
Launch(t) ==
  /\ turn[t].at = "launching"
  /\ opened < MaxRuntimes
  /\ opened' = opened + 1
  /\ entry' = [NoEntry EXCEPT !.runtime = opened + 1]
  /\ turn' = [turn EXCEPT ![t] = [at |-> "attaching", runtime |-> opened + 1]]
  /\ UNCHANGED <<opening, join, timer, reschedule, pump, terminal, release, record,
                 disturbed, forsaken, unrecorded>>

LaunchFails(t) ==
  /\ turn[t].at = "launching"
  /\ Disturb
  /\ turn' = [turn EXCEPT ![t].at = "over"]
  /\ opening' = Nobody
  /\ UNCHANGED <<entry, opened, join, timer, reschedule, pump, terminal, release,
                 record, forsaken, unrecorded>>

(* The attachment is recorded, then the pump and the idle timer start;     *)
(* the session may have been released in the meantime.                     *)
WriteAttached(t) ==
  /\ turn[t].at = "attaching"
  /\ Recording(turn[t].runtime, "ready")
  /\ pump' = [pump EXCEPT ![turn[t].runtime] = "running"]
  /\ turn' = [turn EXCEPT ![t].at = "attached"]
  /\ CancelForReschedule(t, entry, FALSE)
  /\ UNCHANGED <<entry, opened, opening, join, terminal, release, disturbed,
                 forsaken>>

(* The write fails or is interrupted: nothing else would release the       *)
(* entry, so open does, still under its lock.                              *)
AttachFails(t) ==
  /\ turn[t].at = "attaching"
  /\ IF Live
       THEN /\ RemoveEntry("undo", Turn)
            /\ turn' = [turn EXCEPT ![t].at = "undoing"]
            /\ Disturb
            /\ UNCHANGED opening
       ELSE /\ turn' = [turn EXCEPT ![t].at = "over"]
            /\ opening' = Nobody
            /\ UNCHANGED <<entry, release, disturbed>>
  /\ UNCHANGED <<opened, join, timer, reschedule, pump, terminal, record, forsaken,
                 unrecorded>>

EndUndo(t) ==
  /\ turn[t].at = "undoing"
  /\ release[turn[t].runtime].at \in {"retrying", "over"}
  /\ turn' = [turn EXCEPT ![t].at = "over"]
  /\ opening' = Nobody
  /\ UNCHANGED <<entry, opened, join, timer, reschedule, pump, terminal, release,
                 record, disturbed, forsaken, unrecorded>>

EndOpen(t) ==
  /\ turn[t].at = "attached"
  /\ reschedule[t] = NoReschedule
  /\ turn' = [turn EXCEPT ![t].at = "opened"]
  /\ opening' = Nobody
  /\ UNCHANGED <<entry, opened, join, timer, reschedule, pump, terminal, release,
                 record, disturbed, forsaken, unrecorded>>

(* Outside open, a runtime attaches the thread again where the live entry  *)
(* does not have it: it is another one, or the thread was detached.        *)
Rejoin(t) ==
  /\ turn[t].at \in {"opened", "started"}
  /\ join[t] = 0
  /\ Live
  /\ Disturb
  /\ join' = [join EXCEPT ![t] = entry.runtime]
  /\ UNCHANGED <<entry, opened, opening, turn, timer, reschedule, pump, terminal,
                 release, record, forsaken, unrecorded>>

(* The commit that starts the run writes the row of the session it opened. *)
CommitStart(t) ==
  /\ turn[t].at = "opened"
  /\ join[t] = 0
  /\ Recording(turn[t].runtime, "ready")
  /\ turn' = [turn EXCEPT ![t].at = "started"]
  /\ UNCHANGED <<entry, opened, opening, join, timer, reschedule, pump, terminal,
                 release, disturbed, forsaken>>

(* The start is cancelled before its turn is marked, or an attachment of   *)
(* its thread is not written.  Between cancelling the timer and recording  *)
(* a new one, this leaves the session without.                             *)
StopStart(t) ==
  /\ turn[t].at \in {"joining", "attached", "opened", "started"}
  /\ turn' = [turn EXCEPT ![t].at = "over"]
  /\ join' = [join EXCEPT ![t] = 0]
  /\ opening' = IF opening = t THEN Nobody ELSE opening
  /\ forsaken' = (forsaken \/ reschedule[t] # NoReschedule)
  /\ reschedule' = [reschedule EXCEPT ![t] = NoReschedule]
  /\ Disturb
  /\ UNCHANGED <<entry, opened, timer, pump, terminal, release, record, unrecorded>>

-----------------------------------------------------------------------------
(* A turn runs.                                                            *)

Marked(t) == [entry EXCEPT !.busy = @ \cup {t}, !.fiber = 0, !.pins = 0]

(* Faulty: whatever session is live is marked.                             *)
MarkAnyBusy(t) ==
  /\ turn[t].at = "started"
  /\ join[t] = 0
  /\ IF Live
       THEN /\ entry' = Marked(t)
            /\ timer' = Cancelled(entry.fiber)
            /\ turn' = [turn EXCEPT ![t].at = "working"]
       ELSE /\ turn' = [turn EXCEPT ![t].at = "over"]
            /\ UNCHANGED <<entry, timer>>
  /\ UNCHANGED <<opened, opening, join, reschedule, pump, terminal, release,
                 record, disturbed, forsaken, unrecorded>>

(* markBusy in startTurn: only the entry of the runtime the turn was given *)
(* is marked; if it was released the start fails.                          *)
MarkBusy(t) ==
  /\ turn[t].at = "started"
  /\ join[t] = 0
  /\ IF entry.runtime = turn[t].runtime
       THEN /\ entry' = Marked(t)
            /\ timer' = Cancelled(entry.fiber)
            /\ turn' = [turn EXCEPT ![t].at = "working"]
       ELSE /\ turn' = [turn EXCEPT ![t].at = "over"]
            /\ UNCHANGED <<entry, timer>>
  /\ UNCHANGED <<opened, opening, join, reschedule, pump, terminal, release,
                 record, disturbed, forsaken, unrecorded>>

(* markIdle asks for no runtime: it ends the turn in the live entry.       *)
MarkIdle(a, t) ==
  LET idle == [entry EXCEPT !.busy = @ \ {t}]
  IN  /\ entry' = idle
      /\ CancelForReschedule(a, idle, FALSE)

(* The provider does not take the turn, or the start is interrupted.       *)
StartFails(t) ==
  /\ turn[t].at = "working"
  /\ turn' = [turn EXCEPT ![t].at = "over"]
  /\ MarkIdle(t, t)
  /\ Disturb
  /\ UNCHANGED <<opened, opening, join, pump, terminal, release, record, forsaken,
                 unrecorded>>

(* The provider reports that the turn is over.                             *)
TurnEnds(t) ==
  /\ turn[t].at = "working"
  /\ pump[turn[t].runtime] \in {"running", "writing"}
  /\ turn' = [turn EXCEPT ![t].at = "over"]
  /\ terminal' = [terminal EXCEPT ![turn[t].runtime] = @ \cup {t}]
  /\ UNCHANGED <<entry, opened, opening, join, timer, reschedule, pump, release,
                 record, disturbed, forsaken, unrecorded>>

(* The event pump of a runtime, which goes on after its release.           *)
PumpTerminal(r) ==
  /\ pump[r] = "running"
  /\ reschedule[r] = NoReschedule
  /\ \E t \in terminal[r] :
       /\ terminal' = [terminal EXCEPT ![r] = @ \ {t}]
       /\ MarkIdle(r, t)
  /\ UNCHANGED <<opened, opening, turn, join, pump, release, record, disturbed,
                 forsaken, unrecorded>>

(* The provider reports its status: like any event of its, this touches    *)
(* the session, and if the runtime is still the live one, the status is    *)
(* written afterwards.  Nothing is written when the entry is gone before   *)
(* it is read, and a failed write is only logged.                          *)
Report(r) ==
  /\ pump[r] = "running"
  /\ reschedule[r] = NoReschedule
  /\ entry.runtime = r
  /\ Disturb
  /\ pump' = [pump EXCEPT ![r] = "writing"]
  /\ CancelForReschedule(r, entry, TRUE)
  /\ UNCHANGED <<entry, opened, opening, turn, join, terminal, release, record,
                 forsaken, unrecorded>>

WriteStatus(r) ==
  /\ pump[r] = "writing"
  /\ reschedule[r] = NoReschedule
  /\ pump' = [pump EXCEPT ![r] = "running"]
  /\ \/ \E status \in {"ready", "stopped"} : Recording(r, status)
     \/ UNCHANGED <<record, unrecorded>>
  /\ UNCHANGED <<entry, opened, opening, turn, join, timer, reschedule, terminal,
                 release, disturbed, forsaken>>

(* Any other event of the provider, and any other access to the session.   *)
Touch(a) ==
  /\ \/ a = Client
     \/ a \in Runtime /\ pump[a] = "running"
  /\ reschedule[a] = NoReschedule
  /\ Live
  /\ Disturb
  /\ CancelForReschedule(a, entry, a # Client)
  /\ UNCHANGED <<entry, opened, opening, turn, join, pump, terminal, release,
                 record, forsaken, unrecorded>>

-----------------------------------------------------------------------------
(* Releases.                                                               *)

(* The provider's stream ends, by itself, by failing or because the        *)
(* runtime was closed; what is left in it is dropped with its session.     *)
PumpEnds(r) ==
  /\ pump[r] = "running"
  /\ reschedule[r] = NoReschedule
  /\ pump' = [pump EXCEPT ![r] = "over"]
  /\ terminal' = [terminal EXCEPT ![r] = {}]
  /\ IF entry.runtime = r
       THEN RemoveEntry("stream", Turn) /\ Disturb
       ELSE UNCHANGED <<entry, release, disturbed>>
  /\ UNCHANGED <<opened, opening, turn, join, timer, reschedule, record, forsaken,
                 unrecorded>>

(* releaseUnlessBusy, for the force stop of one thread.                    *)
ReleaseUnlessBusy(t) ==
  /\ Live
  /\ entry.busy \subseteq {t}
  /\ RemoveEntry("force", {t})
  /\ Disturb
  /\ UNCHANGED <<opened, opening, turn, join, timer, reschedule, pump, terminal,
                 record, forsaken, unrecorded>>

(* close and closeInstance, whatever is running.                           *)
Close ==
  /\ Live
  /\ RemoveEntry("close", Turn)
  /\ Disturb
  /\ UNCHANGED <<opened, opening, turn, join, timer, reschedule, pump, terminal,
                 record, forsaken, unrecorded>>

(* The rest of releaseEntry: the old timer is cancelled unless it is the   *)
(* one that releases, subscribers are told, the runtime's scope is closed. *)
CloseScope(r) ==
  /\ release[r].at = "removed"
  /\ timer' = IF release[r].by = "idle" THEN timer ELSE Cancelled(release[r].fiber)
  /\ release' = [release EXCEPT ![r] = [@ EXCEPT !.at = "closed", !.ends = {}, !.fiber = 0]]
  /\ UNCHANGED <<entry, opened, opening, turn, join, reschedule, pump, terminal,
                 record, disturbed, forsaken, unrecorded>>

(* The first write of the records does not ask whether the session was     *)
(* replaced meanwhile.                                                     *)
WriteRecords(r) ==
  /\ release[r].at = "closed"
  /\ Recording(r, "stopped")
  /\ release' = [release EXCEPT ![r] = [NoRelease EXCEPT !.at = "over"]]
  /\ UNCHANGED <<entry, opened, opening, turn, join, timer, reschedule, pump,
                 terminal, disturbed, forsaken>>

(* Faulty: a failed write is only logged.                                  *)
GiveUpRecords(r) ==
  /\ release[r].at = "closed"
  /\ release' = [release EXCEPT ![r] = [NoRelease EXCEPT !.at = "over"]]
  /\ UNCHANGED <<entry, opened, opening, turn, join, timer, reschedule, pump,
                 terminal, record, disturbed, forsaken, unrecorded>>

WriteFails(r) ==
  /\ release[r].at = "closed"
  /\ release' = [release EXCEPT ![r] = [NoRelease EXCEPT !.at = "retrying"]]
  /\ Disturb
  /\ UNCHANGED <<entry, opened, opening, turn, join, timer, reschedule, pump,
                 terminal, record, forsaken, unrecorded>>

(* retryReleaseRecords, under the session's lock: a replacement keeps the  *)
(* row.                                                                    *)
RetryRecords(r) ==
  /\ release[r].at = "retrying"
  /\ opening = Nobody
  /\ IF Live THEN UNCHANGED <<record, unrecorded>> ELSE Recording(r, "stopped")
  /\ release' = [release EXCEPT ![r] = [NoRelease EXCEPT !.at = "over"]]
  /\ UNCHANGED <<entry, opened, opening, turn, join, timer, reschedule, pump,
                 terminal, disturbed, forsaken>>

(* The request that closes a session is interrupted: the entry is gone,    *)
(* the records are not written.                                            *)
CutRelease(r) ==
  /\ release[r].at \in {"removed", "closed"}
  /\ release[r].by = "close"
  /\ release' = [release EXCEPT ![r] = [NoRelease EXCEPT !.at = "over"]]
  /\ unrecorded' = TRUE
  /\ UNCHANGED <<entry, opened, opening, turn, join, timer, reschedule, pump,
                 terminal, record, disturbed, forsaken>>

-----------------------------------------------------------------------------
SessionsNext ==
  \/ \E a \in Actor : Reschedule(a) \/ Touch(a)
  \/ \E n \in Timer : Fire(n) \/ Pin(n) \/ ReleaseIdle(n)
  \/ \E t \in Turn :
       \/ Open(t) \/ WriteJoin(t) \/ TouchJoined(t)
       \/ Launch(t) \/ LaunchFails(t)
       \/ WriteAttached(t) \/ AttachFails(t) \/ EndUndo(t) \/ EndOpen(t)
       \/ Rejoin(t) \/ CommitStart(t) \/ StopStart(t)
       \/ MarkBusy(t) \/ StartFails(t) \/ TurnEnds(t)
       \/ ReleaseUnlessBusy(t)
  \/ \E r \in Runtime :
       \/ PumpTerminal(r) \/ Report(r) \/ WriteStatus(r)
       \/ PumpEnds(r)
       \/ CloseScope(r) \/ WriteRecords(r) \/ WriteFails(r) \/ RetryRecords(r)
       \/ CutRelease(r)
  \/ Close

(* Timers fire and their probes answer, and fibers go on.  No turn has to  *)
(* end, and nobody has to open or to close.                                *)
Opens(t) ==
  \/ WriteJoin(t) \/ TouchJoined(t)
  \/ Launch(t) \/ LaunchFails(t) \/ WriteAttached(t) \/ AttachFails(t)
  \/ EndUndo(t) \/ EndOpen(t) \/ CommitStart(t) \/ MarkBusy(t)

SessionsFairness ==
  /\ \A a \in Actor : WF_sessionVars(Reschedule(a))
  /\ \A n \in Timer : WF_sessionVars(Fire(n) \/ Pin(n) \/ ReleaseIdle(n))
  /\ \A t \in Turn : WF_sessionVars(Opens(t))
  /\ \A r \in Runtime :
       /\ WF_sessionVars(PumpTerminal(r) \/ WriteStatus(r))
       /\ WF_sessionVars(CloseScope(r) \/ WriteRecords(r) \/ WriteFails(r))

SessionsSpec == SessionsInit /\ [][SessionsNext]_sessionVars /\ SessionsFairness

-----------------------------------------------------------------------------
(* A runtime that still works for a turn is never taken away from it by an *)
(* idle timer, however long its probe took and whatever session it was     *)
(* forked for, nor by the force stop of another thread                     *)
(* (ProviderSessionManager.ts:1205, 969).                                  *)
Spared(r) ==
  \A t \in Turn : turn[t].at = "working" /\ turn[t].runtime = r => t \in release'[r].ends

IdleSparesTurns ==
  [][\A r \in Runtime :
       release[r].at = "none" /\ release'[r].at = "removed" => Spared(r)]_sessionVars

(* A session that no turn uses or is about to use does not stay for ever:  *)
(* no busy mark outlives its turn and no reschedule loses the timer, unless*)
(* a start was stopped while it rescheduled                                *)
(* (ProviderSessionManager.ts:1453, 1240).                                 *)
InUse(r) == \E t \in Turn : turn[t].runtime = r /\ turn[t].at # "over"

IdleSessionsEnd ==
  \A r \in Runtime : []<>(entry.runtime # r \/ InUse(r) \/ forsaken)

(* When a session is gone and nothing is left to do about it, its row does *)
(* not say that it is ready, unless the request that closed it was         *)
(* interrupted, or an attachment, a start or a status read from a runtime  *)
(* was written after its release and no later release wrote the row        *)
(* (ProviderSessionManager.ts:901).                                        *)
Settled ==
  /\ ~Live
  /\ opening = Nobody
  /\ \A r \in Runtime : release[r].at \in {"none", "over"}

RecordFollows == Settled => record # "ready" \/ unrecorded
=============================================================================

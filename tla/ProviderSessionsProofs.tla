----------------------- MODULE ProviderSessionsProofs -----------------------
(***************************************************************************)
(* Proofs about ProviderSessions and ThreadLoading: idle timers and force  *)
(* stops spare the turns of others, the record of a session follows it,    *)
(* a session that is not in use is always watched by somebody, and a       *)
(* request that went on to the provider finds its thread loaded.           *)
(***************************************************************************)
EXTENDS ProviderSessions, ThreadLoading, TLAPS

(* The bounds of the model.                                                *)
Bounds == MaxRuntimes \in Nat /\ MaxPins \in Nat

EntryTypes ==
  /\ entry \in [runtime : Runtime \cup {0}, busy : SUBSET Turn, generation : Nat,
                fiber : Timer \cup {0}, pins : 0..MaxPins]
  /\ reschedule \in [Actor -> [generation : Nat, active : BOOLEAN]]

TurnTypes ==
  /\ turn \in [Turn -> [at : {"new", "launching", "attaching", "undoing", "joining",
                              "attached", "opened", "started", "working", "over"},
                        runtime : Runtime \cup {0}]]
  /\ terminal \in [Runtime -> SUBSET Turn]

ReleaseTypes ==
  release \in [Runtime -> [at : {"none", "removed", "closed", "retrying", "over"},
                           by : {"none", "idle", "force", "undo", "stream", "close"},
                           ends : SUBSET Turn, fiber : Timer \cup {0}]]

(* Runtimes are numbered in the order they open, and a turn that got past  *)
(* the launch has one.                                                     *)
Numbered ==
  /\ opened \in Nat /\ opened <= MaxRuntimes
  /\ entry.runtime <= opened
  /\ \A t \in Turn :
       /\ turn[t].runtime <= opened
       /\ turn[t].at \in {"attaching", "joining", "attached", "opened", "started",
                          "working"} => turn[t].runtime # 0

(* A turn that works on the live runtime is marked, and the terminal event *)
(* that removes the mark is that of an ended turn.                         *)
Marks ==
  /\ \A t \in Turn :
       turn[t].at = "working" /\ turn[t].runtime = entry.runtime => t \in entry.busy
  /\ \A r \in Runtime : \A t \in terminal[r] : turn[t].at = "over"

(* A row that says ready is that of a live session, or of one that is      *)
(* still being released.                                                   *)
RowOwned ==
  record = "ready" /\ ~unrecorded =>
    Live \/ \E r \in Runtime : release[r].at \in {"removed", "closed", "retrying"}

SessionInv ==
  EntryTypes /\ TurnTypes /\ ReleaseTypes /\ Numbered /\ Marks /\ RowOwned

-----------------------------------------------------------------------------
LEMMA SessionInit == Bounds /\ SessionsInit => SessionInv
BY DEF Bounds, SessionsInit, SessionInv, EntryTypes, TurnTypes, ReleaseTypes, Numbered,
       Marks, RowOwned, Live, NoEntry, NoReschedule, NoRelease

(* The first half of a reschedule records a generation for the second.     *)
LEMMA RescheduleTypes ==
  ASSUME reschedule \in [Actor -> [generation : Nat, active : BOOLEAN]],
         NEW a \in Actor, NEW e, e.generation \in Nat, NEW active \in BOOLEAN,
         CancelForReschedule(a, e, active)
  PROVE  reschedule' \in [Actor -> [generation : Nat, active : BOOLEAN]]
BY DEF CancelForReschedule

(* Removing the entry leaves every type and every mark, and the release it *)
(* begins owns the row.                                                    *)
LEMMA RemoveKeeps ==
  ASSUME Bounds, SessionInv, Live,
         NEW by \in {"idle", "force", "undo", "stream", "close"},
         NEW ends \in SUBSET Turn, RemoveEntry(by, ends),
         opened' = opened, reschedule' = reschedule, record' = record,
         unrecorded' = unrecorded
  PROVE  /\ EntryTypes' /\ ReleaseTypes' /\ RowOwned'
         /\ entry'.runtime = 0
         /\ entry.runtime \in Runtime
         /\ release'[entry.runtime].ends = ends
         /\ \A r \in Runtime : r # entry.runtime => release'[r] = release[r]
<1>1. entry.runtime \in Runtime BY DEF SessionInv, EntryTypes, Live
<1>2. EntryTypes' /\ entry'.runtime = 0
  BY DEF SessionInv, EntryTypes, RemoveEntry, NoEntry, Bounds
<1>3. ReleaseTypes' BY <1>1 DEF SessionInv, EntryTypes, ReleaseTypes, RemoveEntry
<1>4. release'[entry.runtime].at = "removed" /\ release'[entry.runtime].ends = ends
  BY <1>1 DEF SessionInv, ReleaseTypes, RemoveEntry
<1>5. RowOwned' BY <1>1, <1>4 DEF RowOwned
<1>6. \A r \in Runtime : r # entry.runtime => release'[r] = release[r]
  BY DEF SessionInv, ReleaseTypes, RemoveEntry
<1>7. QED BY <1>1, <1>2, <1>3, <1>4, <1>5, <1>6

(* A step that touches no turn keeps the rest of the invariant when the    *)
(* entry is removed.                                                       *)
LEMMA RemoveKeepsAll ==
  ASSUME Bounds, SessionInv, Live,
         NEW by \in {"idle", "force", "undo", "stream", "close"},
         NEW ends \in SUBSET Turn, RemoveEntry(by, ends),
         UNCHANGED <<opened, turn, terminal, reschedule, record, unrecorded>>
  PROVE  SessionInv'
<1>1. EntryTypes' /\ ReleaseTypes' /\ RowOwned' /\ entry'.runtime = 0
  BY RemoveKeeps
<1>2. TurnTypes' BY DEF SessionInv, TurnTypes
<1>3. Numbered' BY <1>1 DEF SessionInv, Numbered
<1>4. Marks' BY <1>1 DEF SessionInv, Marks, Numbered
<1>5. QED BY <1>1, <1>2, <1>3, <1>4 DEF SessionInv

(* A step that leaves alone all the invariant speaks of.                   *)
LEMMA Untouched ==
  ASSUME SessionInv,
         UNCHANGED <<entry, opened, turn, terminal, reschedule, release, record, unrecorded>>
  PROVE  SessionInv'
BY DEF SessionInv, EntryTypes, TurnTypes, ReleaseTypes, Numbered, Marks, RowOwned, Live

(* A step that only changes what a reschedule remembers.                   *)
LEMMA Rescheduled ==
  ASSUME SessionInv,
         reschedule' \in [Actor -> [generation : Nat, active : BOOLEAN]],
         UNCHANGED <<entry, opened, turn, terminal, release, record, unrecorded>>
  PROVE  SessionInv'
BY DEF SessionInv, EntryTypes, TurnTypes, ReleaseTypes, Numbered, Marks, RowOwned, Live

(* A write of the row by a runtime leaves it flagged unless the runtime is *)
(* still live.                                                             *)
LEMMA RecordedOwned ==
  ASSUME SessionInv, NEW r, r # 0,
         \/ \E status \in {"ready", "stopped"} : Recording(r, status)
         \/ UNCHANGED <<record, unrecorded>>,
         UNCHANGED <<entry, opened, turn, terminal, reschedule, release>>
  PROVE  SessionInv'
<1>1. RowOwned' BY DEF SessionInv, RowOwned, Recording, Live
<1>2. QED BY <1>1 DEF SessionInv, EntryTypes, TurnTypes, ReleaseTypes, Numbered, Marks

(* Timers.                                                                 *)
LEMMA TimerStep ==
  ASSUME Bounds, SessionInv,
         \/ \E a \in Actor : Reschedule(a) \/ Touch(a)
         \/ \E n \in Timer : Fire(n) \/ Pin(n) \/ ReleaseIdle(n)
  PROVE  SessionInv'
<1>1. ASSUME NEW a \in Actor, Reschedule(a)
      PROVE  SessionInv'
  <2> DEFINE n == CHOOSE m \in FreeTimers : TRUE
  <2>1. n \in Timer BY <1>1 DEF Reschedule, FreeTimers
  <2>2. /\ entry' = Recorded(n, reschedule[a])
        /\ reschedule' = [reschedule EXCEPT ![a] = NoReschedule]
        /\ UNCHANGED <<opened, turn, terminal, release, record, unrecorded>>
    BY <1>1 DEF Reschedule
  <2>3. reschedule[a].generation \in Nat BY DEF SessionInv, EntryTypes
  <2> HIDE DEF n
  <2>4. /\ entry' \in [runtime : Runtime \cup {0}, busy : SUBSET Turn, generation : Nat,
                       fiber : Timer \cup {0}, pins : 0..MaxPins]
        /\ entry'.runtime = entry.runtime
        /\ entry'.busy = entry.busy
    <3>1. CASE Live /\ entry.busy = {}
      <4>1. PICK p \in 0..MaxPins :
              entry' = [entry EXCEPT !.generation = reschedule[a].generation,
                                     !.fiber = n, !.pins = p]
        <5> DEFINE q == IF reschedule[a].active THEN 0 ELSE entry.pins
        <5>1. q \in 0..MaxPins BY DEF SessionInv, EntryTypes, Bounds
        <5>2. entry' = [entry EXCEPT !.generation = reschedule[a].generation,
                                     !.fiber = n, !.pins = q]
          BY <2>2, <3>1 DEF Recorded
        <5>3. QED BY <5>1, <5>2
      <4>2. QED BY <2>1, <2>3, <4>1 DEF SessionInv, EntryTypes
    <3>2. CASE ~(Live /\ entry.busy = {})
      BY <2>2, <3>2 DEF Recorded, SessionInv, EntryTypes
    <3>3. QED BY <3>1, <3>2
  <2>5. EntryTypes' BY <2>2, <2>4 DEF SessionInv, EntryTypes, NoReschedule
  <2>6. QED
    BY <2>2, <2>4, <2>5
    DEF SessionInv, TurnTypes, ReleaseTypes, Numbered, Marks, RowOwned, Live
<1>2. ASSUME NEW a \in Actor, Touch(a)
      PROVE  SessionInv'
  <2>1. entry.generation \in Nat BY DEF SessionInv, EntryTypes
  <2>2. (a # Client) \in BOOLEAN OBVIOUS
  <2>3. CancelForReschedule(a, entry, a # Client) BY <1>2 DEF Touch
  <2>4. reschedule' \in [Actor -> [generation : Nat, active : BOOLEAN]]
    BY <2>1, <2>2, <2>3, RescheduleTypes DEF SessionInv, EntryTypes
  <2>5. QED BY <1>2, <2>4, Rescheduled DEF Touch
<1>3. ASSUME NEW n \in Timer, Fire(n)
      PROVE  SessionInv'
  BY <1>3, Untouched DEF Fire
<1>4. ASSUME NEW n \in Timer, Pin(n)
      PROVE  SessionInv'
  <2>1. UNCHANGED <<opened, turn, terminal, reschedule, release, record, unrecorded>>
    BY <1>4 DEF Pin
  <2>2. CASE entry' = entry BY <2>1, <2>2, Untouched
  <2>3. CASE entry.pins < MaxPins /\ entry' = [entry EXCEPT !.pins = @ + 1]
    <3>1. /\ entry' \in [runtime : Runtime \cup {0}, busy : SUBSET Turn, generation : Nat,
                         fiber : Timer \cup {0}, pins : 0..MaxPins]
          /\ entry'.runtime = entry.runtime
          /\ entry'.busy = entry.busy
      BY <2>3 DEF SessionInv, EntryTypes, Bounds
    <3>2. QED
      BY <2>1, <3>1
      DEF SessionInv, EntryTypes, TurnTypes, ReleaseTypes, Numbered, Marks, RowOwned, Live
  <2>4. QED BY <1>4, <2>2, <2>3 DEF Pin
<1>5. ASSUME NEW n \in Timer, ReleaseIdle(n)
      PROVE  SessionInv'
  <2>1. CASE StillIdle(n)
    <3>1. Live /\ RemoveEntry("idle", {})
      BY <1>5, <2>1 DEF ReleaseIdle, StillIdle
    <3>2. UNCHANGED <<opened, turn, terminal, reschedule, record, unrecorded>>
      BY <1>5 DEF ReleaseIdle
    <3>3. {} \in SUBSET Turn OBVIOUS
    <3>4. QED BY <3>1, <3>2, <3>3, RemoveKeepsAll
  <2>2. CASE ~StillIdle(n)
    BY <1>5, <2>2, Untouched DEF ReleaseIdle
  <2>3. QED BY <2>1, <2>2
<1>6. QED BY <1>1, <1>2, <1>3, <1>4, <1>5

(* Turns that open.                                                        *)
LEMMA OpenStep ==
  ASSUME Bounds, SessionInv, NEW t \in Turn,
         \/ Open(t) \/ WriteJoin(t) \/ TouchJoined(t)
         \/ Launch(t) \/ LaunchFails(t)
         \/ WriteAttached(t) \/ AttachFails(t) \/ EndUndo(t) \/ EndOpen(t)
         \/ Rejoin(t) \/ CommitStart(t) \/ StopStart(t)
  PROVE  SessionInv'
<1> USE DEF SessionInv
<1>1. t \in Actor /\ entry.generation \in Nat BY DEF Actor, EntryTypes
<1>2. CASE Open(t)
  <2>2. TurnTypes' BY <1>2 DEF Open, TurnTypes, EntryTypes
  <2>3. EntryTypes' /\ ReleaseTypes' /\ RowOwned'
    BY <1>2 DEF Open, EntryTypes, ReleaseTypes, RowOwned, Live
  <2>4. Numbered' BY <1>2 DEF Open, Numbered, TurnTypes, Live
  <2>5. Marks' BY <1>2 DEF Open, Marks, TurnTypes
  <2>6. QED BY <2>2, <2>3, <2>4, <2>5
<1>3. CASE Launch(t)
  <2>1. opened + 1 \in Runtime BY <1>3 DEF Launch, Runtime, Bounds, Numbered
  <2>2. EntryTypes' BY <1>3, <2>1 DEF Launch, EntryTypes, NoEntry, Bounds
  <2>3. entry'.runtime = opened + 1 BY <1>3 DEF Launch, NoEntry
  <2>4. TurnTypes' BY <1>3, <2>1 DEF Launch, TurnTypes
  <2>5. Numbered'
    <3>1. \A s \in Turn : turn[s].runtime \in Int
      BY DEF TurnTypes, Runtime, Bounds
    <3>2. /\ turn'[t] = [at |-> "attaching", runtime |-> opened + 1]
          /\ \A s \in Turn \ {t} : turn'[s] = turn[s]
      BY <1>3 DEF Launch, TurnTypes
    <3>3. opened \in Nat /\ opened' = opened + 1 /\ opened' <= MaxRuntimes
      BY <1>3 DEF Launch, Numbered, Bounds
    <3>4. \A s \in Turn : /\ turn'[s].runtime <= opened'
                          /\ turn'[s].at \in {"attaching", "joining", "attached", "opened",
                                             "started", "working"} => turn'[s].runtime # 0
      <4>1. ASSUME NEW s \in Turn \ {t}
            PROVE  turn'[s].runtime <= opened'
        BY <3>1, <3>2, <3>3 DEF Numbered
      <4>2. QED BY <3>2, <3>3, <4>1 DEF Numbered
    <3>5. QED BY <2>3, <3>3, <3>4 DEF Numbered
  <2>6. Marks' BY <1>3, <2>3 DEF Launch, Marks, Numbered, TurnTypes, Runtime
  <2>7. ReleaseTypes' BY <1>3 DEF Launch, ReleaseTypes
  <2>8. RowOwned' BY <1>3, <2>3 DEF Launch, RowOwned, Live, Numbered
  <2>9. QED BY <2>2, <2>4, <2>5, <2>6, <2>7, <2>8
<1>4. ASSUME UNCHANGED <<entry, opened, terminal, release, record, unrecorded>>,
             reschedule' \in [Actor -> [generation : Nat, active : BOOLEAN]],
             NEW at \in {"attached", "opened", "over"},
             turn' = [turn EXCEPT ![t].at = at],
             at \in {"attached", "opened"} => turn[t].runtime # 0,
             turn[t].at # "over"
      PROVE  SessionInv'
  <2>1. TurnTypes' BY <1>4 DEF TurnTypes
  <2>2. EntryTypes' /\ ReleaseTypes' /\ RowOwned'
    BY <1>4 DEF EntryTypes, ReleaseTypes, RowOwned, Live
  <2>3. /\ turn'[t].at = at /\ turn'[t].runtime = turn[t].runtime
        /\ \A s \in Turn \ {t} : turn'[s] = turn[s]
    BY <1>4 DEF TurnTypes
  <2>4. Numbered' /\ Marks'
    <3>1. Numbered' BY <1>4, <2>3 DEF Numbered
    <3>2. \A r \in Runtime : terminal[r] \subseteq Turn \ {t}
      BY <1>4 DEF Marks, TurnTypes
    <3>3. \A r \in Runtime : \A s \in terminal'[r] : turn'[s].at = "over"
      BY <1>4, <2>3, <3>2 DEF Marks
    <3>4. Marks' BY <1>4, <2>3, <3>3 DEF Marks
    <3>5. QED BY <3>1, <3>4
  <2>5. QED BY <2>1, <2>2, <2>3, <2>4
<1>5. CASE LaunchFails(t) BY <1>4, <1>5 DEF LaunchFails, EntryTypes
<1>6. CASE WriteAttached(t)
  <2>1. reschedule' \in [Actor -> [generation : Nat, active : BOOLEAN]]
    BY <1>1, <1>6, RescheduleTypes DEF WriteAttached, EntryTypes
  <2>2. TurnTypes' BY <1>6 DEF WriteAttached, TurnTypes
  <2>3. EntryTypes' /\ ReleaseTypes'
    BY <1>6, <2>1 DEF WriteAttached, EntryTypes, ReleaseTypes
  <2>4. Numbered' BY <1>6 DEF WriteAttached, Numbered, TurnTypes
  <2>5. Marks' BY <1>6 DEF WriteAttached, Marks, TurnTypes
  <2>6. RowOwned' BY <1>6 DEF WriteAttached, Recording, RowOwned, Numbered, Live
  <2>7. QED BY <2>2, <2>3, <2>4, <2>5, <2>6
<1>7. CASE AttachFails(t)
  <2>1. CASE Live
    <3>1. /\ RemoveEntry("undo", Turn)
          /\ turn' = [turn EXCEPT ![t].at = "undoing"]
          /\ UNCHANGED <<opened, reschedule, terminal, record, unrecorded>>
      BY <1>7, <2>1 DEF AttachFails
    <3>2. EntryTypes' /\ ReleaseTypes' /\ RowOwned' /\ entry'.runtime = 0
      BY <2>1, <3>1, RemoveKeeps
    <3>3. TurnTypes' BY <3>1 DEF TurnTypes
    <3>4. Numbered' BY <3>1, <3>2 DEF Numbered, TurnTypes
    <3>5. Marks'
      <4>1. \A s \in Turn : turn'[s].at = "working" => turn'[s].runtime # 0
        BY <3>1 DEF Numbered, TurnTypes
      <4>2. \A r \in Runtime : \A s \in terminal'[r] : turn'[s].at = "over"
        BY <1>7, <3>1 DEF AttachFails, Marks, TurnTypes
      <4>3. QED BY <3>2, <4>1, <4>2 DEF Marks
    <3>6. QED BY <3>2, <3>3, <3>4, <3>5
  <2>2. CASE ~Live BY <1>4, <1>7, <2>2 DEF AttachFails, EntryTypes
  <2>3. QED BY <2>1, <2>2
<1>8. CASE EndUndo(t) BY <1>4, <1>8 DEF EndUndo, EntryTypes
<1>9. CASE EndOpen(t) BY <1>4, <1>9 DEF EndOpen, EntryTypes, Numbered
<1>10. CASE StopStart(t)
  <2>1. reschedule' \in [Actor -> [generation : Nat, active : BOOLEAN]]
    BY <1>10 DEF StopStart, EntryTypes, NoReschedule
  <2>2. QED BY <1>4, <1>10, <2>1 DEF StopStart
<1>11. CASE WriteJoin(t)
  <2>1. \/ Recording(join[t], "ready")
        \/ UNCHANGED <<record, unrecorded>>
    BY <1>11 DEF WriteJoin
  <2>2. join[t] # 0 BY <1>11 DEF WriteJoin
  <2>3. UNCHANGED <<entry, opened, turn, reschedule, terminal, release>>
    BY <1>11 DEF WriteJoin
  <2>4. QED BY <2>1, <2>2, <2>3, RecordedOwned
<1>12. CASE TouchJoined(t)
  <2>1. CancelForReschedule(t, entry, FALSE) /\ turn[t].at = "joining"
    BY <1>12 DEF TouchJoined
  <2>2. reschedule' \in [Actor -> [generation : Nat, active : BOOLEAN]]
    BY <1>1, <2>1, RescheduleTypes DEF EntryTypes
  <2>3. turn[t].runtime # 0 BY <2>1 DEF Numbered
  <2>4. QED BY <1>4, <1>12, <2>1, <2>2, <2>3 DEF TouchJoined
<1>13. CASE Rejoin(t) BY <1>13, Untouched DEF Rejoin
<1>14. CASE CommitStart(t)
  <2>1. /\ turn[t].at = "opened" /\ Recording(turn[t].runtime, "ready")
        /\ turn' = [turn EXCEPT ![t].at = "started"]
        /\ UNCHANGED <<entry, opened, reschedule, terminal, release>>
    BY <1>14 DEF CommitStart
  <2>2. turn[t].runtime # 0 BY <2>1 DEF Numbered
  <2>3. TurnTypes' BY <2>1 DEF TurnTypes
  <2>4. EntryTypes' /\ ReleaseTypes' BY <2>1 DEF EntryTypes, ReleaseTypes
  <2>5. Numbered' BY <2>1, <2>2 DEF Numbered, TurnTypes
  <2>6. Marks' BY <2>1 DEF Marks, TurnTypes
  <2>7. RowOwned' BY <2>1, <2>2 DEF RowOwned, Recording, Live
  <2>8. QED BY <2>3, <2>4, <2>5, <2>6, <2>7
<1>15. QED
  BY <1>2, <1>3, <1>5, <1>6, <1>7, <1>8, <1>9, <1>10, <1>11, <1>12, <1>13, <1>14

(* Turns at work, and the event pump.                                      *)
LEMMA WorkStep ==
  ASSUME Bounds, SessionInv,
         \/ \E t \in Turn : MarkBusy(t) \/ StartFails(t) \/ TurnEnds(t) \/ ReleaseUnlessBusy(t)
         \/ \E r \in Runtime : PumpTerminal(r) \/ Report(r) \/ WriteStatus(r) \/ PumpEnds(r)
  PROVE  SessionInv'
<1> USE DEF SessionInv
<1>1. ASSUME NEW t \in Turn, MarkBusy(t)
      PROVE  SessionInv'
  <2>1. UNCHANGED <<opened, terminal, reschedule, release, record, unrecorded>>
    BY <1>1 DEF MarkBusy
  <2>2. CASE entry.runtime = turn[t].runtime
    <3>1. entry' = Marked(t) /\ turn' = [turn EXCEPT ![t].at = "working"]
      BY <1>1, <2>2 DEF MarkBusy
    <3>2. /\ EntryTypes'
          /\ entry'.runtime = entry.runtime
          /\ entry'.busy = entry.busy \cup {t}
      <4>1. entry' = [entry EXCEPT !.busy = @ \cup {t}, !.fiber = 0, !.pins = 0]
        BY <3>1 DEF Marked
      <4>2. 0 \in 0..MaxPins BY DEF Bounds
      <4>3. entry' \in [runtime : Runtime \cup {0}, busy : SUBSET Turn, generation : Nat,
                        fiber : Timer \cup {0}, pins : 0..MaxPins]
        BY <4>1, <4>2 DEF EntryTypes
      <4>4. entry'.runtime = entry.runtime /\ entry'.busy = entry.busy \cup {t}
        BY <4>1 DEF EntryTypes
      <4>5. QED BY <2>1, <4>3, <4>4 DEF EntryTypes
    <3>3. TurnTypes' BY <2>1, <3>1 DEF TurnTypes
    <3>4. ReleaseTypes' /\ RowOwned'
      BY <2>1, <3>2 DEF ReleaseTypes, RowOwned, Live
    <3>5. Numbered' BY <1>1, <2>1, <3>1, <3>2 DEF MarkBusy, Numbered, TurnTypes
    <3>6. Marks' BY <1>1, <2>1, <3>1, <3>2 DEF MarkBusy, Marks, TurnTypes
    <3>7. QED BY <3>2, <3>3, <3>4, <3>5, <3>6
  <2>3. CASE entry.runtime # turn[t].runtime
    <3>1. entry' = entry /\ turn' = [turn EXCEPT ![t].at = "over"]
      BY <1>1, <2>3 DEF MarkBusy
    <3>2. QED
      BY <2>1, <3>1
      DEF EntryTypes, TurnTypes, ReleaseTypes, Numbered, Marks, RowOwned, Live
  <2>4. QED BY <2>2, <2>3
<1>2. ASSUME NEW t \in Turn, NEW a \in Actor, MarkIdle(a, t),
             UNCHANGED <<opened, release, record, unrecorded>>,
             TurnTypes', Numbered',
             turn'[t].at = "over",
             \A s \in Turn : turn'[s].runtime = turn[s].runtime
                             /\ (turn'[s].at = "working" => turn[s].at = "working"),
             \A r \in Runtime : \A s \in terminal'[r] : turn'[s].at = "over"
      PROVE  SessionInv'
  <2> DEFINE idle == [entry EXCEPT !.busy = @ \ {t}]
  <2>1. /\ idle \in [runtime : Runtime \cup {0}, busy : SUBSET Turn, generation : Nat,
                     fiber : Timer \cup {0}, pins : 0..MaxPins]
        /\ idle.runtime = entry.runtime
        /\ idle.busy = entry.busy \ {t}
        /\ idle.generation \in Nat
    BY DEF EntryTypes
  <2>2. entry' = idle /\ CancelForReschedule(a, idle, FALSE)
    BY <1>2 DEF MarkIdle
  <2> HIDE DEF idle
  <2>3. EntryTypes' BY <2>1, <2>2, RescheduleTypes DEF EntryTypes
  <2>4. ReleaseTypes' /\ RowOwned'
    BY <1>2, <2>1, <2>2 DEF ReleaseTypes, RowOwned, Live
  <2>5. Marks' BY <1>2, <2>1, <2>2 DEF Marks
  <2>6. QED BY <1>2, <2>3, <2>4, <2>5
<1>3. ASSUME NEW t \in Turn, StartFails(t)
      PROVE  SessionInv'
  <2>1. t \in Actor BY DEF Actor
  <2>2. /\ MarkIdle(t, t)
        /\ turn' = [turn EXCEPT ![t].at = "over"]
        /\ UNCHANGED <<opened, release, record, unrecorded, terminal>>
    BY <1>3 DEF StartFails
  <2>3. TurnTypes' BY <2>2 DEF TurnTypes
  <2>4. /\ turn'[t].at = "over"
        /\ \A s \in Turn : turn'[s].runtime = turn[s].runtime
                           /\ (turn'[s].at = "working" => turn[s].at = "working")
    BY <2>2 DEF TurnTypes
  <2>5. \A r \in Runtime : \A s \in terminal'[r] : turn'[s].at = "over"
    BY <2>2 DEF TurnTypes, Marks
  <2>6. entry'.runtime = entry.runtime BY <2>2 DEF MarkIdle, EntryTypes
  <2>7. Numbered' BY <2>2, <2>6 DEF Numbered, TurnTypes
  <2>8. QED BY <1>2, <2>1, <2>2, <2>3, <2>4, <2>5, <2>7
<1>4. ASSUME NEW t \in Turn, TurnEnds(t)
      PROVE  SessionInv'
  <2>1. /\ turn' = [turn EXCEPT ![t].at = "over"]
        /\ terminal' = [terminal EXCEPT ![turn[t].runtime] = @ \cup {t}]
        /\ UNCHANGED <<entry, opened, reschedule, release, record, unrecorded>>
    BY <1>4 DEF TurnEnds
  <2>2. TurnTypes' BY <2>1 DEF TurnTypes
  <2>3. EntryTypes' /\ ReleaseTypes' /\ RowOwned'
    BY <2>1 DEF EntryTypes, ReleaseTypes, RowOwned, Live
  <2>4. Numbered' BY <2>1 DEF Numbered, TurnTypes
  <2>5. Marks' BY <2>1 DEF Marks, TurnTypes
  <2>6. QED BY <2>2, <2>3, <2>4, <2>5
<1>5. ASSUME NEW t \in Turn, ReleaseUnlessBusy(t)
      PROVE  SessionInv'
  <2>1. /\ Live /\ RemoveEntry("force", {t})
        /\ UNCHANGED <<opened, turn, terminal, reschedule, record, unrecorded>>
    BY <1>5 DEF ReleaseUnlessBusy
  <2>2. {t} \in SUBSET Turn OBVIOUS
  <2>3. QED BY <2>1, <2>2, RemoveKeepsAll
<1>6. ASSUME NEW r \in Runtime, PumpTerminal(r)
      PROVE  SessionInv'
  <2>1. r \in Actor BY DEF Actor
  <2>2. PICK t \in terminal[r] :
          /\ terminal' = [terminal EXCEPT ![r] = @ \ {t}]
          /\ MarkIdle(r, t)
    BY <1>6 DEF PumpTerminal
  <2>3. t \in Turn BY DEF TurnTypes
  <2>4. UNCHANGED <<opened, turn, release, record, unrecorded>>
    BY <1>6 DEF PumpTerminal
  <2>5. TurnTypes' BY <2>2, <2>4 DEF TurnTypes
  <2>6. turn'[t].at = "over" BY <2>4 DEF Marks
  <2>7. \A p \in Runtime : \A s \in terminal'[p] : turn'[s].at = "over"
    BY <2>2, <2>4 DEF TurnTypes, Marks
  <2>8. entry'.runtime = entry.runtime BY <2>2 DEF MarkIdle, EntryTypes
  <2>9. Numbered' BY <2>4, <2>8 DEF Numbered
  <2>10. QED BY <1>2, <2>1, <2>2, <2>3, <2>4, <2>5, <2>6, <2>7, <2>9
<1>7. ASSUME NEW r \in Runtime, PumpEnds(r)
      PROVE  SessionInv'
  <2>1. /\ terminal' = [terminal EXCEPT ![r] = {}]
        /\ UNCHANGED <<opened, turn, reschedule, record, unrecorded>>
    BY <1>7 DEF PumpEnds
  <2>2. TurnTypes' /\ \A p \in Runtime : \A s \in terminal'[p] : turn'[s].at = "over"
    BY <2>1 DEF TurnTypes, Marks
  <2>3. CASE entry.runtime = r
    <3>1. Live BY <2>3 DEF Live, Runtime
    <3>2. RemoveEntry("stream", Turn) BY <1>7, <2>3 DEF PumpEnds
    <3>3. EntryTypes' /\ ReleaseTypes' /\ RowOwned' /\ entry'.runtime = 0
      BY <2>1, <3>1, <3>2, RemoveKeeps
    <3>4. Numbered' BY <2>1, <3>3 DEF Numbered
    <3>5. Marks' BY <2>1, <2>2, <3>3 DEF Marks, Numbered
    <3>6. QED BY <2>2, <3>3, <3>4, <3>5
  <2>4. CASE entry.runtime # r
    <3>1. UNCHANGED <<entry, release>> BY <1>7, <2>4 DEF PumpEnds
    <3>2. EntryTypes' /\ ReleaseTypes' /\ RowOwned' /\ Numbered'
      BY <2>1, <3>1 DEF EntryTypes, ReleaseTypes, RowOwned, Live, Numbered
    <3>3. Marks' BY <2>1, <2>2, <3>1 DEF Marks
    <3>4. QED BY <2>2, <3>2, <3>3
  <2>5. QED BY <2>3, <2>4
<1>8. ASSUME NEW r \in Runtime, Report(r)
      PROVE  SessionInv'
  <2>1. r \in Actor /\ entry.generation \in Nat BY DEF Actor, EntryTypes
  <2>2. CancelForReschedule(r, entry, TRUE) BY <1>8 DEF Report
  <2>3. reschedule' \in [Actor -> [generation : Nat, active : BOOLEAN]]
    BY <2>1, <2>2, RescheduleTypes DEF EntryTypes
  <2>4. QED BY <1>8, <2>3, Rescheduled DEF Report
<1>9. ASSUME NEW r \in Runtime, WriteStatus(r)
      PROVE  SessionInv'
  <2>1. r # 0 BY DEF Runtime
  <2>2. QED BY <1>9, <2>1, RecordedOwned DEF WriteStatus
<1>10. QED BY <1>1, <1>3, <1>4, <1>5, <1>6, <1>7, <1>8, <1>9

(* Releases.                                                               *)
LEMMA ReleaseStep ==
  ASSUME Bounds, SessionInv,
         \/ Close
         \/ \E r \in Runtime : \/ CloseScope(r) \/ WriteRecords(r) \/ WriteFails(r)
                               \/ RetryRecords(r) \/ CutRelease(r)
  PROVE  SessionInv'
<1> USE DEF SessionInv
<1>1. CASE Close BY <1>1, RemoveKeepsAll DEF Close
<1>2. ASSUME UNCHANGED <<entry, opened, turn, terminal, reschedule>>,
             ReleaseTypes', RowOwned'
      PROVE  SessionInv'
  BY <1>2 DEF EntryTypes, TurnTypes, Numbered, Marks
<1>3. ASSUME NEW r \in Runtime, CloseScope(r)
      PROVE  SessionInv'
  <2>1. ReleaseTypes' BY <1>3 DEF CloseScope, ReleaseTypes
  <2>2. RowOwned' BY <1>3 DEF CloseScope, ReleaseTypes, RowOwned, Live
  <2>3. QED BY <1>2, <1>3, <2>1, <2>2 DEF CloseScope
<1>4. ASSUME NEW r \in Runtime, WriteRecords(r)
      PROVE  SessionInv'
  <2>1. ReleaseTypes' BY <1>4 DEF WriteRecords, ReleaseTypes, NoRelease
  <2>2. RowOwned' BY <1>4 DEF WriteRecords, Recording, RowOwned
  <2>3. QED BY <1>2, <1>4, <2>1, <2>2 DEF WriteRecords
<1>5. ASSUME NEW r \in Runtime, WriteFails(r)
      PROVE  SessionInv'
  <2>1. ReleaseTypes' BY <1>5 DEF WriteFails, ReleaseTypes, NoRelease
  <2>2. RowOwned' BY <1>5 DEF WriteFails, ReleaseTypes, NoRelease, RowOwned, Live
  <2>3. QED BY <1>2, <1>5, <2>1, <2>2 DEF WriteFails
<1>6. ASSUME NEW r \in Runtime, RetryRecords(r)
      PROVE  SessionInv'
  <2>1. ReleaseTypes' BY <1>6 DEF RetryRecords, ReleaseTypes, NoRelease
  <2>2. RowOwned' BY <1>6 DEF RetryRecords, Recording, RowOwned, Live
  <2>3. QED BY <1>2, <1>6, <2>1, <2>2 DEF RetryRecords
<1>7. ASSUME NEW r \in Runtime, CutRelease(r)
      PROVE  SessionInv'
  <2>1. release' = [release EXCEPT ![r] = [NoRelease EXCEPT !.at = "over"]]
    BY <1>7 DEF CutRelease
  <2>2. ReleaseTypes' BY <2>1 DEF ReleaseTypes, NoRelease
  <2>3. RowOwned' BY <1>7 DEF CutRelease, RowOwned
  <2>4. QED BY <1>2, <1>7, <2>2, <2>3 DEF CutRelease
<1>8. QED BY <1>1, <1>3, <1>4, <1>5, <1>6, <1>7

LEMMA SessionStep ==
  ASSUME Bounds, SessionInv, [SessionsNext]_sessionVars
  PROVE  SessionInv'
<1>1. CASE UNCHANGED sessionVars BY <1>1, Untouched DEF sessionVars
<1>2. CASE SessionsNext BY <1>2, TimerStep, OpenStep, WorkStep, ReleaseStep DEF SessionsNext
<1>3. QED BY <1>1, <1>2

(* Working turns are marked in the live entry, and a row that says ready   *)
(* belongs to a live session or to a release under way, for any turns,     *)
(* runtimes, timers and disturbances (ProviderSessionManager.ts:1453, 901).*)
THEOREM SessionInvariant ==
  ASSUME Bounds
  PROVE  SessionsSpec => []SessionInv
<1>1. SessionsInit => SessionInv BY SessionInit
<1>2. SessionInv /\ [SessionsNext]_sessionVars => SessionInv' BY SessionStep
<1>3. QED BY <1>1, <1>2, PTL DEF SessionsSpec

(* When a session is gone and nothing is left to do about it, its row does *)
(* not say that it is ready, unless its closing was interrupted or a       *)
(* status of its runtime was written after its release and by no release   *)
(* since, for any turns, joins, reports and runtimes                       *)
(* (ProviderSessionManager.ts:901).                                        *)
THEOREM RecordsFollow ==
  ASSUME Bounds
  PROVE  SessionsSpec => []RecordFollows
<1>1. SessionInv => RecordFollows
  BY DEF SessionInv, RowOwned, RecordFollows, Settled
<1>2. QED BY <1>1, SessionInvariant, PTL

(* Who removes the live entry of a runtime.                                *)
LEMMA OnlyReleases ==
  ASSUME SessionInv, SessionsNext, NEW r \in Runtime,
         release[r].at = "none", release'[r].at = "removed"
  PROVE  \E by \in {"idle", "force", "undo", "stream", "close"}, ends \in SUBSET Turn :
           /\ Live /\ RemoveEntry(by, ends)
           /\ \/ ends = Turn
              \/ entry.busy \subseteq ends
              \/ entry.busy = {}
<1> USE DEF SessionInv
<1>1. release' # release OBVIOUS
<1>2. ASSUME NEW n \in Timer, ReleaseIdle(n)
      PROVE  Live /\ RemoveEntry("idle", {}) /\ entry.busy = {}
  BY <1>1, <1>2 DEF ReleaseIdle, StillIdle
<1>3. ASSUME NEW t \in Turn, AttachFails(t)
      PROVE  Live /\ RemoveEntry("undo", Turn)
  BY <1>1, <1>3 DEF AttachFails
<1>4. ASSUME NEW t \in Turn, ReleaseUnlessBusy(t)
      PROVE  Live /\ RemoveEntry("force", {t}) /\ entry.busy \subseteq {t}
  BY <1>4 DEF ReleaseUnlessBusy
<1>5. ASSUME NEW p \in Runtime, PumpEnds(p)
      PROVE  Live /\ RemoveEntry("stream", Turn)
  <2>1. entry.runtime = p /\ RemoveEntry("stream", Turn)
    BY <1>1, <1>5 DEF PumpEnds
  <2>2. QED BY <2>1 DEF Live, Runtime
<1>6. ASSUME Close
      PROVE  Live /\ RemoveEntry("close", Turn)
  BY <1>6 DEF Close
<1>7. ASSUME NEW p \in Runtime,
             CloseScope(p) \/ WriteRecords(p) \/ WriteFails(p) \/ RetryRecords(p)
               \/ CutRelease(p)
      PROVE  FALSE
  BY <1>7
  DEF ReleaseTypes, NoRelease, CloseScope, WriteRecords, WriteFails, RetryRecords, CutRelease
<1>8. \/ \E n \in Timer : ReleaseIdle(n)
      \/ \E t \in Turn : AttachFails(t) \/ ReleaseUnlessBusy(t)
      \/ \E p \in Runtime : PumpEnds(p)
      \/ Close
  <2>1. ASSUME NEW a \in Actor, Reschedule(a) \/ Touch(a)
        PROVE  FALSE
    BY <1>1, <2>1 DEF Reschedule, Touch
  <2>2. ASSUME NEW n \in Timer, Fire(n) \/ Pin(n)
        PROVE  FALSE
    BY <1>1, <2>2 DEF Fire, Pin
  <2>3. ASSUME NEW t \in Turn,
               \/ Open(t) \/ WriteJoin(t) \/ TouchJoined(t)
               \/ Launch(t) \/ LaunchFails(t) \/ WriteAttached(t)
               \/ EndUndo(t) \/ EndOpen(t) \/ Rejoin(t) \/ CommitStart(t) \/ StopStart(t)
        PROVE  FALSE
    BY <1>1, <2>3
    DEF Open, WriteJoin, TouchJoined, Launch, LaunchFails, WriteAttached, EndUndo, EndOpen,
        Rejoin, CommitStart, StopStart
  <2>4. ASSUME NEW t \in Turn, MarkBusy(t) \/ StartFails(t) \/ TurnEnds(t)
        PROVE  FALSE
    BY <1>1, <2>4 DEF MarkBusy, StartFails, TurnEnds
  <2>5. ASSUME NEW p \in Runtime, PumpTerminal(p) \/ Report(p) \/ WriteStatus(p)
        PROVE  FALSE
    BY <1>1, <2>5 DEF PumpTerminal, Report, WriteStatus
  <2>6. QED BY <1>7, <2>1, <2>2, <2>3, <2>4, <2>5 DEF SessionsNext
<1>9. Turn \in SUBSET Turn /\ {} \in SUBSET Turn OBVIOUS
<1>10. CASE \E n \in Timer : ReleaseIdle(n) BY <1>2, <1>9, <1>10
<1>11. CASE \E t \in Turn : AttachFails(t) BY <1>3, <1>9, <1>11
<1>12. CASE \E t \in Turn : ReleaseUnlessBusy(t)
  <2>1. PICK t \in Turn : ReleaseUnlessBusy(t) BY <1>12
  <2>2. {t} \in SUBSET Turn OBVIOUS
  <2>3. QED BY <1>4, <2>1, <2>2
<1>13. CASE \E p \in Runtime : PumpEnds(p) BY <1>5, <1>9, <1>13
<1>14. CASE Close BY <1>6, <1>9, <1>14
<1>15. QED BY <1>8, <1>10, <1>11, <1>12, <1>13, <1>14

(* A runtime that works for a turn is taken away from it only by the force *)
(* stop of its own thread, a close or the end of the provider's stream,    *)
(* never by an idle timer or by the stop of another thread, for any turns, *)
(* runtimes and timers (ProviderSessionManager.ts:969, 1205).              *)
THEOREM WorkIsSpared ==
  ASSUME Bounds
  PROVE  SessionsSpec => IdleSparesTurns
<1>1. SessionInv /\ [SessionsNext]_sessionVars =>
        [\A r \in Runtime :
           release[r].at = "none" /\ release'[r].at = "removed" => Spared(r)]_sessionVars
  <2>1. SUFFICES ASSUME SessionInv, SessionsNext, NEW r \in Runtime,
                        release[r].at = "none", release'[r].at = "removed",
                        NEW t \in Turn, turn[t].at = "working", turn[t].runtime = r
                 PROVE  t \in release'[r].ends
    BY DEF Spared
  <2>2. PICK by \in {"idle", "force", "undo", "stream", "close"}, ends \in SUBSET Turn :
          /\ Live /\ RemoveEntry(by, ends)
          /\ \/ ends = Turn
             \/ entry.busy \subseteq ends
             \/ entry.busy = {}
    BY <2>1, OnlyReleases
  <2>3. entry.runtime \in Runtime /\ r = entry.runtime
    <3>1. entry.runtime \in Runtime BY <2>1, <2>2 DEF SessionInv, EntryTypes, Live
    <3>2. ASSUME r # entry.runtime
          PROVE  release'[r] = release[r]
      BY <2>1, <2>2, <3>2 DEF SessionInv, ReleaseTypes, RemoveEntry
    <3>3. QED BY <2>1, <3>1, <3>2
  <2>4. release'[r].ends = ends
    BY <2>1, <2>2, <2>3 DEF SessionInv, ReleaseTypes, RemoveEntry
  <2>5. t \in entry.busy BY <2>1, <2>3 DEF SessionInv, Marks
  <2>6. QED BY <2>2, <2>4, <2>5
<1>2. QED BY <1>1, SessionInvariant, PTL DEF SessionsSpec, IdleSparesTurns

-----------------------------------------------------------------------------
(***************************************************************************)
(* What the end of idle sessions rests on: somebody always watches them.   *)
(***************************************************************************)

WatchTypes ==
  /\ timer \in [Timer -> [at : {"free", "sleeping", "probing"}, generation : Nat,
                          probed : Runtime \cup {0}]]
  /\ pump \in [Runtime -> {"none", "running", "writing", "over"}]

(* A marked turn works on the live runtime, or its terminal event, which   *)
(* removes the mark, is before a pump that runs.                           *)
BusyWorks ==
  \A t \in entry.busy :
    /\ Live /\ turn[t].runtime = entry.runtime
    /\ \/ turn[t].at = "working"
       \/ turn[t].at = "over" /\ t \in terminal[entry.runtime]

PumpsRun ==
  \A r \in Runtime : terminal[r] # {} => pump[r] \in {"running", "writing"}

(* The timer in the entry is that of an idle session, and knows its        *)
(* generation and, once it probes, its runtime.                            *)
FiberKnown ==
  entry.fiber # 0 =>
    /\ Live /\ entry.busy = {}
    /\ \/ timer[entry.fiber].at = "free"
       \/ /\ timer[entry.fiber].generation = entry.generation
          /\ timer[entry.fiber].at = "probing" => timer[entry.fiber].probed = entry.runtime

(* A release cancels no timer but its own.                                 *)
FiberOwn == \A r \in Runtime : release[r].fiber # 0 => release[r].fiber # entry.fiber

Rescheduling == \E a \in Actor : reschedule[a] # NoReschedule

(* An unmarked session is being attached, has a timer or is about to.      *)
Watched ==
  Live /\ entry.busy = {} /\ ~forsaken =>
    \/ Rescheduling
    \/ \E t \in Turn : turn[t].at = "attaching" /\ turn[t].runtime = entry.runtime
    \/ entry.fiber # 0 /\ timer[entry.fiber].at # "free"

WatchInv == WatchTypes /\ BusyWorks /\ PumpsRun /\ FiberKnown /\ FiberOwn /\ Watched

(* A live session that no turn uses or is about to use has marks that its  *)
(* pump is about to remove, or a reschedule under way, or a timer which    *)
(* will find that the session is the one it was forked for.                *)
SessionWatched ==
  Live /\ ~InUse(entry.runtime) /\ ~forsaken =>
    \/ /\ entry.busy # {} /\ entry.busy \subseteq terminal[entry.runtime]
       /\ pump[entry.runtime] \in {"running", "writing"}
    \/ Rescheduling
    \/ /\ entry.fiber # 0 /\ timer[entry.fiber].at # "free"
       /\ StillIdle(entry.fiber)
       /\ timer[entry.fiber].at = "probing" => timer[entry.fiber].probed = entry.runtime

LEMMA WatchInit == Bounds /\ SessionsInit => WatchInv
BY DEF Bounds, SessionsInit, WatchInv, WatchTypes, BusyWorks, PumpsRun, FiberKnown, FiberOwn,
       Watched, Live, NoEntry, NoTimer, NoRelease

(* A removed entry leaves nothing to watch.                                *)
LEMMA NothingToWatch ==
  ASSUME entry' = NoEntry, WatchTypes', PumpsRun'
  PROVE  WatchInv'
BY DEF NoEntry, WatchInv, BusyWorks, FiberKnown, FiberOwn, Watched, Live

(* Whoever cancels the timer of an idle session is going to restart it.    *)
LEMMA CancelWatches ==
  ASSUME SessionInv, WatchInv, NEW a \in Actor, NEW active \in BOOLEAN,
         NEW e, e.runtime = entry.runtime, e.fiber = entry.fiber,
         e.generation = entry.generation, e.busy \subseteq entry.busy,
         CancelForReschedule(a, e, active),
         entry'.runtime = e.runtime, entry'.fiber = e.fiber,
         entry'.generation = e.generation, entry'.busy = e.busy
  PROVE  /\ timer' \in [Timer -> [at : {"free", "sleeping", "probing"}, generation : Nat,
                                  probed : Runtime \cup {0}]]
         /\ FiberKnown'
         /\ Live' /\ entry'.busy = {} => Rescheduling'
<1> USE DEF SessionInv, WatchInv
<1>1. entry.generation \in Nat /\ entry.fiber \in Timer \cup {0} BY DEF EntryTypes
<1>2. CASE e.runtime = 0 \/ e.busy # {}
  <2>1. UNCHANGED <<timer, reschedule>> BY <1>2 DEF CancelForReschedule
  <2>2. entry.fiber = 0 BY <1>2 DEF FiberKnown, Live
  <2>3. QED BY <1>2, <2>1, <2>2 DEF WatchTypes, FiberKnown, Live
<1>3. CASE ~(e.runtime = 0 \/ e.busy # {})
  <2>1. /\ timer' = Cancelled(entry.fiber)
        /\ reschedule' = [reschedule EXCEPT ![a] =
                            [generation |-> entry.generation + 1, active |-> active]]
    BY <1>3 DEF CancelForReschedule
  <2>2. timer' \in [Timer -> [at : {"free", "sleeping", "probing"}, generation : Nat,
                              probed : Runtime \cup {0}]]
    BY <2>1 DEF WatchTypes, Cancelled, NoTimer
  <2>3. FiberKnown'
    BY <1>1, <1>3, <2>1 DEF FiberKnown, Cancelled, NoTimer, Live
  <2>4. reschedule'[a].generation # 0
    BY <1>1, <2>1 DEF EntryTypes
  <2>5. Rescheduling' BY <2>4 DEF Rescheduling, NoReschedule
  <2>6. QED BY <2>2, <2>3, <2>5
<1>4. QED BY <1>2, <1>3

(* Timers.                                                                 *)
LEMMA TimersWatch ==
  ASSUME Bounds, SessionInv, WatchInv,
         \/ \E a \in Actor : Reschedule(a) \/ Touch(a)
         \/ \E n \in Timer : Fire(n) \/ Pin(n) \/ ReleaseIdle(n)
  PROVE  WatchInv'
<1> USE DEF SessionInv, WatchInv
<1>1. ASSUME NEW a \in Actor, Reschedule(a)
      PROVE  WatchInv'
  <2> DEFINE n == CHOOSE m \in FreeTimers : TRUE
  <2>1. n \in FreeTimers BY <1>1 DEF Reschedule
  <2>2. /\ timer' = [timer EXCEPT ![n] = [at |-> "sleeping", probed |-> 0,
                                          generation |-> reschedule[a].generation]]
        /\ entry' = Recorded(n, reschedule[a])
        /\ UNCHANGED <<turn, terminal, pump, release>>
    BY <1>1 DEF Reschedule
  <2>3. reschedule[a].generation \in Nat BY DEF EntryTypes
  <2> HIDE DEF n
  <2>4. /\ n \in Timer /\ n # entry.fiber
        /\ \A r \in Runtime : release[r].fiber # n
    BY <2>1 DEF FreeTimers
  <2>5. WatchTypes' BY <2>2, <2>3, <2>4 DEF WatchTypes
  <2>6. PumpsRun' BY <2>2 DEF PumpsRun
  <2>7. CASE Live /\ entry.busy = {}
    <3>1. /\ entry'.runtime = entry.runtime /\ entry'.busy = {}
          /\ entry'.generation = reschedule[a].generation /\ entry'.fiber = n
      BY <2>2, <2>7 DEF Recorded, EntryTypes
    <3>2. /\ timer'[n].at = "sleeping"
          /\ timer'[n].generation = reschedule[a].generation
      BY <2>2, <2>4 DEF WatchTypes
    <3>3. BusyWorks' BY <3>1 DEF BusyWorks, Live
    <3>4. FiberKnown' BY <2>7, <3>1, <3>2 DEF FiberKnown, Live
    <3>5. FiberOwn' BY <2>2, <2>4, <3>1 DEF FiberOwn
    <3>6. n # 0 BY <2>4 DEF Timer
    <3>7. Watched' BY <3>1, <3>2, <3>6 DEF Watched
    <3>8. QED BY <2>5, <2>6, <3>3, <3>4, <3>5, <3>7
  <2>8. CASE ~(Live /\ entry.busy = {})
    <3>1. entry' = entry BY <2>2, <2>8 DEF Recorded
    <3>2. entry.fiber = 0 BY <2>8 DEF FiberKnown
    <3>3. QED
      BY <2>2, <2>5, <2>6, <2>8, <3>1, <3>2
      DEF BusyWorks, FiberKnown, FiberOwn, Watched, Live
  <2>9. QED BY <2>7, <2>8
<1>2. ASSUME NEW a \in Actor, Touch(a)
      PROVE  WatchInv'
  <2>1. (a # Client) \in BOOLEAN OBVIOUS
  <2>2. /\ CancelForReschedule(a, entry, a # Client)
        /\ UNCHANGED <<entry, turn, terminal, pump, release, forsaken>>
    BY <1>2 DEF Touch
  <2>3. /\ timer' \in [Timer -> [at : {"free", "sleeping", "probing"}, generation : Nat,
                                 probed : Runtime \cup {0}]]
        /\ FiberKnown'
        /\ Live' /\ entry'.busy = {} => Rescheduling'
    BY <2>1, <2>2, CancelWatches
  <2>4. BusyWorks' /\ PumpsRun' /\ FiberOwn'
    BY <2>2 DEF BusyWorks, Live, PumpsRun, FiberOwn
  <2>5. QED BY <2>2, <2>3, <2>4 DEF WatchTypes, Watched
<1>3. ASSUME NEW n \in Timer, Fire(n)
      PROVE  WatchInv'
  <2>1. UNCHANGED <<entry, turn, terminal, pump, release, reschedule, forsaken>>
    BY <1>3 DEF Fire
  <2>2. CASE StillIdle(n)
    <3>1. timer' = [timer EXCEPT ![n] = [@ EXCEPT !.at = "probing", !.probed = entry.runtime]]
      BY <1>3, <2>2 DEF Fire
    <3>2. WatchTypes'
      <4>1. entry.runtime \in Runtime \cup {0} BY DEF EntryTypes
      <4>2. QED BY <2>1, <3>1, <4>1 DEF WatchTypes
    <3>3. /\ timer'[n].at = "probing" /\ timer'[n].probed = entry.runtime
          /\ timer'[n].generation = timer[n].generation
          /\ \A m \in Timer \ {n} : timer'[m] = timer[m]
      BY <3>1 DEF WatchTypes
    <3>4. FiberKnown' BY <2>1, <2>2, <3>3 DEF FiberKnown, StillIdle, Live, EntryTypes
    <3>5. Watched'
      BY <2>1, <3>3 DEF Watched, Live, Rescheduling, EntryTypes
    <3>6. QED BY <2>1, <3>2, <3>4, <3>5 DEF BusyWorks, Live, PumpsRun, FiberOwn
  <2>3. CASE ~StillIdle(n)
    <3>1. timer' = [timer EXCEPT ![n] = NoTimer]
      BY <1>3, <2>3 DEF Fire
    <3>2. n # entry.fiber
      <4>1. n # 0 BY DEF Timer
      <4>2. timer[n].at = "sleeping" BY <1>3 DEF Fire
      <4>3. QED BY <2>3, <4>1, <4>2 DEF FiberKnown, StillIdle
    <3>3. WatchTypes' BY <2>1, <3>1 DEF WatchTypes, NoTimer
    <3>4. \A m \in Timer \ {n} : timer'[m] = timer[m] BY <3>1 DEF WatchTypes
    <3>5. QED
      BY <2>1, <3>2, <3>3, <3>4
      DEF BusyWorks, PumpsRun, FiberKnown, FiberOwn, Watched, Live, Rescheduling, EntryTypes
  <2>4. QED BY <2>2, <2>3
<1>4. ASSUME NEW n \in Timer, Pin(n)
      PROVE  WatchInv'
  <2>1. UNCHANGED <<turn, terminal, pump, release, reschedule, forsaken>>
    BY <1>4 DEF Pin
  <2>2. CASE StillIdle(n) /\ entry.runtime = timer[n].probed
    <3>1. /\ timer' = [timer EXCEPT ![n] = [@ EXCEPT !.at = "sleeping", !.probed = 0]]
          /\ entry' = [entry EXCEPT !.pins = @ + 1]
      BY <1>4, <2>2 DEF Pin
    <3>2. /\ entry'.runtime = entry.runtime /\ entry'.busy = entry.busy
          /\ entry'.generation = entry.generation /\ entry'.fiber = entry.fiber
      BY <3>1 DEF EntryTypes
    <3>3. /\ timer'[n].at = "sleeping" /\ timer'[n].generation = timer[n].generation
          /\ \A m \in Timer \ {n} : timer'[m] = timer[m]
      BY <3>1 DEF WatchTypes
    <3>4. WatchTypes'
      <4>1. timer[n] \in [at : {"free", "sleeping", "probing"}, generation : Nat,
                          probed : Runtime \cup {0}]
        BY DEF WatchTypes
      <4>2. [timer[n] EXCEPT !.at = "sleeping", !.probed = 0]
              \in [at : {"free", "sleeping", "probing"}, generation : Nat,
                   probed : Runtime \cup {0}]
        BY <4>1
      <4>3. QED BY <2>1, <3>1, <4>2 DEF WatchTypes
    <3>5. FiberKnown' BY <2>2, <3>2, <3>3 DEF FiberKnown, StillIdle, Live, EntryTypes
    <3>6. Watched' BY <2>1, <3>2, <3>3 DEF Watched, Live, Rescheduling, EntryTypes
    <3>7. QED BY <2>1, <3>2, <3>4, <3>5, <3>6 DEF BusyWorks, Live, PumpsRun, FiberOwn
  <2>3. CASE ~(StillIdle(n) /\ entry.runtime = timer[n].probed)
    <3>1. timer' = [timer EXCEPT ![n] = NoTimer] /\ entry' = entry
      BY <1>4, <2>3 DEF Pin
    <3>2. n # entry.fiber
      <4>1. n # 0 BY DEF Timer
      <4>2. timer[n].at = "probing" BY <1>4 DEF Pin
      <4>3. QED BY <2>3, <4>1, <4>2 DEF FiberKnown, StillIdle
    <3>3. WatchTypes' BY <2>1, <3>1 DEF WatchTypes, NoTimer
    <3>4. \A m \in Timer \ {n} : timer'[m] = timer[m] BY <3>1 DEF WatchTypes
    <3>5. QED
      BY <2>1, <3>1, <3>2, <3>3, <3>4
      DEF BusyWorks, PumpsRun, FiberKnown, FiberOwn, Watched, Live, Rescheduling, EntryTypes
  <2>4. QED BY <2>2, <2>3
<1>5. ASSUME NEW n \in Timer, ReleaseIdle(n)
      PROVE  WatchInv'
  <2>1. /\ timer' = [timer EXCEPT ![n] = NoTimer]
        /\ UNCHANGED <<turn, terminal, pump, reschedule, forsaken>>
    BY <1>5 DEF ReleaseIdle
  <2>2. WatchTypes' /\ PumpsRun' BY <2>1 DEF WatchTypes, NoTimer, PumpsRun
  <2>3. CASE StillIdle(n)
    BY <1>5, <2>2, <2>3, NothingToWatch DEF ReleaseIdle, RemoveEntry
  <2>4. CASE ~StillIdle(n)
    <3>1. UNCHANGED <<entry, release>> BY <1>5, <2>4 DEF ReleaseIdle
    <3>2. n # entry.fiber
      BY <1>5, <2>4 DEF ReleaseIdle, FiberKnown, StillIdle, Timer
    <3>3. \A m \in Timer \ {n} : timer'[m] = timer[m] BY <2>1 DEF WatchTypes
    <3>4. QED
      BY <2>1, <2>2, <3>1, <3>2, <3>3
      DEF BusyWorks, PumpsRun, FiberKnown, FiberOwn, Watched, Live, Rescheduling, EntryTypes
  <2>5. QED BY <2>3, <2>4
<1>6. QED BY <1>1, <1>2, <1>3, <1>4, <1>5

(* Turns that open.                                                        *)
LEMMA OpensWatch ==
  ASSUME Bounds, SessionInv, WatchInv, NEW t \in Turn,
         \/ Open(t) \/ WriteJoin(t) \/ TouchJoined(t)
         \/ Launch(t) \/ LaunchFails(t)
         \/ WriteAttached(t) \/ AttachFails(t) \/ EndUndo(t) \/ EndOpen(t)
         \/ Rejoin(t) \/ CommitStart(t) \/ StopStart(t)
  PROVE  WatchInv'
<1> USE DEF SessionInv, WatchInv
<1>1. t \in Actor BY DEF Actor
<1>2. ASSUME NEW at, turn' = [turn EXCEPT ![t].at = at],
             turn[t].at \notin {"working", "over"},
             UNCHANGED <<entry, terminal>>
      PROVE  BusyWorks'
  <2>1. \A s \in Turn \ {t} : turn'[s] = turn[s] BY <1>2 DEF TurnTypes
  <2>2. t \notin entry.busy BY <1>2 DEF BusyWorks, Live
  <2>3. QED BY <1>2, <2>1, <2>2 DEF BusyWorks, Live, EntryTypes
<1>3. ASSUME NEW at \in {"over", "opened", "started"}, turn' = [turn EXCEPT ![t].at = at],
             turn[t].at \notin {"attaching", "working", "over"},
             UNCHANGED <<entry, timer, reschedule, pump, terminal, release, forsaken>>
      PROVE  WatchInv'
  <2>1. BusyWorks' BY <1>2, <1>3
  <2>2. \A s \in Turn : turn[s].at = "attaching" => turn'[s] = turn[s]
    BY <1>3 DEF TurnTypes
  <2>3. Watched' BY <1>3, <2>2 DEF Watched, Live, Rescheduling
  <2>4. QED BY <1>3, <2>1, <2>3 DEF WatchTypes, PumpsRun, FiberKnown, FiberOwn, Live
<1>4. CASE Open(t)
  <2>1. /\ turn[t].at = "new" /\ \A s \in Turn \ {t} : turn'[s] = turn[s]
        /\ UNCHANGED <<entry, timer, reschedule, pump, terminal, release, forsaken>>
    BY <1>4 DEF Open, TurnTypes
  <2>2. t \notin entry.busy BY <2>1 DEF BusyWorks, Live
  <2>3. BusyWorks' BY <2>1, <2>2 DEF BusyWorks, Live, EntryTypes
  <2>4. Watched' BY <2>1 DEF Watched, Live, Rescheduling
  <2>5. QED BY <2>1, <2>3, <2>4 DEF WatchTypes, PumpsRun, FiberKnown, FiberOwn, Live
<1>5. CASE Launch(t)
  <2>1. /\ entry'.runtime = opened + 1 /\ entry'.busy = {} /\ entry'.fiber = 0
        /\ UNCHANGED <<timer, reschedule, pump, terminal, release>>
    BY <1>5 DEF Launch, NoEntry
  <2>2. turn'[t] = [at |-> "attaching", runtime |-> opened + 1]
    BY <1>5 DEF Launch, TurnTypes
  <2>3. BusyWorks' /\ FiberKnown' /\ FiberOwn'
    BY <2>1 DEF BusyWorks, Live, FiberKnown, FiberOwn
  <2>4. Watched' BY <2>1, <2>2 DEF Watched
  <2>5. QED BY <2>1, <2>3, <2>4 DEF WatchTypes, PumpsRun
<1>6. CASE LaunchFails(t) BY <1>3, <1>6 DEF LaunchFails
<1>7. CASE WriteAttached(t)
  <2>1. /\ CancelForReschedule(t, entry, FALSE)
        /\ UNCHANGED <<entry, terminal, release, forsaken>>
        /\ turn' = [turn EXCEPT ![t].at = "attached"]
        /\ turn[t].at = "attaching"
        /\ pump' = [pump EXCEPT ![turn[t].runtime] = "running"]
    BY <1>7 DEF WriteAttached
  <2>2. /\ timer' \in [Timer -> [at : {"free", "sleeping", "probing"}, generation : Nat,
                                 probed : Runtime \cup {0}]]
        /\ FiberKnown'
        /\ Live' /\ entry'.busy = {} => Rescheduling'
    BY <1>1, <2>1, CancelWatches
  <2>3. BusyWorks' BY <1>2, <2>1
  <2>4. pump' \in [Runtime -> {"none", "running", "writing", "over"}] /\ PumpsRun'
    BY <2>1 DEF WatchTypes, PumpsRun
  <2>5. QED BY <2>1, <2>2, <2>3, <2>4 DEF WatchTypes, FiberOwn, Watched
<1>8. CASE AttachFails(t)
  <2>1. UNCHANGED <<timer, pump, terminal, forsaken, reschedule>> BY <1>8 DEF AttachFails
  <2>2. WatchTypes' /\ PumpsRun' BY <2>1 DEF WatchTypes, PumpsRun
  <2>3. CASE Live
    BY <1>8, <2>2, <2>3, NothingToWatch DEF AttachFails, RemoveEntry
  <2>4. CASE ~Live
    <3>1. /\ UNCHANGED <<entry, release>> /\ turn[t].at = "attaching"
          /\ turn' = [turn EXCEPT ![t].at = "over"]
      BY <1>8, <2>4 DEF AttachFails
    <3>2. BusyWorks' BY <1>2, <2>1, <3>1
    <3>3. QED BY <2>1, <2>2, <2>4, <3>1, <3>2 DEF FiberKnown, FiberOwn, Watched, Live
  <2>5. QED BY <2>3, <2>4
<1>9. CASE EndUndo(t) BY <1>3, <1>9 DEF EndUndo
<1>10. CASE EndOpen(t) BY <1>3, <1>10 DEF EndOpen
<1>11. CASE StopStart(t)
  <2>1. /\ UNCHANGED <<entry, timer, pump, terminal, release>>
        /\ turn' = [turn EXCEPT ![t].at = "over"]
        /\ turn[t].at \in {"joining", "attached", "opened", "started"}
        /\ forsaken' = (forsaken \/ reschedule[t] # NoReschedule)
        /\ reschedule' = [reschedule EXCEPT ![t] = NoReschedule]
    BY <1>11 DEF StopStart
  <2>2. BusyWorks' BY <1>2, <2>1
  <2>3. \A s \in Turn : turn[s].at = "attaching" => turn'[s] = turn[s]
    BY <2>1 DEF TurnTypes
  <2>4. CASE reschedule[t] # NoReschedule
    BY <2>1, <2>2, <2>4 DEF WatchTypes, PumpsRun, FiberKnown, FiberOwn, Watched, Live
  <2>5. CASE reschedule[t] = NoReschedule
    <3>1. Rescheduling => Rescheduling' BY <2>1, <2>5 DEF Rescheduling, EntryTypes
    <3>2. Watched' BY <2>1, <2>3, <3>1 DEF Watched, Live
    <3>3. QED BY <2>1, <2>2, <3>2 DEF WatchTypes, PumpsRun, FiberKnown, FiberOwn, Live
  <2>6. QED BY <2>4, <2>5
<1>12. CASE WriteJoin(t) \/ Rejoin(t)
  <2>1. UNCHANGED <<entry, turn, timer, reschedule, pump, terminal, release, forsaken>>
    BY <1>12 DEF WriteJoin, Rejoin
  <2>2. QED
    BY <2>1
    DEF WatchTypes, BusyWorks, PumpsRun, FiberKnown, FiberOwn, Watched, Live, Rescheduling
<1>13. CASE TouchJoined(t)
  <2>1. /\ CancelForReschedule(t, entry, FALSE)
        /\ UNCHANGED <<entry, terminal, pump, release, forsaken>>
        /\ turn[t].at = "joining"
        /\ turn' = [turn EXCEPT ![t].at = "attached"]
    BY <1>13 DEF TouchJoined
  <2>2. /\ timer' \in [Timer -> [at : {"free", "sleeping", "probing"}, generation : Nat,
                                 probed : Runtime \cup {0}]]
        /\ FiberKnown'
        /\ Live' /\ entry'.busy = {} => Rescheduling'
    BY <1>1, <2>1, CancelWatches
  <2>3. BusyWorks' BY <1>2, <2>1
  <2>4. QED BY <2>1, <2>2, <2>3 DEF WatchTypes, PumpsRun, FiberOwn, Watched
<1>14. CASE CommitStart(t) BY <1>3, <1>14 DEF CommitStart
<1>15. QED
  BY <1>4, <1>5, <1>6, <1>7, <1>8, <1>9, <1>10, <1>11, <1>12, <1>13, <1>14

(* Turns at work, and the event pump.                                      *)
LEMMA WorkWatches ==
  ASSUME Bounds, SessionInv, WatchInv,
         \/ \E t \in Turn : MarkBusy(t) \/ StartFails(t) \/ TurnEnds(t) \/ ReleaseUnlessBusy(t)
         \/ \E r \in Runtime : PumpTerminal(r) \/ Report(r) \/ WriteStatus(r) \/ PumpEnds(r)
  PROVE  WatchInv'
<1> USE DEF SessionInv, WatchInv
<1>1. ASSUME NEW t \in Turn, MarkBusy(t)
      PROVE  WatchInv'
  <2>1. turn[t].at = "started" /\ UNCHANGED <<reschedule, pump, terminal, release, forsaken>>
    BY <1>1 DEF MarkBusy
  <2>2. t \notin entry.busy BY <2>1 DEF BusyWorks, Live
  <2>3. CASE entry.runtime = turn[t].runtime
    <3>1. /\ entry' = Marked(t) /\ timer' = Cancelled(entry.fiber)
          /\ turn' = [turn EXCEPT ![t].at = "working"]
      BY <1>1, <2>3 DEF MarkBusy
    <3>2. /\ entry'.runtime = entry.runtime /\ entry'.busy = entry.busy \cup {t}
          /\ entry'.fiber = 0
      BY <3>1 DEF Marked, EntryTypes
    <3>3. /\ turn'[t].at = "working" /\ turn'[t].runtime = turn[t].runtime
          /\ \A s \in Turn \ {t} : turn'[s] = turn[s]
      BY <3>1 DEF TurnTypes
    <3>4. BusyWorks'
      BY <2>1, <2>3, <3>2, <3>3 DEF BusyWorks, Live, EntryTypes, Numbered
    <3>5. WatchTypes' BY <2>1, <3>1 DEF WatchTypes, Cancelled, NoTimer
    <3>6. QED BY <2>1, <3>2, <3>4, <3>5 DEF PumpsRun, FiberKnown, FiberOwn, Watched
  <2>4. CASE entry.runtime # turn[t].runtime
    <3>1. UNCHANGED <<entry, timer>> /\ turn' = [turn EXCEPT ![t].at = "over"]
      BY <1>1, <2>4 DEF MarkBusy
    <3>2. \A s \in Turn \ {t} : turn'[s] = turn[s] BY <3>1 DEF TurnTypes
    <3>3. BusyWorks' BY <2>1, <2>2, <3>1, <3>2 DEF BusyWorks, Live, EntryTypes
    <3>4. Watched' BY <2>1, <3>1, <3>2 DEF Watched, Live, Rescheduling
    <3>5. QED
      BY <2>1, <3>1, <3>3, <3>4 DEF WatchTypes, PumpsRun, FiberKnown, FiberOwn, Live
  <2>5. QED BY <2>3, <2>4
<1>2. ASSUME NEW t \in Turn, NEW a \in Actor, MarkIdle(a, t), BusyWorks', PumpsRun',
             UNCHANGED <<pump, release, forsaken>>
      PROVE  WatchInv'
  <2> DEFINE idle == [entry EXCEPT !.busy = @ \ {t}]
  <2>1. /\ idle.runtime = entry.runtime /\ idle.fiber = entry.fiber
        /\ idle.generation = entry.generation /\ idle.busy = entry.busy \ {t}
    BY DEF EntryTypes
  <2>2. entry' = idle /\ CancelForReschedule(a, idle, FALSE)
    BY <1>2 DEF MarkIdle
  <2> HIDE DEF idle
  <2>3. idle.busy \subseteq entry.busy BY <2>1
  <2>4. /\ timer' \in [Timer -> [at : {"free", "sleeping", "probing"}, generation : Nat,
                                 probed : Runtime \cup {0}]]
        /\ FiberKnown'
        /\ Live' /\ entry'.busy = {} => Rescheduling'
    BY <2>1, <2>2, <2>3, CancelWatches
  <2>5. FiberOwn' BY <1>2, <2>1, <2>2 DEF FiberOwn
  <2>6. QED BY <1>2, <2>4, <2>5 DEF WatchTypes, Watched
<1>3. ASSUME NEW t \in Turn, StartFails(t)
      PROVE  WatchInv'
  <2>1. t \in Actor BY DEF Actor
  <2>2. /\ MarkIdle(t, t)
        /\ turn' = [turn EXCEPT ![t].at = "over"]
        /\ UNCHANGED <<pump, terminal, release, forsaken>>
    BY <1>3 DEF StartFails
  <2>3. entry'.runtime = entry.runtime /\ entry'.busy = entry.busy \ {t}
    BY <2>2 DEF MarkIdle, EntryTypes
  <2>4. \A s \in Turn \ {t} : turn'[s] = turn[s] BY <2>2 DEF TurnTypes
  <2>5. BusyWorks' BY <2>2, <2>3, <2>4 DEF BusyWorks, Live, EntryTypes
  <2>6. PumpsRun' BY <2>2 DEF PumpsRun
  <2>7. QED BY <1>2, <2>1, <2>2, <2>5, <2>6
<1>4. ASSUME NEW t \in Turn, TurnEnds(t)
      PROVE  WatchInv'
  <2>1. /\ turn[t].at = "working" /\ pump[turn[t].runtime] \in {"running", "writing"}
        /\ turn' = [turn EXCEPT ![t].at = "over"]
        /\ terminal' = [terminal EXCEPT ![turn[t].runtime] = @ \cup {t}]
        /\ UNCHANGED <<entry, timer, reschedule, pump, release, forsaken>>
    BY <1>4 DEF TurnEnds
  <2>2. turn[t].runtime \in Runtime BY <2>1 DEF Numbered, TurnTypes
  <2>3. /\ turn'[t].at = "over" /\ turn'[t].runtime = turn[t].runtime
        /\ \A s \in Turn \ {t} : turn'[s] = turn[s]
    BY <2>1 DEF TurnTypes
  <2>4. /\ terminal'[turn[t].runtime] = terminal[turn[t].runtime] \cup {t}
        /\ \A r \in Runtime \ {turn[t].runtime} : terminal'[r] = terminal[r]
    BY <2>1, <2>2 DEF TurnTypes
  <2>5. BusyWorks'
    <3>1. ASSUME NEW s \in entry.busy
          PROVE  /\ Live /\ turn'[s].runtime = entry.runtime
                 /\ \/ turn'[s].at = "working"
                    \/ turn'[s].at = "over" /\ s \in terminal'[entry.runtime]
      <4>1. s \in Turn BY DEF EntryTypes
      <4>2. CASE s = t BY <2>3, <2>4, <4>2 DEF BusyWorks, Live
      <4>3. CASE s # t
        <5>1. turn'[s] = turn[s] BY <2>3, <4>1, <4>3
        <5>2. entry.runtime \in Runtime BY DEF BusyWorks, Live, EntryTypes
        <5>3. terminal[entry.runtime] \subseteq terminal'[entry.runtime]
          BY <2>4, <5>2
        <5>4. /\ Live /\ turn[s].runtime = entry.runtime
              /\ \/ turn[s].at = "working"
                 \/ turn[s].at = "over" /\ s \in terminal[entry.runtime]
          BY DEF BusyWorks
        <5>5. QED BY <5>1, <5>3, <5>4
      <4>4. QED BY <4>2, <4>3
    <3>2. QED BY <2>1, <3>1 DEF BusyWorks, Live
  <2>6. PumpsRun' BY <2>1, <2>4 DEF PumpsRun
  <2>7. Watched' BY <2>1, <2>3 DEF Watched, Live, Rescheduling
  <2>8. QED BY <2>1, <2>5, <2>6, <2>7 DEF WatchTypes, FiberKnown, FiberOwn, Live
<1>5. ASSUME NEW t \in Turn, ReleaseUnlessBusy(t)
      PROVE  WatchInv'
  BY <1>5, NothingToWatch DEF ReleaseUnlessBusy, RemoveEntry, WatchTypes, PumpsRun
<1>6. ASSUME NEW r \in Runtime, PumpTerminal(r)
      PROVE  WatchInv'
  <2>1. r \in Actor BY DEF Actor
  <2>2. PICK t \in terminal[r] :
          /\ terminal' = [terminal EXCEPT ![r] = @ \ {t}]
          /\ MarkIdle(r, t)
    BY <1>6 DEF PumpTerminal
  <2>3. t \in Turn BY DEF TurnTypes
  <2>4. UNCHANGED <<turn, pump, release, forsaken>> BY <1>6 DEF PumpTerminal
  <2>5. entry'.runtime = entry.runtime /\ entry'.busy = entry.busy \ {t}
    BY <2>2 DEF MarkIdle, EntryTypes
  <2>6. \A p \in Runtime : terminal[p] \ {t} \subseteq terminal'[p] /\ terminal'[p] \subseteq terminal[p]
    BY <2>2 DEF TurnTypes
  <2>7. BusyWorks'
    <3>1. entry.busy # {} => entry.runtime \in Runtime
      BY DEF BusyWorks, Live, EntryTypes
    <3>2. QED BY <2>4, <2>5, <2>6, <3>1 DEF BusyWorks, Live
  <2>8. PumpsRun' BY <2>4, <2>6 DEF PumpsRun
  <2>9. QED BY <1>2, <2>1, <2>2, <2>3, <2>4, <2>7, <2>8
<1>7. ASSUME NEW r \in Runtime, PumpEnds(r)
      PROVE  WatchInv'
  <2>1. /\ pump' = [pump EXCEPT ![r] = "over"] /\ terminal' = [terminal EXCEPT ![r] = {}]
        /\ UNCHANGED <<turn, timer, reschedule, forsaken>>
    BY <1>7 DEF PumpEnds
  <2>2. WatchTypes' /\ PumpsRun' BY <2>1 DEF WatchTypes, PumpsRun, TurnTypes
  <2>3. CASE entry.runtime = r
    BY <1>7, <2>2, <2>3, NothingToWatch DEF PumpEnds, RemoveEntry
  <2>4. CASE entry.runtime # r
    <3>1. UNCHANGED <<entry, release>> BY <1>7, <2>4 DEF PumpEnds
    <3>2. terminal'[entry.runtime] = terminal[entry.runtime]
      BY <2>1, <2>4 DEF TurnTypes
    <3>3. BusyWorks' BY <2>1, <3>1, <3>2 DEF BusyWorks, Live
    <3>4. QED BY <2>1, <2>2, <3>1, <3>3 DEF FiberKnown, FiberOwn, Watched, Live, Rescheduling
  <2>5. QED BY <2>3, <2>4
<1>8. ASSUME NEW r \in Runtime, Report(r)
      PROVE  WatchInv'
  <2>1. r \in Actor BY DEF Actor
  <2>2. /\ CancelForReschedule(r, entry, TRUE)
        /\ pump[r] = "running" /\ pump' = [pump EXCEPT ![r] = "writing"]
        /\ UNCHANGED <<entry, turn, terminal, release, forsaken>>
    BY <1>8 DEF Report
  <2>3. /\ timer' \in [Timer -> [at : {"free", "sleeping", "probing"}, generation : Nat,
                                 probed : Runtime \cup {0}]]
        /\ FiberKnown'
        /\ Live' /\ entry'.busy = {} => Rescheduling'
    BY <2>1, <2>2, CancelWatches
  <2>4. pump' \in [Runtime -> {"none", "running", "writing", "over"}] /\ PumpsRun'
    BY <2>2 DEF WatchTypes, PumpsRun
  <2>5. BusyWorks' /\ FiberOwn' BY <2>2 DEF BusyWorks, Live, FiberOwn
  <2>6. QED BY <2>2, <2>3, <2>4, <2>5 DEF WatchTypes, Watched
<1>9. ASSUME NEW r \in Runtime, WriteStatus(r)
      PROVE  WatchInv'
  <2>1. /\ pump[r] = "writing" /\ pump' = [pump EXCEPT ![r] = "running"]
        /\ UNCHANGED <<entry, turn, timer, reschedule, terminal, release, forsaken>>
    BY <1>9 DEF WriteStatus
  <2>2. WatchTypes' /\ PumpsRun' BY <2>1 DEF WatchTypes, PumpsRun
  <2>3. QED
    BY <2>1, <2>2 DEF BusyWorks, FiberKnown, FiberOwn, Watched, Live, Rescheduling
<1>10. QED BY <1>1, <1>3, <1>4, <1>5, <1>6, <1>7, <1>8, <1>9

(* Releases.                                                               *)
LEMMA ReleasesWatch ==
  ASSUME SessionInv, WatchInv,
         \/ Close
         \/ \E r \in Runtime : \/ CloseScope(r) \/ WriteRecords(r) \/ WriteFails(r)
                               \/ RetryRecords(r) \/ CutRelease(r)
  PROVE  WatchInv'
<1> USE DEF SessionInv, WatchInv
<1>1. CASE Close
  BY <1>1, NothingToWatch DEF Close, RemoveEntry, WatchTypes, PumpsRun
<1>2. ASSUME UNCHANGED <<entry, turn, reschedule, pump, terminal, forsaken>>,
             timer' \in [Timer -> [at : {"free", "sleeping", "probing"}, generation : Nat,
                                   probed : Runtime \cup {0}]],
             entry.fiber # 0 => timer'[entry.fiber] = timer[entry.fiber],
             \A r \in Runtime : release'[r].fiber \in {0, release[r].fiber}
      PROVE  WatchInv'
  BY <1>2
  DEF WatchTypes, BusyWorks, PumpsRun, FiberKnown, FiberOwn, Watched, Live, Rescheduling
<1>3. ASSUME NEW r \in Runtime, CloseScope(r)
      PROVE  WatchInv'
  <2>1. /\ UNCHANGED <<entry, turn, reschedule, pump, terminal, forsaken>>
        /\ timer' = timer \/ timer' = Cancelled(release[r].fiber)
        /\ release' = [release EXCEPT ![r] = [@ EXCEPT !.at = "closed", !.ends = {}, !.fiber = 0]]
    BY <1>3 DEF CloseScope
  <2>2. timer' \in [Timer -> [at : {"free", "sleeping", "probing"}, generation : Nat,
                              probed : Runtime \cup {0}]]
    BY <2>1 DEF WatchTypes, Cancelled, NoTimer
  <2>3. \A p \in Runtime : release'[p].fiber \in {0, release[p].fiber}
    BY <2>1 DEF ReleaseTypes
  <2>4. ASSUME entry.fiber # 0
        PROVE  timer'[entry.fiber] = timer[entry.fiber]
    <3>1. entry.fiber \in Timer /\ release[r].fiber # entry.fiber
      BY <2>4 DEF FiberOwn, EntryTypes
    <3>2. QED BY <2>1, <3>1 DEF Cancelled
  <2>5. QED BY <1>2, <2>1, <2>2, <2>3, <2>4
<1>4. ASSUME NEW r \in Runtime, WriteRecords(r) \/ WriteFails(r) \/ RetryRecords(r)
      PROVE  WatchInv'
  <2>1. /\ UNCHANGED <<entry, turn, timer, reschedule, pump, terminal, forsaken>>
        /\ \E at \in {"over", "retrying"} :
             release' = [release EXCEPT ![r] = [NoRelease EXCEPT !.at = at]]
    BY <1>4 DEF WriteRecords, WriteFails, RetryRecords
  <2>2. \A p \in Runtime : release'[p].fiber \in {0, release[p].fiber}
    BY <2>1 DEF ReleaseTypes, NoRelease
  <2>3. QED BY <1>2, <2>1, <2>2 DEF WatchTypes
<1>5. ASSUME NEW r \in Runtime, CutRelease(r)
      PROVE  WatchInv'
  <2>1. /\ UNCHANGED <<entry, turn, timer, reschedule, pump, terminal, forsaken>>
        /\ release' = [release EXCEPT ![r] = [NoRelease EXCEPT !.at = "over"]]
    BY <1>5 DEF CutRelease
  <2>2. \A p \in Runtime : release'[p].fiber \in {0, release[p].fiber}
    BY <2>1 DEF ReleaseTypes, NoRelease
  <2>3. QED BY <1>2, <2>1, <2>2 DEF WatchTypes
<1>6. QED BY <1>1, <1>3, <1>4, <1>5

(* However turns, timers, pumps, probes and releases interleave, a session *)
(* that no turn uses or is about to use is not forgotten: its mark is about*)
(* to go, its timer to be restarted, or the timer in its entry will find   *)
(* it idle (ProviderSessionManager.ts:1453, 1240).                         *)
THEOREM SessionsAreWatched ==
  ASSUME Bounds
  PROVE  SessionsSpec => []SessionWatched
<1>1. SessionsInit => WatchInv BY WatchInit
<1>2. SessionInv /\ WatchInv /\ [SessionsNext]_sessionVars => WatchInv'
  <2>1. CASE UNCHANGED sessionVars
    BY <2>1
    DEF sessionVars, WatchInv, WatchTypes, BusyWorks, PumpsRun, FiberKnown, FiberOwn,
        Watched, Live, Rescheduling
  <2>2. CASE SessionsNext
    BY <2>2, TimersWatch, OpensWatch, WorkWatches, ReleasesWatch DEF SessionsNext
  <2>3. QED BY <2>1, <2>2
<1>3. SessionInv /\ WatchInv => SessionWatched
  <2> SUFFICES ASSUME SessionInv, WatchInv, Live, ~InUse(entry.runtime), ~forsaken
               PROVE  \/ /\ entry.busy # {} /\ entry.busy \subseteq terminal[entry.runtime]
                         /\ pump[entry.runtime] \in {"running", "writing"}
                      \/ Rescheduling
                      \/ /\ entry.fiber # 0 /\ timer[entry.fiber].at # "free"
                         /\ StillIdle(entry.fiber)
                         /\ timer[entry.fiber].at = "probing" =>
                              timer[entry.fiber].probed = entry.runtime
    BY DEF SessionWatched
  <2> USE DEF SessionInv, WatchInv
  <2>1. CASE entry.busy # {}
    <3>1. entry.runtime \in Runtime BY DEF Live, EntryTypes
    <3>2. entry.busy \subseteq terminal[entry.runtime]
      BY DEF BusyWorks, InUse, EntryTypes
    <3>3. QED BY <2>1, <3>1, <3>2 DEF PumpsRun
  <2>2. CASE entry.busy = {}
    <3>1. Rescheduling \/ (entry.fiber # 0 /\ timer[entry.fiber].at # "free")
      BY <2>2 DEF Watched, InUse
    <3>2. QED BY <3>1 DEF FiberKnown, StillIdle
  <2>3. QED BY <2>1, <2>2
<1>4. QED BY <1>1, <1>2, <1>3, SessionInvariant, PTL DEF SessionsSpec

-----------------------------------------------------------------------------
(***************************************************************************)
(* The threads a session keeps loaded (ThreadLoading).                     *)
(***************************************************************************)

(* The holders of the attachment lock can be told apart.                   *)
HoldersDistinct ==
  /\ Request \cap Unloader = {}
  /\ Detacher \notin Request \cup Unloader
  /\ Free \notin Request \cup Unloader \cup {Detacher}

UnloaderTypes ==
  unloader \in [Unloader -> [at : {"free", "sleeping", "probing", "unloading"},
                             generation : Nat]]

LoadTypes ==
  /\ UnloaderTypes
  /\ request \in [Request -> {"new", "loading", "attached", "starting", "marked",
                              "resuming", "running", "ending", "over"}]
  /\ unload \in [tracked : BOOLEAN, generation : Nat, fiber : Unloader \cup {Free}]

(* Who changes what the provider has loaded, or notes it, has the lock.    *)
LockHeld ==
  /\ \A u \in Unloader : unloader[u].at \in {"probing", "unloading"} => attachment = u
  /\ \A q \in Request : request[q] \in {"loading", "resuming"} => attachment = q
  /\ detacher = "unloading" => attachment = Detacher

(* The books of the session agree with each other and with the provider.   *)
BooksExact ==
  /\ loaded => native
  /\ loaded => attached
  /\ detacher = "unloading" => ~attached
  /\ \A u \in Unloader : unloader[u].at = "unloading" => ~loaded

(* An idle unload finds nobody at work, and who works is on the books.     *)
Unshared ==
  /\ \A q \in Request : request[q] \in {"marked", "resuming", "running"} => q \in holders
  /\ \A u \in Unloader : unloader[u].at \in {"probing", "unloading"} => holders = {}
  /\ ~attached => \A q \in Request : request[q] = "running" => q \in cut

LoadInv == LoadTypes /\ LockHeld /\ BooksExact /\ Unshared /\ RunsLoaded

-----------------------------------------------------------------------------
LEMMA LoadInit == LoadingInit => LoadInv
BY DEF LoadingInit, LoadInv, LoadTypes, UnloaderTypes, LockHeld, BooksExact, Unshared, RunsLoaded,
       NotPending, NoUnload

(* Holding a thread cancels a timer, which nobody with the lock is.        *)
LEMMA HoldKeeps ==
  ASSUME LoadTypes, Hold
  PROVE  /\ UnloaderTypes'
         /\ unload' \in [tracked : BOOLEAN, generation : Nat, fiber : Unloader \cup {Free}]
         /\ \A u \in Unloader : unloader'[u] = unloader[u] \/ unloader'[u].at = "free"
BY DEF Hold, LoadTypes, UnloaderTypes, NoUnload

LEMMA LoadStep ==
  ASSUME HoldersDistinct, LoadInv, [LoadingNext]_loadVars
  PROVE  LoadInv'
<1> USE DEF LoadInv, HoldersDistinct
<1>1. ASSUME NEW q \in Request, Load(q)
      PROVE  LoadInv'
  <2>1. /\ UnloaderTypes' /\ LoadTypes'
        /\ \A u \in Unloader : unloader'[u] = unloader[u] \/ unloader'[u].at = "free"
    BY <1>1, HoldKeeps DEF Load, LoadTypes
  <2>2. \A u \in Unloader : unloader[u].at \notin {"probing", "unloading"}
    BY <1>1 DEF Load, LockHeld
  <2>3. LockHeld' BY <1>1, <2>1, <2>2 DEF Load, LockHeld, LoadTypes
  <2>4. BooksExact' BY <1>1, <2>1, <2>2 DEF Load, LockHeld, BooksExact
  <2>5. Unshared' BY <1>1, <2>1, <2>2 DEF Load, Unshared, LoadTypes
  <2>6. RunsLoaded' BY <1>1 DEF Load, RunsLoaded, LoadTypes
  <2>7. QED BY <2>1, <2>3, <2>4, <2>5, <2>6
<1>2. ASSUME NEW q \in Request, Attach(q)
      PROVE  LoadInv'
  BY <1>2 DEF Attach, LoadTypes, UnloaderTypes, LockHeld, BooksExact, Unshared, RunsLoaded
<1>3. ASSUME NEW q \in Request, Mark(q)
      PROVE  LoadInv'
  <2>1. /\ UnloaderTypes' /\ LoadTypes'
        /\ \A u \in Unloader : unloader'[u] = unloader[u] \/ unloader'[u].at = "free"
    <3>1. CASE attached BY <1>3, <3>1, HoldKeeps DEF Mark, LoadTypes
    <3>2. CASE ~attached BY <1>3, <3>2 DEF Mark, LoadTypes, UnloaderTypes
    <3>3. QED BY <3>1, <3>2
  <2>2. \A u \in Unloader : unloader[u].at \notin {"probing", "unloading"}
    BY <1>3 DEF Mark, LockHeld
  <2>3. LockHeld' BY <1>3, <2>1, <2>2 DEF Mark, LockHeld, LoadTypes
  <2>4. BooksExact' BY <1>3, <2>1, <2>2 DEF Mark, BooksExact
  <2>5. Unshared' BY <1>3, <2>1, <2>2 DEF Mark, Unshared, LoadTypes
  <2>6. RunsLoaded' BY <1>3 DEF Mark, RunsLoaded, LoadTypes
  <2>7. QED BY <2>1, <2>3, <2>4, <2>5, <2>6
<1>4. ASSUME NEW q \in Request, Resume(q)
      PROVE  LoadInv'
  BY <1>4 DEF Resume, LoadTypes, UnloaderTypes, LockHeld, BooksExact, Unshared, RunsLoaded
<1>5. ASSUME NEW q \in Request, Resumed(q)
      PROVE  LoadInv'
  <2>1. attachment = q /\ attachment' = Free
    BY <1>5 DEF Resumed, LockHeld
  <2>2. PICK success \in BOOLEAN :
          /\ native' \in IF success THEN {TRUE} ELSE {native, TRUE}
          /\ loaded' = (loaded \/ (success /\ attached))
          /\ request' = [request EXCEPT ![q] =
                           IF success /\ attached
                             THEN IF @ = "loading" THEN "attached" ELSE "running"
                             ELSE IF @ = "loading" THEN "over" ELSE "ending"]
    BY <1>5 DEF Resumed
  <2>3. \A u \in Unloader : unloader[u].at \notin {"probing", "unloading"}
    BY <2>1 DEF LockHeld
  <2>4. LoadTypes' BY <1>5, <2>2 DEF Resumed, LoadTypes, UnloaderTypes
  <2>5. LockHeld' BY <1>5, <2>1, <2>2, <2>3 DEF Resumed, LoadTypes, LockHeld
  <2>6. BooksExact' BY <1>5, <2>1, <2>2, <2>3 DEF Resumed, LockHeld, BooksExact
  <2>7. Unshared' BY <1>5, <2>2, <2>3 DEF Resumed, LoadTypes, Unshared
  <2>8. RunsLoaded'
    <3>1. native => native' BY <2>2
    <3>2. ASSUME NEW p \in Request, request'[p] = "running", p \notin cut'
          PROVE  native'
      <4>1. CASE p = q
        <5>1. success /\ attached BY <1>5, <2>2, <3>2, <4>1 DEF Resumed, LoadTypes
        <5>2. QED BY <2>2, <5>1
      <4>2. CASE p # q
        BY <1>5, <2>2, <3>1, <3>2, <4>2 DEF Resumed, LoadTypes, RunsLoaded
      <4>3. QED BY <4>1, <4>2
    <3>3. QED BY <3>2 DEF RunsLoaded
  <2>9. QED BY <2>4, <2>5, <2>6, <2>7, <2>8
<1>6. ASSUME NEW q \in Request, Answered(q)
      PROVE  LoadInv'
  BY <1>6 DEF Answered, LoadTypes, UnloaderTypes, LockHeld, BooksExact, Unshared, RunsLoaded
<1>7. ASSUME NEW q \in Request, MarkRequestIdle(q)
      PROVE  LoadInv'
  BY <1>7 DEF MarkRequestIdle, LoadTypes, UnloaderTypes, LockHeld, BooksExact, Unshared, RunsLoaded
<1>8. ASSUME NEW q \in Request, ScheduleUnload(q)
      PROVE  LoadInv'
  <2>1. CASE holders = {} /\ unload.tracked
    <3>1. PICK u \in Unloader :
            /\ unloader[u].at = "free"
            /\ unload' = [unload EXCEPT !.generation = @ + 1, !.fiber = u]
            /\ unloader' =
                 [v \in Unloader |->
                    IF v = u THEN [at |-> "sleeping", generation |-> unload.generation + 1]
                    ELSE IF v = unload.fiber THEN NoUnload ELSE unloader[v]]
            /\ attachment' = IF attachment = unload.fiber THEN Free ELSE attachment
      BY <1>8, <2>1 DEF ScheduleUnload
    <3>2. LoadTypes'
      <4>1. unload.generation + 1 \in Nat BY DEF LoadTypes
      <4>2. UnloaderTypes' BY <3>1, <4>1 DEF LoadTypes, UnloaderTypes, NoUnload
      <4>3. unload' \in [tracked : BOOLEAN, generation : Nat, fiber : Unloader \cup {Free}]
        BY <3>1, <4>1 DEF LoadTypes
      <4>4. QED BY <1>8, <4>2, <4>3 DEF ScheduleUnload, LoadTypes
    <3>3. \A v \in Unloader : unloader'[v].at \in {"probing", "unloading"} =>
                                unloader'[v] = unloader[v] /\ v # unload.fiber
      BY <3>1 DEF LoadTypes, UnloaderTypes, NoUnload
    <3>4. attachment' = attachment \/ attachment \in Unloader
      BY <3>1 DEF LoadTypes
    <3>5. LockHeld' BY <1>8, <3>1, <3>3, <3>4 DEF ScheduleUnload, LoadTypes, LockHeld
    <3>6. BooksExact' BY <1>8, <3>3 DEF ScheduleUnload, BooksExact
    <3>7. Unshared' BY <1>8, <3>3 DEF ScheduleUnload, LoadTypes, Unshared
    <3>8. RunsLoaded' BY <1>8 DEF ScheduleUnload, LoadTypes, RunsLoaded
    <3>9. QED BY <3>2, <3>5, <3>6, <3>7, <3>8
  <2>2. CASE ~(holders = {} /\ unload.tracked)
    BY <1>8, <2>2
    DEF ScheduleUnload, LoadTypes, UnloaderTypes, LockHeld, BooksExact, Unshared, RunsLoaded
  <2>3. QED BY <2>1, <2>2
<1>9. ASSUME NEW u \in Unloader, EnterUnload(u)
      PROVE  LoadInv'
  BY <1>9
  DEF EnterUnload, LoadTypes, UnloaderTypes, NoUnload, LockHeld, BooksExact, Unshared,
      RunsLoaded
<1>10. ASSUME NEW u \in Unloader, DeferUnload(u)
       PROVE  LoadInv'
  BY <1>10
  DEF DeferUnload, LoadTypes, UnloaderTypes, LockHeld, BooksExact, Unshared, RunsLoaded
<1>11. ASSUME NEW u \in Unloader, BeginUnload(u)
       PROVE  LoadInv'
  <2>1. UNCHANGED <<attached, native, holders, request, detacher, detaches, cut>>
    BY <1>11 DEF BeginUnload
  <2>2. attachment = u BY <1>11 DEF BeginUnload, LockHeld
  <2>3. CASE Current(u)
    <3>1. /\ loaded' = FALSE
          /\ unload' = NotPending
          /\ unloader' = [unloader EXCEPT ![u].at = "unloading"]
          /\ attachment' = attachment
      BY <1>11, <2>3 DEF BeginUnload
    <3>2. LoadTypes'
      BY <2>1, <3>1 DEF LoadTypes, UnloaderTypes, NotPending
    <3>3. LockHeld' BY <2>1, <2>2, <3>1 DEF LoadTypes, UnloaderTypes, LockHeld
    <3>4. BooksExact' BY <2>1, <3>1 DEF BooksExact
    <3>5. Unshared' BY <1>11, <2>1, <3>1 DEF BeginUnload, LoadTypes, UnloaderTypes, Unshared
    <3>6. RunsLoaded' BY <2>1 DEF RunsLoaded
    <3>7. QED BY <3>2, <3>3, <3>4, <3>5, <3>6
  <2>4. CASE ~Current(u)
    <3>1. /\ unloader' = [unloader EXCEPT ![u] = NoUnload]
          /\ attachment' = Free
          /\ UNCHANGED <<loaded, unload>>
      BY <1>11, <2>4 DEF BeginUnload
    <3>2. LoadTypes' BY <2>1, <3>1 DEF LoadTypes, UnloaderTypes, NoUnload
    <3>3. LockHeld' BY <2>1, <2>2, <3>1 DEF LoadTypes, UnloaderTypes, NoUnload, LockHeld
    <3>4. BooksExact' BY <2>1, <3>1 DEF LoadTypes, UnloaderTypes, NoUnload, BooksExact
    <3>5. Unshared' BY <2>1, <3>1 DEF LoadTypes, UnloaderTypes, NoUnload, Unshared
    <3>6. RunsLoaded' BY <2>1 DEF RunsLoaded
    <3>7. QED BY <3>2, <3>3, <3>4, <3>5, <3>6
  <2>5. QED BY <2>3, <2>4
<1>12. ASSUME NEW u \in Unloader, Unloaded(u)
       PROVE  LoadInv'
  <2>1. attachment = u /\ attachment' = Free /\ holders = {} /\ ~loaded
    BY <1>12 DEF Unloaded, LockHeld, Unshared, BooksExact
  <2>2. \A q \in Request : request[q] # "running"
    BY <2>1 DEF Unshared
  <2>3. LoadTypes' BY <1>12 DEF Unloaded, LoadTypes, UnloaderTypes, NoUnload
  <2>4. LockHeld' BY <1>12, <2>1 DEF Unloaded, LoadTypes, UnloaderTypes, NoUnload, LockHeld
  <2>5. BooksExact' BY <1>12, <2>1 DEF Unloaded, LoadTypes, UnloaderTypes, NoUnload, BooksExact
  <2>6. Unshared' BY <1>12, <2>1 DEF Unloaded, LoadTypes, UnloaderTypes, NoUnload, Unshared
  <2>7. RunsLoaded' BY <1>12, <2>2 DEF Unloaded, RunsLoaded
  <2>8. QED BY <2>3, <2>4, <2>5, <2>6, <2>7
<1>13. ASSUME Detach
       PROVE  LoadInv'
  <2>1. LoadTypes' BY <1>13 DEF Detach, LoadTypes, UnloaderTypes, NoUnload, NotPending
  <2>2. \A v \in Unloader : unloader'[v].at \in {"probing", "unloading"} =>
                              unloader'[v] = unloader[v] /\ v # unload.fiber
    BY <1>13 DEF Detach, LoadTypes, UnloaderTypes, NoUnload
  <2>3. attachment' = attachment \/ attachment \in Unloader
    BY <1>13 DEF Detach, LoadTypes
  <2>4. LockHeld' BY <1>13, <2>2, <2>3 DEF Detach, LockHeld
  <2>5. BooksExact' BY <1>13, <2>2 DEF Detach, BooksExact
  <2>6. Unshared' BY <1>13, <2>2 DEF Detach, Unshared
  <2>7. RunsLoaded' BY <1>13 DEF Detach, RunsLoaded
  <2>8. QED BY <2>1, <2>4, <2>5, <2>6, <2>7
<1>14. ASSUME DetachUnload
       PROVE  LoadInv'
  BY <1>14
  DEF DetachUnload, LoadTypes, UnloaderTypes, LockHeld, BooksExact, Unshared, RunsLoaded
<1>15. ASSUME DetachEnds
       PROVE  LoadInv'
  <2>1. attachment = Detacher /\ ~attached /\ ~loaded
    BY <1>15 DEF DetachEnds, LockHeld, BooksExact
  <2>2. \A q \in Request : request[q] = "running" => q \in cut
    BY <2>1 DEF Unshared
  <2>3. LoadTypes' /\ LockHeld' BY <1>15, <2>1 DEF DetachEnds, LoadTypes, UnloaderTypes, LockHeld
  <2>4. BooksExact' BY <1>15, <2>1 DEF DetachEnds, BooksExact
  <2>5. Unshared' BY <1>15 DEF DetachEnds, Unshared
  <2>6. RunsLoaded' BY <1>15, <2>2 DEF DetachEnds, RunsLoaded
  <2>7. QED BY <2>3, <2>4, <2>5, <2>6
<1>16. ASSUME ThreadErrs
       PROVE  LoadInv'
  BY <1>16
  DEF ThreadErrs, LoadTypes, UnloaderTypes, LockHeld, BooksExact, Unshared, RunsLoaded
<1>17. ASSUME UNCHANGED loadVars
       PROVE  LoadInv'
  BY <1>17
  DEF loadVars, LoadTypes, UnloaderTypes, LockHeld, BooksExact, Unshared, RunsLoaded
<1>18. QED
  BY <1>1, <1>2, <1>3, <1>4, <1>5, <1>6, <1>7, <1>8, <1>9, <1>10, <1>11, <1>12, <1>13,
     <1>14, <1>15, <1>16, <1>17
  DEF LoadingNext

(* Whoever changes or notes what is loaded has the attachment lock, an     *)
(* unload finds nobody at work, and an unattached thread only runs what    *)
(* its detach came upon, for any requests, timers and detaches             *)
(* (ProviderSessionManager.ts:1591, 1735, 2603).                           *)
THEOREM LoadingInvariant ==
  ASSUME HoldersDistinct
  PROVE  LoadingSpec => []LoadInv
<1>1. LoadingInit => LoadInv BY LoadInit
<1>2. LoadInv /\ [LoadingNext]_loadVars => LoadInv' BY LoadStep
<1>3. QED BY <1>1, <1>2, PTL DEF LoadingSpec

(* A turn or an app request that went on to the provider finds its thread  *)
(* loaded there unless a detach came upon it, for any requests, timers and *)
(* detaches (ProviderSessionManager.ts:1591, 2603).                        *)
THEOREM RunsAreLoaded ==
  ASSUME HoldersDistinct
  PROVE  LoadingSpec => []RunsLoaded
<1>1. LoadInv => RunsLoaded BY DEF LoadInv
<1>2. QED BY <1>1, LoadingInvariant, PTL
=============================================================================

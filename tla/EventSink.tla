----------------------------- MODULE EventSink ------------------------------
(***************************************************************************)
(* The committed event log of orchestration-v2 and the streams that follow *)
(* it.                                                                     *)
(*                                                                         *)
(* A writer commits its events in one SQLite transaction and then          *)
(* publishes them in memory, holding a lane from just before the commit to *)
(* the end of the publication (EventSink.ts, commitThenPublish).  A        *)
(* subscriber attaches to the publications, reads how far the log goes,    *)
(* replays the log up to there and continues with what was published       *)
(* meanwhile (EventSink.ts, stream; LiveStreamBudget.ts).  Streams sent to *)
(* clients are drained into a buffer of limited size and fail when it is   *)
(* full; the client then resumes after the last event it received.         *)
(***************************************************************************)
EXTENDS Integers, Sequences, FiniteSets

CONSTANTS
  Writer,        (* fibers that commit through the sink                    *)
  Reader,        (* subscribers                                            *)
  Bounded,       (* the subscribers with a LiveStreamBudget                *)
  AgentReader,   (* those of EventSink.stream: agent events only           *)
  Audience,      (* which subscribers there may be                         *)
  Topic,         (* what an event is about: a thread, or "project"         *)
  Wants,         (* the topics each subscriber's filter lets through       *)
  MaxItems,      (* maxItems of the budget                                 *)
  PageSize,      (* pageSize of catchUp                                    *)
  MaxBatch,      (* bound: events of one transaction                       *)
  MaxEvents,     (* bound: events of the log                               *)
  MaxFaults,     (* bound: crashes, lost connections and failed commits    *)
  NoWriter       (* not a writer                                           *)

ASSUME ConstantsAssumption ==
  /\ Bounded \subseteq Reader
  /\ AgentReader \subseteq Reader
  /\ Audience \subseteq SUBSET Reader
  /\ Wants \in [Reader -> SUBSET Topic]
  /\ {MaxItems, PageSize, MaxBatch} \subseteq Nat \ {0}
  /\ MaxEvents \in Nat /\ MaxFaults \in Nat
  /\ NoWriter \notin Writer

VARIABLES
  log,           (* topics of the committed events, by sequence number     *)
  connection,    (* the writer whose transaction holds the connection      *)
  lane,          (* the writer holding publishLane                         *)
  wpc,           (* where each writer is in commitThenPublish              *)
  batch,         (* sequence numbers committed and not published by all    *)
  phase,         (* the state of each subscription                         *)
  inbox,         (* PubSub subscription: published and not taken           *)
  queue,         (* queue of retainLiveStream                              *)
  charged,       (* items retained by the budget                           *)
  through,       (* throughSequence                                        *)
  pos,           (* how far the replay has come                            *)
  inflight,      (* handed to the subscriber, not acknowledged             *)
  cursor,        (* the subscriber's last applied sequence number          *)
  seen,          (* history: the sequence numbers it applied               *)
  faults,        (* faults so far                                          *)
  present        (* the subscribers of this behaviour                      *)

writerVars == <<log, connection, lane, wpc, batch>>
streamVars == <<phase, queue, charged, through, pos, inflight>>
clientVars == <<cursor, seen>>
vars == <<writerVars, streamVars, inbox, clientVars, faults, present>>

WriterPC == {"idle", "transaction", "waiting", "sealed", "committed", "announced"}
Phase == {"off", "subscribed", "replaying", "live", "failed"}

(* Faulty: subscribed only when the replay is over.                        *)
AttachedLate == {"live"}

Attached == {"subscribed", "replaying", "live"}
Sequence == 1..MaxEvents

TypeOK ==
  /\ log \in Seq(Topic) /\ Len(log) <= MaxEvents
  /\ connection \in Writer \cup {NoWriter}
  /\ lane \in Writer \cup {NoWriter}
  /\ wpc \in [Writer -> WriterPC]
  /\ batch \in [Writer -> Seq(Sequence)]
  /\ phase \in [Reader -> Phase]
  /\ inbox \in [Reader -> Seq(Sequence)]
  /\ queue \in [Reader -> Seq(Sequence)]
  /\ charged \in [Reader -> Nat]
  /\ through \in [Reader -> 0..MaxEvents]
  /\ pos \in [Reader -> 0..MaxEvents]
  /\ inflight \in [Reader -> Seq(Sequence)]
  /\ cursor \in [Reader -> 0..MaxEvents]
  /\ seen \in [Reader -> SUBSET Sequence]
  /\ faults \in 0..MaxFaults
  /\ present \in Audience

Init ==
  /\ log = <<>>
  /\ connection = NoWriter
  /\ lane = NoWriter
  /\ wpc = [w \in Writer |-> "idle"]
  /\ batch = [w \in Writer |-> <<>>]
  /\ phase = [r \in Reader |-> "off"]
  /\ inbox = [r \in Reader |-> <<>>]
  /\ queue = [r \in Reader |-> <<>>]
  /\ charged = [r \in Reader |-> 0]
  /\ through = [r \in Reader |-> 0]
  /\ pos = [r \in Reader |-> 0]
  /\ inflight = [r \in Reader |-> <<>>]
  /\ cursor = [r \in Reader |-> 0]
  /\ seen = [r \in Reader |-> {}]
  /\ faults = 0
  /\ present \in Audience

Fault == faults < MaxFaults /\ faults' = faults + 1 /\ UNCHANGED present

-----------------------------------------------------------------------------
(* commitThenPublish.                                                      *)

(* The connection has one transaction at a time; BEGIN IMMEDIATE. None is  *)
(* begun when the log has its bound.                                       *)
BeginTransaction(w) ==
  /\ wpc[w] = "idle"
  /\ Len(log) < MaxEvents
  /\ connection = NoWriter
  /\ connection' = w
  /\ wpc' = [wpc EXCEPT ![w] = "transaction"]
  /\ UNCHANGED <<log, lane, batch, streamVars, inbox, clientVars, faults, present>>

(* The body fails or is interrupted; a check in it may also find that      *)
(* there is nothing to write, which Commit covers with an empty batch.     *)
Rollback(w) ==
  /\ wpc[w] = "transaction"
  /\ connection' = NoWriter
  /\ wpc' = [wpc EXCEPT ![w] = "idle"]
  /\ UNCHANGED <<log, lane, batch, streamVars, inbox, clientVars, faults, present>>

(* From here on the writer is uninterruptible.                             *)
EndBody(w) ==
  /\ wpc[w] = "transaction"
  /\ wpc' = [wpc EXCEPT ![w] = "waiting"]
  /\ UNCHANGED <<log, connection, lane, batch, streamVars, inbox, clientVars, faults, present>>

(* Faulty: publication is not serialised with the commit.                  *)
TakeNoLane(w) ==
  /\ wpc[w] = "waiting"
  /\ wpc' = [wpc EXCEPT ![w] = "sealed"]
  /\ UNCHANGED <<log, connection, lane, batch, streamVars, inbox, clientVars, faults, present>>

(* The last thing inside the transaction, the connection still held.       *)
TakeLane(w) ==
  /\ wpc[w] = "waiting"
  /\ lane = NoWriter
  /\ lane' = w
  /\ wpc' = [wpc EXCEPT ![w] = "sealed"]
  /\ UNCHANGED <<log, connection, batch, streamVars, inbox, clientVars, faults, present>>

CommitFails(w) ==
  /\ wpc[w] = "sealed"
  /\ Fault
  /\ connection' = NoWriter
  /\ lane' = NoWriter
  /\ wpc' = [wpc EXCEPT ![w] = "idle"]
  /\ UNCHANGED <<log, batch, streamVars, inbox, clientVars>>

(* AUTOINCREMENT numbers the events in the order of the transactions.      *)
Commit(w) ==
  /\ wpc[w] = "sealed"
  /\ \E n \in 0..MaxBatch : \E topics \in [1..n -> Topic] :
       /\ Len(log) + n <= MaxEvents
       /\ log' = log \o topics
       /\ batch' = [batch EXCEPT ![w] = [i \in 1..n |-> Len(log) + i]]
  /\ connection' = NoWriter
  /\ wpc' = [wpc EXCEPT ![w] = "committed"]
  /\ UNCHANGED <<lane, streamVars, inbox, clientVars, faults, present>>

(* The numbers of a set in ascending order.                                *)
InOrder(numbers) ==
  [k \in 1..Cardinality(numbers) |->
     CHOOSE n \in numbers : Cardinality({m \in numbers : m <= n}) = k]

(* The elements of a sequence that are in a set, in the order they have    *)
(* there: SelectSeq, by counting.                                          *)
Only(events, numbers) ==
  LET kept == InOrder({i \in DOMAIN events : events[i] \in numbers})
  IN  [k \in DOMAIN kept |-> events[kept[k]]]

PublishTo(readers, events) ==
  inbox' = [r \in Reader |-> IF r \in readers /\ phase[r] \in Attached
                             THEN inbox[r] \o events ELSE inbox[r]]

AgentEvents(events) == Only(events, {n \in 1..Len(log) : log[n] # "project"})

(* Faulty: run outcomes read a row while the lane is held.                 *)
PublishAfterRead(w) ==
  /\ wpc[w] = "committed"
  /\ connection = NoWriter
  /\ PublishTo(Reader \ AgentReader, batch[w])
  /\ wpc' = [wpc EXCEPT ![w] = "announced"]
  /\ UNCHANGED <<log, connection, lane, batch, streamVars, clientVars, faults, present>>

(* eventStore.publishCommitted, to the streams of all application events.  *)
PublishCommitted(w) ==
  /\ wpc[w] = "committed"
  /\ PublishTo(Reader \ AgentReader, batch[w])
  /\ wpc' = [wpc EXCEPT ![w] = "announced"]
  /\ UNCHANGED <<log, connection, lane, batch, streamVars, clientVars, faults, present>>

(* publishLiveEvents, to the streams of agent events; the lane is free.    *)
PublishLiveEvents(w) ==
  /\ wpc[w] = "announced"
  /\ PublishTo(AgentReader, AgentEvents(batch[w]))
  /\ lane' = NoWriter
  /\ wpc' = [wpc EXCEPT ![w] = "idle"]
  /\ batch' = [batch EXCEPT ![w] = <<>>]
  /\ UNCHANGED <<log, connection, streamVars, clientVars, faults, present>>

-----------------------------------------------------------------------------
(* One subscription.                                                       *)

Larger(a, b) == IF a > b THEN a ELSE b

WantsTopic(r, topic) ==
  /\ topic \in Wants[r]
  /\ r \in AgentReader => topic # "project"

(* Faulty: a stream that failed is not opened again.                       *)
SubscribeOnce(r) ==
  /\ r \in present
  /\ phase[r] = "off"
  /\ phase' = [phase EXCEPT ![r] = "subscribed"]
  /\ through' = [through EXCEPT ![r] = cursor[r]]
  /\ pos' = [pos EXCEPT ![r] = cursor[r]]
  /\ UNCHANGED <<writerVars, inbox, queue, charged, inflight, clientVars, faults, present>>

(* PubSub.subscribe comes first; the drain of a bounded stream starts here *)
(* too.  A client that lost its stream resumes after its last event.       *)
Subscribe(r) ==
  /\ r \in present
  /\ phase[r] \in {"off", "failed"}
  /\ phase' = [phase EXCEPT ![r] = "subscribed"]
  /\ inbox' = [inbox EXCEPT ![r] = <<>>]
  /\ queue' = [queue EXCEPT ![r] = <<>>]
  /\ charged' = [charged EXCEPT ![r] = 0]
  /\ inflight' = [inflight EXCEPT ![r] = <<>>]
  /\ through' = [through EXCEPT ![r] = cursor[r]]
  /\ pos' = [pos EXCEPT ![r] = cursor[r]]
  /\ UNCHANGED <<writerVars, clientVars, faults, present>>

Latest(r) ==
  LET numbers == {0} \cup {n \in 1..Len(log) : r \in AgentReader => log[n] # "project"}
  IN  CHOOSE n \in numbers : \A m \in numbers : m <= n

ReadHighWater(r) ==
  /\ phase[r] = "subscribed"
  /\ phase' = [phase EXCEPT ![r] = "replaying"]
  /\ through' = [through EXCEPT ![r] = Larger(Latest(r), pos[r])]
  /\ UNCHANGED <<writerVars, inbox, queue, charged, pos, inflight, clientVars, faults, present>>

ToReplay(r) == InOrder({n \in (pos[r] + 1)..through[r] : WantsTopic(r, log[n])})

(* Pages come from the database; a bounded stream hands on single events.  *)
Page(r) ==
  LET size == IF r \in Bounded THEN 1 ELSE PageSize
  IN  SubSeq(ToReplay(r), 1, IF Len(ToReplay(r)) < size THEN Len(ToReplay(r)) ELSE size)

(* retain finds the budget used up: the stream fails for good.  What is on *)
(* its way to the subscriber stays charged, the rest is released.          *)
Overflow(r) ==
  /\ charged[r] >= MaxItems
  /\ phase' = [phase EXCEPT ![r] = "failed"]
  /\ inbox' = [inbox EXCEPT ![r] = <<>>]
  /\ queue' = [queue EXCEPT ![r] = <<>>]
  /\ charged' = [charged EXCEPT ![r] = Len(inflight[r])]
  /\ UNCHANGED <<writerVars, through, pos, inflight, clientVars, faults, present>>

(* The subscriber has acknowledged everything and asks for more.           *)
Pulling(r) == inflight[r] = <<>>

HandOver(r, events) == inflight' = [inflight EXCEPT ![r] = events]

ReplayPage(r) ==
  /\ phase[r] = "replaying"
  /\ Pulling(r)
  /\ ToReplay(r) # <<>>
  /\ r \in Bounded => charged[r] < MaxItems
  /\ HandOver(r, Page(r))
  /\ pos' = [pos EXCEPT ![r] = Page(r)[Len(Page(r))]]
  /\ charged' = [charged EXCEPT ![r] = IF r \in Bounded THEN @ + 1 ELSE @]
  /\ UNCHANGED <<writerVars, phase, inbox, queue, through, clientVars, faults, present>>

ReplayOverflow(r) ==
  /\ phase[r] = "replaying" /\ r \in Bounded
  /\ Pulling(r)
  /\ ToReplay(r) # <<>>
  /\ Overflow(r)

EndReplay(r) ==
  /\ phase[r] = "replaying"
  /\ Pulling(r)
  /\ ToReplay(r) = <<>>
  /\ phase' = [phase EXCEPT ![r] = "live"]
  /\ UNCHANGED <<writerVars, inbox, queue, charged, through, pos, inflight, clientVars, faults, present>>

(* Faulty: events the replay has delivered come again.                     *)
IsLiveAgain(r, n) == WantsTopic(r, log[n])

(* Live events the replay has not covered.                                 *)
IsLive(r, n) == n > through[r] /\ WantsTopic(r, log[n])

Live(r, events) == Only(events, {n \in 1..Len(log) : IsLive(r, n)})

(* The drain of a bounded stream takes one published event at a time, from *)
(* the moment of the subscription on.                                      *)
Drain(r) ==
  /\ r \in Bounded /\ phase[r] \in Attached
  /\ inbox[r] # <<>>
  /\ inbox' = [inbox EXCEPT ![r] = Tail(@)]
  /\ IF IsLive(r, Head(inbox[r]))
     THEN /\ charged[r] < MaxItems
          /\ queue' = [queue EXCEPT ![r] = Append(@, Head(inbox[r]))]
          /\ charged' = [charged EXCEPT ![r] = @ + 1]
     ELSE UNCHANGED <<queue, charged>>
  /\ UNCHANGED <<writerVars, phase, through, pos, inflight, clientVars, faults, present>>

DrainOverflow(r) ==
  /\ r \in Bounded /\ phase[r] \in Attached
  /\ inbox[r] # <<>>
  /\ IsLive(r, Head(inbox[r]))
  /\ Overflow(r)

(* Faulty: queued events the replay has covered stay charged.              *)
TakeQueueUnreleased(r) ==
  /\ r \in Bounded /\ phase[r] = "live"
  /\ Pulling(r)
  /\ queue[r] # <<>>
  /\ HandOver(r, Live(r, queue[r]))
  /\ queue' = [queue EXCEPT ![r] = <<>>]
  /\ UNCHANGED <<writerVars, phase, inbox, charged, through, pos, clientVars, faults, present>>

(* Everything queued is handed over, less what the replay covered after    *)
(* all: the drain began before the high-water mark was known.              *)
TakeQueue(r) ==
  /\ r \in Bounded /\ phase[r] = "live"
  /\ Pulling(r)
  /\ queue[r] # <<>>
  /\ LET fresh == Live(r, queue[r])
     IN  /\ HandOver(r, fresh)
         /\ charged' = [charged EXCEPT ![r] = @ - (Len(queue[r]) - Len(fresh))]
  /\ queue' = [queue EXCEPT ![r] = <<>>]
  /\ UNCHANGED <<writerVars, phase, inbox, through, pos, clientVars, faults, present>>

(* An unbounded stream reads its subscription directly.                    *)
TakeInbox(r) ==
  /\ r \notin Bounded /\ phase[r] = "live"
  /\ Pulling(r)
  /\ inbox[r] # <<>>
  /\ HandOver(r, Live(r, inbox[r]))
  /\ inbox' = [inbox EXCEPT ![r] = <<>>]
  /\ UNCHANGED <<writerVars, phase, queue, charged, through, pos, clientVars, faults, present>>

(* The subscriber applies a batch, dropping every event that is not newer  *)
(* than the last one, and acknowledges it; the charge ends with that.      *)
Receive(r) ==
  /\ inflight[r] # <<>>
  /\ LET events == inflight[r]
         newest(i) == \A n \in {cursor[r]} \cup {events[j] : j \in 1..(i - 1)} : n < events[i]
         applied == {events[i] : i \in {i \in DOMAIN events : newest(i)}}
     IN  /\ seen' = [seen EXCEPT ![r] = @ \cup applied]
         /\ cursor' = [cursor EXCEPT ![r] = CHOOSE n \in {@} \cup applied :
                                              \A m \in {@} \cup applied : m <= n]
  /\ charged' = [charged EXCEPT ![r] = IF r \in Bounded THEN @ - Len(inflight[r]) ELSE @]
  /\ inflight' = [inflight EXCEPT ![r] = <<>>]
  /\ UNCHANGED <<writerVars, phase, inbox, queue, through, pos, faults, present>>

(* The scopes of these subscriptions close; what was on its way is lost.   *)
Detach(readers) ==
  /\ phase' = [r \in Reader |-> IF r \in readers THEN "off" ELSE phase[r]]
  /\ inbox' = [r \in Reader |-> IF r \in readers THEN <<>> ELSE inbox[r]]
  /\ queue' = [r \in Reader |-> IF r \in readers THEN <<>> ELSE queue[r]]
  /\ inflight' = [r \in Reader |-> IF r \in readers THEN <<>> ELSE inflight[r]]
  /\ charged' = [r \in Reader |-> IF r \in readers THEN 0 ELSE charged[r]]
  /\ UNCHANGED <<through, pos>>

Disconnect(r) ==
  /\ phase[r] # "off"
  /\ Fault
  /\ Detach({r})
  /\ UNCHANGED <<writerVars, clientVars>>

(* The server is lost: SQLite keeps what was committed, published or not.  *)
Crash ==
  /\ Fault
  /\ connection' = NoWriter
  /\ lane' = NoWriter
  /\ wpc' = [w \in Writer |-> "idle"]
  /\ batch' = [w \in Writer |-> <<>>]
  /\ Detach(Reader)
  /\ UNCHANGED <<log, clientVars>>

-----------------------------------------------------------------------------
WriterStep(w) ==
  \/ BeginTransaction(w) \/ Rollback(w) \/ EndBody(w) \/ TakeLane(w)
  \/ Commit(w) \/ CommitFails(w) \/ PublishCommitted(w) \/ PublishLiveEvents(w)

Follow(r) ==
  \/ Subscribe(r) \/ ReadHighWater(r) \/ ReplayPage(r) \/ ReplayOverflow(r) \/ EndReplay(r)
  \/ Drain(r) \/ DrainOverflow(r) \/ TakeQueue(r) \/ TakeInbox(r) \/ Receive(r)

Next ==
  \/ \E w \in Writer : WriterStep(w)
  \/ \E r \in Reader : Follow(r) \/ Disconnect(r)
  \/ Crash

Spec == Init /\ [][Next]_vars

(* Statements return and fibers are scheduled: from the moment it waits    *)
(* for the lane a writer is uninterruptible.  The semaphore of the lane    *)
(* needs no order, for only the holder of the connection waits for it.     *)
WriterFairness ==
  \A w \in Writer : /\ WF_vars(Rollback(w) \/ EndBody(w))
                    /\ WF_vars(TakeLane(w))
                    /\ WF_vars(Commit(w) \/ CommitFails(w))
                    /\ WF_vars(PublishCommitted(w) \/ PublishLiveEvents(w))

(* Clients come back after an error, read what arrives and acknowledge it. *)
ReaderFairness == \A r \in Reader : WF_vars(Follow(r))

(* Clients owe nothing.                                                    *)
FairSpec == Spec /\ WriterFairness

-----------------------------------------------------------------------------
(* Properties.                                                             *)

Wanted(r, n) == WantsTopic(r, log[n])

(* A subscriber has seen every committed event of its filter up to its     *)
(* last one: whatever was committed while it subscribed, replayed, lost    *)
(* its connection or was thrown out of a full buffer, nothing is skipped   *)
(* (EventSink.ts:256, "reordered publication makes clients drop earlier    *)
(* sequences").                                                            *)
NoEventSkipped ==
  \A r \in Reader : seen[r] = {n \in 1..cursor[r] : Wanted(r, n)}

(* What a stream hands over is new to the subscriber and in order, so that *)
(* the in-process subscribers, which do not drop repeated events, are      *)
(* right not to (EventSink.ts:868).                                        *)
StreamsAscend ==
  \A r \in Reader : \A i \in DOMAIN inflight[r] :
    inflight[r][i] > IF i = 1 THEN cursor[r] ELSE inflight[r][i - 1]

(* The budget charges exactly the items a stream still holds, and never    *)
(* more than its limit: no path forgets to release what it drops           *)
(* (LiveStreamBudget.ts:62).                                               *)
BudgetExact ==
  \A r \in Bounded : /\ charged[r] = Len(queue[r]) + Len(inflight[r])
                     /\ charged[r] <= MaxItems

(* Committed events are announced, though the writer that announces them   *)
(* holds the lane the next transaction waits for with the connection in    *)
(* its hands, and though clients may never read (RunMetrics.ts:44).        *)
PublicationCompletes ==
  \A w \in Writer : wpc[w] \in {"waiting", "committed"} ~> wpc[w] = "idle"

(* A subscriber that keeps reading sees every committed event in the end.  *)
EventuallySeen ==
  ReaderFairness =>
    \A r \in Reader : \A n \in Sequence :
      (r \in present /\ n <= Len(log) /\ Wanted(r, n)) ~> n \in seen[r]

(* The sink implements the feed of EventFeed.                              *)
Feed == INSTANCE EventFeed WITH Wanted <- WantsTopic

(* Every subscriber follows one growing log, whatever it goes through      *)
(* (EventSink.ts:832).                                                     *)
ImplementsFeed == Feed!Spec
=============================================================================

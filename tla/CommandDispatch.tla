--------------------------- MODULE CommandDispatch --------------------------
(***************************************************************************)
(* How the orchestrator answers commands: the locks of the threads a       *)
(* command touches, the receipt that makes a repeated command id harmless, *)
(* the plan made from the current projection, the transaction that commits *)
(* it, and the work that follows (Orchestrator.ts, dispatchWithReceipt and *)
(* dispatchWithReceiptEffect; EventSink.ts, commitCommand).                *)
(*                                                                         *)
(* Clients repeat a command they have no answer to, on the same connection *)
(* or after a restart of the server.                                       *)
(***************************************************************************)
EXTENDS Integers, Sequences, FiniteSets

CONSTANTS
  Dispatcher,       (* fibers, one for each command being handled          *)
  Thread,           (* conversation threads                                *)
  CommandId,        (* ids chosen by the clients                           *)
  Request,          (* the commands that are sent, see RequestType         *)
  Parent,           (* the thread that runs a thread as its subagent       *)
  InitialThreads,   (* the threads that exist from the start               *)
  SideChats,        (* those of them that are side chats, and of which     *)
  MaxDispatches,    (* bound: commands handled                             *)
  MaxFaults,        (* bound: crashes and failed SQL statements            *)
  NoThread,         (* not a thread                                        *)
  NoRequest         (* not a request                                       *)

(* "fork" opens a side chat of source; "delete" deletes a thread with its  *)
(* side chats; "promote" makes a side chat a thread of its own; "message"  *)
(* may start work of a subagent's parent; "settle" may find nothing to do; *)
(* "resume" starts the next queued run; "branch" forks source as a thread  *)
(* of its own, "merge" brings the work of source back into the thread it   *)
(* was forked from; "update" stands for the others, and any of them may    *)
(* read a source besides its thread.                                       *)
(* "finish" is no command: it is one section of handleRunUpdate.           *)
RequestType == {"create", "fork", "branch", "merge", "delete", "promote", "message", "settle",
                "resume", "update", "finish"}

ASSUME ConstantsAssumption ==
  /\ Request \subseteq [id : CommandId, type : RequestType, thread : Thread,
                        source : Thread \cup {NoThread}]
  /\ \A q \in Request : q.type \in {"fork", "branch", "merge"} => q.source \in Thread
  /\ Parent \in [Thread -> Thread \cup {NoThread}]
  /\ InitialThreads \subseteq Thread
  /\ SideChats \in [Thread -> Thread \cup {NoThread}]
  /\ MaxDispatches \in Nat /\ MaxFaults \in Nat
  /\ IsFiniteSet(Thread)
  /\ NoThread \notin Thread /\ NoRequest \notin Request

VARIABLES
  life,         (* whether each thread exists                              *)
  sideOf,       (* the thread a side chat belongs to, NoThread for others  *)
  receipts,     (* the receipt of each command id                          *)
  log,          (* committed command events: id and thread                 *)
  started,      (* commands after which the queue was started              *)
  pc,           (* where each dispatcher is                                *)
  request,      (* the command it handles                                  *)
  path,         (* the thread locks it takes, in order                     *)
  locked,       (* how many of them it holds                               *)
  plan,         (* what it decided to commit                               *)
  answer,       (* the answer it is about to give                          *)
  moved,        (* history: the threads of its plan that changed since     *)
  answers,      (* history: the answers given                              *)
  dispatches,   (* commands handled so far                                 *)
  faults        (* faults so far                                           *)

storeVars == <<life, sideOf, receipts, log, started>>
fiberVars == <<pc, request, path, locked, plan, answer>>
vars == <<storeVars, fiberVars, moved, answers, dispatches, faults>>

Life == {"none", "live", "deleted"}
Plan == {"none", "events", "empty", "reject"}
PC == {"idle", "locking", "receipt", "planning", "planned", "following", "answering"}

NoReceipt == [status |-> "absent", thread |-> NoThread, sequence |-> 0]
Receipt == [status : {"accepted", "rejected"}, thread : Thread, sequence : Nat]

NoAnswer == [status |-> "none", sequence |-> 0]
Answer == [status : {"none", "accepted", "rejected", "conflict", "refused", "failed"},
           sequence : Nat]

TypeOK ==
  /\ life \in [Thread -> Life]
  /\ sideOf \in [Thread -> Thread \cup {NoThread}]
  /\ receipts \in [CommandId -> Receipt \cup {NoReceipt}]
  /\ log \in Seq([id : CommandId, thread : Thread])
  /\ started \subseteq CommandId
  /\ pc \in [Dispatcher -> PC]
  /\ request \in [Dispatcher -> Request \cup {NoRequest}]
  /\ path \in [Dispatcher -> Seq(Thread)]
  /\ locked \in [Dispatcher -> Nat]
  /\ plan \in [Dispatcher -> Plan]
  /\ answer \in [Dispatcher -> Answer]
  /\ moved \in [Dispatcher -> SUBSET Thread]
  /\ answers \subseteq [request : Request, answer : Answer]
  /\ dispatches \in 0..MaxDispatches
  /\ faults \in 0..MaxFaults

Init ==
  /\ life = [t \in Thread |-> IF t \in InitialThreads THEN "live" ELSE "none"]
  /\ sideOf = SideChats
  /\ receipts = [c \in CommandId |-> NoReceipt]
  /\ log = <<>>
  /\ started = {}
  /\ pc = [d \in Dispatcher |-> "idle"]
  /\ request = [d \in Dispatcher |-> NoRequest]
  /\ path = [d \in Dispatcher |-> <<>>]
  /\ locked = [d \in Dispatcher |-> 0]
  /\ plan = [d \in Dispatcher |-> "none"]
  /\ answer = [d \in Dispatcher |-> NoAnswer]
  /\ moved = [d \in Dispatcher |-> {}]
  /\ answers = {}
  /\ dispatches = 0
  /\ faults = 0

Goto(d, to) == pc' = [pc EXCEPT ![d] = to]

AnswerWith(d, status, sequence) ==
  /\ answer' = [answer EXCEPT ![d] = [status |-> status, sequence |-> sequence]]
  /\ Goto(d, "answering")

Fault == faults < MaxFaults /\ faults' = faults + 1

-----------------------------------------------------------------------------
(* dispatchWithReceipt: the locks.                                         *)

Live(t) == life[t] = "live"
IsSideChat(t) == sideOf[t] # NoThread
LiveSideChats(t) == {s \in Thread : sideOf[s] = t /\ Live(s)}

(* Faulty: the run of a subagent ends under its own lock and its parent's. *)
FirstLocksNested(q) ==
  CASE q.type = "message" /\ Parent[q.thread] # NoThread -> <<Parent[q.thread], q.thread>>
    [] q.type = "finish" /\ Parent[q.thread] # NoThread  -> <<q.thread, Parent[q.thread]>>
    [] OTHER -> <<q.thread>>

(* Faulty: a fork takes the lock of the new thread only.                   *)
FirstLocksOfTarget(q) ==
  IF q.type = "message" /\ Parent[q.thread] # NoThread
  THEN <<Parent[q.thread], q.thread>> ELSE <<q.thread>>

(* Faulty: a message to a subagent takes the lock of the subagent only.    *)
FirstLocksOfChild(q) ==
  IF q.type = "fork" THEN <<q.source, q.thread>> ELSE <<q.thread>>

(* Chosen from what is read before any lock is held.                       *)
FirstLocks(q) ==
  CASE q.type = "message" /\ Parent[q.thread] # NoThread -> <<Parent[q.thread], q.thread>>
    [] /\ q.type = "fork" /\ q.source # q.thread
       /\ life[q.source] # "none" /\ ~IsSideChat(q.source) /\ life[q.thread] = "none"
         -> <<q.source, q.thread>>
    [] OTHER -> <<q.thread>>

(* A message to a thread that is not there fails before any lock.          *)
Receive(d, q) ==
  /\ pc[d] = "idle"
  /\ dispatches < MaxDispatches
  /\ dispatches' = dispatches + 1
  /\ request' = [request EXCEPT ![d] = q]
  /\ IF q.type = "message" /\ life[q.thread] = "none"
     THEN AnswerWith(d, "failed", 0) /\ UNCHANGED path
     ELSE /\ path' = [path EXCEPT ![d] = FirstLocks(q)]
          /\ Goto(d, "locking")
          /\ UNCHANGED answer
  /\ UNCHANGED <<storeVars, locked, plan, moved, answers, faults>>

Held(d) == {path[d][i] : i \in 1..locked[d]}

Orderings(S) == {s \in [1..Cardinality(S) -> S] : \A t \in S : \E i \in DOMAIN s : s[i] = t}

(* A deletion learns its side chats under the lock of the thread.          *)
Lock(d) ==
  /\ pc[d] = "locking"
  /\ LET t == path[d][locked[d] + 1]
     IN  /\ \A x \in Dispatcher : t \notin Held(x)
         /\ locked' = [locked EXCEPT ![d] = @ + 1]
         /\ \E more \in IF request[d].type = "delete" /\ locked[d] = 0
                        THEN Orderings(LiveSideChats(t)) ELSE {<<>>} :
              /\ path' = [path EXCEPT ![d] = @ \o more]
              /\ Goto(d, IF locked[d] + 1 = Len(path[d] \o more) THEN "receipt" ELSE "locking")
  /\ UNCHANGED <<storeVars, request, plan, answer, moved, answers, dispatches, faults>>

-----------------------------------------------------------------------------
(* dispatchWithReceiptEffect, under the locks.                             *)

StartsQueue(q) == q.type = "resume"

Accept(d, sequence) ==
  /\ answer' = [answer EXCEPT ![d] = [status |-> "accepted", sequence |-> sequence]]
  /\ Goto(d, IF StartsQueue(request[d]) THEN "following" ELSE "answering")

(* Faulty: a repeated command is answered and its queue is not started.    *)
ReplayAnswered(d, r) == AnswerWith(d, "accepted", r.sequence)

(* The receipt of an accepted command stands for the events, and the queue *)
(* is started again: the first attempt may have ended before it was.       *)
Replay(d, r) == Accept(d, r.sequence)

ReadReceipt(d) ==
  /\ pc[d] = "receipt"
  /\ request[d].type # "finish"
  /\ LET r == receipts[request[d].id]
     IN  CASE r.status = "absent"                 -> Goto(d, "planning") /\ UNCHANGED answer
           [] r.status = "rejected"               -> AnswerWith(d, "rejected", 0)
           [] r.status = "accepted" /\ r.thread # request[d].thread -> AnswerWith(d, "conflict", 0)
           [] OTHER                               -> Replay(d, r)
  /\ UNCHANGED <<storeVars, request, path, locked, plan, moved, answers, dispatches, faults>>

(* What the projection must show for the command to have events.           *)
CanApply(q) ==
  CASE q.type = "create"  -> life[q.thread] = "none"
    [] q.type = "fork"    -> /\ Live(q.source) /\ life[q.thread] = "none"
                             /\ ~IsSideChat(q.source) /\ Parent[q.source] = NoThread
    [] q.type = "branch"  -> /\ life[q.source] # "none" /\ life[q.thread] = "none"
                             /\ ~IsSideChat(q.source)
    [] q.type = "merge"   -> life[q.source] # "none" /\ life[q.thread] # "none"
    [] q.type = "delete"  -> life[q.thread] # "none"
    [] q.type = "promote" -> Live(q.thread) /\ IsSideChat(q.thread)
    [] OTHER              -> Live(q.thread)

(* dispatchOnce may refuse any command, for reasons the model leaves out.  *)
Outcomes(q) ==
  {"reject"} \cup (IF CanApply(q) THEN {"events"} ELSE {})
             \cup (IF q.type = "settle" /\ CanApply(q) THEN {"empty"} ELSE {})

MakePlan(d) ==
  /\ pc[d] = "planning"
  /\ \E outcome \in Outcomes(request[d]) : plan' = [plan EXCEPT ![d] = outcome]
  /\ moved' = [moved EXCEPT ![d] = {}]
  /\ Goto(d, "planned")
  /\ UNCHANGED <<storeVars, request, path, locked, answer, answers, dispatches, faults>>

(* The sender may not raise the modes of the thread: no receipt is kept.   *)
Refuse(d) ==
  /\ pc[d] = "planning"
  /\ AnswerWith(d, "refused", 0)
  /\ UNCHANGED <<storeVars, request, path, locked, plan, moved, answers, dispatches, faults>>

-----------------------------------------------------------------------------
(* The transactions that end a plan.                                       *)

Absent(c) == receipts[c].status = "absent"

(* insertIfAbsent                                                          *)
Keep(q, status, sequence) ==
  receipts' = IF Absent(q.id)
              THEN [receipts EXCEPT ![q.id] = [status |-> status, thread |-> q.thread,
                                               sequence |-> sequence]]
              ELSE receipts

(* The last sequence number of a thread, 0 if there is none.               *)
Latest(t) ==
  {n \in 0..Len(log) : /\ (n = 0 \/ log[n].thread = t)
                        /\ \A i \in (n + 1)..Len(log) : log[i].thread # t}

(* Faulty: nothing is kept about a command that was refused.               *)
CommitRejectedUnkept(d) ==
  /\ pc[d] = "planned" /\ plan[d] = "reject"
  /\ AnswerWith(d, "rejected", 0)
  /\ UNCHANGED <<storeVars, request, path, locked, plan, moved, answers, dispatches, faults>>

CommitRejected(d) ==
  /\ pc[d] = "planned" /\ plan[d] = "reject"
  /\ \E latest \in Latest(request[d].thread) : Keep(request[d], "rejected", latest)
  /\ AnswerWith(d, "rejected", 0)
  /\ UNCHANGED <<life, sideOf, log, started, request, path, locked, plan, moved, answers,
                 dispatches, faults>>

CommitEmpty(d) ==
  /\ pc[d] = "planned" /\ plan[d] = "empty"
  /\ \E latest \in Latest(request[d].thread) :
       /\ Keep(request[d], "accepted", latest)
       /\ AnswerWith(d, "accepted", latest)
  /\ UNCHANGED <<life, sideOf, log, started, request, path, locked, plan, moved, answers,
                 dispatches, faults>>

LocksOf(d) == {path[d][i] : i \in DOMAIN path[d]}

(* The threads whose records d plans from.                                 *)
Reads(d) ==
  LET q == request[d]
  IN  (LocksOf(d) \cup {q.thread, q.source}
                  \cup (IF q.type = "message" THEN {Parent[q.thread]} ELSE {})) \ {NoThread}

(* The source of a command is under its locks only for a side chat.        *)
Unlocked(q) == IF q.type = "fork" THEN {} ELSE {q.source}

(* The threads whose records d changes. A side chat is among those its     *)
(* source lists; a command that reads another source leaves it as it is.   *)
Writes(d) ==
  LET q == request[d]
  IN  CASE q.type \in {"finish", "delete"} -> LocksOf(d)
        [] q.type = "fork"                 -> {q.thread, q.source}
        [] q.type = "message"              -> {q.thread, Parent[q.thread]}
        [] OTHER                           -> {q.thread}

(* What the plans that are not committed have read and a write of d        *)
(* changes.                                                                *)
Overtake(d) ==
  moved' = [x \in Dispatcher |->
              IF x # d /\ pc[x] = "planned" THEN moved[x] \cup (Reads(x) \cap Writes(d))
                                            ELSE moved[x]]

Apply(d, q) ==
  CASE q.type \in {"create", "branch", "fork"} ->
         /\ life' = [life EXCEPT ![q.thread] = "live"]
         /\ sideOf' = [sideOf EXCEPT ![q.thread] = IF q.type = "fork" THEN q.source ELSE NoThread]
    [] q.type = "delete" ->
         /\ life' = [t \in Thread |-> IF t \in LocksOf(d) THEN "deleted" ELSE life[t]]
         /\ UNCHANGED sideOf
    [] q.type = "promote" ->
         /\ sideOf' = [sideOf EXCEPT ![q.thread] = NoThread]
         /\ UNCHANGED life
    [] OTHER -> UNCHANGED <<life, sideOf>>

(* Faulty: events are appended without reserving the receipt first.        *)
NotReserved(c) == FALSE

Reserved(c) == ~Absent(c)

(* commitCommand: a command id that already has a receipt changes nothing  *)
(* and is answered with that receipt.                                      *)
Commit(d) ==
  /\ pc[d] = "planned" /\ plan[d] = "events"
  /\ LET q == request[d]
         r == receipts[q.id]
     IN  IF Reserved(q.id)
         THEN /\ IF r.status = "rejected" THEN AnswerWith(d, "rejected", 0)
                                          ELSE Accept(d, r.sequence)
              /\ UNCHANGED <<life, sideOf, log, receipts, moved>>
         ELSE /\ log' = Append(log, [id |-> q.id, thread |-> q.thread])
              /\ receipts' = [receipts EXCEPT ![q.id] = [status |-> "accepted",
                                                         thread |-> q.thread,
                                                         sequence |-> Len(log) + 1]]
              /\ Apply(d, q)
              /\ Overtake(d)
              /\ Accept(d, Len(log) + 1)
  /\ UNCHANGED <<started, request, path, locked, plan, answers, dispatches, faults>>

(* startNextQueuedRun                                                      *)
StartQueue(d) ==
  /\ pc[d] = "following"
  /\ started' = started \cup {request[d].id}
  /\ Overtake(d)
  /\ Goto(d, "answering")
  /\ UNCHANGED <<life, sideOf, receipts, log, request, path, locked, plan, answer,
                 answers, dispatches, faults>>

-----------------------------------------------------------------------------
(* The end of a dispatch.                                                  *)

(* The fibers of F end and release what they hold.                         *)
Release(F) ==
  /\ pc' = [d \in Dispatcher |-> IF d \in F THEN "idle" ELSE pc[d]]
  /\ request' = [d \in Dispatcher |-> IF d \in F THEN NoRequest ELSE request[d]]
  /\ path' = [d \in Dispatcher |-> IF d \in F THEN <<>> ELSE path[d]]
  /\ locked' = [d \in Dispatcher |-> IF d \in F THEN 0 ELSE locked[d]]
  /\ plan' = [d \in Dispatcher |-> IF d \in F THEN "none" ELSE plan[d]]
  /\ answer' = [d \in Dispatcher |-> IF d \in F THEN NoAnswer ELSE answer[d]]

Clear(F) == moved' = [d \in Dispatcher |-> IF d \in F THEN {} ELSE moved[d]]

Respond(d) ==
  /\ pc[d] = "answering"
  /\ answers' = answers \cup {[request |-> request[d], answer |-> answer[d]]}
  /\ Release({d})
  /\ Clear({d})
  /\ UNCHANGED <<storeVars, dispatches, faults>>

(* handleRunUpdate: the write to the thread of the run and the write to    *)
(* the thread it works for are made one after the other.                   *)
RunUpdate(d) ==
  /\ pc[d] = "receipt"
  /\ request[d].type = "finish"
  /\ Overtake(d)
  /\ LET parent == Parent[request[d].thread]
     IN  IF parent # NoThread /\ path[d] = <<request[d].thread>>
         THEN /\ path' = [path EXCEPT ![d] = <<parent>>]
              /\ locked' = [locked EXCEPT ![d] = 0]
              /\ Goto(d, "locking")
              /\ UNCHANGED <<request, plan, answer>>
         ELSE Release({d})
  /\ UNCHANGED <<storeVars, answers, dispatches, faults>>

(* An SQL statement fails: the receipt's, the commit's, the queue's.       *)
StorageFails(d) ==
  /\ pc[d] \in {"receipt", "planned", "following"}
  /\ request[d].type # "finish"
  /\ Fault
  /\ AnswerWith(d, "failed", 0)
  /\ UNCHANGED <<storeVars, request, path, locked, plan, moved, answers, dispatches>>

(* A fiber is interrupted with the connection of its client, or the server *)
(* is lost with all of them.                                               *)
Interrupt(F) ==
  /\ \E d \in F : pc[d] # "idle"
  /\ Fault
  /\ Release(F)
  /\ Clear(F)
  /\ UNCHANGED <<storeVars, answers, dispatches>>

Crash == Interrupt(Dispatcher)

-----------------------------------------------------------------------------
Advance(d) ==
  \/ Lock(d)
  \/ ReadReceipt(d)
  \/ MakePlan(d)
  \/ CommitRejected(d)
  \/ CommitEmpty(d)
  \/ Commit(d)
  \/ StartQueue(d)
  \/ Respond(d)
  \/ RunUpdate(d)

Next ==
  \/ \E d \in Dispatcher, q \in Request : Receive(d, q)
  \/ \E d \in Dispatcher : Advance(d)
  \/ \E d \in Dispatcher : Refuse(d)
  \/ \E d \in Dispatcher : StorageFails(d)
  \/ \E d \in Dispatcher : Interrupt({d})
  \/ Crash

Spec == Init /\ [][Next]_vars

(* Fibers are scheduled, and the semaphore of a lock hands it on.          *)
FairSpec == Spec /\ \A d \in Dispatcher : WF_vars(Advance(d))

-----------------------------------------------------------------------------
(* Properties.                                                             *)

(* However often a command is sent, and although the receipt is read before*)
(* the plan and the transaction, its events are committed at most once.    *)
AppliedOnce == \A i, j \in DOMAIN log : log[i].id = log[j].id => i = j

(* A resumed queue that was reported as resumed has been started, although *)
(* the start is not part of the transaction that accepts the command.      *)
FollowedUp ==
  \A a \in answers :
    a.answer.status = "accepted" /\ StartsQueue(a.request) => a.request.id \in started

(* What a plan was made from is still so when it is committed, whatever    *)
(* other commands and ended runs have written meanwhile, save one thing: a *)
(* plain fork, a merge-back and whatever else reads a source besides its   *)
(* thread do so without the lock of the source, which may have moved on.   *)
(* Even then a plain fork copies a thread that is there and no side chat,  *)
(* and the fork of a side chat, which takes the lock, finds its source     *)
(* unchanged.                                                              *)
PlanCurrent ==
  \A d \in Dispatcher : pc[d] = "planned" =>
    /\ moved[d] \subseteq Unlocked(request[d])
    /\ plan[d] = "events" /\ request[d].type = "branch" =>
         life[request[d].source] # "none" /\ ~IsSideChat(request[d].source)

(* A deletion leaves no side chat behind, not even one that was opened     *)
(* while the deletion was being planned.                                   *)
NoOrphan ==
  \A s \in Thread : Live(s) /\ IsSideChat(s) => life[sideOf[s]] # "deleted"

(* A command is reported as accepted only where its own thread accepted it.*)
AcceptedByOwnThread ==
  \A a \in answers :
    a.answer.status = "accepted" => receipts[a.request.id].thread = a.request.thread

(* Every dispatch ends: no order of locks makes two of them wait for each  *)
(* other.                                                                  *)
Answered == \A d \in Dispatcher : pc[d] # "idle" ~> pc[d] = "idle"

(* The inductive invariant behind AppliedOnce, FollowedUp and the ledger.  *)

(* A dispatch holds all its locks from the reading of the receipt to its   *)
(* end, that of its own thread among them, and nobody else holds them.     *)
Locking ==
  /\ \A d \in Dispatcher :
       /\ pc[d] = "idle" <=> request[d] = NoRequest
       /\ pc[d] = "idle" => locked[d] = 0
       /\ locked[d] <= Len(path[d])
       /\ pc[d] = "locking" => locked[d] < Len(path[d])
       /\ request[d] # NoRequest /\ request[d].type # "finish" /\ pc[d] \notin {"answering"}
            => \E i \in DOMAIN path[d] : path[d][i] = request[d].thread
       /\ pc[d] \in {"receipt", "planning", "planned"} => locked[d] = Len(path[d])
  /\ \A d, x \in Dispatcher : d # x => Held(d) \cap Held(x) = {}

(* A command with events in the log has the receipt that says where.       *)
Logged ==
  \A i \in DOMAIN log :
    receipts[log[i].id] = [status |-> "accepted", thread |-> log[i].thread, sequence |-> i]

(* While a dispatch plans, no other one decides its command for its thread.*)
Undecided ==
  \A d \in Dispatcher :
    /\ pc[d] \in {"planning", "planned"} =>
         request[d].type # "finish" /\ receipts[request[d].id].thread # request[d].thread
    /\ pc[d] = "planned" /\ plan[d] = "empty" => ~StartsQueue(request[d])

(* An answer of q, given or about to be given, is what the receipt says,   *)
(* unless the receipt is that of another thread.                           *)
Truthful(q, a) ==
  a.status \in {"accepted", "rejected"} =>
    LET r == receipts[q.id]
    IN  /\ r.status # "absent"
        /\ r.thread = q.thread =>
             /\ a.status = r.status
             /\ a.sequence = IF r.status = "accepted" THEN r.sequence ELSE 0

Answering ==
  /\ \A a \in answers : Truthful(a.request, a.answer)
  /\ \A d \in Dispatcher :
       pc[d] \in {"following", "answering"} =>
         /\ Truthful(request[d], answer[d])
         /\ pc[d] = "answering" /\ answer[d].status = "accepted" /\ StartsQueue(request[d])
              => request[d].id \in started

IInv == TypeOK /\ Locking /\ Logged /\ Undecided /\ Answering /\ FollowedUp

-----------------------------------------------------------------------------
(* The definite answers given about the thread a receipt names are those   *)
(* of a ledger that decides each command once and never changes its mind   *)
(* (docs/orchestration-v2/README.md, "Duplicate command ids must return    *)
(* the same receipt-backed result").                                       *)
Decided == [c \in CommandId |-> [status |-> receipts[c].status,
                                 sequence |-> IF receipts[c].status = "accepted"
                                              THEN receipts[c].sequence ELSE 0]]
Definite(a) == /\ a.answer.status \in {"accepted", "rejected"}
               /\ receipts[a.request.id].thread \in {a.request.thread, NoThread}
Told == {[id |-> a.request.id, answer |-> a.answer] : a \in {b \in answers : Definite(b)}}
Ledger == INSTANCE CommandLedger WITH decided <- Decided, told <- Told
ImplementsLedger == Ledger!Spec

-----------------------------------------------------------------------------
(* The locks that the dispatches take one after the other, and hold        *)
(* together, are taken and let go as KeyedMutex says.                      *)
HeldByDispatchers == {h \in [key : Thread, by : Dispatcher] : h.key \in Held(h.by)}
Mutex == INSTANCE KeyedMutex WITH held <- HeldByDispatchers, Key <- Thread, Holder <- Dispatcher
UsesMutex == Mutex!Spec
=============================================================================

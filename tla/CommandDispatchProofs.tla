----------------------- MODULE CommandDispatchProofs ------------------------
(***************************************************************************)
(* Proofs about CommandDispatch for all sets of dispatchers, threads and   *)
(* commands and every bound.  IInv is inductive; that a command is         *)
(* committed once, that a resumed queue is started and that the dispatch   *)
(* implements CommandLedger follow from it.  PInv is inductive besides     *)
(* when side chats are opened on settled threads only: then no plan is     *)
(* overtaken but by its unlocked source, and a deletion leaves no side     *)
(* chat behind.  DInv is                                                   *)
(* inductive when a thread descends from one thread at most: then the      *)
(* locks of the dispatches cannot deadlock.  What the dispatches hold is   *)
(* held as KeyedMutex says, which is what KeyedLock implements.            *)
(***************************************************************************)
EXTENDS CommandDispatch, FiniteSetTheorems, TLAPS

(* The orders in which side chats are locked are sequences of threads.     *)
LEMMA OrderingsAreSequences ==
  ASSUME NEW S \in SUBSET Thread
  PROVE  Orderings(S) \subseteq Seq(Thread)
<1>1. Cardinality(S) \in Nat
  BY ConstantsAssumption, FS_Subset, FS_CardinalityType
<1>2. ASSUME NEW s \in [1..Cardinality(S) -> S] PROVE s \in Seq(Thread)
  <2>1. s \in [1..Cardinality(S) -> Thread]
    OBVIOUS
  <2>2. QED
    BY <1>1, <2>1
<1>3. QED
  BY <1>2 DEF Orderings

(* Facts about sequences.                                                 *)
LEMMA IsASeq == <<>> \in Seq(Thread)
OBVIOUS

(* The first locks of a command are threads, its own among them.           *)
LEMMA FirstLocksType ==
  ASSUME NEW q \in Request
  PROVE  /\ FirstLocks(q) \in Seq(Thread)
         /\ Len(FirstLocks(q)) > 0
         /\ \E i \in DOMAIN FirstLocks(q) : FirstLocks(q)[i] = q.thread
<1>1. q.thread \in Thread /\ Parent[q.thread] \in Thread \cup {NoThread}
  BY ConstantsAssumption
<1>2. CASE q.type = "message" /\ Parent[q.thread] # NoThread
  <2>1. FirstLocks(q) = <<Parent[q.thread], q.thread>>
    BY <1>2 DEF FirstLocks
  <2>2. QED
    BY <1>1, <1>2, <2>1
<1>3. CASE FirstLocks(q) = <<q.source, q.thread>> /\ q.type = "fork"
  BY <1>1, <1>3, ConstantsAssumption
<1>4. CASE FirstLocks(q) = <<q.thread>>
  BY <1>1, <1>4
<1>5. QED
  BY <1>2, <1>3, <1>4 DEF FirstLocks

(* A dispatch that is not idle has a command.                              *)
LEMMA BusyHasRequest ==
  ASSUME TypeOK, Locking, NEW d \in Dispatcher, pc[d] # "idle"
  PROVE  /\ request[d] \in Request
         /\ request[d].thread \in Thread
         /\ request[d].id \in CommandId
BY ConstantsAssumption DEF TypeOK, Locking

(* Appending keeps the type of a sequence.                                 *)
LEMMA AppendType ==
  ASSUME NEW S, NEW s \in Seq(S), NEW x \in S
  PROVE  Append(s, x) \in Seq(S)
OBVIOUS

(* The elements of a sequence have its type.                               *)
LEMMA ElementType ==
  ASSUME NEW S, NEW s, s \in Seq(S), NEW i, i \in DOMAIN s
  PROVE  s[i] \in S
OBVIOUS

(* What answering a command does to the types of the answers.              *)
LEMMA AnswerWithType ==
  ASSUME TypeOK, NEW d \in Dispatcher, NEW n \in Nat,
         NEW s \in {"accepted", "rejected", "conflict", "refused", "failed"},
         AnswerWith(d, s, n)
  PROVE  answer' \in [Dispatcher -> Answer] /\ pc' \in [Dispatcher -> PC]
<1>1. [status |-> s, sequence |-> n] \in Answer
  BY DEF Answer
<1>2. QED
  BY <1>1 DEF AnswerWith, Goto, TypeOK, PC

(* The same for a command that is accepted.                                *)
LEMMA AcceptType ==
  ASSUME TypeOK, NEW d \in Dispatcher, NEW n \in Nat, Accept(d, n)
  PROVE  answer' \in [Dispatcher -> Answer] /\ pc' \in [Dispatcher -> PC]
<1>1. [status |-> "accepted", sequence |-> n] \in Answer
  BY DEF Answer
<1>2. QED
  BY <1>1 DEF Accept, Goto, TypeOK, PC

(* What applying the events of a command does to the types of the threads. *)
LEMMA ApplyType ==
  ASSUME TypeOK, NEW d \in Dispatcher, NEW q \in Request, Apply(d, q)
  PROVE  life' \in [Thread -> Life] /\ sideOf' \in [Thread -> Thread \cup {NoThread}]
<1> USE DEF TypeOK, Life
<1>1. CASE q.type \in {"create", "branch", "fork"}
  BY <1>1, ConstantsAssumption DEF Apply
<1>2. CASE q.type = "delete"
  BY <1>2 DEF Apply
<1>3. CASE q.type = "promote"
  BY <1>3 DEF Apply
<1>4. CASE q.type \notin {"create", "branch", "fork", "delete", "promote"}
  BY <1>4 DEF Apply
<1>5. QED
  BY <1>1, <1>2, <1>3, <1>4

(* What a plan has read are threads, and so is what overtakes it.          *)
LEMMA OvertakeType ==
  ASSUME TypeOK, Locking, NEW d \in Dispatcher, Overtake(d)
  PROVE  moved' \in [Dispatcher -> SUBSET Thread]
<1>1. ASSUME NEW x \in Dispatcher, pc[x] = "planned" PROVE Reads(x) \subseteq Thread
  <2>1. request[x] \in Request
    BY <1>1, BusyHasRequest
  <2>2. /\ request[x].thread \in Thread /\ request[x].source \in Thread \cup {NoThread}
        /\ Parent[request[x].thread] \in Thread \cup {NoThread}
    BY <2>1, ConstantsAssumption
  <2>3. path[x] \in Seq(Thread)
    BY DEF TypeOK
  <2>4. LocksOf(x) \subseteq Thread
    BY <2>3, ElementType DEF LocksOf
  <2>5. QED
    BY <2>2, <2>4 DEF Reads
<1>2. ASSUME NEW x \in Dispatcher
      PROVE  (IF x # d /\ pc[x] = "planned" THEN moved[x] \cup (Reads(x) \cap Writes(d))
                                             ELSE moved[x]) \in SUBSET Thread
  <2>1. moved[x] \subseteq Thread
    BY DEF TypeOK
  <2>2. QED
    BY <1>1, <2>1
<1>3. QED
  BY <1>2 DEF Overtake

(* A dispatch that ends has no plan to be overtaken.                       *)
LEMMA ClearType ==
  ASSUME TypeOK, NEW F \in SUBSET Dispatcher, Clear(F)
  PROVE  moved' \in [Dispatcher -> SUBSET Thread]
<1>1. \A x \in Dispatcher : (IF x \in F THEN {} ELSE moved[x]) \in SUBSET Thread
  BY DEF TypeOK
<1>2. QED
  BY <1>1 DEF Clear

(* The initial state satisfies the inductive invariant.                    *)
LEMMA InitIInv == Init => IInv
<1> SUFFICES ASSUME Init PROVE IInv
  OBVIOUS
<1> USE ConstantsAssumption DEF Init
<1>1. TypeOK
  BY DEF TypeOK, Life, PC, Plan, NoAnswer, Answer
<1>2. Locking
  BY DEF Locking, Held
<1>3. Logged /\ Undecided /\ Answering /\ FollowedUp
  BY DEF Logged, Undecided, Answering, FollowedUp
<1>4. QED
  BY <1>1, <1>2, <1>3 DEF IInv

(* Type correctness is preserved by every step.                            *)
LEMMA TypeStep == TypeOK /\ Locking /\ [Next]_vars => TypeOK'
<1> SUFFICES ASSUME TypeOK, Locking, [Next]_vars PROVE TypeOK'
  OBVIOUS
<1> USE DEF TypeOK, Life, PC, Plan, NoAnswer, Answer, Receipt, NoReceipt, storeVars, fiberVars
<1>1. ASSUME NEW d \in Dispatcher, NEW q \in Request, Receive(d, q) PROVE TypeOK'
  <2>1. path' \in [Dispatcher -> Seq(Thread)]
    BY <1>1, FirstLocksType DEF Receive
  <2>2. answer' \in [Dispatcher -> Answer] /\ pc' \in [Dispatcher -> PC]
    BY <1>1, AnswerWithType DEF Receive, Goto
  <2>3. dispatches' \in 0..MaxDispatches /\ request' \in [Dispatcher -> Request \cup {NoRequest}]
    BY <1>1, ConstantsAssumption DEF Receive
  <2>4. QED
    BY <1>1, <2>1, <2>2, <2>3 DEF Receive
<1>2. ASSUME NEW d \in Dispatcher, Advance(d) PROVE TypeOK'
  <2>1. CASE Lock(d)
    <3>1. LiveSideChats(path[d][locked[d] + 1]) \in SUBSET Thread
      BY DEF LiveSideChats
    <3>2. PICK more \in Seq(Thread) : path' = [path EXCEPT ![d] = path[d] \o more]
      <4>1. PICK more \in IF request[d].type = "delete" /\ locked[d] = 0
                         THEN Orderings(LiveSideChats(path[d][locked[d] + 1])) ELSE {<<>>} :
              path' = [path EXCEPT ![d] = path[d] \o more]
        BY <2>1 DEF Lock
      <4>2. more \in Seq(Thread)
        BY <4>1, <3>1, OrderingsAreSequences, IsASeq
      <4>3. QED
        BY <4>1, <4>2
    <3>3. path[d] \in Seq(Thread) /\ path[d] \o more \in Seq(Thread)
      OBVIOUS
    <3>4. path' \in [Dispatcher -> Seq(Thread)]
      BY <3>2, <3>3
    <3>5. pc' \in [Dispatcher -> PC] /\ locked' \in [Dispatcher -> Nat]
      BY <2>1 DEF Lock, Goto
    <3>6. QED
      BY <2>1, <3>4, <3>5 DEF Lock
  <2>2. CASE ReadReceipt(d)
    <3>1. request[d].id \in CommandId /\ pc[d] # "idle"
      BY <2>2, BusyHasRequest DEF ReadReceipt
    <3>2. receipts[request[d].id] \in Receipt \cup {NoReceipt}
      BY <3>1
    <3>3. receipts[request[d].id].sequence \in Nat
      BY <3>2
    <3>4. answer' \in [Dispatcher -> Answer] /\ pc' \in [Dispatcher -> PC]
      <4>1. CASE receipts[request[d].id].status = "absent"
        BY <2>2, <4>1 DEF ReadReceipt, Goto
      <4>2. CASE receipts[request[d].id].status # "absent"
        BY <2>2, <3>3, <4>2, AnswerWithType, AcceptType DEF ReadReceipt, Replay
      <4>3. QED
        BY <4>1, <4>2
    <3>5. QED
      BY <2>2, <3>4 DEF ReadReceipt
  <2>3. CASE MakePlan(d)
    BY <2>3 DEF MakePlan, Goto, Outcomes
  <2>4. CASE CommitRejected(d)
    <3>1. request[d].id \in CommandId /\ request[d].thread \in Thread
      BY <2>4, BusyHasRequest DEF CommitRejected
    <3>2. receipts' \in [CommandId -> Receipt \cup {NoReceipt}]
      BY <2>4, <3>1 DEF CommitRejected, Keep, Latest
    <3>3. QED
      BY <2>4, <3>2 DEF CommitRejected, AnswerWith, Goto
  <2>5. CASE CommitEmpty(d)
    <3>1. request[d].id \in CommandId /\ request[d].thread \in Thread
      BY <2>5, BusyHasRequest DEF CommitEmpty
    <3>2. receipts' \in [CommandId -> Receipt \cup {NoReceipt}]
      BY <2>5, <3>1 DEF CommitEmpty, Keep, Latest
    <3>3. answer' \in [Dispatcher -> Answer] /\ pc' \in [Dispatcher -> PC]
      BY <2>5 DEF CommitEmpty, AnswerWith, Goto, Latest
    <3>4. QED
      BY <2>5, <3>2, <3>3 DEF CommitEmpty
  <2>6. CASE Commit(d)
    <3>1. request[d] \in Request /\ request[d].id \in CommandId /\ request[d].thread \in Thread
      BY <2>6, BusyHasRequest DEF Commit
    <3>2. receipts[request[d].id] \in Receipt \cup {NoReceipt}
      BY <3>1
    <3>3. receipts[request[d].id].sequence \in Nat /\ Len(log) + 1 \in Nat
      BY <3>2
    <3>4. answer' \in [Dispatcher -> Answer] /\ pc' \in [Dispatcher -> PC]
      BY <2>6, <3>3, AnswerWithType, AcceptType DEF Commit
    <3>5. [status |-> "accepted", thread |-> request[d].thread, sequence |-> Len(log) + 1] \in Receipt
      BY <3>1, <3>3
    <3>6. receipts' \in [CommandId -> Receipt \cup {NoReceipt}]
      BY <2>6, <3>1, <3>5 DEF Commit
    <3>7. [id |-> request[d].id, thread |-> request[d].thread] \in [id : CommandId, thread : Thread]
      BY <3>1
    <3>8. log' \in Seq([id : CommandId, thread : Thread])
      <4>1. log' = log \/ log' = Append(log, [id |-> request[d].id, thread |-> request[d].thread])
        BY <2>6 DEF Commit
      <4>2. Append(log, [id |-> request[d].id, thread |-> request[d].thread]) \in Seq([id : CommandId, thread : Thread])
        BY <3>7, AppendType
      <4>3. QED
        BY <4>1, <4>2
    <3>9. life' \in [Thread -> Life] /\ sideOf' \in [Thread -> Thread \cup {NoThread}]
      BY <2>6, <3>1, ApplyType DEF Commit
    <3>10. moved' \in [Dispatcher -> SUBSET Thread]
      BY <2>6, OvertakeType DEF Commit
    <3>11. QED
      BY <2>6, <3>4, <3>6, <3>8, <3>9, <3>10 DEF Commit
  <2>7. CASE StartQueue(d)
    <3>1. request[d].id \in CommandId
      BY <2>7, BusyHasRequest DEF StartQueue
    <3>2. moved' \in [Dispatcher -> SUBSET Thread]
      BY <2>7, OvertakeType DEF StartQueue
    <3>3. QED
      BY <2>7, <3>1, <3>2 DEF StartQueue, Goto
  <2>8. CASE Respond(d)
    <3>1. request[d] \in Request
      BY <2>8, BusyHasRequest DEF Respond
    <3>2. answers' \subseteq [request : Request, answer : Answer]
      BY <2>8, <3>1 DEF Respond
    <3>3. moved' \in [Dispatcher -> SUBSET Thread]
      BY <2>8, ClearType DEF Respond
    <3>4. QED
      BY <2>8, <3>2, <3>3 DEF Respond, Release
  <2>9. CASE RunUpdate(d)
    <3>1. request[d].thread \in Thread
      BY <2>9, BusyHasRequest DEF RunUpdate
    <3>2. moved' \in [Dispatcher -> SUBSET Thread]
      BY <2>9, OvertakeType DEF RunUpdate
    <3>3. CASE Parent[request[d].thread] # NoThread /\ path[d] = <<request[d].thread>>
      <4>1. <<Parent[request[d].thread]>> \in Seq(Thread)
        BY <3>1, <3>3, ConstantsAssumption
      <4>2. path' \in [Dispatcher -> Seq(Thread)]
        BY <2>9, <3>3, <4>1 DEF RunUpdate
      <4>3. /\ locked' = [locked EXCEPT ![d] = 0]
            /\ pc' = [pc EXCEPT ![d] = "locking"]
            /\ UNCHANGED <<storeVars, request, plan, answer, answers, dispatches, faults>>
        BY <2>9, <3>3 DEF RunUpdate, Goto
      <4>4. QED
        BY <3>2, <4>2, <4>3
    <3>4. CASE ~(Parent[request[d].thread] # NoThread /\ path[d] = <<request[d].thread>>)
      <4>1. Release({d}) /\ UNCHANGED <<storeVars, answers, dispatches, faults>>
        BY <2>9, <3>4 DEF RunUpdate
      <4>2. QED
        BY <3>2, <4>1 DEF Release
    <3>5. QED
      BY <3>3, <3>4
  <2>10. QED
    BY <1>2, <2>1, <2>2, <2>3, <2>4, <2>5, <2>6, <2>7, <2>8, <2>9 DEF Advance
<1>3. ASSUME NEW d \in Dispatcher, Refuse(d) PROVE TypeOK'
  BY <1>3 DEF Refuse, AnswerWith, Goto
<1>4. ASSUME NEW d \in Dispatcher, StorageFails(d) PROVE TypeOK'
  BY <1>4, ConstantsAssumption, AnswerWithType DEF StorageFails, Fault
<1>5. ASSUME NEW F \in SUBSET Dispatcher, Interrupt(F) PROVE TypeOK'
  BY <1>5, ConstantsAssumption DEF Interrupt, Fault, Release, Clear
<1>6. CASE UNCHANGED vars
  BY <1>6 DEF vars, storeVars, fiberVars
<1>7. QED
  BY <1>1, <1>2, <1>3, <1>4, <1>5, <1>6 DEF Next, Crash

(* The fibers that end hold nothing; the others keep what they hold.      *)
LEMMA ReleaseLocking ==
  ASSUME TypeOK, Locking, NEW F \in SUBSET Dispatcher, Release(F)
  PROVE  Locking'
<1>1. ASSUME NEW x \in Dispatcher, x \in F
      PROVE  /\ pc'[x] = "idle" /\ request'[x] = NoRequest /\ locked'[x] = 0
             /\ path'[x] = <<>> /\ Held(x)' = {}
  <2>1. pc'[x] = "idle" /\ request'[x] = NoRequest /\ locked'[x] = 0 /\ path'[x] = <<>>
    BY <1>1 DEF Release
  <2>2. QED
    BY <2>1 DEF Held
<1>2. ASSUME NEW x \in Dispatcher, x \notin F
      PROVE  /\ pc'[x] = pc[x] /\ request'[x] = request[x] /\ locked'[x] = locked[x]
             /\ path'[x] = path[x] /\ Held(x)' = Held(x)
  <2>1. /\ pc'[x] = pc[x] /\ request'[x] = request[x] /\ locked'[x] = locked[x]
        /\ path'[x] = path[x]
    BY <1>2 DEF Release
  <2>2. QED
    BY <2>1 DEF Held
<1>3. \A d, x \in Dispatcher : d # x => Held(d)' \cap Held(x)' = {}
  BY <1>1, <1>2 DEF Locking
<1>4. ASSUME NEW d \in Dispatcher
      PROVE  /\ pc'[d] = "idle" <=> request'[d] = NoRequest
             /\ pc'[d] = "idle" => locked'[d] = 0
             /\ locked'[d] <= Len(path'[d])
             /\ pc'[d] = "locking" => locked'[d] < Len(path'[d])
             /\ request'[d] # NoRequest /\ request'[d].type # "finish" /\ pc'[d] \notin {"answering"}
                  => \E i \in DOMAIN path'[d] : path'[d][i] = request'[d].thread
             /\ pc'[d] \in {"receipt", "planning", "planned"} => locked'[d] = Len(path'[d])
  <2>1. CASE d \in F
    BY <1>1, <2>1
  <2>2. CASE d \notin F
    BY <1>2, <2>2 DEF Locking
  <2>3. QED
    BY <2>1, <2>2
<1>5. QED
  BY <1>3, <1>4 DEF Locking

(* The locks stay exclusive and held to the end of a dispatch.             *)
LEMMA LockingStep == TypeOK /\ Locking /\ [Next]_vars => Locking'
<1> SUFFICES ASSUME TypeOK, Locking, [Next]_vars PROVE Locking'
  OBVIOUS
<1> USE DEF storeVars, fiberVars
<1>1. ASSUME NEW d \in Dispatcher, NEW q \in Request, Receive(d, q) PROVE Locking'
  <2>1. locked[d] = 0 /\ request[d] = NoRequest /\ q # NoRequest
    BY <1>1, ConstantsAssumption DEF Receive, Locking
  <2>2. \A x \in Dispatcher : Held(x)' = Held(x)
    <3>1. UNCHANGED locked /\ \A x \in Dispatcher : x # d => path'[x] = path[x]
      BY <1>1 DEF Receive, TypeOK
    <3>2. Held(d)' = {} /\ Held(d) = {}
      BY <2>1, <3>1 DEF Held
    <3>3. QED
      BY <3>1, <3>2 DEF Held
  <2>3. CASE pc'[d] = "answering"
    BY <1>1, <2>1, <2>2, <2>3 DEF Receive, AnswerWith, Goto, Locking, TypeOK
  <2>4. CASE pc'[d] # "answering"
    <3>1. path'[d] = FirstLocks(q) /\ pc'[d] = "locking"
      BY <1>1, <2>4 DEF Receive, AnswerWith, Goto, TypeOK
    <3>2. QED
      BY <1>1, <2>1, <2>2, <3>1, FirstLocksType DEF Receive, AnswerWith, Goto, Locking, TypeOK
  <2>5. QED
    BY <2>3, <2>4
<1>2. ASSUME NEW d \in Dispatcher, Advance(d) PROVE Locking'
  <2>1. CASE Lock(d)
    <3>1. PICK more \in Seq(Thread) : /\ path' = [path EXCEPT ![d] = path[d] \o more]
              /\ pc' = [pc EXCEPT ![d] = IF locked[d] + 1 = Len(path[d] \o more) THEN "receipt" ELSE "locking"]
      <4>1. LiveSideChats(path[d][locked[d] + 1]) \in SUBSET Thread
        BY DEF LiveSideChats
      <4>2. PICK more \in IF request[d].type = "delete" /\ locked[d] = 0
                         THEN Orderings(LiveSideChats(path[d][locked[d] + 1])) ELSE {<<>>} :
              /\ path' = [path EXCEPT ![d] = path[d] \o more]
              /\ pc' = [pc EXCEPT ![d] = IF locked[d] + 1 = Len(path[d] \o more) THEN "receipt" ELSE "locking"]
        BY <2>1 DEF Lock, Goto
      <4>3. more \in Seq(Thread)
        BY <4>1, <4>2, OrderingsAreSequences, IsASeq
      <4>4. QED
        BY <4>2, <4>3
    <3>2. /\ pc[d] = "locking" /\ locked[d] < Len(path[d]) /\ locked[d] \in Nat /\ path[d] \in Seq(Thread)
          /\ locked' = [locked EXCEPT ![d] = locked[d] + 1] /\ UNCHANGED request
      BY <2>1 DEF Lock, Locking, TypeOK
    <3>3. /\ Len(path'[d]) = Len(path[d]) + Len(more) /\ Len(more) \in Nat
          /\ \A i \in 1..Len(path[d]) : path'[d][i] = path[d][i]
      BY <3>1, <3>2 DEF TypeOK
    <3>4. Held(d)' = Held(d) \cup {path[d][locked[d] + 1]}
      <4>1. locked'[d] = locked[d] + 1
        BY <3>2 DEF TypeOK
      <4>2. 1..(locked[d] + 1) = (1..locked[d]) \cup {locked[d] + 1}
        BY <3>2
      <4>3. \A i \in 1..(locked[d] + 1) : path'[d][i] = path[d][i]
        BY <3>2, <3>3
      <4>4. QED
        BY <4>1, <4>2, <4>3 DEF Held
    <3>5. \A x \in Dispatcher : path[d][locked[d] + 1] \notin Held(x)
      BY <2>1 DEF Lock
    <3>6. \A x \in Dispatcher :
            x # d => Held(x)' = Held(x) /\ path'[x] = path[x] /\ locked'[x] = locked[x] /\ pc'[x] = pc[x]
      BY <3>1, <3>2 DEF Held, TypeOK
    <3>7. \A y, x \in Dispatcher : y # x => Held(y)' \cap Held(x)' = {}
      BY <3>4, <3>5, <3>6 DEF Locking
    <3>8. /\ locked'[d] = locked[d] + 1 /\ locked'[d] <= Len(path'[d])
          /\ pc'[d] = IF locked'[d] = Len(path'[d]) THEN "receipt" ELSE "locking"
      BY <3>1, <3>2, <3>3 DEF TypeOK
    <3>9. request[d] # NoRequest /\ (request[d].type # "finish" => \E i \in DOMAIN path[d] : path[d][i] = request[d].thread)
      BY <3>2 DEF Locking
    <3>10. request[d].type # "finish" => \E i \in DOMAIN path'[d] : path'[d][i] = request[d].thread
      BY <3>2, <3>3, <3>9
    <3>11. QED
      BY <3>2, <3>3, <3>6, <3>7, <3>8, <3>9, <3>10 DEF Locking
  <2>2. CASE ReadReceipt(d)
    <3>1. UNCHANGED <<path, locked>>
      BY <2>2 DEF ReadReceipt, Replay, Accept, AnswerWith, Goto
    <3>2. \A x \in Dispatcher : Held(x)' = Held(x)
      BY <3>1 DEF Held
    <3>3. QED
      BY <2>2, <3>1, <3>2 DEF Locking, TypeOK, ReadReceipt, Replay, Accept, AnswerWith, Goto
  <2>3. CASE MakePlan(d)
    <3>1. UNCHANGED <<path, locked>>
      BY <2>3 DEF MakePlan, Goto, Outcomes
    <3>2. \A x \in Dispatcher : Held(x)' = Held(x)
      BY <3>1 DEF Held
    <3>3. QED
      BY <2>3, <3>1, <3>2 DEF Locking, TypeOK, MakePlan, Goto, Outcomes
  <2>4. CASE CommitRejected(d)
    <3>1. UNCHANGED <<path, locked>>
      BY <2>4 DEF CommitRejected, Keep, AnswerWith, Goto
    <3>2. \A x \in Dispatcher : Held(x)' = Held(x)
      BY <3>1 DEF Held
    <3>3. QED
      BY <2>4, <3>1, <3>2 DEF Locking, TypeOK, CommitRejected, Keep, AnswerWith, Goto
  <2>5. CASE CommitEmpty(d)
    <3>1. UNCHANGED <<path, locked>>
      BY <2>5 DEF CommitEmpty, Keep, AnswerWith, Goto
    <3>2. \A x \in Dispatcher : Held(x)' = Held(x)
      BY <3>1 DEF Held
    <3>3. QED
      BY <2>5, <3>1, <3>2 DEF Locking, TypeOK, CommitEmpty, Keep, AnswerWith, Goto
  <2>6. CASE Commit(d)
    <3>1. UNCHANGED <<path, locked>>
      BY <2>6 DEF Commit, Accept, AnswerWith, Goto
    <3>2. \A x \in Dispatcher : Held(x)' = Held(x)
      BY <3>1 DEF Held
    <3>3. QED
      BY <2>6, <3>1, <3>2 DEF Locking, TypeOK, Commit, Accept, AnswerWith, Goto
  <2>7. CASE StartQueue(d)
    <3>1. UNCHANGED <<path, locked>>
      BY <2>7 DEF StartQueue, Goto
    <3>2. \A x \in Dispatcher : Held(x)' = Held(x)
      BY <3>1 DEF Held
    <3>3. QED
      BY <2>7, <3>1, <3>2 DEF Locking, TypeOK, StartQueue, Goto
  <2>8. CASE Respond(d)
    BY <2>8, ReleaseLocking DEF Respond
  <2>9. CASE RunUpdate(d)
    <3>1. request[d].type = "finish" /\ request[d] # NoRequest /\ pc[d] = "receipt"
      BY <2>9 DEF RunUpdate, Locking
    <3>2. CASE Parent[request[d].thread] # NoThread /\ path[d] = <<request[d].thread>>
      <4>1. /\ locked' = [locked EXCEPT ![d] = 0] /\ pc' = [pc EXCEPT ![d] = "locking"] /\ UNCHANGED request
            /\ path' = [path EXCEPT ![d] = <<Parent[request[d].thread]>>]
        BY <2>9, <3>2 DEF RunUpdate, Goto
      <4>2. Held(d)' = {} /\ \A x \in Dispatcher : x # d => Held(x)' = Held(x)
        BY <4>1 DEF Held, TypeOK
      <4>3. Len(<<Parent[request[d].thread]>>) = 1
        OBVIOUS
      <4>4. /\ locked'[d] = 0 /\ pc'[d] = "locking" /\ request'[d] = request[d] /\ Len(path'[d]) = 1
            /\ \A x \in Dispatcher : x # d => /\ pc'[x] = pc[x] /\ request'[x] = request[x]
                                            /\ locked'[x] = locked[x] /\ path'[x] = path[x]
        BY <4>1, <4>3 DEF TypeOK
      <4>5. QED
        BY <3>1, <4>2, <4>4 DEF Locking
    <3>3. CASE ~(Parent[request[d].thread] # NoThread /\ path[d] = <<request[d].thread>>)
      <4>1. Release({d})
        BY <2>9, <3>3 DEF RunUpdate
      <4>2. QED
        BY <4>1, ReleaseLocking
    <3>4. QED
      BY <3>2, <3>3
  <2>10. QED
    BY <1>2, <2>1, <2>2, <2>3, <2>4, <2>5, <2>6, <2>7, <2>8, <2>9 DEF Advance
<1>3. ASSUME NEW d \in Dispatcher, Refuse(d) PROVE Locking'
  <2>1. UNCHANGED <<path, locked>>
    BY <1>3 DEF Refuse, AnswerWith, Goto
  <2>2. \A x \in Dispatcher : Held(x)' = Held(x)
    BY <2>1 DEF Held
  <2>3. QED
    BY <1>3, <2>1, <2>2 DEF Locking, TypeOK, Refuse, AnswerWith, Goto
<1>4. ASSUME NEW d \in Dispatcher, StorageFails(d) PROVE Locking'
  <2>1. UNCHANGED <<path, locked>>
    BY <1>4 DEF StorageFails, Fault, AnswerWith, Goto
  <2>2. \A x \in Dispatcher : Held(x)' = Held(x)
    BY <2>1 DEF Held
  <2>3. QED
    BY <1>4, <2>1, <2>2 DEF Locking, TypeOK, StorageFails, Fault, AnswerWith, Goto
<1>5. ASSUME NEW F \in SUBSET Dispatcher, Interrupt(F) PROVE Locking'
  BY <1>5, ReleaseLocking DEF Interrupt
<1>6. CASE UNCHANGED vars
  <2>1. UNCHANGED <<pc, request, path, locked>>
    BY <1>6 DEF vars, fiberVars
  <2>2. \A x \in Dispatcher : Held(x)' = Held(x)
    BY <2>1 DEF Held
  <2>3. QED
    BY <2>1, <2>2 DEF Locking
<1>7. QED
  BY <1>1, <1>2, <1>3, <1>4, <1>5, <1>6 DEF Next, Crash


(* Dispatch d decides its command: it keeps a receipt that was absent, and *)
(* if the command has events it appends them.                              *)
Decides(d) ==
  /\ pc[d] = "planned" /\ pc'[d] \in {"following", "answering"}
  /\ Absent(request[d].id)
  /\ \E r \in Receipt :
       /\ r.thread = request[d].thread
       /\ receipts' = [receipts EXCEPT ![request[d].id] = r]
       /\ \/ UNCHANGED log
          \/ /\ r.status = "accepted" /\ r.sequence = Len(log) + 1
             /\ log' = Append(log, [id |-> request[d].id, thread |-> request[d].thread])

(* Receipts and log change only when a dispatch decides its command.       *)
LEMMA KeepDecides ==
  ASSUME TypeOK, Locking, NEW d \in Dispatcher, pc[d] = "planned",
         pc'[d] \in {"following", "answering"}, UNCHANGED log,
         NEW s \in {"accepted", "rejected"}, NEW n \in Nat, Keep(request[d], s, n)
  PROVE  UNCHANGED <<receipts, log>> \/ Decides(d)
<1>1. request[d] \in Request /\ request[d].thread \in Thread
  BY BusyHasRequest
<1>2. [status |-> s, thread |-> request[d].thread, sequence |-> n] \in Receipt
  BY <1>1 DEF Receipt
<1>3. QED
  BY <1>2 DEF Keep, Decides

(* The same for the transaction of a command with events.                  *)
LEMMA CommitDecides ==
  ASSUME TypeOK, Locking, NEW d \in Dispatcher, Commit(d)
  PROVE  /\ UNCHANGED <<receipts, log>> \/ Decides(d)
         /\ pc'[d] \in {"following", "answering"}
<1>1. request[d] \in Request /\ request[d].thread \in Thread /\ Len(log) + 1 \in Nat
  BY BusyHasRequest DEF Commit, TypeOK
<1>2. [status |-> "accepted", thread |-> request[d].thread, sequence |-> Len(log) + 1] \in Receipt
  BY <1>1 DEF Receipt
<1>3. pc'[d] \in {"following", "answering"}
  BY DEF Commit, Accept, AnswerWith, Goto, TypeOK
<1>4. QED
  BY <1>2, <1>3 DEF Commit, Decides, Reserved

(* Every step leaves the receipts and the log alone or decides a command.  *)
LEMMA StoreStep ==
  TypeOK /\ Locking /\ [Next]_vars =>
    UNCHANGED <<receipts, log>> \/ \E d \in Dispatcher : Decides(d)
<1> SUFFICES ASSUME TypeOK, Locking, [Next]_vars
             PROVE  UNCHANGED <<receipts, log>> \/ \E d \in Dispatcher : Decides(d)
  OBVIOUS
<1>1. ASSUME NEW d \in Dispatcher, Advance(d)
      PROVE  UNCHANGED <<receipts, log>> \/ Decides(d)
  <2>1. CASE CommitRejected(d)
    <3>1. pc[d] = "planned" /\ UNCHANGED log /\ pc'[d] = "answering"
      BY <2>1 DEF CommitRejected, AnswerWith, Goto, TypeOK
    <3>2. PICK n \in Latest(request[d].thread) : Keep(request[d], "rejected", n)
      BY <2>1 DEF CommitRejected
    <3>3. n \in Nat
      BY <3>2 DEF Latest
    <3>4. QED
      BY <3>1, <3>2, <3>3, KeepDecides
  <2>2. CASE CommitEmpty(d)
    <3>1. PICK n \in Latest(request[d].thread) :
            Keep(request[d], "accepted", n) /\ AnswerWith(d, "accepted", n)
      BY <2>2 DEF CommitEmpty
    <3>2. pc[d] = "planned" /\ UNCHANGED log /\ pc'[d] = "answering"
      BY <2>2, <3>1 DEF CommitEmpty, AnswerWith, Goto, TypeOK
    <3>3. n \in Nat
      BY <3>1 DEF Latest
    <3>4. QED
      BY <3>1, <3>2, <3>3, KeepDecides
  <2>3. CASE Commit(d)
    BY <2>3, CommitDecides
  <2>4. CASE Lock(d) \/ ReadReceipt(d) \/ MakePlan(d) \/ StartQueue(d) \/ Respond(d) \/ RunUpdate(d)
    BY <2>4 DEF Lock, ReadReceipt, MakePlan, StartQueue, Respond, RunUpdate, storeVars
  <2>5. QED
    BY <1>1, <2>1, <2>2, <2>3, <2>4 DEF Advance
<1>2. ASSUME NEW d \in Dispatcher, Refuse(d) \/ StorageFails(d) \/ \E q \in Request : Receive(d, q)
      PROVE  UNCHANGED <<receipts, log>>
  BY <1>2 DEF Refuse, StorageFails, Receive, storeVars
<1>3. ASSUME NEW F \in SUBSET Dispatcher, Interrupt(F) PROVE UNCHANGED <<receipts, log>>
  BY <1>3 DEF Interrupt, storeVars
<1>4. CASE UNCHANGED vars
  BY <1>4 DEF vars, storeVars
<1>5. QED
  BY <1>1, <1>2, <1>3, <1>4 DEF Next, Crash

(* An event belongs to a command that was accepted.                        *)
LEMMA EventHasReceipt ==
  ASSUME TypeOK, Logged, NEW i, i \in DOMAIN log
  PROVE  log[i].id \in CommandId /\ receipts[log[i].id].status = "accepted"
<1>1. log \in Seq([id : CommandId, thread : Thread])
  BY DEF TypeOK
<1>2. log[i] \in [id : CommandId, thread : Thread]
  BY <1>1, ElementType
<1>3. log[i].id \in CommandId
  BY <1>2
<1>4. receipts[log[i].id] = [status |-> "accepted", thread |-> log[i].thread, sequence |-> i]
  BY DEF Logged
<1>5. QED
  BY <1>3, <1>4

(* Events have their receipt, before and after a command is decided.       *)
LEMMA LoggedStep == TypeOK /\ Locking /\ Logged /\ [Next]_vars => Logged'
<1> SUFFICES ASSUME TypeOK, Locking, Logged, [Next]_vars PROVE Logged'
  OBVIOUS
<1>1. CASE UNCHANGED <<receipts, log>>
  BY <1>1 DEF Logged
<1>2. ASSUME NEW d \in Dispatcher, Decides(d) PROVE Logged'
  <2>1. request[d].id \in CommandId /\ Absent(request[d].id)
    BY <1>2, BusyHasRequest DEF Decides
  <2>2. PICK r \in Receipt :
          /\ r.thread = request[d].thread
          /\ receipts' = [receipts EXCEPT ![request[d].id] = r]
          /\ \/ UNCHANGED log
             \/ /\ r.status = "accepted" /\ r.sequence = Len(log) + 1
                /\ log' = Append(log, [id |-> request[d].id, thread |-> request[d].thread])
    BY <1>2 DEF Decides
  <2>3. ASSUME NEW i, i \in DOMAIN log
        PROVE  receipts'[log[i].id] = [status |-> "accepted", thread |-> log[i].thread, sequence |-> i]
    <3>1. log[i].id # request[d].id /\ log[i].id \in CommandId
      BY <2>1, <2>3, EventHasReceipt DEF Absent
    <3>2. QED
      BY <2>2, <2>3, <3>1 DEF Logged, TypeOK
  <2>4. CASE UNCHANGED log
    BY <2>3, <2>4 DEF Logged
  <2>5. CASE /\ r.status = "accepted" /\ r.sequence = Len(log) + 1
             /\ log' = Append(log, [id |-> request[d].id, thread |-> request[d].thread])
    <3>1. /\ Len(log') = Len(log) + 1
          /\ \A i \in DOMAIN log : log'[i] = log[i]
          /\ log'[Len(log) + 1] = [id |-> request[d].id, thread |-> request[d].thread]
          /\ DOMAIN log' = DOMAIN log \cup {Len(log) + 1}
      BY <2>5 DEF TypeOK
    <3>2. receipts'[request[d].id] = r
      BY <2>1, <2>2 DEF TypeOK
    <3>3. r = [status |-> "accepted", thread |-> request[d].thread, sequence |-> Len(log) + 1]
      BY <2>2, <2>5 DEF Receipt
    <3>4. QED
      BY <2>3, <3>1, <3>2, <3>3 DEF Logged
  <2>6. QED
    BY <2>2, <2>4, <2>5
<1>3. QED
  BY <1>1, <1>2, StoreStep

(* An answer that is true stays true.                                      *)
LEMMA StaysTruthful ==
  ASSUME TypeOK, Locking, [Next]_vars, NEW q \in Request, NEW a, Truthful(q, a)
  PROVE  Truthful(q, a)'
<1>1. CASE UNCHANGED <<receipts, log>>
  BY <1>1 DEF Truthful
<1>2. ASSUME NEW d \in Dispatcher, Decides(d) PROVE Truthful(q, a)'
  <2>1. request[d].id \in CommandId /\ Absent(request[d].id) /\ q.id \in CommandId
    BY <1>2, BusyHasRequest, ConstantsAssumption DEF Decides
  <2>2. CASE a.status \in {"accepted", "rejected"}
    <3>1. q.id # request[d].id
      BY <2>1, <2>2 DEF Truthful, Absent
    <3>2. receipts'[q.id] = receipts[q.id]
      BY <1>2, <2>1, <3>1 DEF Decides, TypeOK
    <3>3. QED
      BY <3>2 DEF Truthful
  <2>3. CASE a.status \notin {"accepted", "rejected"}
    BY <2>3 DEF Truthful
  <2>4. QED
    BY <2>2, <2>3
<1>3. QED
  BY <1>1, <1>2, StoreStep

(* Two dispatches past the locks do not work for the same thread.          *)
LEMMA OwnThreads ==
  ASSUME TypeOK, Locking, NEW d \in Dispatcher, NEW x \in Dispatcher, d # x,
         pc[d] \in {"receipt", "planning", "planned"}, request[d].type # "finish",
         pc[x] \in {"receipt", "planning", "planned"}, request[x].type # "finish"
  PROVE  request[d].thread # request[x].thread
<1>1. ASSUME NEW y \in Dispatcher, pc[y] \in {"receipt", "planning", "planned"},
             request[y].type # "finish"
      PROVE  request[y].thread \in Held(y)
  <2>1. PICK i \in DOMAIN path[y] : path[y][i] = request[y].thread
    BY <1>1 DEF Locking
  <2>2. locked[y] = Len(path[y]) /\ path[y] \in Seq(Thread)
    BY <1>1 DEF Locking, TypeOK
  <2>3. QED
    BY <2>1, <2>2 DEF Held
<1>2. QED
  BY <1>1 DEF Locking

(* A dispatch is planning because it was, or found no receipt, or made a plan. *)
LEMMA IntoPlanning ==
  ASSUME TypeOK, [Next]_vars, NEW x \in Dispatcher, pc'[x] \in {"planning", "planned"}
  PROVE  \/ ReadReceipt(x) /\ Absent(request[x].id)
         \/ MakePlan(x)
         \/ pc'[x] = pc[x] /\ request'[x] = request[x] /\ plan'[x] = plan[x]
<1> USE DEF TypeOK, storeVars, fiberVars
<1> DEFINE Goal == \/ ReadReceipt(x) /\ Absent(request[x].id)
                   \/ MakePlan(x)
                   \/ pc'[x] = pc[x] /\ request'[x] = request[x] /\ plan'[x] = plan[x]
<1>1. ASSUME NEW d \in Dispatcher, NEW q \in Request, Receive(d, q) PROVE Goal
  <2>1. CASE x = d
    BY <1>1, <2>1 DEF Absent, Receive, Goto, AnswerWith
  <2>2. CASE x # d
    BY <1>1, <2>2 DEF Receive, Goto, AnswerWith
  <2>3. QED
    BY <2>1, <2>2
<1>2. ASSUME NEW d \in Dispatcher, Advance(d) PROVE Goal
  <2>1. CASE Lock(d)
    <3>1. CASE x = d
      BY <2>1, <3>1 DEF Absent, Lock, Goto
    <3>2. CASE x # d
      BY <2>1, <3>2 DEF Lock, Goto
    <3>3. QED
      BY <3>1, <3>2
  <2>2. CASE ReadReceipt(d)
    <3>1. CASE x = d
      BY <2>2, <3>1 DEF Absent, ReadReceipt, Replay, Accept, AnswerWith, Goto
    <3>2. CASE x # d
      BY <2>2, <3>2 DEF ReadReceipt, Replay, Accept, AnswerWith, Goto
    <3>3. QED
      BY <3>1, <3>2
  <2>3. CASE MakePlan(d)
    <3>1. CASE x = d
      BY <2>3, <3>1 DEF Absent, MakePlan, Goto, Outcomes
    <3>2. CASE x # d
      BY <2>3, <3>2 DEF MakePlan, Goto, Outcomes
    <3>3. QED
      BY <3>1, <3>2
  <2>4. CASE CommitRejected(d)
    <3>1. CASE x = d
      BY <2>4, <3>1 DEF Absent, CommitRejected, Keep, AnswerWith, Goto
    <3>2. CASE x # d
      BY <2>4, <3>2 DEF CommitRejected, Keep, AnswerWith, Goto
    <3>3. QED
      BY <3>1, <3>2
  <2>5. CASE CommitEmpty(d)
    <3>1. CASE x = d
      BY <2>5, <3>1 DEF Absent, CommitEmpty, Keep, AnswerWith, Goto
    <3>2. CASE x # d
      BY <2>5, <3>2 DEF CommitEmpty, Keep, AnswerWith, Goto
    <3>3. QED
      BY <3>1, <3>2
  <2>6. CASE Commit(d)
    <3>1. CASE x = d
      BY <2>6, <3>1 DEF Absent, Commit, Accept, AnswerWith, Goto
    <3>2. CASE x # d
      BY <2>6, <3>2 DEF Commit, Accept, AnswerWith, Goto
    <3>3. QED
      BY <3>1, <3>2
  <2>7. CASE StartQueue(d)
    <3>1. CASE x = d
      BY <2>7, <3>1 DEF Absent, StartQueue, Goto
    <3>2. CASE x # d
      BY <2>7, <3>2 DEF StartQueue, Goto
    <3>3. QED
      BY <3>1, <3>2
  <2>8. CASE Respond(d)
    <3>1. CASE x = d
      BY <2>8, <3>1 DEF Absent, Respond, Release, Clear
    <3>2. CASE x # d
      BY <2>8, <3>2 DEF Respond, Release, Clear
    <3>3. QED
      BY <3>1, <3>2
  <2>9. CASE RunUpdate(d)
    <3>1. CASE x = d
      BY <2>9, <3>1 DEF Absent, RunUpdate, Release, Goto
    <3>2. CASE x # d
      BY <2>9, <3>2 DEF RunUpdate, Release, Goto
    <3>3. QED
      BY <3>1, <3>2
  <2>10. QED
    BY <1>2, <2>1, <2>2, <2>3, <2>4, <2>5, <2>6, <2>7, <2>8, <2>9 DEF Advance
<1>3. ASSUME NEW d \in Dispatcher, Refuse(d) PROVE Goal
  <2>1. CASE x = d
    BY <1>3, <2>1 DEF Absent, Refuse, AnswerWith, Goto
  <2>2. CASE x # d
    BY <1>3, <2>2 DEF Refuse, AnswerWith, Goto
  <2>3. QED
    BY <2>1, <2>2
<1>4. ASSUME NEW d \in Dispatcher, StorageFails(d) PROVE Goal
  <2>1. CASE x = d
    BY <1>4, <2>1 DEF Absent, StorageFails, Fault, AnswerWith, Goto
  <2>2. CASE x # d
    BY <1>4, <2>2 DEF StorageFails, Fault, AnswerWith, Goto
  <2>3. QED
    BY <2>1, <2>2
<1>5. ASSUME NEW F \in SUBSET Dispatcher, Interrupt(F) PROVE Goal
  BY <1>5 DEF Interrupt, Fault, Release, Clear
<1>6. CASE UNCHANGED vars
  BY <1>6 DEF vars, storeVars, fiberVars
<1>7. QED
  BY <1>1, <1>2, <1>3, <1>4, <1>5, <1>6 DEF Next, Crash

(* No other dispatch decides a command for the thread it is planned for.    *)
LEMMA UndecidedStep == TypeOK /\ Locking /\ Undecided /\ [Next]_vars => Undecided'
<1> SUFFICES ASSUME TypeOK, Locking, Undecided, [Next]_vars,
                    NEW x \in Dispatcher, pc'[x] \in {"planning", "planned"}
             PROVE  /\ request'[x].type # "finish"
                    /\ receipts'[request'[x].id].thread # request'[x].thread
                    /\ pc'[x] = "planned" /\ plan'[x] = "empty" => ~StartsQueue(request'[x])
  BY DEF Undecided, StartsQueue
<1>1. CASE ReadReceipt(x) /\ Absent(request[x].id)
  <2>1. /\ request'[x] = request[x] /\ UNCHANGED receipts /\ pc'[x] = "planning"
        /\ request[x].type # "finish"
    BY <1>1 DEF ReadReceipt, storeVars, Goto, Absent, TypeOK
  <2>2. request[x].id \in CommandId /\ request[x].thread \in Thread
    BY <1>1, BusyHasRequest DEF ReadReceipt
  <2>3. receipts[request[x].id] \in Receipt \cup {NoReceipt}
    BY <2>2 DEF TypeOK
  <2>4. receipts[request[x].id].thread = NoThread
    BY <1>1, <2>3 DEF Absent, Receipt, NoReceipt
  <2>5. QED
    BY <2>1, <2>2, <2>4, ConstantsAssumption
<1>2. CASE MakePlan(x)
  <2>1. /\ request'[x] = request[x] /\ UNCHANGED receipts /\ pc[x] = "planning"
        /\ plan'[x] \in Outcomes(request[x])
    BY <1>2 DEF MakePlan, storeVars, TypeOK
  <2>2. plan'[x] = "empty" => request[x].type = "settle"
    BY <2>1 DEF Outcomes
  <2>3. QED
    BY <2>1, <2>2 DEF Undecided, StartsQueue
<1>3. CASE pc'[x] = pc[x] /\ request'[x] = request[x] /\ plan'[x] = plan[x]
  <2>1. CASE UNCHANGED <<receipts, log>>
    BY <1>3, <2>1 DEF Undecided
  <2>2. ASSUME NEW d \in Dispatcher, Decides(d)
        PROVE  receipts'[request[x].id].thread # request[x].thread
    <3>1. d # x
      BY <1>3, <2>2 DEF Decides
    <3>2. request[d].thread # request[x].thread
      BY <1>3, <2>2, <3>1, OwnThreads DEF Decides, Undecided
    <3>3. request[d].id \in CommandId /\ request[x].id \in CommandId
      BY <1>3, <2>2, BusyHasRequest DEF Decides
    <3>4. PICK r \in Receipt : /\ r.thread = request[d].thread
                               /\ receipts' = [receipts EXCEPT ![request[d].id] = r]
      BY <2>2 DEF Decides
    <3>5. QED
      BY <1>3, <3>2, <3>3, <3>4 DEF Undecided, TypeOK
  <2>3. QED
    BY <1>3, <2>1, <2>2, StoreStep DEF Undecided
<1>4. QED
  BY <1>1, <1>2, <1>3, IntoPlanning

(* The queues that were started stay so.                                   *)
LEMMA StartedGrows == [Next]_vars => started \subseteq started'
<1> SUFFICES ASSUME [Next]_vars PROVE started \subseteq started'
  OBVIOUS
<1> USE DEF storeVars
<1>1. ASSUME NEW d \in Dispatcher, Advance(d) PROVE started \subseteq started'
  BY <1>1 DEF Advance, Lock, ReadReceipt, MakePlan, CommitRejected, CommitEmpty, Commit,
              StartQueue, Respond, RunUpdate
<1>2. ASSUME NEW d \in Dispatcher, Refuse(d) \/ StorageFails(d) \/ \E q \in Request : Receive(d, q)
      PROVE  started \subseteq started'
  BY <1>2 DEF Refuse, StorageFails, Receive
<1>3. ASSUME NEW F \in SUBSET Dispatcher, Interrupt(F) PROVE started \subseteq started'
  BY <1>3 DEF Interrupt
<1>4. QED
  BY <1>1, <1>2, <1>3 DEF Next, Crash, vars

(* What dispatch x is about to answer may be answered.                     *)
MayAnswer(x) ==
  /\ Truthful(request[x], answer[x])
  /\ pc[x] = "answering" /\ answer[x].status = "accepted" /\ StartsQueue(request[x])
       => request[x].id \in started

(* It suffices to look at the dispatches that a step changes.              *)
LEMMA AnsweringIf ==
  ASSUME TypeOK, Locking, Answering, [Next]_vars,
         \A a \in answers' : a \in answers \/ Truthful(a.request, a.answer)',
         \A x \in Dispatcher :
           \/ pc'[x] \notin {"following", "answering"}
           \/ pc'[x] = pc[x] /\ request'[x] = request[x] /\ answer'[x] = answer[x]
           \/ MayAnswer(x)'
  PROVE  Answering'
<1>1. ASSUME NEW a \in answers PROVE Truthful(a.request, a.answer)'
  <2>1. a.request \in Request /\ Truthful(a.request, a.answer)
    BY <1>1 DEF TypeOK, Answering
  <2>2. QED
    BY <2>1, StaysTruthful DEF Truthful
<1>2. ASSUME NEW x \in Dispatcher, pc'[x] \in {"following", "answering"}
      PROVE  MayAnswer(x)'
  <2>1. CASE pc'[x] = pc[x] /\ request'[x] = request[x] /\ answer'[x] = answer[x]
    <3>1. MayAnswer(x) /\ request[x] \in Request
      BY <1>2, <2>1, BusyHasRequest DEF Answering, MayAnswer
    <3>2. Truthful(request[x], answer[x])'
      BY <2>1, <3>1, StaysTruthful DEF MayAnswer, Truthful
    <3>3. QED
      BY <2>1, <3>1, <3>2, StartedGrows DEF MayAnswer, StartsQueue
  <2>2. QED
    BY <1>2, <2>1
<1>3. QED
  BY <1>1, <1>2 DEF Answering, MayAnswer

(* After a receipt is kept, the own thread's is the one that was offered.   *)
LEMMA KeptReceipt ==
  ASSUME TypeOK, Locking, Undecided, NEW d \in Dispatcher, pc[d] = "planned",
         NEW s \in {"accepted", "rejected"}, NEW n \in Nat, Keep(request[d], s, n)
  PROVE  /\ receipts'[request[d].id].status # "absent"
         /\ receipts'[request[d].id].thread = request[d].thread =>
              /\ receipts'[request[d].id].status = s
              /\ receipts'[request[d].id].sequence = n
<1>1. request[d].id \in CommandId
  BY BusyHasRequest
<1>2. CASE Absent(request[d].id)
  BY <1>1, <1>2 DEF Keep, TypeOK
<1>3. CASE ~Absent(request[d].id)
  BY <1>3 DEF Keep, Absent, Undecided
<1>4. QED
  BY <1>2, <1>3

(* An answer that decides nothing may always be given.                     *)
LEMMA MayAnswerIndefinite ==
  ASSUME NEW d \in Dispatcher, answer'[d].status \notin {"accepted", "rejected"}
  PROVE  MayAnswer(d)'
BY DEF MayAnswer, Truthful

(* A command may be answered as rejected where its receipt says so.        *)
LEMMA MayAnswerRejected ==
  ASSUME TypeOK, NEW d \in Dispatcher, AnswerWith(d, "rejected", 0), request' = request,
         receipts'[request[d].id].status # "absent",
         receipts'[request[d].id].thread = request[d].thread =>
           receipts'[request[d].id].status = "rejected"
  PROVE  MayAnswer(d)'
<1>1. answer'[d] = [status |-> "rejected", sequence |-> 0]
  BY DEF AnswerWith, TypeOK
<1>2. QED
  BY <1>1 DEF MayAnswer, Truthful

(* The fibers that end are idle, the others are as they were.              *)
LEMMA ReleaseEnds ==
  ASSUME TypeOK, NEW F \in SUBSET Dispatcher, Release(F), NEW x \in Dispatcher
  PROVE  \/ pc'[x] = "idle"
         \/ pc'[x] = pc[x] /\ request'[x] = request[x] /\ answer'[x] = answer[x]
<1>1. CASE x \in F
  BY <1>1 DEF Release
<1>2. CASE x \notin F
  BY <1>2 DEF Release
<1>3. QED
  BY <1>1, <1>2

(* A command that is answered as its receipt says is followed up first.    *)
LEMMA MayAnswerAccept ==
  ASSUME TypeOK, NEW d \in Dispatcher, NEW n, Accept(d, n), request' = request,
         receipts'[request[d].id].status # "absent",
         receipts'[request[d].id].thread = request[d].thread =>
           /\ receipts'[request[d].id].status = "accepted"
           /\ receipts'[request[d].id].sequence = n
  PROVE  MayAnswer(d)'
<1>1. /\ answer'[d] = [status |-> "accepted", sequence |-> n]
      /\ pc'[d] = IF StartsQueue(request[d]) THEN "following" ELSE "answering"
  BY DEF Accept, Goto, TypeOK
<1>2. QED
  BY <1>1 DEF MayAnswer, Truthful, StartsQueue

(* Answers agree with the receipts after every step.                       *)
LEMMA AnsweringStep == TypeOK /\ Locking /\ Undecided /\ Answering /\ [Next]_vars => Answering'
<1> SUFFICES ASSUME TypeOK, Locking, Undecided, Answering, [Next]_vars PROVE Answering'
  OBVIOUS
<1> USE DEF storeVars, fiberVars
<1>1. ASSUME NEW d \in Dispatcher, NEW q \in Request, Receive(d, q) PROVE Answering'
  <2>1. \A x \in Dispatcher \ {d} :
          pc'[x] = pc[x] /\ request'[x] = request[x] /\ answer'[x] = answer[x]
    BY <1>1 DEF TypeOK, Receive, Goto, AnswerWith
  <2>2. pc'[d] \in {"following", "answering"} => answer'[d].status \notin {"accepted", "rejected"}
    BY <1>1 DEF TypeOK, Receive, Goto, AnswerWith
  <2>3. UNCHANGED answers
    BY <1>1 DEF Receive, Goto
  <2>4. QED
    BY <2>1, <2>2, <2>3, AnsweringIf, MayAnswerIndefinite
<1>2. ASSUME NEW d \in Dispatcher, Advance(d) PROVE Answering'
  <2>1. CASE Lock(d)
    <3>1. \A x \in Dispatcher \ {d} :
            pc'[x] = pc[x] /\ request'[x] = request[x] /\ answer'[x] = answer[x]
      BY <2>1 DEF TypeOK, Lock, Goto, AnswerWith
    <3>2. pc'[d] \in {"following", "answering"} => answer'[d].status \notin {"accepted", "rejected"}
      BY <2>1 DEF TypeOK, Lock, Goto, AnswerWith
    <3>3. UNCHANGED answers
      BY <2>1 DEF Lock, Goto
    <3>4. QED
      BY <3>1, <3>2, <3>3, AnsweringIf, MayAnswerIndefinite
  <2>2. CASE ReadReceipt(d)
    <3>1. /\ UNCHANGED answers
          /\ \A x \in Dispatcher \ {d} :
               pc'[x] = pc[x] /\ request'[x] = request[x] /\ answer'[x] = answer[x]
      BY <2>2 DEF TypeOK, ReadReceipt, Replay, Accept, AnswerWith, Goto, AnswerWith
    <3>2. request' = request /\ receipts' = receipts
      BY <2>2 DEF ReadReceipt
    <3>3. CASE receipts[request[d].id].status \in {"absent", "rejected"}
      <4>1. CASE receipts[request[d].id].status = "absent"
        <5>1. pc'[d] = "planning"
          BY <2>2, <4>1 DEF ReadReceipt, Goto, TypeOK
        <5>2. QED
          BY <3>1, <5>1, AnsweringIf
      <4>2. CASE receipts[request[d].id].status = "rejected"
        <5>1. MayAnswer(d)'
          BY <2>2, <3>2, <4>2, MayAnswerRejected DEF ReadReceipt
        <5>2. QED
          BY <3>1, <5>1, AnsweringIf
      <4>3. QED
        BY <3>3, <4>1, <4>2
    <3>4. CASE receipts[request[d].id].status = "accepted"
      <4>1. \/ answer'[d].status = "conflict"
            \/ Accept(d, receipts[request[d].id].sequence)
        BY <2>2, <3>4 DEF ReadReceipt, AnswerWith, Replay, TypeOK
      <4>2. MayAnswer(d)'
        BY <3>2, <3>4, <4>1, MayAnswerIndefinite, MayAnswerAccept
      <4>3. QED
        BY <3>1, <4>2, AnsweringIf
    <3>5. receipts[request[d].id].status \in {"absent", "rejected", "accepted"}
      <4>1. receipts[request[d].id] \in Receipt \cup {NoReceipt}
        BY <2>2, BusyHasRequest DEF ReadReceipt, TypeOK
      <4>2. QED
        BY <4>1 DEF Receipt, NoReceipt
    <3>6. QED
      BY <3>3, <3>4, <3>5
  <2>3. CASE MakePlan(d)
    <3>1. \A x \in Dispatcher \ {d} :
            pc'[x] = pc[x] /\ request'[x] = request[x] /\ answer'[x] = answer[x]
      BY <2>3 DEF TypeOK, MakePlan, Goto, Outcomes, AnswerWith
    <3>2. pc'[d] \in {"following", "answering"} => answer'[d].status \notin {"accepted", "rejected"}
      BY <2>3 DEF TypeOK, MakePlan, Goto, Outcomes, AnswerWith
    <3>3. UNCHANGED answers
      BY <2>3 DEF MakePlan, Goto, Outcomes
    <3>4. QED
      BY <3>1, <3>2, <3>3, AnsweringIf, MayAnswerIndefinite
  <2>4. CASE CommitRejected(d)
    <3>1. /\ UNCHANGED answers
          /\ \A x \in Dispatcher \ {d} :
               pc'[x] = pc[x] /\ request'[x] = request[x] /\ answer'[x] = answer[x]
      BY <2>4 DEF TypeOK, CommitRejected, Keep, AnswerWith, Goto, AnswerWith
    <3>2. PICK n \in Latest(request[d].thread) : Keep(request[d], "rejected", n)
      BY <2>4 DEF CommitRejected
    <3>3. n \in Nat
      BY <3>2 DEF Latest
    <3>4. /\ receipts'[request[d].id].status # "absent"
          /\ receipts'[request[d].id].thread = request[d].thread =>
               receipts'[request[d].id].status = "rejected"
      BY <2>4, <3>2, <3>3, KeptReceipt DEF CommitRejected
    <3>5. AnswerWith(d, "rejected", 0) /\ request' = request
      BY <2>4 DEF CommitRejected
    <3>6. MayAnswer(d)'
      BY <3>4, <3>5, MayAnswerRejected
    <3>7. QED
      BY <3>1, <3>6, AnsweringIf
  <2>5. CASE CommitEmpty(d)
    <3>1. /\ UNCHANGED answers
          /\ \A x \in Dispatcher \ {d} :
               pc'[x] = pc[x] /\ request'[x] = request[x] /\ answer'[x] = answer[x]
      BY <2>5 DEF TypeOK, CommitEmpty, Keep, AnswerWith, Goto, AnswerWith
    <3>2. PICK n \in Latest(request[d].thread) : Keep(request[d], "accepted", n) /\ AnswerWith(d, "accepted", n)
      BY <2>5 DEF CommitEmpty
    <3>3. n \in Nat
      BY <3>2 DEF Latest
    <3>4. /\ receipts'[request[d].id].status # "absent"
          /\ receipts'[request[d].id].thread = request[d].thread =>
               /\ receipts'[request[d].id].status = "accepted"
               /\ receipts'[request[d].id].sequence = n
      BY <2>5, <3>2, <3>3, KeptReceipt DEF CommitEmpty
    <3>5. request' = request /\ ~StartsQueue(request[d])
      BY <2>5 DEF CommitEmpty, Undecided
    <3>6. Accept(d, n)
      BY <3>2, <3>5 DEF Accept, AnswerWith
    <3>7. MayAnswer(d)'
      BY <3>4, <3>5, <3>6, MayAnswerAccept
    <3>8. QED
      BY <3>1, <3>7, AnsweringIf
  <2>6. CASE Commit(d)
    <3>1. /\ UNCHANGED answers
          /\ \A x \in Dispatcher \ {d} :
               pc'[x] = pc[x] /\ request'[x] = request[x] /\ answer'[x] = answer[x]
      BY <2>6 DEF TypeOK, Commit, Accept, AnswerWith, Goto, AnswerWith
    <3>2. request' = request /\ request[d].id \in CommandId
      BY <2>6, BusyHasRequest DEF Commit
    <3>3. CASE Reserved(request[d].id)
      <4>1. /\ UNCHANGED receipts
            /\ receipts[request[d].id].thread # request[d].thread
            /\ receipts[request[d].id].status # "absent"
        BY <2>6, <3>3 DEF Commit, Undecided, Reserved, Absent
      <4>2. \/ answer'[d] = [status |-> "rejected", sequence |-> 0]
            \/ Accept(d, receipts[request[d].id].sequence)
        BY <2>6, <3>3 DEF Commit, AnswerWith, TypeOK
      <4>3. MayAnswer(d)'
        BY <3>2, <4>1, <4>2, MayAnswerAccept DEF MayAnswer, Truthful
      <4>4. QED
        BY <3>1, <4>3, AnsweringIf
    <3>4. CASE ~Reserved(request[d].id)
      <4>1. /\ receipts' = [receipts EXCEPT ![request[d].id] = [status |-> "accepted", thread |-> request[d].thread, sequence |-> Len(log) + 1]]
            /\ Accept(d, Len(log) + 1)
        BY <2>6, <3>4 DEF Commit
      <4>2. receipts'[request[d].id] = [status |-> "accepted", thread |-> request[d].thread, sequence |-> Len(log) + 1]
        BY <3>2, <4>1 DEF TypeOK
      <4>3. MayAnswer(d)'
        BY <3>2, <4>1, <4>2, MayAnswerAccept
      <4>4. QED
        BY <3>1, <4>3, AnsweringIf
    <3>5. QED
      BY <3>3, <3>4
  <2>7. CASE StartQueue(d)
    <3>1. /\ UNCHANGED answers
          /\ \A x \in Dispatcher \ {d} :
               pc'[x] = pc[x] /\ request'[x] = request[x] /\ answer'[x] = answer[x]
      BY <2>7 DEF TypeOK, StartQueue, Goto, AnswerWith
    <3>2. /\ UNCHANGED <<request, answer, receipts>>
          /\ request[d].id \in started'
          /\ Truthful(request[d], answer[d])
      BY <2>7 DEF StartQueue, Answering
    <3>3. MayAnswer(d)'
      BY <3>2 DEF MayAnswer, Truthful
    <3>4. QED
      BY <3>1, <3>3, AnsweringIf
  <2>8. CASE Respond(d)
    <3>1. request[d] \in Request /\ Truthful(request[d], answer[d])
      BY <2>8, BusyHasRequest DEF Respond, Answering
    <3>2. Truthful(request[d], answer[d]) /\ UNCHANGED receipts /\ answers' = answers \cup {[request |-> request[d], answer |-> answer[d]]}
      BY <2>8, <3>1 DEF Respond
    <3>3. \A a \in answers' : a \in answers \/ Truthful(a.request, a.answer)'
      BY <3>2 DEF Truthful
    <3>4. \A x \in Dispatcher : \/ pc'[x] = "idle"
                                \/ pc'[x] = pc[x] /\ request'[x] = request[x] /\ answer'[x] = answer[x]
      BY <2>8, ReleaseEnds DEF Respond
    <3>5. QED
      BY <3>3, <3>4, AnsweringIf
  <2>9. CASE RunUpdate(d)
    <3>1. \A x \in Dispatcher \ {d} :
            pc'[x] = pc[x] /\ request'[x] = request[x] /\ answer'[x] = answer[x]
      BY <2>9 DEF TypeOK, RunUpdate, Release, Goto, AnswerWith
    <3>2. pc'[d] \in {"following", "answering"} => answer'[d].status \notin {"accepted", "rejected"}
      BY <2>9 DEF TypeOK, RunUpdate, Release, Goto, AnswerWith
    <3>3. UNCHANGED answers
      BY <2>9 DEF RunUpdate, Release, Goto
    <3>4. QED
      BY <3>1, <3>2, <3>3, AnsweringIf, MayAnswerIndefinite
  <2>10. QED
    BY <1>2, <2>1, <2>2, <2>3, <2>4, <2>5, <2>6, <2>7, <2>8, <2>9 DEF Advance
<1>3. ASSUME NEW d \in Dispatcher, Refuse(d) PROVE Answering'
  <2>1. \A x \in Dispatcher \ {d} :
          pc'[x] = pc[x] /\ request'[x] = request[x] /\ answer'[x] = answer[x]
    BY <1>3 DEF TypeOK, Refuse, AnswerWith, Goto, AnswerWith
  <2>2. pc'[d] \in {"following", "answering"} => answer'[d].status \notin {"accepted", "rejected"}
    BY <1>3 DEF TypeOK, Refuse, AnswerWith, Goto, AnswerWith
  <2>3. UNCHANGED answers
    BY <1>3 DEF Refuse, AnswerWith, Goto
  <2>4. QED
    BY <2>1, <2>2, <2>3, AnsweringIf, MayAnswerIndefinite
<1>4. ASSUME NEW d \in Dispatcher, StorageFails(d) PROVE Answering'
  <2>1. \A x \in Dispatcher \ {d} :
          pc'[x] = pc[x] /\ request'[x] = request[x] /\ answer'[x] = answer[x]
    BY <1>4 DEF TypeOK, StorageFails, Fault, AnswerWith, Goto, AnswerWith
  <2>2. pc'[d] \in {"following", "answering"} => answer'[d].status \notin {"accepted", "rejected"}
    BY <1>4 DEF TypeOK, StorageFails, Fault, AnswerWith, Goto, AnswerWith
  <2>3. UNCHANGED answers
    BY <1>4 DEF StorageFails, Fault, AnswerWith, Goto
  <2>4. QED
    BY <2>1, <2>2, <2>3, AnsweringIf, MayAnswerIndefinite
<1>5. ASSUME NEW F \in SUBSET Dispatcher, Interrupt(F) PROVE Answering'
  <2>1. /\ UNCHANGED answers
        /\ \A x \in Dispatcher : \/ pc'[x] = "idle"
                                 \/ pc'[x] = pc[x] /\ request'[x] = request[x] /\ answer'[x] = answer[x]
    BY <1>5, ReleaseEnds DEF Interrupt
  <2>2. QED
    BY <2>1, AnsweringIf
<1>6. CASE UNCHANGED vars
  <2>1. UNCHANGED <<answers, pc, request, answer>>
    BY <1>6 DEF vars
  <2>2. QED
    BY <2>1, AnsweringIf
<1>7. QED
  BY <1>1, <1>2, <1>3, <1>4, <1>5, <1>6 DEF Next, Crash

(* Answers are given by Respond alone.                                     *)
LEMMA AnswersStep == [Next]_vars => UNCHANGED answers \/ \E d \in Dispatcher : Respond(d)
<1> SUFFICES ASSUME [Next]_vars PROVE UNCHANGED answers \/ \E d \in Dispatcher : Respond(d)
  OBVIOUS
<1>1. ASSUME NEW d \in Dispatcher, Advance(d), ~Respond(d) PROVE UNCHANGED answers
  BY <1>1 DEF Advance, Lock, ReadReceipt, MakePlan, CommitRejected, CommitEmpty, Commit,
              StartQueue, RunUpdate
<1>2. ASSUME NEW d \in Dispatcher, Refuse(d) \/ StorageFails(d) \/ \E q \in Request : Receive(d, q)
      PROVE  UNCHANGED answers
  BY <1>2 DEF Refuse, StorageFails, Receive
<1>3. ASSUME NEW F \in SUBSET Dispatcher, Interrupt(F) PROVE UNCHANGED answers
  BY <1>3 DEF Interrupt
<1>4. CASE UNCHANGED vars
  BY <1>4 DEF vars
<1>5. QED
  BY <1>1, <1>2, <1>3, <1>4 DEF Next, Crash

(* A resumed queue is reported only when it was started.                   *)
LEMMA FollowedUpStep == TypeOK /\ Answering /\ FollowedUp /\ [Next]_vars => FollowedUp'
<1> SUFFICES ASSUME TypeOK, Answering, FollowedUp, [Next]_vars PROVE FollowedUp'
  OBVIOUS
<1>1. CASE UNCHANGED answers
  BY <1>1, StartedGrows DEF FollowedUp, StartsQueue
<1>2. ASSUME NEW d \in Dispatcher, Respond(d) PROVE FollowedUp'
  <2>1. /\ answers' = answers \cup {[request |-> request[d], answer |-> answer[d]]}
        /\ pc[d] = "answering"
    BY <1>2 DEF Respond
  <2>2. answer[d].status = "accepted" /\ StartsQueue(request[d]) => request[d].id \in started
    BY <2>1 DEF Answering
  <2>3. QED
    BY <2>1, <2>2, StartedGrows DEF FollowedUp, StartsQueue
<1>3. QED
  BY <1>1, <1>2, AnswersStep

(* IInv holds in every reachable state.                                    *)
THEOREM Invariance == Spec => []IInv
<1>1. IInv /\ [Next]_vars => IInv'
  BY TypeStep, LockingStep, LoggedStep, UndecidedStep, AnsweringStep, FollowedUpStep DEF IInv
<1>2. QED
  BY InitIInv, <1>1, PTL DEF Spec

(* The state of the dispatch keeps its types.                              *)
THEOREM TypeCorrect == Spec => []TypeOK
<1>1. IInv => TypeOK
  BY DEF IInv
<1>2. QED
  BY <1>1, Invariance, PTL

(* The events of a command are committed at most once, however often it is *)
(* sent (the receipt's insert in commitCommand).                           *)
THEOREM AppliedAtMostOnce == Spec => []AppliedOnce
<1>1. ASSUME Logged, NEW i, i \in DOMAIN log, NEW j, j \in DOMAIN log, log[i].id = log[j].id
      PROVE  i = j
  <2>1. /\ receipts[log[i].id] = [status |-> "accepted", thread |-> log[i].thread, sequence |-> i]
        /\ receipts[log[j].id] = [status |-> "accepted", thread |-> log[j].thread, sequence |-> j]
    BY <1>1 DEF Logged
  <2>2. QED
    BY <1>1, <2>1
<1>2. IInv => AppliedOnce
  BY <1>1 DEF IInv, AppliedOnce
<1>3. QED
  BY <1>2, Invariance, PTL

(* A resume that was reported as accepted has started the queue.           *)
THEOREM QueueFollowedUp == Spec => []FollowedUp
<1>1. IInv => FollowedUp
  BY DEF IInv
<1>2. QED
  BY <1>1, Invariance, PTL

(* Nothing is told, or decided, when the receipts and answers stay.        *)
LEMMA LedgerStutter == UNCHANGED <<receipts, answers>> => UNCHANGED <<Decided, Told>>
BY DEF Decided, Told, Definite

(* Keeping the receipt of a command is a decision of the ledger.           *)
LEMMA LedgerDecides ==
  ASSUME IInv, UNCHANGED answers, NEW d \in Dispatcher, Decides(d)
  PROVE  Ledger!Decide(request[d].id) /\ request[d].id \in CommandId
<1> DEFINE c == request[d].id
<1> USE DEF IInv
<1>1. c \in CommandId /\ request[d].thread \in Thread
  BY BusyHasRequest DEF Decides
<1>2. PICK r \in Receipt : receipts' = [receipts EXCEPT ![c] = r]
  BY DEF Decides
<1>3. receipts[c] = NoReceipt
  BY <1>1 DEF Decides, Absent, TypeOK, Receipt
<1>4. receipts'[c] = r /\ \A x \in CommandId \ {c} : receipts'[x] = receipts[x]
  BY <1>1, <1>2 DEF TypeOK
<1>5. Decided[c] = Ledger!Undecided
  BY <1>1, <1>3 DEF Decided, NoReceipt, Ledger!Undecided
<1>6. Decided'[c] \in Ledger!Decision
  <2>1. Decided'[c] = [status |-> r.status, sequence |-> IF r.status = "accepted" THEN r.sequence ELSE 0]
    BY <1>1, <1>4 DEF Decided
  <2>2. r.status \in {"accepted", "rejected"} /\ r.sequence \in Nat
    BY DEF Receipt
  <2>3. QED
    BY <2>1, <2>2 DEF Ledger!Decision
<1>7. Decided' = [Decided EXCEPT ![c] = Decided'[c]]
  BY <1>1, <1>4 DEF Decided
<1>8. \A a \in answers : Definite(a)' <=> Definite(a)
  <2>1. ASSUME NEW a \in answers, a.request.id = c
        PROVE  a.answer.status \notin {"accepted", "rejected"}
    BY <1>3, <2>1 DEF Answering, Truthful, NoReceipt
  <2>2. ASSUME NEW a \in answers, a.request.id # c
        PROVE  receipts'[a.request.id] = receipts[a.request.id]
    <3>1. a.request.id \in CommandId
      BY ConstantsAssumption, <2>2 DEF TypeOK
    <3>2. QED
      BY <1>4, <2>2, <3>1
  <2>3. QED
    BY <2>1, <2>2 DEF Definite
<1>9. Told' = Told
  BY <1>8 DEF Told
<1>10. QED
  BY <1>1, <1>5, <1>6, <1>7, <1>9 DEF Ledger!Decide

(* A definite answer tells what the ledger decided.                        *)
LEMMA LedgerTells ==
  ASSUME IInv, NEW d \in Dispatcher, Respond(d)
  PROVE  [Ledger!Next]_<<Decided, Told>>
<1> DEFINE a == [request |-> request[d], answer |-> answer[d]]
<1> DEFINE c == request[d].id
<1> USE DEF IInv
<1>1. /\ answers' = answers \cup {a} /\ UNCHANGED receipts /\ pc[d] = "answering"
      /\ Decided' = Decided
  BY DEF Respond, storeVars, Decided
<1>2. /\ request[d] \in Request
      /\ c \in CommandId
      /\ request[d].thread \in Thread
      /\ answer[d] \in Answer
  BY <1>1, BusyHasRequest DEF TypeOK
<1>3. \A b : Definite(b)' <=> Definite(b)
  BY <1>1 DEF Definite
<1>4. CASE ~Definite(a)
  <2>1. Told' = Told
    BY <1>1, <1>3, <1>4 DEF Told
  <2>2. QED
    BY <1>1, <2>1
<1>5. CASE Definite(a)
  <2>1. Told' = Told \cup {[id |-> c, answer |-> answer[d]]}
    BY <1>1, <1>3, <1>5 DEF Told
  <2>2. receipts[c].status # "absent" /\ receipts[c] \in Receipt \cup {NoReceipt}
    BY <1>1, <1>2, <1>5 DEF Definite, Answering, Truthful, TypeOK
  <2>3. receipts[c].thread = request[d].thread
    BY <1>5, <2>2, ConstantsAssumption DEF Definite, Receipt, NoReceipt
  <2>4. /\ answer[d].status = receipts[c].status
        /\ answer[d].sequence = IF receipts[c].status = "accepted" THEN receipts[c].sequence ELSE 0
    BY <1>1, <1>5, <2>3 DEF Definite, Answering, Truthful
  <2>5. answer[d] = Decided[c]
    BY <1>2, <2>4 DEF Decided, Answer
  <2>6. Decided[c] # Ledger!Undecided
    BY <1>2, <2>2 DEF Decided, Ledger!Undecided
  <2>7. QED
    BY <1>1, <1>2, <2>1, <2>5, <2>6 DEF Ledger!Next, Ledger!Tell
<1>6. QED
  BY <1>4, <1>5

(* The dispatch implements the ledger of decided commands.                 *)
THEOREM DispatchImplementsLedger == Spec => ImplementsLedger
<1>1. Init => Ledger!Init
  BY DEF Init, Ledger!Init, Ledger!Undecided, Decided, Told, NoReceipt
<1>2. IInv /\ [Next]_vars => [Ledger!Next]_<<Decided, Told>>
  <2> SUFFICES ASSUME IInv, [Next]_vars PROVE [Ledger!Next]_<<Decided, Told>>
    OBVIOUS
  <2>1. CASE UNCHANGED answers /\ UNCHANGED <<receipts, log>>
    BY <2>1, LedgerStutter
  <2>2. CASE UNCHANGED answers /\ \E d \in Dispatcher : Decides(d)
    BY <2>2, LedgerDecides DEF Ledger!Next
  <2>3. CASE \E d \in Dispatcher : Respond(d)
    BY <2>3, LedgerTells
  <2>4. QED
    BY <2>1, <2>2, <2>3, AnswersStep, StoreStep DEF IInv
<1>3. QED
  BY <1>1, <1>2, Invariance, PTL DEF Spec, ImplementsLedger, Ledger!Spec

-----------------------------------------------------------------------------
(* Plans and locks.                                                        *)

(* A thread that may have side chats: it was there from the start, and not *)
(* as a side chat.                                                         *)
Root == {t \in InitialThreads : SideChats[t] = NoThread}

(* The sources of forks are roots, so FirstLocks never skips their locks   *)
(* but for a fork that has been made; a fork's thread is made by nothing   *)
(* else.                                                                   *)
SourcesSettled ==
  /\ \A t \in Thread : SideChats[t] \in Root \cup {NoThread}
  /\ \A q \in Request : q.type = "fork" =>
       /\ q.source \in Root
       /\ q.thread \notin InitialThreads
       /\ \A x \in Request :
            x.type \in {"create", "branch", "fork"} /\ x.thread = q.thread => x = q

(* A root is never undone and never becomes a side chat.                   *)
Roots == \A t \in Root : life[t] # "none" /\ sideOf[t] = NoThread

(* Side chats are those of roots.                                          *)
Parents == \A t \in Thread : sideOf[t] \in Root \cup {NoThread}

(* The thread of a fork is there only after the fork was accepted.         *)
ForkTargets ==
  \A q \in Request : q.type = "fork" /\ life[q.thread] # "none" => ~Absent(q.id)

(* The locks a command needs are on its path, once it goes on to plan.     *)
OnPath(d) ==
  LET q == request[d]
  IN  /\ pc[d] \in {"locking", "receipt"} /\ q.type = "fork" =>
           q.source \in LocksOf(d) \/ ~Absent(q.id)
      /\ pc[d] \in {"planning", "planned"} /\ q.type = "fork" => q.source \in LocksOf(d)
      /\ pc[d] \in {"locking", "receipt", "planning", "planned"} /\ q.type = "message" =>
           Parent[q.thread] \in LocksOf(d) \cup {NoThread}
      /\ pc[d] = "following" => locked[d] = Len(path[d]) /\ q.type = "resume"

(* A deletion takes the lock of its thread first; from then on it has all  *)
(* live side chats of the thread on its path, and no root besides.         *)
Cascade(d) ==
  pc[d] \in {"locking", "receipt", "planning", "planned"} /\ request[d].type = "delete" =>
    /\ locked[d] = 0 => path[d] = <<request[d].thread>>
    /\ locked[d] > 0 =>
         /\ path[d][1] = request[d].thread
         /\ \A i \in DOMAIN path[d] :
              i > 1 => path[d][i] \notin Root /\ life[path[d][i]] # "none"
         /\ LiveSideChats(request[d].thread) \subseteq LocksOf(d)

(* What a plan has found is still so when it is committed.                 *)
PlanHolds(d) ==
  LET q == request[d]
  IN  pc[d] = "planned" /\ plan[d] = "events" =>
        /\ q.type \in {"create", "branch", "fork"} => life[q.thread] = "none"
        /\ q.type = "fork" => Live(q.source)
        /\ q.type = "branch" => life[q.source] # "none" /\ ~IsSideChat(q.source)
        /\ q.type = "delete" => life[q.thread] # "none"

(* No plan has been overtaken, but for what it read without a lock.        *)
NotStale == \A d \in Dispatcher : pc[d] = "planned" => moved[d] \subseteq Unlocked(request[d])

(* The inductive invariant besides IInv.                                   *)
ThreadsSound == Roots /\ Parents /\ ForkTargets /\ NoOrphan
DispatchesSound == \A d \in Dispatcher : OnPath(d) /\ Cascade(d) /\ PlanHolds(d)

PInv == ThreadsSound /\ DispatchesSound /\ NotStale

(* What a step of d leaves as it is for another dispatch x.                *)
Undisturbed(x) ==
  /\ pc'[x] = pc[x] /\ request'[x] = request[x] /\ path'[x] = path[x]
  /\ locked'[x] = locked[x] /\ plan'[x] = plan[x]

(* A receipt is never taken back.                                          *)
ReceiptsStay == \A c \in CommandId : ~Absent(c) => ~Absent(c)'

(* What the locks a dispatch needs are when it holds all of them.          *)
LEMMA HeldLocks ==
  ASSUME TypeOK, NEW d \in Dispatcher, locked[d] = Len(path[d])
  PROVE  Held(d) = LocksOf(d)
<1>1. path[d] \in Seq(Thread)
  BY DEF TypeOK
<1>2. DOMAIN path[d] = 1..locked[d]
  BY <1>1
<1>3. QED
  BY <1>2 DEF Held, LocksOf

(* Two dispatches that hold all their locks share none.                    *)
LEMMA LocksApart ==
  ASSUME TypeOK, Locking, NEW d \in Dispatcher, NEW x \in Dispatcher, d # x,
         locked[d] = Len(path[d]), locked[x] = Len(path[x])
  PROVE  LocksOf(d) \cap LocksOf(x) = {}
BY HeldLocks DEF Locking

(* Every step keeps the receipts there are.                                *)
LEMMA ReceiptsStayStep ==
  ASSUME TypeOK, Locking, [Next]_vars
  PROVE  ReceiptsStay
<1>1. ASSUME NEW d \in Dispatcher, Decides(d), NEW c \in CommandId, ~Absent(c)
      PROVE  ~Absent(c)'
  <2>1. c # request[d].id
    BY <1>1 DEF Decides
  <2>2. receipts'[c] = receipts[c]
    BY <1>1, <2>1 DEF Decides, TypeOK
  <2>3. QED
    BY <1>1, <2>2 DEF Absent
<1>2. CASE UNCHANGED <<receipts, log>>
  BY <1>2 DEF ReceiptsStay, Absent
<1>3. QED
  BY <1>1, <1>2, StoreStep DEF ReceiptsStay

(* The threads stay sound while none of them changes.                      *)
LEMMA ThreadsUnchanged ==
  ASSUME ThreadsSound, ReceiptsStay, UNCHANGED <<life, sideOf>>
  PROVE  ThreadsSound'
<1>1. Roots' /\ Parents' /\ NoOrphan'
  BY DEF ThreadsSound, Roots, Parents, NoOrphan, Live, IsSideChat
<1>2. ForkTargets'
  <2> SUFFICES ASSUME NEW q \in Request, q.type = "fork", life'[q.thread] # "none"
               PROVE  ~Absent(q.id)'
    BY DEF ForkTargets
  <2>1. ~Absent(q.id) /\ q.id \in CommandId
    BY ConstantsAssumption DEF ThreadsSound, ForkTargets
  <2>2. QED
    BY <2>1 DEF ReceiptsStay
<1>3. QED
  BY <1>1, <1>2 DEF ThreadsSound

(* So does a dispatch that does not move.                                  *)
LEMMA DispatchUnchanged ==
  ASSUME TypeOK, Locking, NEW x \in Dispatcher, OnPath(x), Cascade(x), PlanHolds(x),
         ReceiptsStay, UNCHANGED <<life, sideOf>>, Undisturbed(x)
  PROVE  OnPath(x)' /\ Cascade(x)' /\ PlanHolds(x)'
<1>1. LocksOf(x)' = LocksOf(x)
  BY DEF LocksOf, Undisturbed
<1>2. pc[x] # "idle" => request[x].id \in CommandId
  BY BusyHasRequest
<1>3. OnPath(x)'
  BY <1>1, <1>2 DEF OnPath, Undisturbed, ReceiptsStay
<1>4. \A t : LiveSideChats(t)' = LiveSideChats(t)
  BY DEF LiveSideChats, Live
<1>5. Cascade(x)'
  BY <1>1, <1>4 DEF Cascade, Undisturbed
<1>6. PlanHolds(x)'
  BY DEF PlanHolds, Undisturbed, Live, IsSideChat
<1>7. QED
  BY <1>3, <1>5, <1>6

(* And one that has ended.                                                 *)
LEMMA DispatchElsewhere ==
  ASSUME NEW x \in Dispatcher, pc'[x] \in {"idle", "answering"}
  PROVE  OnPath(x)' /\ Cascade(x)' /\ PlanHolds(x)'
BY DEF OnPath, Cascade, PlanHolds

-----------------------------------------------------------------------------
(* The transaction that applies the events of a command.                   *)

(* Dispatch d applies the events of its command.                           *)
Applies(d) ==
  /\ pc[d] = "planned" /\ plan[d] = "events"
  /\ Apply(d, request[d]) /\ Overtake(d)
  /\ receipts'[request[d].id].status = "accepted"

(* The command that applies its events is one, and what it holds.          *)
LEMMA AppliesRequest ==
  ASSUME IInv, NEW d \in Dispatcher, Applies(d)
  PROVE  /\ request[d] \in Request /\ request[d].thread \in Thread
         /\ request[d].thread \in LocksOf(d)
         /\ locked[d] = Len(path[d])
         /\ request[d].type # "finish"
<1>1. request[d] \in Request /\ request[d].thread \in Thread /\ request[d] # NoRequest
  BY BusyHasRequest, ConstantsAssumption DEF Applies, IInv
<1>2. request[d].type # "finish" /\ locked[d] = Len(path[d])
  BY DEF Applies, IInv, Undecided, Locking
<1>3. request[d].thread \in LocksOf(d)
  BY <1>1, <1>2 DEF Applies, IInv, Locking, LocksOf
<1>4. QED
  BY <1>1, <1>2, <1>3

(* It changes the threads whose locks it holds, and makes none disappear.  *)
LEMMA AppliesUnderLocks ==
  ASSUME IInv, NEW d \in Dispatcher, Applies(d), NEW t \in Thread
  PROVE  /\ t \notin LocksOf(d) => life'[t] = life[t] /\ sideOf'[t] = sideOf[t]
         /\ life[t] # "none" => life'[t] # "none"
<1> DEFINE q == request[d]
<1>1. q \in Request /\ q.thread \in LocksOf(d) /\ TypeOK
  BY AppliesRequest DEF IInv
<1>2. CASE q.type \in {"create", "branch", "fork"}
  BY <1>1, <1>2 DEF Applies, Apply, TypeOK
<1>3. CASE q.type = "delete"
  BY <1>1, <1>3 DEF Applies, Apply, TypeOK
<1>4. CASE q.type = "promote"
  BY <1>1, <1>4 DEF Applies, Apply, TypeOK
<1>5. CASE q.type \notin {"create", "branch", "fork", "delete", "promote"}
  BY <1>5 DEF Applies, Apply
<1>6. QED
  BY <1>2, <1>3, <1>4, <1>5

(* A thread that comes into being, or becomes a side chat, is the thread   *)
(* of the command, and a side chat is that of the source of a fork.        *)
LEMMA AppliesMakes ==
  ASSUME IInv, NEW d \in Dispatcher, Applies(d), PlanHolds(d), Cascade(d), NEW t \in Thread
  PROVE  /\ life[t] = "none" /\ life'[t] # "none" =>
              request[d].type \in {"create", "branch", "fork"} /\ request[d].thread = t
         /\ sideOf'[t] # sideOf[t] /\ sideOf'[t] # NoThread =>
              /\ request[d].type = "fork" /\ request[d].thread = t
              /\ sideOf'[t] = request[d].source
         /\ life'[t] = "live" /\ life[t] # "live" =>
              request[d].type \in {"create", "branch", "fork"} /\ request[d].thread = t
         /\ life'[t] = "deleted" /\ life[t] # "deleted" =>
              request[d].type = "delete" /\ t \in LocksOf(d)
<1> DEFINE q == request[d]
<1>1. q \in Request /\ q.thread \in LocksOf(d) /\ TypeOK /\ locked[d] = Len(path[d])
  BY AppliesRequest DEF IInv
<1>2. CASE q.type \in {"create", "branch", "fork"}
  BY <1>1, <1>2 DEF Applies, Apply, TypeOK
<1>3. CASE q.type = "delete"
  <2>1. /\ life' = [u \in Thread |-> IF u \in LocksOf(d) THEN "deleted" ELSE life[u]]
        /\ UNCHANGED sideOf
    BY <1>3 DEF Applies, Apply
  <2>2. locked[d] > 0
    BY <1>1 DEF TypeOK, LocksOf
  <2>3. life[t] = "none" => t \notin LocksOf(d)
    <3>1. path[d][1] = q.thread /\ life[q.thread] # "none"
      BY <1>3, <2>2 DEF Cascade, PlanHolds, Applies
    <3>2. \A i \in DOMAIN path[d] : i > 1 => life[path[d][i]] # "none"
      BY <1>3, <2>2 DEF Cascade, Applies
    <3>3. \A i \in DOMAIN path[d] : i = 1 \/ i > 1
      BY <1>1 DEF TypeOK
    <3>4. QED
      BY <3>1, <3>2, <3>3 DEF LocksOf
  <2>4. QED
    BY <1>3, <2>1, <2>3
<1>4. CASE q.type = "promote"
  BY <1>1, <1>4 DEF Applies, Apply, TypeOK
<1>5. CASE q.type \notin {"create", "branch", "fork", "delete", "promote"}
  BY <1>5 DEF Applies, Apply
<1>6. QED
  BY <1>2, <1>3, <1>4, <1>5

(* The threads stay sound.                                                 *)
LEMMA AppliesThreads ==
  ASSUME SourcesSettled, IInv, ThreadsSound, ReceiptsStay, NEW d \in Dispatcher,
         Applies(d), OnPath(d), PlanHolds(d), Cascade(d)
  PROVE  ThreadsSound'
<1> DEFINE q == request[d]
<1>1. q \in Request /\ q.thread \in LocksOf(d) /\ TypeOK /\ locked[d] = Len(path[d])
      /\ q.thread \in Thread
  BY AppliesRequest DEF IInv
<1>2. Root \subseteq Thread /\ NoThread \notin Root
  BY ConstantsAssumption DEF Root
<1>3. Roots'
  <2> SUFFICES ASSUME NEW t \in Root PROVE life'[t] # "none" /\ sideOf'[t] = NoThread
    BY DEF Roots
  <2>1. life[t] # "none" /\ sideOf[t] = NoThread /\ t \in InitialThreads
    BY DEF ThreadsSound, Roots, Root
  <2>2. ~(q.type = "fork" /\ q.thread = t)
    BY <1>1, <2>1 DEF SourcesSettled
  <2>3. QED
    BY <1>2, <2>1, <2>2, AppliesUnderLocks, AppliesMakes
<1>4. Parents'
  <2> SUFFICES ASSUME NEW t \in Thread PROVE sideOf'[t] \in Root \cup {NoThread}
    BY DEF Parents
  <2>1. q.type = "fork" => q.source \in Root
    BY <1>1 DEF SourcesSettled
  <2>2. QED
    BY <2>1, AppliesMakes DEF ThreadsSound, Parents
<1>5. ForkTargets'
  <2> SUFFICES ASSUME NEW x \in Request, x.type = "fork", life'[x.thread] # "none"
               PROVE  ~Absent(x.id)'
    BY DEF ForkTargets
  <2>1. x.id \in CommandId /\ x.thread \in Thread
    BY ConstantsAssumption
  <2>2. CASE life[x.thread] # "none"
    BY <2>1, <2>2 DEF ThreadsSound, ForkTargets, ReceiptsStay
  <2>3. CASE life[x.thread] = "none"
    <3>1. q.type \in {"create", "branch", "fork"} /\ q.thread = x.thread
      BY <2>1, <2>3, AppliesMakes
    <3>2. q = x
      BY <1>1, <3>1 DEF SourcesSettled
    <3>3. QED
      BY <3>2 DEF Applies, Absent
  <2>4. QED
    BY <2>2, <2>3
<1>6. NoOrphan'
  <2> SUFFICES ASSUME NEW s \in Thread, life'[s] = "live", sideOf'[s] # NoThread,
                      life'[sideOf'[s]] = "deleted"
               PROVE  FALSE
    BY DEF NoOrphan, Live, IsSideChat
  <2>1. sideOf'[s] \in Root /\ sideOf'[s] \in Thread
    BY <1>2, <1>4 DEF Parents
  <2>2. CASE q.type = "fork" /\ s = q.thread
    <3>1. sideOf'[s] = q.source
      BY <1>1, <2>2 DEF Applies, Apply, TypeOK
    <3>2. life[q.source] = "live" /\ q.source \in Thread
      BY <2>1, <2>2, <3>1 DEF PlanHolds, Applies, Live
    <3>3. QED
      BY <2>2, <3>1, <3>2, AppliesMakes
  <2>3. CASE ~(q.type = "fork" /\ s = q.thread)
    <3>1. sideOf[s] = sideOf'[s]
      BY <2>3, AppliesMakes
    <3>2. ~(q.type \in {"create", "branch"} /\ s = q.thread)
      BY <1>1 DEF Applies, Apply, TypeOK
    <3>3. life[s] = "live"
      BY <2>3, <3>2, AppliesMakes
    <3>4. life[sideOf[s]] # "deleted"
      BY <3>1, <3>3 DEF ThreadsSound, NoOrphan, Live, IsSideChat
    <3>5. q.type = "delete" /\ sideOf[s] \in LocksOf(d)
      BY <2>1, <3>1, <3>4, AppliesMakes
    <3>6. locked[d] > 0
      BY <1>1 DEF TypeOK, LocksOf
    <3>7. sideOf[s] = q.thread
      <4>1. PICK i \in DOMAIN path[d] : path[d][i] = sideOf[s]
        BY <3>5 DEF LocksOf
      <4>2. ~(i > 1)
        BY <2>1, <3>1, <3>5, <3>6, <4>1 DEF Cascade, Applies
      <4>3. i = 1
        BY <1>1, <4>1, <4>2 DEF TypeOK
      <4>4. QED
        BY <3>5, <3>6, <4>1, <4>3 DEF Cascade, Applies
    <3>8. s \in LocksOf(d)
      BY <3>3, <3>5, <3>6, <3>7 DEF Cascade, Applies, LiveSideChats, Live
    <3>9. life'[s] = "deleted"
      BY <3>5, <3>8 DEF Applies, Apply
    <3>10. QED
      BY <3>9
  <2>4. QED
    BY <2>2, <2>3
<1>7. QED
  BY <1>3, <1>4, <1>5, <1>6 DEF ThreadsSound

(* A dispatch that writes or plans holds the locks of what it writes, and  *)
(* of what it reads but for the source that is not locked.                 *)
LEMMA ReadsUnderLocks ==
  ASSUME IInv, NEW x \in Dispatcher, OnPath(x),
         pc[x] \in {"planned", "following"} \/ (pc[x] = "receipt" /\ request[x].type = "finish")
  PROVE  /\ Writes(x) \subseteq LocksOf(x) \cup {NoThread} /\ locked[x] = Len(path[x])
         /\ pc[x] = "planned" => Reads(x) \subseteq LocksOf(x) \cup Unlocked(request[x])
<1>1. request[x] \in Request /\ request[x] # NoRequest
  BY BusyHasRequest, ConstantsAssumption DEF IInv
<1>2. locked[x] = Len(path[x])
  BY DEF IInv, Locking, OnPath
<1>3. request[x].type # "finish" => request[x].thread \in LocksOf(x)
  BY <1>1 DEF IInv, Locking, LocksOf
<1>4. CASE pc[x] = "planned"
  <2>1. request[x].type # "finish"
    BY <1>4 DEF IInv, Undecided
  <2>2. Writes(x) \subseteq LocksOf(x) \cup {NoThread}
    BY <1>3, <1>4, <2>1 DEF Writes, OnPath
  <2>3. Reads(x) \subseteq LocksOf(x) \cup Unlocked(request[x])
    BY <1>3, <1>4, <2>1 DEF Reads, Unlocked, OnPath
  <2>4. QED
    BY <1>2, <2>2, <2>3
<1>5. CASE pc[x] = "following"
  BY <1>2, <1>3, <1>5 DEF Writes, OnPath
<1>6. CASE pc[x] = "receipt" /\ request[x].type = "finish"
  BY <1>2, <1>6 DEF Writes
<1>7. QED
  BY <1>4, <1>5, <1>6

(* Another dispatch that holds locks keeps what it relies on.              *)
LEMMA AppliesOthers ==
  ASSUME IInv, ReceiptsStay, NEW d \in Dispatcher, Applies(d), PlanHolds(d), Cascade(d), OnPath(d),
         NEW x \in Dispatcher, x # d, Undisturbed(x), OnPath(x), Cascade(x), PlanHolds(x)
  PROVE  OnPath(x)' /\ Cascade(x)' /\ PlanHolds(x)'
<1>1. LocksOf(x)' = LocksOf(x)
  BY DEF LocksOf, Undisturbed
<1>2. pc[x] # "idle" =>
        request[x] \in Request /\ request[x].id \in CommandId /\ request[x].thread \in Thread
  BY BusyHasRequest DEF IInv
<1>3. TypeOK /\ locked[d] = Len(path[d]) /\ request[d] \in Request
  BY AppliesRequest DEF IInv
<1>4. OnPath(x)'
  BY <1>1, <1>2 DEF OnPath, Undisturbed, ReceiptsStay
<1>5. Cascade(x)'
  <2> DEFINE t == request[x].thread
  <2> SUFFICES ASSUME pc[x] \in {"locking", "receipt", "planning", "planned"},
                      request[x].type = "delete", locked[x] > 0
               PROVE  /\ path[x][1] = t
                      /\ \A i \in DOMAIN path[x] :
                           i > 1 => path[x][i] \notin Root /\ life'[path[x][i]] # "none"
                      /\ LiveSideChats(t)' \subseteq LocksOf(x)
    BY <1>1 DEF Cascade, Undisturbed
  <2>1. /\ path[x][1] = t
        /\ \A i \in DOMAIN path[x] :
             i > 1 => path[x][i] \notin Root /\ life[path[x][i]] # "none"
        /\ LiveSideChats(t) \subseteq LocksOf(x)
    BY DEF Cascade
  <2>2. \A i \in DOMAIN path[x] : path[x][i] \in Thread
    BY <1>3, ElementType DEF TypeOK
  <2>3. \A i \in DOMAIN path[x] : i > 1 => life'[path[x][i]] # "none"
    BY <2>1, <2>2, AppliesUnderLocks
  <2>4. t \notin LocksOf(d)
    <3>1. t \in Held(x)
      BY <1>3, <2>1 DEF Held, TypeOK
    <3>2. Held(x) \cap Held(d) = {}
      BY DEF IInv, Locking
    <3>3. QED
      BY <1>3, <3>1, <3>2, HeldLocks
  <2>5. ASSUME NEW s \in LiveSideChats(t)' PROVE s \in LiveSideChats(t)
    <3>1. s \in Thread /\ sideOf'[s] = t /\ life'[s] = "live" /\ t \in Thread /\ t # NoThread
      BY <1>2, <2>5, ConstantsAssumption DEF LiveSideChats, Live, Undisturbed
    <3>2. ~(request[d].type = "fork" /\ request[d].source = t)
      BY <2>4 DEF OnPath, Applies
    <3>3. sideOf[s] = t
      BY <3>1, <3>2, AppliesMakes
    <3>4. ~(request[d].type \in {"create", "branch"} /\ request[d].thread = s)
      BY <1>3, <3>1 DEF Applies, Apply, TypeOK
    <3>5. ~(request[d].type = "fork" /\ request[d].thread = s)
      <4>1. request[d].type = "fork" /\ request[d].thread = s => sideOf'[s] = request[d].source
        BY <1>3, <3>1 DEF Applies, Apply, TypeOK
      <4>2. QED
        BY <3>1, <3>2, <4>1
    <3>6. life[s] = "live"
      BY <3>1, <3>4, <3>5, AppliesMakes
    <3>7. QED
      BY <3>1, <3>3, <3>6 DEF LiveSideChats, Live
  <2>6. QED
    BY <2>1, <2>3, <2>5
<1>6. PlanHolds(x)'
  <2> SUFFICES ASSUME pc[x] = "planned", plan[x] = "events"
               PROVE  PlanHolds(x)'
    BY DEF PlanHolds, Undisturbed
  <2>1. LocksOf(d) \cap LocksOf(x) = {}
    <3>1. locked[x] = Len(path[x]) /\ Locking
      BY DEF IInv, Locking
    <3>2. QED
      BY <1>3, <3>1, LocksApart
  <2>2. request[x].thread \in LocksOf(x) /\ (request[x].type = "fork" => request[x].source \in LocksOf(x))
    BY <1>2, ConstantsAssumption DEF IInv, Locking, LocksOf, OnPath, Undecided
  <2>3. life'[request[x].thread] = life[request[x].thread]
    BY <1>2, <2>1, <2>2, AppliesUnderLocks
  <2>4. request[x].type = "fork" => life'[request[x].source] = life[request[x].source]
    BY <1>2, <2>1, <2>2, AppliesUnderLocks, ConstantsAssumption
  <2>5. request[x].type = "branch" =>
          life'[request[x].source] # "none" /\ sideOf'[request[x].source] = NoThread
    <3> SUFFICES ASSUME request[x].type = "branch"
                 PROVE  /\ life'[request[x].source] # "none"
                        /\ sideOf'[request[x].source] = NoThread
      OBVIOUS
    <3>1. /\ request[x].source \in Thread
          /\ life[request[x].source] # "none" /\ sideOf[request[x].source] = NoThread
      BY <1>2, ConstantsAssumption DEF PlanHolds, IsSideChat
    <3>2. ~(request[d].type = "fork" /\ request[d].thread = request[x].source)
      BY <3>1 DEF PlanHolds, Applies
    <3>3. QED
      BY <3>1, <3>2, AppliesUnderLocks, AppliesMakes
  <2>6. QED
    BY <2>3, <2>4, <2>5 DEF PlanHolds, Undisturbed, Live, IsSideChat
<1>7. QED
  BY <1>4, <1>5, <1>6

(* A write under the locks of d overtakes no plan.                         *)
LEMMA NothingOvertaken ==
  ASSUME IInv, NotStale, \A x \in Dispatcher : OnPath(x), NEW d \in Dispatcher, Overtake(d),
         pc[d] \in {"planned", "following"} \/ (pc[d] = "receipt" /\ request[d].type = "finish"),
         pc'[d] # "planned", \A x \in Dispatcher : x # d => Undisturbed(x)
  PROVE  NotStale'
<1> SUFFICES ASSUME NEW x \in Dispatcher, pc'[x] = "planned"
             PROVE  moved'[x] \subseteq Unlocked(request'[x])
  BY DEF NotStale, Unlocked
<1>1. x # d /\ pc[x] = "planned" /\ request'[x] = request[x]
  BY DEF Undisturbed
<1>2. /\ Writes(d) \subseteq LocksOf(d) \cup {NoThread} /\ locked[d] = Len(path[d])
      /\ Reads(x) \subseteq LocksOf(x) \cup Unlocked(request[x]) /\ locked[x] = Len(path[x])
  BY <1>1, ReadsUnderLocks
<1>3. LocksOf(d) \cap LocksOf(x) = {}
  BY <1>1, <1>2, LocksApart DEF IInv
<1>4. NoThread \notin Reads(x)
  BY DEF Reads
<1>5. moved[x] \subseteq Unlocked(request[x])
  BY <1>1 DEF NotStale
<1>6. moved'[x] = moved[x] \cup (Reads(x) \cap Writes(d))
  BY <1>1 DEF Overtake
<1>7. QED
  BY <1>1, <1>2, <1>3, <1>4, <1>5, <1>6

-----------------------------------------------------------------------------
(* The steps.                                                              *)

(* A step of d that changes no thread preserves what d does not break for  *)
(* itself.                                                                 *)
LEMMA QuietStep ==
  ASSUME IInv, ThreadsSound, DispatchesSound, ReceiptsStay, NEW d \in Dispatcher,
         UNCHANGED <<life, sideOf>>, \A x \in Dispatcher : x # d => Undisturbed(x),
         OnPath(d)' /\ Cascade(d)' /\ PlanHolds(d)'
  PROVE  ThreadsSound' /\ DispatchesSound'
<1>1. ASSUME NEW x \in Dispatcher, x # d PROVE OnPath(x)' /\ Cascade(x)' /\ PlanHolds(x)'
  <2>1. Undisturbed(x) /\ OnPath(x) /\ Cascade(x) /\ PlanHolds(x)
    BY <1>1 DEF DispatchesSound
  <2>2. QED
    BY <2>1, DispatchUnchanged DEF IInv
<1>2. QED
  BY <1>1, ThreadsUnchanged DEF DispatchesSound

(* A command that arrives chooses locks that are enough.                   *)
LEMMA ReceivePlans ==
  ASSUME SourcesSettled, IInv, PInv, ReceiptsStay, NEW d \in Dispatcher, NEW q \in Request,
         Receive(d, q)
  PROVE  PInv'
<1>1. /\ UNCHANGED <<life, sideOf, receipts, moved>> /\ locked'[d] = 0 /\ request'[d] = q
      /\ \A x \in Dispatcher : x # d => Undisturbed(x)
  BY DEF Receive, storeVars, IInv, TypeOK, Locking, AnswerWith, Goto, Undisturbed
<1>2. CASE pc'[d] = "answering"
  BY <1>1, <1>2, DispatchElsewhere, QuietStep DEF PInv, NotStale, Undisturbed
<1>3. CASE pc'[d] # "answering"
  <2>1. path'[d] = FirstLocks(q) /\ pc'[d] = "locking"
    BY <1>3 DEF Receive, AnswerWith, Goto, IInv, TypeOK
  <2>2. q.type = "delete" => path'[d] = <<q.thread>>
    BY <2>1 DEF FirstLocks
  <2>3. q.type = "message" => Parent[q.thread] \in LocksOf(d)' \cup {NoThread}
    <3>1. CASE q.type = "message" /\ Parent[q.thread] # NoThread
      <4>1. path'[d] = <<Parent[q.thread], q.thread>>
        BY <2>1, <3>1 DEF FirstLocks
      <4>2. 1 \in DOMAIN path'[d] /\ path'[d][1] = Parent[q.thread]
        BY <4>1
      <4>3. QED
        BY <4>2 DEF LocksOf
    <3>2. QED
      BY <3>1
  <2>4. q.type = "fork" => q.source \in LocksOf(d)' \/ ~Absent(q.id)'
    <3> SUFFICES ASSUME q.type = "fork" PROVE q.source \in LocksOf(d)' \/ ~Absent(q.id)'
      OBVIOUS
    <3>1. q.source \in Root /\ q.source # q.thread
      BY DEF SourcesSettled, Root
    <3>2. life[q.source] # "none" /\ ~IsSideChat(q.source)
      BY <3>1 DEF PInv, ThreadsSound, Roots, IsSideChat
    <3>3. CASE life[q.thread] = "none"
      <4>1. path'[d] = <<q.source, q.thread>>
        BY <2>1, <3>1, <3>2, <3>3 DEF FirstLocks
      <4>2. 1 \in DOMAIN path'[d] /\ path'[d][1] = q.source
        BY <4>1
      <4>3. QED
        BY <4>2 DEF LocksOf
    <3>4. CASE life[q.thread] # "none"
      BY <1>1, <3>4 DEF PInv, ThreadsSound, ForkTargets, Absent
    <3>5. QED
      BY <3>3, <3>4
  <2>5. OnPath(d)' /\ Cascade(d)' /\ PlanHolds(d)'
    BY <1>1, <2>1, <2>2, <2>3, <2>4 DEF OnPath, Cascade, PlanHolds
  <2>6. NotStale'
    BY <1>1, <2>1 DEF PInv, NotStale, Undisturbed, Unlocked
  <2>7. QED
    BY <1>1, <2>5, <2>6, QuietStep DEF PInv
<1>4. QED
  BY <1>2, <1>3

(* What putting two sequences together makes.                              *)
LEMMA ConcatenationType ==
  ASSUME NEW S, NEW s \in Seq(S), NEW r \in Seq(S)
  PROVE  /\ s \o r \in Seq(S)
         /\ Len(s \o r) = Len(s) + Len(r) /\ Len(s) \in Nat /\ Len(r) \in Nat
         /\ \A i \in 1..Len(s) : (s \o r)[i] = s[i]
         /\ \A i \in 1..Len(r) : (s \o r)[Len(s) + i] = r[i]
<1>1. /\ s \o r \in Seq(S)
      /\ Len(s \o r) = Len(s) + Len(r) /\ Len(s) \in Nat /\ Len(r) \in Nat
  OBVIOUS
<1>2. \A i \in 1..Len(s) : (s \o r)[i] = s[i]
  BY <1>1
<1>3. \A i \in 1..Len(r) : (s \o r)[Len(s) + i] = r[i]
  BY <1>1
<1>4. QED
  BY <1>1, <1>2, <1>3

(* A lock is taken; the first one of a deletion brings those of the side   *)
(* chats onto the path.                                                    *)
LEMMA LockPlans ==
  ASSUME SourcesSettled, IInv, PInv, ReceiptsStay, NEW d \in Dispatcher, Lock(d)
  PROVE  PInv'
<1> DEFINE t == path[d][locked[d] + 1]
<1> DEFINE kin == IF request[d].type = "delete" /\ locked[d] = 0
                  THEN Orderings(LiveSideChats(t)) ELSE {<<>>}
<1>1. /\ UNCHANGED <<life, sideOf, receipts, moved, request, plan>>
      /\ pc[d] = "locking" /\ pc'[d] \in {"locking", "receipt"}
      /\ locked'[d] = locked[d] + 1 /\ locked[d] \in Nat /\ locked[d] < Len(path[d])
      /\ path[d] \in Seq(Thread)
      /\ \A x \in Dispatcher : x # d => Undisturbed(x)
  BY DEF Lock, storeVars, IInv, TypeOK, Locking, Goto, Undisturbed
<1>2. PICK more \in kin : path'[d] = path[d] \o more
  BY DEF Lock, IInv, TypeOK
<1>3. more \in Seq(Thread)
  BY OrderingsAreSequences, IsASeq DEF LiveSideChats
<1>4. /\ Len(path'[d]) = Len(path[d]) + Len(more) /\ Len(more) \in Nat
      /\ \A i \in 1..Len(path[d]) : path'[d][i] = path[d][i]
      /\ \A i \in 1..Len(more) : path'[d][Len(path[d]) + i] = more[i]
      /\ path'[d] \in Seq(Thread)
  BY <1>1, <1>2, <1>3, ConcatenationType
<1>5. LocksOf(d) \subseteq LocksOf(d)'
  <2> SUFFICES ASSUME NEW i \in 1..Len(path[d]) PROVE path[d][i] \in LocksOf(d)'
    BY <1>1 DEF LocksOf
  <2>1. i \in DOMAIN path'[d] /\ path'[d][i] = path[d][i]
    BY <1>1, <1>4
  <2>2. QED
    BY <2>1 DEF LocksOf
<1>6. OnPath(d)'
  <2>1. OnPath(d) /\ request'[d] = request[d]
    BY <1>1 DEF PInv, DispatchesSound
  <2>2. Absent(request[d].id)' <=> Absent(request[d].id)
    BY <1>1 DEF Absent
  <2>3. QED
    BY <1>1, <1>5, <2>1, <2>2 DEF OnPath
<1>7. Cascade(d)'
  <2> SUFFICES ASSUME request[d].type = "delete"
               PROVE  /\ path'[d][1] = request[d].thread
                      /\ \A i \in DOMAIN path'[d] :
                           i > 1 => path'[d][i] \notin Root /\ life[path'[d][i]] # "none"
                      /\ LiveSideChats(request[d].thread) \subseteq LocksOf(d)'
    BY <1>1 DEF Cascade, LiveSideChats, Live
  <2>1. request[d].thread \in Thread
    BY <1>1, BusyHasRequest DEF IInv
  <2>2. CASE locked[d] > 0
    <3>1. more = <<>>
      BY <2>2
    <3>2. path'[d] = path[d]
      BY <1>1, <1>2, <3>1
    <3>3. QED
      BY <1>1, <2>2, <3>2 DEF Cascade, PInv, DispatchesSound, LocksOf
  <2>3. CASE locked[d] = 0
    <3>1. path[d] = <<request[d].thread>> /\ t = request[d].thread
      BY <1>1, <2>3 DEF Cascade, PInv, DispatchesSound
    <3>2. more \in Orderings(LiveSideChats(t))
      BY <2>3
    <3>3. Cardinality(LiveSideChats(t)) \in Nat
      BY ConstantsAssumption, FS_Subset, FS_CardinalityType DEF LiveSideChats
    <3>4. /\ \A i \in DOMAIN more : more[i] \in LiveSideChats(t)
          /\ \A s \in LiveSideChats(t) : \E i \in DOMAIN more : more[i] = s
      BY <3>2 DEF Orderings
    <3>5. ASSUME NEW s \in LiveSideChats(t) PROVE s \notin Root /\ life[s] # "none"
      BY <2>1, <3>1, <3>5, ConstantsAssumption
         DEF LiveSideChats, Live, PInv, ThreadsSound, Roots
    <3>6. ASSUME NEW i \in DOMAIN path'[d], i > 1
          PROVE  path'[d][i] \in LiveSideChats(t)
      <4>1. i - 1 \in 1..Len(more) /\ i = Len(path[d]) + (i - 1)
        BY <1>4, <3>1, <3>6
      <4>2. QED
        BY <1>3, <1>4, <3>4, <4>1
    <3>7. LiveSideChats(t) \subseteq LocksOf(d)'
      <4> SUFFICES ASSUME NEW s \in LiveSideChats(t) PROVE s \in LocksOf(d)'
        OBVIOUS
      <4>1. PICK i \in 1..Len(more) : more[i] = s
        BY <1>3, <3>4
      <4>2. Len(path[d]) + i \in DOMAIN path'[d] /\ path'[d][Len(path[d]) + i] = s
        BY <1>1, <1>4, <4>1
      <4>3. QED
        BY <4>2 DEF LocksOf
    <3>8. QED
      BY <1>4, <3>1, <3>5, <3>6, <3>7
  <2>4. QED
    BY <1>1, <2>2, <2>3
<1>8. PlanHolds(d)'
  BY <1>1 DEF PlanHolds
<1>9. QED
  BY <1>1, <1>6, <1>7, <1>8, QuietStep DEF PInv, NotStale, Undisturbed

(* The receipt is read: a command that goes on to plan has none.           *)
LEMMA ReadReceiptPlans ==
  ASSUME IInv, PInv, ReceiptsStay, NEW d \in Dispatcher, ReadReceipt(d)
  PROVE  PInv'
<1>1. /\ UNCHANGED <<life, sideOf, receipts, moved, request, plan, path, locked>>
      /\ pc[d] = "receipt" /\ pc'[d] \in {"planning", "following", "answering"}
      /\ pc'[d] = "planning" => Absent(request[d].id)
      /\ pc'[d] = "following" => request[d].type = "resume"
      /\ \A x \in Dispatcher : x # d => Undisturbed(x)
  BY DEF ReadReceipt, storeVars, IInv, TypeOK, Replay, Accept, AnswerWith, Goto, StartsQueue,
         Undisturbed, Absent
<1>2. OnPath(d)' /\ Cascade(d)' /\ PlanHolds(d)'
  <2>1. locked[d] = Len(path[d]) /\ OnPath(d) /\ Cascade(d) /\ LocksOf(d)' = LocksOf(d)
    BY <1>1 DEF IInv, Locking, PInv, DispatchesSound, LocksOf
  <2>2. OnPath(d)'
    BY <1>1, <2>1 DEF OnPath
  <2>3. Cascade(d)'
    BY <1>1, <2>1 DEF Cascade, LiveSideChats, Live
  <2>4. PlanHolds(d)'
    BY <1>1 DEF PlanHolds
  <2>5. QED
    BY <2>2, <2>3, <2>4
<1>3. QED
  BY <1>1, <1>2, QuietStep DEF PInv, NotStale, Undisturbed

(* A plan is made from what is so.                                         *)
LEMMA MakePlanPlans ==
  ASSUME IInv, PInv, ReceiptsStay, NEW d \in Dispatcher, MakePlan(d)
  PROVE  PInv'
<1>1. /\ UNCHANGED <<life, sideOf, receipts, request, path, locked>>
      /\ pc[d] = "planning" /\ pc'[d] = "planned" /\ moved' = [moved EXCEPT ![d] = {}]
      /\ plan'[d] = "events" => CanApply(request[d])
      /\ \A x \in Dispatcher : x # d => Undisturbed(x)
  BY DEF MakePlan, storeVars, IInv, TypeOK, Outcomes, Goto, Undisturbed
<1>2. OnPath(d)' /\ Cascade(d)' /\ PlanHolds(d)'
  <2>1. OnPath(d) /\ Cascade(d) /\ LocksOf(d)' = LocksOf(d)
    BY <1>1 DEF PInv, DispatchesSound, LocksOf
  <2>2. OnPath(d)'
    BY <1>1, <2>1 DEF OnPath
  <2>3. Cascade(d)'
    BY <1>1, <2>1 DEF Cascade, LiveSideChats, Live
  <2>4. PlanHolds(d)'
    BY <1>1 DEF PlanHolds, CanApply, Live, IsSideChat
  <2>5. QED
    BY <2>2, <2>3, <2>4
<1>3. ASSUME NEW x \in Dispatcher, pc'[x] = "planned"
      PROVE  moved'[x] \subseteq Unlocked(request'[x])
  <2>1. CASE x = d
    BY <1>1, <2>1 DEF IInv, TypeOK
  <2>2. CASE x # d
    BY <1>1, <1>3, <2>2 DEF IInv, TypeOK, PInv, NotStale, Undisturbed
  <2>3. QED
    BY <2>1, <2>2
<1>4. NotStale'
  BY <1>3 DEF NotStale, Unlocked
<1>5. QED
  BY <1>1, <1>2, <1>4, QuietStep DEF PInv

(* The events of a plan are applied.                                       *)
LEMMA AppliesPlans ==
  ASSUME SourcesSettled, IInv, PInv, ReceiptsStay, NEW d \in Dispatcher, Applies(d),
         \A x \in Dispatcher : x # d => Undisturbed(x),
         OnPath(d)' /\ Cascade(d)' /\ PlanHolds(d)', pc'[d] # "planned"
  PROVE  PInv'
<1>1. \A x \in Dispatcher : OnPath(x) /\ Cascade(x) /\ PlanHolds(x)
  BY DEF PInv, DispatchesSound
<1>2. NotStale'
  BY <1>1, NothingOvertaken DEF PInv, Applies
<1>3. ThreadsSound'
  BY <1>1, AppliesThreads DEF PInv
<1>4. \A x \in Dispatcher : OnPath(x)' /\ Cascade(x)' /\ PlanHolds(x)'
  BY <1>1, AppliesOthers
<1>5. QED
  BY <1>2, <1>3, <1>4 DEF PInv, DispatchesSound

(* A commit applies its events or answers with the receipt there is.       *)
LEMMA CommitPlans ==
  ASSUME SourcesSettled, IInv, PInv, ReceiptsStay, NEW d \in Dispatcher, Commit(d)
  PROVE  PInv'
<1>1. /\ UNCHANGED <<request, path, locked, plan>>
      /\ pc[d] = "planned" /\ pc'[d] \in {"following", "answering"}
      /\ pc'[d] = "following" => request[d].type = "resume"
      /\ \A x \in Dispatcher : x # d => Undisturbed(x)
  BY DEF Commit, IInv, TypeOK, Accept, AnswerWith, Goto, StartsQueue, Undisturbed
<1>2. OnPath(d)' /\ Cascade(d)' /\ PlanHolds(d)'
  <2>1. locked[d] = Len(path[d])
    BY <1>1 DEF IInv, Locking
  <2>2. QED
    BY <1>1, <2>1 DEF OnPath, Cascade, PlanHolds
<1>3. CASE UNCHANGED <<life, sideOf, moved>>
  BY <1>1, <1>2, <1>3, QuietStep DEF PInv, NotStale, Undisturbed
<1>4. CASE Applies(d)
  BY <1>1, <1>2, <1>4, AppliesPlans
<1>5. UNCHANGED <<life, sideOf, moved>> \/ Applies(d)
  <2>1. request[d].id \in CommandId
    BY <1>1, BusyHasRequest DEF IInv
  <2>2. QED
    BY <2>1 DEF Commit, Applies, IInv, TypeOK
<1>6. QED
  BY <1>3, <1>4, <1>5

(* A write that is not of a command: the next run of a queue, a run's end. *)
LEMMA WritePlans ==
  ASSUME IInv, PInv, ReceiptsStay, NEW d \in Dispatcher, StartQueue(d) \/ RunUpdate(d)
  PROVE  PInv'
<1>1. /\ UNCHANGED <<life, sideOf>> /\ Overtake(d) /\ pc'[d] # "planned"
      /\ \A x \in Dispatcher : x # d => Undisturbed(x)
      /\ pc[d] = "following" \/ (pc[d] = "receipt" /\ request[d].type = "finish")
  BY DEF StartQueue, RunUpdate, storeVars, IInv, TypeOK, Release, Goto, Undisturbed
<1>2. \A x \in Dispatcher : OnPath(x)
  BY DEF PInv, DispatchesSound
<1>3. NotStale'
  BY <1>1, <1>2, NothingOvertaken DEF PInv
<1>4. OnPath(d)' /\ Cascade(d)' /\ PlanHolds(d)'
  <2>1. CASE pc'[d] \in {"idle", "answering"}
    BY <2>1, DispatchElsewhere
  <2>2. CASE pc'[d] \notin {"idle", "answering"}
    <3>1. pc'[d] = "locking" /\ request'[d].type = "finish"
      BY <2>2 DEF StartQueue, RunUpdate, Release, Goto, IInv, TypeOK
    <3>2. QED
      BY <3>1 DEF OnPath, Cascade, PlanHolds
  <2>3. QED
    BY <2>1, <2>2
<1>5. QED
  BY <1>1, <1>3, <1>4, QuietStep DEF PInv

(* Dispatches that end take their locks and plans with them.               *)
LEMMA EndPlans ==
  ASSUME IInv, PInv, ReceiptsStay, NEW F \in SUBSET Dispatcher, Release(F), Clear(F),
         UNCHANGED <<life, sideOf>>
  PROVE  PInv'
<1>1. ASSUME NEW x \in Dispatcher PROVE OnPath(x)' /\ Cascade(x)' /\ PlanHolds(x)'
  <2>1. CASE x \in F
    <3>1. pc'[x] = "idle"
      BY <2>1 DEF Release
    <3>2. QED
      BY <3>1, DispatchElsewhere
  <2>2. CASE x \notin F
    <3>1. Undisturbed(x) /\ OnPath(x) /\ Cascade(x) /\ PlanHolds(x)
      BY <2>2 DEF Release, Undisturbed, PInv, DispatchesSound
    <3>2. QED
      BY <3>1, DispatchUnchanged DEF IInv
  <2>3. QED
    BY <2>1, <2>2
<1>2. NotStale'
  BY DEF PInv, NotStale, Clear, Release
<1>3. QED
  BY <1>1, <1>2, ThreadsUnchanged DEF PInv, DispatchesSound

(* Every step keeps the plans current and the threads sound.               *)
LEMMA PlansStep ==
  ASSUME SourcesSettled, IInv, PInv, [Next]_vars
  PROVE  PInv'
<1>1. ReceiptsStay
  BY ReceiptsStayStep DEF IInv
<1>2. ASSUME NEW d \in Dispatcher, Advance(d) PROVE PInv'
  <2>1. CASE CommitRejected(d) \/ CommitEmpty(d)
    <3>1. /\ UNCHANGED <<life, sideOf, moved>> /\ pc'[d] = "answering"
          /\ \A x \in Dispatcher : x # d => Undisturbed(x)
      BY <2>1 DEF CommitRejected, CommitEmpty, AnswerWith, Goto, IInv, TypeOK, Undisturbed
    <3>2. QED
      BY <1>1, <3>1, DispatchElsewhere, QuietStep DEF PInv, NotStale, Undisturbed
  <2>2. CASE Respond(d)
    BY <1>1, <2>2, EndPlans DEF Respond, storeVars
  <2>3. QED
    BY <1>1, <1>2, <2>1, <2>2, LockPlans, ReadReceiptPlans, MakePlanPlans, CommitPlans, WritePlans
       DEF Advance
<1>3. ASSUME NEW d \in Dispatcher, Refuse(d) \/ StorageFails(d) PROVE PInv'
  <2>1. /\ UNCHANGED <<life, sideOf, moved>> /\ pc'[d] = "answering"
        /\ \A x \in Dispatcher : x # d => Undisturbed(x)
    BY <1>3 DEF Refuse, StorageFails, storeVars, AnswerWith, Goto, IInv, TypeOK, Undisturbed
  <2>2. QED
    BY <1>1, <2>1, DispatchElsewhere, QuietStep DEF PInv, NotStale, Undisturbed
<1>4. ASSUME NEW F \in SUBSET Dispatcher, Interrupt(F) PROVE PInv'
  BY <1>1, <1>4, EndPlans DEF Interrupt, storeVars
<1>5. CASE UNCHANGED vars
  <2>1. Release({}) /\ Clear({}) /\ UNCHANGED <<life, sideOf>>
    BY <1>5 DEF vars, storeVars, fiberVars, Release, Clear, IInv, TypeOK
  <2>2. QED
    BY <1>1, <2>1, EndPlans
<1>6. QED
  BY <1>1, <1>2, <1>3, <1>4, <1>5, ReceivePlans DEF Next, Crash

(* Nothing is planned at the start.                                        *)
LEMMA InitPlans ==
  ASSUME SourcesSettled, Init
  PROVE  PInv
<1>1. ThreadsSound
  BY ConstantsAssumption DEF Init, ThreadsSound, Roots, Parents, ForkTargets, NoOrphan, Root,
                             SourcesSettled, Live, IsSideChat
<1>2. DispatchesSound /\ NotStale
  BY DEF Init, DispatchesSound, OnPath, Cascade, PlanHolds, NotStale
<1>3. QED
  BY <1>1, <1>2 DEF PInv

(* Where side chats are forked from settled threads, no plan is overtaken  *)
(* in what it read under locks, and the threads stay sound.                *)
THEOREM PlansInvariance == SourcesSettled /\ Spec => [](IInv /\ PInv)
<1> SUFFICES ASSUME SourcesSettled PROVE Spec => [](IInv /\ PInv)
  OBVIOUS
<1>1. Init => PInv
  BY InitPlans
<1>2. IInv /\ PInv /\ [Next]_vars => PInv'
  BY PlansStep
<1>3. QED
  BY <1>1, <1>2, Invariance, PTL DEF Spec

(* No plan is committed after the records it was made from were changed,   *)
(* but for those of a source that it read without a lock, of which a plain *)
(* fork still finds what it checked.                                       *)
THEOREM PlansStayCurrent == SourcesSettled /\ Spec => []PlanCurrent
<1>1. PInv => PlanCurrent
  BY DEF PInv, DispatchesSound, PlanHolds, NotStale, PlanCurrent
<1>2. QED
  BY <1>1, PlansInvariance, PTL

(* A deletion leaves no side chat behind.                                  *)
THEOREM DeletionsCascade == SourcesSettled /\ Spec => []NoOrphan
<1>1. PInv => NoOrphan
  BY DEF PInv, ThreadsSound
<1>2. QED
  BY <1>1, PlansInvariance, PTL

-----------------------------------------------------------------------------
(* No deadlock.                                                            *)

(* b descends from a: as its subagent, as its side chat, or by a fork that *)
(* somebody asks for.                                                      *)
Lineage(a, b) ==
  \/ Parent[b] = a
  \/ SideChats[b] = a
  \/ \E q \in Request : /\ q.type = "fork" /\ q.source = a /\ q.thread = b
                        /\ b \notin InitialThreads /\ a # b

(* A thread descends from one thread at most, which was there before it:   *)
(* the lineage of a thread is written with it and never changed.           *)
FamiliesOrdered ==
  /\ \A a, c, b \in Thread : Lineage(a, b) /\ Lineage(c, b) => a = c
  /\ \A S \in SUBSET Thread : S # {} => \E a \in S : \A b \in S : ~Lineage(a, b)

(* d waits for a lock that x holds.                                        *)
WaitsFor(d, x) == pc[d] = "locking" /\ path[d][locked[d] + 1] \in Held(x)

(* No set of dispatches waits only for one another.                        *)
NoCircularWait ==
  \A D \in SUBSET Dispatcher : D # {} => \E d \in D : \A x \in D : ~WaitsFor(d, x)

(* A side chat descends from the thread it is a side chat of.              *)
SidesDescend == \A t \in Thread : sideOf[t] # NoThread => Lineage(sideOf[t], t)

InitialsStay == \A t \in InitialThreads : life[t] # "none"

(* A path takes no lock twice, and after its first lock only those of      *)
(* descendants of that thread; a deletion begins with its own thread.      *)
PathDescends(d) ==
  /\ \A i \in DOMAIN path[d] : i > 1 => Lineage(path[d][1], path[d][i])
  /\ \A i, j \in DOMAIN path[d] : path[d][i] = path[d][j] => i = j
  /\ pc[d] = "locking" /\ locked[d] = 0 /\ request[d].type = "delete"
       => path[d] = <<request[d].thread>>

(* A planned fork makes a new thread, of another one.                      *)
ForkDescends(d) ==
  pc[d] = "planned" /\ plan[d] = "events" /\ request[d].type = "fork" =>
    request[d].thread \notin InitialThreads /\ request[d].source # request[d].thread

PathsDescend == \A d \in Dispatcher : PathDescends(d) /\ ForkDescends(d)

DInv == SidesDescend /\ InitialsStay /\ PathsDescend

(* No thread descends from itself.                                         *)
LEMMA NotOfItself ==
  ASSUME FamiliesOrdered, NEW t \in Thread
  PROVE  ~Lineage(t, t)
<1>1. {t} \in SUBSET Thread /\ {t} # {}
  OBVIOUS
<1>2. PICK a \in {t} : \A b \in {t} : ~Lineage(a, b)
  BY <1>1 DEF FamiliesOrdered
<1>3. QED
  BY <1>2

(* An ordering of a set names each of its elements once.                   *)
LEMMA OrderingsNameOnce ==
  ASSUME NEW S \in SUBSET Thread, NEW s \in Orderings(S)
  PROVE  /\ s \in Seq(Thread)
         /\ \A i \in DOMAIN s : s[i] \in S
         /\ \A i, j \in DOMAIN s : s[i] = s[j] => i = j
<1>1. IsFiniteSet(S) /\ Cardinality(S) \in Nat
  BY ConstantsAssumption, FS_Subset, FS_CardinalityType
<1>2. s \in [1..Cardinality(S) -> S] /\ s \in Surjection(1..Cardinality(S), S)
  BY DEF Orderings, Surjection
<1>3. IsFiniteSet(1..Cardinality(S)) /\ Cardinality(1..Cardinality(S)) = Cardinality(S)
  BY <1>1, FS_Interval
<1>4. s \in Injection(1..Cardinality(S), S)
  BY <1>2, <1>3, FS_SurjSameCardinalityImpliesInj
<1>5. \A i, j \in DOMAIN s : s[i] = s[j] => i = j
  BY <1>2, <1>4 DEF Injection, IsInjective
<1>6. QED
  BY <1>2, <1>5, OrderingsAreSequences

(* The lock of a descendant comes after that of its ancestor.              *)
LEMMA TwoLocksDescend ==
  ASSUME FamiliesOrdered, NEW a \in Thread, NEW b \in Thread, Lineage(a, b), NEW s, s = <<a, b>>
  PROVE  /\ \A i \in DOMAIN s : i > 1 => Lineage(s[1], s[i])
         /\ \A i, j \in DOMAIN s : s[i] = s[j] => i = j
<1>1. a # b
  BY NotOfItself
<1>2. DOMAIN s = 1..2 /\ s[1] = a /\ s[2] = b
  OBVIOUS
<1>3. \A i \in DOMAIN s : i = 1 \/ i = 2
  BY <1>2
<1>4. \A i \in DOMAIN s : i > 1 => Lineage(s[1], s[i])
  BY <1>2, <1>3
<1>5. QED
  BY <1>1, <1>2, <1>3, <1>4

LEMMA OneLockDescends ==
  ASSUME NEW a, NEW s, s = <<a>>
  PROVE  /\ \A i \in DOMAIN s : i > 1 => Lineage(s[1], s[i])
         /\ \A i, j \in DOMAIN s : s[i] = s[j] => i = j
<1>1. \A i \in DOMAIN s : i = 1
  OBVIOUS
<1>2. QED
  BY <1>1

(* The first locks of a command follow the lineage.                        *)
LEMMA FirstLocksDescend ==
  ASSUME FamiliesOrdered, InitialsStay, NEW q \in Request
  PROVE  /\ \A i \in DOMAIN FirstLocks(q) : i > 1 => Lineage(FirstLocks(q)[1], FirstLocks(q)[i])
         /\ \A i, j \in DOMAIN FirstLocks(q) : FirstLocks(q)[i] = FirstLocks(q)[j] => i = j
         /\ q.type = "delete" => FirstLocks(q) = <<q.thread>>
<1>1. q.thread \in Thread /\ Parent[q.thread] \in Thread \cup {NoThread}
  BY ConstantsAssumption
<1>2. q.type = "delete" => FirstLocks(q) = <<q.thread>>
  BY DEF FirstLocks
<1>3. CASE q.type = "message" /\ Parent[q.thread] # NoThread
  <2>1. FirstLocks(q) = <<Parent[q.thread], q.thread>>
    BY <1>3 DEF FirstLocks
  <2>2. Lineage(Parent[q.thread], q.thread)
    BY DEF Lineage
  <2>3. QED
    BY <1>1, <1>2, <1>3, <2>1, <2>2, TwoLocksDescend
<1>4. CASE /\ FirstLocks(q) = <<q.source, q.thread>> /\ q.type = "fork"
           /\ q.source # q.thread /\ life[q.thread] = "none"
  <2>1. q.source \in Thread
    BY <1>4, ConstantsAssumption
  <2>2. Lineage(q.source, q.thread)
    BY <1>4 DEF Lineage, InitialsStay
  <2>3. QED
    BY <1>1, <1>2, <1>4, <2>1, <2>2, TwoLocksDescend
<1>5. CASE FirstLocks(q) = <<q.thread>>
  BY <1>2, <1>5, OneLockDescends
<1>6. QED
  BY <1>3, <1>4, <1>5 DEF FirstLocks

(* A dispatch that does not move keeps its place.                          *)
LEMMA UndisturbedDescends ==
  ASSUME PathsDescend, NEW x \in Dispatcher, Undisturbed(x)
  PROVE  PathDescends(x)' /\ ForkDescends(x)'
BY DEF PathsDescend, PathDescends, ForkDescends, Undisturbed

(* A step that changes no thread needs to be looked at in one dispatch.    *)
LEMMA QuietDescends ==
  ASSUME DInv, UNCHANGED <<life, sideOf>>, NEW d \in Dispatcher,
         \A x \in Dispatcher : x # d => Undisturbed(x),
         PathDescends(d)' /\ ForkDescends(d)'
  PROVE  DInv'
<1>1. SidesDescend' /\ InitialsStay'
  BY DEF DInv, SidesDescend, InitialsStay, Lineage
<1>2. PathsDescend'
  BY UndisturbedDescends DEF DInv, PathsDescend
<1>3. QED
  BY <1>1, <1>2 DEF DInv

(* A dispatch past its locks that takes no more keeps its path.            *)
LEMMA SamePathDescends ==
  ASSUME PathsDescend, NEW d \in Dispatcher, path'[d] = path[d], pc'[d] # "locking"
  PROVE  PathDescends(d)'
BY DEF PathsDescend, PathDescends

(* The lineage is followed by every step.                                  *)
LEMMA ReceiveDescends ==
  ASSUME FamiliesOrdered, IInv, DInv, NEW d \in Dispatcher, NEW q \in Request, Receive(d, q)
  PROVE  DInv'
<1>1. /\ UNCHANGED <<life, sideOf>> /\ request'[d] = q
      /\ pc'[d] \in {"locking", "answering"}
      /\ \A x \in Dispatcher : x # d => Undisturbed(x)
  BY DEF Receive, storeVars, IInv, TypeOK, AnswerWith, Goto, Undisturbed
<1>2. ForkDescends(d)'
  BY <1>1 DEF ForkDescends
<1>3. CASE pc'[d] = "answering"
  <2>1. path'[d] = path[d]
    BY <1>3 DEF Receive, AnswerWith, Goto, IInv, TypeOK
  <2>2. QED
    BY <1>1, <1>2, <1>3, <2>1, SamePathDescends, QuietDescends DEF DInv
<1>4. CASE pc'[d] = "locking"
  <2>1. path'[d] = FirstLocks(q)
    BY <1>4 DEF Receive, AnswerWith, Goto, IInv, TypeOK
  <2>2. PathDescends(d)'
    BY <1>1, <2>1, FirstLocksDescend DEF DInv, PathDescends, Lineage
  <2>3. QED
    BY <1>1, <1>2, <2>2, QuietDescends
<1>5. QED
  BY <1>1, <1>3, <1>4

(* The side chats of a deletion descend from its thread.                   *)
LEMMA LockDescends ==
  ASSUME FamiliesOrdered, IInv, DInv, NEW d \in Dispatcher, Lock(d)
  PROVE  DInv'
<1> DEFINE t == path[d][locked[d] + 1]
<1> DEFINE kin == IF request[d].type = "delete" /\ locked[d] = 0
                  THEN Orderings(LiveSideChats(t)) ELSE {<<>>}
<1>1. /\ UNCHANGED <<life, sideOf, request, plan>>
      /\ pc[d] = "locking" /\ pc'[d] \in {"locking", "receipt"}
      /\ locked'[d] = locked[d] + 1 /\ locked[d] \in Nat /\ locked[d] < Len(path[d])
      /\ path[d] \in Seq(Thread)
      /\ \A x \in Dispatcher : x # d => Undisturbed(x)
  BY DEF Lock, storeVars, IInv, TypeOK, Locking, Goto, Undisturbed
<1>2. PICK more \in kin : path'[d] = path[d] \o more
  BY DEF Lock, IInv, TypeOK
<1>3. ForkDescends(d)' /\ locked'[d] # 0
  BY <1>1 DEF ForkDescends
<1>4. CASE ~(request[d].type = "delete" /\ locked[d] = 0)
  <2>1. more = <<>>
    BY <1>4
  <2>2. path'[d] = path[d]
    BY <1>1, <1>2, <2>1
  <2>3. PathDescends(d)'
    BY <1>3, <2>2 DEF DInv, PathsDescend, PathDescends
  <2>4. QED
    BY <1>1, <1>3, <2>3, QuietDescends
<1>5. CASE request[d].type = "delete" /\ locked[d] = 0
  <2>1. path[d] = <<request[d].thread>> /\ t = request[d].thread /\ t \in Thread
    <3>1. path[d] = <<request[d].thread>>
      BY <1>1, <1>5 DEF DInv, PathsDescend, PathDescends
    <3>2. request[d].thread \in Thread
      BY <1>1, BusyHasRequest DEF IInv
    <3>3. QED
      BY <1>5, <3>1, <3>2
  <2>2. more \in Orderings(LiveSideChats(t)) /\ LiveSideChats(t) \in SUBSET Thread
    BY <1>5 DEF LiveSideChats
  <2>3. /\ more \in Seq(Thread)
        /\ \A i \in DOMAIN more : more[i] \in LiveSideChats(t)
        /\ \A i, j \in DOMAIN more : more[i] = more[j] => i = j
    BY <2>2, OrderingsNameOnce
  <2>4. \A s \in LiveSideChats(t) : Lineage(t, s) /\ s # t
    <3> SUFFICES ASSUME NEW s \in LiveSideChats(t) PROVE Lineage(t, s) /\ s # t
      OBVIOUS
    <3>1. s \in Thread /\ sideOf[s] = t
      BY DEF LiveSideChats
    <3>2. Lineage(t, s)
      BY <2>1, <3>1, ConstantsAssumption DEF DInv, SidesDescend
    <3>3. QED
      BY <2>1, <3>1, <3>2, NotOfItself
  <2>5. /\ Len(path'[d]) = 1 + Len(more) /\ Len(more) \in Nat /\ path'[d][1] = t
        /\ \A i \in 1..Len(more) : path'[d][1 + i] = more[i]
        /\ path'[d] \in Seq(Thread)
    <3>1. Len(path[d]) = 1 /\ path[d][1] = t
      BY <2>1
    <3>2. /\ Len(path'[d]) = Len(path[d]) + Len(more) /\ Len(more) \in Nat
          /\ \A i \in 1..Len(path[d]) : path'[d][i] = path[d][i]
          /\ \A i \in 1..Len(more) : path'[d][Len(path[d]) + i] = more[i]
          /\ path'[d] \in Seq(Thread)
      BY <1>1, <1>2, <2>3, ConcatenationType
    <3>3. QED
      BY <3>1, <3>2
  <2>6. ASSUME NEW i \in DOMAIN path'[d], i > 1
        PROVE  i - 1 \in DOMAIN more /\ path'[d][i] = more[i - 1]
    <3>1. i \in 1..(1 + Len(more))
      BY <2>5
    <3>2. i - 1 \in 1..Len(more) /\ i = 1 + (i - 1)
      BY <2>5, <2>6, <3>1
    <3>3. QED
      BY <2>3, <2>5, <3>2
  <2>7. \A i \in DOMAIN path'[d] : i = 1 \/ i > 1
    <3>1. DOMAIN path'[d] = 1..(1 + Len(more))
      BY <2>5
    <3>2. QED
      BY <2>5, <3>1
  <2>8. \A i \in DOMAIN path'[d] : i > 1 => Lineage(t, path'[d][i]) /\ path'[d][i] # t
    BY <2>3, <2>4, <2>6
  <2>9. ASSUME NEW i \in DOMAIN path'[d], NEW j \in DOMAIN path'[d], path'[d][i] = path'[d][j]
        PROVE  i = j
    <3>1. CASE i = 1 \/ j = 1
      BY <2>5, <2>7, <2>8, <2>9, <3>1
    <3>2. CASE i > 1 /\ j > 1
      <4>1. i - 1 = j - 1
        BY <2>3, <2>6, <2>9, <3>2
      <4>2. i \in Int /\ j \in Int
        BY <2>5
      <4>3. QED
        BY <4>1, <4>2
    <3>3. QED
      BY <2>7, <3>1, <3>2
  <2>10. PathDescends(d)'
    BY <1>3, <2>5, <2>8, <2>9 DEF PathDescends, Lineage
  <2>11. QED
    BY <1>1, <1>3, <2>10, QuietDescends
<1>6. QED
  BY <1>4, <1>5

(* What a commit makes of the side chats.                                  *)
LEMMA CommitDescends ==
  ASSUME IInv, DInv, NEW d \in Dispatcher, Commit(d)
  PROVE  DInv'
<1>1. /\ UNCHANGED <<path, request, plan>>
      /\ pc[d] = "planned" /\ plan[d] = "events" /\ pc'[d] \in {"following", "answering"}
      /\ \A x \in Dispatcher : x # d => Undisturbed(x)
  BY DEF Commit, IInv, TypeOK, Accept, AnswerWith, Goto, StartsQueue, Undisturbed
<1>2. PathDescends(d)' /\ ForkDescends(d)'
  BY <1>1, SamePathDescends DEF DInv, ForkDescends
<1>3. CASE UNCHANGED <<life, sideOf>>
  BY <1>1, <1>2, <1>3, QuietDescends
<1>4. CASE Apply(d, request[d])
  <2>1. request[d] \in Request /\ request[d].thread \in Thread
    BY <1>1, BusyHasRequest DEF IInv
  <2>2. \A t \in Thread : life'[t] \in {life[t], "live", "deleted"}
    BY <1>4 DEF Apply, IInv, TypeOK
  <2>3. InitialsStay'
    BY <2>2, ConstantsAssumption DEF DInv, InitialsStay
  <2>4. ASSUME NEW t \in Thread, sideOf'[t] # NoThread PROVE Lineage(sideOf'[t], t)
    <3>1. CASE sideOf'[t] = sideOf[t]
      BY <2>4, <3>1 DEF DInv, SidesDescend
    <3>2. CASE sideOf'[t] # sideOf[t]
      <4>1. request[d].type = "fork" /\ t = request[d].thread /\ sideOf'[t] = request[d].source
        BY <1>4, <2>1, <2>4, <3>2 DEF Apply, IInv, TypeOK
      <4>2. t \notin InitialThreads /\ request[d].source # t
        BY <1>1, <4>1 DEF DInv, PathsDescend, ForkDescends
      <4>3. QED
        BY <2>1, <4>1, <4>2 DEF Lineage
    <3>3. QED
      BY <3>1, <3>2
  <2>5. SidesDescend'
    BY <2>4 DEF SidesDescend, Lineage
  <2>6. PathsDescend'
    BY <1>1, <1>2, UndisturbedDescends DEF DInv, PathsDescend
  <2>7. QED
    BY <2>3, <2>5, <2>6 DEF DInv
<1>5. QED
  BY <1>3, <1>4 DEF Commit

(* A run that ends takes one lock after the other, never two.              *)
LEMMA RunUpdateDescends ==
  ASSUME IInv, DInv, NEW d \in Dispatcher, RunUpdate(d)
  PROVE  DInv'
<1>1. /\ UNCHANGED <<life, sideOf>>
      /\ \A x \in Dispatcher : x # d => Undisturbed(x)
  BY DEF RunUpdate, storeVars, IInv, TypeOK, Release, Goto, Undisturbed
<1>2. CASE Parent[request[d].thread] # NoThread /\ path[d] = <<request[d].thread>>
  <2>1. /\ path'[d] = <<Parent[request[d].thread]>> /\ pc'[d] = "locking"
        /\ request'[d].type = "finish"
    BY <1>2 DEF RunUpdate, Goto, IInv, TypeOK
  <2>2. PathDescends(d)' /\ ForkDescends(d)'
    BY <2>1, OneLockDescends DEF PathDescends, ForkDescends, Lineage
  <2>3. QED
    BY <1>1, <2>2, QuietDescends
<1>3. CASE ~(Parent[request[d].thread] # NoThread /\ path[d] = <<request[d].thread>>)
  <2>1. path'[d] = <<>> /\ pc'[d] = "idle"
    BY <1>3 DEF RunUpdate, Release
  <2>2. PathDescends(d)' /\ ForkDescends(d)'
    BY <2>1 DEF PathDescends, ForkDescends
  <2>3. QED
    BY <1>1, <2>2, QuietDescends
<1>4. QED
  BY <1>2, <1>3

(* Dispatches that end leave no path.                                      *)
LEMMA EndDescends ==
  ASSUME DInv, NEW F \in SUBSET Dispatcher, Release(F), UNCHANGED <<life, sideOf>>
  PROVE  DInv'
<1>1. SidesDescend' /\ InitialsStay'
  BY DEF DInv, SidesDescend, InitialsStay, Lineage
<1>2. ASSUME NEW x \in Dispatcher PROVE PathDescends(x)' /\ ForkDescends(x)'
  <2>1. CASE x \in F
    <3>1. path'[x] = <<>> /\ pc'[x] = "idle"
      BY <2>1 DEF Release
    <3>2. QED
      BY <3>1 DEF PathDescends, ForkDescends
  <2>2. CASE x \notin F
    <3>1. Undisturbed(x)
      BY <2>2 DEF Release, Undisturbed
    <3>2. QED
      BY <3>1, UndisturbedDescends DEF DInv
  <2>3. QED
    BY <2>1, <2>2
<1>3. QED
  BY <1>1, <1>2 DEF DInv, PathsDescend

LEMMA DescendsStep ==
  ASSUME FamiliesOrdered, IInv, DInv, [Next]_vars
  PROVE  DInv'
<1>1. ASSUME NEW d \in Dispatcher,
             ReadReceipt(d) \/ CommitRejected(d) \/ CommitEmpty(d) \/ StartQueue(d)
               \/ Refuse(d) \/ StorageFails(d)
      PROVE  DInv'
  <2>1. /\ UNCHANGED <<life, sideOf, path, request>>
        /\ pc'[d] \in {"planning", "following", "answering"}
        /\ \A x \in Dispatcher : x # d => Undisturbed(x)
    BY <1>1 DEF ReadReceipt, CommitRejected, CommitEmpty, StartQueue, Refuse, StorageFails,
                storeVars, IInv, TypeOK, Replay, Accept, AnswerWith, Goto, Undisturbed
  <2>2. PathDescends(d)' /\ ForkDescends(d)'
    BY <2>1, SamePathDescends DEF DInv, ForkDescends
  <2>3. QED
    BY <2>1, <2>2, QuietDescends
<1>2. ASSUME NEW d \in Dispatcher, MakePlan(d) PROVE DInv'
  <2>1. /\ UNCHANGED <<life, sideOf, path, request>>
        /\ pc[d] = "planning" /\ pc'[d] = "planned"
        /\ plan'[d] = "events" => CanApply(request[d])
        /\ \A x \in Dispatcher : x # d => Undisturbed(x)
    BY <1>2 DEF MakePlan, storeVars, IInv, TypeOK, Outcomes, Goto, Undisturbed
  <2>2. ForkDescends(d)'
    BY <2>1 DEF DInv, InitialsStay, ForkDescends, CanApply, Live
  <2>3. PathDescends(d)'
    BY <2>1, SamePathDescends DEF DInv
  <2>4. QED
    BY <2>1, <2>2, <2>3, QuietDescends
<1>3. ASSUME NEW d \in Dispatcher, Respond(d) PROVE DInv'
  BY <1>3, EndDescends DEF Respond, storeVars
<1>4. ASSUME NEW F \in SUBSET Dispatcher, Interrupt(F) PROVE DInv'
  BY <1>4, EndDescends DEF Interrupt, storeVars
<1>5. CASE UNCHANGED vars
  <2>1. Release({}) /\ UNCHANGED <<life, sideOf>>
    BY <1>5 DEF vars, storeVars, fiberVars, Release, IInv, TypeOK
  <2>2. QED
    BY <2>1, EndDescends
<1>6. QED
  BY <1>1, <1>2, <1>3, <1>4, <1>5, ReceiveDescends, LockDescends, CommitDescends, RunUpdateDescends
     DEF Next, Advance, Crash

LEMMA InitDescends ==
  ASSUME Init
  PROVE  DInv
<1>1. SidesDescend /\ InitialsStay
  BY ConstantsAssumption DEF Init, SidesDescend, InitialsStay, Lineage
<1>2. PathsDescend
  BY DEF Init, PathsDescend, PathDescends, ForkDescends
<1>3. QED
  BY <1>1, <1>2 DEF DInv

(* Of the dispatches that wait for one another, take one whose first lock  *)
(* has no descendant among the first locks of the others: nobody holds     *)
(* what it waits for.                                                      *)
LEMMA NobodyWaitsInACircle ==
  ASSUME FamiliesOrdered, IInv, DInv
  PROVE  NoCircularWait
<1> SUFFICES ASSUME NEW D \in SUBSET Dispatcher, D # {},
                    \A d \in D : \E x \in D : WaitsFor(d, x)
             PROVE  FALSE
  BY DEF NoCircularWait
<1> DEFINE Holding == {d \in D : locked[d] >= 1}
<1> DEFINE Firsts == {path[d][1] : d \in Holding}
<1>1. ASSUME NEW d \in Dispatcher
      PROVE  /\ path[d] \in Seq(Thread) /\ locked[d] \in Nat /\ locked[d] <= Len(path[d])
             /\ pc[d] = "locking" => locked[d] + 1 \in DOMAIN path[d]
             /\ 1..locked[d] \subseteq DOMAIN path[d]
             /\ locked[d] >= 1 => path[d][1] \in Thread /\ path[d][1] \in Held(d)
  <2>1. path[d] \in Seq(Thread) /\ locked[d] \in Nat /\ locked[d] <= Len(path[d])
    BY DEF IInv, TypeOK, Locking
  <2>2. pc[d] = "locking" => locked[d] < Len(path[d])
    BY DEF IInv, Locking
  <2>3. DOMAIN path[d] = 1..Len(path[d]) /\ Len(path[d]) \in Nat
    BY <2>1
  <2>4. 1..locked[d] \subseteq DOMAIN path[d]
    BY <2>1, <2>3
  <2>5. pc[d] = "locking" => locked[d] + 1 \in DOMAIN path[d]
    BY <2>1, <2>2, <2>3
  <2>6. ASSUME locked[d] >= 1 PROVE path[d][1] \in Thread /\ path[d][1] \in Held(d)
    <3>1. 1 \in 1..locked[d]
      BY <2>1, <2>6
    <3>2. 1 \in DOMAIN path[d]
      BY <2>4, <3>1
    <3>3. QED
      BY <2>1, <3>1, <3>2, ElementType DEF Held
  <2>7. QED
    BY <2>1, <2>4, <2>5, <2>6
<1>2. ASSUME NEW d \in D
      PROVE  \E x \in Holding : WaitsFor(d, x)
  <2>1. PICK x \in D : WaitsFor(d, x)
    OBVIOUS
  <2>2. PICK i \in 1..locked[x] : path[d][locked[d] + 1] = path[x][i]
    BY <2>1 DEF WaitsFor, Held
  <2>3. locked[x] >= 1
    BY <1>1, <2>2
  <2>4. QED
    BY <2>1, <2>3
<1>3. Firsts \in SUBSET Thread /\ Firsts # {}
  <2>1. Firsts \in SUBSET Thread
    BY <1>1
  <2>2. Holding # {}
    BY <1>2
  <2>3. QED
    BY <2>1, <2>2
<1>4. PICK a \in Firsts : \A b \in Firsts : ~Lineage(a, b)
  BY <1>3 DEF FamiliesOrdered
<1>5. PICK d \in Holding : path[d][1] = a
  BY <1>4
<1>6. PICK x \in Holding : WaitsFor(d, x)
  BY <1>2
<1> DEFINE k == locked[d] + 1
<1>7. k \in DOMAIN path[d] /\ k > 1 /\ locked[d] \in Nat
  BY <1>1, <1>6 DEF WaitsFor
<1>8. Lineage(a, path[d][k]) /\ path[d][k] \in Thread
  <2>1. Lineage(path[d][1], path[d][k])
    BY <1>7 DEF DInv, PathsDescend, PathDescends
  <2>2. path[d][k] \in Thread
    BY <1>1, <1>7, ElementType
  <2>3. QED
    BY <1>5, <2>1, <2>2
<1>9. PICK i \in 1..locked[x] : path[x][i] = path[d][k]
  BY <1>6 DEF WaitsFor, Held
<1>10. i # 1
  <2>1. path[x][1] \in Firsts
    BY <1>6
  <2>2. QED
    BY <1>4, <1>8, <1>9, <2>1
<1>11. Lineage(path[x][1], path[d][k])
  <2>1. i \in DOMAIN path[x] /\ i > 1
    BY <1>1, <1>9, <1>10
  <2>2. Lineage(path[x][1], path[x][i])
    BY <2>1 DEF DInv, PathsDescend, PathDescends
  <2>3. QED
    BY <1>9, <2>2
<1>12. path[x][1] = path[d][1]
  BY <1>1, <1>5, <1>6, <1>8, <1>11 DEF FamiliesOrdered
<1>13. x = d
  <2>1. path[d][1] \in Held(d) /\ path[x][1] \in Held(x)
    BY <1>1, <1>5, <1>6
  <2>2. QED
    BY <1>12, <2>1 DEF IInv, Locking
<1>14. i \in DOMAIN path[d] /\ i < k
  BY <1>1, <1>9, <1>13
<1>15. i = k
  BY <1>7, <1>9, <1>13, <1>14 DEF DInv, PathsDescend, PathDescends
<1>16. QED
  BY <1>1, <1>7, <1>14, <1>15

(* Where every thread descends from one thread at most, no set of          *)
(* dispatches waits only for one another: the locks of a command, of a     *)
(* deletion with its side chats and of a run that ends are taken in an     *)
(* order in which somebody can go on.                                      *)
THEOREM LocksCannotDeadlock == FamiliesOrdered /\ Spec => []NoCircularWait
<1> SUFFICES ASSUME FamiliesOrdered PROVE Spec => []NoCircularWait
  OBVIOUS
<1>1. Init => DInv
  BY InitDescends
<1>2. IInv /\ DInv /\ [Next]_vars => DInv'
  BY DescendsStep
<1>3. IInv /\ DInv => NoCircularWait
  BY NobodyWaitsInACircle
<1>4. QED
  BY <1>1, <1>2, <1>3, Invariance, PTL DEF Spec

-----------------------------------------------------------------------------
(* The locks are used as a mutex.                                          *)

(* What is only let go is let go together.                                 *)
LEMMA DispatchersLetGo ==
  ASSUME \A x \in Dispatcher : Held(x)' \subseteq Held(x)
  PROVE  [Mutex!Next]_HeldByDispatchers
<1> DEFINE H == HeldByDispatchers \ HeldByDispatchers'
<1>1. HeldByDispatchers' \subseteq HeldByDispatchers
  BY DEF HeldByDispatchers
<1>2. HeldByDispatchers' = HeldByDispatchers \ H /\ H \in SUBSET HeldByDispatchers
  BY <1>1
<1>3. CASE H = {}
  BY <1>2, <1>3
<1>4. CASE H # {}
  <2>1. Mutex!LetGo(H)
    BY <1>2, <1>4 DEF Mutex!LetGo
  <2>2. QED
    BY <1>2, <2>1 DEF Mutex!Next
<1>5. QED
  BY <1>3, <1>4

(* A dispatch that has its path and its number of locks holds the same.    *)
LEMMA SamePathHolds ==
  ASSUME NEW x, path'[x] = path[x], locked'[x] = locked[x]
  PROVE  Held(x)' = Held(x)
BY DEF Held

(* A lock that is taken was held by nobody.                                *)
LEMMA LockTakesKey ==
  ASSUME IInv, NEW d \in Dispatcher, Lock(d)
  PROVE  Mutex!Next
<1> DEFINE t == path[d][locked[d] + 1]
<1>1. /\ \A x \in Dispatcher : t \notin Held(x)
      /\ locked'[d] = locked[d] + 1 /\ locked[d] \in Nat /\ locked[d] < Len(path[d])
      /\ path[d] \in Seq(Thread)
      /\ \A x \in Dispatcher : x # d => path'[x] = path[x] /\ locked'[x] = locked[x]
  BY DEF Lock, IInv, TypeOK, Locking
<1>2. PICK more \in Seq(Thread) : path'[d] = path[d] \o more
  <2>1. LiveSideChats(t) \in SUBSET Thread
    BY DEF LiveSideChats
  <2>2. PICK more \in IF request[d].type = "delete" /\ locked[d] = 0
                      THEN Orderings(LiveSideChats(t)) ELSE {<<>>} :
          path'[d] = path[d] \o more
    BY DEF Lock, IInv, TypeOK
  <2>3. more \in Seq(Thread)
    BY <2>1, OrderingsAreSequences, IsASeq
  <2>4. QED
    BY <2>2, <2>3
<1>3. \A i \in 1..(locked[d] + 1) : path'[d][i] = path[d][i] /\ i \in DOMAIN path[d]
  <2>1. \A i \in 1..Len(path[d]) : path'[d][i] = path[d][i]
    BY <1>1, <1>2, ConcatenationType
  <2>2. Len(path[d]) \in Nat /\ DOMAIN path[d] = 1..Len(path[d])
    BY <1>1
  <2>3. \A i \in 1..(locked[d] + 1) : i \in 1..Len(path[d])
    BY <1>1, <2>2
  <2>4. QED
    BY <2>1, <2>2, <2>3
<1>4. Held(d)' = Held(d) \cup {t}
  <2>1. Held(d)' = {path[d][i] : i \in 1..(locked[d] + 1)}
    BY <1>1, <1>3 DEF Held
  <2>2. 1..(locked[d] + 1) = (1..locked[d]) \cup {locked[d] + 1}
    BY <1>1
  <2>3. QED
    BY <2>1, <2>2 DEF Held
<1>5. \A x \in Dispatcher : x # d => Held(x)' = Held(x)
  BY <1>1, SamePathHolds
<1>6. t \in Thread
  <2>1. locked[d] + 1 \in DOMAIN path[d]
    BY <1>1, <1>3
  <2>2. QED
    BY <1>1, <2>1, ElementType
<1>7. HeldByDispatchers' = HeldByDispatchers \cup {[key |-> t, by |-> d]}
  <2>1. ASSUME NEW h \in [key : Thread, by : Dispatcher]
        PROVE  h \in HeldByDispatchers' <=> h \in HeldByDispatchers \/ h = [key |-> t, by |-> d]
    <3>1. h = [key |-> h.key, by |-> h.by] /\ h.by \in Dispatcher
      OBVIOUS
    <3>2. h.key \in Held(h.by)' <=> h.key \in Held(h.by) \/ (h.by = d /\ h.key = t)
      BY <1>4, <1>5, <3>1
    <3>3. QED
      BY <3>1, <3>2 DEF HeldByDispatchers
  <2>2. [key |-> t, by |-> d] \in [key : Thread, by : Dispatcher]
    BY <1>6
  <2>3. QED
    BY <2>1, <2>2 DEF HeldByDispatchers
<1>8. \A g \in HeldByDispatchers : g.key # t
  BY <1>1 DEF HeldByDispatchers
<1>9. Mutex!Take(t, d)
  BY <1>7, <1>8 DEF Mutex!Take
<1>10. QED
  BY <1>6, <1>9 DEF Mutex!Next

(* The fibers that end hold nothing.                                       *)
LEMMA ReleaseLetsGo ==
  ASSUME NEW F \in SUBSET Dispatcher, Release(F)
  PROVE  \A x \in Dispatcher : Held(x)' \subseteq Held(x)
<1> SUFFICES ASSUME NEW x \in Dispatcher PROVE Held(x)' \subseteq Held(x)
  OBVIOUS
<1>1. CASE x \in F
  <2>1. locked'[x] = 0
    BY <1>1 DEF Release
  <2>2. QED
    BY <2>1 DEF Held
<1>2. CASE x \notin F
  BY <1>2, SamePathHolds DEF Release
<1>3. QED
  BY <1>1, <1>2

(* Every step but Lock lets go of locks or of none.                        *)
LEMMA OthersLetGo ==
  ASSUME IInv, [Next]_vars, \A d \in Dispatcher : ~Lock(d)
  PROVE  \A x \in Dispatcher : Held(x)' \subseteq Held(x)
<1>1. ASSUME NEW d \in Dispatcher, NEW q \in Request, Receive(d, q)
      PROVE  \A x \in Dispatcher : Held(x)' \subseteq Held(x)
  <2>1. /\ locked'[d] = 0
        /\ \A x \in Dispatcher : x # d => path'[x] = path[x] /\ locked'[x] = locked[x]
    BY <1>1 DEF Receive, IInv, TypeOK, Locking
  <2>2. Held(d)' = {}
    BY <2>1 DEF Held
  <2>3. QED
    BY <2>1, <2>2, SamePathHolds
<1>2. ASSUME NEW d \in Dispatcher, RunUpdate(d)
      PROVE  \A x \in Dispatcher : Held(x)' \subseteq Held(x)
  <2>1. CASE Parent[request[d].thread] # NoThread /\ path[d] = <<request[d].thread>>
    <3>1. /\ locked'[d] = 0
          /\ \A x \in Dispatcher : x # d => path'[x] = path[x] /\ locked'[x] = locked[x]
      BY <1>2, <2>1 DEF RunUpdate, IInv, TypeOK
    <3>2. Held(d)' = {}
      BY <3>1 DEF Held
    <3>3. QED
      BY <3>1, <3>2, SamePathHolds
  <2>2. CASE ~(Parent[request[d].thread] # NoThread /\ path[d] = <<request[d].thread>>)
    <3>1. Release({d})
      BY <1>2, <2>2 DEF RunUpdate
    <3>2. QED
      BY <3>1, ReleaseLetsGo
  <2>3. QED
    BY <2>1, <2>2
<1>3. ASSUME NEW d \in Dispatcher,
             ReadReceipt(d) \/ MakePlan(d) \/ CommitRejected(d) \/ CommitEmpty(d) \/ Commit(d)
               \/ StartQueue(d) \/ Refuse(d) \/ StorageFails(d)
      PROVE  \A x \in Dispatcher : Held(x)' \subseteq Held(x)
  <2>1. UNCHANGED <<path, locked>>
    BY <1>3 DEF ReadReceipt, MakePlan, CommitRejected, CommitEmpty, Commit, StartQueue, Refuse,
                StorageFails
  <2>2. QED
    BY <2>1, SamePathHolds
<1>4. ASSUME NEW d \in Dispatcher, Respond(d)
      PROVE  \A x \in Dispatcher : Held(x)' \subseteq Held(x)
  BY <1>4, ReleaseLetsGo DEF Respond
<1>5. ASSUME NEW F \in SUBSET Dispatcher, Interrupt(F)
      PROVE  \A x \in Dispatcher : Held(x)' \subseteq Held(x)
  BY <1>5, ReleaseLetsGo DEF Interrupt
<1>6. CASE UNCHANGED vars
  <2>1. UNCHANGED <<path, locked>>
    BY <1>6 DEF vars, fiberVars
  <2>2. QED
    BY <2>1, SamePathHolds
<1>7. QED
  BY <1>1, <1>2, <1>3, <1>4, <1>5, <1>6 DEF Next, Advance, Crash

(* Nested, extended on the way and dropped by a crash, the locks of all    *)
(* dispatches together are taken and let go as the keyed mutex says: what  *)
(* CommandDispatch takes for a lock is what KeyedLock implements.          *)
THEOREM DispatchUsesMutex == Spec => UsesMutex
<1>1. Init => Mutex!Init
  <2> SUFFICES ASSUME Init PROVE HeldByDispatchers = {}
    BY DEF Mutex!Init
  <2>1. \A d \in Dispatcher : Held(d) = {}
    BY DEF Init, Held
  <2>2. QED
    BY <2>1 DEF HeldByDispatchers
<1>2. IInv /\ [Next]_vars => [Mutex!Next]_HeldByDispatchers
  <2> SUFFICES ASSUME IInv, [Next]_vars PROVE [Mutex!Next]_HeldByDispatchers
    OBVIOUS
  <2>1. CASE \E d \in Dispatcher : Lock(d)
    BY <2>1, LockTakesKey
  <2>2. CASE \A d \in Dispatcher : ~Lock(d)
    <3>1. \A x \in Dispatcher : Held(x)' \subseteq Held(x)
      BY <2>2, OthersLetGo
    <3>2. QED
      BY <3>1, DispatchersLetGo
  <2>3. QED
    BY <2>1, <2>2
<1>3. QED
  BY <1>1, <1>2, Invariance, PTL DEF Spec, UsesMutex, Mutex!Spec
=============================================================================

------------------------ MODULE BuildingBlocksProofs ------------------------
(***************************************************************************)
(* Proofs about the building blocks, for any keys, items, callers and      *)
(* waiters: their books are exact, nothing runs or returns early, and no   *)
(* queued command or wakeup of a settled row is lost.  The keyed lock has  *)
(* KeyedLockProofs; that nobody waits for ever is liveness, and stays with *)
(* TLC.                                                                    *)
(***************************************************************************)
EXTENDS BuildingBlocks, Sequences, FiniteSetTheorems, TLAPS

(***************************************************************************)
(* Sequences, as queues: appending and taking.                             *)
(***************************************************************************)
LEMMA AppendFacts ==
  ASSUME NEW S, NEW s \in Seq(S), NEW x \in S
  PROVE  /\ Append(s, x) \in Seq(S)
         /\ Len(Append(s, x)) = Len(s) + 1
         /\ \A i \in 1..Len(s) : Append(s, x)[i] = s[i]
         /\ Append(s, x)[Len(s) + 1] = x
OBVIOUS

LEMMA TailFacts ==
  ASSUME NEW S, NEW s \in Seq(S), s # <<>>
  PROVE  /\ Len(s) \in Nat \ {0}
         /\ Head(s) = s[1] /\ Head(s) \in S
         /\ Tail(s) \in Seq(S)
         /\ Len(Tail(s)) = Len(s) - 1
         /\ \A i \in 1..Len(Tail(s)) : Tail(s)[i] = s[i + 1]
         /\ \A i \in 1..Len(s) : i = 1 \/ (i - 1 \in 1..Len(Tail(s)) /\ s[i] = Tail(s)[i - 1])
OBVIOUS

-----------------------------------------------------------------------------
(***************************************************************************)
(* The drainable worker.                                                   *)
(***************************************************************************)

(* While the worker accepts items, every item it accepted is done, running *)
(* or in the queue; a drainer remembers items that were accepted.          *)
ItemsAccounted ==
  accepting =>
    \A i \in offered :
      \/ i \in finished
      \/ i = running
      \/ \E n \in 1..Len(queue) : queue[n] = i

BeforeOffered == \A d \in Drainer : before[d] \subseteq offered

DrainInv ==
  /\ Drainable!TypeOK
  /\ Drainable!CountIsExact
  /\ ItemsAccounted
  /\ BeforeOffered

LEMMA DrainInit == Drainable!Init => DrainInv
BY DEF Drainable!Init, DrainInv, Drainable!TypeOK, Drainable!CountIsExact,
       ItemsAccounted, BeforeOffered

(* A new item goes to the end of the queue and is counted.                 *)
LEMMA EnqueueKeeps ==
  ASSUME DrainInv, NEW i \in Item, Drainable!Enqueue(i)
  PROVE  DrainInv'
<1> USE DEF Drainable!Enqueue
<1>1. /\ queue \in Seq(Item)
      /\ queue' = Append(queue, i)
  BY DEF DrainInv, Drainable!TypeOK
<1>2. /\ queue' \in Seq(Item)
      /\ Len(queue') = Len(queue) + 1
      /\ \A n \in 1..Len(queue) : queue'[n] = queue[n]
      /\ queue'[Len(queue) + 1] = i
  BY <1>1, AppendFacts
<1>3. Drainable!TypeOK'
  BY <1>2 DEF DrainInv, Drainable!TypeOK
<1>4. Drainable!CountIsExact'
  BY <1>1, <1>2 DEF DrainInv, Drainable!TypeOK, Drainable!CountIsExact
<1>5. ItemsAccounted'
  <2> SUFFICES ASSUME accepting', NEW j \in offered'
               PROVE  \/ j \in finished'
                      \/ j = running'
                      \/ \E n \in 1..Len(queue') : queue'[n] = j
    BY DEF ItemsAccounted
  <2>1. CASE j = i
    <3>1. Len(queue) + 1 \in 1..Len(queue')
      BY <1>1, <1>2
    <3>2. QED
      BY <3>1, <1>2, <2>1
  <2>2. CASE j \in offered
    <3>1. \/ j \in finished
          \/ j = running
          \/ \E n \in 1..Len(queue) : queue[n] = j
      BY <2>2 DEF DrainInv, ItemsAccounted
    <3>2. \A n \in 1..Len(queue) : n \in 1..Len(queue')
      BY <1>1, <1>2
    <3>3. QED
      BY <3>1, <3>2, <1>2
  <2>3. QED
    BY <2>1, <2>2
<1>6. BeforeOffered'
  BY DEF DrainInv, BeforeOffered
<1>7. QED
  BY <1>3, <1>4, <1>5, <1>6 DEF DrainInv

(* The item at the head of the queue becomes the running one.              *)
LEMMA TakeItemKeeps ==
  ASSUME DrainInv, Drainable!TakeItem
  PROVE  DrainInv'
<1> USE DEF Drainable!TakeItem
<1>1. /\ queue \in Seq(Item) /\ queue # <<>>
      /\ running' = Head(queue) /\ queue' = Tail(queue)
  BY DEF DrainInv, Drainable!TypeOK
<1>2. /\ running' = queue[1] /\ running' \in Item
      /\ queue' \in Seq(Item)
      /\ Len(queue) \in Nat \ {0}
      /\ Len(queue') = Len(queue) - 1
      /\ \A n \in 1..Len(queue) :
           n = 1 \/ (n - 1 \in 1..Len(queue') /\ queue[n] = queue'[n - 1])
  BY <1>1, TailFacts
<1>3. Drainable!TypeOK'
  BY <1>2 DEF DrainInv, Drainable!TypeOK
<1>4. Drainable!CountIsExact'
  BY <1>2, BlocksAssumption DEF DrainInv, Drainable!TypeOK, Drainable!CountIsExact
<1>5. ItemsAccounted'
  <2> SUFFICES ASSUME accepting', NEW j \in offered'
               PROVE  \/ j \in finished'
                      \/ j = running'
                      \/ \E n \in 1..Len(queue') : queue'[n] = j
    BY DEF ItemsAccounted
  <2>1. \/ j \in finished
        \/ j = running
        \/ \E n \in 1..Len(queue) : queue[n] = j
    BY DEF DrainInv, ItemsAccounted
  <2>2. j # running
    BY BlocksAssumption DEF DrainInv, Drainable!TypeOK
  <2>3. CASE j \in finished
    BY <2>3
  <2>4. CASE \E n \in 1..Len(queue) : queue[n] = j
    BY <2>4, <1>2
  <2>5. QED
    BY <2>1, <2>2, <2>3, <2>4
<1>6. BeforeOffered'
  BY DEF DrainInv, BeforeOffered
<1>7. QED
  BY <1>3, <1>4, <1>5, <1>6 DEF DrainInv

LEMMA DrainStep == DrainInv /\ [Drainable!Next]_Drainable!drainVars => DrainInv'
<1> SUFFICES ASSUME DrainInv, [Drainable!Next]_Drainable!drainVars
             PROVE  DrainInv'
  OBVIOUS
<1> USE DEF DrainInv, Drainable!TypeOK, Drainable!CountIsExact, ItemsAccounted,
            BeforeOffered
<1>1. CASE \E i \in Item : Drainable!Enqueue(i)
  BY <1>1, EnqueueKeeps
<1>2. CASE Drainable!TakeItem
  BY <1>2, TakeItemKeeps
<1>3. CASE Drainable!EndItem
  BY <1>3 DEF Drainable!EndItem
<1>4. CASE Drainable!StopLoop
  BY <1>4 DEF Drainable!StopLoop
<1>5. CASE Drainable!InterruptFiber
  BY <1>5 DEF Drainable!InterruptFiber
<1>6. CASE Drainable!CloseQueue
  <2>1. /\ Len(queue) \in Nat
        /\ queue' = <<>> /\ Len(queue') = 0
    BY <1>6 DEF Drainable!CloseQueue
  <2>2. outstanding' = outstanding - Len(queue) /\ running' = running /\ ~accepting'
    BY <1>6 DEF Drainable!CloseQueue
  <2>3. Drainable!CountIsExact'
    BY <2>1, <2>2
  <2>4. Drainable!TypeOK'
    <3>1. queue' \in Seq(Item)
      BY <2>1
    <3>2. outstanding' \in Int
      BY <2>1, <2>2
    <3>3. accepting' \in BOOLEAN
      BY <1>6 DEF Drainable!CloseQueue
    <3>4. QED
      BY <1>6, <3>1, <3>2, <3>3 DEF Drainable!CloseQueue
  <2>5. ItemsAccounted'
    BY <2>2
  <2>6. BeforeOffered'
    BY <1>6 DEF Drainable!CloseQueue
  <2>7. QED
    BY <2>3, <2>4, <2>5, <2>6
<1>7. CASE \E d \in Drainer : Drainable!CallDrain(d)
  BY <1>7 DEF Drainable!CallDrain
<1>8. CASE \E d \in Drainer : Drainable!ReturnDrain(d)
  BY <1>8 DEF Drainable!ReturnDrain
<1>9. CASE UNCHANGED Drainable!drainVars
  BY <1>9 DEF Drainable!drainVars
<1>10. QED
  BY <1>1, <1>2, <1>3, <1>4, <1>5, <1>6, <1>7, <1>8, <1>9 DEF Drainable!Next

(* The inductive invariant of the drainable worker.                        *)
THEOREM DrainInvariant == Drainable!Spec => []DrainInv
BY DrainInit, DrainStep, PTL DEF Drainable!Spec

(* A drainer that returns found the queue empty and nobody at work, and    *)
(* so everything it came after is done.                                    *)
LEMMA DrainReturnsLate ==
  ASSUME DrainInv, [Drainable!Next]_Drainable!drainVars
  PROVE  \A d \in Drainer :
           accepting /\ drain[d] = "waiting" /\ drain'[d] = "returned"
             => before[d] \subseteq finished
<1> SUFFICES ASSUME NEW d \in Drainer,
                    accepting, drain[d] = "waiting", drain'[d] = "returned"
             PROVE  before[d] \subseteq finished
  OBVIOUS
<1> USE DEF DrainInv, Drainable!TypeOK
<1>1. outstanding <= 0
  <2>1. CASE \E i \in Item : Drainable!Enqueue(i)
    BY <2>1 DEF Drainable!Enqueue
  <2>2. CASE \/ Drainable!TakeItem \/ Drainable!EndItem \/ Drainable!StopLoop
             \/ Drainable!InterruptFiber \/ Drainable!CloseQueue
             \/ UNCHANGED Drainable!drainVars
    BY <2>2 DEF Drainable!TakeItem, Drainable!EndItem, Drainable!StopLoop,
                Drainable!InterruptFiber, Drainable!CloseQueue, Drainable!drainVars
  <2>3. CASE \E e \in Drainer : Drainable!CallDrain(e)
    BY <2>3 DEF Drainable!CallDrain
  <2>4. CASE \E e \in Drainer : Drainable!ReturnDrain(e)
    BY <2>4 DEF Drainable!ReturnDrain
  <2>5. QED
    BY <2>1, <2>2, <2>3, <2>4 DEF Drainable!Next
<1>2. Len(queue) = 0 /\ running = NoItem
  <2>1. Len(queue) \in Nat
    OBVIOUS
  <2>2. QED
    BY <1>1, <2>1 DEF Drainable!CountIsExact
<1>3. offered \subseteq finished
  BY <1>2, BlocksAssumption DEF ItemsAccounted
<1>4. QED
  BY <1>3 DEF BeforeOffered

(* The count is exact after every step, and no drain returns before what   *)
(* it came after is processed.                                             *)
THEOREM DrainsAreExact == Drainable!Spec => DrainIsExact
<1>1. DrainInv => Drainable!CountIsExact
  BY DEF DrainInv
<1>2. DrainInv /\ [Drainable!Next]_Drainable!drainVars
        => [\A d \in Drainer :
              accepting /\ drain[d] = "waiting" /\ drain'[d] = "returned"
                => before[d] \subseteq finished]_Drainable!drainVars
  BY DrainReturnsLate
<1>3. QED
  BY <1>1, <1>2, DrainInvariant, PTL
     DEF Drainable!Spec, DrainIsExact, Drainable!DrainIsExact, Drainable!DrainWaits

-----------------------------------------------------------------------------
(***************************************************************************)
(* The coalescing worker.                                                  *)
(***************************************************************************)

(* While the scope is open the queue holds no key twice, and the keys that *)
(* count as queued are those in the queue and the one the fiber took.      *)
QueueDistinct ==
  open => \A i, j \in 1..Len(keyQueue) : keyQueue[i] = keyQueue[j] => i = j

QueuedExactly ==
  open =>
    /\ \A k \in Key :
         k \in queuedKeys <=> taken = k \/ \E i \in 1..Len(keyQueue) : keyQueue[i] = k
    /\ \A i \in 1..Len(keyQueue) : keyQueue[i] # taken

(* The fiber works on one key, the active one, and looks up the next one   *)
(* when it is done with it.                                                *)
WorkingActive ==
  /\ working = Coalescing!Nothing \/ working.key \in Key
  /\ taken # NoKey => working = Coalescing!Nothing
  /\ \A k \in Key : k \in activeKeys <=> working.key = k

(* Every value given to a key is processed, pending or being processed.    *)
ValuesAccounted ==
  \A k \in Key :
    1..enqueued[k] \subseteq
      processed[k] \cup latestByKey[k] \cup (IF working.key = k THEN working.value ELSE {})

DrainsLookBack == \A k \in Key : draining[k] <= enqueued[k]

CoalescingInv ==
  /\ Coalescing!TypeOK
  /\ QueueDistinct
  /\ QueuedExactly
  /\ WorkingActive
  /\ ValuesAccounted
  /\ DrainsLookBack

LEMMA CoalescingInit == Coalescing!Init => CoalescingInv
<1> SUFFICES ASSUME Coalescing!Init PROVE CoalescingInv
  OBVIOUS
<1> USE LockAssumption, BlocksAssumption
    DEF Coalescing!Init, Coalescing!Nothing
<1>1. Coalescing!TypeOK
  BY DEF Coalescing!TypeOK, Coalescing!Value
<1>2. QueueDistinct /\ QueuedExactly
  BY DEF QueueDistinct, QueuedExactly
<1>3. WorkingActive
  BY DEF WorkingActive
<1>4. ValuesAccounted /\ DrainsLookBack
  BY DEF ValuesAccounted, DrainsLookBack
<1>5. QED
  BY <1>1, <1>2, <1>3, <1>4 DEF CoalescingInv

(* A key that is neither queued nor taken goes to the end of the queue.    *)
LEMMA PlaceKeeps ==
  ASSUME Coalescing!TypeOK, QueueDistinct, QueuedExactly,
         NEW k \in Key, k \notin queuedKeys,
         queuedKeys' = queuedKeys \cup {k},
         keyQueue' = (IF open THEN Append(keyQueue, k) ELSE keyQueue),
         open' = open, taken' = taken
  PROVE  keyQueue' \in Seq(Key) /\ QueueDistinct' /\ QueuedExactly'
<1>1. CASE ~open
  BY <1>1 DEF Coalescing!TypeOK, QueueDistinct, QueuedExactly
<1>2. CASE open
  <2>1. keyQueue \in Seq(Key) /\ keyQueue' = Append(keyQueue, k)
    BY <1>2 DEF Coalescing!TypeOK
  <2>2. /\ keyQueue' \in Seq(Key) /\ Len(keyQueue) \in Nat
        /\ Len(keyQueue') = Len(keyQueue) + 1
        /\ \A i \in 1..Len(keyQueue) : keyQueue'[i] = keyQueue[i]
        /\ keyQueue'[Len(keyQueue) + 1] = k
    BY <2>1, AppendFacts
  <2>3. taken # k /\ \A i \in 1..Len(keyQueue) : keyQueue[i] # k
    BY <1>2 DEF QueuedExactly
  <2>4. \A i \in 1..Len(keyQueue') :
          i = Len(keyQueue) + 1 \/ i \in 1..Len(keyQueue)
    BY <2>2
  <2>5. QueueDistinct'
    BY <1>2, <2>2, <2>3, <2>4 DEF QueueDistinct
  <2>6. \A l \in Key : (\E i \in 1..Len(keyQueue') : keyQueue'[i] = l)
          <=> (l = k \/ \E i \in 1..Len(keyQueue) : keyQueue[i] = l)
    <3>1. Len(keyQueue) + 1 \in 1..Len(keyQueue')
          /\ \A i \in 1..Len(keyQueue) : i \in 1..Len(keyQueue')
      BY <2>2
    <3>2. QED
      BY <2>2, <2>4, <3>1
  <2>7. QueuedExactly'
    BY <1>2, <2>2, <2>3, <2>4, <2>6 DEF QueuedExactly
  <2>8. QED
    BY <2>2, <2>5, <2>7
<1>3. QED
  BY <1>1, <1>2 DEF Coalescing!TypeOK

LEMMA CoalesceEnqueue ==
  ASSUME CoalescingInv, NEW k \in Key, Coalescing!Enqueue(k)
  PROVE  CoalescingInv'
<1> USE DEF Coalescing!Enqueue
<1>1. /\ keyQueue' \in Seq(Key)
      /\ QueueDistinct' /\ QueuedExactly'
  <2>1. CASE k \in Coalescing!Placed
    BY <2>1 DEF CoalescingInv, Coalescing!TypeOK, QueueDistinct, QueuedExactly
  <2>2. CASE k \notin Coalescing!Placed
    BY <2>2, PlaceKeeps DEF CoalescingInv, Coalescing!Placed
  <2>3. QED
    BY <2>1, <2>2
<1>2. enqueued[k] \in Nat /\ enqueued[k] < MaxEnqueues
  BY BlocksAssumption DEF CoalescingInv, Coalescing!TypeOK
<1>3. /\ enqueued[k] + 1 \in 1..MaxEnqueues
      /\ 1..(enqueued[k] + 1) = (1..enqueued[k]) \cup {enqueued[k] + 1}
  BY <1>2, BlocksAssumption
<1>4. Coalescing!TypeOK'
  <2>1. latestByKey' \in [Key -> Coalescing!Value]
    BY <1>3 DEF CoalescingInv, Coalescing!TypeOK, Coalescing!Value
  <2>2. enqueued' \in [Key -> 0..MaxEnqueues]
    BY <1>3 DEF CoalescingInv, Coalescing!TypeOK
  <2>3. QED
    BY <1>1, <2>1, <2>2 DEF CoalescingInv, Coalescing!TypeOK
<1>5. WorkingActive'
  BY DEF CoalescingInv, WorkingActive
<1>6. ValuesAccounted'
  <2> SUFFICES ASSUME NEW l \in Key
               PROVE  1..enqueued'[l] \subseteq
                        processed[l] \cup latestByKey'[l]
                          \cup (IF working.key = l THEN working.value ELSE {})
    BY DEF ValuesAccounted
  <2>1. 1..enqueued[l] \subseteq processed[l] \cup latestByKey[l]
                         \cup (IF working.key = l THEN working.value ELSE {})
    BY DEF CoalescingInv, ValuesAccounted
  <2>2. CASE l = k
    <3>1. /\ enqueued'[l] = enqueued[k] + 1
          /\ latestByKey'[l] = latestByKey[k] \cup {enqueued[k] + 1}
      BY <2>2 DEF CoalescingInv, Coalescing!TypeOK
    <3>2. QED
      BY <1>3, <2>1, <2>2, <3>1
  <2>3. CASE l # k
    BY <2>1, <2>3 DEF CoalescingInv, Coalescing!TypeOK
  <2>4. QED
    BY <2>2, <2>3
<1>7. DrainsLookBack'
  BY <1>2 DEF CoalescingInv, Coalescing!TypeOK, DrainsLookBack
<1>8. QED
  BY <1>1, <1>4, <1>5, <1>6, <1>7 DEF CoalescingInv

LEMMA CoalesceTake ==
  ASSUME CoalescingInv, Coalescing!TakeKey
  PROVE  CoalescingInv'
<1> USE DEF Coalescing!TakeKey
<1>1. /\ keyQueue \in Seq(Key) /\ keyQueue # <<>>
      /\ taken' = Head(keyQueue) /\ keyQueue' = Tail(keyQueue)
  BY DEF CoalescingInv, Coalescing!TypeOK
<1>2. /\ taken' = keyQueue[1] /\ taken' \in Key
      /\ keyQueue' \in Seq(Key)
      /\ Len(keyQueue) \in Nat \ {0}
      /\ Len(keyQueue') = Len(keyQueue) - 1
      /\ \A i \in 1..Len(keyQueue') : keyQueue'[i] = keyQueue[i + 1]
      /\ \A i \in 1..Len(keyQueue) :
           i = 1 \/ (i - 1 \in 1..Len(keyQueue') /\ keyQueue[i] = keyQueue'[i - 1])
  BY <1>1, TailFacts
<1>3. /\ 1 \in 1..Len(keyQueue)
      /\ \A i \in 1..Len(keyQueue') : i + 1 \in 1..Len(keyQueue) /\ i + 1 # 1
      /\ \A i, j \in 1..Len(keyQueue') : i + 1 = j + 1 => i = j
  BY <1>2
<1>4. Coalescing!TypeOK'
  BY <1>2 DEF CoalescingInv, Coalescing!TypeOK
<1>5. QueueDistinct'
  BY <1>2, <1>3 DEF CoalescingInv, QueueDistinct
<1>6. QueuedExactly'
  <2>1. \A k \in Key : (\E i \in 1..Len(keyQueue) : keyQueue[i] = k)
          <=> (taken' = k \/ \E i \in 1..Len(keyQueue') : keyQueue'[i] = k)
    BY <1>2, <1>3
  <2>2. \A i \in 1..Len(keyQueue') : keyQueue'[i] # taken'
    BY <1>2, <1>3 DEF CoalescingInv, QueueDistinct
  <2>3. QED
    BY <2>1, <2>2, LockAssumption DEF CoalescingInv, QueuedExactly
<1>7. WorkingActive' /\ ValuesAccounted' /\ DrainsLookBack'
  BY DEF CoalescingInv, WorkingActive, ValuesAccounted, DrainsLookBack
<1>8. QED
  BY <1>4, <1>5, <1>6, <1>7 DEF CoalescingInv

LEMMA CoalesceStart ==
  ASSUME CoalescingInv, Coalescing!Start
  PROVE  CoalescingInv'
<1> USE DEF Coalescing!Start
<1>1. /\ taken \in Key /\ working = Coalescing!Nothing /\ working.key = NoKey
      /\ activeKeys = {}
  BY LockAssumption DEF CoalescingInv, Coalescing!TypeOK, WorkingActive, Coalescing!Nothing
<1>2. QueueDistinct' /\ QueuedExactly'
  BY <1>1, LockAssumption DEF CoalescingInv, Coalescing!TypeOK, QueueDistinct, QueuedExactly
<1>3. DrainsLookBack'
  BY DEF CoalescingInv, DrainsLookBack
<1>4. CASE latestByKey[taken] = {}
  BY <1>1, <1>2, <1>3, <1>4
     DEF CoalescingInv, Coalescing!TypeOK, WorkingActive, ValuesAccounted
<1>5. CASE latestByKey[taken] # {}
  <2>1. /\ working' = [key |-> taken, value |-> latestByKey[taken]]
        /\ working'.key = taken /\ working'.value = latestByKey[taken]
        /\ latestByKey' = [latestByKey EXCEPT ![taken] = {}]
        /\ activeKeys' = {taken}
    BY <1>1, <1>5
  <2>2. Coalescing!TypeOK'
    BY <1>1, <2>1 DEF CoalescingInv, Coalescing!TypeOK, Coalescing!Value
  <2>3. WorkingActive'
    BY <1>1, <2>1 DEF WorkingActive
  <2>4. ValuesAccounted'
    <3> SUFFICES ASSUME NEW l \in Key
                 PROVE  1..enqueued[l] \subseteq
                          processed[l] \cup latestByKey'[l]
                            \cup (IF working'.key = l THEN working'.value ELSE {})
      BY DEF ValuesAccounted
    <3>1. 1..enqueued[l] \subseteq processed[l] \cup latestByKey[l]
      BY <1>1, LockAssumption DEF CoalescingInv, ValuesAccounted
    <3>2. QED
      BY <1>1, <2>1, <3>1 DEF CoalescingInv, Coalescing!TypeOK
  <2>5. QED
    BY <1>2, <1>3, <2>2, <2>3, <2>4 DEF CoalescingInv
<1>6. QED
  BY <1>4, <1>5

LEMMA CoalesceComplete ==
  ASSUME CoalescingInv, Coalescing!CompleteKey
  PROVE  CoalescingInv'
<1> DEFINE k == working.key
<1>1. /\ k \in Key /\ taken = NoKey
      /\ activeKeys' = activeKeys \ {k}
      /\ queuedKeys' = (IF Coalescing!Requeue(k) THEN queuedKeys \cup {k} ELSE queuedKeys)
      /\ keyQueue' = (IF Coalescing!Requeue(k) /\ open THEN Append(keyQueue, k) ELSE keyQueue)
      /\ processed' = [processed EXCEPT ![k] = @ \cup working.value]
      /\ working' = Coalescing!Nothing
      /\ UNCHANGED <<latestByKey, taken, enqueued, draining, open>>
  BY DEF CoalescingInv, WorkingActive, Coalescing!CompleteKey
<1>2. working'.key = NoKey /\ working'.value = {}
  BY <1>1 DEF Coalescing!Nothing
<1> HIDE DEF k
<1>3. keyQueue' \in Seq(Key) /\ QueueDistinct' /\ QueuedExactly'
  <2>1. CASE ~Coalescing!Requeue(k)
    BY <1>1, <2>1 DEF CoalescingInv, Coalescing!TypeOK, QueueDistinct, QueuedExactly
  <2>2. CASE Coalescing!Requeue(k)
    BY <1>1, <2>2, PlaceKeeps DEF CoalescingInv, Coalescing!Requeue
  <2>3. QED
    BY <2>1, <2>2
<1>4. Coalescing!TypeOK'
  <2>1. working.value \in Coalescing!Value /\ processed[k] \in Coalescing!Value
    BY <1>1 DEF CoalescingInv, Coalescing!TypeOK
  <2>2. processed' \in [Key -> Coalescing!Value]
    BY <1>1, <2>1 DEF CoalescingInv, Coalescing!TypeOK, Coalescing!Value
  <2>3. working' \in [key : Key \cup {NoKey}, value : Coalescing!Value]
    BY <1>1 DEF Coalescing!Nothing, Coalescing!Value
  <2>4. QED
    BY <1>1, <1>3, <2>2, <2>3 DEF CoalescingInv, Coalescing!TypeOK
<1>5. WorkingActive'
  BY <1>1, <1>2, LockAssumption DEF CoalescingInv, WorkingActive, k
<1>6. ValuesAccounted'
  <2> SUFFICES ASSUME NEW l \in Key
               PROVE  1..enqueued[l] \subseteq processed'[l] \cup latestByKey[l]
    BY <1>1, <1>2, LockAssumption DEF ValuesAccounted
  <2>1. 1..enqueued[l] \subseteq processed[l] \cup latestByKey[l]
                         \cup (IF k = l THEN working.value ELSE {})
    BY DEF CoalescingInv, ValuesAccounted, k
  <2>2. processed'[l] = IF l = k THEN processed[l] \cup working.value ELSE processed[l]
    BY <1>1 DEF CoalescingInv, Coalescing!TypeOK
  <2>3. QED
    BY <2>1, <2>2
<1>7. DrainsLookBack'
  BY <1>1 DEF CoalescingInv, DrainsLookBack
<1>8. QED
  BY <1>3, <1>4, <1>5, <1>6, <1>7 DEF CoalescingInv

LEMMA CoalescingStep ==
  CoalescingInv /\ [Coalescing!Next]_Coalescing!coalesceVars => CoalescingInv'
<1> SUFFICES ASSUME CoalescingInv, [Coalescing!Next]_Coalescing!coalesceVars
             PROVE  CoalescingInv'
  OBVIOUS
<1>1. CASE \E k \in Key : Coalescing!Enqueue(k)
  BY <1>1, CoalesceEnqueue
<1>2. CASE \E k \in Key : Coalescing!CallDrain(k)
  <2> PICK k \in Key : Coalescing!CallDrain(k)
    BY <1>2
  <2> USE DEF Coalescing!CallDrain
  <2>1. enqueued[k] \in 0..MaxEnqueues /\ enqueued[k] \in -1..MaxEnqueues
    BY BlocksAssumption DEF CoalescingInv, Coalescing!TypeOK
  <2>2. Coalescing!TypeOK' /\ DrainsLookBack'
    BY <2>1 DEF CoalescingInv, Coalescing!TypeOK, DrainsLookBack
  <2>3. QED
    BY <2>2 DEF CoalescingInv, QueueDistinct, QueuedExactly, WorkingActive, ValuesAccounted
<1>3. CASE \E k \in Key : Coalescing!ReturnDrain(k)
  <2> PICK k \in Key : Coalescing!ReturnDrain(k)
    BY <1>3
  <2> USE DEF Coalescing!ReturnDrain
  <2>1. Coalescing!TypeOK' /\ DrainsLookBack'
    BY BlocksAssumption DEF CoalescingInv, Coalescing!TypeOK, DrainsLookBack
  <2>2. QED
    BY <2>1 DEF CoalescingInv, QueueDistinct, QueuedExactly, WorkingActive, ValuesAccounted
<1>4. CASE Coalescing!TakeKey
  BY <1>4, CoalesceTake
<1>5. CASE Coalescing!Start
  BY <1>5, CoalesceStart
<1>6. CASE Coalescing!CompleteKey
  BY <1>6, CoalesceComplete
<1>7. CASE Coalescing!Close
  <2> USE <1>7 DEF Coalescing!Close
  <2>1. keyQueue' \in Seq(Key) /\ QueueDistinct' /\ QueuedExactly'
    BY DEF QueueDistinct, QueuedExactly
  <2>2. QED
    BY <2>1 DEF CoalescingInv, Coalescing!TypeOK, WorkingActive, ValuesAccounted, DrainsLookBack
<1>8. CASE UNCHANGED Coalescing!coalesceVars
  BY <1>8 DEF Coalescing!coalesceVars, CoalescingInv, Coalescing!TypeOK, QueueDistinct,
              QueuedExactly, WorkingActive, ValuesAccounted, DrainsLookBack
<1>9. QED
  BY <1>1, <1>2, <1>3, <1>4, <1>5, <1>6, <1>7, <1>8 DEF Coalescing!Next

(* The inductive invariant of the coalescing worker.                       *)
THEOREM CoalescingInvariant == Coalescing!Spec => []CoalescingInv
BY CoalescingInit, CoalescingStep, PTL DEF Coalescing!Spec

(* The worker counts with the cardinality of finite sets.                  *)
LEMMA SameCardinality == \A S : Coalescing!Cardinality(S) = Cardinality(S)
BY DEF Coalescing!Cardinality, Cardinality

(* A queue without doubles has one place for a key, or none.               *)
LEMMA PlacesCounted == CoalescingInv => Coalescing!QueuedOnce
<1> SUFFICES ASSUME CoalescingInv, open, NEW k \in Key
             PROVE  Cardinality({i \in DOMAIN keyQueue : keyQueue[i] = k})
                      + (IF taken = k THEN 1 ELSE 0)
                        = (IF k \in queuedKeys THEN 1 ELSE 0)
  BY SameCardinality DEF Coalescing!QueuedOnce
<1> DEFINE P == {i \in DOMAIN keyQueue : keyQueue[i] = k}
<1>1. DOMAIN keyQueue = 1..Len(keyQueue)
  BY DEF CoalescingInv, Coalescing!TypeOK
<1>2. CASE \E i \in 1..Len(keyQueue) : keyQueue[i] = k
  <2> PICK i \in 1..Len(keyQueue) : keyQueue[i] = k
    BY <1>2
  <2>1. P = {i}
    BY <1>1 DEF CoalescingInv, QueueDistinct
  <2>2. Cardinality(P) = 1
    BY <2>1, FS_Singleton
  <2>3. taken # k /\ k \in queuedKeys
    BY DEF CoalescingInv, QueuedExactly
  <2>4. QED
    BY <2>2, <2>3
<1>3. CASE ~\E i \in 1..Len(keyQueue) : keyQueue[i] = k
  <2>1. P = {}
    BY <1>1, <1>3
  <2>2. Cardinality(P) = 0
    BY <2>1, FS_EmptySet
  <2>3. k \in queuedKeys <=> taken = k
    BY <1>3 DEF CoalescingInv, QueuedExactly
  <2>4. QED
    BY <2>2, <2>3
<1>4. QED
  BY <1>2, <1>3

(* A drainKey that returns found its key neither pending nor active.       *)
LEMMA DrainKeyReturnsLate ==
  ASSUME CoalescingInv, [Coalescing!Next]_Coalescing!coalesceVars
  PROVE  \A k \in Key : draining[k] # -1 /\ draining'[k] = -1
           => 1..draining[k] \subseteq processed[k]
<1> SUFFICES ASSUME NEW k \in Key, draining[k] # -1, draining'[k] = -1
             PROVE  1..draining[k] \subseteq processed[k]
  OBVIOUS
<1>1. latestByKey[k] = {} /\ k \notin activeKeys
  <2>1. CASE \E l \in Key : Coalescing!Enqueue(l)
    BY <2>1 DEF Coalescing!Enqueue
  <2>2. CASE \E l \in Key : Coalescing!CallDrain(l)
    BY <2>2, BlocksAssumption
       DEF Coalescing!CallDrain, CoalescingInv, Coalescing!TypeOK
  <2>3. CASE \E l \in Key : Coalescing!ReturnDrain(l)
    BY <2>3 DEF Coalescing!ReturnDrain, CoalescingInv, Coalescing!TypeOK
  <2>4. CASE \/ Coalescing!TakeKey \/ Coalescing!Start \/ Coalescing!CompleteKey
             \/ Coalescing!Close \/ UNCHANGED Coalescing!coalesceVars
    BY <2>4 DEF Coalescing!TakeKey, Coalescing!Start, Coalescing!CompleteKey,
                Coalescing!Close, Coalescing!coalesceVars
  <2>5. QED
    BY <2>1, <2>2, <2>3, <2>4 DEF Coalescing!Next
<1>2. 1..enqueued[k] \subseteq processed[k]
  BY <1>1 DEF CoalescingInv, WorkingActive, ValuesAccounted
<1>3. draining[k] <= enqueued[k] /\ draining[k] \in Int /\ enqueued[k] \in Int
  BY BlocksAssumption DEF CoalescingInv, Coalescing!TypeOK, DrainsLookBack
<1>4. 1..draining[k] \subseteq 1..enqueued[k]
  BY <1>3
<1>5. QED
  BY <1>2, <1>4

(* No key is lost from the queue or doubled in it, and no drainKey returns *)
(* before what it came after is processed.                                 *)
THEOREM CoalescingIsExact == Coalescing!Spec => CoalescesExactly
<1>1. CoalescingInv => Coalescing!QueuedOnce
  BY PlacesCounted
<1>2. CoalescingInv /\ [Coalescing!Next]_Coalescing!coalesceVars
        => [\A k \in Key : draining[k] # -1 /\ draining'[k] = -1
              => 1..draining[k] \subseteq processed[k]]_Coalescing!coalesceVars
  BY DrainKeyReturnsLate
<1>3. QED
  BY <1>1, <1>2, CoalescingInvariant, PTL
     DEF Coalescing!Spec, CoalescesExactly, Coalescing!CoalescesExactly, Coalescing!DrainSeesAll

-----------------------------------------------------------------------------
(***************************************************************************)
(* The buffer of latest states.                                            *)
(***************************************************************************)

(* States are pending under one key each and were emitted; those in        *)
(* flight are pending no more.                                             *)
StatesOnce ==
  /\ \A k \in Key : pending[k] <= emitted
  /\ \A k, l \in Key : pending[k] # 0 /\ pending[k] = pending[l] => k = l
  /\ \A n \in inFlight : n <= emitted
  /\ inFlight \cap Buffer!Pending = {}

(* A batch is in flight only after it was delivered.                       *)
FlightDelivered == inFlight # {} => reader \in {"delivering", "gone"}

(* The reader that stays is on one wakeup at most.                         *)
OneWakeup ==
  reader # "gone" =>
    /\ ~(tokens = 1 /\ source = "offering")
    /\ reader = "woken" => tokens = 0 /\ source # "offering"

(* The buffer closes once the stream is over, and wakes nobody after.      *)
ClosedAtTheEnd ==
  closed => /\ full \/ reader = "gone"
            /\ tokens = 0 /\ source # "offering"

BufferInv ==
  /\ Buffer!TypeOK
  /\ StatesOnce
  /\ FlightDelivered
  /\ OneWakeup
  /\ ClosedAtTheEnd
  /\ Buffer!WakeupPaired
  /\ Buffer!ChargesExact

LEMMA BufferInit == Buffer!Init => BufferInv
<1> SUFFICES ASSUME Buffer!Init PROVE BufferInv
  OBVIOUS
<1> USE BlocksAssumption DEF Buffer!Init
<1>1. Buffer!TypeOK
  <2>1. 0 \in 0..MaxStates /\ [k \in Key |-> 0] \in [Key -> 0..MaxStates]
    OBVIOUS
  <2>2. QED
    BY <2>1 DEF Buffer!TypeOK
<1>2. Buffer!Pending = {}
  BY DEF Buffer!Pending
<1>3. StatesOnce
  BY <1>2 DEF StatesOnce
<1>4. Buffer!WakeupPaired /\ Buffer!ChargesExact
  BY <1>2 DEF Buffer!WakeupPaired, Buffer!ChargesExact
<1>5. QED
  BY <1>1, <1>3, <1>4 DEF BufferInv, FlightDelivered, OneWakeup, ClosedAtTheEnd

(* A state that is put replaces the one pending under its key.             *)
LEMMA PendingAfterPut ==
  ASSUME Buffer!TypeOK, StatesOnce, NEW k \in Key, NEW n \in Nat, n # 0,
         pending' = [pending EXCEPT ![k] = n]
  PROVE  Buffer!Pending' = (Buffer!Pending \ {pending[k]}) \cup {n}
<1>1. pending'[k] = n /\ \A l \in Key : l # k => pending'[l] = pending[l]
  BY DEF Buffer!TypeOK
<1>2. \A l \in Key : l # k /\ pending[l] # 0 => pending[l] # pending[k]
  BY DEF StatesOnce
<1>3. QED
  BY <1>1, <1>2 DEF Buffer!Pending

LEMMA PutKeeps ==
  ASSUME BufferInv, NEW k \in Key, Buffer!Put(k)
  PROVE  BufferInv'
<1> DEFINE n == emitted + 1
<1>1. /\ n \in 1..MaxStates /\ n \in Nat /\ n # 0 /\ emitted \in Nat /\ emitted < n
      /\ emitted' = n /\ source = "idle" /\ ~full
      /\ emittedOf' = [emittedOf EXCEPT ![k] = n]
      /\ UNCHANGED <<tokens, reader, inFlight, closed, deliveredOf>>
  BY BlocksAssumption DEF BufferInv, Buffer!TypeOK, Buffer!Put
<1>2. emittedOf' \in [Key -> 0..MaxStates]
  BY <1>1 DEF BufferInv, Buffer!TypeOK
<1>3. CASE /\ UNCHANGED <<pending, retained>>
           /\ \/ source' = source /\ full' = full
              \/ full' = TRUE /\ source' = "ended"
  <2>1. (source' = source /\ full' = full) \/ (full' = TRUE /\ source' = "ended")
    BY <1>3
  <2>2. Buffer!Pending' = Buffer!Pending
    BY <1>3 DEF Buffer!Pending
  <2>3. Buffer!TypeOK'
    BY <1>1, <1>2, <1>3, <2>1 DEF BufferInv, Buffer!TypeOK
  <2>4. StatesOnce'
    BY <1>1, <1>3, <2>2 DEF BufferInv, Buffer!TypeOK, Buffer!State, StatesOnce
  <2>5. Buffer!WakeupPaired' /\ Buffer!ChargesExact'
    BY <1>1, <1>3, <2>1, <2>2 DEF BufferInv, Buffer!WakeupPaired, Buffer!ChargesExact
  <2>6. QED
    BY <1>1, <2>1, <2>3, <2>4, <2>5
       DEF BufferInv, FlightDelivered, OneWakeup, ClosedAtTheEnd
<1>4. CASE /\ ~closed
           /\ pending' = [pending EXCEPT ![k] = n]
           /\ retained' = Buffer!Kept(k) \cup {n}
           /\ source' = IF Buffer!WakeNeeded THEN "offering" ELSE "idle"
           /\ full' = full
  <2>1. Buffer!Pending' = (Buffer!Pending \ {pending[k]}) \cup {n}
    BY <1>1, <1>4, PendingAfterPut DEF BufferInv
  <2>2. Buffer!TypeOK'
    <3>1. pending' \in [Key -> 0..MaxStates]
      BY <1>1, <1>4 DEF BufferInv, Buffer!TypeOK
    <3>2. retained' \subseteq Buffer!State
      BY <1>1, <1>4 DEF BufferInv, Buffer!TypeOK, Buffer!State, Buffer!Kept
    <3>3. QED
      BY <1>1, <1>2, <1>4, <3>1, <3>2 DEF BufferInv, Buffer!TypeOK
  <2>3. n \notin inFlight /\ n \notin Buffer!Pending
    BY <1>1 DEF BufferInv, StatesOnce, Buffer!TypeOK, Buffer!State, Buffer!Pending
  <2>4. StatesOnce'
    <3>1. /\ pending'[k] = n
          /\ \A l \in Key : l # k => pending'[l] = pending[l]
          /\ \A l \in Key : pending[l] \in Nat /\ pending[l] < n
      BY <1>1, <1>4 DEF BufferInv, StatesOnce, Buffer!TypeOK
    <3>2. /\ \A l \in Key : pending'[l] <= n
          /\ \A l, m \in Key : pending'[l] # 0 /\ pending'[l] = pending'[m] => l = m
      BY <1>1, <3>1 DEF BufferInv, StatesOnce
    <3>3. \A i \in inFlight : i <= n
      BY <1>1 DEF BufferInv, StatesOnce, Buffer!TypeOK, Buffer!State
    <3>4. inFlight \cap Buffer!Pending' = {}
      BY <2>1, <2>3 DEF BufferInv, StatesOnce
    <3>5. QED
      BY <1>1, <3>2, <3>3, <3>4 DEF StatesOnce
  <2>5. Buffer!WakeupPaired'
    BY <1>1, <1>4, <2>1 DEF BufferInv, Buffer!WakeupPaired, Buffer!WakeNeeded
  <2>6. Buffer!ChargesExact'
    <3> SUFFICES ASSUME reader # "gone"
                 PROVE  retained' = Buffer!Pending' \cup inFlight
      BY <1>1 DEF Buffer!ChargesExact
    <3>1. retained = Buffer!Pending \cup inFlight
      BY <1>1 DEF BufferInv, Buffer!ChargesExact
    <3>2. pending[k] \notin inFlight
      BY DEF BufferInv, StatesOnce, Buffer!TypeOK, Buffer!State, Buffer!Pending
    <3>3. QED
      BY <1>4, <2>1, <3>1, <3>2 DEF Buffer!Kept
  <2>7. OneWakeup'
    BY <1>1, <1>4 DEF BufferInv, OneWakeup, Buffer!WakeupPaired, Buffer!WakeNeeded
  <2>8. QED
    BY <1>1, <1>4, <2>2, <2>4, <2>5, <2>6, <2>7
       DEF BufferInv, FlightDelivered, ClosedAtTheEnd
<1>5. QED
  BY <1>3, <1>4 DEF Buffer!Put

LEMMA BufferDrainKeeps ==
  ASSUME BufferInv, Buffer!Drain
  PROVE  BufferInv'
<1> USE DEF Buffer!Drain
<1>1. Buffer!Pending' = {} /\ inFlight' = Buffer!Pending
  BY DEF Buffer!Pending
<1>2. inFlight = {} /\ reader = "woken" /\ tokens = 0 /\ source # "offering"
  BY DEF BufferInv, FlightDelivered, OneWakeup
<1>3. Buffer!TypeOK'
  <2>1. inFlight' \subseteq Buffer!State
    BY <1>1 DEF BufferInv, Buffer!TypeOK, Buffer!Pending, Buffer!State
  <2>2. pending' \in [Key -> 0..MaxStates]
    BY BlocksAssumption
  <2>3. deliveredOf' \in [Key -> 0..MaxStates]
    BY DEF BufferInv, Buffer!TypeOK
  <2>4. QED
    BY <2>1, <2>2, <2>3 DEF BufferInv, Buffer!TypeOK
<1>4. StatesOnce'
  <2>1. \A k \in Key : pending'[k] = 0
    OBVIOUS
  <2>2. \A n \in inFlight' : n <= emitted
    BY <1>1 DEF BufferInv, StatesOnce, Buffer!Pending
  <2>3. QED
    BY <1>1, <2>1, <2>2 DEF BufferInv, Buffer!TypeOK, StatesOnce
<1>5. Buffer!WakeupPaired' /\ Buffer!ChargesExact'
  BY <1>1, <1>2 DEF BufferInv, Buffer!WakeupPaired, Buffer!ChargesExact
<1>6. QED
  BY <1>2, <1>3, <1>4, <1>5 DEF BufferInv, FlightDelivered, OneWakeup, ClosedAtTheEnd

LEMMA BufferCloseKeeps ==
  ASSUME BufferInv, Buffer!Close
  PROVE  BufferInv'
<1> USE DEF Buffer!Close
<1>1. Buffer!Pending' = {}
  BY DEF Buffer!Pending
<1>2. Buffer!TypeOK'
  BY BlocksAssumption DEF BufferInv, Buffer!TypeOK
<1>3. StatesOnce'
  <2>1. \A k \in Key : pending'[k] = 0
    OBVIOUS
  <2>2. QED
    BY <1>1, <2>1 DEF BufferInv, Buffer!TypeOK, StatesOnce
<1>4. Buffer!WakeupPaired' /\ Buffer!ChargesExact'
  BY <1>1 DEF Buffer!WakeupPaired, Buffer!ChargesExact
<1>5. QED
  BY <1>2, <1>3, <1>4
     DEF BufferInv, FlightDelivered, OneWakeup, ClosedAtTheEnd, Buffer!MutexFree

LEMMA BufferStep == BufferInv /\ [Buffer!Next]_Buffer!bufferVars => BufferInv'
<1> SUFFICES ASSUME BufferInv, [Buffer!Next]_Buffer!bufferVars
             PROVE  BufferInv'
  OBVIOUS
<1> USE DEF BufferInv, Buffer!TypeOK, StatesOnce, FlightDelivered, OneWakeup,
            ClosedAtTheEnd, Buffer!WakeupPaired, Buffer!ChargesExact
<1>1. CASE \E k \in Key : Buffer!Put(k)
  BY <1>1, PutKeeps
<1>2. CASE Buffer!Drain
  BY <1>2, BufferDrainKeeps
<1>3. CASE Buffer!Close
  BY <1>3, BufferCloseKeeps
<1>4. ASSUME UNCHANGED pending
      PROVE  Buffer!Pending' = Buffer!Pending
  BY <1>4 DEF Buffer!Pending
<1>5. CASE Buffer!Wake
  BY <1>4, <1>5 DEF Buffer!Wake
<1>6. CASE Buffer!EndSource
  BY <1>4, <1>6 DEF Buffer!EndSource
<1>7. CASE Buffer!Pull
  BY <1>4, <1>7 DEF Buffer!Pull
<1>8. CASE Buffer!TakeToken
  BY <1>4, <1>8 DEF Buffer!TakeToken
<1>9. CASE Buffer!StreamOver
  BY <1>4, <1>9 DEF Buffer!StreamOver
<1>10. CASE Buffer!ReleaseRest
  BY <1>4, <1>10 DEF Buffer!ReleaseRest
<1>11. CASE Buffer!Leave
  BY <1>4, <1>11 DEF Buffer!Leave
<1>12. CASE UNCHANGED Buffer!bufferVars
  BY <1>4, <1>12 DEF Buffer!bufferVars
<1>13. QED
  BY <1>1, <1>2, <1>3, <1>5, <1>6, <1>7, <1>8, <1>9, <1>10, <1>11, <1>12 DEF Buffer!Next

(* The inductive invariant of the buffer of latest states.                 *)
THEOREM BufferInvariant == Buffer!Spec => []BufferInv
BY BufferInit, BufferStep, PTL DEF Buffer!Spec

(* Wakeups and pending states are paired, and the budget charges exactly   *)
(* what is pending or in flight.                                           *)
THEOREM BuffersAreExact == Buffer!Spec => []BufferIsExact
<1>1. BufferInv => BufferIsExact
  BY DEF BufferInv, BufferIsExact, Buffer!BufferIsExact
<1>2. QED
  BY <1>1, BufferInvariant, PTL

-----------------------------------------------------------------------------
(***************************************************************************)
(* The gate of commands.                                                   *)
(***************************************************************************)

(* Whatever lets a command through came after the recovery.                *)
OpenAfterRecovery ==
  (\/ startup = "signalling"
   \/ readiness = "ready"
   \/ commandReady = "done"
   \/ worker = "executing"
   \/ \E c \in Caller : caller[c] = "direct")
    => recovered

(* The queue holds callers that wait, each once; the worker serves another *)
(* one of them.                                                            *)
QueueWaits ==
  /\ \A i \in 1..Len(commandQueue) : caller[commandQueue[i]] = "queued"
  /\ \A i, j \in 1..Len(commandQueue) : commandQueue[i] = commandQueue[j] => i = j
  /\ worker \in {"awaiting", "executing"} =>
       /\ serving \in Caller /\ caller[serving] = "queued"
       /\ \A i \in 1..Len(commandQueue) : commandQueue[i] # serving

(* A command that ran has its answer, or is being executed for a caller    *)
(* that waits, until the server is gone.                                   *)
RanAnswered ==
  \A c \in ran :
    \/ caller[c] = "answered"
    \/ worker \in {"executing", "gone"} /\ serving = c /\ caller[c] = "queued"

GateInv ==
  /\ Gate!TypeOK
  /\ OpenAfterRecovery
  /\ ran # {} => recovered
  /\ QueueWaits
  /\ RanAnswered

LEMMA GateInit == Gate!Init => GateInv
<1> SUFFICES ASSUME Gate!Init PROVE GateInv
  OBVIOUS
<1> USE DEF Gate!Init
<1>1. Gate!TypeOK
  <2>1. commandQueue \in Seq(Caller) /\ ran \subseteq Caller
    OBVIOUS
  <2>2. caller \in [Caller -> {"new", "early", "queued", "direct", "answered", "rejected"}]
    OBVIOUS
  <2>3. QED
    BY <2>1, <2>2 DEF Gate!TypeOK
<1>2. OpenAfterRecovery /\ QueueWaits /\ RanAnswered
  BY DEF OpenAfterRecovery, QueueWaits, RanAnswered
<1>3. QED
  BY <1>1, <1>2 DEF GateInv

(* A caller that moves and is neither queued nor served disturbs nobody.   *)
LEMMA OfferKeeps ==
  ASSUME GateInv, NEW c \in Caller, Gate!Offer(c)
  PROVE  GateInv'
<1> USE DEF Gate!Offer
<1>1. /\ commandQueue \in Seq(Caller)
      /\ commandQueue' = Append(commandQueue, c)
  BY DEF GateInv, Gate!TypeOK
<1>2. /\ commandQueue' \in Seq(Caller) /\ Len(commandQueue) \in Nat
      /\ Len(commandQueue') = Len(commandQueue) + 1
      /\ \A i \in 1..Len(commandQueue) :
           commandQueue'[i] = commandQueue[i] /\ commandQueue[i] \in Caller
      /\ commandQueue'[Len(commandQueue) + 1] = c
      /\ \A i \in 1..Len(commandQueue') :
           i = Len(commandQueue) + 1 \/ i \in 1..Len(commandQueue)
  BY <1>1, AppendFacts
<1>3. Gate!TypeOK'
  BY <1>2 DEF GateInv, Gate!TypeOK
<1>4. /\ caller[c] = "early" /\ caller'[c] = "queued"
      /\ \A d \in Caller : d # c => caller'[d] = caller[d]
  BY DEF GateInv, Gate!TypeOK
<1>5. \A i \in 1..Len(commandQueue) : commandQueue[i] # c
  BY <1>2, <1>4 DEF GateInv, QueueWaits
<1>6. QueueWaits'
  BY <1>2, <1>4, <1>5 DEF GateInv, QueueWaits
<1>7. OpenAfterRecovery'
  BY <1>4 DEF GateInv, OpenAfterRecovery
<1>8. RanAnswered'
  BY <1>4 DEF GateInv, Gate!TypeOK, RanAnswered
<1>9. QED
  BY <1>3, <1>6, <1>7, <1>8 DEF GateInv

LEMMA TakeCommandKeeps ==
  ASSUME GateInv, Gate!TakeCommand
  PROVE  GateInv'
<1> USE DEF Gate!TakeCommand
<1>1. /\ commandQueue \in Seq(Caller) /\ commandQueue # <<>>
      /\ serving' = Head(commandQueue) /\ commandQueue' = Tail(commandQueue)
  BY DEF GateInv, Gate!TypeOK
<1>2. /\ serving' = commandQueue[1] /\ serving' \in Caller
      /\ commandQueue' \in Seq(Caller)
      /\ Len(commandQueue) \in Nat \ {0}
      /\ Len(commandQueue') = Len(commandQueue) - 1
      /\ \A i \in 1..Len(commandQueue') : commandQueue'[i] = commandQueue[i + 1]
  BY <1>1, TailFacts
<1>3. /\ 1 \in 1..Len(commandQueue)
      /\ \A i \in 1..Len(commandQueue') : i + 1 \in 1..Len(commandQueue) /\ i + 1 # 1
      /\ \A i, j \in 1..Len(commandQueue') : i + 1 = j + 1 => i = j
  BY <1>2
<1>4. Gate!TypeOK'
  BY <1>2 DEF GateInv, Gate!TypeOK
<1>5. QueueWaits'
  BY <1>2, <1>3 DEF GateInv, QueueWaits
<1>6. OpenAfterRecovery' /\ RanAnswered'
  BY DEF GateInv, OpenAfterRecovery, RanAnswered
<1>7. QED
  BY <1>4, <1>5, <1>6 DEF GateInv

LEMMA SettleKeeps ==
  ASSUME GateInv, Gate!Settle
  PROVE  GateInv'
<1> USE DEF Gate!Settle
<1>1. /\ serving \in Caller /\ caller[serving] = "queued"
      /\ \A i \in 1..Len(commandQueue) : commandQueue[i] # serving
  BY DEF GateInv, QueueWaits
<1>2. /\ caller'[serving] = (IF worker = "executing" THEN "answered" ELSE "rejected")
      /\ \A d \in Caller : d # serving => caller'[d] = caller[d]
      /\ \A i \in 1..Len(commandQueue) : commandQueue[i] \in Caller
  BY <1>1 DEF GateInv, Gate!TypeOK
<1>3. Gate!TypeOK'
  BY <1>1 DEF GateInv, Gate!TypeOK
<1>4. QueueWaits'
  BY <1>1, <1>2 DEF GateInv, QueueWaits
<1>5. OpenAfterRecovery'
  BY <1>1, <1>2 DEF GateInv, OpenAfterRecovery
<1>6. RanAnswered'
  <2> SUFFICES ASSUME NEW c \in ran
               PROVE  caller'[c] = "answered"
    BY DEF RanAnswered
  <2>1. \/ caller[c] = "answered"
        \/ worker = "executing" /\ serving = c
    BY DEF GateInv, RanAnswered
  <2>2. c \in Caller
    BY DEF GateInv, Gate!TypeOK
  <2>3. QED
    BY <1>1, <1>2, <2>1, <2>2
<1>7. QED
  BY <1>3, <1>4, <1>5, <1>6 DEF GateInv

LEMMA GateStep == GateInv /\ [Gate!Next]_Gate!gateVars => GateInv'
<1> SUFFICES ASSUME GateInv, [Gate!Next]_Gate!gateVars
             PROVE  GateInv'
  OBVIOUS
<1>0. \A i \in 1..Len(commandQueue) : commandQueue[i] \in Caller
  BY DEF GateInv, Gate!TypeOK
<1> USE DEF GateInv, Gate!TypeOK, OpenAfterRecovery, QueueWaits, RanAnswered
<1>1. CASE Gate!SignalReady
  BY <1>1 DEF Gate!SignalReady
<1>2. CASE Gate!CompleteDeferred
  BY <1>2 DEF Gate!CompleteDeferred
<1>3. CASE Gate!StartupFails
  BY <1>3 DEF Gate!StartupFails, Gate!FailReady
<1>4. CASE Gate!BeginShutdown
  BY <1>4 DEF Gate!BeginShutdown, Gate!FailReady
<1>5. CASE Gate!EndShutdown
  BY <1>5 DEF Gate!EndShutdown
<1>6. CASE \E c \in Caller : Gate!ReadState(c)
  BY <1>0, <1>6 DEF Gate!ReadState
<1>7. CASE \E c \in Caller : Gate!RunDirect(c)
  BY <1>0, <1>7 DEF Gate!RunDirect
<1>8. CASE \E c \in Caller : Gate!Offer(c)
  BY <1>8, OfferKeeps
<1>9. CASE Gate!TakeCommand
  BY <1>9, TakeCommandKeeps
<1>10. CASE Gate!RunQueued
  BY <1>10 DEF Gate!RunQueued
<1>11. CASE Gate!Settle
  BY <1>11, SettleKeeps
<1>12. CASE UNCHANGED Gate!gateVars
  BY <1>12 DEF Gate!gateVars
<1>13. QED
  BY <1>1, <1>2, <1>3, <1>4, <1>5, <1>6, <1>7, <1>8, <1>9, <1>10, <1>11, <1>12
     DEF Gate!Next

(* The inductive invariant of the gate of commands.                        *)
THEOREM GateInvariant == Gate!Spec => []GateInv
BY GateInit, GateStep, PTL DEF Gate!Spec

(* No command runs before the recovery, and none that was rejected.        *)
THEOREM GateHoldsBack == Gate!Spec => []NoEarlyCommand
<1>1. GateInv => NoEarlyCommand
  BY DEF GateInv, RanAnswered, NoEarlyCommand, Gate!NoEarlyCommand
<1>2. QED
  BY <1>1, GateInvariant, PTL

(* Who waits for a queued command is in the queue or being served, and the *)
(* gate is undecided only as long as a startup that will decide it goes on.*)
CallersKept ==
  server # "closed" =>
    /\ worker # "gone"
    /\ commandReady = "open" => server = "open" /\ startup # "over"
    /\ \A c \in Caller : caller[c] = "queued" =>
         \/ serving = c /\ worker \in {"awaiting", "executing"}
         \/ \E i \in 1..Len(commandQueue) : commandQueue[i] = c

(* Closing the server, failing the startup and signalling race, but no     *)
(* caller whose command was queued is dropped, and none is left before a   *)
(* gate that nobody opens or fails (serverRuntimeStartup.ts:123).          *)
THEOREM CallersAreServed == Gate!Spec => []CallersKept
<1>1. Gate!Init => CallersKept
  BY DEF Gate!Init, CallersKept
<1>2. GateInv /\ CallersKept /\ [Gate!Next]_Gate!gateVars => CallersKept'
  <2> SUFFICES ASSUME GateInv, CallersKept, [Gate!Next]_Gate!gateVars
               PROVE  CallersKept'
    OBVIOUS
  <2> USE DEF CallersKept
  <2>1. caller \in [Caller -> {"new", "early", "queued", "direct", "answered", "rejected"}]
    BY DEF GateInv, Gate!TypeOK
  <2>2. CASE \/ Gate!SignalReady \/ Gate!CompleteDeferred \/ Gate!StartupFails
             \/ Gate!BeginShutdown \/ Gate!EndShutdown \/ Gate!RunQueued
    BY <2>2
    DEF Gate!SignalReady, Gate!CompleteDeferred, Gate!StartupFails, Gate!BeginShutdown,
        Gate!FailReady, Gate!EndShutdown, Gate!RunQueued
  <2>3. ASSUME NEW c \in Caller, Gate!ReadState(c) \/ Gate!RunDirect(c)
        PROVE  CallersKept'
    <3>1. /\ UNCHANGED <<startup, server, commandReady, commandQueue, serving, worker>>
      BY <2>3 DEF Gate!ReadState, Gate!RunDirect
    <3>2. \E to \in {"direct", "early", "rejected", "answered"} :
            caller' = [caller EXCEPT ![c] = to]
      <4>1. readiness \in {"pending", "ready", "error"} BY DEF GateInv, Gate!TypeOK
      <4>2. QED BY <2>3, <4>1 DEF Gate!ReadState, Gate!RunDirect
    <3>3. /\ caller'[c] # "queued"
          /\ \A d \in Caller \ {c} : caller'[d] = caller[d]
      BY <2>1, <3>2
    <3>4. QED BY <3>1, <3>3
  <2>4. ASSUME NEW c \in Caller, Gate!Offer(c)
        PROVE  CallersKept'
    <3>1. /\ commandQueue \in Seq(Caller) /\ commandQueue' = Append(commandQueue, c)
          /\ UNCHANGED <<startup, server, commandReady, serving, worker>>
          /\ \A d \in Caller \ {c} : caller'[d] = caller[d]
      BY <2>1, <2>4 DEF Gate!Offer, GateInv, Gate!TypeOK
    <3>2. /\ Len(commandQueue) \in Nat /\ Len(commandQueue') = Len(commandQueue) + 1
          /\ \A i \in 1..Len(commandQueue) : commandQueue'[i] = commandQueue[i]
          /\ commandQueue'[Len(commandQueue) + 1] = c
      BY <3>1, AppendFacts
    <3>3. /\ Len(commandQueue) + 1 \in 1..Len(commandQueue')
          /\ \A i \in 1..Len(commandQueue) : i \in 1..Len(commandQueue')
      BY <3>2
    <3>4. QED BY <3>1, <3>2, <3>3
  <2>5. CASE Gate!TakeCommand
    <3>1. /\ commandQueue \in Seq(Caller) /\ commandQueue # <<>>
          /\ serving' = Head(commandQueue) /\ commandQueue' = Tail(commandQueue)
          /\ worker = "taking" /\ worker' = "awaiting"
          /\ UNCHANGED <<startup, server, commandReady, caller>>
      BY <2>5 DEF Gate!TakeCommand, GateInv, Gate!TypeOK
    <3>2. /\ serving' = commandQueue[1] /\ Len(commandQueue) \in Nat \ {0}
          /\ Len(commandQueue') = Len(commandQueue) - 1
          /\ \A i \in 1..Len(commandQueue') : commandQueue'[i] = commandQueue[i + 1]
      BY <3>1, TailFacts
    <3>3. \A i \in 1..Len(commandQueue) :
            i = 1 \/ (i - 1 \in 1..Len(commandQueue') /\ (i - 1) + 1 = i)
      BY <3>2
    <3>4. \A i \in 1..Len(commandQueue) :
            commandQueue[i] = serving'
              \/ \E j \in 1..Len(commandQueue') : commandQueue'[j] = commandQueue[i]
      BY <3>2, <3>3
    <3>5. QED BY <3>1, <3>4
  <2>6. CASE Gate!Settle
    <3>1. serving \in Caller /\ worker # "gone"
      BY <2>6 DEF Gate!Settle, GateInv, QueueWaits
    <3>2. /\ caller'[serving] # "queued"
          /\ \A d \in Caller \ {serving} : caller'[d] = caller[d]
          /\ worker' = "taking"
          /\ UNCHANGED <<startup, server, commandReady, commandQueue>>
      BY <2>1, <2>6, <3>1 DEF Gate!Settle
    <3>3. QED BY <3>1, <3>2
  <2>7. CASE UNCHANGED Gate!gateVars
    BY <2>7 DEF Gate!gateVars
  <2>8. QED
    BY <2>2, <2>3, <2>4, <2>5, <2>6, <2>7 DEF Gate!Next
<1>3. QED
  BY <1>1, <1>2, GateInvariant, PTL DEF Gate!Spec

-----------------------------------------------------------------------------
(***************************************************************************)
(* The waiters of settled effects.                                         *)
(***************************************************************************)

(* A deferred that somebody joined or that is registered completes only    *)
(* when the row has settled, and so does every signal.                     *)
SignalsInv ==
  /\ Signals!TypeOK
  /\ (completed # {} \/ owed) => row \notin Signals!Unsettled
  /\ \A w \in Waiter : wait[w] \in {"clearing", "woken"} => row \notin Signals!Unsettled

LEMMA SignalsInit == Signals!Init => SignalsInv
BY DEF Signals!Init, SignalsInv, Signals!TypeOK, Signals!Unsettled

LEMMA SignalsStep == SignalsInv /\ [Signals!Next]_Signals!signalVars => SignalsInv'
<1> SUFFICES ASSUME SignalsInv, [Signals!Next]_Signals!signalVars
             PROVE  SignalsInv'
  OBVIOUS
<1> USE DEF SignalsInv, Signals!TypeOK, Signals!Unsettled, Signals!SignalSettled
<1>1. CASE \E w \in Waiter : Signals!Register(w)
  BY <1>1 DEF Signals!Register, Signals!Unreferenced
<1>2. CASE \E w \in Waiter : Signals!ReadRow(w)
  BY <1>2 DEF Signals!ReadRow
<1>3. CASE \E w \in Waiter : Signals!ClearEntry(w)
  BY <1>3 DEF Signals!ClearEntry
<1>4. CASE \E w \in Waiter : Signals!Wake(w)
  BY <1>4 DEF Signals!Wake
<1>5. CASE \E w \in Waiter : Signals!LeaveWait(w)
  BY <1>5 DEF Signals!LeaveWait
<1>6. CASE Signals!ClaimRow
  BY <1>6 DEF Signals!ClaimRow
<1>7. CASE Signals!RetryRow
  BY <1>7 DEF Signals!RetryRow
<1>8. CASE Signals!SettleRow
  BY <1>8 DEF Signals!SettleRow
<1>9. CASE Signals!SendSignal
  BY <1>9 DEF Signals!SendSignal
<1>10. CASE Signals!PruneRow
  BY <1>10 DEF Signals!PruneRow
<1>11. CASE UNCHANGED Signals!signalVars
  BY <1>11 DEF Signals!signalVars
<1>12. QED
  BY <1>1, <1>2, <1>3, <1>4, <1>5, <1>6, <1>7, <1>8, <1>9, <1>10, <1>11 DEF Signals!Next

(* The inductive invariant of the waiters.                                 *)
THEOREM SignalsInvariant == Signals!Spec => []SignalsInv
BY SignalsInit, SignalsStep, PTL DEF Signals!Spec

(* Nobody returns from waiting before the effect has settled.              *)
THEOREM WaitersWokenLate == Signals!Spec => []WokenAfterSettle
<1>1. SignalsInv => WokenAfterSettle
  BY DEF SignalsInv, WokenAfterSettle, Signals!WokenAfterSettle
<1>2. QED
  BY <1>1, SignalsInvariant, PTL

(* Once the row has settled, whoever still awaits it holds a deferred that *)
(* is done, or one that the signal still owed is going to complete.        *)
WakeupOwed ==
  \A w \in Waiter :
    wait[w] = "awaiting" /\ row \notin Signals!Unsettled =>
      joined[w] \in completed \/ (owed /\ joined[w] = settledSignal)

(* A waiter shares the deferred of the entry, or one that is done.         *)
Shared ==
  \A w \in Waiter :
    wait[w] \in {"registered", "awaiting"} =>
      joined[w] \in Deferred /\ (joined[w] = settledSignal \/ joined[w] \in completed)

WakeupInv == WakeupOwed /\ Shared

(* No wakeup is lost between the registration and the read, nor when two   *)
(* waiters share a deferred and one of them clears it (EffectOutbox.ts:479).*)
THEOREM WakeupsAreOwed == Signals!Spec => []WakeupOwed
<1>1. Signals!Init => WakeupInv
  BY DEF Signals!Init, WakeupInv, WakeupOwed, Shared
<1>2. SignalsInv /\ WakeupInv /\ [Signals!Next]_Signals!signalVars => WakeupInv'
  <2> SUFFICES ASSUME SignalsInv, WakeupInv, [Signals!Next]_Signals!signalVars
               PROVE  WakeupInv'
    OBVIOUS
  <2> USE BlocksAssumption
      DEF SignalsInv, WakeupInv, WakeupOwed, Shared, Signals!TypeOK, Signals!Unsettled, Signals!SignalSettled
  <2>1. CASE \E w \in Waiter : Signals!Register(w)
    <3>1. PICK w \in Waiter : Signals!Register(w)
      BY <2>1
    <3>2. PICK d \in IF settledSignal # NoDeferred THEN {settledSignal} ELSE Signals!Unreferenced :
            /\ settledSignal' = d
            /\ joined' = [joined EXCEPT ![w] = d]
            /\ completed' = IF settledSignal = NoDeferred THEN completed \ {d} ELSE completed
      BY <3>1 DEF Signals!Register
    <3>3. /\ wait' = [wait EXCEPT ![w] = "registered"] /\ UNCHANGED <<row, owed>>
      BY <3>1 DEF Signals!Register
    <3>4. d \in Deferred
      BY <3>2 DEF Signals!Unreferenced
    <3>5. joined'[w] = d /\ \A v \in Waiter : v # w => joined'[v] = joined[v] /\ wait'[v] = wait[v]
      BY <3>2, <3>3, <3>4
    <3>6. CASE settledSignal # NoDeferred
      BY <3>2, <3>3, <3>4, <3>5, <3>6
    <3>7. CASE settledSignal = NoDeferred
      <4>1. \A v \in Waiter : joined[v] # d
        BY <3>2, <3>7 DEF Signals!Unreferenced
      <4>2. QED
        BY <3>2, <3>3, <3>4, <3>5, <3>7, <4>1
    <3>8. QED
      BY <3>6, <3>7
  <2>2. CASE \E w \in Waiter : Signals!ReadRow(w)
    BY <2>2 DEF Signals!ReadRow
  <2>3. CASE \E w \in Waiter : Signals!ClearEntry(w)
    BY <2>3 DEF Signals!ClearEntry
  <2>4. CASE \E w \in Waiter : Signals!Wake(w) \/ Signals!LeaveWait(w)
    BY <2>4 DEF Signals!Wake, Signals!LeaveWait
  <2>5. CASE Signals!ClaimRow \/ Signals!RetryRow \/ Signals!SettleRow \/ Signals!PruneRow
    BY <2>5 DEF Signals!ClaimRow, Signals!RetryRow, Signals!SettleRow, Signals!PruneRow
  <2>6. CASE Signals!SendSignal
    BY <2>6 DEF Signals!SendSignal
  <2>7. CASE UNCHANGED Signals!signalVars
    BY <2>7 DEF Signals!signalVars
  <2>8. QED
    BY <2>1, <2>2, <2>3, <2>4, <2>5, <2>6, <2>7 DEF Signals!Next
<1>3. WakeupInv => WakeupOwed
  BY DEF WakeupInv
<1>4. QED
  BY <1>1, <1>2, <1>3, SignalsInvariant, PTL DEF Signals!Spec
=============================================================================

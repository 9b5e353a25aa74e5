----------------------- MODULE KeyedCoalescingWorker -----------------------
(***************************************************************************)
(* The coalescing worker of packages/shared/src/KeyedCoalescingWorker.ts,  *)
(* which writes terminal histories: one pending value per key, merged with *)
(* the later ones while it waits, and one fiber that processes keys in the *)
(* order of a queue.  The take of a key and the reading of its value are   *)
(* two transactions; a caller may enqueue between them.                    *)
(*                                                                         *)
(* A value is the set of the enqueues merged into it.                      *)
(***************************************************************************)
EXTENDS Integers, Sequences, FiniteSets

CONSTANTS
  Key,           (* the keys                                               *)
  MaxEnqueues,   (* bound: how many values are enqueued under each key     *)
  NoKey          (* not a key                                              *)

VARIABLES
  keyQueue,      (* the transactional queue of keys                        *)
  latestByKey,   (* the pending value of each key, {} while it has none    *)
  queuedKeys,    (* keys that are queued                                   *)
  activeKeys,    (* keys being processed                                   *)
  taken,         (* the key the fiber took and has not looked up yet       *)
  working,       (* the key and value the fiber processes                  *)
  enqueued,      (* how many values each key has been given                *)
  processed,     (* history: the enqueues whose value has been processed   *)
  draining,      (* per key, what a drainKey that waits was called after   *)
  open           (* the scope is open                                      *)

coalesceVars ==
  <<keyQueue, latestByKey, queuedKeys, activeKeys, taken, working, enqueued,
    processed, draining, open>>

Value == SUBSET (1..MaxEnqueues)
Nothing == [key |-> NoKey, value |-> {}]

TypeOK ==
  /\ keyQueue \in Seq(Key)
  /\ latestByKey \in [Key -> Value]
  /\ queuedKeys \subseteq Key
  /\ activeKeys \subseteq Key
  /\ taken \in Key \cup {NoKey}
  /\ working \in [key : Key \cup {NoKey}, value : Value]
  /\ enqueued \in [Key -> 0..MaxEnqueues]
  /\ processed \in [Key -> Value]
  /\ draining \in [Key -> -1..MaxEnqueues]
  /\ open \in BOOLEAN

Init ==
  /\ keyQueue = <<>>
  /\ latestByKey = [k \in Key |-> {}]
  /\ queuedKeys = {}
  /\ activeKeys = {}
  /\ taken = NoKey
  /\ working = Nothing
  /\ enqueued = [k \in Key |-> 0]
  /\ processed = [k \in Key |-> {}]
  /\ draining = [k \in Key |-> -1]
  /\ open = TRUE

(* Faulty: a key that waits in the queue is queued again.                  *)
PlacedActive == activeKeys

(* Keys that need no second place in the queue.                            *)
Placed == queuedKeys \cup activeKeys

(* enqueue: merge the value, queue the key unless it is queued or active.  *)
Enqueue(k) ==
  /\ enqueued[k] < MaxEnqueues
  /\ enqueued' = [enqueued EXCEPT ![k] = @ + 1]
  /\ latestByKey' = [latestByKey EXCEPT ![k] = @ \cup {enqueued[k] + 1}]
  /\ IF k \in Placed
       THEN UNCHANGED <<queuedKeys, keyQueue>>
       ELSE /\ queuedKeys' = queuedKeys \cup {k}
            /\ keyQueue' = IF open THEN Append(keyQueue, k) ELSE keyQueue
  /\ UNCHANGED <<activeKeys, taken, working, processed, draining, open>>

TakeKey ==
  /\ open
  /\ taken = NoKey
  /\ working = Nothing
  /\ keyQueue # <<>>
  /\ taken' = Head(keyQueue)
  /\ keyQueue' = Tail(keyQueue)
  /\ UNCHANGED <<latestByKey, queuedKeys, activeKeys, working, enqueued,
                 processed, draining, open>>

(* The second transaction: the key leaves queuedKeys, its value moves to   *)
(* the fiber.  A key without a value is skipped.                           *)
Start ==
  /\ open
  /\ taken # NoKey
  /\ queuedKeys' = queuedKeys \ {taken}
  /\ IF latestByKey[taken] = {}
       THEN UNCHANGED <<latestByKey, activeKeys, working>>
       ELSE /\ working' = [key |-> taken, value |-> latestByKey[taken]]
            /\ latestByKey' = [latestByKey EXCEPT ![taken] = {}]
            /\ activeKeys' = activeKeys \cup {taken}
  /\ taken' = NoKey
  /\ UNCHANGED <<keyQueue, enqueued, processed, draining, open>>

Requeue(k) == latestByKey[k] # {} /\ k \notin queuedKeys

(* completeKey, in the ensuring block of process: a key that got a value   *)
(* meanwhile is queued again.                                              *)
CompleteKey ==
  LET k == working.key
      requeue == Requeue(k)
  IN
  /\ working # Nothing
  /\ activeKeys' = activeKeys \ {k}
  /\ queuedKeys' = IF requeue THEN queuedKeys \cup {k} ELSE queuedKeys
  /\ keyQueue' = IF requeue /\ open THEN Append(keyQueue, k) ELSE keyQueue
  /\ processed' = [processed EXCEPT ![k] = @ \cup working.value]
  /\ working' = Nothing
  /\ UNCHANGED <<latestByKey, taken, enqueued, draining, open>>

(* Closing the scope interrupts the fiber and shuts the queue down.        *)
Close ==
  /\ open
  /\ open' = FALSE
  /\ keyQueue' = <<>>
  /\ UNCHANGED <<latestByKey, queuedKeys, activeKeys, taken, working, enqueued,
                 processed, draining>>

CallDrain(k) ==
  /\ draining[k] = -1
  /\ draining' = [draining EXCEPT ![k] = enqueued[k]]
  /\ UNCHANGED <<keyQueue, latestByKey, queuedKeys, activeKeys, taken, working,
                 enqueued, processed, open>>

(* drainKey retries while the key is pending, queued or active.            *)
ReturnDrain(k) ==
  /\ draining[k] # -1
  /\ latestByKey[k] = {}
  /\ k \notin queuedKeys \cup activeKeys
  /\ draining' = [draining EXCEPT ![k] = -1]
  /\ UNCHANGED <<keyQueue, latestByKey, queuedKeys, activeKeys, taken, working,
                 enqueued, processed, open>>

Next ==
  \/ \E k \in Key : Enqueue(k) \/ CallDrain(k) \/ ReturnDrain(k)
  \/ TakeKey
  \/ Start
  \/ CompleteKey
  \/ Close

(* The fiber runs while it can, and what it processes ends.                *)
Fairness ==
  /\ WF_coalesceVars(TakeKey)
  /\ WF_coalesceVars(Start)
  /\ WF_coalesceVars(CompleteKey)

Spec == Init /\ [][Next]_coalesceVars /\ Fairness

-----------------------------------------------------------------------------
(* A key is queued exactly when the queue holds it or the fiber has taken  *)
(* it, and never twice: a key that is skipped by mistake would keep its    *)
(* value for ever (KeyedCoalescingWorker.ts:87).                            *)
QueuedOnce ==
  open =>
    \A k \in Key :
      LET places == Cardinality({i \in DOMAIN keyQueue : keyQueue[i] = k})
                      + (IF taken = k THEN 1 ELSE 0)
      IN  places = (IF k \in queuedKeys THEN 1 ELSE 0)

(* A drainKey that returns has seen every value given to its key before    *)
(* the call processed, merged with others or not.                          *)
DrainSeesAll ==
  [][\A k \in Key :
       draining[k] # -1 /\ draining'[k] = -1
         => 1..draining[k] \subseteq processed[k]]_coalesceVars

(* Every value is processed, or merged into one that is, unless the scope  *)
(* closes first: each key catches up with what it was given.               *)
ValuesProcessed ==
  \A k \in Key : []<>(1..enqueued[k] = processed[k] \/ ~open)

(* Coalescing loses nothing: no key is dropped from the queue or doubled,  *)
(* and drainKey waits for what was enqueued (KeyedCoalescingWorker.ts:87).  *)
CoalescesExactly == [][QueuedOnce']_coalesceVars /\ DrainSeesAll
=============================================================================

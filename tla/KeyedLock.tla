----------------------------- MODULE KeyedLock -----------------------------
(***************************************************************************)
(* The keyed lock every service of the server serialises on                *)
(* (packages/shared/src/KeyedLock.ts): one semaphore per key in use, kept  *)
(* in a map with the number of its users, and dropped with the last one.   *)
(*                                                                         *)
(* A semaphore is an object: an acquire makes a candidate, and the one it  *)
(* finds in the map wins.  The hazard is two semaphores for one key, so    *)
(* semaphores are told apart here; one that nothing refers to any more is  *)
(* garbage and its name is free again.                                     *)
(***************************************************************************)
EXTENDS Integers, FiniteSets

CONSTANTS
  Key,           (* keys: thread ids, workspace roots, session ids         *)
  Fiber,         (* fibers that call withLock                              *)
  Semaphore,     (* identities of semaphores                               *)
  NoKey,         (* not a key                                              *)
  NoSemaphore    (* not a semaphore                                        *)

ASSUME LockAssumption ==
  /\ NoKey \notin Key
  /\ NoSemaphore \notin Semaphore
  /\ IsFiniteSet(Fiber)

VARIABLES
  locks,         (* the map: key to semaphore and users                    *)
  permits,       (* free permits of each semaphore                         *)
  at,            (* where a fiber is inside withLock                       *)
  wants,         (* the key a fiber passed to withLock                     *)
  handle         (* the semaphore its acquire returned                     *)

lockVars == <<locks, permits, at, wants, handle>>

Place == {"out", "waiting", "inside", "leaving"}
Entry == [semaphore : Semaphore, users : Nat]

TypeOK ==
  /\ DOMAIN locks \subseteq Key
  /\ \A k \in DOMAIN locks : locks[k] \in Entry
  /\ permits \in [Semaphore -> {0, 1}]
  /\ at \in [Fiber -> Place]
  /\ wants \in [Fiber -> Key \cup {NoKey}]
  /\ handle \in [Fiber -> Semaphore \cup {NoSemaphore}]

Init ==
  /\ locks = [k \in {} |-> NoSemaphore]
  /\ permits = [s \in Semaphore |-> 1]
  /\ at = [f \in Fiber |-> "out"]
  /\ wants = [f \in Fiber |-> NoKey]
  /\ handle = [f \in Fiber |-> NoSemaphore]

Users(k) == {f \in Fiber : wants[f] = k}

Fresh ==
  {s \in Semaphore :
     /\ \A k \in DOMAIN locks : locks[k].semaphore # s
     /\ \A f \in Fiber : handle[f] # s}

(* The entry of a key after one more fiber, with candidate s, came for it. *)
Joined(k, s) ==
  IF k \in DOMAIN locks
    THEN [semaphore |-> locks[k].semaphore, users |-> locks[k].users + 1]
    ELSE [semaphore |-> s, users |-> 1]

(* The acquire of acquireUseRelease: uninterruptible, one Ref.modify.      *)
Acquire(f, k) ==
  /\ at[f] = "out"
  /\ \E s \in Fresh :
       /\ locks' = [x \in DOMAIN locks \cup {k} |->
                      IF x = k THEN Joined(k, s) ELSE locks[x]]
       /\ permits' = [permits EXCEPT ![s] = 1]
       /\ handle' = [handle EXCEPT ![f] = Joined(k, s).semaphore]
  /\ wants' = [wants EXCEPT ![f] = k]
  /\ at' = [at EXCEPT ![f] = "waiting"]

(* withPermit takes the permit of the semaphore the acquire returned; which *)
(* of the waiters is next is the semaphore's business.                      *)
TakePermit(f) ==
  /\ at[f] = "waiting"
  /\ permits[handle[f]] = 1
  /\ permits' = [permits EXCEPT ![handle[f]] = 0]
  /\ at' = [at EXCEPT ![f] = "inside"]
  /\ UNCHANGED <<locks, wants, handle>>

(* The effect succeeds, fails or is interrupted: withPermit gives back.    *)
GiveBack(f) ==
  /\ at[f] = "inside"
  /\ permits' = [permits EXCEPT ![handle[f]] = 1]
  /\ at' = [at EXCEPT ![f] = "leaving"]
  /\ UNCHANGED <<locks, wants, handle>>

(* Faulty: an interrupted waiter does not release.                         *)
GiveUpUnreleased(f) ==
  /\ at[f] = "waiting"
  /\ at' = [at EXCEPT ![f] = "out"]
  /\ wants' = [wants EXCEPT ![f] = NoKey]
  /\ handle' = [handle EXCEPT ![f] = NoSemaphore]
  /\ UNCHANGED <<locks, permits>>

(* The fiber is interrupted while it waits for the permit.                 *)
GiveUp(f) ==
  /\ at[f] = "waiting"
  /\ at' = [at EXCEPT ![f] = "leaving"]
  /\ UNCHANGED <<locks, permits, wants, handle>>

(* Faulty: the first user that leaves takes the entry.                     *)
LeftAlone(k) == [x \in DOMAIN locks \ {k} |-> locks[x]]

(* The map after one user of key k left: the last one takes the entry.     *)
Left(k) ==
  IF k \notin DOMAIN locks THEN locks
  ELSE IF locks[k].users = 1
    THEN [x \in DOMAIN locks \ {k} |-> locks[x]]
    ELSE [locks EXCEPT ![k] = [semaphore |-> locks[k].semaphore,
                               users |-> locks[k].users - 1]]

(* The release of acquireUseRelease, run however the use ended.            *)
Release(f) ==
  /\ at[f] = "leaving"
  /\ locks' = Left(wants[f])
  /\ wants' = [wants EXCEPT ![f] = NoKey]
  /\ handle' = [handle EXCEPT ![f] = NoSemaphore]
  /\ at' = [at EXCEPT ![f] = "out"]
  /\ UNCHANGED permits

Next ==
  \E f \in Fiber :
    \/ \E k \in Key : Acquire(f, k)
    \/ TakePermit(f)
    \/ GiveBack(f)
    \/ GiveUp(f)
    \/ Release(f)

Spec == Init /\ [][Next]_lockVars

-----------------------------------------------------------------------------
(* withLock serialises: however the entry of a key came and went, two      *)
(* fibers are never inside with the same key (KeyedLock.ts:33).             *)
Exclusive ==
  \A f, g \in Fiber :
    at[f] = "inside" /\ at[g] = "inside" /\ wants[f] = wants[g] => f = g

(* The map has an entry for exactly the keys somebody uses, with their     *)
(* number: an interrupted waiter neither leaks the entry of its key nor     *)
(* takes it from under the fibers that still hold or await its semaphore.   *)
EntryCountsUsers ==
  \A k \in Key :
    IF k \in DOMAIN locks
      THEN /\ Users(k) # {}
           /\ locks[k].users = Cardinality(Users(k))
      ELSE Users(k) = {}

(* Nobody waits on a permit that will not come back: while no fiber is     *)
(* inside with a key, the semaphore its waiters hold has its permit.        *)
PermitComesBack ==
  \A f \in Fiber :
    at[f] = "waiting" /\ (\A g \in Users(wants[f]) : at[g] # "inside")
      => permits[handle[f]] = 1

(* The table of locks neither leaks an entry nor strands a waiter, whoever *)
(* is interrupted while it waits or holds (KeyedLock.ts:32).                *)
TableExact == EntryCountsUsers /\ PermitComesBack

-----------------------------------------------------------------------------
(* Whatever becomes of the entries, the lock is a mutex of its keys, held  *)
(* by the fibers that are inside (KeyedLock.ts:46).                         *)
HeldByFibers ==
  {h \in [key : Key, by : Fiber] : at[h.by] = "inside" /\ wants[h.by] = h.key}
Mutex == INSTANCE KeyedMutex WITH held <- HeldByFibers, Holder <- Fiber
ImplementsMutex == Mutex!Spec
=============================================================================

-------------------------- MODULE KeyedLockProofs --------------------------
(***************************************************************************)
(* Proofs about KeyedLock for every set of keys, semaphores and fibers: a  *)
(* key has one semaphore as long as anybody refers to it, its entry counts *)
(* those who do, and so the lock is exclusive, no permit is lost, and the  *)
(* lock implements KeyedMutex.                                             *)
(***************************************************************************)
EXTENDS KeyedLock, FiniteSetTheorems, TLAPS

(* A fiber in withLock refers to the semaphore of the entry of its key.    *)
Referenced ==
  \A f \in Fiber :
    /\ at[f] = "out" <=> wants[f] = NoKey
    /\ at[f] = "out" <=> handle[f] = NoSemaphore
    /\ at[f] # "out" => /\ wants[f] \in DOMAIN locks
                        /\ handle[f] = locks[wants[f]].semaphore

(* No semaphore serves two keys.                                           *)
OwnSemaphore ==
  \A k, l \in DOMAIN locks : locks[k].semaphore = locks[l].semaphore => k = l

(* The permit of a key is out exactly while a fiber is inside.             *)
PermitFollowsHolder ==
  \A k \in DOMAIN locks :
    permits[locks[k].semaphore] = 0
      <=> \E f \in Fiber : wants[f] = k /\ at[f] = "inside"

IInv ==
  /\ TypeOK
  /\ Referenced
  /\ OwnSemaphore
  /\ EntryCountsUsers
  /\ PermitFollowsHolder
  /\ Exclusive

(* The users of a key are finitely many.                                   *)
LEMMA UsersFinite ==
  \A k \in Key : /\ IsFiniteSet(Users(k))
                 /\ Cardinality(Users(k)) \in Nat
BY LockAssumption, FS_Subset, FS_CardinalityType DEF Users

(* One more user of a key counts as one more.                              *)
LEMMA OneMoreUser ==
  ASSUME TypeOK, NEW f \in Fiber, NEW k \in Key, wants[f] = NoKey,
         wants' = [wants EXCEPT ![f] = k]
  PROVE  /\ Users(k)' = Users(k) \cup {f}
         /\ Cardinality(Users(k)') = Cardinality(Users(k)) + 1
         /\ \A l \in Key \ {k} : Users(l)' = Users(l)
<1>1. f \notin Users(k)
  BY LockAssumption DEF Users
<1>2. Users(k)' = Users(k) \cup {f}
  BY DEF Users, TypeOK
<1>3. Cardinality(Users(k)') = Cardinality(Users(k)) + 1
  BY <1>1, <1>2, UsersFinite, FS_AddElement
<1>4. ASSUME NEW l \in Key \ {k} PROVE Users(l)' = Users(l)
  BY LockAssumption DEF Users, TypeOK
<1>5. QED
  BY <1>2, <1>3, <1>4

(* One user less of a key counts as one less.                              *)
LEMMA OneUserLess ==
  ASSUME TypeOK, NEW f \in Fiber, NEW k \in Key, wants[f] = k,
         wants' = [wants EXCEPT ![f] = NoKey]
  PROVE  /\ Users(k)' = Users(k) \ {f}
         /\ Cardinality(Users(k)') = Cardinality(Users(k)) - 1
         /\ \A l \in Key \ {k} : Users(l)' = Users(l)
<1>1. f \in Users(k)
  BY DEF Users
<1>2. Users(k)' = Users(k) \ {f}
  BY LockAssumption DEF Users, TypeOK
<1>3. Cardinality(Users(k)') = Cardinality(Users(k)) - 1
  BY <1>1, <1>2, UsersFinite, FS_RemoveElement
<1>4. ASSUME NEW l \in Key \ {k} PROVE Users(l)' = Users(l)
  BY LockAssumption DEF Users, TypeOK
<1>5. QED
  BY <1>2, <1>3, <1>4

LEMMA InitInv == Init => IInv
<1> SUFFICES ASSUME Init PROVE IInv
  OBVIOUS
<1>1. TypeOK
  BY DEF Init, TypeOK, Place
<1>2. Referenced /\ OwnSemaphore /\ PermitFollowsHolder /\ Exclusive
  BY LockAssumption DEF Init, Referenced, OwnSemaphore, PermitFollowsHolder, Exclusive
<1>3. EntryCountsUsers
  BY LockAssumption DEF Init, EntryCountsUsers, Users
<1>4. QED
  BY <1>1, <1>2, <1>3 DEF IInv

(* An acquire joins the entry of its key, or makes one with a semaphore    *)
(* nothing refers to.                                                      *)
LEMMA AcquireInv ==
  ASSUME IInv, NEW f \in Fiber, NEW k \in Key, Acquire(f, k)
  PROVE  IInv'
<1> USE DEF IInv
<1>1. PICK s \in Fresh :
        /\ locks' = [x \in DOMAIN locks \cup {k} |->
                       IF x = k THEN Joined(k, s) ELSE locks[x]]
        /\ permits' = [permits EXCEPT ![s] = 1]
        /\ handle' = [handle EXCEPT ![f] = Joined(k, s).semaphore]
  BY DEF Acquire
<1>2. /\ at[f] = "out" /\ wants[f] = NoKey
      /\ wants' = [wants EXCEPT ![f] = k]
      /\ at' = [at EXCEPT ![f] = "waiting"]
  BY DEF Acquire, Referenced
<1>3. /\ s \in Semaphore
      /\ \A l \in DOMAIN locks : locks[l].semaphore # s
      /\ \A g \in Fiber : handle[g] # s
  BY <1>1 DEF Fresh
<1>4. /\ Joined(k, s) \in Entry
      /\ Joined(k, s).semaphore \in Semaphore
      /\ k \in DOMAIN locks => /\ Joined(k, s).semaphore = locks[k].semaphore
                               /\ Joined(k, s).users = locks[k].users + 1
      /\ k \notin DOMAIN locks => /\ Joined(k, s).semaphore = s
                                  /\ Joined(k, s).users = 1
  BY <1>3 DEF Joined, Entry, TypeOK
<1>5. /\ DOMAIN locks' = DOMAIN locks \cup {k}
      /\ locks'[k] = Joined(k, s)
      /\ \A l \in DOMAIN locks : l # k => locks'[l] = locks[l]
      /\ \A l \in DOMAIN locks : locks'[l].semaphore = locks[l].semaphore
  BY <1>1, <1>4
<1>6. /\ \A l \in DOMAIN locks : permits'[locks[l].semaphore] = permits[locks[l].semaphore]
      /\ permits'[s] = 1
  BY <1>1, <1>3 DEF TypeOK, Entry
<1>7. TypeOK'
  BY <1>1, <1>2, <1>4, <1>5 DEF TypeOK, Place
<1>8. Referenced'
  BY <1>1, <1>2, <1>4, <1>5, LockAssumption DEF Referenced, TypeOK
<1>9. OwnSemaphore'
  BY <1>3, <1>4, <1>5 DEF OwnSemaphore
<1>10. EntryCountsUsers'
  <2>1. /\ Users(k)' = Users(k) \cup {f}
        /\ Cardinality(Users(k)') = Cardinality(Users(k)) + 1
        /\ \A l \in Key \ {k} : Users(l)' = Users(l)
    BY <1>2, OneMoreUser
  <2>2. locks'[k].users = Cardinality(Users(k)')
    <3>1. CASE k \in DOMAIN locks
      BY <1>4, <1>5, <2>1, <3>1 DEF EntryCountsUsers
    <3>2. CASE k \notin DOMAIN locks
      <4>1. Users(k) = {}
        BY <3>2 DEF EntryCountsUsers
      <4>2. Cardinality(Users(k)) = 0
        BY <4>1, FS_EmptySet
      <4>3. QED
        BY <1>4, <1>5, <2>1, <3>2, <4>2
    <3>3. QED
      BY <3>1, <3>2
  <2>3. ASSUME NEW l \in Key \ {k}
        PROVE  IF l \in DOMAIN locks'
                 THEN Users(l)' # {} /\ locks'[l].users = Cardinality(Users(l)')
                 ELSE Users(l)' = {}
    BY <1>5, <2>1 DEF EntryCountsUsers
  <2>4. QED
    BY <1>5, <2>1, <2>2, <2>3 DEF EntryCountsUsers
<1>11. PermitFollowsHolder'
  <2>1. \A g \in Fiber : /\ at'[g] = "inside" <=> at[g] = "inside"
                         /\ at[g] = "inside" => wants'[g] = wants[g]
    BY <1>2 DEF TypeOK
  <2>2. ASSUME NEW l \in DOMAIN locks'
        PROVE  permits'[locks'[l].semaphore] = 0
                 <=> \E g \in Fiber : wants'[g] = l /\ at'[g] = "inside"
    <3>1. CASE l \in DOMAIN locks
      <4>1. permits'[locks'[l].semaphore] = permits[locks[l].semaphore]
        BY <1>5, <1>6, <3>1
      <4>2. QED
        BY <2>1, <3>1, <4>1, <1>2 DEF PermitFollowsHolder
    <3>2. CASE l \notin DOMAIN locks
      <4>1. permits'[locks'[l].semaphore] = 1
        BY <1>4, <1>5, <1>6, <3>2
      <4>2. \A g \in Fiber : at'[g] = "inside" => wants'[g] # l
        BY <2>1, <3>2 DEF Referenced
      <4>3. QED
        BY <4>1, <4>2
    <3>3. QED
      BY <3>1, <3>2
  <2>3. QED
    BY <2>2 DEF PermitFollowsHolder
<1>12. Exclusive'
  BY <1>2 DEF Exclusive, TypeOK
<1>13. QED
  BY <1>7, <1>8, <1>9, <1>10, <1>11, <1>12

(* A permit is taken only while nobody is inside.                          *)
LEMMA TakePermitInv ==
  ASSUME IInv, NEW f \in Fiber, TakePermit(f)
  PROVE  IInv'
<1> USE DEF IInv
<1>1. /\ at[f] = "waiting" /\ permits[handle[f]] = 1
      /\ permits' = [permits EXCEPT ![handle[f]] = 0]
      /\ at' = [at EXCEPT ![f] = "inside"]
      /\ locks' = locks /\ wants' = wants /\ handle' = handle
  BY DEF TakePermit
<1>2. /\ wants[f] \in DOMAIN locks
      /\ handle[f] = locks[wants[f]].semaphore
      /\ handle[f] \in Semaphore
  BY <1>1 DEF Referenced, TypeOK, Entry
<1>3. TypeOK'
  BY <1>1 DEF TypeOK, Place
<1>4. Referenced' /\ OwnSemaphore'
  BY <1>1 DEF Referenced, OwnSemaphore, TypeOK
<1>5. EntryCountsUsers'
  BY <1>1 DEF EntryCountsUsers, Users
<1>6. \A g \in Fiber : wants[g] = wants[f] => at[g] # "inside"
  BY <1>1, <1>2 DEF PermitFollowsHolder
<1>7. PermitFollowsHolder'
  <2>1. ASSUME NEW l \in DOMAIN locks, l # wants[f]
        PROVE  permits'[locks[l].semaphore] = permits[locks[l].semaphore]
    BY <1>1, <1>2, <2>1 DEF OwnSemaphore, TypeOK, Entry
  <2>2. permits'[locks[wants[f]].semaphore] = 0
    BY <1>1, <1>2 DEF TypeOK
  <2>3. at'[f] = "inside" /\ \A g \in Fiber : g # f => at'[g] = at[g]
    BY <1>1 DEF TypeOK
  <2>4. ASSUME NEW l \in DOMAIN locks'
        PROVE  permits'[locks'[l].semaphore] = 0
                 <=> \E g \in Fiber : wants'[g] = l /\ at'[g] = "inside"
    <3>1. CASE l = wants[f]
      BY <1>1, <2>2, <2>3, <3>1
    <3>2. CASE l # wants[f]
      <4>1. permits[locks[l].semaphore] = 0
              <=> \E g \in Fiber : wants[g] = l /\ at[g] = "inside"
        BY <1>1 DEF PermitFollowsHolder
      <4>2. (\E g \in Fiber : wants'[g] = l /\ at'[g] = "inside")
              <=> (\E g \in Fiber : wants[g] = l /\ at[g] = "inside")
        BY <1>1, <2>3, <3>2
      <4>3. QED
        BY <1>1, <2>1, <3>2, <4>1, <4>2
    <3>3. QED
      BY <3>1, <3>2
  <2>5. QED
    BY <2>4 DEF PermitFollowsHolder
<1>8. Exclusive'
  BY <1>1, <1>6 DEF Exclusive, TypeOK
<1>9. QED
  BY <1>3, <1>4, <1>5, <1>7, <1>8

(* The holder gives its permit back.                                       *)
LEMMA GiveBackInv ==
  ASSUME IInv, NEW f \in Fiber, GiveBack(f)
  PROVE  IInv'
<1> USE DEF IInv
<1>1. /\ at[f] = "inside"
      /\ permits' = [permits EXCEPT ![handle[f]] = 1]
      /\ at' = [at EXCEPT ![f] = "leaving"]
      /\ locks' = locks /\ wants' = wants /\ handle' = handle
  BY DEF GiveBack
<1>2. /\ wants[f] \in DOMAIN locks
      /\ handle[f] = locks[wants[f]].semaphore
      /\ handle[f] \in Semaphore
  BY <1>1 DEF Referenced, TypeOK, Entry
<1>3. TypeOK'
  BY <1>1 DEF TypeOK, Place
<1>4. Referenced' /\ OwnSemaphore'
  BY <1>1 DEF Referenced, OwnSemaphore, TypeOK
<1>5. EntryCountsUsers'
  BY <1>1 DEF EntryCountsUsers, Users
<1>6. at'[f] = "leaving" /\ \A g \in Fiber : g # f => at'[g] = at[g]
  BY <1>1 DEF TypeOK
<1>7. PermitFollowsHolder'
  <2>1. ASSUME NEW l \in DOMAIN locks, l # wants[f]
        PROVE  permits'[locks[l].semaphore] = permits[locks[l].semaphore]
    BY <1>1, <1>2, <2>1 DEF OwnSemaphore, TypeOK, Entry
  <2>2. permits'[locks[wants[f]].semaphore] = 1
    BY <1>1, <1>2 DEF TypeOK
  <2>3. ASSUME NEW l \in DOMAIN locks'
        PROVE  permits'[locks'[l].semaphore] = 0
                 <=> \E g \in Fiber : wants'[g] = l /\ at'[g] = "inside"
    <3>1. CASE l = wants[f]
      <4>1. \A g \in Fiber : wants[g] = l /\ at[g] = "inside" => g = f
        BY <1>1, <3>1 DEF Exclusive
      <4>2. QED
        BY <1>1, <1>6, <2>2, <3>1, <4>1
    <3>2. CASE l # wants[f]
      <4>1. permits[locks[l].semaphore] = 0
              <=> \E g \in Fiber : wants[g] = l /\ at[g] = "inside"
        BY <1>1 DEF PermitFollowsHolder
      <4>2. (\E g \in Fiber : wants'[g] = l /\ at'[g] = "inside")
              <=> (\E g \in Fiber : wants[g] = l /\ at[g] = "inside")
        BY <1>1, <1>6, <3>2
      <4>3. QED
        BY <1>1, <2>1, <3>2, <4>1, <4>2
    <3>3. QED
      BY <3>1, <3>2
  <2>4. QED
    BY <2>3 DEF PermitFollowsHolder
<1>8. Exclusive'
  BY <1>1, <1>6 DEF Exclusive
<1>9. QED
  BY <1>3, <1>4, <1>5, <1>7, <1>8

(* A waiter that is interrupted holds no permit.                           *)
LEMMA GiveUpInv ==
  ASSUME IInv, NEW f \in Fiber, GiveUp(f)
  PROVE  IInv'
<1> USE DEF IInv
<1>1. /\ at[f] = "waiting"
      /\ at' = [at EXCEPT ![f] = "leaving"]
      /\ locks' = locks /\ permits' = permits /\ wants' = wants /\ handle' = handle
  BY DEF GiveUp
<1>2. \A g \in Fiber : at'[g] = "inside" <=> at[g] = "inside"
  BY <1>1 DEF TypeOK
<1>3. TypeOK'
  BY <1>1 DEF TypeOK, Place
<1>4. Referenced' /\ OwnSemaphore'
  BY <1>1 DEF Referenced, OwnSemaphore, TypeOK
<1>5. EntryCountsUsers'
  BY <1>1 DEF EntryCountsUsers, Users
<1>6. PermitFollowsHolder' /\ Exclusive'
  BY <1>1, <1>2 DEF PermitFollowsHolder, Exclusive
<1>7. QED
  BY <1>3, <1>4, <1>5, <1>6

(* The last user of a key takes its entry, any other counts itself out.    *)
LEMMA ReleaseInv ==
  ASSUME IInv, NEW f \in Fiber, Release(f)
  PROVE  IInv'
<1> USE DEF IInv
<1>0. PICK k \in Key : k = wants[f] /\ k \in DOMAIN locks
  BY DEF Release, Referenced, TypeOK
<1>1. /\ at[f] = "leaving"
      /\ wants[f] = k
      /\ locks' = Left(k)
      /\ wants' = [wants EXCEPT ![f] = NoKey]
      /\ handle' = [handle EXCEPT ![f] = NoSemaphore]
      /\ at' = [at EXCEPT ![f] = "out"]
      /\ permits' = permits
  BY <1>0 DEF Release
<1>2. k \in DOMAIN locks /\ k \in Key
  BY <1>0
<1>3. /\ Users(k)' = Users(k) \ {f}
      /\ Cardinality(Users(k)') = Cardinality(Users(k)) - 1
      /\ \A l \in Key \ {k} : Users(l)' = Users(l)
  BY <1>1, <1>2, OneUserLess
<1>4. /\ IsFiniteSet(Users(k)') /\ f \in Users(k)
      /\ locks[k].users = Cardinality(Users(k)) /\ locks[k].users \in Nat
  <2>1. IsFiniteSet(Users(k))
    BY <1>2, UsersFinite
  <2>2. QED
    BY <1>2, <1>3, <2>1, FS_Subset DEF EntryCountsUsers, Users, TypeOK, Entry
<1>5. \A g \in Fiber : g # f => /\ at'[g] = at[g]
                                /\ wants'[g] = wants[g]
                                /\ handle'[g] = handle[g]
  BY <1>1 DEF TypeOK
<1>6. at'[f] = "out" /\ wants'[f] = NoKey /\ handle'[f] = NoSemaphore
  BY <1>1 DEF TypeOK
<1>7. CASE locks[k].users = 1
  <2>1. Users(k)' = {}
    BY <1>3, <1>4, <1>7, FS_EmptySet
  <2>2. locks' = [x \in DOMAIN locks \ {k} |-> locks[x]]
    BY <1>1, <1>2, <1>7 DEF Left
  <2>3. \A g \in Fiber : wants'[g] # k
    BY <2>1 DEF Users
  <2>4. TypeOK'
    BY <1>1, <2>2 DEF TypeOK, Place
  <2>5. Referenced'
    BY <1>5, <1>6, <2>2, <2>3, LockAssumption DEF Referenced
  <2>6. OwnSemaphore'
    BY <2>2 DEF OwnSemaphore
  <2>7. EntryCountsUsers'
    <3>1. ASSUME NEW l \in Key \ {k}
          PROVE  IF l \in DOMAIN locks'
                   THEN Users(l)' # {} /\ locks'[l].users = Cardinality(Users(l)')
                   ELSE Users(l)' = {}
      BY <1>3, <2>2 DEF EntryCountsUsers
    <3>2. QED
      BY <2>1, <2>2, <3>1 DEF EntryCountsUsers
  <2>8. PermitFollowsHolder'
    <3>1. ASSUME NEW l \in DOMAIN locks'
          PROVE  permits'[locks'[l].semaphore] = 0
                   <=> \E g \in Fiber : wants'[g] = l /\ at'[g] = "inside"
      <4>1. l \in DOMAIN locks /\ l # k /\ locks'[l] = locks[l] /\ l \in Key
        BY <2>2 DEF TypeOK
      <4>2. \A g \in Fiber : (wants'[g] = l /\ at'[g] = "inside")
                               <=> (wants[g] = l /\ at[g] = "inside")
        BY <1>1, <1>5, <1>6, <4>1
      <4>3. QED
        BY <1>1, <4>1, <4>2 DEF PermitFollowsHolder
    <3>2. QED
      BY <3>1 DEF PermitFollowsHolder
  <2>9. Exclusive'
    BY <1>5, <1>6 DEF Exclusive
  <2>10. QED
    BY <2>4, <2>5, <2>6, <2>7, <2>8, <2>9
<1>8. CASE locks[k].users # 1
  <2>1. locks' = [locks EXCEPT ![k] = [semaphore |-> locks[k].semaphore,
                                       users |-> locks[k].users - 1]]
    BY <1>1, <1>2, <1>8 DEF Left
  <2>2. locks[k].users > 1 /\ locks[k].users - 1 \in Nat
    <3>1. Cardinality(Users(k)) # 0
      BY <1>2, <1>4, UsersFinite, FS_EmptySet
    <3>2. QED
      BY <1>4, <1>8, <3>1
  <2>3. /\ DOMAIN locks' = DOMAIN locks
        /\ locks'[k].users = Cardinality(Users(k)')
        /\ \A l \in DOMAIN locks : locks'[l].semaphore = locks[l].semaphore
        /\ \A l \in DOMAIN locks : l # k => locks'[l] = locks[l]
    BY <1>2, <1>3, <1>4, <2>1
  <2>4. TypeOK'
    <3>1. [semaphore |-> locks[k].semaphore, users |-> locks[k].users - 1] \in Entry
      BY <1>2, <2>2 DEF TypeOK, Entry
    <3>2. QED
      BY <1>1, <1>2, <2>1, <3>1 DEF TypeOK, Place
  <2>5. Referenced'
    BY <1>5, <1>6, <2>3, LockAssumption DEF Referenced
  <2>6. OwnSemaphore'
    BY <2>3 DEF OwnSemaphore
  <2>7. EntryCountsUsers'
    <3>1. Users(k)' # {}
      BY <1>3, <1>4, <2>2, FS_EmptySet
    <3>2. ASSUME NEW l \in Key \ {k}
          PROVE  IF l \in DOMAIN locks'
                   THEN Users(l)' # {} /\ locks'[l].users = Cardinality(Users(l)')
                   ELSE Users(l)' = {}
      BY <1>3, <2>3 DEF EntryCountsUsers
    <3>3. QED
      BY <1>2, <2>3, <3>1, <3>2 DEF EntryCountsUsers
  <2>8. PermitFollowsHolder'
    <3>1. ASSUME NEW l \in DOMAIN locks'
          PROVE  permits'[locks'[l].semaphore] = 0
                   <=> \E g \in Fiber : wants'[g] = l /\ at'[g] = "inside"
      <4>1. l \in DOMAIN locks /\ locks'[l].semaphore = locks[l].semaphore /\ l \in Key
        BY <2>3 DEF TypeOK
      <4>2. \A g \in Fiber : (wants'[g] = l /\ at'[g] = "inside")
                               <=> (wants[g] = l /\ at[g] = "inside")
        BY <1>1, <1>5, <1>6, <4>1
      <4>3. QED
        BY <1>1, <4>1, <4>2 DEF PermitFollowsHolder
    <3>2. QED
      BY <3>1 DEF PermitFollowsHolder
  <2>9. Exclusive'
    BY <1>5, <1>6 DEF Exclusive
  <2>10. QED
    BY <2>4, <2>5, <2>6, <2>7, <2>8, <2>9
<1>9. QED
  BY <1>7, <1>8

LEMMA StepInv == IInv /\ [Next]_lockVars => IInv'
<1> SUFFICES ASSUME IInv, [Next]_lockVars PROVE IInv'
  OBVIOUS
<1>1. CASE UNCHANGED lockVars
  BY <1>1 DEF IInv, lockVars, TypeOK, Referenced, OwnSemaphore, EntryCountsUsers,
     PermitFollowsHolder, Exclusive, Users
<1>2. CASE Next
  BY <1>2, AcquireInv, TakePermitInv, GiveBackInv, GiveUpInv, ReleaseInv DEF Next
<1>3. QED
  BY <1>1, <1>2

(* What withLock does keeps the map, the permits and its callers in step.  *)
THEOREM LockInvariant == Spec => []IInv
BY InitInv, StepInv, PTL DEF Spec

(* The state keeps its type, permits never exceeding one.                  *)
THEOREM LockTypes == Spec => []TypeOK
<1>1. IInv => TypeOK
  BY DEF IInv
<1>2. QED
  BY LockInvariant, <1>1, PTL

(* Two fibers are never inside with the same key, however many keys,       *)
(* fibers and interruptions there are.                                     *)
THEOREM LockExclusive == Spec => []Exclusive
<1>1. IInv => Exclusive
  BY DEF IInv
<1>2. QED
  BY LockInvariant, <1>1, PTL

(* The table has exactly the keys in use with the number of their users,   *)
(* and a waiter's permit is free whenever nobody is inside.                *)
THEOREM LockTableExact == Spec => []TableExact
<1>1. IInv => TableExact
  <2> SUFFICES ASSUME IInv PROVE TableExact
    OBVIOUS
  <2>1. EntryCountsUsers
    BY DEF IInv
  <2>2. ASSUME NEW f \in Fiber, at[f] = "waiting",
               \A g \in Users(wants[f]) : at[g] # "inside"
        PROVE  permits[handle[f]] = 1
    <3>1. wants[f] \in DOMAIN locks /\ handle[f] = locks[wants[f]].semaphore
      BY <2>2 DEF IInv, Referenced
    <3>2. permits[handle[f]] # 0
      BY <2>2, <3>1 DEF IInv, PermitFollowsHolder, Users
    <3>3. handle[f] \in Semaphore
      BY <3>1 DEF IInv, TypeOK, Entry
    <3>4. QED
      BY <3>2, <3>3 DEF IInv, TypeOK
  <2>3. QED
    BY <2>1, <2>2 DEF TableExact, PermitComesBack
<1>2. QED
  BY LockInvariant, <1>1, PTL

-----------------------------------------------------------------------------
(* The lock implements a mutex.                                            *)

(* What is only let go is let go together.                                 *)
LEMMA FibersLetGo ==
  ASSUME HeldByFibers' \subseteq HeldByFibers
  PROVE  [Mutex!Next]_HeldByFibers
<1> DEFINE H == HeldByFibers \ HeldByFibers'
<1>1. HeldByFibers' = HeldByFibers \ H /\ H \in SUBSET HeldByFibers
  OBVIOUS
<1>2. CASE H = {}
  BY <1>1, <1>2
<1>3. CASE H # {}
  <2>1. Mutex!LetGo(H)
    BY <1>1, <1>3 DEF Mutex!LetGo
  <2>2. QED
    BY <1>1, <2>1 DEF Mutex!Next
<1>4. QED
  BY <1>2, <1>3

(* A permit is there only while nobody is inside with its key.             *)
LEMMA PermitTakesKey ==
  ASSUME IInv, NEW f \in Fiber, TakePermit(f)
  PROVE  Mutex!Next
<1> DEFINE k == wants[f]
<1>1. k \in DOMAIN locks /\ handle[f] = locks[k].semaphore /\ k \in Key
  BY DEF TakePermit, IInv, Referenced, TypeOK
<1>2. \A g \in Fiber : ~(wants[g] = k /\ at[g] = "inside")
  BY <1>1 DEF TakePermit, IInv, PermitFollowsHolder
<1>3. \A g \in HeldByFibers : g.key # k
  BY <1>2 DEF HeldByFibers
<1>4. HeldByFibers' = HeldByFibers \cup {[key |-> k, by |-> f]}
  <2>1. /\ wants' = wants /\ at'[f] = "inside"
        /\ \A g \in Fiber : g # f => at'[g] = at[g]
    BY DEF TakePermit, IInv, TypeOK
  <2>2. ASSUME NEW h \in [key : Key, by : Fiber]
        PROVE  h \in HeldByFibers' <=> h \in HeldByFibers \/ h = [key |-> k, by |-> f]
    <3>1. h = [key |-> h.key, by |-> h.by] /\ h.by \in Fiber
      OBVIOUS
    <3>2. CASE h.by = f
      BY <2>1, <3>1, <3>2 DEF HeldByFibers, TakePermit
    <3>3. CASE h.by # f
      BY <2>1, <3>1, <3>3 DEF HeldByFibers
    <3>4. QED
      BY <3>2, <3>3
  <2>3. [key |-> k, by |-> f] \in [key : Key, by : Fiber]
    BY <1>1
  <2>4. QED
    BY <2>2, <2>3 DEF HeldByFibers
<1>5. Mutex!Take(k, f)
  BY <1>3, <1>4 DEF Mutex!Take
<1>6. QED
  BY <1>1, <1>5 DEF Mutex!Next

(* Whatever the table of locks does, a key has one holder at a time, and   *)
(* is given to one fiber after another.                                    *)
THEOREM LockImplementsMutex == Spec => ImplementsMutex
<1>1. Init => Mutex!Init
  <2> SUFFICES ASSUME Init PROVE HeldByFibers = {}
    BY DEF Mutex!Init
  <2>1. \A f \in Fiber : at[f] # "inside"
    BY DEF Init
  <2>2. QED
    BY <2>1 DEF HeldByFibers
<1>2. IInv /\ [Next]_lockVars => [Mutex!Next]_HeldByFibers
  <2> SUFFICES ASSUME IInv, [Next]_lockVars PROVE [Mutex!Next]_HeldByFibers
    OBVIOUS
  <2>1. CASE UNCHANGED lockVars
    <3>1. HeldByFibers' = HeldByFibers
      BY <2>1 DEF lockVars, HeldByFibers
    <3>2. QED
      BY <3>1
  <2>2. CASE \E f \in Fiber : TakePermit(f)
    BY <2>2, PermitTakesKey
  <2>3. ASSUME NEW f \in Fiber,
               (\E k \in Key : Acquire(f, k)) \/ GiveBack(f) \/ GiveUp(f) \/ Release(f)
        PROVE  [Mutex!Next]_HeldByFibers
    <3>1. /\ at'[f] # "inside"
          /\ \A g \in Fiber : g # f => at'[g] = at[g] /\ wants'[g] = wants[g]
      BY <2>3 DEF Acquire, GiveBack, GiveUp, Release, IInv, TypeOK
    <3>2. HeldByFibers' \subseteq HeldByFibers
      BY <3>1 DEF HeldByFibers
    <3>3. QED
      BY <3>2, FibersLetGo
  <2>4. QED
    BY <2>1, <2>2, <2>3 DEF Next
<1>3. QED
  BY <1>1, <1>2, LockInvariant, PTL DEF Spec, ImplementsMutex, Mutex!Spec
=============================================================================

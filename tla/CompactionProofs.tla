-------------------------- MODULE CompactionProofs --------------------------
(***************************************************************************)
(* Proofs about Compaction, for any entities, links and readers, any       *)
(* length of the log and any size of a page. The argument: an event is     *)
(* deleted only when the log holds what supersedes it; that stays so as    *)
(* the log grows; and a reader passes over no event of the table.          *)
(***************************************************************************)
EXTENDS Compaction, TLAPS

(* What may be missing: a newer event carries all of it, and if it is an   *)
(* entity's, an older one gives the entity its place.                      *)
Superseded(s) ==
  \/ /\ log[s] \in Link \cup {Whole, ReadEvent}
     /\ Later(DOMAIN log, s, {Whole})
  \/ log[s] = ReadEvent /\ Later(DOMAIN log, s, {ReadEvent})
  \/ /\ log[s] \in Keyed
     /\ Later(DOMAIN log, s, {log[s]})
     /\ \E n \in DOMAIN log : n < s /\ log[n] = log[s]

TableSound == \A s \in DOMAIN log : s \in kept \/ Superseded(s)

(* What the pass remembers lies behind it.                                 *)
Behind(kinds) == Later(DOMAIN log, pass.through, kinds)

MemorySound ==
  /\ pass.thread => Behind({Whole})
  /\ pass.read => Behind({ReadEvent})
  /\ \A k \in pass.newest : Behind({k})
  /\ \A k \in Keyed : \A s \in pass.oldest[k] :
       /\ s \in DOMAIN log /\ log[s] = k
       /\ pass.through < s
       /\ Later(DOMAIN log, s, {k})

ObsoleteSound == \A s \in pass.obsolete : s \in DOMAIN log /\ Superseded(s)

PassSound == pass.through <= Len(log) /\ MemorySound /\ ObsoleteSound

(* A reader has applied what the table holds up to its cursor, and has in  *)
(* hand what lies between the cursor and what it has read.                 *)
Shows(r, s) ==
  /\ \A f \in Facet : log[s] \in f => s <= client[r].shown[f]
  /\ log[s] \in Entity => client[r].first[log[s]] \in 1..s

ReaderSound(r) ==
  /\ client[r].cursor <= client[r].read /\ client[r].read <= Len(log)
  /\ \A s \in client[r].hand : client[r].cursor < s /\ s <= client[r].read
  /\ \A s \in kept : s <= client[r].cursor => Shows(r, s)
  /\ \A s \in kept :
       client[r].cursor < s /\ s <= client[r].read => s \in client[r].hand
  /\ \A f \in Facet :
       \/ client[r].shown[f] = 0
       \/ /\ client[r].shown[f] \in 1..client[r].cursor
          /\ log[client[r].shown[f]] \in f
  /\ \A e \in Entity :
       \/ client[r].first[e] = 0
       \/ /\ client[r].first[e] \in 1..client[r].cursor
          /\ log[client[r].first[e]] = e

ReadersSound == \A r \in Reader : ReaderSound(r)

CompactionInv == CompactionTypeOK /\ TableSound /\ PassSound /\ ReadersSound
-----------------------------------------------------------------------------
(* The log only grows, so what superseded an event still does.             *)
LEMMA LogGrows ==
  ASSUME CompactionTypeOK, CommitEvent
  PROVE  /\ Len(log') = Len(log) + 1
         /\ DOMAIN log' = DOMAIN log \cup {Len(log) + 1}
         /\ \A s \in DOMAIN log : s \in 1..Len(log) /\ log'[s] = log[s]
         /\ log' \in Seq(Kind)
BY DEF CompactionTypeOK, CommitEvent

LEMMA LaterStays ==
  ASSUME CompactionTypeOK, CommitEvent, NEW s, NEW kinds, Later(DOMAIN log, s, kinds)
  PROVE  Later(DOMAIN log, s, kinds)'
<1>1. PICK n \in DOMAIN log : n > s /\ log[n] \in kinds
  BY DEF Later
<1>2. n \in DOMAIN log' /\ log'[n] = log[n]
  BY <1>1, LogGrows
<1> QED
  BY <1>1, <1>2 DEF Later

LEMMA SupersededStays ==
  ASSUME CompactionTypeOK, CommitEvent, NEW s \in DOMAIN log, Superseded(s)
  PROVE  Superseded(s)'
<1>1. log'[s] = log[s]
  BY LogGrows
<1>2. CASE log[s] \in Link \cup {Whole, ReadEvent} /\ Later(DOMAIN log, s, {Whole})
  BY <1>1, <1>2, LaterStays DEF Superseded
<1>3. CASE log[s] = ReadEvent /\ Later(DOMAIN log, s, {ReadEvent})
  BY <1>1, <1>3, LaterStays DEF Superseded
<1>4. CASE /\ log[s] \in Keyed /\ Later(DOMAIN log, s, {log[s]})
           /\ \E n \in DOMAIN log : n < s /\ log[n] = log[s]
  <2>1. Later(DOMAIN log, s, {log[s]})'
    <3>1. PICK n \in DOMAIN log : n > s /\ log[n] = log[s]
      BY <1>4 DEF Later
    <3>2. n \in DOMAIN log' /\ log'[n] = log[n]
      BY <3>1, LogGrows
    <3> QED
      BY <3>1, <3>2, <1>1 DEF Later
  <2>2. \E n \in DOMAIN log' : n < s /\ log'[n] = log'[s]
    BY <1>1, <1>4, LogGrows
  <2> QED
    BY <1>1, <1>4, <2>1, <2>2 DEF Superseded
<1> QED
  BY <1>2, <1>3, <1>4 DEF Superseded

-----------------------------------------------------------------------------
(* Types.                                                                  *)
LEMMA FetchedReader ==
  ASSUME CompactionTypeOK, NEW r \in Reader, NEW s \in kept
  PROVE  /\ Fetched(r, s) \in ReaderState
         /\ Fetched(r, s).cursor = client[r].cursor
         /\ Fetched(r, s).read = s
         /\ Fetched(r, s).hand = client[r].hand \cup {s}
         /\ Fetched(r, s).shown = client[r].shown
         /\ Fetched(r, s).first = client[r].first
<1>1. s \in Nat /\ client[r] \in ReaderState
  BY DEF CompactionTypeOK
<1> QED
  BY <1>1 DEF Fetched, ReaderState

LEMMA AppliedReader ==
  ASSUME CompactionTypeOK, NEW r \in Reader, NEW s \in client[r].hand
  PROVE  /\ Applied(r, s) \in ReaderState
         /\ Applied(r, s).cursor = s
         /\ Applied(r, s).read = client[r].read
         /\ Applied(r, s).hand = client[r].hand \ {s}
         /\ \A f \in Facet : Applied(r, s).shown[f] =
                               IF log[s] \in f THEN s ELSE client[r].shown[f]
         /\ \A e \in Entity : Applied(r, s).first[e] =
                                IF log[s] = e /\ client[r].first[e] = 0
                                  THEN s ELSE client[r].first[e]
<1> DEFINE shown == [f \in Facet |-> IF log[s] \in f THEN s ELSE client[r].shown[f]]
           first == [e \in Entity |-> IF log[s] = e /\ client[r].first[e] = 0
                                        THEN s ELSE client[r].first[e]]
<1>1. client[r] \in ReaderState
  BY DEF CompactionTypeOK
<1>2. s \in Nat
  BY <1>1 DEF ReaderState
<1>3. shown \in [Facet -> Nat] /\ first \in [Entity -> Nat]
  BY <1>1, <1>2 DEF ReaderState
<1>4. Applied(r, s) = [client[r] EXCEPT !.cursor = s, !.hand = @ \ {s},
                                        !.shown = shown, !.first = first]
  BY DEF Applied
<1>5. /\ \A f \in Facet : shown[f] = IF log[s] \in f THEN s ELSE client[r].shown[f]
      /\ \A e \in Entity : first[e] = IF log[s] = e /\ client[r].first[e] = 0
                                        THEN s ELSE client[r].first[e]
  OBVIOUS
<1> HIDE DEF shown, first
<1> QED
  BY <1>1, <1>2, <1>3, <1>4, <1>5 DEF ReaderState

LEMMA CompactionTypesHold ==
  ASSUME CompactionTypeOK, [CompactionNext]_compactionVars
  PROVE  CompactionTypeOK'
<1> USE DEF CompactionTypeOK
<1>1. CASE CommitEvent
  <2>1. log' \in Seq(Kind) /\ kept' \subseteq DOMAIN log'
    BY <1>1, LogGrows DEF CommitEvent
  <2> QED
    BY <1>1, <2>1 DEF CommitEvent
<1>2. CASE StartPass
  <2>1. PICK n \in kept : pass' = [NoPass EXCEPT !.at = "paging", !.through = n]
    BY <1>2 DEF StartPass
  <2>2. n \in Nat
    BY <2>1
  <2> QED
    BY <1>2, <2>1, <2>2 DEF StartPass, NoPass
<1>3. CASE ReadPage
  <2> DEFINE rows == {s \in kept : s <= pass.through}
             page == {s \in rows : Cardinality({n \in rows : n >= s}) <= PageSize}
  <2>1. page \subseteq Nat
    OBVIOUS
  <2> HIDE DEF page
  <2>2. PICK through \in 0..pass.through :
               pass' =
                [at |-> "deleting",
                 through |-> through,
                 thread |-> pass.thread \/ \E s \in page : log[s] = Whole,
                 read |-> pass.read \/ \E s \in page : log[s] = ReadEvent,
                 newest |-> pass.newest \cup {k \in Keyed : Found(page, k) # {}},
                 oldest |-> [k \in Keyed |->
                               {s \in BelowNewest(page, k) :
                                  \A o \in BelowNewest(page, k) : s <= o}],
                 obsolete |-> Obsolete(page)]
    BY <1>3 DEF ReadPage, page
  <2>3. \A k \in Keyed : BelowNewest(page, k) \subseteq Nat
    BY <2>1 DEF BelowNewest, Found
  <2>4. Obsolete(page) \subseteq Nat
    BY <2>1, <2>3 DEF Obsolete
  <2>5. through \in Nat
    OBVIOUS
  <2>6. /\ (pass.thread \/ \E s \in page : log[s] = Whole) \in BOOLEAN
        /\ (pass.read \/ \E s \in page : log[s] = ReadEvent) \in BOOLEAN
    OBVIOUS
  <2>7. pass' \in [at : {"idle", "paging", "deleting"}, through : Nat, thread : BOOLEAN,
                   read : BOOLEAN, newest : SUBSET Keyed, oldest : [Keyed -> SUBSET Nat],
                   obsolete : SUBSET Nat]
    BY <2>2, <2>3, <2>4, <2>5, <2>6
  <2> QED
    BY <1>3, <2>7 DEF ReadPage
<1>4. CASE DeleteObsolete
  BY <1>4 DEF DeleteObsolete, NoPass
<1>5. CASE AbandonPass
  BY <1>5 DEF AbandonPass, NoPass
<1>6. ASSUME NEW r \in Reader, Fetch(r)
      PROVE  CompactionTypeOK'
  <2>1. PICK s \in kept : client' = [client EXCEPT ![r] = Fetched(r, s)]
    BY <1>6 DEF Fetch
  <2>2. Fetched(r, s) \in ReaderState
    BY FetchedReader
  <2> QED
    BY <1>6, <2>1, <2>2 DEF Fetch
<1>7. ASSUME NEW r \in Reader, Apply(r)
      PROVE  CompactionTypeOK'
  <2>1. PICK s \in client[r].hand : client' = [client EXCEPT ![r] = Applied(r, s)]
    BY <1>7 DEF Apply
  <2>2. Applied(r, s) \in ReaderState
    BY AppliedReader
  <2> QED
    BY <1>7, <2>1, <2>2 DEF Apply
<1>8. ASSUME NEW r \in Reader, Reconnect(r)
      PROVE  CompactionTypeOK'
  <2>1. [client[r] EXCEPT !.read = client[r].cursor, !.hand = {}] \in ReaderState
    BY DEF ReaderState
  <2> QED
    BY <1>8, <2>1 DEF Reconnect
<1>9. CASE UNCHANGED compactionVars
  BY <1>9 DEF compactionVars
<1> QED
  BY <1>1, <1>2, <1>3, <1>4, <1>5, <1>6, <1>7, <1>8, <1>9 DEF CompactionNext

-----------------------------------------------------------------------------
(* The table: what goes missing is superseded.                             *)
LEMMA TableStaysSound ==
  ASSUME CompactionTypeOK, TableSound, PassSound, [CompactionNext]_compactionVars
  PROVE  TableSound'
<1>1. CASE CommitEvent
  <2> SUFFICES ASSUME NEW s \in DOMAIN log'
               PROVE  s \in kept' \/ Superseded(s)'
    BY DEF TableSound
  <2>1. CASE s = Len(log) + 1
    BY <1>1, <2>1 DEF CommitEvent
  <2>2. CASE s \in DOMAIN log
    BY <1>1, <2>2, SupersededStays DEF TableSound, CommitEvent
  <2> QED
    BY <1>1, <2>1, <2>2, LogGrows
<1>2. CASE DeleteObsolete
  BY <1>2 DEF DeleteObsolete, TableSound, PassSound, ObsoleteSound, Superseded, Later
<1>3. CASE UNCHANGED <<log, kept>>
  BY <1>3 DEF TableSound, Superseded, Later
<1>4. ASSUME CompactionNext, ~CommitEvent, ~DeleteObsolete
      PROVE  UNCHANGED <<log, kept>>
  BY <1>4 DEF CompactionNext, StartPass, ReadPage, AbandonPass, Fetch, Apply, Reconnect
<1> QED
  BY <1>1, <1>2, <1>3, <1>4 DEF compactionVars

-----------------------------------------------------------------------------
(* The pass: what it remembers, and what it takes for obsolete.            *)
LEMMA IdlePassSound ==
  ASSUME NEW n \in Nat, n <= Len(log), pass.through = n,
         ~pass.thread, ~pass.read, pass.newest = {}, pass.obsolete = {},
         \A k \in Keyed : pass.oldest[k] = {}
  PROVE  PassSound
BY DEF PassSound, MemorySound, ObsoleteSound

(* An event of the page that a newer one overtakes is superseded.          *)
LEMMA OvertakenSuperseded ==
  ASSUME CompactionTypeOK, PassSound,
         NEW page, page \subseteq DOMAIN log, \A s \in page : s <= pass.through,
         NEW s \in page, Overtaken(page, s)
  PROVE  Superseded(s)
<1>1. s \in Nat /\ pass.through \in Nat /\ s <= pass.through
  BY DEF CompactionTypeOK
<1>2. ASSUME NEW kinds, Behind(kinds) \/ Later(page, s, kinds)
      PROVE  Later(DOMAIN log, s, kinds)
  BY <1>1, <1>2 DEF Behind, Later, CompactionTypeOK
<1>3. CASE /\ log[s] \in Link \cup {Whole, ReadEvent}
           /\ pass.thread \/ Later(page, s, {Whole})
  BY <1>2, <1>3 DEF PassSound, MemorySound, Superseded
<1>4. CASE /\ log[s] = ReadEvent
           /\ pass.read \/ Later(page, s, {ReadEvent})
  BY <1>2, <1>4 DEF PassSound, MemorySound, Superseded
<1> QED
  BY <1>3, <1>4 DEF Overtaken

(* Below the newest event of a key there are only events of that key, each *)
(* with a later one.                                                       *)
LEMMA BelowNewestHaveLater ==
  ASSUME CompactionTypeOK, PassSound,
         NEW page, page \subseteq DOMAIN log, \A s \in page : s <= pass.through,
         NEW k \in Keyed, NEW s \in BelowNewest(page, k)
  PROVE  /\ s \in DOMAIN log /\ log[s] = k
         /\ s \in page \/ pass.through < s
         /\ Later(DOMAIN log, s, {k})
<1>1. CASE s \in pass.oldest[k]
  BY <1>1 DEF PassSound, MemorySound
<1>2. CASE /\ s \in Found(page, k)
           /\ k \in pass.newest \/ Later(Found(page, k), s, {k})
  <2>1. s \in page /\ log[s] = k
    BY <1>2 DEF Found
  <2>2. s \in Nat /\ pass.through \in Nat /\ s <= pass.through
    BY <2>1 DEF CompactionTypeOK
  <2>3. CASE k \in pass.newest
    BY <2>1, <2>2, <2>3 DEF PassSound, MemorySound, Behind, Later, CompactionTypeOK
  <2>4. CASE Later(Found(page, k), s, {k})
    BY <2>1, <2>4 DEF Later, Found
  <2> QED
    BY <1>2, <2>1, <2>3, <2>4
<1> QED
  BY <1>1, <1>2 DEF BelowNewest

LEMMA ObsoleteSuperseded ==
  ASSUME CompactionTypeOK, PassSound,
         NEW page, page \subseteq DOMAIN log, \A s \in page : s <= pass.through,
         NEW s \in Obsolete(page)
  PROVE  s \in DOMAIN log /\ Superseded(s)
<1>1. CASE s \in page /\ Overtaken(page, s)
  BY <1>1, OvertakenSuperseded
<1>2. ASSUME NEW k \in Keyed, s \in BelowNewest(page, k),
             \E o \in BelowNewest(page, k) : o < s
      PROVE  s \in DOMAIN log /\ Superseded(s)
  <2>1. PICK o \in BelowNewest(page, k) : o < s
    BY <1>2
  <2>2. o \in DOMAIN log /\ log[o] = k
    BY BelowNewestHaveLater
  <2>3. s \in DOMAIN log /\ log[s] = k /\ Later(DOMAIN log, s, {k})
    BY <1>2, BelowNewestHaveLater
  <2> QED
    BY <2>1, <2>2, <2>3 DEF Superseded
<1> QED
  BY <1>1, <1>2 DEF Obsolete

LEMMA PageStaysSound ==
  ASSUME CompactionTypeOK, PassSound, ReadPage
  PROVE  PassSound'
<1> DEFINE rows == {s \in kept : s <= pass.through}
           page == {s \in rows : Cardinality({n \in rows : n >= s}) <= PageSize}
<1>1. page \subseteq DOMAIN log /\ \A s \in page : s <= pass.through
  BY DEF CompactionTypeOK
<1>2. UNCHANGED log
  BY DEF ReadPage
<1> HIDE DEF page
<1>3. PICK through \in 0..pass.through :
        /\ \A s \in page : through < s
        /\ pass' =
                [at |-> "deleting",
                 through |-> through,
                 thread |-> pass.thread \/ \E s \in page : log[s] = Whole,
                 read |-> pass.read \/ \E s \in page : log[s] = ReadEvent,
                 newest |-> pass.newest \cup {k \in Keyed : Found(page, k) # {}},
                 oldest |-> [k \in Keyed |->
                               {s \in BelowNewest(page, k) :
                                  \A o \in BelowNewest(page, k) : s <= o}],
                 obsolete |-> Obsolete(page)]
  BY DEF ReadPage, page
<1>4. /\ through \in Nat /\ pass.through \in Nat /\ through <= pass.through
      /\ pass.through <= Len(log) /\ Len(log) \in Nat /\ DOMAIN log \subseteq Nat
  BY DEF CompactionTypeOK, PassSound
<1>5. /\ pass'.through = through
      /\ pass'.thread => pass.thread \/ \E s \in page : log[s] = Whole
      /\ pass'.read => pass.read \/ \E s \in page : log[s] = ReadEvent
      /\ pass'.newest = pass.newest \cup {k \in Keyed : Found(page, k) # {}}
      /\ \A k \in Keyed : pass'.oldest[k] \subseteq BelowNewest(page, k)
      /\ pass'.obsolete = Obsolete(page)
  BY <1>3
<1>6. ASSUME NEW kinds, Behind(kinds) \/ \E s \in page : log[s] \in kinds
      PROVE  Behind(kinds)'
  <2>1. CASE Behind(kinds)
    BY <1>2, <1>4, <1>5, <2>1 DEF Behind, Later
  <2>2. CASE \E s \in page : log[s] \in kinds
    BY <1>1, <1>2, <1>3, <1>5, <2>2 DEF Behind, Later
  <2> QED
    BY <1>6, <2>1, <2>2
<1>7. MemorySound'
  <2>1. pass'.thread => Behind({Whole})'
    BY <1>5, <1>6 DEF PassSound, MemorySound
  <2>2. pass'.read => Behind({ReadEvent})'
    BY <1>5, <1>6 DEF PassSound, MemorySound
  <2>3. \A k \in pass'.newest : Behind({k})'
    <3> SUFFICES ASSUME NEW k \in pass'.newest PROVE Behind({k})'
      OBVIOUS
    <3>1. CASE k \in pass.newest
      BY <1>6, <3>1 DEF PassSound, MemorySound
    <3>2. CASE Found(page, k) # {}
      BY <1>6, <3>2 DEF Found
    <3> QED
      BY <1>5, <3>1, <3>2
  <2>4. ASSUME NEW k \in Keyed, NEW s \in pass'.oldest[k]
        PROVE  /\ s \in DOMAIN log' /\ log'[s] = k
               /\ pass'.through < s
               /\ Later(DOMAIN log, s, {k})'
    <3>1. s \in BelowNewest(page, k)
      BY <1>5, <2>4
    <3>2. /\ s \in DOMAIN log /\ log[s] = k
          /\ s \in page \/ pass.through < s
          /\ Later(DOMAIN log, s, {k})
      BY <1>1, <3>1, BelowNewestHaveLater
    <3>3. through < s
      BY <1>3, <1>4, <3>2
    <3> QED
      BY <1>2, <1>5, <3>2, <3>3 DEF Later
  <2> QED
    BY <2>1, <2>2, <2>3, <2>4 DEF MemorySound
<1>8. ObsoleteSound'
  <2> SUFFICES ASSUME NEW s \in pass'.obsolete
               PROVE  s \in DOMAIN log' /\ Superseded(s)'
    BY DEF ObsoleteSound
  <2>1. s \in DOMAIN log /\ Superseded(s)
    BY <1>1, <1>5, ObsoleteSuperseded
  <2> QED
    BY <1>2, <2>1 DEF Superseded, Later
<1> QED
  BY <1>2, <1>4, <1>5, <1>7, <1>8 DEF PassSound

LEMMA PassStaysSound ==
  ASSUME CompactionTypeOK, PassSound, [CompactionNext]_compactionVars
  PROVE  PassSound'
<1> USE DEF PassSound, MemorySound, ObsoleteSound
<1>1. CASE CommitEvent
  <2>1. pass' = pass /\ DOMAIN log \subseteq DOMAIN log'
    BY <1>1, LogGrows DEF CommitEvent
  <2>2. pass.through <= Len(log')
    BY <1>1, LogGrows DEF CompactionTypeOK
  <2>3. ASSUME NEW kinds, Behind(kinds)
        PROVE  Behind(kinds)'
    BY <1>1, <2>1, <2>3, LaterStays DEF Behind
  <2>4. ASSUME NEW k \in Keyed, NEW s \in pass.oldest[k]
        PROVE  /\ s \in DOMAIN log' /\ log'[s] = k
               /\ Later(DOMAIN log, s, {k})'
    BY <1>1, <2>1, <2>4, LogGrows, LaterStays
  <2>5. MemorySound'
    BY <2>1, <2>3, <2>4
  <2>6. ObsoleteSound'
    BY <1>1, <2>1, SupersededStays
  <2> QED
    BY <2>1, <2>2, <2>5, <2>6
<1>2. CASE StartPass
  <2>1. PICK n \in kept : pass' = [NoPass EXCEPT !.at = "paging", !.through = n]
    BY <1>2 DEF StartPass
  <2>2. n \in Nat /\ n <= Len(log) /\ log' = log
    BY <1>2, <2>1 DEF StartPass, CompactionTypeOK
  <2> QED
    BY <2>1, <2>2 DEF NoPass
<1>3. CASE ReadPage
  BY <1>3, PageStaysSound
<1>4. CASE DeleteObsolete
  <2>1. CASE pass.through = 0
    BY <1>4, <2>1, IdlePassSound DEF DeleteObsolete, NoPass, CompactionTypeOK
  <2>2. CASE pass.through # 0
    <3>1. pass' = [pass EXCEPT !.at = "paging", !.obsolete = {}] /\ log' = log
      BY <1>4, <2>2 DEF DeleteObsolete
    <3>2. /\ pass'.through = pass.through /\ pass'.thread = pass.thread
          /\ pass'.read = pass.read /\ pass'.newest = pass.newest
          /\ pass'.oldest = pass.oldest /\ pass'.obsolete = {}
      BY <3>1 DEF CompactionTypeOK
    <3> QED
      BY <3>1, <3>2 DEF Behind, Later
  <2> QED
    BY <2>1, <2>2
<1>5. CASE AbandonPass
  BY <1>5 DEF AbandonPass, NoPass, CompactionTypeOK
<1>6. CASE UNCHANGED <<log, pass>>
  BY <1>6 DEF Behind, Superseded, Later
<1>7. ASSUME \E r \in Reader : Fetch(r) \/ Apply(r) \/ Reconnect(r)
      PROVE  UNCHANGED <<log, pass>>
  BY <1>7 DEF Fetch, Apply, Reconnect
<1> QED
  BY <1>1, <1>2, <1>3, <1>4, <1>5, <1>6, <1>7 DEF CompactionNext, compactionVars

-----------------------------------------------------------------------------
(* The readers: each has seen all of the table up to its cursor.           *)

(* A reader that does nothing is not disturbed by the log or the pass.     *)
LEMMA RestingReaderSound ==
  ASSUME CompactionTypeOK, NEW r \in Reader, ReaderSound(r),
         client'[r] = client[r],
         Len(log') \in Nat, Len(log) <= Len(log'),
         \A s \in DOMAIN log : log'[s] = log[s],
         kept' \subseteq Nat, \A s \in kept' : s \in kept \/ Len(log) < s
  PROVE  ReaderSound(r)'
<1> DEFINE c == client[r]
<1>1. c \in ReaderState /\ kept \subseteq DOMAIN log /\ DOMAIN log = 1..Len(log)
  BY DEF CompactionTypeOK
<1>2. /\ c.cursor \in Nat /\ c.read \in Nat /\ Len(log) \in Nat
      /\ c.cursor <= c.read /\ c.read <= Len(log) /\ c.read <= Len(log')
  BY <1>1 DEF ReaderState, ReaderSound, CompactionTypeOK
<1>3. \A s \in kept' : s <= c.read => s \in kept /\ log'[s] = log[s]
  BY <1>1, <1>2
<1>4. ASSUME NEW s \in kept', s <= c.cursor PROVE s <= c.read
  <2>1. s \in Nat
    OBVIOUS
  <2> QED
    BY <1>2, <1>4, <2>1
<1>5. \A s \in 1..c.cursor : log'[s] = log[s]
  BY <1>1, <1>2
<1>6. \A s \in kept' : s <= c.cursor => Shows(r, s)'
  BY <1>3, <1>4 DEF ReaderSound, Shows
<1>7. \A s \in kept' : c.cursor < s /\ s <= c.read => s \in c.hand
  BY <1>3 DEF ReaderSound
<1>8. \A f \in Facet : \/ c.shown[f] = 0
                       \/ c.shown[f] \in 1..c.cursor /\ log'[c.shown[f]] \in f
  BY <1>5 DEF ReaderSound
<1>9. \A e \in Entity : \/ c.first[e] = 0
                        \/ c.first[e] \in 1..c.cursor /\ log'[c.first[e]] = e
  BY <1>5 DEF ReaderSound
<1>10. \A s \in c.hand : c.cursor < s /\ s <= c.read
  BY DEF ReaderSound
<1> QED
  BY <1>2, <1>6, <1>7, <1>8, <1>9, <1>10 DEF ReaderSound

(* The next event there is comes into the hand.                            *)
LEMMA FetchSound ==
  ASSUME CompactionTypeOK, NEW r \in Reader, ReaderSound(r), Fetch(r)
  PROVE  ReaderSound(r)'
<1>1. PICK s \in kept : /\ client[r].read < s
                        /\ \A n \in kept : client[r].read < n => s <= n
                        /\ client' = [client EXCEPT ![r] = Fetched(r, s)]
  BY DEF Fetch
<1>2. log' = log /\ kept' = kept
  BY DEF Fetch
<1>3. /\ client'[r].cursor = client[r].cursor
      /\ client'[r].read = s
      /\ client'[r].hand = client[r].hand \cup {s}
      /\ client'[r].shown = client[r].shown
      /\ client'[r].first = client[r].first
  BY <1>1, FetchedReader DEF CompactionTypeOK
<1>4. /\ client[r].cursor \in Nat /\ client[r].read \in Nat /\ s \in Nat
      /\ kept \subseteq Nat /\ client[r].hand \subseteq Nat /\ s <= Len(log)
  BY DEF CompactionTypeOK, ReaderState
<1>5. client[r].cursor <= client[r].read
  BY DEF ReaderSound
<1>6. client[r].cursor < s
  BY <1>1, <1>4, <1>5
<1>7. \A n \in client[r].hand : client[r].cursor < n /\ n <= s
  BY <1>1, <1>4 DEF ReaderSound
<1>8. \A n \in kept :
        client[r].cursor < n /\ n <= s => n \in client[r].hand \cup {s}
  BY <1>1, <1>4 DEF ReaderSound
<1>9. \A n \in kept : n <= client[r].cursor => Shows(r, n)'
  BY <1>2, <1>3 DEF ReaderSound, Shows
<1>10. /\ client[r].cursor <= s
       /\ \A f \in Facet : \/ client[r].shown[f] = 0
                           \/ /\ client[r].shown[f] \in 1..client[r].cursor
                              /\ log[client[r].shown[f]] \in f
       /\ \A e \in Entity : \/ client[r].first[e] = 0
                            \/ /\ client[r].first[e] \in 1..client[r].cursor
                               /\ log[client[r].first[e]] = e
  BY <1>4, <1>6 DEF ReaderSound
<1>11. /\ client'[r].cursor <= client'[r].read /\ client'[r].read <= Len(log)
       /\ \A n \in client'[r].hand : client'[r].cursor < n /\ n <= client'[r].read
  BY <1>3, <1>4, <1>6, <1>7, <1>10
<1>12. \A n \in kept :
         client'[r].cursor < n /\ n <= client'[r].read => n \in client'[r].hand
  BY <1>3, <1>8
<1> QED
  BY <1>2, <1>3, <1>9, <1>10, <1>11, <1>12 DEF ReaderSound

(* The oldest event in the hand is the next one of the table.              *)
LEMMA ApplySound ==
  ASSUME CompactionTypeOK, NEW r \in Reader, ReaderSound(r), Apply(r)
  PROVE  ReaderSound(r)'
<1>1. PICK s \in client[r].hand : /\ \A n \in client[r].hand : s <= n
                                  /\ client' = [client EXCEPT ![r] = Applied(r, s)]
  BY DEF Apply
<1>2. log' = log /\ kept' = kept
  BY DEF Apply
<1>3. /\ client'[r].cursor = s
      /\ client'[r].read = client[r].read
      /\ client'[r].hand = client[r].hand \ {s}
      /\ \A f \in Facet : client'[r].shown[f] =
                            IF log[s] \in f THEN s ELSE client[r].shown[f]
      /\ \A e \in Entity : client'[r].first[e] =
                             IF log[s] = e /\ client[r].first[e] = 0
                               THEN s ELSE client[r].first[e]
  BY <1>1, AppliedReader DEF CompactionTypeOK
<1>4. /\ client[r].cursor \in Nat /\ client[r].read \in Nat /\ s \in Nat
      /\ kept \subseteq Nat /\ client[r].hand \subseteq Nat /\ Len(log) \in Nat
      /\ \A n \in kept : 1 <= n
      /\ \A f \in Facet : client[r].shown[f] \in Nat
      /\ \A e \in Entity : client[r].first[e] \in Nat
  BY DEF CompactionTypeOK, ReaderState
<1>5. client[r].cursor < s /\ s <= client[r].read /\ client[r].read <= Len(log)
  BY DEF ReaderSound
<1>6. \A n \in client[r].hand \ {s} : s < n /\ n <= client[r].read
  BY <1>1, <1>4 DEF ReaderSound
<1>7. ASSUME NEW n \in kept, s < n, n <= client[r].read
      PROVE  n \in client[r].hand \ {s}
  <2>1. n \in Nat /\ client[r].cursor < n
    BY <1>4, <1>5, <1>7
  <2> QED
    BY <1>4, <1>7, <2>1 DEF ReaderSound
<1>8. ASSUME NEW n \in kept, n <= s
      PROVE  Shows(r, n)'
  <2>1. CASE n = s
    <3>1. \A f \in Facet : log[n] \in f => n <= client'[r].shown[f]
      BY <1>3, <1>4, <2>1
    <3>2. ASSUME NEW e \in Entity, log[n] = e
          PROVE  client'[r].first[e] \in 1..n
      BY <1>3, <1>4, <1>5, <2>1, <3>2 DEF ReaderSound
    <3> QED
      BY <1>2, <3>1, <3>2 DEF Shows
  <2>2. CASE n # s
    <3>1. n <= client[r].cursor
      BY <1>1, <1>4, <1>5, <1>8, <2>2 DEF ReaderSound
    <3>2. Shows(r, n)
      BY <3>1 DEF ReaderSound
    <3>3. \A f \in Facet : log[n] \in f => n <= client'[r].shown[f]
      BY <1>3, <1>4, <1>8, <3>2 DEF Shows
    <3>4. ASSUME NEW e \in Entity, log[n] = e
          PROVE  client'[r].first[e] \in 1..n
      BY <1>3, <1>4, <3>2, <3>4 DEF Shows
    <3> QED
      BY <1>2, <3>3, <3>4 DEF Shows
  <2> QED
    BY <2>1, <2>2
<1>9. \A f \in Facet : \/ client'[r].shown[f] = 0
                       \/ client'[r].shown[f] \in 1..s /\ log[client'[r].shown[f]] \in f
  BY <1>3, <1>4, <1>5 DEF ReaderSound
<1>10. \A e \in Entity : \/ client'[r].first[e] = 0
                         \/ client'[r].first[e] \in 1..s /\ log[client'[r].first[e]] = e
  BY <1>3, <1>4, <1>5 DEF ReaderSound
<1> QED
  BY <1>2, <1>3, <1>5, <1>6, <1>7, <1>8, <1>9, <1>10 DEF ReaderSound

(* A reader whose stream is lost goes back to what it has applied.         *)
LEMMA ReconnectSound ==
  ASSUME CompactionTypeOK, NEW r \in Reader, ReaderSound(r), Reconnect(r)
  PROVE  ReaderSound(r)'
<1>1. log' = log /\ kept' = kept
  BY DEF Reconnect
<1>2. client[r] \in ReaderState
  BY DEF CompactionTypeOK
<1>3. /\ client'[r].cursor = client[r].cursor
      /\ client'[r].read = client[r].cursor
      /\ client'[r].hand = {}
      /\ client'[r].shown = client[r].shown
      /\ client'[r].first = client[r].first
  BY <1>2 DEF Reconnect, ReaderState, CompactionTypeOK
<1>4. /\ client[r].cursor \in Nat /\ client[r].read \in Nat
      /\ Len(log) \in Nat /\ kept \subseteq Nat
  BY <1>2 DEF ReaderState, CompactionTypeOK
<1>5. /\ client[r].cursor <= client[r].cursor
      /\ client[r].cursor <= Len(log)
      /\ \A s \in kept : ~(client[r].cursor < s /\ s <= client[r].cursor)
  <2>1. client[r].cursor <= client[r].read /\ client[r].read <= Len(log)
    BY DEF ReaderSound
  <2>2. client[r].cursor <= client[r].cursor /\ client[r].cursor <= Len(log)
    BY <1>4, <2>1
  <2>3. ASSUME NEW s \in kept PROVE ~(client[r].cursor < s /\ s <= client[r].cursor)
    <3>1. s \in Nat
      BY <1>4
    <3> QED
      BY <1>4, <3>1
  <2> QED
    BY <2>2, <2>3
<1>6. \A s \in kept : s <= client[r].cursor => Shows(r, s)'
  BY <1>1, <1>3 DEF ReaderSound, Shows
<1> QED
  BY <1>1, <1>3, <1>5, <1>6 DEF ReaderSound

LEMMA ReadersStaySound ==
  ASSUME CompactionTypeOK, ReadersSound, [CompactionNext]_compactionVars
  PROVE  ReadersSound'
<1> SUFFICES ASSUME NEW q \in Reader PROVE ReaderSound(q)'
  BY DEF ReadersSound
<1>0. ReaderSound(q) /\ Len(log) \in Nat /\ kept \subseteq Nat
  BY DEF ReadersSound, CompactionTypeOK
<1>1. CASE CommitEvent
  <2>1. client' = client /\ kept' = kept \cup {Len(log) + 1}
    BY <1>1 DEF CommitEvent
  <2>2. /\ Len(log') = Len(log) + 1
        /\ \A s \in DOMAIN log : log'[s] = log[s]
    BY <1>1, LogGrows
  <2>3. Len(log) + 1 \in Nat /\ Len(log) < Len(log) + 1
    BY <1>0
  <2>4. kept' \subseteq Nat /\ \A s \in kept' : s \in kept \/ Len(log) < s
    BY <1>0, <2>1, <2>3
  <2> QED
    BY <1>0, <2>1, <2>2, <2>4, RestingReaderSound
<1>2. CASE UNCHANGED <<log, client>> /\ kept' \subseteq kept
  BY <1>0, <1>2, RestingReaderSound
<1>3. ASSUME StartPass \/ ReadPage \/ DeleteObsolete \/ AbandonPass
      PROVE  UNCHANGED <<log, client>> /\ kept' \subseteq kept
  BY <1>3 DEF StartPass, ReadPage, DeleteObsolete, AbandonPass
<1>4. ASSUME NEW r \in Reader, Fetch(r) \/ Apply(r) \/ Reconnect(r)
      PROVE  ReaderSound(q)'
  <2>1. CASE q = r
    BY <1>0, <1>4, <2>1, FetchSound, ApplySound, ReconnectSound
  <2>2. CASE q # r
    <3>1. client'[q] = client[q] /\ UNCHANGED <<log, kept>>
      BY <1>4, <2>2 DEF Fetch, Apply, Reconnect, CompactionTypeOK
    <3> QED
      BY <1>0, <3>1, RestingReaderSound
  <2> QED
    BY <2>1, <2>2
<1>5. CASE UNCHANGED compactionVars
  BY <1>2, <1>5 DEF compactionVars
<1> QED
  BY <1>1, <1>2, <1>3, <1>4, <1>5 DEF CompactionNext

-----------------------------------------------------------------------------
LEMMA CompactionStarts == CompactionInit => CompactionInv
<1> SUFFICES ASSUME CompactionInit PROVE CompactionInv
  OBVIOUS
<1> USE DEF CompactionInit
<1>1. CompactionTypeOK
  BY DEF CompactionTypeOK, NoPass, ReaderState
<1>2. TableSound
  BY DEF TableSound
<1>3. PassSound
  BY IdlePassSound DEF NoPass
<1>4. ReadersSound
  BY DEF ReadersSound, ReaderSound
<1> QED
  BY <1>1, <1>2, <1>3, <1>4 DEF CompactionInv

(* The inductive invariant of the compaction: what the table misses is     *)
(* superseded, the pass takes nothing else for obsolete, and no reader     *)
(* passes over an event of the table (ProjectionMaintenance.ts:243-343).   *)
THEOREM CompactionInvariant == CompactionSpec => []CompactionInv
<1>1. CompactionInv /\ [CompactionNext]_compactionVars => CompactionInv'
  BY CompactionTypesHold, TableStaysSound, PassStaysSound, ReadersStaySound
  DEF CompactionInv
<1> QED
  BY <1>1, CompactionStarts, PTL DEF CompactionSpec

(* The compaction keeps its types.                                         *)
THEOREM CompactionTypes == CompactionSpec => []CompactionTypeOK
<1>1. CompactionInv => CompactionTypeOK
  BY DEF CompactionInv
<1> QED
  BY <1>1, CompactionInvariant, PTL

-----------------------------------------------------------------------------
(* The latest event of a part of the thread, and the first event of an     *)
(* entity, are superseded by nothing.                                      *)
LEMMA LatestStays ==
  ASSUME NEW s \in DOMAIN log, NEW f \in Facet, log[s] \in f,
         ~Later(DOMAIN log, s, f)
  PROVE  ~Superseded(s)
<1> USE CompactionAssumption DEF Superseded, Later, Keyed, Kind
<1>1. CASE f = {Whole, ReadEvent}
  BY <1>1
<1>2. CASE f = Kind \ {ReadEvent}
  BY <1>2
<1>3. CASE \E l \in Link : f = {l, Whole, ReadEvent}
  BY <1>3
<1>4. CASE \E e \in Entity : f = {e}
  BY <1>4
<1> QED
  BY <1>1, <1>2, <1>3, <1>4 DEF Facet

LEMMA FirstStays ==
  ASSUME NEW s \in DOMAIN log, log[s] \in Entity,
         ~(\E n \in DOMAIN log : n < s /\ log[n] = log[s])
  PROVE  ~Superseded(s)
BY CompactionAssumption DEF Superseded

LEMMA InvariantImpliesAgreement == CompactionInv => ReplayAgrees
<1> SUFFICES ASSUME CompactionInv, NEW r \in Reader, NEW s \in DOMAIN log
             PROVE  /\ \A f \in Facet :
                         log[s] \in f /\ ~Later(DOMAIN log, s, f) =>
                           client[r].shown[f] = s \/ s \in Ahead(r)
                    /\ \A e \in Entity :
                         log[s] = e /\ ~(\E n \in DOMAIN log : n < s /\ log[n] = e) =>
                           \/ client[r].first[e] = s
                           \/ client[r].first[e] = 0 /\ s \in Ahead(r)
  BY DEF ReplayAgrees
<1> USE DEF CompactionInv
<1>1. /\ ReaderSound(r) /\ client[r] \in ReaderState
      /\ DOMAIN log = 1..Len(log) /\ Len(log) \in Nat /\ s \in Nat
  BY DEF ReadersSound, CompactionTypeOK
<1>2. /\ client[r].cursor \in Nat /\ client[r].read \in Nat
      /\ client[r].cursor <= Len(log)
      /\ \A f \in Facet : client[r].shown[f] \in Nat
      /\ \A e \in Entity : client[r].first[e] \in Nat
  BY <1>1 DEF ReaderSound, ReaderState
<1>3. ASSUME s \in kept
      PROVE  s \in Ahead(r) \/ s <= client[r].cursor
  BY <1>1, <1>2, <1>3 DEF ReaderSound, Ahead
<1>4. ASSUME NEW f \in Facet, log[s] \in f, ~Later(DOMAIN log, s, f)
      PROVE  client[r].shown[f] = s \/ s \in Ahead(r)
  <2>1. s \in kept
    BY <1>4, LatestStays DEF TableSound
  <2>2. CASE s <= client[r].cursor
    <3>1. s <= client[r].shown[f]
      BY <1>1, <1>4, <2>1, <2>2 DEF ReaderSound, Shows
    <3>2. client[r].shown[f] \in DOMAIN log /\ log[client[r].shown[f]] \in f
      BY <1>1, <1>2, <3>1 DEF ReaderSound
    <3>3. ~(s < client[r].shown[f])
      BY <1>4, <3>2 DEF Later
    <3> QED
      BY <1>1, <1>2, <3>1, <3>3
  <2> QED
    BY <1>3, <2>1, <2>2
<1>5. ASSUME log[s] \in Entity, ~(\E n \in DOMAIN log : n < s /\ log[n] = log[s])
      PROVE  \/ client[r].first[log[s]] = s
             \/ client[r].first[log[s]] = 0 /\ s \in Ahead(r)
  <2> DEFINE first == client[r].first[log[s]]
  <2>1. s \in kept
    BY <1>5, FirstStays DEF TableSound
  <2>2. CASE first = 0
    <3>1. ~(s <= client[r].cursor)
      BY <1>1, <1>5, <2>1, <2>2 DEF ReaderSound, Shows
    <3> QED
      BY <1>3, <2>1, <2>2, <3>1
  <2>3. CASE first # 0
    <3>1. first \in 1..client[r].cursor /\ log[first] = log[s]
      BY <1>1, <1>5, <2>3 DEF ReaderSound
    <3>2. first \in DOMAIN log /\ first \in Nat
      BY <1>1, <1>2, <3>1
    <3>3. ~(first < s)
      BY <1>5, <3>1, <3>2
    <3>4. s <= client[r].cursor
      BY <1>1, <1>2, <3>1, <3>3
    <3>5. first \in 1..s
      BY <1>1, <1>5, <2>1, <3>4 DEF ReaderSound, Shows
    <3> QED
      BY <1>1, <3>2, <3>3, <3>5
  <2> QED
    BY <2>2, <2>3
<1> QED
  BY <1>4, <1>5

(* However compaction, commands and streams interleave, a reader that goes *)
(* on will show of each part of the thread the latest state, and each      *)
(* entity in the place of its first event, for any kinds, any log and any  *)
(* size of a page (ProjectionMaintenance.ts:238, 338).                     *)
THEOREM CompactionAgrees == CompactionSpec => []ReplayAgrees
BY InvariantImpliesAgreement, CompactionInvariant, PTL
=============================================================================

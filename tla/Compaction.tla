----------------------------- MODULE Compaction -----------------------------
(***************************************************************************)
(* The compaction of one thread's events beside the clients that replay    *)
(* them (compactEventStore, orchestration-v2/ProjectionMaintenance.ts).    *)
(* A pass walks the event table backwards, page by page; it remembers what *)
(* newer events it has met, and deletes the events they supersede in a     *)
(* statement of its own, while commands append and streams read.           *)
(*                                                                         *)
(* An event is its kind: the entity or the pull request link it records,   *)
(* or one of the two groups of events that carry the whole thread.         *)
(***************************************************************************)
EXTENDS Integers, FiniteSets, Sequences

CONSTANTS
  Entity,        (* messages, nodes and turn items of no command           *)
  Link,          (* pull request links                                     *)
  Whole,         (* SUPERSEDABLE_THREAD_EVENT_TYPES                        *)
  ReadEvent,     (* READ_STATE_THREAD_EVENT_TYPES                          *)
  Reader,        (* clients and other readers of the log                   *)
  MaxEvents,     (* bound: events of the thread                            *)
  PageSize       (* COMPACTION_PAGE_SIZE                                   *)

VARIABLES
  log,           (* every event committed so far, its sequence is its place*)
  kept,          (* sequences in the table orchestration_events            *)
  pass,          (* the compaction pass                                    *)
  client         (* what each reader has read and shows                    *)

compactionVars == <<log, kept, pass, client>>

ASSUME CompactionAssumption ==
  /\ Entity \cap (Link \cup {Whole, ReadEvent}) = {}
  /\ Whole # ReadEvent

Keyed == Entity \cup Link
Kind == Keyed \cup {Whole, ReadEvent}

(* A part of the client's state is the set of kinds of events that carry   *)
(* it: the thread, the time of its last activity, which reading does not   *)
(* change, its links, its entities.                                        *)
Facet ==
  {{Whole, ReadEvent}, Kind \ {ReadEvent}}
    \cup {{l, Whole, ReadEvent} : l \in Link}
    \cup {{e} : e \in Entity}

(* retainedThreadIds, retainedReadStateThreadIds; of oldestCandidateByEntityKey *)
(* the keys ("newest") and the candidates that are not null ("oldest").    *)
NoPass ==
  [at |-> "idle", through |-> 0, thread |-> FALSE, read |-> FALSE, newest |-> {},
   oldest |-> [k \in Keyed |-> {}], obsolete |-> {}]

ReaderState ==
  [cursor : Nat, read : Nat, hand : SUBSET Nat, shown : [Facet -> Nat],
   first : [Entity -> Nat]]

CompactionTypeOK ==
  /\ log \in Seq(Kind)
  /\ kept \subseteq DOMAIN log
  /\ pass \in [at : {"idle", "paging", "deleting"}, through : Nat, thread : BOOLEAN,
               read : BOOLEAN, newest : SUBSET Keyed, oldest : [Keyed -> SUBSET Nat],
               obsolete : SUBSET Nat]
  /\ client \in [Reader -> ReaderState]

CompactionInit ==
  /\ log = <<>>
  /\ kept = {}
  /\ pass = NoPass
  /\ client = [r \in Reader |->
                 [cursor |-> 0, read |-> 0, hand |-> {}, shown |-> [f \in Facet |-> 0],
                  first |-> [e \in Entity |-> 0]]]

CommitEvent ==
  /\ Len(log) < MaxEvents
  /\ \E kind \in Kind : log' = Append(log, kind)
  /\ kept' = kept \cup {Len(log) + 1}
  /\ UNCHANGED <<pass, client>>

-----------------------------------------------------------------------------
(* The pass.                                                               *)

(* It goes back from the last event there is.                              *)
StartPass ==
  /\ pass.at = "idle"
  /\ \E n \in kept :
       /\ \A s \in kept : s <= n
       /\ pass' = [NoPass EXCEPT !.at = "paging", !.through = n]
  /\ UNCHANGED <<log, kept, client>>

Later(page, s, kinds) == \E n \in page : n > s /\ log[n] \in kinds

(* A newer event of the page, or of a newer page, carries the whole thread.*)
(* Read state is overtaken by both groups, the others by activity alone.   *)
Overtaken(page, s) ==
  \/ /\ log[s] \in Link \cup {Whole, ReadEvent}
     /\ pass.thread \/ Later(page, s, {Whole})
  \/ /\ log[s] = ReadEvent
     /\ pass.read \/ Later(page, s, {ReadEvent})

(* The events of a key that the page adds below its newest one.            *)
Found(page, k) == {s \in page : log[s] = k /\ ~Overtaken(page, s)}
BelowNewest(page, k) ==
  pass.oldest[k] \cup
    {s \in Found(page, k) : k \in pass.newest \/ Later(Found(page, k), s, {k})}

(* Faulty: only the newest event of a key stays.                           *)
NewestOnly(page) ==
  {s \in page : Overtaken(page, s)} \cup UNION {BelowNewest(page, k) : k \in Keyed}

(* All of them but the oldest are obsolete.                                *)
Obsolete(page) ==
  {s \in page : Overtaken(page, s)} \cup
    UNION {{s \in BelowNewest(page, k) : \E o \in BelowNewest(page, k) : o < s} :
             k \in Keyed}

(* The newest rows that are left, and where the next page begins.          *)
ReadPage ==
  LET rows == {s \in kept : s <= pass.through}
      page == {s \in rows : Cardinality({n \in rows : n >= s}) <= PageSize}
  IN  /\ pass.at = "paging"
      /\ \E through \in 0..pass.through :
           /\ \A s \in page : through < s
           /\ IF page = rows THEN through = 0 ELSE through + 1 \in page
           /\ pass' =
                [at |-> "deleting",
                 through |-> through,
                 thread |-> pass.thread \/ \E s \in page : log[s] = Whole,
                 read |-> pass.read \/ \E s \in page : log[s] = ReadEvent,
                 newest |-> pass.newest \cup {k \in Keyed : Found(page, k) # {}},
                 oldest |-> [k \in Keyed |->
                               {s \in BelowNewest(page, k) :
                                  \A o \in BelowNewest(page, k) : s <= o}],
                 obsolete |-> Obsolete(page)]
      /\ UNCHANGED <<log, kept, client>>

(* Nothing is locked between the page and the deletion, nor before the next*)
(* page.                                                                   *)
DeleteObsolete ==
  /\ pass.at = "deleting"
  /\ kept' = kept \ pass.obsolete
  /\ pass' = IF pass.through = 0
               THEN NoPass
               ELSE [pass EXCEPT !.at = "paging", !.obsolete = {}]
  /\ UNCHANGED <<log, client>>

(* A statement fails or the server stops: the next pass begins anew.       *)
AbandonPass ==
  /\ pass.at # "idle"
  /\ pass' = NoPass
  /\ UNCHANGED <<log, kept, client>>

-----------------------------------------------------------------------------
(* The readers.                                                            *)

(* The stream reads the next event there is.                               *)
Fetched(r, s) == [client[r] EXCEPT !.read = s, !.hand = @ \cup {s}]

Fetch(r) ==
  /\ \E s \in kept :
       /\ client[r].read < s
       /\ \A n \in kept : client[r].read < n => s <= n
       /\ client' = [client EXCEPT ![r] = Fetched(r, s)]
  /\ UNCHANGED <<log, kept, pass>>

(* An event replaces what it carries; an entity that is new is appended.   *)
Applied(r, s) ==
  [client[r] EXCEPT
     !.cursor = s,
     !.hand = @ \ {s},
     !.shown = [f \in Facet |-> IF log[s] \in f THEN s ELSE @[f]],
     !.first = [e \in Entity |-> IF log[s] = e /\ @[e] = 0 THEN s ELSE @[e]]]

Apply(r) ==
  /\ \E s \in client[r].hand :
       /\ \A n \in client[r].hand : s <= n
       /\ client' = [client EXCEPT ![r] = Applied(r, s)]
  /\ UNCHANGED <<log, kept, pass>>

(* The stream is lost, and resumed at the last event that was applied.     *)
Reconnect(r) ==
  /\ client[r].hand # {}
  /\ client' = [client EXCEPT ![r] = [@ EXCEPT !.read = client[r].cursor, !.hand = {}]]
  /\ UNCHANGED <<log, kept, pass>>

-----------------------------------------------------------------------------
CompactionNext ==
  \/ CommitEvent
  \/ StartPass
  \/ ReadPage
  \/ DeleteObsolete
  \/ AbandonPass
  \/ \E r \in Reader : Fetch(r) \/ Apply(r) \/ Reconnect(r)

CompactionSpec == CompactionInit /\ [][CompactionNext]_compactionVars

-----------------------------------------------------------------------------
(* What is still to come to a reader.                                      *)
Ahead(r) == client[r].hand \cup {s \in kept : client[r].read < s}

(* Whatever its cursor, a reader that goes on will show the same as one    *)
(* that saw every event: of each part of the thread the latest state, and  *)
(* each entity in the place of its first event                             *)
(* (ProjectionMaintenance.ts:238, 338).                                    *)
ReplayAgrees ==
  \A r \in Reader : \A s \in DOMAIN log :
    /\ \A f \in Facet :
         log[s] \in f /\ ~Later(DOMAIN log, s, f) =>
           client[r].shown[f] = s \/ s \in Ahead(r)
    /\ \A e \in Entity :
         log[s] = e /\ ~(\E n \in DOMAIN log : n < s /\ log[n] = e) =>
           client[r].first[e] = s \/ (client[r].first[e] = 0 /\ s \in Ahead(r))
=============================================================================

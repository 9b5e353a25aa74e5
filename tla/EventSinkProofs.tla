-------------------------- MODULE EventSinkProofs --------------------------
(***************************************************************************)
(* Proofs about EventSink for every set of writers, subscribers and topics *)
(* and for every bound of the log, of its transactions and of the budgets: *)
(* subscribers skip nothing and see nothing twice, a budget charges what   *)
(* its stream holds, and the sink implements the feed of EventFeed.        *)
(* The last section proves what its liveness rests on: writers do not wait *)
(* in a circle, and streams rest only when everything has been seen.       *)
(***************************************************************************)
EXTENDS EventSink, FiniteSetTheorems, TLAPS

Elements(s) == {s[i] : i \in DOMAIN s}

Ascending(s) == \A i, j \in DOMAIN s : i < j => s[i] < s[j]

Below(a, b) == \A m \in a, n \in b : m < n

-----------------------------------------------------------------------------
(* The inductive invariant.                                                *)

(* A writer holds the connection up to its commit and the lane from just   *)
(* before it to the end of the publication; a batch that is not published  *)
(* is the end of the log.                                                  *)
WriterInv ==
  /\ \A w \in Writer : connection = w <=> wpc[w] \in {"transaction", "waiting", "sealed"}
  /\ \A w \in Writer : lane = w <=> wpc[w] \in {"sealed", "committed", "announced"}
  /\ \A w \in Writer : wpc[w] \notin {"committed", "announced"} => batch[w] = <<>>
  /\ \A w \in Writer : /\ Len(batch[w]) <= Len(log)
                       /\ \A i \in DOMAIN batch[w] :
                            batch[w][i] = Len(log) - Len(batch[w]) + i

(* How far the log has been published to a subscriber.                     *)
Published(r) ==
  IF lane = NoWriter \/ (wpc[lane] = "announced" /\ r \notin AgentReader)
  THEN Len(log) ELSE Len(log) - Len(batch[lane])

(* A stream that has not started hands over nothing, one that has ended    *)
(* takes nothing more; a replay goes from the cursor to the mark.          *)
Positions(r) ==
  /\ cursor[r] <= Len(log) /\ through[r] <= Len(log)
  /\ phase[r] \in {"off", "failed"} => inbox[r] = <<>> /\ queue[r] = <<>>
  /\ phase[r] \in {"off", "subscribed"} => inflight[r] = <<>>
  /\ phase[r] = "subscribed" => through[r] = cursor[r] /\ pos[r] = cursor[r]
  /\ phase[r] = "replaying" => /\ cursor[r] <= pos[r] /\ pos[r] <= through[r]
                               /\ \A n \in Elements(inflight[r]) : n <= pos[r]
  /\ r \notin Bounded => queue[r] = <<>>

(* What is on its way is wanted, in order, and leaves nothing out.         *)
InflightInv(r) ==
  /\ Ascending(inflight[r])
  /\ \A n \in Elements(inflight[r]) :
       /\ cursor[r] < n /\ n <= Len(log) /\ Wanted(r, n)
       /\ \A m \in 1..n : Wanted(r, m) => m <= cursor[r] \/ m \in Elements(inflight[r])

(* What the replay has passed is with the subscriber or on its way to it.  *)
ReplayInv(r) ==
  phase[r] \in {"replaying", "live"} =>
    \A n \in 1..(IF phase[r] = "live" THEN through[r] ELSE pos[r]) :
      Wanted(r, n) => n <= cursor[r] \/ n \in Elements(inflight[r])

(* What was published since is with it, on its way, or waits.              *)
LiveInv(r) ==
  phase[r] \in {"replaying", "live"} =>
    \A n \in (through[r] + 1)..Published(r) :
      Wanted(r, n) => \/ n <= cursor[r]
                      \/ n \in Elements(inflight[r])
                      \/ n \in Elements(queue[r])
                      \/ n \in Elements(inbox[r])

(* What waits is in order and comes after what was handed over; beyond the *)
(* mark only what was published is handed over.                            *)
OrderInv(r) ==
  /\ phase[r] \in Attached =>
       \A n \in {cursor[r]} \cup Elements(inflight[r]) : n <= through[r] \/ n <= Published(r)
  /\ Ascending(queue[r]) /\ Ascending(inbox[r])
  /\ Below(Elements(queue[r]), Elements(inbox[r]))
  /\ \A n \in Elements(queue[r]) \cup Elements(inbox[r]) :
       /\ n \in 1..Published(r)
       /\ n > through[r] => /\ n > cursor[r]
                            /\ \A m \in Elements(inflight[r]) : m < n

BudgetInv(r) ==
  IF r \in Bounded
  THEN charged[r] = Len(queue[r]) + Len(inflight[r]) /\ charged[r] <= MaxItems
  ELSE charged[r] = 0

StreamInv(r) ==
  /\ Positions(r)
  /\ InflightInv(r)
  /\ ReplayInv(r)
  /\ LiveInv(r)
  /\ OrderInv(r)
  /\ BudgetInv(r)
  /\ seen[r] = {n \in 1..cursor[r] : Wanted(r, n)}

IInv ==
  /\ TypeOK
  /\ WriterInv
  /\ \A r \in Reader : StreamInv(r)

-----------------------------------------------------------------------------
(* Sets and sequences of numbers.                                          *)

LEMMA Apart ==
  ASSUME NEW S \in SUBSET Nat, NEW m \in S, NEW n \in S, ~(m < n)
  PROVE  n <= m /\ (~(n < m) => m = n)
<1>1. m \in Nat /\ n \in Nat
  OBVIOUS
<1>2. QED
  BY <1>1

Rank(n, numbers) == Cardinality({m \in numbers : m <= n})

UpTo(n, numbers) == {m \in numbers : m <= n}

(* The members of a set are ranked from 1 on, by their order.              *)
LEMMA Ranks ==
  ASSUME NEW S \in SUBSET Nat, IsFiniteSet(S)
  PROVE  /\ Cardinality(S) \in Nat
         /\ \A n \in S : Rank(n, S) \in 1..Cardinality(S)
         /\ \A m, n \in S : m < n <=> Rank(m, S) < Rank(n, S)
<1>1. \A n \in S : Rank(n, S) = Cardinality(UpTo(n, S))
  BY DEF Rank, UpTo
<1>2. Cardinality(S) \in Nat
  BY FS_CardinalityType
<1>3. ASSUME NEW n \in S
      PROVE  /\ IsFiniteSet(UpTo(n, S))
             /\ Rank(n, S) \in Nat /\ Rank(n, S) <= Cardinality(S)
             /\ Rank(n, S) # 0
  <2>1. UpTo(n, S) \in SUBSET S
    BY DEF UpTo
  <2>2. /\ IsFiniteSet(UpTo(n, S))
        /\ Cardinality(UpTo(n, S)) <= Cardinality(S)
    BY <2>1, FS_Subset
  <2>3. n \in UpTo(n, S)
    BY DEF UpTo
  <2>4. Cardinality(UpTo(n, S)) \in Nat /\ Cardinality(UpTo(n, S)) # 0
    BY <2>2, <2>3, FS_CardinalityType, FS_EmptySet
  <2>5. QED
    BY <1>1, <2>2, <2>4
<1>4. ASSUME NEW m \in S, NEW n \in S, m <= n
      PROVE  /\ Rank(m, S) <= Rank(n, S)
             /\ m # n => Rank(m, S) # Rank(n, S)
  <2>1. ASSUME NEW l \in S, l <= m PROVE l <= n /\ (m # n => l # n)
    <3>1. l \in Nat /\ m \in Nat /\ n \in Nat
      OBVIOUS
    <3>2. QED
      BY <1>4, <2>1, <3>1
  <2>2. /\ UpTo(m, S) \in SUBSET UpTo(n, S)
        /\ m # n => n \in UpTo(n, S) /\ n \notin UpTo(m, S)
    <3>1. n \in Nat /\ n <= n
      OBVIOUS
    <3>2. QED
      BY <2>1, <3>1 DEF UpTo
  <2>3. IsFiniteSet(UpTo(n, S))
    BY <1>3
  <2>4. /\ Cardinality(UpTo(m, S)) <= Cardinality(UpTo(n, S))
        /\ Cardinality(UpTo(n, S)) = Cardinality(UpTo(m, S)) => UpTo(n, S) = UpTo(m, S)
    BY <2>2, <2>3, FS_Subset
  <2>5. QED
    BY <1>1, <2>2, <2>4
<1>5. ASSUME NEW m \in S, NEW n \in S
      PROVE  m < n <=> Rank(m, S) < Rank(n, S)
  <2>1. m \in Nat /\ n \in Nat /\ Rank(m, S) \in Nat /\ Rank(n, S) \in Nat
    BY <1>3
  <2>2. m < n => Rank(m, S) < Rank(n, S)
    BY <1>4, <2>1
  <2>3. n <= m => Rank(n, S) <= Rank(m, S)
    BY <1>4
  <2>4. QED
    BY <2>1, <2>2, <2>3
<1>6. QED
  BY <1>2, <1>3, <1>5

(* Every rank belongs to one member.                                       *)
LEMMA RanksTaken ==
  ASSUME NEW S \in SUBSET Nat, IsFiniteSet(S), NEW k \in 1..Cardinality(S)
  PROVE  \E n \in S : Rank(n, S) = k
<1> DEFINE N == Cardinality(S)
           f == [n \in S |-> Rank(n, S)]
<1>1. N \in Nat /\ f \in [S -> 1..N]
  BY Ranks
<1>2. ASSUME NEW m \in S, NEW n \in S, f[m] = f[n] PROVE m = n
  <2>1. Rank(m, S) = Rank(n, S) /\ Rank(m, S) \in 1..N
    BY <1>2, Ranks
  <2>2. ~(m < n) /\ ~(n < m)
    BY <2>1, Ranks
  <2>3. m \in Nat /\ n \in Nat
    OBVIOUS
  <2>4. QED
    BY <2>2, <2>3
<1>3. f \in Injection(S, 1..N)
  BY <1>1, <1>2 DEF Injection, IsInjective
<1>4. IsFiniteSet(1..N) /\ Cardinality(1..N) = N
  BY <1>1, FS_Interval
<1>5. f \in Surjection(S, 1..N)
  BY <1>3, <1>4, FS_Injection
<1>6. QED
  BY <1>5 DEF Surjection

(* A bounded set of numbers has a greatest one.                            *)
LEMMA GreatestNumber ==
  ASSUME NEW N \in Nat, NEW S, S \subseteq 0..N, S # {}
  PROVE  \E n \in S : \A m \in S : m <= n
<1>1. S \in SUBSET (0..N) /\ S \in SUBSET Nat
  OBVIOUS
<1>2. IsFiniteSet(0..N) /\ IsFiniteSet(S)
  <2>1. IsFiniteSet(0..N)
    BY FS_Interval
  <2>2. QED
    BY <1>1, <2>1, FS_Subset
<1>3. Cardinality(S) \in 1..Cardinality(S)
  BY <1>2, FS_CardinalityType, FS_EmptySet
<1>4. PICK n \in S : Rank(n, S) = Cardinality(S)
  BY <1>1, <1>2, <1>3, RanksTaken
<1>5. UpTo(n, S) \in SUBSET S /\ Cardinality(UpTo(n, S)) = Cardinality(S)
  BY <1>4 DEF UpTo, Rank
<1>6. UpTo(n, S) = S
  BY <1>2, <1>5, FS_Subset
<1>7. QED
  BY <1>6 DEF UpTo

LEMMA SeqOf ==
  ASSUME NEW X, NEW n \in Nat, NEW s \in [1..n -> X]
  PROVE  s \in Seq(X) /\ Len(s) = n /\ DOMAIN s = 1..n
OBVIOUS

(* InOrder lists exactly the members of a finite set, ascending.           *)
LEMMA InOrderLists ==
  ASSUME NEW S \in SUBSET Nat, IsFiniteSet(S)
  PROVE  /\ InOrder(S) \in Seq(S)
         /\ Len(InOrder(S)) = Cardinality(S)
         /\ Elements(InOrder(S)) = S
         /\ Ascending(InOrder(S))
<1> DEFINE N == Cardinality(S)
           s == InOrder(S)
<1>1. N \in Nat
  BY Ranks
<1>2. DOMAIN s = 1..N
  BY DEF InOrder
<1>3. ASSUME NEW k \in 1..N PROVE s[k] \in S /\ Rank(s[k], S) = k
  <2>1. \E n \in S : Cardinality({m \in S : m <= n}) = k
    BY RanksTaken DEF Rank
  <2>2. s[k] = CHOOSE n \in S : Cardinality({m \in S : m <= n}) = k
    BY Zenon DEF InOrder
  <2>3. s[k] \in S /\ Cardinality({m \in S : m <= s[k]}) = k
    BY <2>1, <2>2, Zenon
  <2>4. QED
    BY <2>3 DEF Rank
<1>4. s = [k \in 1..N |-> s[k]]
  BY DEF InOrder
<1>5. s \in [1..N -> S]
  BY <1>3, <1>4
<1>6. s \in Seq(S) /\ Len(s) = N
  BY <1>1, <1>5
<1>7. ASSUME NEW n \in S PROVE \E k \in 1..N : s[k] = n
  <2>1. Rank(n, S) \in 1..N
    BY Ranks
  <2>2. s[Rank(n, S)] \in S /\ Rank(s[Rank(n, S)], S) = Rank(n, S)
    BY <1>3, <2>1
  <2>3. \A l \in S : Rank(l, S) = Rank(n, S) => l = n
    <3>1. TAKE l \in S
    <3>2. HAVE Rank(l, S) = Rank(n, S)
    <3>3. ~(l < n) /\ ~(n < l)
      BY <2>1, <3>2, Ranks
    <3>4. QED
      BY <3>3, Apart
  <2>4. QED
    BY <2>1, <2>2, <2>3
<1>8. Elements(s) = S
  BY <1>2, <1>3, <1>7 DEF Elements
<1>9. ASSUME NEW i \in DOMAIN s, NEW j \in DOMAIN s, i < j PROVE s[i] < s[j]
  <2>1. Rank(s[i], S) = i /\ Rank(s[j], S) = j /\ s[i] \in S /\ s[j] \in S
    BY <1>2, <1>3
  <2>2. Rank(s[i], S) < Rank(s[j], S)
    BY <1>9, <2>1
  <2>3. QED
    BY <2>1, <2>2, Ranks
<1>10. QED
  BY <1>6, <1>8, <1>9 DEF Ascending

(* Only keeps the elements that are in the set, in their order.            *)
LEMMA OnlyKeeps ==
  ASSUME NEW X, NEW e \in Seq(X), NEW S
  PROVE  /\ Only(e, S) \in Seq(X)
         /\ Len(Only(e, S)) <= Len(e)
         /\ Elements(Only(e, S)) = Elements(e) \cap S
         /\ Ascending(e) => Ascending(Only(e, S))
<1> DEFINE I == {i \in DOMAIN e : e[i] \in S}
           kept == InOrder(I)
           t == Only(e, S)
<1>1. DOMAIN e = 1..Len(e) /\ Len(e) \in Nat
  OBVIOUS
<1>2. /\ IsFiniteSet(1..Len(e)) /\ Cardinality(1..Len(e)) = Len(e)
      /\ I \in SUBSET (1..Len(e)) /\ I \in SUBSET Nat
  BY <1>1, FS_Interval
<1>3. IsFiniteSet(I) /\ Cardinality(I) \in Nat /\ Cardinality(I) <= Len(e)
  BY <1>2, FS_Subset, FS_CardinalityType
<1>4. /\ kept \in Seq(I) /\ Len(kept) = Cardinality(I)
      /\ Elements(kept) = I /\ Ascending(kept)
  BY <1>2, <1>3, InOrderLists
<1>5. DOMAIN kept = 1..Len(kept)
  BY <1>4
<1>6. t = [k \in 1..Len(kept) |-> e[kept[k]]]
  BY <1>5 DEF Only
<1>7. \A k \in 1..Len(kept) : kept[k] \in I
  BY <1>4
<1>8. \A i \in I : e[i] \in X
  BY <1>1
<1>9. t \in [1..Len(kept) -> X]
  BY <1>6, <1>7, <1>8
<1>10. t \in Seq(X) /\ Len(t) = Len(kept) /\ DOMAIN t = 1..Len(kept)
  BY <1>3, <1>4, <1>9, SeqOf
<1>11. Elements(t) \subseteq Elements(e) \cap S
  BY <1>6, <1>7, <1>10 DEF Elements
<1>12. ASSUME NEW i \in I PROVE e[i] \in Elements(t)
  <2>1. PICK k \in DOMAIN kept : kept[k] = i
    BY <1>4 DEF Elements
  <2>2. QED
    BY <1>5, <1>6, <1>10, <2>1 DEF Elements
<1>13. Elements(e) \cap S \subseteq Elements(t)
  BY <1>12 DEF Elements
<1>14. ASSUME Ascending(e), NEW i \in DOMAIN t, NEW j \in DOMAIN t, i < j
       PROVE  t[i] < t[j]
  <2>1. kept[i] < kept[j]
    BY <1>4, <1>5, <1>10, <1>14 DEF Ascending
  <2>2. e[kept[i]] < e[kept[j]]
    BY <1>7, <1>10, <1>14, <2>1 DEF Ascending
  <2>3. QED
    BY <1>6, <1>10, <2>2
<1>15. Ascending(e) => Ascending(t)
  BY <1>14 DEF Ascending
<1>16. QED
  BY <1>3, <1>4, <1>10, <1>11, <1>13, <1>15
(* One list behind another.                                                *)
LEMMA ConcatLists ==
  ASSUME NEW s \in Seq(Nat), NEW t \in Seq(Nat)
  PROVE  /\ s \o t \in Seq(Nat)
         /\ Elements(s \o t) = Elements(s) \cup Elements(t)
         /\ Ascending(s) /\ Ascending(t) /\ Below(Elements(s), Elements(t))
              => Ascending(s \o t)
<1>1. /\ s \o t \in Seq(Nat) /\ Len(s \o t) = Len(s) + Len(t)
      /\ Len(s) \in Nat /\ Len(t) \in Nat
      /\ DOMAIN s = 1..Len(s) /\ DOMAIN t = 1..Len(t)
      /\ DOMAIN (s \o t) = 1..(Len(s) + Len(t))
  OBVIOUS
<1>2. ASSUME NEW i \in 1..(Len(s) + Len(t))
      PROVE  (s \o t)[i] = IF i <= Len(s) THEN s[i] ELSE t[i - Len(s)]
  OBVIOUS
<1>3. Elements(s \o t) \subseteq Elements(s) \cup Elements(t)
  BY <1>1, <1>2 DEF Elements
<1>4. ASSUME NEW i \in 1..Len(s) PROVE s[i] \in Elements(s \o t)
  <2>1. i \in 1..(Len(s) + Len(t)) /\ i <= Len(s)
    BY <1>1
  <2>2. QED
    BY <1>1, <1>2, <2>1 DEF Elements
<1>5. ASSUME NEW i \in 1..Len(t) PROVE t[i] \in Elements(s \o t)
  <2>1. /\ i + Len(s) \in 1..(Len(s) + Len(t)) /\ ~(i + Len(s) <= Len(s))
        /\ (i + Len(s)) - Len(s) = i
    BY <1>1
  <2>2. (s \o t)[i + Len(s)] = t[i]
    BY <1>2, <2>1
  <2>3. QED
    BY <1>1, <2>1, <2>2 DEF Elements
<1>6. Elements(s) \cup Elements(t) \subseteq Elements(s \o t)
  BY <1>1, <1>4, <1>5 DEF Elements
<1>7. ASSUME Ascending(s), Ascending(t), Below(Elements(s), Elements(t)),
             NEW i \in 1..(Len(s) + Len(t)), NEW j \in 1..(Len(s) + Len(t)), i < j
      PROVE  (s \o t)[i] < (s \o t)[j]
  <2>1. CASE j <= Len(s)
    <3>1. i \in DOMAIN s /\ j \in DOMAIN s /\ i <= Len(s)
      BY <1>1, <1>7, <2>1
    <3>2. s[i] < s[j]
      BY <1>7, <3>1 DEF Ascending
    <3>3. QED
      BY <1>2, <2>1, <3>1, <3>2
  <2>2. CASE i <= Len(s) /\ ~(j <= Len(s))
    <3>1. i \in 1..Len(s) /\ j - Len(s) \in 1..Len(t)
      BY <1>1, <2>2
    <3>2. s[i] \in Elements(s) /\ t[j - Len(s)] \in Elements(t)
      BY <1>1, <3>1 DEF Elements
    <3>3. s[i] < t[j - Len(s)]
      BY <1>7, <3>2 DEF Below
    <3>4. QED
      BY <1>2, <2>2, <3>3
  <2>3. CASE ~(i <= Len(s))
    <3>1. /\ i - Len(s) \in 1..Len(t) /\ j - Len(s) \in 1..Len(t)
          /\ i - Len(s) < j - Len(s) /\ ~(j <= Len(s))
      BY <1>1, <1>7, <2>3
    <3>2. t[i - Len(s)] < t[j - Len(s)]
      BY <1>1, <1>7, <3>1 DEF Ascending
    <3>3. QED
      BY <1>2, <2>3, <3>1, <3>2
  <2>4. QED
    BY <1>1, <2>1, <2>2, <2>3
<1>8. QED
  BY <1>1, <1>3, <1>6, <1>7 DEF Ascending

(* A list without its first element.                                       *)
LEMMA TailLists ==
  ASSUME NEW s \in Seq(Nat), s # <<>>
  PROVE  /\ Head(s) \in Elements(s)
         /\ Elements(s) = {Head(s)} \cup Elements(Tail(s))
         /\ Ascending(s) => /\ Ascending(Tail(s))
                            /\ Below({Head(s)}, Elements(Tail(s)))
<1>1. /\ Len(s) \in Nat /\ Len(s) # 0 /\ DOMAIN s = 1..Len(s)
      /\ Len(Tail(s)) = Len(s) - 1 /\ DOMAIN Tail(s) = 1..(Len(s) - 1)
      /\ Head(s) = s[1] /\ 1 \in DOMAIN s
      /\ \A i \in 1..(Len(s) - 1) : Tail(s)[i] = s[i + 1]
  OBVIOUS
<1>2. ASSUME NEW i \in 1..Len(s)
      PROVE  s[i] = Head(s) \/ s[i] \in Elements(Tail(s))
  <2>1. CASE i = 1
    BY <1>1, <2>1
  <2>2. CASE i # 1
    <3>1. i - 1 \in 1..(Len(s) - 1) /\ (i - 1) + 1 = i
      BY <1>1, <2>2
    <3>2. QED
      BY <1>1, <3>1 DEF Elements
  <2>3. QED
    BY <2>1, <2>2
<1>3. ASSUME NEW i \in 1..(Len(s) - 1)
      PROVE  i + 1 \in 1..Len(s) /\ 1 < i + 1 /\ Tail(s)[i] = s[i + 1]
  BY <1>1
<1>4. Elements(s) = {Head(s)} \cup Elements(Tail(s))
  <2>1. Elements(s) \subseteq {Head(s)} \cup Elements(Tail(s))
    BY <1>1, <1>2 DEF Elements
  <2>2. Head(s) \in Elements(s)
    BY <1>1 DEF Elements
  <2>3. Elements(Tail(s)) \subseteq Elements(s)
    BY <1>1, <1>3 DEF Elements
  <2>4. QED
    BY <2>1, <2>2, <2>3
<1>5. ASSUME Ascending(s), NEW i \in 1..(Len(s) - 1), NEW j \in 1..(Len(s) - 1), i < j
      PROVE  Tail(s)[i] < Tail(s)[j]
  <2>1. i + 1 < j + 1 /\ i + 1 \in DOMAIN s /\ j + 1 \in DOMAIN s
    BY <1>1, <1>3, <1>5
  <2>2. s[i + 1] < s[j + 1]
    BY <1>5, <2>1 DEF Ascending
  <2>3. QED
    BY <1>3, <2>2
<1>6. ASSUME Ascending(s), NEW i \in 1..(Len(s) - 1)
      PROVE  Head(s) < Tail(s)[i]
  BY <1>1, <1>3, <1>6 DEF Ascending
<1>7. QED
  BY <1>1, <1>4, <1>5, <1>6 DEF Ascending, Below, Elements

(* A list with one more element.                                           *)
LEMMA AppendLists ==
  ASSUME NEW s \in Seq(Nat), NEW n \in Nat
  PROVE  /\ Elements(Append(s, n)) = Elements(s) \cup {n}
         /\ Ascending(s) /\ Below(Elements(s), {n}) => Ascending(Append(s, n))
<1>1. /\ Len(s) \in Nat /\ DOMAIN s = 1..Len(s)
      /\ DOMAIN Append(s, n) = 1..(Len(s) + 1)
      /\ \A i \in 1..Len(s) : Append(s, n)[i] = s[i] /\ s[i] \in Nat
      /\ Append(s, n)[Len(s) + 1] = n
  OBVIOUS
<1>2. /\ Len(s) + 1 \in 1..(Len(s) + 1)
      /\ \A i \in 1..Len(s) : i \in 1..(Len(s) + 1)
      /\ \A i \in 1..(Len(s) + 1) : i \in 1..Len(s) \/ i = Len(s) + 1
      /\ \A i, j \in 1..(Len(s) + 1) : i < j => i \in 1..Len(s)
  BY <1>1
<1>3. Elements(Append(s, n)) = Elements(s) \cup {n}
  BY <1>1, <1>2 DEF Elements
<1>4. ASSUME Ascending(s), Below(Elements(s), {n}),
             NEW i \in 1..(Len(s) + 1), NEW j \in 1..(Len(s) + 1), i < j
      PROVE  Append(s, n)[i] < Append(s, n)[j]
  <2>1. i \in 1..Len(s) /\ Append(s, n)[i] = s[i]
    BY <1>1, <1>2, <1>4
  <2>2. CASE j \in 1..Len(s)
    BY <1>1, <1>4, <2>1, <2>2 DEF Ascending
  <2>3. CASE j = Len(s) + 1
    <3>1. s[i] \in Elements(s)
      BY <1>1, <2>1 DEF Elements
    <3>2. QED
      BY <1>1, <1>4, <2>1, <2>3, <3>1 DEF Below
  <2>4. QED
    BY <1>2, <2>2, <2>3
<1>5. QED
  BY <1>1, <1>3, <1>4 DEF Ascending

LEMMA EmptyLists ==
  /\ Len(<<>>) = 0 /\ DOMAIN <<>> = {}
  /\ Elements(<<>>) = {} /\ Ascending(<<>>)
  /\ \A X : <<>> \in Seq(X)
  /\ \A X : \A s \in Seq(X) : s # <<>> => Elements(s) # {} /\ Len(s) # 0
<1>1. /\ Len(<<>>) = 0 /\ DOMAIN <<>> = {}
      /\ Elements(<<>>) = {} /\ Ascending(<<>>)
  BY DEF Elements, Ascending
<1>2. ASSUME NEW X, NEW s \in Seq(X), s # <<>>
      PROVE  Elements(s) # {} /\ Len(s) # 0
  <2>1. Len(s) # 0 /\ 1 \in DOMAIN s
    BY <1>2
  <2>2. QED
    BY <2>1 DEF Elements
<1>3. \A X : <<>> \in Seq(X)
  OBVIOUS
<1>4. QED
  BY <1>1, <1>2, <1>3

-----------------------------------------------------------------------------
(* What a step leaves alone.                                               *)

LEMMA ElementsOf ==
  ASSUME NEW X, NEW s \in Seq(X)
  PROVE  Elements(s) \subseteq X
BY DEF Elements

(* The numbers of a stream.                                                *)
LEMMA StreamTypes ==
  ASSUME TypeOK, NEW r \in Reader
  PROVE  /\ Len(log) \in Nat /\ DOMAIN log = 1..Len(log) /\ Len(log) <= MaxEvents
         /\ Sequence \subseteq Nat
         /\ cursor[r] \in Nat /\ through[r] \in Nat /\ pos[r] \in Nat
         /\ cursor[r] \in 0..MaxEvents /\ through[r] \in 0..MaxEvents
         /\ pos[r] \in 0..MaxEvents
         /\ inflight[r] \in Seq(Sequence) /\ Elements(inflight[r]) \subseteq Nat
         /\ queue[r] \in Seq(Sequence) /\ Elements(queue[r]) \subseteq Nat
         /\ inbox[r] \in Seq(Sequence) /\ Elements(inbox[r]) \subseteq Nat
         /\ charged[r] \in Nat /\ seen[r] \subseteq Sequence
<1>1. MaxEvents \in Nat /\ Sequence \subseteq Nat /\ 0..MaxEvents \subseteq Nat
  BY ConstantsAssumption DEF Sequence
<1>2. log \in Seq(Topic) /\ Len(log) <= MaxEvents
  BY DEF TypeOK
<1>3. cursor[r] \in 0..MaxEvents /\ through[r] \in 0..MaxEvents /\ pos[r] \in 0..MaxEvents
  BY DEF TypeOK
<1>4. /\ inflight[r] \in Seq(Sequence) /\ queue[r] \in Seq(Sequence)
      /\ inbox[r] \in Seq(Sequence) /\ charged[r] \in Nat /\ seen[r] \subseteq Sequence
  BY DEF TypeOK
<1>5. /\ Elements(inflight[r]) \subseteq Sequence /\ Elements(queue[r]) \subseteq Sequence
      /\ Elements(inbox[r]) \subseteq Sequence
  BY <1>4, ElementsOf
<1>6. Len(log) \in Nat /\ DOMAIN log = 1..Len(log)
  BY <1>2
<1>7. QED
  BY <1>1, <1>2, <1>3, <1>4, <1>5, <1>6

LEMMA PublishedPart ==
  ASSUME TypeOK, WriterInv, NEW r \in Reader
  PROVE  Published(r) \in Nat /\ Published(r) <= Len(log)
<1>1. CASE lane = NoWriter
  BY <1>1 DEF Published, TypeOK
<1>2. CASE lane \in Writer
  <2>1. Len(batch[lane]) \in Nat /\ Len(batch[lane]) <= Len(log) /\ Len(log) \in Nat
    BY <1>2 DEF TypeOK, WriterInv
  <2>2. QED
    BY <2>1 DEF Published
<1>3. QED
  BY <1>1, <1>2 DEF TypeOK

SameStream(r) ==
  /\ phase'[r] = phase[r] /\ queue'[r] = queue[r] /\ charged'[r] = charged[r]
  /\ through'[r] = through[r] /\ pos'[r] = pos[r] /\ inflight'[r] = inflight[r]
  /\ cursor'[r] = cursor[r] /\ seen'[r] = seen[r]

LogGrows ==
  /\ Len(log) <= Len(log')
  /\ \A n \in 1..Len(log) : log'[n] = log[n]

(* A stream nobody touches, as the log grows but nothing is published.     *)
LEMMA StreamFrame ==
  ASSUME TypeOK, TypeOK', WriterInv, NEW r \in Reader, StreamInv(r),
         LogGrows, Published(r)' = Published(r),
         SameStream(r), inbox'[r] = inbox[r]
  PROVE  StreamInv(r)'
<1>1. /\ Len(log) \in Nat /\ Len(log') \in Nat /\ Len(log) <= Len(log')
      /\ Published(r) \in Nat /\ Published(r) <= Len(log)
      /\ cursor[r] \in Nat /\ cursor[r] <= Len(log)
      /\ through[r] \in Nat /\ through[r] <= Len(log)
      /\ pos[r] \in Nat
  <2>1. Len(log') \in Nat
    BY DEF TypeOK
  <2>2. Len(log) \in Nat /\ cursor[r] \in Nat /\ through[r] \in Nat /\ pos[r] \in Nat
    BY StreamTypes
  <2>3. cursor[r] <= Len(log) /\ through[r] <= Len(log)
    BY DEF StreamInv, Positions
  <2>4. Published(r) \in Nat /\ Published(r) <= Len(log)
    BY PublishedPart
  <2>5. QED
    BY <2>1, <2>2, <2>3, <2>4 DEF LogGrows
<1>2. \A n \in 1..Len(log) : Wanted(r, n)' <=> Wanted(r, n)
  BY DEF Wanted, WantsTopic, LogGrows
<1>3. Elements(inflight[r]) \subseteq Nat
  BY StreamTypes
<1>4. Positions(r)'
  BY <1>1 DEF StreamInv, Positions, SameStream
<1>5. InflightInv(r)'
  <2>1. inflight'[r] = inflight[r] /\ cursor'[r] = cursor[r]
    BY DEF SameStream
  <2>2. ASSUME NEW n \in Elements(inflight[r])
        PROVE  /\ cursor[r] < n /\ n <= Len(log') /\ Wanted(r, n)'
               /\ \A m \in 1..n : Wanted(r, m)' => m <= cursor[r] \/ m \in Elements(inflight[r])
    <3>1. n \in Nat /\ cursor[r] < n /\ n <= Len(log) /\ Wanted(r, n)
      BY <1>3 DEF StreamInv, InflightInv
    <3>2. n \in 1..Len(log) /\ n <= Len(log') /\ \A m \in 1..n : m \in 1..Len(log)
      BY <1>1, <3>1
    <3>3. \A m \in 1..n : Wanted(r, m) => m <= cursor[r] \/ m \in Elements(inflight[r])
      BY DEF StreamInv, InflightInv
    <3>4. QED
      BY <1>2, <3>1, <3>2, <3>3
  <2>3. Ascending(inflight[r])
    BY DEF StreamInv, InflightInv
  <2>4. QED
    BY <2>1, <2>2, <2>3 DEF InflightInv
<1>6. ReplayInv(r)'
  BY <1>1, <1>2 DEF StreamInv, ReplayInv, Positions, SameStream
<1>7. LiveInv(r)'
  <2>1. \A n \in (through[r] + 1)..Published(r) : Wanted(r, n)' <=> Wanted(r, n)
    BY <1>1, <1>2
  <2>2. QED
    BY <1>1, <2>1 DEF StreamInv, LiveInv, SameStream
<1>8. OrderInv(r)' /\ BudgetInv(r)'
  BY DEF StreamInv, OrderInv, BudgetInv, SameStream
<1>9. seen'[r] = {n \in 1..cursor'[r] : Wanted(r, n)'}
  BY <1>1, <1>2 DEF StreamInv, SameStream
<1>10. QED
  BY <1>4, <1>5, <1>6, <1>7, <1>8, <1>9 DEF StreamInv
(* A stream that is sent what was not published to it yet.                 *)
LEMMA StreamAnnounced ==
  ASSUME TypeOK, TypeOK', WriterInv, WriterInv', NEW r \in Reader, StreamInv(r),
         log' = log, SameStream(r),
         Published(r)' \in Nat, Published(r) <= Published(r)', Published(r)' <= Len(log),
         NEW e \in Seq(Nat), Ascending(e),
         Elements(e) \subseteq (Published(r) + 1)..Published(r)',
         \A n \in (Published(r) + 1)..Published(r)' : Wanted(r, n) => n \in Elements(e),
         inbox'[r] = IF phase[r] \in Attached THEN inbox[r] \o e ELSE inbox[r]
  PROVE  StreamInv(r)'
<1> DEFINE P == Published(r)
           Q == Published(r)'
<1>1. /\ Len(log) \in Nat
      /\ P \in Nat /\ Q \in Nat /\ P <= Q /\ Q <= Len(log)
      /\ cursor[r] \in Nat /\ cursor[r] <= Len(log)
      /\ through[r] \in Nat /\ through[r] <= Len(log)
  <2>1. Len(log) \in Nat /\ cursor[r] \in Nat /\ through[r] \in Nat /\ pos[r] \in Nat
    BY StreamTypes
  <2>2. cursor[r] <= Len(log) /\ through[r] <= Len(log)
    BY DEF StreamInv, Positions
  <2>3. P \in Nat /\ P <= Len(log)
    BY PublishedPart
  <2>4. QED
    BY <2>1, <2>2, <2>3
<1>2. \A n : Wanted(r, n)' <=> Wanted(r, n)
  BY DEF Wanted, WantsTopic
<1>3. /\ inbox[r] \in Seq(Nat) /\ Elements(inbox[r]) \subseteq Nat
      /\ Elements(queue[r]) \subseteq Nat /\ Elements(inflight[r]) \subseteq Nat
  BY StreamTypes
<1>4. phase[r] \in Attached =>
        /\ Elements(inbox[r])' = Elements(inbox[r]) \cup Elements(e)
        /\ Ascending(inbox'[r])
  <2>1. \A n \in Elements(inbox[r]) : n <= P
    BY <1>1 DEF StreamInv, OrderInv
  <2>2. Below(Elements(inbox[r]), Elements(e))
    BY <1>1, <1>3, <2>1 DEF Below
  <2>3. Ascending(inbox[r])
    BY DEF StreamInv, OrderInv
  <2>4. QED
    BY <1>3, <2>2, <2>3, ConcatLists
<1>5. phase[r] \notin Attached => phase[r] \in {"off", "failed"}
  BY DEF Attached, TypeOK, Phase
<1>6. Positions(r)'
  BY <1>5 DEF StreamInv, Positions, SameStream, Attached
<1>7. InflightInv(r)' /\ ReplayInv(r)' /\ BudgetInv(r)'
  BY <1>2 DEF StreamInv, InflightInv, ReplayInv, BudgetInv, SameStream
<1>8. LiveInv(r)'
  <2>1. ASSUME phase[r] \in {"replaying", "live"}, NEW n \in (through[r] + 1)..Q, Wanted(r, n)
        PROVE  \/ n <= cursor[r]
               \/ n \in Elements(inflight[r])
               \/ n \in Elements(queue[r])
               \/ n \in Elements(inbox[r])'
    <3>1. phase[r] \in Attached
      BY <2>1 DEF Attached
    <3>2. CASE n <= P
      <4>1. n \in (through[r] + 1)..P
        BY <1>1, <3>2
      <4>2. QED
        BY <1>4, <2>1, <3>1, <4>1 DEF StreamInv, LiveInv
    <3>3. CASE ~(n <= P)
      <4>1. n \in (P + 1)..Q
        BY <1>1, <3>3
      <4>2. n \in Elements(e)
        BY <2>1, <4>1
      <4>3. QED
        BY <1>4, <3>1, <4>2
    <3>4. QED
      BY <3>2, <3>3
  <2>2. QED
    BY <1>2, <2>1 DEF LiveInv, SameStream
<1>9. OrderInv(r)'
  <2>1. CASE phase[r] \notin Attached
    <3>1. inbox'[r] = <<>> /\ queue'[r] = <<>>
      BY <1>5, <2>1 DEF StreamInv, Positions, SameStream
    <3>2. QED
      BY <2>1, <3>1, EmptyLists DEF OrderInv, Below, SameStream
  <2>2. CASE phase[r] \in Attached
    <3>1. \A n \in Elements(e) : n \in Nat /\ P < n /\ n <= Q /\ n \in 1..Q
      BY <1>1
    <3>2. \A n \in Elements(queue[r]) \cup Elements(inbox[r]) : n \in 1..P /\ n \in 1..Q /\ n <= P
      BY <1>1 DEF StreamInv, OrderInv
    <3>3. Below(Elements(queue[r]), Elements(inbox[r]) \cup Elements(e))
      BY <1>1, <1>3, <3>1, <3>2 DEF Below, StreamInv, OrderInv
    <3>4. \A n \in {cursor[r]} \cup Elements(inflight[r]) :
            n \in Nat /\ (n <= through[r] \/ n <= P)
      BY <1>1, <1>3, <2>2 DEF StreamInv, OrderInv
    <3>5. \A n \in Elements(e) : n > through[r] =>
            /\ n > cursor[r]
            /\ \A m \in Elements(inflight[r]) : m < n
      <4>1. ASSUME NEW n \in Elements(e), n > through[r],
                   NEW m \in {cursor[r]} \cup Elements(inflight[r])
            PROVE  m < n
        <5>1. n \in Nat /\ P < n /\ m \in Nat /\ (m <= through[r] \/ m <= P)
          BY <3>1, <3>4
        <5>2. QED
          BY <1>1, <4>1, <5>1
      <4>2. QED
        BY <4>1
    <3>6. \A n \in {cursor[r]} \cup Elements(inflight[r]) : n <= through[r] \/ n <= Q
      BY <1>1, <3>4
    <3>7. \A n \in Elements(queue[r]) \cup Elements(inbox[r]) : n > through[r] =>
            /\ n > cursor[r]
            /\ \A m \in Elements(inflight[r]) : m < n
      BY DEF StreamInv, OrderInv
    <3>8. Ascending(queue[r]) /\ Elements(inbox[r])' = Elements(inbox[r]) \cup Elements(e)
          /\ Ascending(inbox'[r])
      BY <1>4, <2>2 DEF StreamInv, OrderInv
    <3>9. \A n \in Elements(queue[r]) \cup (Elements(inbox[r]) \cup Elements(e)) :
            /\ n \in 1..Q
            /\ n > through[r] => /\ n > cursor[r]
                                 /\ \A m \in Elements(inflight[r]) : m < n
      BY <3>1, <3>2, <3>5, <3>7
    <3>10. QED
      BY <3>3, <3>6, <3>8, <3>9 DEF OrderInv, SameStream
  <2>3. QED
    BY <2>1, <2>2
<1>10. seen'[r] = {n \in 1..cursor'[r] : Wanted(r, n)'}
  BY <1>2 DEF StreamInv, SameStream
<1>11. QED
  BY <1>6, <1>7, <1>8, <1>9, <1>10 DEF StreamInv
-----------------------------------------------------------------------------
(* The writers.                                                            *)

LEMMA StreamsFrame ==
  ASSUME IInv, TypeOK', LogGrows, UNCHANGED <<streamVars, inbox, clientVars>>,
         \A r \in Reader : Published(r)' = Published(r)
  PROVE  \A r \in Reader : StreamInv(r)'
<1> SUFFICES ASSUME NEW r \in Reader PROVE StreamInv(r)'
  OBVIOUS
<1>1. SameStream(r) /\ inbox'[r] = inbox[r] /\ Published(r)' = Published(r)
  BY DEF SameStream, streamVars, clientVars
<1>2. TypeOK /\ WriterInv /\ StreamInv(r)
  BY DEF IInv
<1>3. QED
  BY <1>1, <1>2, StreamFrame

LEMMA LogStays ==
  ASSUME TypeOK, UNCHANGED log
  PROVE  LogGrows
BY DEF TypeOK, LogGrows

LEMMA BeginTransactionInv ==
  ASSUME IInv, NEW w \in Writer, BeginTransaction(w)
  PROVE  IInv'
<1> USE DEF BeginTransaction, streamVars, clientVars
<1>1. TypeOK'
  BY DEF IInv, TypeOK, WriterPC
<1>2. WriterInv'
  BY ConstantsAssumption DEF IInv, TypeOK, WriterInv
<1>3. \A r \in Reader : Published(r)' = Published(r)
  BY DEF IInv, WriterInv, Published, TypeOK
<1>4. LogGrows
  BY LogStays DEF IInv
<1>5. QED
  BY <1>1, <1>2, <1>3, <1>4, StreamsFrame DEF IInv

LEMMA RollbackInv ==
  ASSUME IInv, NEW w \in Writer, Rollback(w)
  PROVE  IInv'
<1> USE DEF Rollback, streamVars, clientVars
<1>1. TypeOK'
  BY DEF IInv, TypeOK, WriterPC
<1>2. WriterInv'
  BY ConstantsAssumption DEF IInv, TypeOK, WriterInv
<1>3. \A r \in Reader : Published(r)' = Published(r)
  BY DEF IInv, WriterInv, Published, TypeOK
<1>4. LogGrows
  BY LogStays DEF IInv
<1>5. QED
  BY <1>1, <1>2, <1>3, <1>4, StreamsFrame DEF IInv

LEMMA EndBodyInv ==
  ASSUME IInv, NEW w \in Writer, EndBody(w)
  PROVE  IInv'
<1> USE DEF EndBody, streamVars, clientVars
<1>1. TypeOK'
  BY DEF IInv, TypeOK, WriterPC
<1>2. WriterInv'
  BY ConstantsAssumption DEF IInv, TypeOK, WriterInv
<1>3. \A r \in Reader : Published(r)' = Published(r)
  BY DEF IInv, WriterInv, Published, TypeOK
<1>4. LogGrows
  BY LogStays DEF IInv
<1>5. QED
  BY <1>1, <1>2, <1>3, <1>4, StreamsFrame DEF IInv

LEMMA TakeLaneInv ==
  ASSUME IInv, NEW w \in Writer, TakeLane(w)
  PROVE  IInv'
<1> USE DEF TakeLane, streamVars, clientVars
<1>1. TypeOK'
  BY DEF IInv, TypeOK, WriterPC
<1>2. WriterInv'
  BY ConstantsAssumption DEF IInv, TypeOK, WriterInv
<1>3. \A r \in Reader : Published(r)' = Published(r)
  <2>1. batch[w] = <<>> /\ Len(batch[w]) = 0 /\ Len(log) \in Nat /\ Len(log) - 0 = Len(log)
    BY DEF IInv, WriterInv, TypeOK
  <2>2. lane' = w /\ wpc'[w] = "sealed" /\ batch' = batch /\ log' = log /\ w # NoWriter
    BY ConstantsAssumption DEF IInv, TypeOK
  <2>3. QED
    BY <2>1, <2>2 DEF Published
<1>4. LogGrows
  BY LogStays DEF IInv
<1>5. QED
  BY <1>1, <1>2, <1>3, <1>4, StreamsFrame DEF IInv

LEMMA CommitFailsInv ==
  ASSUME IInv, NEW w \in Writer, CommitFails(w)
  PROVE  IInv'
<1> USE DEF CommitFails, Fault, streamVars, clientVars
<1>1. TypeOK'
  BY ConstantsAssumption DEF IInv, TypeOK, WriterPC
<1>2. WriterInv'
  BY ConstantsAssumption DEF IInv, TypeOK, WriterInv
<1>3. \A r \in Reader : Published(r)' = Published(r)
  <2>1. batch[w] = <<>> /\ Len(batch[w]) = 0 /\ lane = w
    BY DEF IInv, WriterInv
  <2>2. /\ lane' = NoWriter /\ wpc[w] = "sealed" /\ log' = log /\ w # NoWriter
        /\ Len(log) \in Nat
    BY ConstantsAssumption DEF IInv, TypeOK
  <2>3. QED
    BY <2>1, <2>2 DEF Published
<1>4. LogGrows
  BY LogStays DEF IInv
<1>5. QED
  BY <1>1, <1>2, <1>3, <1>4, StreamsFrame DEF IInv
LEMMA CommitInv ==
  ASSUME IInv, NEW w \in Writer, Commit(w)
  PROVE  IInv'
<1> USE DEF Commit, streamVars, clientVars
<1>1. PICK n \in 0..MaxBatch : \E topics \in [1..n -> Topic] :
        /\ Len(log) + n <= MaxEvents
        /\ log' = log \o topics
        /\ batch' = [batch EXCEPT ![w] = [i \in 1..n |-> Len(log) + i]]
  OBVIOUS
<1>2. PICK topics \in [1..n -> Topic] :
        /\ Len(log) + n <= MaxEvents
        /\ log' = log \o topics
        /\ batch' = [batch EXCEPT ![w] = [i \in 1..n |-> Len(log) + i]]
  BY <1>1
<1>3. /\ n \in Nat /\ MaxEvents \in Nat /\ Sequence = 1..MaxEvents
      /\ log \in Seq(Topic) /\ Len(log) \in Nat
  BY ConstantsAssumption DEF IInv, TypeOK, Sequence
<1>4. topics \in Seq(Topic) /\ Len(topics) = n
  BY <1>3, SeqOf
<1>5. log' \in Seq(Topic) /\ Len(log') = Len(log) + n
  BY <1>2, <1>3, <1>4
<1>6. /\ batch'[w] = [i \in 1..n |-> Len(log) + i]
      /\ batch'[w] \in Seq(Sequence) /\ Len(batch'[w]) = n /\ DOMAIN batch'[w] = 1..n
  <2>1. [i \in 1..n |-> Len(log) + i] \in [1..n -> Sequence]
    BY <1>2, <1>3
  <2>2. batch'[w] = [i \in 1..n |-> Len(log) + i]
    BY <1>2 DEF IInv, TypeOK
  <2>3. QED
    BY <1>3, <2>1, <2>2, SeqOf
<1>7. /\ wpc[w] = "sealed" /\ wpc'[w] = "committed" /\ lane = w /\ lane' = w
      /\ w # NoWriter /\ connection = w
      /\ \A v \in Writer \ {w} : /\ wpc'[v] = wpc[v] /\ batch'[v] = batch[v]
                                 /\ wpc[v] \in {"idle"} /\ batch[v] = <<>>
  BY <1>2, ConstantsAssumption DEF IInv, TypeOK, WriterInv, WriterPC
<1>8. TypeOK'
  <2>1. batch' \in [Writer -> Seq(Sequence)]
    BY <1>2, <1>6 DEF IInv, TypeOK
  <2>2. wpc' \in [Writer -> WriterPC]
    BY DEF IInv, TypeOK, WriterPC
  <2>3. QED
    BY <1>2, <1>3, <1>5, <2>1, <2>2 DEF IInv, TypeOK
<1>9. WriterInv'
  <2>1. \A v \in Writer : /\ connection' = v <=> wpc'[v] \in {"transaction", "waiting", "sealed"}
                          /\ lane' = v <=> wpc'[v] \in {"sealed", "committed", "announced"}
    BY <1>7, ConstantsAssumption DEF IInv, WriterInv
  <2>2. \A v \in Writer : wpc'[v] \notin {"committed", "announced"} => batch'[v] = <<>>
    BY <1>7
  <2>3. ASSUME NEW v \in Writer
        PROVE  /\ Len(batch'[v]) <= Len(log')
               /\ \A i \in DOMAIN batch'[v] :
                    batch'[v][i] = Len(log') - Len(batch'[v]) + i
    <3>1. CASE v = w
      <4>1. ASSUME NEW i \in 1..n
            PROVE  batch'[w][i] = Len(log') - Len(batch'[w]) + i
        <5>1. batch'[w][i] = Len(log) + i
          BY <1>6
        <5>2. Len(batch'[w]) = n /\ Len(log') = Len(log) + n
          BY <1>5, <1>6
        <5>3. n \in Nat /\ Len(log) \in Nat /\ i \in Nat
          BY <1>3
        <5>4. (Len(log) + n) - n + i = Len(log) + i
          BY <5>3
        <5>5. QED
          BY <5>1, <5>2, <5>4
      <4>2. n <= Len(log) + n
        BY <1>3
      <4>3. Len(batch'[w]) <= Len(log') /\ DOMAIN batch'[w] = 1..n
        BY <1>5, <1>6, <4>2
      <4>4. QED
        BY <3>1, <4>1, <4>3
    <3>2. CASE v # w
      <4>1. batch'[v] = <<>>
        BY <1>7, <3>2
      <4>2. Len(batch'[v]) = 0 /\ DOMAIN batch'[v] = {}
        BY <4>1, EmptyLists, Zenon
      <4>3. Len(log') \in Nat
        BY <1>5
      <4>4. Len(batch'[v]) <= Len(log')
        BY <4>2, <4>3
      <4>5. QED
        BY <4>2, <4>4
    <3>3. QED
      BY <3>1, <3>2
  <2>4. QED
    BY <2>1, <2>2, <2>3 DEF WriterInv
<1>10. LogGrows
  BY <1>2, <1>3, <1>4, <1>5 DEF LogGrows
<1>11. ASSUME NEW r \in Reader PROVE Published(r)' = Published(r)
  <2>1. batch[w] = <<>> /\ Len(batch[w]) = 0
    BY <1>7 DEF IInv, WriterInv
  <2>2. Published(r) = Len(log) - Len(batch[w])
    BY <1>7 DEF Published
  <2>3. Published(r)' = Len(log') - Len(batch'[w])
    BY <1>7 DEF Published
  <2>4. QED
    BY <1>3, <1>5, <1>6, <2>1, <2>2, <2>3
<1>12. QED
  BY <1>8, <1>9, <1>10, <1>11, StreamsFrame DEF IInv
(* A batch that is not published is the end of the log.                    *)
LEMMA BatchElements ==
  ASSUME IInv, NEW w \in Writer
  PROVE  /\ batch[w] \in Seq(Nat) /\ Ascending(batch[w])
         /\ Len(batch[w]) \in Nat /\ Len(batch[w]) <= Len(log) /\ Len(log) \in Nat
         /\ Elements(batch[w]) = (Len(log) - Len(batch[w]) + 1)..Len(log)
<1> DEFINE b == batch[w]
           n == Len(b)
           L == Len(log)
<1>1. /\ b \in Seq(Sequence) /\ n \in Nat /\ L \in Nat /\ DOMAIN b = 1..n
      /\ Sequence \subseteq Nat /\ b \in Seq(Nat)
  BY ConstantsAssumption DEF IInv, TypeOK, Sequence
<1>2. n <= L /\ \A i \in 1..n : b[i] = L - n + i
  BY <1>1 DEF IInv, WriterInv
<1> HIDE DEF b, n, L
<1>3. Ascending(b)
  BY <1>1, <1>2 DEF Ascending
<1>4. Elements(b) \subseteq (L - n + 1)..L
  BY <1>1, <1>2 DEF Elements
<1>5. ASSUME NEW m \in (L - n + 1)..L PROVE m \in Elements(b)
  <2>1. m - (L - n) \in 1..n /\ L - n + (m - (L - n)) = m
    BY <1>1, <1>2
  <2>2. b[m - (L - n)] = m
    BY <1>2, <2>1
  <2>3. QED
    BY <1>1, <2>1, <2>2 DEF Elements
<1>6. QED
  BY <1>1, <1>2, <1>3, <1>4, <1>5 DEF b, n, L

LEMMA PublishCommittedInv ==
  ASSUME IInv, NEW w \in Writer, PublishCommitted(w)
  PROVE  IInv'
<1> USE DEF PublishCommitted, streamVars, clientVars
<1>1. /\ wpc[w] = "committed" /\ wpc'[w] = "announced" /\ lane = w /\ lane' = w
      /\ w # NoWriter /\ batch' = batch /\ log' = log
  BY ConstantsAssumption DEF IInv, TypeOK, WriterInv
<1>2. /\ batch[w] \in Seq(Nat) /\ Ascending(batch[w]) /\ batch[w] \in Seq(Sequence)
      /\ Len(batch[w]) \in Nat /\ Len(batch[w]) <= Len(log) /\ Len(log) \in Nat
      /\ Elements(batch[w]) = (Len(log) - Len(batch[w]) + 1)..Len(log)
  BY BatchElements DEF IInv, TypeOK
<1>3. \A r \in Reader :
        inbox'[r] = IF r \in Reader \ AgentReader /\ phase[r] \in Attached
                    THEN inbox[r] \o batch[w] ELSE inbox[r]
  BY DEF PublishTo
<1>4. TypeOK'
  <2>1. inbox' \in [Reader -> Seq(Sequence)]
    BY <1>2 DEF PublishTo, IInv, TypeOK
  <2>2. wpc' \in [Writer -> WriterPC]
    BY DEF IInv, TypeOK, WriterPC
  <2>3. QED
    BY <2>1, <2>2 DEF IInv, TypeOK
<1>5. WriterInv'
  BY ConstantsAssumption DEF IInv, TypeOK, WriterInv
<1>6. ASSUME NEW r \in Reader PROVE StreamInv(r)'
  <2>1. SameStream(r) /\ TypeOK /\ WriterInv /\ StreamInv(r)
    BY DEF SameStream, IInv
  <2>2. CASE r \in AgentReader
    <3>1. inbox'[r] = inbox[r]
      BY <1>3, <2>2
    <3>2. Published(r)' = Published(r)
      BY <1>1, <2>2 DEF Published
    <3>3. LogGrows
      BY <2>1, LogStays
    <3>4. QED
      BY <1>4, <2>1, <3>1, <3>2, <3>3, StreamFrame
  <2>3. CASE r \notin AgentReader
    <3>1. Published(r) = Len(log) - Len(batch[w]) /\ Published(r)' = Len(log)
      BY <1>1, <2>3 DEF Published
    <3>2. /\ Published(r)' \in Nat /\ Published(r) <= Published(r)'
          /\ Published(r)' <= Len(log)
      BY <1>2, <3>1
    <3>3. inbox'[r] = IF phase[r] \in Attached THEN inbox[r] \o batch[w] ELSE inbox[r]
      BY <1>3, <2>3
    <3>4. Elements(batch[w]) = (Published(r) + 1)..Published(r)'
      BY <1>2, <3>1
    <3>5. QED
      BY <1>1, <1>2, <1>4, <1>5, <2>1, <3>2, <3>3, <3>4, StreamAnnounced
  <2>4. QED
    BY <2>2, <2>3
<1>7. QED
  BY <1>4, <1>5, <1>6 DEF IInv

LEMMA PublishLiveEventsInv ==
  ASSUME IInv, NEW w \in Writer, PublishLiveEvents(w)
  PROVE  IInv'
<1> USE DEF PublishLiveEvents, streamVars, clientVars
<1> DEFINE e == AgentEvents(batch[w])
<1>1. /\ wpc[w] = "announced" /\ wpc'[w] = "idle" /\ lane = w /\ lane' = NoWriter
      /\ w # NoWriter /\ log' = log
  BY ConstantsAssumption DEF IInv, TypeOK, WriterInv
<1>2. /\ batch[w] \in Seq(Nat) /\ Ascending(batch[w]) /\ batch[w] \in Seq(Sequence)
      /\ Len(batch[w]) \in Nat /\ Len(batch[w]) <= Len(log) /\ Len(log) \in Nat
      /\ Elements(batch[w]) = (Len(log) - Len(batch[w]) + 1)..Len(log)
  BY BatchElements DEF IInv, TypeOK
<1>3. /\ e \in Seq(Nat) /\ e \in Seq(Sequence) /\ Ascending(e)
      /\ Elements(e) = Elements(batch[w]) \cap {n \in 1..Len(log) : log[n] # "project"}
  BY <1>2, OnlyKeeps DEF AgentEvents
<1> HIDE DEF e
<1>4. \A r \in Reader :
        inbox'[r] = IF r \in AgentReader /\ phase[r] \in Attached
                    THEN inbox[r] \o e ELSE inbox[r]
  BY DEF PublishTo, e
<1>5. TypeOK'
  <2>1. inbox' \in [Reader -> Seq(Sequence)]
    <3>1. inbox' = [r \in Reader |-> IF r \in AgentReader /\ phase[r] \in Attached
                                     THEN inbox[r] \o e ELSE inbox[r]]
      BY DEF PublishTo, e
    <3>2. QED
      BY <1>3, <3>1 DEF IInv, TypeOK
  <2>2. wpc' \in [Writer -> WriterPC]
    BY DEF IInv, TypeOK, WriterPC
  <2>3. batch' \in [Writer -> Seq(Sequence)]
    BY EmptyLists DEF IInv, TypeOK
  <2>4. QED
    BY <2>1, <2>2, <2>3 DEF IInv, TypeOK
<1>6. WriterInv'
  <2>1. /\ batch'[w] = <<>> /\ Len(batch'[w]) = 0 /\ DOMAIN batch'[w] = {}
        /\ \A v \in Writer \ {w} : batch'[v] = batch[v] /\ wpc'[v] = wpc[v]
    BY DEF IInv, TypeOK
  <2>2. \A v \in Writer : /\ connection' = v <=> wpc'[v] \in {"transaction", "waiting", "sealed"}
                          /\ lane' = v <=> wpc'[v] \in {"sealed", "committed", "announced"}
    BY <1>1, <2>1, ConstantsAssumption DEF IInv, WriterInv
  <2>3. QED
    BY <1>1, <1>2, <2>1, <2>2 DEF IInv, WriterInv
<1>7. ASSUME NEW r \in Reader PROVE StreamInv(r)'
  <2>1. SameStream(r) /\ TypeOK /\ WriterInv /\ StreamInv(r)
    BY DEF SameStream, IInv
  <2>2. Published(r)' = Len(log)
    BY <1>1 DEF Published
  <2>3. CASE r \notin AgentReader
    <3>1. inbox'[r] = inbox[r]
      BY <1>4, <2>3
    <3>2. Published(r)' = Published(r)
      BY <1>1, <2>2, <2>3 DEF Published
    <3>3. LogGrows
      BY <2>1, LogStays
    <3>4. QED
      BY <1>5, <2>1, <3>1, <3>2, <3>3, StreamFrame
  <2>4. CASE r \in AgentReader
    <3>1. Published(r) = Len(log) - Len(batch[w])
      BY <1>1, <2>4 DEF Published
    <3>2. /\ Published(r)' \in Nat /\ Published(r) <= Published(r)'
          /\ Published(r)' <= Len(log)
      BY <1>2, <2>2, <3>1
    <3>3. inbox'[r] = IF phase[r] \in Attached THEN inbox[r] \o e ELSE inbox[r]
      BY <1>4, <2>4
    <3>4. Elements(batch[w]) = (Published(r) + 1)..Published(r)'
      BY <1>2, <2>2, <3>1
    <3>5. Elements(e) \subseteq (Published(r) + 1)..Published(r)'
      BY <1>3, <3>4
    <3>6. ASSUME NEW n \in (Published(r) + 1)..Published(r)', Wanted(r, n)
          PROVE  n \in Elements(e)
      <4>1. n \in 1..Len(log)
        BY <1>2, <2>2, <3>1
      <4>2. log[n] # "project"
        BY <2>4, <3>6 DEF Wanted, WantsTopic
      <4>3. QED
        BY <1>3, <3>4, <4>1, <4>2
    <3>7. QED
      BY <1>1, <1>3, <1>5, <1>6, <2>1, <3>2, <3>3, <3>5, <3>6, StreamAnnounced
  <2>5. QED
    BY <2>3, <2>4
<1>8. QED
  BY <1>5, <1>6, <1>7 DEF IInv
-----------------------------------------------------------------------------
(* The subscribers.                                                        *)

LEMMA WriterVarsStay ==
  ASSUME TypeOK, WriterInv, UNCHANGED writerVars
  PROVE  /\ WriterInv' /\ LogGrows /\ log' = log
         /\ \A r \in Reader : Published(r)' = Published(r)
         /\ \A r, n : Wanted(r, n)' <=> Wanted(r, n)
<1>1. WriterInv'
  BY DEF WriterInv, writerVars
<1>2. LogGrows
  BY LogStays DEF writerVars
<1>3. QED
  BY <1>1, <1>2 DEF Published, Wanted, WantsTopic, writerVars

(* A step of one subscriber leaves the others alone.                       *)
LEMMA ReaderStep ==
  ASSUME IInv, NEW r \in Reader, UNCHANGED writerVars, TypeOK',
         \A q \in Reader \ {r} : SameStream(q) /\ inbox'[q] = inbox[q],
         StreamInv(r)'
  PROVE  IInv'
<1>1. TypeOK /\ WriterInv
  BY DEF IInv
<1>2. WriterInv' /\ LogGrows /\ \A q \in Reader : Published(q)' = Published(q)
  BY <1>1, WriterVarsStay
<1>3. ASSUME NEW q \in Reader \ {r} PROVE StreamInv(q)'
  <2>1. StreamInv(q) /\ SameStream(q) /\ inbox'[q] = inbox[q]
    BY DEF IInv
  <2>2. QED
    BY <1>1, <1>2, <2>1, StreamFrame
<1>4. QED
  BY <1>2, <1>3 DEF IInv

LEMMA SubscribeInv ==
  ASSUME IInv, NEW r \in Reader, Subscribe(r)
  PROVE  IInv'
<1> USE DEF Subscribe
<1>1. TypeOK'
  BY EmptyLists DEF IInv, TypeOK, Phase, writerVars, clientVars
<1>2. \A q \in Reader \ {r} : SameStream(q) /\ inbox'[q] = inbox[q]
  BY DEF SameStream, clientVars, IInv, TypeOK
<1>3. /\ phase'[r] = "subscribed" /\ inbox'[r] = <<>> /\ queue'[r] = <<>>
      /\ charged'[r] = 0 /\ inflight'[r] = <<>> /\ through'[r] = cursor[r]
      /\ pos'[r] = cursor[r] /\ cursor' = cursor /\ seen' = seen
  BY DEF clientVars, IInv, TypeOK
<1>4. /\ log' = log /\ Published(r)' = Published(r)
      /\ \A n : Wanted(r, n)' <=> Wanted(r, n)
  BY WriterVarsStay DEF IInv
<1>5. /\ cursor[r] \in Nat /\ cursor[r] <= Len(log) /\ MaxItems \in Nat
      /\ seen[r] = {n \in 1..cursor[r] : Wanted(r, n)}
  BY StreamTypes, ConstantsAssumption DEF IInv, StreamInv, Positions
<1>6. Positions(r)'
  BY <1>3, <1>4, <1>5 DEF Positions
<1>7. InflightInv(r)' /\ ReplayInv(r)' /\ LiveInv(r)'
  BY <1>3, EmptyLists DEF InflightInv, ReplayInv, LiveInv
<1>8. OrderInv(r)'
  BY <1>3, <1>5, EmptyLists DEF OrderInv, Below
<1>9. BudgetInv(r)'
  <2>1. Len(queue'[r]) = 0 /\ Len(inflight'[r]) = 0
    BY <1>3, EmptyLists, Zenon
  <2>2. charged'[r] = 0 /\ 0 = 0 + 0 /\ 0 <= MaxItems
    BY <1>3, <1>5
  <2>3. QED
    BY <2>1, <2>2 DEF BudgetInv
<1>10. seen'[r] = {n \in 1..cursor'[r] : Wanted(r, n)'}
  BY <1>3, <1>4, <1>5
<1>11. QED
  BY <1>1, <1>2, <1>6, <1>7, <1>8, <1>9, <1>10, ReaderStep DEF StreamInv

(* The high-water mark is the last event of the log a stream may carry.    *)
LEMMA LatestEvent ==
  ASSUME TypeOK, NEW r \in Reader
  PROVE  /\ Latest(r) \in 0..Len(log)
         /\ \A n \in 1..Len(log) : Wanted(r, n) => n <= Latest(r)
<1> DEFINE S == {0} \cup {n \in 1..Len(log) : r \in AgentReader => log[n] # "project"}
<1>1. Len(log) \in Nat
  BY StreamTypes
<1>2. S \subseteq 0..Len(log) /\ 0 \in S
  BY <1>1
<1>3. \E n \in S : \A m \in S : m <= n
  BY <1>1, <1>2, GreatestNumber
<1>4. Latest(r) = CHOOSE n \in S : \A m \in S : m <= n
  BY Zenon DEF Latest
<1>5. Latest(r) \in S /\ \A m \in S : m <= Latest(r)
  BY <1>3, <1>4, Zenon
<1>6. ASSUME NEW n \in 1..Len(log), Wanted(r, n) PROVE n \in S
  BY <1>6 DEF Wanted, WantsTopic
<1>7. QED
  BY <1>2, <1>5, <1>6
LEMMA ReadHighWaterInv ==
  ASSUME IInv, NEW r \in Reader, ReadHighWater(r)
  PROVE  IInv'
<1> USE DEF ReadHighWater
<1> DEFINE t == Larger(Latest(r), pos[r])
<1>1. /\ Len(log) \in Nat /\ Len(log) <= MaxEvents /\ MaxEvents \in Nat
      /\ Latest(r) \in 0..Len(log)
      /\ pos[r] = cursor[r] /\ cursor[r] \in Nat /\ cursor[r] <= Len(log)
  BY StreamTypes, LatestEvent, ConstantsAssumption DEF IInv, StreamInv, Positions
<1>2. /\ t \in 0..MaxEvents /\ t <= Len(log) /\ pos[r] <= t /\ Latest(r) <= t /\ t \in Nat
  BY <1>1 DEF Larger
<1> HIDE DEF t
<1>3. TypeOK'
  BY <1>2 DEF IInv, TypeOK, Phase, writerVars, clientVars, t
<1>4. \A q \in Reader \ {r} : SameStream(q) /\ inbox'[q] = inbox[q]
  BY DEF SameStream, clientVars, IInv, TypeOK
<1>5. /\ phase[r] = "subscribed" /\ phase'[r] = "replaying" /\ inbox' = inbox /\ queue' = queue
      /\ charged' = charged /\ inflight' = inflight /\ through'[r] = t
      /\ pos' = pos /\ cursor' = cursor /\ seen' = seen /\ inflight[r] = <<>>
      /\ through[r] = cursor[r]
  BY DEF clientVars, IInv, TypeOK, t, StreamInv, Positions
<1>6. /\ log' = log /\ Published(r)' = Published(r)
      /\ \A n : Wanted(r, n)' <=> Wanted(r, n)
  BY WriterVarsStay DEF IInv
<1>7. /\ Published(r) \in Nat /\ Published(r) <= Len(log)
  BY PublishedPart DEF IInv
<1>8. Positions(r)'
  BY <1>1, <1>2, <1>5, <1>6, EmptyLists DEF Positions, IInv, StreamInv
<1>9. InflightInv(r)' /\ BudgetInv(r)'
  BY <1>5, <1>6, EmptyLists DEF InflightInv, BudgetInv, IInv, StreamInv
<1>10. ReplayInv(r)'
  BY <1>1, <1>5 DEF ReplayInv
<1>11. LiveInv(r)'
  <2>1. ASSUME NEW n \in (t + 1)..Published(r), Wanted(r, n) PROVE FALSE
    <3>1. n \in 1..Len(log) /\ ~(n <= t)
      BY <1>1, <1>2, <1>7
    <3>2. n <= Latest(r)
      BY <2>1, <3>1, LatestEvent DEF IInv
    <3>3. QED
      BY <1>1, <1>2, <3>1, <3>2
  <2>2. QED
    BY <1>5, <1>6, <2>1 DEF LiveInv
<1>12. OrderInv(r)'
  <2>1. /\ Ascending(queue[r]) /\ Ascending(inbox[r])
        /\ Below(Elements(queue[r]), Elements(inbox[r]))
        /\ \A n \in Elements(queue[r]) \cup Elements(inbox[r]) : n \in 1..Published(r)
    BY DEF IInv, StreamInv, OrderInv
  <2>2. \A n \in 1..Published(r) : n > t => n > cursor[r]
    BY <1>1, <1>2, <1>7
  <2>3. QED
    BY <1>1, <1>2, <1>5, <1>6, <2>1, <2>2, EmptyLists DEF OrderInv
<1>13. seen'[r] = {n \in 1..cursor'[r] : Wanted(r, n)'}
  BY <1>5, <1>6 DEF IInv, StreamInv
<1>14. QED
  BY <1>3, <1>4, <1>8, <1>9, <1>10, <1>11, <1>12, <1>13, ReaderStep DEF StreamInv

(* What a replay has still to hand over.                                   *)
LEMMA ReplayRest ==
  ASSUME TypeOK, NEW r \in Reader
  PROVE  /\ ToReplay(r) \in Seq(Nat) /\ Ascending(ToReplay(r))
         /\ Elements(ToReplay(r)) = {n \in (pos[r] + 1)..through[r] : Wanted(r, n)}
<1> DEFINE S == {n \in (pos[r] + 1)..through[r] : WantsTopic(r, log[n])}
<1>1. pos[r] \in Nat /\ through[r] \in Nat
  BY StreamTypes
<1>2. S \in SUBSET Nat /\ S \in SUBSET ((pos[r] + 1)..through[r])
  BY <1>1
<1>3. IsFiniteSet((pos[r] + 1)..through[r])
  BY <1>1, FS_Interval
<1>4. IsFiniteSet(S)
  BY <1>2, <1>3, FS_Subset
<1>5. InOrder(S) \in Seq(S) /\ Elements(InOrder(S)) = S /\ Ascending(InOrder(S))
  BY <1>2, <1>4, InOrderLists
<1>6. InOrder(S) \in Seq(Nat)
  BY <1>2, <1>5
<1>7. QED
  BY <1>5, <1>6 DEF ToReplay, Wanted

(* A page is the beginning of it.                                          *)
LEMMA ReplayNext ==
  ASSUME TypeOK, NEW r \in Reader, ToReplay(r) # <<>>
  PROVE  /\ Page(r) \in Seq(Nat) /\ Page(r) # <<>> /\ Ascending(Page(r))
         /\ r \in Bounded => Len(Page(r)) = 1
         /\ Page(r)[Len(Page(r))] \in Elements(Page(r))
         /\ Elements(Page(r)) =
              {n \in Elements(ToReplay(r)) : n <= Page(r)[Len(Page(r))]}
<1> DEFINE s == ToReplay(r)
           size == IF r \in Bounded THEN 1 ELSE PageSize
           k == IF Len(s) < size THEN Len(s) ELSE size
           p == Page(r)
<1>1. /\ s \in Seq(Nat) /\ Ascending(s) /\ s # <<>>
  BY ReplayRest
<1> HIDE DEF s
<1>2. Len(s) \in Nat /\ Len(s) # 0 /\ DOMAIN s = 1..Len(s)
  BY <1>1
<1>3. PageSize \in Nat /\ PageSize # 0
  BY ConstantsAssumption
<1>4. k \in 1..Len(s) /\ (r \in Bounded => k = 1)
  BY <1>2, <1>3
<1>5. p = SubSeq(s, 1, k)
  BY DEF Page, s
<1> HIDE DEF k, p, size
<1>6. /\ p \in Seq(Nat) /\ Len(p) = k /\ DOMAIN p = 1..k
      /\ \A i \in 1..k : p[i] = s[i] /\ i \in DOMAIN s
  BY <1>1, <1>2, <1>4, <1>5
<1>7. k \in 1..k /\ p[k] = s[k] /\ k \in DOMAIN s /\ k \in Nat
  BY <1>2, <1>4, <1>6
<1>8. p # <<>> /\ Ascending(p) /\ p[k] \in Elements(p)
  BY <1>1, <1>6, <1>7, EmptyLists DEF Ascending, Elements
<1>9. ASSUME NEW i \in 1..k PROVE p[i] \in Elements(s) /\ p[i] <= p[k]
  <2>1. i = k \/ i < k
    BY <1>7
  <2>2. i < k => s[i] < s[k]
    BY <1>1, <1>6, <1>7 DEF Ascending
  <2>3. s[i] \in Nat /\ s[k] \in Nat
    BY <1>1, <1>6, <1>7
  <2>4. QED
    BY <1>6, <1>7, <2>1, <2>2, <2>3 DEF Elements
<1>10. ASSUME NEW i \in DOMAIN s, s[i] <= p[k] PROVE s[i] \in Elements(p)
  <2>1. k < i => s[k] < s[i]
    BY <1>1, <1>7 DEF Ascending
  <2>2. s[i] \in Nat /\ s[k] \in Nat
    BY <1>1, <1>7
  <2>3. ~(k < i)
    BY <1>7, <1>10, <2>1, <2>2
  <2>4. i \in 1..k
    BY <1>2, <1>7, <2>3
  <2>5. QED
    BY <1>6, <2>4 DEF Elements
<1>11. Elements(p) = {n \in Elements(s) : n <= p[k]}
  BY <1>6, <1>9, <1>10 DEF Elements
<1>12. QED
  BY <1>4, <1>6, <1>8, <1>11 DEF p, s
LEMMA SeqIn ==
  ASSUME NEW X, NEW Y, NEW s \in Seq(X), Elements(s) \subseteq Y
  PROVE  s \in Seq(Y)
<1>1. s \in [1..Len(s) -> Y] /\ Len(s) \in Nat
  BY DEF Elements
<1>2. QED
  BY <1>1, SeqOf

LEMMA ReplayPageInv ==
  ASSUME IInv, NEW r \in Reader, ReplayPage(r)
  PROVE  IInv'
<1> USE DEF ReplayPage, Pulling, HandOver
<1> DEFINE p == Page(r)
           last == p[Len(p)]
<1>1. /\ TypeOK /\ StreamInv(r) /\ phase[r] = "replaying" /\ inflight[r] = <<>>
      /\ ToReplay(r) # <<>>
  BY DEF IInv
<1>2. /\ p \in Seq(Nat) /\ p # <<>> /\ Ascending(p) /\ (r \in Bounded => Len(p) = 1)
      /\ last \in Elements(p)
      /\ Elements(p) = {n \in Elements(ToReplay(r)) : n <= last}
      /\ Elements(ToReplay(r)) = {n \in (pos[r] + 1)..through[r] : Wanted(r, n)}
  BY <1>1, ReplayNext, ReplayRest
<1>3. /\ Len(log) \in Nat /\ MaxEvents \in Nat /\ Len(log) <= MaxEvents
      /\ cursor[r] \in Nat /\ cursor[r] <= pos[r] /\ pos[r] \in Nat
      /\ pos[r] <= through[r] /\ through[r] \in Nat /\ through[r] <= Len(log)
  BY <1>1, StreamTypes, ConstantsAssumption DEF StreamInv, Positions
<1>4. /\ phase'[r] = "replaying" /\ inflight'[r] = p /\ pos'[r] = last
      /\ charged'[r] = IF r \in Bounded THEN charged[r] + 1 ELSE charged[r]
      /\ inbox' = inbox /\ queue' = queue /\ through' = through
      /\ cursor' = cursor /\ seen' = seen
      /\ r \in Bounded => charged[r] < MaxItems
  BY <1>1 DEF TypeOK, clientVars
<1>5. /\ log' = log /\ Published(r)' = Published(r)
      /\ \A n : Wanted(r, n)' <=> Wanted(r, n)
  BY WriterVarsStay DEF IInv
<1>6. \A q \in Reader \ {r} : SameStream(q) /\ inbox'[q] = inbox[q]
  BY DEF SameStream, clientVars, IInv, TypeOK
<1>7. /\ last \in Nat /\ pos[r] < last /\ last <= through[r]
      /\ \A n \in Elements(p) : /\ n \in Nat /\ n \in 1..MaxEvents /\ Wanted(r, n)
                                /\ pos[r] < n /\ n <= last
  BY <1>2, <1>3
<1>8. TypeOK'
  <2>1. p \in Seq(Sequence)
    BY <1>2, <1>7, SeqIn DEF Sequence
  <2>2. last \in 0..MaxEvents
    BY <1>3, <1>7
  <2>3. charged[r] + 1 \in Nat
    BY <1>1 DEF TypeOK
  <2>4. /\ inflight' = [inflight EXCEPT ![r] = p] /\ pos' = [pos EXCEPT ![r] = last]
        /\ charged' = [charged EXCEPT ![r] = IF r \in Bounded THEN @ + 1 ELSE @]
    OBVIOUS
  <2> HIDE DEF p, last
  <2>5. /\ inflight' \in [Reader -> Seq(Sequence)]
        /\ pos' \in [Reader -> 0..MaxEvents]
        /\ charged' \in [Reader -> Nat]
    <3>1. /\ inflight \in [Reader -> Seq(Sequence)] /\ pos \in [Reader -> 0..MaxEvents]
          /\ charged \in [Reader -> Nat]
      BY <1>1 DEF TypeOK
    <3>2. inflight' \in [Reader -> Seq(Sequence)]
      BY <2>1, <2>4, <3>1
    <3>3. pos' \in [Reader -> 0..MaxEvents]
      BY <2>2, <2>4, <3>1
    <3>4. charged' \in [Reader -> Nat]
      BY <2>3, <2>4, <3>1
    <3>5. QED
      BY <3>2, <3>3, <3>4
  <2>6. UNCHANGED <<writerVars, phase, inbox, queue, through, clientVars, faults, present>>
    OBVIOUS
  <2> HIDE DEF ReplayPage, HandOver
  <2>7. QED
    BY <1>1, <2>5, <2>6 DEF TypeOK, writerVars, clientVars
<1> HIDE DEF p, last
<1>9. Positions(r)'
  BY <1>1, <1>3, <1>4, <1>5, <1>7 DEF StreamInv, Positions
<1>10. \A m \in 1..last : Wanted(r, m) => m <= cursor[r] \/ m \in Elements(p)
  <2>1. TAKE m \in 1..last
  <2>2. HAVE Wanted(r, m)
  <2>3. CASE m <= pos[r]
    <3>1. m \in 1..pos[r] /\ Elements(inflight[r]) = {}
      BY <1>1, <1>3, <2>3, EmptyLists
    <3>2. QED
      BY <1>1, <2>2, <3>1 DEF StreamInv, ReplayInv
  <2>4. CASE ~(m <= pos[r])
    <3>1. m \in (pos[r] + 1)..through[r] /\ m <= last
      BY <1>3, <1>7, <2>4
    <3>2. QED
      BY <1>2, <2>2, <3>1
  <2>5. QED
    BY <2>3, <2>4
<1>11. InflightInv(r)'
  <2>1. \A n \in Elements(p) : /\ cursor[r] < n /\ n <= Len(log) /\ Wanted(r, n)
                               /\ \A m \in 1..n : m \in 1..last
    BY <1>3, <1>7
  <2>2. QED
    BY <1>2, <1>4, <1>5, <1>10, <2>1 DEF InflightInv
<1>12. ReplayInv(r)'
  BY <1>4, <1>5, <1>10 DEF ReplayInv
<1>13. LiveInv(r)'
  <2>1. Elements(inflight[r]) = {}
    BY <1>1, EmptyLists
  <2>2. QED
    BY <1>1, <1>4, <1>5, <2>1 DEF StreamInv, LiveInv
<1>14. OrderInv(r)'
  <2>1. /\ Ascending(queue[r]) /\ Ascending(inbox[r])
        /\ Below(Elements(queue[r]), Elements(inbox[r]))
        /\ \A n \in Elements(queue[r]) \cup Elements(inbox[r]) :
             n \in 1..Published(r) /\ (n > through[r] => n > cursor[r])
    BY <1>1 DEF StreamInv, OrderInv
  <2>2. \A n \in {cursor[r]} \cup Elements(p) : n <= through[r]
    BY <1>3, <1>7
  <2>3. Elements(queue[r]) \cup Elements(inbox[r]) \subseteq Nat
    BY <1>1, StreamTypes
  <2>4. \A n \in Elements(queue[r]) \cup Elements(inbox[r]) :
          n > through[r] => \A m \in Elements(p) : m < n
    BY <1>3, <1>7, <2>2, <2>3
  <2>5. QED
    BY <1>4, <1>5, <2>1, <2>2, <2>4 DEF OrderInv
<1>15. BudgetInv(r)'
  <2>1. r \in Bounded => charged[r] = Len(queue[r]) + Len(inflight[r])
    BY <1>1 DEF StreamInv, BudgetInv
  <2>2. Len(inflight[r]) = 0 /\ Len(queue[r]) \in Nat /\ charged[r] \in Nat /\ MaxItems \in Nat
    BY <1>1, EmptyLists, StreamTypes, ConstantsAssumption
  <2>3. CASE r \in Bounded
    <3>1. charged[r] < MaxItems /\ charged[r] = Len(queue[r])
      BY <1>4, <2>1, <2>2, <2>3
    <3>2. charged[r] + 1 = Len(queue[r]) + 1 /\ charged[r] + 1 <= MaxItems
      BY <2>2, <3>1
    <3>3. charged'[r] = charged[r] + 1 /\ queue'[r] = queue[r] /\ Len(inflight'[r]) = 1
      BY <1>2, <1>4, <2>3
    <3>4. QED
      BY <2>3, <3>2, <3>3 DEF BudgetInv
  <2>4. CASE r \notin Bounded
    BY <1>1, <1>4, <2>4 DEF StreamInv, BudgetInv
  <2>5. QED
    BY <2>3, <2>4
<1>16. seen'[r] = {n \in 1..cursor'[r] : Wanted(r, n)'}
  BY <1>1, <1>4, <1>5 DEF StreamInv
<1>17. QED
  BY <1>6, <1>8, <1>9, <1>11, <1>12, <1>13, <1>14, <1>15, <1>16, ReaderStep DEF StreamInv

LEMMA OverflowInv ==
  ASSUME IInv, NEW r \in Reader, Overflow(r), r \in Bounded, phase[r] \in Attached
  PROVE  IInv'
<1> USE DEF Overflow
<1>1. TypeOK /\ StreamInv(r)
  BY DEF IInv
<1>2. /\ phase'[r] = "failed" /\ inbox'[r] = <<>> /\ queue'[r] = <<>>
      /\ charged'[r] = Len(inflight[r]) /\ inflight' = inflight
      /\ through' = through /\ pos' = pos /\ cursor' = cursor /\ seen' = seen
  BY <1>1 DEF TypeOK, clientVars
<1>3. /\ log' = log /\ Published(r)' = Published(r)
      /\ \A n : Wanted(r, n)' <=> Wanted(r, n)
  BY WriterVarsStay DEF IInv
<1>4. \A q \in Reader \ {r} : SameStream(q) /\ inbox'[q] = inbox[q]
  BY <1>1 DEF SameStream, clientVars, TypeOK
<1>5. /\ Len(inflight[r]) \in Nat /\ Len(queue[r]) \in Nat /\ MaxItems \in Nat
      /\ charged[r] \in Nat
  BY <1>1, StreamTypes, ConstantsAssumption
<1>6. TypeOK'
  BY <1>1, <1>5, EmptyLists DEF TypeOK, Phase, writerVars, clientVars
<1>7. Positions(r)'
  BY <1>1, <1>2, <1>3 DEF StreamInv, Positions
<1>8. InflightInv(r)' /\ ReplayInv(r)' /\ LiveInv(r)'
  BY <1>1, <1>2, <1>3 DEF StreamInv, InflightInv, ReplayInv, LiveInv
<1>9. OrderInv(r)'
  BY <1>2, EmptyLists DEF OrderInv, Below, Attached
<1>10. BudgetInv(r)'
  <2>1. charged[r] = Len(queue[r]) + Len(inflight[r]) /\ charged[r] <= MaxItems
    BY <1>1 DEF StreamInv, BudgetInv
  <2>2. Len(queue'[r]) = 0
    BY <1>2, EmptyLists, Zenon
  <2> HIDE DEF Overflow
  <2>3. Len(inflight[r]) = 0 + Len(inflight[r]) /\ Len(inflight[r]) <= MaxItems
    <3>1. \A a, b, c, m \in Nat : c = a + b /\ c <= m => b = 0 + b /\ b <= m
      OBVIOUS
    <3>2. QED
      BY <1>5, <2>1, <3>1, Zenon
  <2>4. Len(queue'[r]) + Len(inflight'[r]) = 0 + Len(inflight[r])
    BY <1>2, <2>2, Zenon
  <2>5. charged'[r] = Len(queue'[r]) + Len(inflight'[r]) /\ charged'[r] <= MaxItems
    BY <1>2, <2>3, <2>4, Zenon
  <2>6. QED
    BY <2>5 DEF BudgetInv
<1>11. seen'[r] = {n \in 1..cursor'[r] : Wanted(r, n)'}
  BY <1>1, <1>2, <1>3 DEF StreamInv
<1>12. QED
  BY <1>4, <1>6, <1>7, <1>8, <1>9, <1>10, <1>11, ReaderStep DEF StreamInv

LEMMA EndReplayInv ==
  ASSUME IInv, NEW r \in Reader, EndReplay(r)
  PROVE  IInv'
<1> USE DEF EndReplay, Pulling
<1>1. TypeOK /\ StreamInv(r) /\ phase[r] = "replaying" /\ inflight[r] = <<>>
  BY DEF IInv
<1>2. /\ phase'[r] = "live" /\ inbox' = inbox /\ queue' = queue /\ charged' = charged
      /\ inflight' = inflight /\ through' = through /\ pos' = pos
      /\ cursor' = cursor /\ seen' = seen
  BY <1>1 DEF TypeOK, clientVars
<1>3. /\ log' = log /\ Published(r)' = Published(r)
      /\ \A n : Wanted(r, n)' <=> Wanted(r, n)
  BY WriterVarsStay DEF IInv
<1>4. \A q \in Reader \ {r} : SameStream(q) /\ inbox'[q] = inbox[q]
  BY <1>1 DEF SameStream, clientVars, TypeOK
<1>5. TypeOK'
  BY <1>1 DEF TypeOK, Phase, writerVars, clientVars
<1>6. Positions(r)'
  BY <1>1, <1>2, <1>3 DEF StreamInv, Positions
<1>7. InflightInv(r)' /\ LiveInv(r)' /\ BudgetInv(r)'
  BY <1>1, <1>2, <1>3 DEF StreamInv, InflightInv, LiveInv, BudgetInv
<1>8. ReplayInv(r)'
  <2>1. \A n : ~(n \in (pos[r] + 1)..through[r] /\ Wanted(r, n))
    BY <1>1, ReplayRest, EmptyLists
  <2>2. pos[r] \in Nat /\ through[r] \in Nat
    BY <1>1, StreamTypes
  <2>3. ASSUME NEW n \in 1..through[r], Wanted(r, n)
        PROVE  n <= cursor[r] \/ n \in Elements(inflight[r])
    <3>1. n \in 1..pos[r]
      BY <2>1, <2>2, <2>3
    <3>2. QED
      BY <1>1, <2>3, <3>1 DEF StreamInv, ReplayInv
  <2>4. QED
    BY <1>2, <1>3, <2>3 DEF ReplayInv
<1>9. OrderInv(r)'
  BY <1>1, <1>2, <1>3 DEF StreamInv, OrderInv, Attached
<1>10. seen'[r] = {n \in 1..cursor'[r] : Wanted(r, n)'}
  BY <1>1, <1>2, <1>3 DEF StreamInv
<1>11. QED
  BY <1>4, <1>5, <1>6, <1>7, <1>8, <1>9, <1>10, ReaderStep DEF StreamInv
LEMMA DrainInv ==
  ASSUME IInv, NEW r \in Reader, Drain(r)
  PROVE  IInv'
<1> USE DEF Drain
<1> DEFINE n == Head(inbox[r])
<1>1. /\ TypeOK /\ StreamInv(r) /\ phase[r] \in Attached /\ inbox[r] # <<>>
      /\ r \in Bounded
  BY DEF IInv
<1>2. /\ phase' = phase /\ inbox'[r] = Tail(inbox[r]) /\ inflight' = inflight
      /\ through' = through /\ pos' = pos /\ cursor' = cursor /\ seen' = seen
  BY <1>1 DEF TypeOK, clientVars
<1>3. /\ log' = log /\ Published(r)' = Published(r)
      /\ \A m : Wanted(r, m)' <=> Wanted(r, m)
  BY WriterVarsStay DEF IInv
<1>4. \A q \in Reader \ {r} : SameStream(q) /\ inbox'[q] = inbox[q]
  BY <1>1 DEF SameStream, clientVars, TypeOK
<1>5. /\ inbox[r] \in Seq(Sequence) /\ queue[r] \in Seq(Sequence)
      /\ inbox[r] \in Seq(Nat) /\ queue[r] \in Seq(Nat) /\ Sequence \subseteq Nat
      /\ Len(inflight[r]) \in Nat /\ Len(queue[r]) \in Nat /\ MaxItems \in Nat
      /\ charged[r] \in Nat
  <2>1. /\ inbox[r] \in Seq(Sequence) /\ queue[r] \in Seq(Sequence)
        /\ inflight[r] \in Seq(Sequence) /\ Sequence \subseteq Nat /\ charged[r] \in Nat
    BY <1>1, StreamTypes
  <2>2. inbox[r] \in Seq(Nat) /\ queue[r] \in Seq(Nat)
    BY <1>1, <2>1, StreamTypes, SeqIn
  <2>3. Len(inflight[r]) \in Nat /\ Len(queue[r]) \in Nat /\ MaxItems \in Nat
    BY <2>1, ConstantsAssumption
  <2>4. QED
    BY <2>1, <2>2, <2>3
<1>6. /\ n \in Sequence /\ n \in Nat /\ n \in Elements(inbox[r])
      /\ Elements(inbox[r]) = {n} \cup Elements(Tail(inbox[r]))
      /\ Ascending(Tail(inbox[r])) /\ Below({n}, Elements(Tail(inbox[r])))
      /\ Tail(inbox[r]) \in Seq(Sequence)
  <2>1. Ascending(inbox[r])
    BY <1>1 DEF StreamInv, OrderInv
  <2>2. n \in Sequence /\ Tail(inbox[r]) \in Seq(Sequence)
    BY <1>1, <1>5
  <2>3. /\ n \in Elements(inbox[r])
        /\ Elements(inbox[r]) = {n} \cup Elements(Tail(inbox[r]))
        /\ Ascending(Tail(inbox[r])) /\ Below({n}, Elements(Tail(inbox[r])))
    BY <1>1, <1>5, <2>1, TailLists
  <2>4. n \in Nat
    BY <1>5, <2>2
  <2>5. QED
    BY <2>2, <2>3, <2>4
<1>7. IF IsLive(r, n)
      THEN /\ charged[r] < MaxItems
           /\ queue'[r] = Append(queue[r], n) /\ charged'[r] = charged[r] + 1
      ELSE queue'[r] = queue[r] /\ charged'[r] = charged[r]
  <2>1. queue \in [Reader -> Seq(Sequence)] /\ charged \in [Reader -> Nat]
    BY <1>1 DEF TypeOK
  <2>2. CASE IsLive(r, n)
    BY <2>1, <2>2
  <2>3. CASE ~IsLive(r, n)
    BY <2>1, <2>3
  <2>4. QED
    BY <2>2, <2>3
<1> HIDE DEF n
<1>8. /\ queue'[r] \in Seq(Sequence) /\ charged'[r] \in Nat /\ Ascending(queue'[r])
      /\ Elements(queue'[r]) = IF IsLive(r, n) THEN Elements(queue[r]) \cup {n}
                                               ELSE Elements(queue[r])
  <2>1. Ascending(queue[r]) /\ Below(Elements(queue[r]), {n})
    BY <1>1, <1>6 DEF StreamInv, OrderInv, Below
  <2>2. CASE IsLive(r, n)
    <3>1. queue'[r] = Append(queue[r], n) /\ charged'[r] = charged[r] + 1
      BY <1>7, <2>2
    <3>2. Append(queue[r], n) \in Seq(Sequence)
      BY <1>5, <1>6
    <3>3. /\ Elements(Append(queue[r], n)) = Elements(queue[r]) \cup {n}
          /\ Ascending(Append(queue[r], n))
      BY <1>5, <1>6, <2>1, AppendLists
    <3>4. charged[r] + 1 \in Nat
      BY <1>5
    <3>5. QED
      BY <2>2, <3>1, <3>2, <3>3, <3>4
  <2>3. CASE ~IsLive(r, n)
    BY <1>5, <1>7, <2>1, <2>3
  <2>4. QED
    BY <2>2, <2>3
<1>9. TypeOK'
  <2>1. inbox' \in [Reader -> Seq(Sequence)]
    BY <1>1, <1>6 DEF TypeOK
  <2>2. queue' \in [Reader -> Seq(Sequence)]
    BY <1>1, <1>8 DEF TypeOK
  <2>3. charged' \in [Reader -> Nat]
    BY <1>1, <1>8 DEF TypeOK
  <2>4. QED
    BY <1>1, <2>1, <2>2, <2>3 DEF TypeOK, writerVars, clientVars
<1>10. phase[r] \notin {"off", "failed"}
  BY <1>1 DEF Attached
<1>11. Positions(r)'
  BY <1>1, <1>2, <1>3, <1>10 DEF StreamInv, Positions
<1>12. InflightInv(r)' /\ ReplayInv(r)'
  BY <1>1, <1>2, <1>3 DEF StreamInv, InflightInv, ReplayInv
<1>13. LiveInv(r)'
  <2>1. Elements(queue[r]) \subseteq Elements(queue'[r])
    BY <1>8
  <2>2. ASSUME phase[r] \in {"replaying", "live"},
               NEW m \in (through[r] + 1)..Published(r), Wanted(r, m)
        PROVE  \/ m <= cursor[r]
               \/ m \in Elements(inflight[r])
               \/ m \in Elements(queue'[r])
               \/ m \in Elements(Tail(inbox[r]))
    <3>1. \/ m <= cursor[r]
          \/ m \in Elements(inflight[r])
          \/ m \in Elements(queue[r])
          \/ m \in Elements(inbox[r])
      BY <1>1, <2>2 DEF StreamInv, LiveInv
    <3>2. CASE m = n
      <4>1. through[r] \in Nat /\ Published(r) \in Nat
        BY <1>1, StreamTypes, PublishedPart DEF IInv
      <4>2. IsLive(r, n)
        BY <2>2, <3>2, <4>1 DEF IsLive, Wanted
      <4>3. QED
        BY <1>8, <3>2, <4>2
    <3>3. QED
      BY <1>6, <2>1, <3>1, <3>2
  <2>3. QED
    BY <1>2, <1>3, <2>2 DEF LiveInv
<1>14. OrderInv(r)'
  <2>1. /\ \A m \in {cursor[r]} \cup Elements(inflight[r]) : m <= through[r] \/ m <= Published(r)
        /\ Below(Elements(queue[r]), Elements(inbox[r]))
        /\ \A m \in Elements(queue[r]) \cup Elements(inbox[r]) :
             /\ m \in 1..Published(r)
             /\ m > through[r] => /\ m > cursor[r]
                                  /\ \A l \in Elements(inflight[r]) : l < m
    BY <1>1 DEF StreamInv, OrderInv
  <2>2. Elements(queue'[r]) \subseteq Elements(queue[r]) \cup {n}
    BY <1>8
  <2>3. Below(Elements(queue'[r]), Elements(Tail(inbox[r])))
    BY <1>6, <2>1, <2>2 DEF Below
  <2>4. Elements(queue'[r]) \cup Elements(Tail(inbox[r]))
           \subseteq Elements(queue[r]) \cup Elements(inbox[r])
    BY <1>6, <2>2
  <2>5. QED
    BY <1>2, <1>3, <1>6, <1>8, <2>1, <2>3, <2>4 DEF OrderInv
<1>15. BudgetInv(r)'
  <2>1. charged[r] = Len(queue[r]) + Len(inflight[r]) /\ charged[r] <= MaxItems
    BY <1>1 DEF StreamInv, BudgetInv
  <2>2. CASE IsLive(r, n)
    <3>1. Len(queue'[r]) = Len(queue[r]) + 1 /\ charged[r] < MaxItems /\ charged'[r] = charged[r] + 1
      BY <1>5, <1>6, <1>7, <2>2
    <3>2. \A a, b, c, m \in Nat : c = a + b /\ c < m => c + 1 = (a + 1) + b /\ c + 1 <= m
      OBVIOUS
    <3>3. charged[r] + 1 = (Len(queue[r]) + 1) + Len(inflight[r]) /\ charged[r] + 1 <= MaxItems
      BY <1>5, <2>1, <3>1, <3>2, Zenon
    <3>4. QED
      BY <1>1, <1>2, <3>1, <3>3, Zenon DEF BudgetInv
  <2>3. CASE ~IsLive(r, n)
    <3>1. queue'[r] = queue[r] /\ charged'[r] = charged[r]
      BY <1>7, <2>3
    <3>2. QED
      BY <1>1, <1>2, <2>1, <3>1, Zenon DEF BudgetInv
  <2>4. QED
    BY <2>2, <2>3
<1>16. seen'[r] = {m \in 1..cursor'[r] : Wanted(r, m)'}
  BY <1>1, <1>2, <1>3 DEF StreamInv
<1>17. QED
  BY <1>4, <1>9, <1>11, <1>12, <1>13, <1>14, <1>15, <1>16, ReaderStep DEF StreamInv

(* What a live stream takes of what waits continues what it has handed     *)
(* over, and what it leaves comes later.                                   *)
LEMMA FreshContinues ==
  ASSUME IInv, NEW r \in Reader, phase[r] = "live", inflight[r] = <<>>,
         NEW e \in Seq(Sequence), NEW R, Ascending(e), Below(Elements(e), R),
         Elements(queue[r]) \cup Elements(inbox[r]) = Elements(e) \cup R
  PROVE  LET fresh == Elements(Live(r, e))
         IN  /\ Live(r, e) \in Seq(Sequence) /\ Len(Live(r, e)) <= Len(e)
             /\ Ascending(Live(r, e))
             /\ \A n \in fresh : /\ cursor[r] < n /\ through[r] < n /\ n <= Published(r)
                                 /\ n <= Len(log) /\ Wanted(r, n)
             /\ \A n \in fresh : \A m \in 1..n : Wanted(r, m) => m <= cursor[r] \/ m \in fresh
             /\ \A n \in (through[r] + 1)..Published(r) :
                  Wanted(r, n) => n <= cursor[r] \/ n \in fresh \/ n \in R
             /\ \A n \in R, m \in fresh : m < n
<1> DEFINE fresh == Elements(Live(r, e))
<1>1. /\ Sequence \subseteq Nat /\ Elements(e) \subseteq Nat
      /\ through[r] \in Nat /\ cursor[r] \in Nat /\ Len(log) \in Nat
      /\ Published(r) \in Nat /\ Published(r) <= Len(log)
  BY StreamTypes, PublishedPart, ElementsOf DEF IInv
<1>2. /\ Live(r, e) \in Seq(Sequence) /\ Len(Live(r, e)) <= Len(e)
      /\ Ascending(Live(r, e))
      /\ fresh = Elements(e) \cap {n \in 1..Len(log) : IsLive(r, n)}
  BY OnlyKeeps DEF Live
<1> HIDE DEF fresh
<1>3. \A n \in Elements(e) \cup R :
        n \in 1..Published(r) /\ (n > through[r] => n > cursor[r])
  BY DEF IInv, StreamInv, OrderInv
<1>4. \A n \in fresh : /\ cursor[r] < n /\ through[r] < n /\ n <= Published(r)
                       /\ n <= Len(log) /\ Wanted(r, n) /\ n \in Elements(e) /\ n \in Nat
  <2>1. TAKE n \in fresh
  <2>2. n \in Elements(e) /\ n \in 1..Len(log) /\ n > through[r] /\ Wanted(r, n)
    BY <1>2 DEF IsLive, Wanted
  <2>3. n \in 1..Published(r) /\ n > cursor[r]
    BY <1>3, <2>2
  <2>4. QED
    BY <1>1, <2>2, <2>3
<1>5. ASSUME NEW n \in (through[r] + 1)..Published(r), Wanted(r, n)
      PROVE  n <= cursor[r] \/ n \in fresh \/ n \in R
  <2>1. n <= cursor[r] \/ n \in Elements(e) \cup R
    BY <1>5, EmptyLists DEF IInv, StreamInv, LiveInv
  <2>2. n \in 1..Len(log) /\ IsLive(r, n)
    BY <1>1, <1>5 DEF IsLive, Wanted
  <2>3. QED
    BY <1>2, <2>1, <2>2
<1>6. ASSUME NEW n \in fresh, NEW m \in 1..n, Wanted(r, m)
      PROVE  m <= cursor[r] \/ m \in fresh
  <2>1. CASE m <= through[r]
    <3>1. m \in 1..through[r]
      BY <1>1, <1>4, <2>1
    <3>2. QED
      BY <1>6, <3>1, EmptyLists DEF IInv, StreamInv, ReplayInv
  <2>2. CASE ~(m <= through[r])
    <3>1. m \in (through[r] + 1)..Published(r) /\ m \in Nat /\ m <= n
      BY <1>1, <1>4, <2>2
    <3>2. m \in R => n < m
      BY <1>4 DEF Below
    <3>3. m \notin R
      BY <1>4, <3>1, <3>2
    <3>4. QED
      BY <1>5, <1>6, <3>1, <3>3
  <2>3. QED
    BY <2>1, <2>2
<1>7. \A n \in R, m \in fresh : m < n
  BY <1>4 DEF Below
<1>8. QED
  BY <1>2, <1>4, <1>5, <1>6, <1>7 DEF fresh
LEMMA TakeQueueInv ==
  ASSUME IInv, NEW r \in Reader, TakeQueue(r)
  PROVE  IInv'
<1> USE DEF TakeQueue, HandOver, Pulling
<1> DEFINE fresh == Live(r, queue[r])
           R == Elements(inbox[r])
<1>1. /\ TypeOK /\ StreamInv(r) /\ phase[r] = "live" /\ inflight[r] = <<>> /\ r \in Bounded
  BY DEF IInv
<1>2. /\ phase' = phase /\ inbox' = inbox /\ queue'[r] = <<>> /\ inflight'[r] = fresh
      /\ charged'[r] = charged[r] - (Len(queue[r]) - Len(fresh))
      /\ through' = through /\ pos' = pos /\ cursor' = cursor /\ seen' = seen
  BY <1>1 DEF TypeOK, clientVars
<1>3. /\ log' = log /\ Published(r)' = Published(r)
      /\ \A m : Wanted(r, m)' <=> Wanted(r, m)
  BY WriterVarsStay DEF IInv
<1>4. \A q \in Reader \ {r} : SameStream(q) /\ inbox'[q] = inbox[q]
  BY <1>1 DEF SameStream, clientVars, TypeOK
<1>5. queue[r] \in Seq(Sequence) /\ Ascending(queue[r]) /\ Below(Elements(queue[r]), R)
  BY <1>1, StreamTypes DEF StreamInv, OrderInv
<1>6. /\ fresh \in Seq(Sequence) /\ Len(fresh) <= Len(queue[r]) /\ Ascending(fresh)
      /\ \A n \in Elements(fresh) : /\ cursor[r] < n /\ through[r] < n /\ n <= Published(r)
                                    /\ n <= Len(log) /\ Wanted(r, n)
      /\ \A n \in Elements(fresh) : \A m \in 1..n :
           Wanted(r, m) => m <= cursor[r] \/ m \in Elements(fresh)
      /\ \A n \in (through[r] + 1)..Published(r) :
           Wanted(r, n) => n <= cursor[r] \/ n \in Elements(fresh) \/ n \in R
      /\ \A n \in R, m \in Elements(fresh) : m < n
  BY <1>1, <1>5, FreshContinues
<1>7. UNCHANGED writerVars
  OBVIOUS
<1> HIDE DEF fresh
<1>8. /\ Len(queue[r]) \in Nat /\ Len(fresh) \in Nat /\ Len(inflight[r]) = 0
      /\ charged[r] = Len(queue[r]) + Len(inflight[r]) /\ charged[r] <= MaxItems
      /\ MaxItems \in Nat /\ charged[r] \in Nat
  <2>1. Len(queue[r]) \in Nat /\ Len(fresh) \in Nat
    BY <1>5, <1>6
  <2>2. Len(inflight[r]) = 0 /\ MaxItems \in Nat /\ charged[r] \in Nat
    BY <1>1, EmptyLists, ConstantsAssumption, StreamTypes
  <2>3. charged[r] = Len(queue[r]) + Len(inflight[r]) /\ charged[r] <= MaxItems
    BY <1>1, Zenon DEF StreamInv, BudgetInv
  <2>4. QED
    BY <2>1, <2>2, <2>3
<1>9. charged'[r] = Len(fresh) /\ Len(fresh) <= MaxItems
  <2>1. \A a, b, c, m \in Nat : c = a + 0 /\ c <= m /\ b <= a => c - (a - b) = b /\ b <= m
    OBVIOUS
  <2>2. charged[r] = Len(queue[r]) + 0
    BY <1>8
  <2>3. charged[r] - (Len(queue[r]) - Len(fresh)) = Len(fresh) /\ Len(fresh) <= MaxItems
    BY <1>6, <1>8, <2>1, <2>2, Zenon
  <2>4. QED
    BY <1>2, <2>3, Zenon
<1>10. TypeOK'
  <2>1. /\ inflight' = [inflight EXCEPT ![r] = fresh]
        /\ charged' = [charged EXCEPT ![r] = @ - (Len(queue[r]) - Len(fresh))]
    BY DEF fresh
  <2>2. inflight' \in [Reader -> Seq(Sequence)]
    BY <1>1, <1>6, <2>1 DEF TypeOK
  <2>3. charged' \in [Reader -> Nat]
    BY <1>1, <1>2, <1>8, <1>9, <2>1 DEF TypeOK
  <2>4. queue' \in [Reader -> Seq(Sequence)]
    BY <1>1, EmptyLists DEF TypeOK
  <2>5. QED
    BY <1>1, <2>2, <2>3, <2>4 DEF TypeOK, writerVars, clientVars
<1>11. Positions(r)'
  BY <1>1, <1>2, <1>3 DEF StreamInv, Positions
<1>12. InflightInv(r)'
  BY <1>2, <1>3, <1>6 DEF InflightInv
<1>13. ReplayInv(r)'
  BY <1>1, <1>2, <1>3, EmptyLists DEF StreamInv, ReplayInv
<1>14. LiveInv(r)'
  BY <1>1, <1>2, <1>3, <1>6 DEF LiveInv
<1>15. OrderInv(r)'
  <2>1. /\ Ascending(inbox[r])
        /\ cursor[r] <= through[r] \/ cursor[r] <= Published(r)
        /\ \A n \in R : n \in 1..Published(r) /\ (n > through[r] => n > cursor[r])
    BY <1>1 DEF StreamInv, OrderInv, Attached
  <2>2. Below({}, R) /\ Elements(<<>>) = {} /\ Ascending(<<>>)
    BY EmptyLists DEF Below
  <2>3. QED
    BY <1>2, <1>3, <1>6, <2>1, <2>2 DEF OrderInv
<1>16. BudgetInv(r)'
  <2>1. 0 + Len(fresh) = Len(fresh)
    BY <1>8
  <2>2. Len(queue'[r]) + Len(inflight'[r]) = 0 + Len(fresh)
    BY <1>2, EmptyLists, Zenon
  <2>3. QED
    BY <1>1, <1>9, <2>1, <2>2, Zenon DEF BudgetInv
<1>17. seen'[r] = {m \in 1..cursor'[r] : Wanted(r, m)'}
  BY <1>1, <1>2, <1>3 DEF StreamInv
<1>18. QED
  BY <1>4, <1>7, <1>10, <1>11, <1>12, <1>13, <1>14, <1>15, <1>16, <1>17, ReaderStep DEF StreamInv

LEMMA TakeInboxInv ==
  ASSUME IInv, NEW r \in Reader, TakeInbox(r)
  PROVE  IInv'
<1> USE DEF TakeInbox, HandOver, Pulling
<1> DEFINE fresh == Live(r, inbox[r])
<1>1. /\ TypeOK /\ StreamInv(r) /\ phase[r] = "live" /\ inflight[r] = <<>>
      /\ r \notin Bounded /\ queue[r] = <<>>
  BY DEF IInv, StreamInv, Positions
<1>2. /\ phase' = phase /\ inbox'[r] = <<>> /\ queue' = queue /\ inflight'[r] = fresh
      /\ charged' = charged
      /\ through' = through /\ pos' = pos /\ cursor' = cursor /\ seen' = seen
  BY <1>1 DEF TypeOK, clientVars
<1>3. /\ log' = log /\ Published(r)' = Published(r)
      /\ \A m : Wanted(r, m)' <=> Wanted(r, m)
  BY WriterVarsStay DEF IInv
<1>4. \A q \in Reader \ {r} : SameStream(q) /\ inbox'[q] = inbox[q]
  BY <1>1 DEF SameStream, clientVars, TypeOK
<1>5. /\ inbox[r] \in Seq(Sequence) /\ Ascending(inbox[r]) /\ Below(Elements(inbox[r]), {})
      /\ Elements(queue[r]) \cup Elements(inbox[r]) = Elements(inbox[r]) \cup {}
  BY <1>1, StreamTypes, EmptyLists DEF StreamInv, OrderInv, Below
<1>6. /\ fresh \in Seq(Sequence) /\ Ascending(fresh)
      /\ \A n \in Elements(fresh) : /\ cursor[r] < n /\ through[r] < n /\ n <= Published(r)
                                    /\ n <= Len(log) /\ Wanted(r, n)
      /\ \A n \in Elements(fresh) : \A m \in 1..n :
           Wanted(r, m) => m <= cursor[r] \/ m \in Elements(fresh)
      /\ \A n \in (through[r] + 1)..Published(r) :
           Wanted(r, n) => n <= cursor[r] \/ n \in Elements(fresh)
  BY <1>1, <1>5, FreshContinues
<1>7. UNCHANGED writerVars
  OBVIOUS
<1> HIDE DEF fresh
<1>8. TypeOK'
  <2>1. inflight' = [inflight EXCEPT ![r] = fresh]
    BY DEF fresh
  <2>2. inflight' \in [Reader -> Seq(Sequence)]
    BY <1>1, <1>6, <2>1 DEF TypeOK
  <2>3. inbox' \in [Reader -> Seq(Sequence)]
    BY <1>1, EmptyLists DEF TypeOK
  <2>4. QED
    BY <1>1, <2>2, <2>3 DEF TypeOK, writerVars, clientVars
<1>9. Positions(r)'
  BY <1>1, <1>2, <1>3 DEF StreamInv, Positions
<1>10. InflightInv(r)'
  BY <1>2, <1>3, <1>6 DEF InflightInv
<1>11. ReplayInv(r)'
  BY <1>1, <1>2, <1>3, EmptyLists DEF StreamInv, ReplayInv
<1>12. LiveInv(r)'
  BY <1>1, <1>2, <1>3, <1>6 DEF LiveInv
<1>13. OrderInv(r)'
  <2>1. cursor[r] <= through[r] \/ cursor[r] <= Published(r)
    BY <1>1 DEF StreamInv, OrderInv, Attached
  <2>2. Below({}, {}) /\ Elements(<<>>) = {} /\ Ascending(<<>>)
    BY EmptyLists DEF Below
  <2>3. QED
    BY <1>1, <1>2, <1>3, <1>6, <2>1, <2>2 DEF OrderInv
<1>14. BudgetInv(r)'
  BY <1>1, <1>2 DEF StreamInv, BudgetInv
<1>15. seen'[r] = {m \in 1..cursor'[r] : Wanted(r, m)'}
  BY <1>1, <1>2, <1>3 DEF StreamInv
<1>16. QED
  BY <1>4, <1>7, <1>8, <1>9, <1>10, <1>11, <1>12, <1>13, <1>14, <1>15, ReaderStep DEF StreamInv

(* The subscriber applies all of an ascending batch of new events.         *)
LEMMA Applied ==
  ASSUME IInv, NEW r \in Reader, Receive(r)
  PROVE  LET events == inflight[r] IN
         /\ cursor'[r] \in Elements(events)
         /\ \A n \in Elements(events) : n <= cursor'[r]
         /\ seen'[r] = seen[r] \cup Elements(events)
         /\ \A q \in Reader \ {r} : cursor'[q] = cursor[q] /\ seen'[q] = seen[q]
<1> DEFINE events == inflight[r]
           newest(i) == \A n \in {cursor[r]} \cup {events[j] : j \in 1..(i - 1)} : n < events[i]
           applied == {events[i] : i \in {i \in DOMAIN events : newest(i)}}
           top == CHOOSE n \in {cursor[r]} \cup applied :
                    \A m \in {cursor[r]} \cup applied : m <= n
<1>1. /\ seen' = [seen EXCEPT ![r] = @ \cup applied]
      /\ cursor' = [cursor EXCEPT ![r] = CHOOSE n \in {@} \cup applied :
                                            \A m \in {@} \cup applied : m <= n]
      /\ events # <<>>
  BY DEF Receive
<1>2. /\ TypeOK /\ events \in Seq(Sequence) /\ Elements(events) \subseteq Nat
      /\ Elements(events) \subseteq Sequence
      /\ Ascending(events) /\ cursor[r] \in Nat /\ MaxEvents \in Nat
      /\ cursor[r] \in 0..MaxEvents
      /\ \A n \in Elements(events) : cursor[r] < n
  BY StreamTypes, ElementsOf, ConstantsAssumption DEF IInv, StreamInv, InflightInv
<1> HIDE DEF events
<1>3. ASSUME NEW i \in DOMAIN events PROVE newest(i)
  <2>1. events[i] \in Elements(events)
    BY DEF Elements
  <2>2. cursor[r] < events[i]
    BY <1>2, <2>1
  <2>3. ASSUME NEW j \in 1..(i - 1) PROVE events[j] < events[i]
    <3>1. j \in DOMAIN events /\ j < i
      BY <1>2
    <3>2. QED
      BY <1>2, <3>1 DEF Ascending
  <2>4. QED
    BY <2>2, <2>3
<1>4. applied = Elements(events)
  BY <1>3 DEF Elements
<1> HIDE DEF newest
<1>5. {cursor[r]} \cup applied \subseteq 0..MaxEvents
  BY <1>2, <1>4 DEF Sequence
<1>6. \E n \in {cursor[r]} \cup applied : \A m \in {cursor[r]} \cup applied : m <= n
  BY <1>2, <1>5, GreatestNumber
<1> HIDE DEF applied
<1>7. /\ top \in {cursor[r]} \cup applied
      /\ \A m \in {cursor[r]} \cup applied : m <= top
  BY <1>6, Zenon
<1>8. cursor'[r] = top /\ seen'[r] = seen[r] \cup applied
  BY <1>1, <1>2 DEF TypeOK
<1> HIDE DEF top
<1>9. Elements(events) # {}
  BY <1>1, <1>2, EmptyLists
<1>10. top # cursor[r]
  <2>1. PICK n \in Elements(events) : cursor[r] < n
    BY <1>2, <1>9
  <2>2. n <= top /\ n \in Nat
    BY <1>2, <1>4, <1>7
  <2>3. QED
    BY <1>2, <2>1, <2>2
<1>11. \A q \in Reader \ {r} : cursor'[q] = cursor[q] /\ seen'[q] = seen[q]
  BY <1>1, <1>2 DEF TypeOK
<1>12. QED
  BY <1>4, <1>7, <1>8, <1>10, <1>11 DEF events
LEMMA ReceiveInv ==
  ASSUME IInv, NEW r \in Reader, Receive(r)
  PROVE  IInv'
<1> DEFINE events == inflight[r]
<1>1. /\ TypeOK /\ StreamInv(r) /\ events # <<>>
      /\ UNCHANGED <<writerVars, phase, inbox, queue, through, pos, faults, present>>
      /\ charged' = [charged EXCEPT ![r] = IF r \in Bounded THEN @ - Len(events) ELSE @]
      /\ inflight' = [inflight EXCEPT ![r] = <<>>]
      /\ cursor' = [cursor EXCEPT ![r] = cursor'[r]]
      /\ seen' = [seen EXCEPT ![r] = seen'[r]]
  <2>1. /\ TypeOK /\ StreamInv(r)
    BY DEF IInv
  <2>2. /\ cursor' = [cursor EXCEPT ![r] = cursor'[r]]
        /\ seen' = [seen EXCEPT ![r] = seen'[r]]
    BY <2>1 DEF Receive, TypeOK
  <2>3. QED
    BY <2>1, <2>2 DEF Receive
<1>2. /\ cursor'[r] \in Elements(events)
      /\ \A n \in Elements(events) : n <= cursor'[r]
      /\ seen'[r] = seen[r] \cup Elements(events)
  BY Applied
<1>3. /\ log' = log /\ Published(r)' = Published(r)
      /\ \A m : Wanted(r, m)' <=> Wanted(r, m)
  BY <1>1, WriterVarsStay DEF IInv
<1>4. /\ inflight'[r] = <<>>
      /\ charged'[r] = IF r \in Bounded THEN charged[r] - Len(events) ELSE charged[r]
      /\ \A q \in Reader \ {r} : inflight'[q] = inflight[q] /\ charged'[q] = charged[q]
  BY <1>1 DEF TypeOK
<1>5. \A q \in Reader \ {r} : SameStream(q) /\ inbox'[q] = inbox[q]
  BY <1>1, <1>4, Applied DEF SameStream
<1>6. /\ cursor[r] \in Nat /\ Len(log) \in Nat /\ MaxEvents \in Nat /\ through[r] \in Nat
      /\ pos[r] \in Nat /\ Elements(events) \subseteq Nat /\ Elements(events) \subseteq Sequence
      /\ Len(events) \in Nat /\ Len(queue[r]) \in Nat /\ MaxItems \in Nat /\ charged[r] \in Nat
      /\ seen[r] \subseteq Sequence /\ Sequence = 1..MaxEvents
  <2>1. /\ cursor[r] \in Nat /\ Len(log) \in Nat /\ through[r] \in Nat
        /\ pos[r] \in Nat /\ Elements(events) \subseteq Nat /\ seen[r] \subseteq Sequence
        /\ events \in Seq(Sequence) /\ queue[r] \in Seq(Sequence) /\ charged[r] \in Nat
    BY <1>1, StreamTypes
  <2>2. Elements(events) \subseteq Sequence
    BY <2>1, ElementsOf
  <2>3. Len(events) \in Nat /\ Len(queue[r]) \in Nat
    BY <2>1
  <2>4. QED
    BY <2>1, <2>2, <2>3, ConstantsAssumption DEF Sequence
<1>7. /\ cursor'[r] \in Nat /\ cursor[r] < cursor'[r] /\ cursor'[r] <= Len(log)
      /\ cursor'[r] \in Sequence
      /\ \A m \in 1..cursor'[r] : Wanted(r, m) => m <= cursor[r] \/ m \in Elements(events)
  BY <1>1, <1>2, <1>6 DEF StreamInv, InflightInv
<1> HIDE DEF events
<1>8. charged'[r] \in Nat /\ BudgetInv(r)'
  <2>1. CASE r \in Bounded
    <3>1. charged[r] = Len(queue[r]) + Len(events) /\ charged[r] <= MaxItems
      BY <1>1, <2>1, Zenon DEF StreamInv, BudgetInv, events
    <3>2. \A a, b, c, m \in Nat : c = a + b /\ c <= m => c - b = a + 0 /\ a + 0 <= m /\ a + 0 \in Nat
      OBVIOUS
    <3>3. /\ charged[r] - Len(events) = Len(queue[r]) + 0
          /\ Len(queue[r]) + 0 <= MaxItems /\ Len(queue[r]) + 0 \in Nat
      BY <1>6, <3>1, <3>2, Zenon
    <3>4. charged'[r] = Len(queue[r]) + 0
      BY <1>4, <2>1, <3>3, Zenon
    <3>5. queue'[r] = queue[r] /\ Len(inflight'[r]) = 0
      BY <1>1, <1>4, EmptyLists, Zenon
    <3>6. charged'[r] = Len(queue'[r]) + Len(inflight'[r]) /\ charged'[r] <= MaxItems
      BY <3>3, <3>4, <3>5, Zenon
    <3>7. QED
      BY <2>1, <3>3, <3>4, <3>6, Zenon DEF BudgetInv
  <2>2. CASE r \notin Bounded
    <3>1. charged[r] = 0 /\ charged'[r] = charged[r]
      BY <1>1, <1>4, <2>2, Zenon DEF StreamInv, BudgetInv
    <3>2. QED
      BY <2>2, <3>1, <1>6, Zenon DEF BudgetInv
  <2>3. QED
    BY <2>1, <2>2
<1>9. TypeOK'
  <2>1. cursor' \in [Reader -> 0..MaxEvents]
    <3>1. cursor'[r] \in 0..MaxEvents
      BY <1>6, <1>7
    <3>2. cursor \in [Reader -> 0..MaxEvents]
      BY <1>1 DEF TypeOK
    <3>3. QED
      BY <1>1, <3>1, <3>2
  <2>2. seen' \in [Reader -> SUBSET Sequence]
    <3>1. seen'[r] \subseteq Sequence
      BY <1>2, <1>6
    <3>2. QED
      BY <1>1, <3>1 DEF TypeOK
  <2>3. charged' \in [Reader -> Nat]
    BY <1>1, <1>4, <1>8 DEF TypeOK
  <2>4. inflight' \in [Reader -> Seq(Sequence)]
    BY <1>1, EmptyLists DEF TypeOK
  <2>5. QED
    BY <1>1, <2>1, <2>2, <2>3, <2>4 DEF TypeOK, writerVars
<1>10. phase[r] \notin {"off", "subscribed"}
  BY <1>1 DEF StreamInv, Positions, events
<1>11. Positions(r)'
  <2>1. phase[r] = "replaying" => cursor'[r] <= pos[r]
    BY <1>1, <1>2 DEF StreamInv, Positions, events
  <2>2. QED
    BY <1>1, <1>3, <1>4, <1>7, <1>10, <2>1, EmptyLists DEF StreamInv, Positions
<1>12. InflightInv(r)'
  BY <1>4, EmptyLists DEF InflightInv
<1>13. ReplayInv(r)'
  <2>1. ASSUME phase[r] \in {"replaying", "live"},
               NEW n \in 1..(IF phase[r] = "live" THEN through[r] ELSE pos[r]), Wanted(r, n)
        PROVE  n <= cursor'[r]
    <3>1. n <= cursor[r] \/ n \in Elements(events)
      BY <1>1, <2>1 DEF StreamInv, ReplayInv, events
    <3>2. QED
      BY <1>2, <1>6, <1>7, <2>1, <3>1
  <2>2. QED
    BY <1>1, <1>3, <2>1 DEF ReplayInv
<1>14. LiveInv(r)'
  <2>1. ASSUME phase[r] \in {"replaying", "live"},
               NEW n \in (through[r] + 1)..Published(r), Wanted(r, n)
        PROVE  n <= cursor'[r] \/ n \in Elements(queue[r]) \/ n \in Elements(inbox[r])
    <3>1. \/ n <= cursor[r] \/ n \in Elements(events)
          \/ n \in Elements(queue[r]) \/ n \in Elements(inbox[r])
      BY <1>1, <2>1 DEF StreamInv, LiveInv, events
    <3>2. n \in Nat
      BY <1>1, <1>6, <2>1, PublishedPart DEF IInv
    <3>3. QED
      BY <1>2, <1>6, <1>7, <3>1, <3>2
  <2>2. QED
    BY <1>1, <1>3, <2>1 DEF LiveInv
<1>15. OrderInv(r)'
  <2>1. /\ Ascending(queue[r]) /\ Ascending(inbox[r])
        /\ Below(Elements(queue[r]), Elements(inbox[r]))
        /\ \A n \in Elements(queue[r]) \cup Elements(inbox[r]) :
             /\ n \in 1..Published(r)
             /\ n > through[r] => \A m \in Elements(events) : m < n
        /\ phase[r] \in Attached =>
             \A n \in Elements(events) : n <= through[r] \/ n <= Published(r)
    BY <1>1 DEF StreamInv, OrderInv, events
  <2>2. \A n \in Elements(queue[r]) \cup Elements(inbox[r]) :
          n > through[r] => n > cursor'[r]
    BY <1>2, <1>6, <1>7, <2>1
  <2>3. phase[r] \in Attached => cursor'[r] <= through[r] \/ cursor'[r] <= Published(r)
    BY <1>2, <2>1
  <2>4. QED
    BY <1>1, <1>3, <1>4, <2>1, <2>2, <2>3, EmptyLists DEF OrderInv
<1>16. seen'[r] = {m \in 1..cursor'[r] : Wanted(r, m)'}
  <2>1. seen[r] = {m \in 1..cursor[r] : Wanted(r, m)}
    BY <1>1 DEF StreamInv
  <2>2. ASSUME NEW m \in Elements(events) PROVE m \in 1..cursor'[r] /\ Wanted(r, m)
    BY <1>1, <1>2, <1>6, <1>7 DEF StreamInv, InflightInv, events
  <2>3. ASSUME NEW m \in 1..cursor[r] PROVE m \in 1..cursor'[r]
    BY <1>6, <1>7
  <2>4. ASSUME NEW m \in 1..cursor'[r], Wanted(r, m)
        PROVE  m \in 1..cursor[r] \/ m \in Elements(events)
    BY <1>6, <1>7, <2>4
  <2>5. \A m : m \in seen'[r] <=> m \in 1..cursor'[r] /\ Wanted(r, m)
    BY <1>2, <2>1, <2>2, <2>3, <2>4
  <2>6. QED
    BY <1>3, <2>5
<1>17. QED
  BY <1>1, <1>5, <1>8, <1>9, <1>11, <1>12, <1>13, <1>14, <1>15, <1>16, ReaderStep DEF StreamInv
LEMMA Detached ==
  ASSUME TypeOK, NEW r \in Reader, StreamInv(r), log' = log, UNCHANGED clientVars,
         phase'[r] = "off", inbox'[r] = <<>>, queue'[r] = <<>>, inflight'[r] = <<>>,
         charged'[r] = 0, through'[r] = through[r], pos'[r] = pos[r]
  PROVE  StreamInv(r)'
<1>1. \A n : Wanted(r, n)' <=> Wanted(r, n)
  BY DEF Wanted, WantsTopic
<1>2. cursor' = cursor /\ seen' = seen
  BY DEF clientVars
<1>3. Positions(r)'
  BY <1>2 DEF StreamInv, Positions
<1>4. InflightInv(r)' /\ ReplayInv(r)' /\ LiveInv(r)'
  BY EmptyLists DEF InflightInv, ReplayInv, LiveInv
<1>5. OrderInv(r)'
  BY EmptyLists DEF OrderInv, Below, Attached
<1>6. BudgetInv(r)'
  <2>1. Len(queue'[r]) = 0 /\ Len(inflight'[r]) = 0
    BY EmptyLists, Zenon
  <2>2. 0 = 0 + 0 /\ 0 <= MaxItems
    BY ConstantsAssumption
  <2>3. QED
    BY <2>1, <2>2, Zenon DEF BudgetInv
<1>7. seen'[r] = {n \in 1..cursor'[r] : Wanted(r, n)'}
  BY <1>1, <1>2 DEF StreamInv
<1>8. QED
  BY <1>3, <1>4, <1>5, <1>6, <1>7 DEF StreamInv

(* What Detach does to each subscription.                                  *)
LEMMA DetachEach ==
  ASSUME TypeOK, NEW readers \in SUBSET Reader, Detach(readers)
  PROVE  /\ phase' \in [Reader -> Phase] /\ charged' \in [Reader -> Nat]
         /\ inbox' \in [Reader -> Seq(Sequence)] /\ queue' \in [Reader -> Seq(Sequence)]
         /\ inflight' \in [Reader -> Seq(Sequence)]
         /\ through' = through /\ pos' = pos
         /\ \A r \in readers : /\ phase'[r] = "off" /\ inbox'[r] = <<>> /\ queue'[r] = <<>>
                                /\ inflight'[r] = <<>> /\ charged'[r] = 0
         /\ \A r \in Reader \ readers :
              /\ phase'[r] = phase[r] /\ inbox'[r] = inbox[r] /\ queue'[r] = queue[r]
              /\ inflight'[r] = inflight[r] /\ charged'[r] = charged[r]
<1> USE DEF Detach
<1>1. \A r \in Reader : /\ phase[r] \in Phase /\ charged[r] \in Nat
                        /\ inbox[r] \in Seq(Sequence) /\ queue[r] \in Seq(Sequence)
                        /\ inflight[r] \in Seq(Sequence)
  BY DEF TypeOK
<1>2. "off" \in Phase /\ 0 \in Nat /\ <<>> \in Seq(Sequence)
  BY EmptyLists DEF Phase
<1>3. phase' \in [Reader -> Phase] /\ charged' \in [Reader -> Nat]
  BY <1>1, <1>2
<1>4. inbox' \in [Reader -> Seq(Sequence)]
  BY <1>1, <1>2
<1>5. queue' \in [Reader -> Seq(Sequence)]
  BY <1>1, <1>2
<1>6. inflight' \in [Reader -> Seq(Sequence)]
  BY <1>1, <1>2
<1>7. QED
  BY <1>3, <1>4, <1>5, <1>6

LEMMA DisconnectInv ==
  ASSUME IInv, NEW r \in Reader, Disconnect(r)
  PROVE  IInv'
<1> USE DEF Disconnect
<1>1. /\ TypeOK /\ StreamInv(r) /\ Detach({r}) /\ UNCHANGED <<writerVars, clientVars, present>>
      /\ faults' \in 0..MaxFaults
  BY ConstantsAssumption DEF IInv, Fault, TypeOK
<1>2. /\ phase' \in [Reader -> Phase] /\ charged' \in [Reader -> Nat]
      /\ inbox' \in [Reader -> Seq(Sequence)] /\ queue' \in [Reader -> Seq(Sequence)]
      /\ inflight' \in [Reader -> Seq(Sequence)]
      /\ through' = through /\ pos' = pos
      /\ \A q \in {r} : /\ phase'[q] = "off" /\ inbox'[q] = <<>> /\ queue'[q] = <<>>
                         /\ inflight'[q] = <<>> /\ charged'[q] = 0
      /\ \A q \in Reader \ {r} :
           /\ phase'[q] = phase[q] /\ inbox'[q] = inbox[q] /\ queue'[q] = queue[q]
           /\ inflight'[q] = inflight[q] /\ charged'[q] = charged[q]
  BY <1>1, DetachEach
<1>3. TypeOK'
  BY <1>1, <1>2 DEF TypeOK, writerVars, clientVars
<1>4. \A q \in Reader \ {r} : SameStream(q) /\ inbox'[q] = inbox[q]
  BY <1>1, <1>2 DEF SameStream, clientVars
<1>5. StreamInv(r)'
  BY <1>1, <1>2, Detached DEF writerVars
<1>6. QED
  BY <1>1, <1>3, <1>4, <1>5, ReaderStep

LEMMA CrashInv ==
  ASSUME IInv, Crash
  PROVE  IInv'
<1>1. /\ TypeOK /\ Detach(Reader) /\ UNCHANGED <<log, clientVars, present>>
      /\ faults' \in 0..MaxFaults
      /\ connection' = NoWriter /\ lane' = NoWriter
      /\ wpc' = [w \in Writer |-> "idle"] /\ batch' = [w \in Writer |-> <<>>]
  BY ConstantsAssumption DEF IInv, Fault, TypeOK, Crash
<1>2. /\ phase' \in [Reader -> Phase] /\ charged' \in [Reader -> Nat]
      /\ inbox' \in [Reader -> Seq(Sequence)] /\ queue' \in [Reader -> Seq(Sequence)]
      /\ inflight' \in [Reader -> Seq(Sequence)]
      /\ through' = through /\ pos' = pos
      /\ \A q \in Reader : /\ phase'[q] = "off" /\ inbox'[q] = <<>> /\ queue'[q] = <<>>
                            /\ inflight'[q] = <<>> /\ charged'[q] = 0
  BY <1>1, DetachEach
<1>3. TypeOK'
  <2>1. wpc' \in [Writer -> WriterPC]
    BY <1>1 DEF WriterPC
  <2>2. batch' \in [Writer -> Seq(Sequence)]
    BY <1>1, EmptyLists
  <2>3. QED
    BY <1>1, <1>2, <2>1, <2>2 DEF TypeOK, clientVars
<1>4. WriterInv'
  <2>1. \A w \in Writer : wpc'[w] = "idle" /\ batch'[w] = <<>>
    BY <1>1
  <2>2. \A w \in Writer : Len(batch'[w]) = 0 /\ DOMAIN batch'[w] = {}
    BY <2>1, EmptyLists, Zenon
  <2>3. Len(log') \in Nat
    BY <1>3 DEF TypeOK
  <2>4. QED
    BY <1>1, <2>1, <2>2, <2>3, ConstantsAssumption DEF WriterInv
<1>5. ASSUME NEW r \in Reader PROVE StreamInv(r)'
  <2>1. StreamInv(r)
    BY DEF IInv
  <2>2. QED
    BY <1>1, <1>2, <2>1, Detached
<1>6. QED
  BY <1>3, <1>4, <1>5 DEF IInv
-----------------------------------------------------------------------------
(* The theorems.                                                           *)

LEMMA Beginning ==
  ASSUME NEW X, NEW s \in Seq(X), NEW t \in Seq(X)
  PROVE  SubSeq(s \o t, 1, Len(s)) = s
<1> DEFINE p == SubSeq(s \o t, 1, Len(s))
<1>1. /\ Len(s) \in Nat /\ Len(t) \in Nat /\ s \o t \in Seq(X)
      /\ Len(s \o t) = Len(s) + Len(t) /\ s \in [1..Len(s) -> X]
      /\ \A i \in 1..Len(s) : (s \o t)[i] = s[i]
  OBVIOUS
<1>2. \A i \in 1..Len(s) : i \in 1..(Len(s) + Len(t))
  BY <1>1
<1>3. p = [i \in 1..Len(s) |-> (s \o t)[i]]
  BY <1>1, <1>2
<1>4. p = [i \in 1..Len(s) |-> s[i]]
  BY <1>1, <1>3
<1>5. QED
  BY <1>1, <1>4

LEMMA InitInv == Init => IInv
<1> SUFFICES ASSUME Init PROVE IInv
  OBVIOUS
<1> USE DEF Init
<1>1. TypeOK
  <2>1. log \in Seq(Topic) /\ Len(log) = 0
    BY EmptyLists
  <2>2. wpc \in [Writer -> WriterPC] /\ phase \in [Reader -> Phase]
    BY DEF WriterPC, Phase
  <2>3. /\ batch \in [Writer -> Seq(Sequence)] /\ inbox \in [Reader -> Seq(Sequence)]
        /\ queue \in [Reader -> Seq(Sequence)] /\ inflight \in [Reader -> Seq(Sequence)]
    BY EmptyLists
  <2>4. MaxEvents \in Nat /\ MaxFaults \in Nat
    BY ConstantsAssumption
  <2>5. QED
    BY <2>1, <2>2, <2>3, <2>4 DEF TypeOK
<1>2. WriterInv
  BY ConstantsAssumption, EmptyLists DEF WriterInv
<1>3. ASSUME NEW r \in Reader PROVE StreamInv(r)
  <2>1. /\ phase[r] = "off" /\ inbox[r] = <<>> /\ queue[r] = <<>> /\ inflight[r] = <<>>
        /\ charged[r] = 0 /\ through[r] = 0 /\ pos[r] = 0 /\ cursor[r] = 0 /\ seen[r] = {}
        /\ Len(log) = 0
    BY EmptyLists
  <2>2. Positions(r) /\ InflightInv(r) /\ ReplayInv(r) /\ LiveInv(r)
    BY <2>1, EmptyLists DEF Positions, InflightInv, ReplayInv, LiveInv
  <2>3. OrderInv(r)
    BY <2>1, EmptyLists DEF OrderInv, Below, Attached
  <2>4. BudgetInv(r)
    <3>1. Len(queue[r]) = 0 /\ Len(inflight[r]) = 0
      BY <2>1, EmptyLists, Zenon
    <3>2. 0 = 0 + 0 /\ 0 <= MaxItems
      BY ConstantsAssumption
    <3>3. QED
      BY <2>1, <3>1, <3>2, Zenon DEF BudgetInv
  <2>5. seen[r] = {n \in 1..cursor[r] : Wanted(r, n)}
    BY <2>1
  <2>6. QED
    BY <2>2, <2>3, <2>4, <2>5 DEF StreamInv
<1>4. QED
  BY <1>1, <1>2, <1>3 DEF IInv

LEMMA StutterInv ==
  ASSUME IInv, UNCHANGED vars
  PROVE  IInv'
<1> USE DEF vars, writerVars, streamVars, clientVars
<1>1. TypeOK'
  BY DEF IInv, TypeOK
<1>2. WriterInv'
  BY DEF IInv, WriterInv
<1>3. \A r \in Reader : Published(r)' = Published(r)
  BY DEF Published
<1>4. LogGrows
  BY LogStays DEF IInv
<1>5. QED
  BY <1>1, <1>2, <1>3, <1>4, StreamsFrame DEF IInv

LEMMA NextInv ==
  ASSUME IInv, [Next]_vars
  PROVE  IInv'
<1>1. CASE \E w \in Writer : WriterStep(w)
  <2> PICK w \in Writer : WriterStep(w)
    BY <1>1
  <2>1. CASE BeginTransaction(w)
    BY <2>1, BeginTransactionInv
  <2>2. CASE Rollback(w)
    BY <2>2, RollbackInv
  <2>3. CASE EndBody(w)
    BY <2>3, EndBodyInv
  <2>4. CASE TakeLane(w)
    BY <2>4, TakeLaneInv
  <2>5. CASE Commit(w)
    BY <2>5, CommitInv
  <2>6. CASE CommitFails(w)
    BY <2>6, CommitFailsInv
  <2>7. CASE PublishCommitted(w)
    BY <2>7, PublishCommittedInv
  <2>8. CASE PublishLiveEvents(w)
    BY <2>8, PublishLiveEventsInv
  <2>9. QED
    BY <2>1, <2>2, <2>3, <2>4, <2>5, <2>6, <2>7, <2>8 DEF WriterStep
<1>2. CASE \E r \in Reader : Follow(r) \/ Disconnect(r)
  <2> PICK r \in Reader : Follow(r) \/ Disconnect(r)
    BY <1>2
  <2>1. CASE Subscribe(r)
    BY <2>1, SubscribeInv
  <2>2. CASE ReadHighWater(r)
    BY <2>2, ReadHighWaterInv
  <2>3. CASE ReplayPage(r)
    BY <2>3, ReplayPageInv
  <2>4. CASE ReplayOverflow(r)
    BY <2>4, OverflowInv DEF ReplayOverflow, Attached
  <2>5. CASE EndReplay(r)
    BY <2>5, EndReplayInv
  <2>6. CASE Drain(r)
    BY <2>6, DrainInv
  <2>7. CASE DrainOverflow(r)
    BY <2>7, OverflowInv DEF DrainOverflow
  <2>8. CASE TakeQueue(r)
    BY <2>8, TakeQueueInv
  <2>9. CASE TakeInbox(r)
    BY <2>9, TakeInboxInv
  <2>10. CASE Receive(r)
    BY <2>10, ReceiveInv
  <2>11. CASE Disconnect(r)
    BY <2>11, DisconnectInv
  <2>12. QED
    BY <2>1, <2>2, <2>3, <2>4, <2>5, <2>6, <2>7, <2>8, <2>9, <2>10, <2>11 DEF Follow
<1>3. CASE Crash
  BY <1>3, CrashInv
<1>4. CASE UNCHANGED vars
  BY <1>4, StutterInv
<1>5. QED
  BY <1>1, <1>2, <1>3, <1>4 DEF Next

(* The invariant the theorems rest on: what a subscriber has seen is what  *)
(* it wants of the log up to its cursor, and what it wants beyond is on    *)
(* its way, waiting in order, still to be replayed or not yet published.   *)
THEOREM SinkInvariant == Spec => []IInv
<1>1. Init => IInv
  BY InitInv
<1>2. IInv /\ [Next]_vars => IInv'
  BY NextInv
<1>3. QED
  BY <1>1, <1>2, PTL DEF Spec

(* Every variable of the sink and of the streams keeps its type.           *)
THEOREM SinkTypes == Spec => []TypeOK
<1>1. IInv => TypeOK
  BY DEF IInv
<1>2. QED
  BY <1>1, SinkInvariant, PTL

(* No subscriber is passed over by an event it wants, through replays,     *)
(* overflows, disconnections and crashes (EventSink.ts:256).               *)
THEOREM SinkSkipsNothing == Spec => []NoEventSkipped
<1>1. IInv => NoEventSkipped
  BY DEF IInv, StreamInv, NoEventSkipped
<1>2. QED
  BY <1>1, SinkInvariant, PTL

(* No event comes twice or out of order, not even to subscribers that do   *)
(* not look (EventSink.ts:868).                                            *)
THEOREM StreamsStayInOrder == Spec => []StreamsAscend
<1>1. ASSUME IInv, NEW r \in Reader, NEW i \in DOMAIN inflight[r]
      PROVE  inflight[r][i] > IF i = 1 THEN cursor[r] ELSE inflight[r][i - 1]
  <2>1. inflight[r] \in Seq(Sequence) /\ Elements(inflight[r]) \subseteq Nat /\ cursor[r] \in Nat
    BY <1>1, StreamTypes DEF IInv
  <2>2. /\ Ascending(inflight[r])
        /\ \A n \in Elements(inflight[r]) : cursor[r] < n
    BY <1>1 DEF IInv, StreamInv, InflightInv
  <2>3. inflight[r][i] \in Elements(inflight[r])
    BY DEF Elements
  <2>4. CASE i = 1
    BY <2>1, <2>2, <2>3, <2>4
  <2>5. CASE i # 1
    <3>1. i - 1 \in DOMAIN inflight[r] /\ i - 1 < i
      BY <2>1, <2>5
    <3>2. inflight[r][i - 1] < inflight[r][i] /\ inflight[r][i - 1] \in Nat
      BY <2>1, <2>2, <3>1 DEF Ascending, Elements
    <3>3. QED
      BY <2>1, <2>3, <2>5, <3>2
  <2>6. QED
    BY <2>4, <2>5
<1>2. IInv => StreamsAscend
  BY <1>1 DEF StreamsAscend
<1>3. QED
  BY <1>2, SinkInvariant, PTL

(* A budget charges what its stream holds and never exceeds its limit      *)
(* (LiveStreamBudget.ts:62).                                               *)
THEOREM BudgetStaysExact == Spec => []BudgetExact
<1>1. Bounded \subseteq Reader
  BY ConstantsAssumption
<1>2. IInv => BudgetExact
  BY <1>1, Zenon DEF IInv, StreamInv, BudgetInv, BudgetExact
<1>3. QED
  BY <1>2, SinkInvariant, PTL

(* The sink implements the feed: one log that grows, and cursors that move *)
(* forward over what their subscribers have seen (EventSink.ts:832).       *)
THEOREM SinkImplementsFeed == Spec => ImplementsFeed
<1>1. Init => Feed!Init
  BY DEF Init, Feed!Init
<1>2. ASSUME IInv, NEW w \in Writer, Commit(w)
      PROVE  Feed!Grow \/ UNCHANGED <<log, cursor, seen>>
  <2>1. PICK n \in 0..MaxBatch : \E topics \in [1..n -> Topic] : log' = log \o topics
    BY <1>2 DEF Commit
  <2>2. PICK topics \in [1..n -> Topic] : log' = log \o topics
    BY <2>1
  <2>3. MaxBatch \in Nat /\ n \in Nat /\ log \in Seq(Topic) /\ Len(log) \in Nat
    BY <1>2, ConstantsAssumption DEF IInv, TypeOK
  <2>4. topics \in Seq(Topic) /\ Len(topics) = n
    BY <2>3, SeqOf
  <2>5. UNCHANGED <<cursor, seen>>
    BY <1>2 DEF Commit, clientVars
  <2>6. CASE n = 0
    <3>1. log' = log
      BY <2>2, <2>3, <2>4, <2>6
    <3>2. QED
      BY <2>5, <3>1
  <2>7. CASE n # 0
    <3>1. n \in 1..(Len(log') - Len(log)) /\ Len(log') - n = Len(log)
      <4>1. Len(log') = Len(log) + n
        <5>1. Len(log \o topics) = Len(log) + Len(topics)
          BY <2>3, <2>4
        <5>2. QED
          BY <2>2, <2>4, <5>1, Zenon
      <4>2. n \in 1..((Len(log) + n) - Len(log)) /\ (Len(log) + n) - n = Len(log)
        BY <2>3, <2>7
      <4>3. QED
        BY <4>1, <4>2, Zenon
    <3>2. SubSeq(log \o topics, 1, Len(log)) = log
      BY <2>3, <2>4, Beginning
    <3>3. SubSeq(log', 1, Len(log') - n) = log
      BY <2>2, <3>1, <3>2
    <3>4. QED
      BY <2>5, <3>1, <3>3 DEF Feed!Grow
  <2>8. QED
    BY <2>6, <2>7
<1>3. ASSUME IInv, IInv', NEW r \in Reader, Receive(r)
      PROVE  Feed!Deliver(r)
  <2>1. /\ log' = log /\ TypeOK /\ StreamInv(r)
    BY <1>3 DEF Receive, writerVars, IInv
  <2>2. cursor'[r] \in Elements(inflight[r])
    BY <1>3, Applied
  <2>3. /\ cursor' = [cursor EXCEPT ![r] = cursor'[r]]
        /\ seen' = [seen EXCEPT ![r] = seen'[r]]
    BY <1>3, <2>1 DEF Receive, TypeOK
  <2>4. /\ cursor[r] \in Nat /\ Len(log) \in Nat /\ Elements(inflight[r]) \subseteq Nat
        /\ cursor'[r] \in Nat
    BY <2>1, <2>2, StreamTypes
  <2>5. cursor'[r] \in (cursor[r] + 1)..Len(log)
    BY <2>1, <2>2, <2>4 DEF StreamInv, InflightInv
  <2>6. /\ seen[r] = {n \in 1..cursor[r] : Wanted(r, n)}
        /\ seen'[r] = {n \in 1..cursor'[r] : Wanted(r, n)}
    BY <1>3, <2>1 DEF IInv, StreamInv, Wanted
  <2>7. seen'[r] = seen[r] \cup {n \in (cursor[r] + 1)..cursor'[r] : WantsTopic(r, log[n])}
    BY <2>4, <2>5, <2>6 DEF Wanted
  <2>8. QED
    BY <2>1, <2>3, <2>5, <2>7 DEF Feed!Deliver
<1>4. IInv /\ IInv' /\ [Next]_vars => [Feed!Next]_<<log, cursor, seen>>
  <2> SUFFICES ASSUME IInv, IInv', [Next]_vars
               PROVE  Feed!Next \/ UNCHANGED <<log, cursor, seen>>
    OBVIOUS
  <2>1. CASE \E w \in Writer : Commit(w)
    BY <1>2, <2>1 DEF Feed!Next
  <2>2. CASE \E r \in Reader : Receive(r)
    BY <1>3, <2>2 DEF Feed!Next
  <2>3. CASE UNCHANGED <<log, clientVars>>
    BY <2>3 DEF clientVars
  <2>4. QED
    BY <2>1, <2>2, <2>3 DEF Next, WriterStep, Follow, vars, writerVars, clientVars,
       BeginTransaction, Rollback, EndBody, TakeLane, CommitFails, PublishCommitted,
       PublishLiveEvents, Subscribe, ReadHighWater, ReplayPage, ReplayOverflow, EndReplay,
       Drain, DrainOverflow, Overflow, TakeQueue, TakeInbox, Disconnect, Crash
<1>5. QED
  BY <1>1, <1>4, SinkInvariant, PTL DEF Spec, ImplementsFeed, Feed!Spec
-----------------------------------------------------------------------------
(* Nobody waits in a circle, and nobody rests too early.                   *)

(* A writer that waits for the lane with the connection in its hands waits *)
(* for one that needs the lane only to announce what it has committed.     *)
LaneComesFree ==
  \A w \in Writer :
    wpc[w] = "waiting" /\ lane # NoWriter =>
      lane # w /\ connection # lane /\ wpc[lane] \in {"committed", "announced"}

(* Committed and not announced to all that listen.                         *)
Unannounced == \E w \in Writer : wpc[w] \in {"committed", "announced"}

(* A live stream with nothing to hand over, when nothing is left to be     *)
(* announced, belongs to a subscriber that has seen all it wants of the    *)
(* log: there is no event left for which nobody has a step to take.        *)
RestsOnlyAtTheEnd ==
  \A r \in Reader :
    /\ phase[r] = "live" /\ inflight[r] = <<>> /\ queue[r] = <<>> /\ inbox[r] = <<>>
    /\ ~Unannounced
    => seen[r] = {n \in 1..Len(log) : Wanted(r, n)}

(* Nobody who holds the lane waits for the connection, so that writers     *)
(* never wait for each other in a circle (RunMetrics.ts:44).               *)
THEOREM PublicationIsNeverBlocked == Spec => []LaneComesFree
<1>1. ASSUME IInv, NEW w \in Writer, wpc[w] = "waiting", lane # NoWriter
      PROVE  lane # w /\ connection # lane /\ wpc[lane] \in {"committed", "announced"}
  <2>1. lane \in Writer
    BY <1>1 DEF IInv, TypeOK
  <2>2. wpc[lane] \in {"sealed", "committed", "announced"} /\ lane # w
    BY <1>1, <2>1 DEF IInv, WriterInv
  <2>3. connection = w
    BY <1>1 DEF IInv, WriterInv
  <2>4. wpc[lane] \notin {"transaction", "waiting", "sealed"}
    BY <1>1, <2>1, <2>2, <2>3 DEF IInv, WriterInv
  <2>5. QED
    BY <2>2, <2>3, <2>4
<1>2. IInv => LaneComesFree
  BY <1>1 DEF LaneComesFree
<1>3. QED
  BY <1>2, SinkInvariant, PTL

(* A stream rests only when its subscriber has seen everything: no event   *)
(* is lost between the replay and what is published (EventSink.ts:832).    *)
THEOREM StreamsRestAtTheEnd == Spec => []RestsOnlyAtTheEnd
<1>1. ASSUME IInv, ~Unannounced, NEW r \in Reader, phase[r] = "live",
             inflight[r] = <<>>, queue[r] = <<>>, inbox[r] = <<>>
      PROVE  seen[r] = {n \in 1..Len(log) : Wanted(r, n)}
  <2>1. /\ Elements(inflight[r]) = {} /\ Elements(queue[r]) = {} /\ Elements(inbox[r]) = {}
    BY <1>1 DEF Elements
  <2>2. StreamInv(r) /\ cursor[r] \in Nat /\ through[r] \in Nat /\ Len(log) \in Nat
    BY <1>1, StreamTypes DEF IInv
  <2>3. Published(r) = Len(log)
    <3>1. CASE lane = NoWriter
      BY <3>1 DEF Published
    <3>2. CASE lane # NoWriter
      <4>1. lane \in Writer /\ wpc[lane] = "sealed"
        BY <1>1, <3>2 DEF IInv, TypeOK, WriterInv, Unannounced
      <4>2. batch[lane] = <<>>
        BY <1>1, <4>1 DEF IInv, WriterInv
      <4>3. QED
        BY <2>2, <4>1, <4>2 DEF Published
    <3>3. QED
      BY <3>1, <3>2
  <2>4. ASSUME NEW n \in 1..Len(log), Wanted(r, n)
        PROVE  n <= cursor[r]
    <3>1. CASE n <= through[r]
      BY <1>1, <2>1, <2>2, <2>4, <3>1 DEF StreamInv, ReplayInv
    <3>2. CASE n > through[r]
      <4>1. n \in (through[r] + 1)..Published(r)
        BY <2>2, <2>3, <3>2
      <4>2. QED
        BY <1>1, <2>1, <2>2, <2>4, <4>1 DEF StreamInv, LiveInv
    <3>3. QED
      BY <2>2, <3>1, <3>2
  <2>5. cursor[r] <= Len(log) /\ seen[r] = {n \in 1..cursor[r] : Wanted(r, n)}
    BY <2>2 DEF StreamInv, Positions
  <2>6. QED
    BY <2>2, <2>4, <2>5
<1>2. IInv => RestsOnlyAtTheEnd
  BY <1>1 DEF RestsOnlyAtTheEnd
<1>3. QED
  BY <1>2, SinkInvariant, PTL
=============================================================================

------------------------- MODULE SessionStreamProofs -------------------------
(***************************************************************************)
(* Proofs about SessionStream, for every capacity of the ring, every depth *)
(* of the outbox and any number of updates, connections and failures.      *)
(* The second part is about the two outboxes on their own, with any number *)
(* of streams.                                                             *)
(***************************************************************************)
EXTENDS SessionStream, Outbox, FiniteSetTheorems, NaturalsInduction, WellFoundedInduction, TLAPS

\* What a sequence holds.
Items(q) == {q[i] : i \in DOMAIN q}

AnnounceMsg == [type : {"announce"}]
Frame == [type : {"resume"}] \cup [type : {"resync"}, since : Nat]

\* An item stands for a range of seqs that were given out; an update for one.
ItemOK(m) ==
  /\ m.from <= m.to
  /\ m.to <= counter
  /\ m.type = "update" => m.from = m.to

\* What the relay and the client exchange and keep queued.
Shapes ==
  /\ toRelay \in Seq(Frame)
  /\ toClient \in Seq(AnnounceMsg \cup OB!Item)
  /\ outbox \in Seq(OB!Item)
  /\ chain \in Seq(Nat)
  /\ applied \in Seq(Nat)
  /\ \A m \in Items(toClient) : m.type # "announce" => ItemOK(m)
  /\ \A m \in Items(outbox) : ItemOK(m)
  /\ \A n \in Items(chain) : n <= counter
  /\ \A n \in AppliedSet : n <= counter

\* A waiting reply answers this connection's resync_request.
ReplyOK ==
  /\ reply.pending \in BOOLEAN
  /\ reply.pending =>
       /\ resynced /\ reply.since = cursor
       /\ reply.dropped \in BOOLEAN
       /\ reply.droppedTo \in 0..counter
       /\ reply.dropped => cursor < reply.droppedTo
       /\ reply.entries \subseteq 1..counter

\* What is on the wire belongs to this connection; a client that resynced, or is
\* about to, has been subscribed before; the cursor is that of the one request.
Connection ==
  /\ ~conn => /\ toRelay = << >> /\ toClient = << >> /\ outbox = << >>
              /\ ~subscribed /\ ~reply.pending
  /\ conn /\ resynced => subscribed
  /\ (\E m \in Items(toClient) : m.type = "announce") => subscribed
  /\ \A m \in Items(toRelay) : m.type = "resync" => resynced /\ m.since = cursor

\* The outbox holds disjoint ranges in increasing order, all of them before the
\* update whose handler has not fanned it out yet.
OutboxOrder ==
  /\ \A i, j \in DOMAIN outbox : i < j => outbox[i].to < outbox[j].from
  /\ stage # "idle" => \A m \in Items(outbox) : m.to < counter

RingOrder == stage = "assigned" => lastEvicted < counter

\* Some item of q stands for seq n.
StandsFor(q, n) ==
  \E m \in Items(q) : m.type # "announce" /\ m.from <= n /\ n <= m.to

\* Where a seq can be that the client has yet to get: in its decrypt queue, on
\* the wire, in the outbox, in the handler that fans it out, within the reach of
\* the request under way, or in the reply that waits.
OnItsWay(n) ==
  \/ n \in Items(chain)
  \/ StandsFor(toClient, n)
  \/ StandsFor(outbox, n)
  \/ n = counter /\ stage # "idle"
  \/ /\ \E m \in Items(toRelay) : m.type = "resync"
     /\ n \in ring \/ n <= lastEvicted
  \/ /\ reply.pending
     /\ IF reply.dropped THEN n <= reply.droppedTo \/ n \in ring ELSE n \in reply.entries

\* No seq after the cursor is ever lost sight of.
Coverage ==
  conn /\ resynced =>
    \A n \in (cursor + 1)..counter : Accounted(n) \/ n \in raced \/ OnItsWay(n)

IInv ==
  /\ TypeOK
  /\ Shapes
  /\ ReplyOK
  /\ Connection
  /\ OutboxOrder
  /\ RingOrder
  /\ RingAccountsForEverySeq
  /\ AppliedOnce
  /\ Coverage

-----------------------------------------------------------------------------
(* What sequences hold.                                                    *)

\* Appending adds one element.
LEMMA ItemsAppend ==
  ASSUME NEW S, NEW q \in Seq(S), NEW x
  PROVE  Items(Append(q, x)) = Items(q) \cup {x}
<1> DEFINE r == Append(q, x)
<1>1. /\ DOMAIN r = 1..(Len(q) + 1)
      /\ \A i \in 1..Len(q) : r[i] = q[i]
      /\ r[Len(q) + 1] = x
      /\ DOMAIN q = 1..Len(q) /\ Len(q) \in Nat
  OBVIOUS
<1> HIDE DEF r
<1>2. Items(r) \subseteq Items(q) \cup {x}
  BY <1>1 DEF Items
<1>3. ASSUME NEW y \in Items(q) PROVE y \in Items(r)
  BY <1>1, <1>3 DEF Items
<1>4. x \in Items(r)
  BY <1>1 DEF Items
<1> QED
  BY <1>2, <1>3, <1>4 DEF r

\* A non-empty sequence is its head and the rest.
LEMMA ItemsTail ==
  ASSUME NEW S, NEW q \in Seq(S), q # << >>
  PROVE  /\ Tail(q) \in Seq(S)
         /\ Head(q) \in S
         /\ Items(q) = {Head(q)} \cup Items(Tail(q))
<1> DEFINE r == Tail(q)
<1>1. /\ DOMAIN q = 1..Len(q) /\ Len(q) \in Nat /\ Len(q) >= 1
      /\ r \in Seq(S) /\ Len(r) = Len(q) - 1
      /\ DOMAIN r = 1..(Len(q) - 1)
      /\ \A i \in 1..(Len(q) - 1) : r[i] = q[i + 1]
      /\ Head(q) = q[1] /\ q[1] \in S
  OBVIOUS
<1> HIDE DEF r
<1>2. ASSUME NEW i \in DOMAIN q PROVE q[i] \in {Head(q)} \cup Items(r)
  <2>1. CASE i = 1
    BY <2>1, <1>1
  <2>2. CASE i # 1
    <3>1. i - 1 \in DOMAIN r /\ r[i - 1] = q[i]
      BY <2>2, <1>1
    <3> QED
      BY <3>1 DEF Items
  <2> QED
    BY <2>1, <2>2
<1>3. ASSUME NEW i \in DOMAIN r PROVE r[i] \in Items(q)
  <2>1. i + 1 \in DOMAIN q /\ r[i] = q[i + 1]
    BY <1>1
  <2> QED
    BY <2>1 DEF Items
<1>4. Head(q) \in Items(q)
  BY <1>1 DEF Items
<1> QED
  BY <1>1, <1>2, <1>3, <1>4 DEF Items, r

\* A concatenation holds what its parts hold.
LEMMA ItemsConcat ==
  ASSUME NEW S, NEW q \in Seq(S), NEW r \in Seq(S)
  PROVE  /\ q \o r \in Seq(S)
         /\ Items(q \o r) = Items(q) \cup Items(r)
<1> DEFINE s == q \o r
<1>1. /\ DOMAIN q = 1..Len(q) /\ Len(q) \in Nat
      /\ DOMAIN r = 1..Len(r) /\ Len(r) \in Nat
      /\ s \in Seq(S) /\ DOMAIN s = 1..(Len(q) + Len(r))
      /\ \A i \in 1..Len(q) : s[i] = q[i]
      /\ \A i \in 1..Len(r) : s[Len(q) + i] = r[i]
  OBVIOUS
<1> HIDE DEF s
<1>2. ASSUME NEW i \in DOMAIN s PROVE s[i] \in Items(q) \cup Items(r)
  <2>1. CASE i <= Len(q)
    BY <2>1, <1>1 DEF Items
  <2>2. CASE i > Len(q)
    <3>1. i - Len(q) \in DOMAIN r /\ r[i - Len(q)] = s[i]
      BY <2>2, <1>1
    <3> QED
      BY <3>1 DEF Items
  <2> QED
    BY <2>1, <2>2, <1>1
<1>3. ASSUME NEW i \in DOMAIN q PROVE q[i] \in Items(s)
  BY <1>1 DEF Items
<1>4. ASSUME NEW i \in DOMAIN r PROVE r[i] \in Items(s)
  <2>1. Len(q) + i \in DOMAIN s /\ s[Len(q) + i] = r[i]
    BY <1>1
  <2> QED
    BY <2>1 DEF Items
<1> QED
  BY <1>1, <1>2, <1>3, <1>4 DEF Items, s

-----------------------------------------------------------------------------
(* The operators on sets of seqs.                                          *)

\* A set of naturals has a least element.
LEMMA LeastExists ==
  ASSUME NEW S \in SUBSET Nat, S # {}
  PROVE  \E n \in S : \A m \in S : n <= m
<1> DEFINE R == {ss \in Nat \X Nat : ss[1] < ss[2]}
<1>1. IsWellFoundedOn(R, Nat)
  BY NatLessThanWellFounded, Zenon DEF OpToRel
<1>2. PICK n \in S : \A m \in S : ~(<<m, n>> \in R)
  <2> HIDE DEF R
  <2> QED
    BY <1>1, WFMin, Zenon
<1>3. ASSUME NEW m \in S PROVE n <= m
  <2>1. m \in Nat /\ n \in Nat
    OBVIOUS
  <2>2. m < n => <<m, n>> \in R
    BY <2>1
  <2> QED
    BY <1>2, <2>1, <2>2
<1> QED
  BY <1>3

\* A bounded set of naturals has a greatest element.
LEMMA GreatestExists ==
  ASSUME NEW S \in SUBSET Nat, S # {}, NEW b \in Nat, \A m \in S : m <= b
  PROVE  \E n \in S : \A m \in S : m <= n
<1> DEFINE U == {b - m : m \in S}
<1>1. U \in SUBSET Nat /\ U # {}
  <2>1. \A m \in S : m \in Nat /\ b - m \in Nat
    OBVIOUS
  <2>2. U \in SUBSET Nat
    BY <2>1
  <2>3. PICK m \in S : TRUE
    OBVIOUS
  <2>4. b - m \in U
    BY <2>3
  <2> QED
    BY <2>2, <2>4
<1>2. PICK u \in U : \A v \in U : u <= v
  BY <1>1, LeastExists
<1>3. PICK n \in S : u = b - n
  OBVIOUS
<1>4. ASSUME NEW m \in S PROVE m <= n
  <2>1. b - m \in U /\ m \in Nat /\ n \in Nat
    OBVIOUS
  <2>2. b - n <= b - m
    BY <1>2, <1>3, <2>1
  <2> QED
    BY <2>1, <2>2
<1> QED
  BY <1>4

\* How many elements of S are not above n.
Rank(S, n) == Cardinality({m \in S : m <= n})

\* Ranks number a finite set of naturals from 1 on, without gaps or repetitions.
LEMMA RankIsBijective ==
  ASSUME NEW b \in Nat, NEW S \in SUBSET (1..b)
  PROVE  /\ Cardinality(S) \in Nat
         /\ \A n \in S : Rank(S, n) \in 1..Cardinality(S)
         /\ \A n, k \in S : Rank(S, n) = Rank(S, k) => n = k
         /\ \A i \in 1..Cardinality(S) : \E n \in S : Rank(S, n) = i
<1> DEFINE Below(n) == {m \in S : m <= n}
<1>1. IsFiniteSet(S) /\ Cardinality(S) \in Nat
  <2>1. IsFiniteSet(1..b)
    BY FS_Interval
  <2> QED
    BY <2>1, FS_Subset, FS_CardinalityType
<1>2. ASSUME NEW n \in S
      PROVE  /\ IsFiniteSet(Below(n)) /\ Cardinality(Below(n)) \in Nat
             /\ Cardinality(Below(n)) <= Cardinality(S)
             /\ Cardinality(Below(n)) # 0
  <2>1. Below(n) \in SUBSET S /\ n \in Below(n)
    OBVIOUS
  <2> QED
    BY <2>1, <1>1, FS_Subset, FS_CardinalityType, FS_EmptySet
<1>3. \A n \in S : Rank(S, n) \in 1..Cardinality(S)
  BY <1>1, <1>2 DEF Rank
<1>4. ASSUME NEW n \in S, NEW k \in S, n < k PROVE Rank(S, n) # Rank(S, k)
  <2>a. S \subseteq Nat
    OBVIOUS
  <2>b. ASSUME NEW m \in S, m <= n PROVE m <= k
    <3>1. m \in Nat /\ n \in Nat /\ k \in Nat
      BY <2>a
    <3> QED
      BY <3>1, <2>b, <1>4
  <2>c. k <= k /\ ~(k <= n)
    <3>1. n \in Nat /\ k \in Nat
      BY <2>a
    <3> QED
      BY <3>1, <1>4
  <2>1. Below(n) \in SUBSET Below(k) /\ k \in Below(k) /\ k \notin Below(n)
    BY <2>b, <2>c
  <2>2. Below(k) # Below(n)
    BY <2>1
  <2>3. IsFiniteSet(Below(k))
    BY <1>2
  <2> HIDE DEF Below
  <2>4. Cardinality(Below(k)) # Cardinality(Below(n))
    BY <2>1, <2>2, <2>3, FS_Subset
  <2> QED
    BY <2>4 DEF Rank, Below
<1>5. \A n, k \in S : Rank(S, n) = Rank(S, k) => n = k
  <2> SUFFICES ASSUME NEW n \in S, NEW k \in S, n # k PROVE Rank(S, n) # Rank(S, k)
    OBVIOUS
  <2>1. n < k \/ k < n
    OBVIOUS
  <2> QED
    BY <2>1, <1>4
<1>6. \A i \in 1..Cardinality(S) : \E n \in S : Rank(S, n) = i
  <2> DEFINE T == 1..Cardinality(S)
             f == [n \in S |-> Rank(S, n)]
  <2>1. f \in Injection(S, T)
    BY <1>3, <1>5 DEF Injection, IsInjective
  <2>2. IsFiniteSet(T) /\ Cardinality(T) = Cardinality(S)
    BY <1>1, FS_Interval
  <2> HIDE DEF T
  <2>3. f \in Surjection(S, T)
    <3> HIDE DEF f
    <3> QED
      BY <2>1, <2>2, FS_Injection
  <2> QED
    BY <2>3 DEF Surjection, T
<1> QED
  BY <1>1, <1>3, <1>5, <1>6

\* Replay sends exactly the seqs of the set, each as an update.
LEMMA ReplayIs ==
  ASSUME NEW b \in Nat, NEW S \in SUBSET (1..b)
  PROVE  /\ Replay(S) \in Seq(OB!Item)
         /\ Items(Replay(S)) = {OB!Update(Session, n) : n \in S}
<1> DEFINE At(i) == CHOOSE n \in S : Rank(S, n) = i
           C == Cardinality(S)
<1>1. C \in Nat
  BY RankIsBijective
<1>2. \A i \in 1..C : At(i) \in S /\ Rank(S, At(i)) = i
  BY RankIsBijective
<1>3. ASSUME NEW n \in S PROVE Rank(S, n) \in 1..C /\ At(Rank(S, n)) = n
  <2>1. Rank(S, n) \in 1..C
    BY RankIsBijective
  <2>2. At(Rank(S, n)) \in S /\ Rank(S, At(Rank(S, n))) = Rank(S, n)
    BY <1>2, <2>1
  <2> QED
    BY <2>1, <2>2, RankIsBijective
<1>4. Replay(S) = [i \in 1..C |-> OB!Update(Session, At(i))]
  BY DEF Replay, Rank
<1> HIDE DEF At, C
<1>5. Replay(S) \in Seq(OB!Item)
  <2>1. \A i \in 1..C : OB!Update(Session, At(i)) \in OB!Item
    <3>1. ASSUME NEW i \in 1..C PROVE At(i) \in Nat
      <4>1. At(i) \in S
        BY <1>2
      <4>2. S \subseteq Nat
        OBVIOUS
      <4> QED
        BY <4>1, <4>2
    <3> QED
      BY <3>1 DEF OB!Update, OB!Item
  <2> QED
    BY <1>1, <1>4, <2>1
<1>6. Items(Replay(S)) = {OB!Update(Session, n) : n \in S}
  BY <1>2, <1>3, <1>4 DEF Items
<1> QED
  BY <1>5, <1>6

-----------------------------------------------------------------------------
(* The overflow of an outbox that holds the items of one session.          *)

\* The instance counts as this module does.
LEMMA SameCardinality == ASSUME NEW S PROVE OB!Cardinality(S) = Cardinality(S)
  BY Zenon DEF OB!Cardinality, Cardinality

\* What is dropped becomes one marker, from its first seq to its last.
LEMMA BuildMarkersIs ==
  ASSUME NEW d \in Seq(OB!Item), d # << >>
  PROVE  OB!BuildMarkers(d) = <<OB!Marker(Session, d[1].from, d[Len(d)].to)>>
<1> DEFINE k == Len(d)
<1>1. k \in Nat /\ k >= 1 /\ DOMAIN d = 1..k
  OBVIOUS
<1>2. \A i \in 1..k : d[i].key = Session
  <2>1. \A i \in 1..k : d[i] \in OB!Item
    BY <1>1
  <2> QED
    BY <2>1 DEF OB!Item
<1>3. OB!Starts(d) = {1}
  BY <1>1, <1>2 DEF OB!Starts
<1>4. OB!Nth({1}, 1) = 1
  <2>1. {j \in {1} : j <= 1} = {1}
    OBVIOUS
  <2>2. OB!Cardinality({j \in {1} : j <= 1}) = 1
    BY <2>1, FS_Singleton, SameCardinality
  <2>3. \E i \in {1} : OB!Cardinality({j \in {1} : j <= i}) = 1
    BY <2>2
  <2>4. OB!Nth({1}, 1) \in {1}
    BY <2>3, Zenon DEF OB!Nth
  <2> QED
    BY <2>4
<1>5. OB!GroupOf(d, 1) = 1..k
  BY <1>1, <1>2 DEF OB!GroupOf
<1> DEFINE G == OB!GroupOf(d, 1)
           first == CHOOSE j \in G : \A l \in G :
                      IF "contiguous" = "contiguous" THEN j <= l ELSE d[j].from <= d[l].from
           last == CHOOSE j \in G : \A l \in G :
                     IF "contiguous" = "contiguous" THEN j >= l ELSE d[j].to >= d[l].to
<1>6. first = 1
  <2>1. 1 \in G /\ \A l \in G : 1 <= l
    BY <1>1, <1>5
  <2>2. first \in G /\ \A l \in G : first <= l
    BY <2>1
  <2> QED
    BY <1>1, <1>5, <2>1, <2>2
<1>7. last = k
  <2>1. k \in G /\ \A l \in G : k >= l
    BY <1>1, <1>5
  <2>2. last \in G /\ \A l \in G : last >= l
    BY <2>1
  <2> QED
    BY <1>1, <1>5, <2>1, <2>2
<1>8. OB!MarkerAt(d, 1) = OB!Marker(d[1].key, d[first].from, d[last].to)
  BY DEF OB!MarkerAt
<1>9. OB!Cardinality({1}) = 1
  BY FS_Singleton, SameCardinality
<1>10. d[1].key = Session
  BY <1>1, <1>2
<1> HIDE DEF first, last, G
<1>11. OB!MarkerAt(d, 1) = OB!Marker(Session, d[1].from, d[k].to)
  BY <1>6, <1>7, <1>8, <1>10
<1>12. OB!BuildMarkers(d) = [n \in 1..1 |-> OB!MarkerAt(d, OB!Nth({1}, n))]
  BY <1>3, <1>9 DEF OB!BuildMarkers
<1>13. \A n \in 1..1 : OB!MarkerAt(d, OB!Nth({1}, n)) = OB!Marker(Session, d[1].from, d[k].to)
  <2>1. \A n \in 1..1 : n = 1
    OBVIOUS
  <2> QED
    BY <2>1, <1>4, <1>11
<1> QED
  BY <1>12, <1>13

\* The kept items follow the marker of the dropped ones.
LEMMA DropOldestIs ==
  ASSUME NEW q \in Seq(OB!Item), Len(q) > QueueDepth
  PROVE  LET e == Len(q) - QueueDepth
             r == OB!DropOldest(q)
         IN  /\ r \in Seq(OB!Item)
             /\ Len(r) = QueueDepth + 1
             /\ r[1] = OB!Marker(Session, q[1].from, q[e].to)
             /\ \A i \in 2..(QueueDepth + 1) : r[i] = q[e + i - 1]
<1> DEFINE e == Len(q) - QueueDepth
           d == SubSeq(q, 1, e)
           w == SubSeq(q, e + 1, Len(q))
           M == OB!Marker(Session, q[1].from, q[e].to)
<1>0. QueueDepth \in Nat /\ QueueDepth >= 1
  BY StreamAssumption
<1>1. e \in 1..Len(q) /\ Len(q) \in Nat /\ DOMAIN q = 1..Len(q)
  BY <1>0
<1>2. /\ d \in Seq(OB!Item) /\ Len(d) = e
      /\ d[1] = q[1] /\ d[e] = q[e]
  BY <1>1
<1>3. /\ w \in Seq(OB!Item) /\ Len(w) = QueueDepth
      /\ \A i \in 1..QueueDepth : w[i] = q[e + i]
  BY <1>0, <1>1
<1>4. OB!BuildMarkers(d) = <<M>>
  <2>1. d # << >>
    BY <1>1, <1>2
  <2> HIDE DEF d
  <2>2. OB!BuildMarkers(d) = <<OB!Marker(Session, d[1].from, d[Len(d)].to)>>
    BY <1>2, <2>1, BuildMarkersIs
  <2> QED
    BY <1>2, <2>2
<1>5. OB!DropOldest(q) = <<M>> \o w
  <2>1. Len(q) - QueueDepth > 0
    BY <1>0, <1>1
  <2>2. OB!DropOldest(q) = OB!BuildMarkers(d) \o w
    BY <2>1 DEF OB!DropOldest
  <2> QED
    BY <2>2, <1>4
<1>6. M \in OB!Item
  <2>1. q[1] \in OB!Item /\ q[e] \in OB!Item
    BY <1>1
  <2> QED
    BY <2>1 DEF OB!Item, OB!Marker
<1> HIDE DEF e, d, w, M
<1>7. <<M>> \in Seq(OB!Item) /\ Len(<<M>>) = 1 /\ <<M>>[1] = M
  BY <1>6
<1>8. /\ <<M>> \o w \in Seq(OB!Item)
      /\ Len(<<M>> \o w) = QueueDepth + 1
      /\ (<<M>> \o w)[1] = M
      /\ \A i \in 2..(QueueDepth + 1) : (<<M>> \o w)[i] = w[i - 1]
  BY <1>0, <1>3, <1>7
<1>9. \A i \in 2..(QueueDepth + 1) : w[i - 1] = q[e + i - 1]
  <2> SUFFICES ASSUME NEW i \in 2..(QueueDepth + 1) PROVE w[i - 1] = q[e + i - 1]
    OBVIOUS
  <2>1. i - 1 \in 1..QueueDepth /\ e + (i - 1) = e + i - 1
    BY <1>0, <1>1
  <2> QED
    BY <1>3, <2>1
<1> QED
  BY <1>5, <1>8, <1>9 DEF e, M

Ordered(q) == \A i, j \in DOMAIN q : i < j => q[i].to < q[j].from

\* The overflow keeps the order, stays within the seqs queued before, and loses
\* sight of none of them.
LEMMA DropOldestCovers ==
  ASSUME NEW q \in Seq(OB!Item), q # << >>, Ordered(q),
         NEW b \in Nat,
         \A m \in Items(q) : m.from <= m.to /\ m.to <= b /\ (m.type = "update" => m.from = m.to)
  PROVE  LET r == OB!DropOldest(q)
         IN  /\ r \in Seq(OB!Item) /\ r # << >> /\ Ordered(r)
             /\ \A m \in Items(r) : m.from <= m.to /\ m.to <= b /\ (m.type = "update" => m.from = m.to)
             /\ \A n \in Nat : StandsFor(q, n) => StandsFor(r, n)
<1>0. QueueDepth \in Nat /\ QueueDepth >= 1
  BY StreamAssumption
<1>1. CASE Len(q) <= QueueDepth
  <2>1. OB!DropOldest(q) = q
    BY <1>0, <1>1 DEF OB!DropOldest
  <2> QED
    BY <2>1
<1>2. CASE Len(q) > QueueDepth
  <2> DEFINE r == OB!DropOldest(q)
             e == Len(q) - QueueDepth
  <2>1. /\ e \in 1..Len(q) /\ Len(q) \in Nat /\ DOMAIN q = 1..Len(q)
        /\ e + QueueDepth = Len(q)
    BY <1>0, <1>2
  <2>2. /\ r \in Seq(OB!Item) /\ Len(r) = QueueDepth + 1
        /\ r[1] = OB!Marker(Session, q[1].from, q[e].to)
        /\ \A i \in 2..(QueueDepth + 1) : r[i] = q[e + i - 1]
    BY <1>2, DropOldestIs
  <2> HIDE DEF r
  <2>3. \A i \in 1..Len(q) : /\ q[i] \in OB!Item /\ q[i].from \in Nat /\ q[i].to \in Nat
                             /\ q[i].from <= q[i].to /\ q[i].to <= b
                             /\ q[i].type = "update" => q[i].from = q[i].to
    <3> SUFFICES ASSUME NEW i \in 1..Len(q)
                 PROVE  /\ q[i] \in OB!Item /\ q[i].from \in Nat /\ q[i].to \in Nat
                        /\ q[i].from <= q[i].to /\ q[i].to <= b
                        /\ q[i].type = "update" => q[i].from = q[i].to
      OBVIOUS
    <3>1. q[i] \in OB!Item /\ q[i] \in Items(q)
      BY <2>1 DEF Items
    <3>2. q[i].from \in Nat /\ q[i].to \in Nat
      BY <3>1 DEF OB!Item
    <3> QED
      BY <3>1, <3>2
  <2>4. \A i, j \in 1..Len(q) : i <= j => q[i].from <= q[j].to /\ q[i].to <= q[j].to
    <3> SUFFICES ASSUME NEW i \in 1..Len(q), NEW j \in 1..Len(q), i <= j
                 PROVE  q[i].from <= q[j].to /\ q[i].to <= q[j].to
      OBVIOUS
    <3>1. i = j \/ q[i].to < q[j].from
      BY <2>1 DEF Ordered
    <3> QED
      BY <3>1, <2>3
  <2>5. /\ r[1].type = "marker" /\ r[1].from = q[1].from /\ r[1].to = q[e].to
    BY <2>2 DEF OB!Marker
  <2>6. DOMAIN r = 1..(QueueDepth + 1) /\ r # << >>
    BY <2>2, <1>0
  <2>7. ASSUME NEW i \in 2..(QueueDepth + 1)
        PROVE  r[i] = q[e + i - 1] /\ e + i - 1 \in (e + 1)..Len(q)
    BY <2>1, <2>2, <1>0
  <2>8. Ordered(r)
    <3> SUFFICES ASSUME NEW i \in DOMAIN r, NEW j \in DOMAIN r, i < j
                 PROVE  r[i].to < r[j].from
      BY DEF Ordered
    <3>1. j \in 2..(QueueDepth + 1) /\ r[j] = q[e + j - 1] /\ e + j - 1 \in (e + 1)..Len(q)
      BY <2>6, <2>7, <1>0
    <3>2. CASE i = 1
      <4>1. e < e + j - 1 /\ e \in DOMAIN q /\ e + j - 1 \in DOMAIN q
        BY <2>1, <3>1
      <4> QED
        BY <4>1, <3>1, <3>2, <2>5 DEF Ordered
    <3>3. CASE i # 1
      <4>1. i \in 2..(QueueDepth + 1)
        BY <3>3, <2>6, <1>0
      <4>2. r[i] = q[e + i - 1] /\ e + i - 1 \in DOMAIN q /\ e + j - 1 \in DOMAIN q
        BY <4>1, <2>7, <2>1, <3>1
      <4>3. e + i - 1 < e + j - 1
        BY <2>1, <4>1, <3>1
      <4> QED
        BY <4>2, <4>3, <3>1 DEF Ordered
    <3> QED
      BY <3>2, <3>3
  <2>9. ASSUME NEW m \in Items(r)
        PROVE  m.from <= m.to /\ m.to <= b /\ (m.type = "update" => m.from = m.to)
    <3>1. PICK i \in 1..(QueueDepth + 1) : m = r[i]
      BY <2>6 DEF Items
    <3>2. CASE i = 1
      <4>1. q[1].from <= q[e].to /\ q[e].to <= b
        BY <2>1, <2>3, <2>4
      <4> QED
        BY <4>1, <3>1, <3>2, <2>5
    <3>3. CASE i # 1
      <4>1. i \in 2..(QueueDepth + 1)
        BY <3>3, <1>0
      <4>2. m = q[e + i - 1] /\ e + i - 1 \in 1..Len(q)
        BY <4>1, <3>1, <2>7, <2>1
      <4> QED
        BY <4>2, <2>3
    <3> QED
      BY <3>2, <3>3
  <2>10. ASSUME NEW n \in Nat, StandsFor(q, n) PROVE StandsFor(r, n)
    <3>1. PICK i \in 1..Len(q) : q[i].type # "announce" /\ q[i].from <= n /\ n <= q[i].to
      BY <2>10, <2>1 DEF StandsFor, Items
    <3>2. CASE i <= e
      <4>1. q[1].from <= q[i].from
        <5>1. i = 1 \/ q[1].to < q[i].from
          BY <2>1 DEF Ordered
        <5> QED
          BY <5>1, <2>3, <2>1
      <4>2. q[i].to <= q[e].to
        BY <3>2, <2>1, <2>4
      <4>3. q[1].from \in Nat /\ q[i].from \in Nat /\ q[i].to \in Nat /\ q[e].to \in Nat
        BY <2>3, <2>1
      <4>4. r[1].type # "announce" /\ r[1].from <= n /\ n <= r[1].to
        BY <4>1, <4>2, <4>3, <3>1, <2>5
      <4>5. r[1] \in Items(r)
        BY <2>6, <1>0 DEF Items
      <4> QED
        BY <4>4, <4>5 DEF StandsFor
    <3>3. CASE i > e
      <4>1. i - e + 1 \in 2..(QueueDepth + 1) /\ e + (i - e + 1) - 1 = i
        BY <3>3, <2>1, <1>0
      <4>2. r[i - e + 1] = q[i] /\ i - e + 1 \in DOMAIN r
        BY <4>1, <2>2, <2>6, <1>0
      <4> QED
        BY <4>2, <3>1 DEF StandsFor, Items
    <3> QED
      BY <3>2, <3>3, <2>1
  <2> QED
    BY <2>2, <2>6, <2>8, <2>9, <2>10 DEF r
<1> QED
  BY <1>0, <1>1, <1>2

-----------------------------------------------------------------------------
\* What is queued has the types of the queues.
LEMMA ItemTypes ==
  ASSUME Shapes
  PROVE  /\ \A m \in Items(toClient) : \/ m = [type |-> "announce"]
                                       \/ /\ m \in OB!Item /\ m.type \in {"update", "marker"}
                                          /\ m.from \in Nat /\ m.to \in Nat
         /\ \A m \in Items(outbox) : /\ m \in OB!Item /\ m.type \in {"update", "marker"}
                                     /\ m.from \in Nat /\ m.to \in Nat
         /\ \A m \in Items(toRelay) : \/ m = [type |-> "resume"]
                                      \/ m.type = "resync" /\ m.since \in Nat
         /\ Items(chain) \subseteq Nat
         /\ AppliedSet \subseteq Nat
<1>1. ASSUME NEW m \in OB!Item
      PROVE  m.type \in {"update", "marker"} /\ m.from \in Nat /\ m.to \in Nat
  BY DEF OB!Item
<1>2. Items(toClient) \subseteq AnnounceMsg \cup OB!Item
  BY DEF Shapes, Items
<1>3. Items(outbox) \subseteq OB!Item
  BY DEF Shapes, Items
<1>4. Items(toRelay) \subseteq Frame
  BY DEF Shapes, Items
<1>5. Items(chain) \subseteq Nat
  BY DEF Shapes, Items
<1>6. AppliedSet \subseteq Nat
  BY DEF Shapes, AppliedSet
<1>7. \A m \in AnnounceMsg : m = [type |-> "announce"]
  BY DEF AnnounceMsg
<1>8. \A m \in Frame : m = [type |-> "resume"] \/ (m.type = "resync" /\ m.since \in Nat)
  <2>1. \A m \in [type : {"resume"}] : m = [type |-> "resume"]
    OBVIOUS
  <2>2. \A m \in [type : {"resync"}, since : Nat] : m.type = "resync" /\ m.since \in Nat
    OBVIOUS
  <2> QED
    BY <2>1, <2>2 DEF Frame
<1> QED
  BY <1>1, <1>2, <1>3, <1>4, <1>5, <1>6, <1>7, <1>8

-----------------------------------------------------------------------------
(* The initial state, and the steps of the node's socket.                  *)

\* The invariant holds before anything has been sent.
LEMMA InitInv == Init => IInv
<1> SUFFICES ASSUME Init PROVE IInv
  OBVIOUS
<1> USE DEF Init
<1>1. Items(<< >>) = {} /\ AppliedSet = {} /\ Items(toRelay) = {[type |-> "resume"]}
  BY DEF Items, AppliedSet
<1>2. TypeOK
  <2>1. counter \in Nat /\ lastEvicted \in 0..counter
    OBVIOUS
  <2>2. ring = {} /\ refused = {} /\ raced = {} /\ failed = {}
    OBVIOUS
  <2> QED
    BY <2>1, <2>2 DEF TypeOK
<1>3. Shapes
  BY <1>1 DEF Shapes, Frame
<1>4. ReplyOK /\ Connection
  BY <1>1 DEF ReplyOK, Connection, NoReply
<1>5. OutboxOrder /\ RingOrder
  BY <1>1 DEF OutboxOrder, RingOrder
<1>6. RingAccountsForEverySeq
  <2>1. Cardinality({}) <= Capacity
    BY FS_EmptySet, StreamAssumption
  <2> QED
    BY <2>1 DEF RingAccountsForEverySeq
<1>7. AppliedOnce /\ Coverage
  BY DEF AppliedOnce, Coverage
<1> QED
  BY <1>2, <1>3, <1>4, <1>5, <1>6, <1>7 DEF IInv

\* A new record changes nothing of the stream.
LEMMA AnnounceInv ==
  ASSUME IInv, Announce PROVE IInv'
  BY DEF IInv, Announce, relayVars, wireVars, clientVars, TypeOK, Shapes, ItemOK, ReplyOK,
     Connection, OutboxOrder, RingOrder, RingAccountsForEverySeq, AppliedOnce, Coverage,
     Accounted, OnItsWay, AppliedSet, StandsFor

\* The new seq is in the hands of its handler.
LEMMA AssignSeqInv ==
  ASSUME IInv, AssignSeq PROVE IInv'
<1> USE DEF AssignSeq, relayVars, wireVars, clientVars
<1>0. counter \in Nat /\ counter' = counter + 1 /\ AppliedSet' = AppliedSet
  BY DEF IInv, TypeOK, AppliedSet
<1>1. TypeOK'
  <2>1. 1..counter \subseteq 1..counter' /\ 0..counter \subseteq 0..counter'
    BY <1>0
  <2> QED
    BY <1>0, <2>1 DEF IInv, TypeOK
<1>2. Shapes'
  <2>1. \A m \in Items(toClient) : m.type # "announce" => ItemOK(m)'
    <3> SUFFICES ASSUME NEW m \in Items(toClient), m.type # "announce" PROVE ItemOK(m)'
      OBVIOUS
    <3>1. m.to \in Nat /\ ItemOK(m)
      BY ItemTypes DEF IInv, Shapes
    <3> QED
      BY <1>0, <3>1 DEF ItemOK
  <2>2. \A m \in Items(outbox) : ItemOK(m)'
    <3> SUFFICES ASSUME NEW m \in Items(outbox) PROVE ItemOK(m)'
      OBVIOUS
    <3>1. m.to \in Nat /\ ItemOK(m)
      BY ItemTypes DEF IInv, Shapes
    <3> QED
      BY <1>0, <3>1 DEF ItemOK
  <2>3. \A n \in Items(chain) : n <= counter'
    BY <1>0, ItemTypes DEF IInv, Shapes
  <2>4. \A n \in AppliedSet : n <= counter'
    BY <1>0, ItemTypes DEF IInv, Shapes
  <2> QED
    BY <1>0, <2>1, <2>2, <2>3, <2>4 DEF IInv, Shapes
<1>3. ReplyOK'
  <2>1. 1..counter \subseteq 1..counter' /\ 0..counter \subseteq 0..counter'
    BY <1>0
  <2> QED
    BY <1>0, <2>1 DEF IInv, ReplyOK
<1>4. Connection' /\ AppliedOnce'
  BY DEF IInv, Connection, AppliedOnce
<1>5. OutboxOrder'
  <2> SUFFICES ASSUME NEW m \in Items(outbox) PROVE m.to < counter'
    BY DEF IInv, OutboxOrder
  <2>1. m.to \in Nat /\ ItemOK(m)
    BY ItemTypes DEF IInv, Shapes
  <2> QED
    BY <1>0, <2>1 DEF ItemOK
<1>6. RingOrder' /\ RingAccountsForEverySeq'
  <2>1. lastEvicted \in 0..counter
    BY DEF IInv, TypeOK
  <2>2. RingOrder'
    BY <1>0, <2>1 DEF RingOrder
  <2>3. RingAccountsForEverySeq'
    BY <1>0 DEF IInv, RingAccountsForEverySeq
  <2> QED
    BY <2>2, <2>3
<1>7. Coverage'
  <2> SUFFICES ASSUME conn, resynced, NEW n \in (cursor + 1)..counter'
               PROVE  (Accounted(n) \/ n \in raced \/ OnItsWay(n))'
    BY DEF Coverage
  <2>1. CASE n = counter'
    BY <2>1 DEF OnItsWay
  <2>2. CASE n # counter'
    <3>1. n \in (cursor + 1)..counter
      BY <1>0, <2>2 DEF IInv, TypeOK
    <3>2. Accounted(n) \/ n \in raced \/ OnItsWay(n)
      BY <3>1 DEF IInv, Coverage
    <3> QED
      BY <3>2, <1>0 DEF Accounted, OnItsWay, StandsFor
  <2> QED
    BY <2>1, <2>2
<1> QED
  BY <1>1, <1>2, <1>3, <1>4, <1>5, <1>6, <1>7 DEF IInv

\* The ring makes room by its least seq, which is beyond what it evicted before.
LEMMA EvictedIs ==
  ASSUME TypeOK, RingAccountsForEverySeq, RingOrder, stage = "assigned"
  PROVE  /\ counter >= 1 /\ lastEvicted < counter
         /\ \/ Evicted(counter) = {} /\ Cardinality(ring \cup {counter}) <= Capacity
            \/ \E e \in ring \cup {counter} :
                 /\ Evicted(counter) = {e}
                 /\ (CHOOSE m \in Evicted(counter) : TRUE) = e
                 /\ lastEvicted < e
                 /\ \A l \in ring \cup {counter} : e <= l
                 /\ Cardinality((ring \cup {counter}) \ {e}) <= Capacity
<1> DEFINE full == ring \cup {counter}
<1>0. /\ lastEvicted < counter /\ counter \in Nat /\ lastEvicted \in Nat /\ counter >= 1
      /\ ring \subseteq 1..counter /\ Capacity \in Nat
  BY StreamAssumption DEF TypeOK, RingOrder
<1>1. full \in SUBSET Nat /\ full # {}
  <2>1. 1..counter \subseteq Nat
    BY <1>0
  <2> QED
    BY <1>0, <2>1
<1>2. IsFiniteSet(ring) /\ Cardinality(ring) \in Nat /\ Cardinality(ring) <= Capacity
  <2>1. IsFiniteSet(1..counter)
    BY <1>0, FS_Interval
  <2>2. IsFiniteSet(ring)
    BY <2>1, <1>0, FS_Subset
  <2> QED
    BY <2>2, FS_CardinalityType DEF RingAccountsForEverySeq
<1>3. /\ IsFiniteSet(full) /\ Cardinality(full) \in Nat
      /\ Cardinality(full) <= Capacity + 1
  BY <1>0, <1>2, FS_AddElement
<1>4. CASE ~(Cardinality(full) > Capacity)
  BY <1>0, <1>3, <1>4 DEF Evicted
<1>5. CASE Cardinality(full) > Capacity
  <2> DEFINE e == CHOOSE m \in full : \A l \in full : m <= l
  <2>1. e \in full /\ \A l \in full : e <= l
    <3>1. \E m \in full : \A l \in full : m <= l
      BY <1>1, LeastExists
    <3> QED
      BY <3>1
  <2>2. Evicted(counter) = {e}
    BY <1>5 DEF Evicted
  <2> HIDE DEF e
  <2>3. (CHOOSE m \in {e} : TRUE) = e
    OBVIOUS
  <2>4. lastEvicted < e
    BY <2>1, <1>0 DEF RingAccountsForEverySeq
  <2>5. Cardinality(full \ {e}) <= Capacity
    <3> HIDE DEF full
    <3>1. Cardinality(full \ {e}) = Cardinality(full) - 1
      BY <1>3, <2>1, FS_RemoveElement
    <3> QED
      BY <1>0, <1>3, <3>1
  <2> QED
    BY <1>0, <2>1, <2>2, <2>3, <2>4, <2>5
<1> QED
  BY <1>4, <1>5

\* What leaves the ring is noted as evicted, and as raced when the reply that
\* waits shows the ring as it will be.
LEMMA BufferUpdateInv ==
  ASSUME IInv, NEW fits \in BOOLEAN, BufferUpdate(fits) PROVE IInv'
<1> USE DEF BufferUpdate, wireVars, clientVars
<1>0. AppliedSet' = AppliedSet /\ counter \in Nat /\ counter' = counter
  BY DEF AppliedSet, IInv, TypeOK
<1>1. Shapes' /\ ReplyOK' /\ Connection' /\ AppliedOnce'
  BY <1>0 DEF IInv, Shapes, ItemOK, ReplyOK, Connection, AppliedOnce
<1>2. OutboxOrder' /\ RingOrder'
  BY <1>0 DEF IInv, OutboxOrder, RingOrder
<1>3. CASE ~fits
  <2>1. counter \in 1..counter
    BY <1>0, EvictedIs DEF IInv
  <2>2. refused' = refused \cup {counter} /\ ring' = ring /\ lastEvicted' = lastEvicted /\ raced' = raced
    BY <1>3
  <2>3. TypeOK'
    BY <2>1, <2>2 DEF IInv, TypeOK
  <2>4. RingAccountsForEverySeq'
    BY <2>2 DEF IInv, RingAccountsForEverySeq
  <2>5. Coverage'
    BY <1>0, <2>2 DEF IInv, Coverage, Accounted, OnItsWay, StandsFor
  <2> QED
    BY <1>1, <1>2, <2>3, <2>4, <2>5 DEF IInv
<1>4. CASE fits
  <2>1. /\ ring' = (ring \cup {counter}) \ Evicted(counter)
        /\ lastEvicted' = IF Evicted(counter) = {} THEN lastEvicted
                          ELSE CHOOSE m \in Evicted(counter) : TRUE
        /\ raced' = IF reply.pending /\ reply.dropped
                    THEN raced \cup Evicted(counter) ELSE raced
        /\ refused' = refused
    BY <1>4 DEF PushRingEntry
  <2>2. /\ counter >= 1 /\ lastEvicted < counter /\ counter \in 1..counter
        /\ ring \subseteq 1..counter /\ lastEvicted \in Nat
    BY <1>0, EvictedIs DEF IInv, TypeOK
  <2>3. CASE Evicted(counter) = {}
    <3>1. ring' = ring \cup {counter} /\ lastEvicted' = lastEvicted /\ raced' = raced
      BY <2>1, <2>3
    <3>2. Cardinality(ring') <= Capacity
      BY <3>1, <2>3, EvictedIs DEF IInv
    <3>3. TypeOK'
      BY <2>1, <2>2, <3>1 DEF IInv, TypeOK
    <3>4. RingAccountsForEverySeq'
      BY <1>0, <2>1, <2>2, <3>1, <3>2 DEF IInv, RingAccountsForEverySeq
    <3>5. Coverage'
      BY <1>0, <2>1, <3>1 DEF IInv, Coverage, Accounted, OnItsWay, StandsFor
    <3> QED
      BY <1>1, <1>2, <3>3, <3>4, <3>5 DEF IInv
  <2>4. CASE Evicted(counter) # {}
    <3>1. PICK e \in ring \cup {counter} :
                 /\ Evicted(counter) = {e}
                 /\ (CHOOSE m \in Evicted(counter) : TRUE) = e
                 /\ lastEvicted < e
                 /\ \A l \in ring \cup {counter} : e <= l
                 /\ Cardinality((ring \cup {counter}) \ {e}) <= Capacity
      BY <2>4, EvictedIs DEF IInv
    <3>2. /\ ring' = (ring \cup {counter}) \ {e} /\ lastEvicted' = e
          /\ raced' = IF reply.pending /\ reply.dropped THEN raced \cup {e} ELSE raced
      BY <2>1, <2>4, <3>1
    <3>3. e \in 1..counter /\ e \in Nat
      BY <2>2, <3>1
    <3>4. TypeOK'
      <4>1. ring' \subseteq 1..counter
        BY <2>2, <3>2
      <4>2. lastEvicted' \in 0..counter
        BY <3>2, <3>3, <1>0
      <4>3. raced' \subseteq 1..counter
        BY <3>2, <3>3 DEF IInv, TypeOK
      <4> QED
        BY <2>1, <4>1, <4>2, <4>3, <1>0 DEF IInv, TypeOK
    <3>5. RingAccountsForEverySeq'
      <4>1. \A n \in ring' : e < n
        BY <3>1, <3>2, <3>3, <2>2
      <4>2. ASSUME NEW n \in 1..counter
            PROVE  n \in ring' \/ n <= lastEvicted' \/ n \in refused'
                   \/ (n = counter' /\ stage' = "assigned")
        <5>1. n \in ring \/ n <= lastEvicted \/ n \in refused \/ n = counter
          BY DEF IInv, RingAccountsForEverySeq
        <5> QED
          BY <5>1, <2>1, <2>2, <3>1, <3>2, <3>3
      <4> QED
        BY <4>1, <4>2, <3>1, <3>2, <1>0 DEF RingAccountsForEverySeq
    <3>6. Coverage'
      <4> SUFFICES ASSUME conn, resynced, NEW n \in (cursor + 1)..counter
                   PROVE  (Accounted(n) \/ n \in raced \/ OnItsWay(n))'
        BY <1>0 DEF Coverage
      <4>1. Accounted(n) \/ n \in raced \/ OnItsWay(n)
        BY DEF IInv, Coverage
      <4>2. n \in ring => n \in ring' \/ (n = e /\ n <= lastEvicted')
        BY <3>1, <3>2, <3>3
      <4>3. n \in Int /\ (n <= lastEvicted => n <= lastEvicted')
        BY <3>1, <3>2, <3>3, <2>2 DEF IInv, TypeOK
      <4>4. CASE Accounted(n) \/ n \in raced
        BY <4>4, <1>0, <2>1, <3>2 DEF Accounted
      <4>5. CASE OnItsWay(n)
        <5>1. reply.pending => reply.dropped \in BOOLEAN
          BY DEF IInv, ReplyOK
        <5>2. CASE reply.pending /\ reply.dropped /\ n \in ring
          BY <5>2, <4>2, <3>2, <1>0 DEF OnItsWay
        <5> QED
          BY <5>2, <4>5, <4>2, <4>3, <1>0, <3>2 DEF OnItsWay, StandsFor
      <4> QED
        BY <4>1, <4>4, <4>5
    <3> QED
      BY <1>1, <1>2, <3>4, <3>5, <3>6 DEF IInv
  <2> QED
    BY <2>3, <2>4
<1> QED
  BY <1>3, <1>4

\* Taking the head keeps the order.
LEMMA OrderedTail ==
  ASSUME NEW q \in Seq(OB!Item), q # << >>, Ordered(q)
  PROVE  Ordered(Tail(q))
<1> DEFINE r == Tail(q)
<1>1. /\ DOMAIN q = 1..Len(q) /\ Len(q) \in Nat
      /\ DOMAIN r = 1..(Len(q) - 1)
      /\ \A i \in 1..(Len(q) - 1) : r[i] = q[i + 1]
  OBVIOUS
<1> HIDE DEF r
<1> SUFFICES ASSUME NEW i \in DOMAIN r, NEW j \in DOMAIN r, i < j
             PROVE  r[i].to < r[j].from
  BY DEF Ordered, r
<1>2. i + 1 \in DOMAIN q /\ j + 1 \in DOMAIN q /\ i + 1 < j + 1
  BY <1>1
<1> QED
  BY <1>1, <1>2 DEF Ordered

\* The outbox with the update whose turn it is, after the overflow.
LEMMA EnqueuedIs ==
  ASSUME IInv, stage = "buffered"
  PROVE  LET r == OB!DropOldest(Append(outbox, OB!Update(Session, counter)))
         IN  /\ r \in Seq(OB!Item) /\ r # << >> /\ Ordered(r)
             /\ \A m \in Items(r) : ItemOK(m)
             /\ \A n \in Nat : StandsFor(outbox, n) \/ n = counter => StandsFor(r, n)
<1> DEFINE u == OB!Update(Session, counter)
           q == Append(outbox, u)
<1>1. counter \in Nat /\ outbox \in Seq(OB!Item)
  BY DEF IInv, TypeOK, Shapes
<1>2. u \in OB!Item /\ u.type = "update" /\ u.from = counter /\ u.to = counter
  BY <1>1 DEF OB!Update, OB!Item
<1> HIDE DEF u
<1>3. /\ q \in Seq(OB!Item) /\ q # << >> /\ Items(q) = Items(outbox) \cup {u}
      /\ DOMAIN q = 1..(Len(outbox) + 1) /\ DOMAIN outbox = 1..Len(outbox) /\ Len(outbox) \in Nat
      /\ \A i \in 1..Len(outbox) : q[i] = outbox[i]
      /\ q[Len(outbox) + 1] = u
  BY <1>1, <1>2, ItemsAppend
<1> HIDE DEF q
<1>4. Ordered(q)
  <2> SUFFICES ASSUME NEW i \in DOMAIN q, NEW j \in DOMAIN q, i < j
               PROVE  q[i].to < q[j].from
    BY DEF Ordered
  <2>1. i \in 1..Len(outbox) /\ q[i] = outbox[i]
    BY <1>3
  <2>2. CASE j = Len(outbox) + 1
    <3>1. outbox[i] \in Items(outbox)
      BY <1>3, <2>1 DEF Items
    <3>2. outbox[i].to < counter
      BY <3>1 DEF IInv, OutboxOrder
    <3> QED
      BY <3>2, <2>1, <2>2, <1>2, <1>3
  <2>3. CASE j # Len(outbox) + 1
    <3>1. j \in DOMAIN outbox /\ q[j] = outbox[j]
      BY <2>3, <1>3
    <3> QED
      BY <3>1, <2>1, <1>3 DEF IInv, OutboxOrder
  <2> QED
    BY <2>2, <2>3
<1>5. \A m \in Items(q) : ItemOK(m)
  <2>1. ItemOK(u)
    BY <1>1, <1>2 DEF ItemOK
  <2> QED
    BY <2>1, <1>3 DEF IInv, Shapes
<1>6. \A m \in Items(q) : m.from <= m.to /\ m.to <= counter /\ (m.type = "update" => m.from = m.to)
  BY <1>5 DEF ItemOK
<1> DEFINE r == OB!DropOldest(q)
<1>7. /\ r \in Seq(OB!Item) /\ r # << >> /\ Ordered(r)
      /\ \A m \in Items(r) : m.from <= m.to /\ m.to <= counter /\ (m.type = "update" => m.from = m.to)
      /\ \A n \in Nat : StandsFor(q, n) => StandsFor(r, n)
  BY <1>1, <1>3, <1>4, <1>6, DropOldestCovers
<1>8. \A n \in Nat : StandsFor(outbox, n) \/ n = counter => StandsFor(q, n)
  BY <1>1, <1>2, <1>3 DEF StandsFor
<1> HIDE DEF r
<1> QED
  BY <1>7, <1>8 DEF ItemOK, r, q, u

\* A subscribed client's outbox gets the update; nothing it held is lost sight of.
LEMMA FanOutUpdateInv ==
  ASSUME IInv, FanOutUpdate PROVE IInv'
<1> USE DEF FanOutUpdate, storeVars, clientVars
<1>0. AppliedSet' = AppliedSet /\ counter \in Nat /\ counter' = counter /\ stage' = "idle"
  BY DEF AppliedSet, IInv, TypeOK
<1>1. RingOrder' /\ AppliedOnce' /\ ReplyOK'
  BY DEF IInv, RingOrder, AppliedOnce, ReplyOK
<1>2. RingAccountsForEverySeq'
  BY DEF IInv, RingAccountsForEverySeq
<1>3. TypeOK'
  BY DEF IInv, TypeOK
<1>4. CASE ~subscribed
  <2>1. outbox' = outbox /\ flushing' = flushing /\ toClient' = toClient
    BY <1>4
  <2>2. Shapes' /\ Connection'
    BY <1>0, <2>1 DEF IInv, Shapes, ItemOK, Connection
  <2>3. OutboxOrder'
    BY <1>0, <2>1 DEF IInv, OutboxOrder
  <2>4. Coverage'
    BY <1>4 DEF IInv, Connection, Coverage
  <2> QED
    BY <1>1, <1>2, <1>3, <2>2, <2>3, <2>4 DEF IInv
<1>5. CASE subscribed
  <2> DEFINE r == OB!DropOldest(Append(outbox, OB!Update(Session, counter)))
  <2>1. /\ r \in Seq(OB!Item) /\ r # << >> /\ Ordered(r)
        /\ \A m \in Items(r) : ItemOK(m)
        /\ \A n \in Nat : StandsFor(outbox, n) \/ n = counter => StandsFor(r, n)
    BY EnqueuedIs
  <2>2. \/ outbox' = r /\ toClient' = toClient
        \/ outbox' = Tail(r) /\ toClient' = Append(toClient, Head(r))
    BY <1>5
  <2>3. conn
    BY <1>5 DEF IInv, Connection
  <2> HIDE DEF r
  <2>4. /\ Tail(r) \in Seq(OB!Item) /\ Head(r) \in OB!Item
        /\ Items(r) = {Head(r)} \cup Items(Tail(r))
        /\ Ordered(Tail(r))
    BY <2>1, ItemsTail, OrderedTail
  <2>5. toClient \in Seq(AnnounceMsg \cup OB!Item)
    BY DEF IInv, Shapes
  <2>6. /\ Append(toClient, Head(r)) \in Seq(AnnounceMsg \cup OB!Item)
        /\ Items(Append(toClient, Head(r))) = Items(toClient) \cup {Head(r)}
    BY <2>4, <2>5, ItemsAppend
  <2>7. Head(r).type # "announce"
    BY <2>4 DEF OB!Item
  <2>8. /\ outbox' \in Seq(OB!Item) /\ Ordered(outbox')
        /\ toClient' \in Seq(AnnounceMsg \cup OB!Item)
        /\ Items(outbox') \subseteq Items(r)
        /\ Items(toClient') \subseteq Items(toClient) \cup {Head(r)}
        /\ Items(toClient) \subseteq Items(toClient')
        /\ Items(r) \subseteq Items(outbox') \cup Items(toClient')
    BY <2>1, <2>2, <2>4, <2>5, <2>6
  <2>9. Shapes'
    <3>1. \A m : ItemOK(m)' = ItemOK(m)
      BY <1>0 DEF ItemOK
    <3>2. \A m \in Items(outbox') : ItemOK(m)
      BY <2>1, <2>8
    <3>3. \A m \in Items(toClient') : m.type # "announce" => ItemOK(m)
      BY <2>1, <2>4, <2>8 DEF IInv, Shapes
    <3> QED
      BY <1>0, <2>8, <3>1, <3>2, <3>3 DEF IInv, Shapes
  <2>10. Connection'
    BY <1>5, <2>3, <2>7, <2>8 DEF IInv, Connection
  <2>11. OutboxOrder'
    BY <1>0, <2>8 DEF OutboxOrder, Ordered
  <2>12. Coverage'
    <3> SUFFICES ASSUME conn, resynced, NEW n \in (cursor + 1)..counter
                 PROVE  (Accounted(n) \/ n \in raced \/ OnItsWay(n))'
      BY <1>0 DEF Coverage
    <3>1. Accounted(n) \/ n \in raced \/ OnItsWay(n)
      BY DEF IInv, Coverage
    <3>2. n \in Nat
      BY DEF IInv, TypeOK
    <3>3. ASSUME StandsFor(r, n) PROVE StandsFor(outbox', n) \/ StandsFor(toClient', n)
      BY <2>8, <3>3 DEF StandsFor
    <3>4. StandsFor(toClient, n) => StandsFor(toClient', n)
      BY <2>8 DEF StandsFor
    <3>5. StandsFor(outbox, n) \/ n = counter => StandsFor(outbox', n) \/ StandsFor(toClient', n)
      BY <2>1, <3>2, <3>3
    <3>6. Accounted(n)' = Accounted(n)
      BY <1>0 DEF Accounted
    <3> QED
      BY <1>0, <3>1, <3>4, <3>5, <3>6 DEF OnItsWay
  <2> QED
    BY <1>1, <1>2, <1>3, <2>9, <2>10, <2>11, <2>12 DEF IInv
<1> QED
  BY <1>4, <1>5 DEF IInv, TypeOK

-----------------------------------------------------------------------------
(* The steps of the client's socket at the relay.                          *)

\* The head of the outbox moves on to the wire.
LEMMA OutboxFloorInv ==
  ASSUME IInv, OutboxFloor PROVE IInv'
<1> USE DEF OutboxFloor, storeVars, clientVars
<1>0. AppliedSet' = AppliedSet /\ counter' = counter /\ stage' = stage
  BY DEF AppliedSet
<1>1. RingOrder' /\ AppliedOnce' /\ ReplyOK' /\ RingAccountsForEverySeq'
  BY DEF IInv, RingOrder, AppliedOnce, ReplyOK, RingAccountsForEverySeq
<1>2. TypeOK'
  BY DEF IInv, TypeOK
<1>3. CASE outbox = << >>
  <2>1. outbox' = outbox /\ toClient' = toClient
    BY <1>3
  <2>2. Shapes' /\ Connection' /\ OutboxOrder'
    BY <1>0, <2>1 DEF IInv, Shapes, ItemOK, Connection, OutboxOrder
  <2>3. Coverage'
    BY <1>0, <2>1 DEF IInv, Coverage, Accounted, OnItsWay, StandsFor
  <2> QED
    BY <1>1, <1>2, <2>2, <2>3 DEF IInv
<1>4. CASE outbox # << >>
  <2>1. /\ outbox \in Seq(OB!Item) /\ toClient \in Seq(AnnounceMsg \cup OB!Item)
        /\ outbox' = Tail(outbox) /\ toClient' = Append(toClient, Head(outbox))
        /\ Ordered(outbox)
    BY <1>4 DEF IInv, Shapes, OutboxOrder, Ordered
  <2>2. /\ outbox' \in Seq(OB!Item) /\ Head(outbox) \in OB!Item
        /\ Items(outbox) = {Head(outbox)} \cup Items(outbox')
        /\ Ordered(outbox')
    BY <1>4, <2>1, ItemsTail, OrderedTail
  <2>3. /\ toClient' \in Seq(AnnounceMsg \cup OB!Item)
        /\ Items(toClient') = Items(toClient) \cup {Head(outbox)}
    BY <2>1, <2>2, ItemsAppend
  <2>4. Head(outbox).type # "announce"
    BY <2>2 DEF OB!Item
  <2>5. Shapes'
    <3>1. \A m : ItemOK(m)' = ItemOK(m)
      BY <1>0 DEF ItemOK
    <3> QED
      BY <1>0, <2>2, <2>3, <3>1 DEF IInv, Shapes
  <2>6. Connection'
    BY <1>4, <2>1, <2>3, <2>4 DEF IInv, Connection
  <2>7. OutboxOrder'
    BY <1>0, <2>2 DEF IInv, OutboxOrder, Ordered
  <2>8. Coverage'
    <3>1. \A n : StandsFor(toClient, n) \/ StandsFor(outbox, n) => StandsFor(toClient', n) \/ StandsFor(outbox', n)
      BY <2>2, <2>3 DEF StandsFor
    <3> QED
      BY <1>0, <3>1 DEF IInv, Coverage, Accounted, OnItsWay
  <2> QED
    BY <1>1, <1>2, <2>5, <2>6, <2>7, <2>8 DEF IInv
<1> QED
  BY <1>3, <1>4

\* The frame taken from the wire is of its kind.
LEMMA NextFrameIs ==
  ASSUME IInv, NEW type, NextFrame(type)
  PROVE  /\ toRelay' \in Seq(Frame) /\ Head(toRelay) \in Frame /\ Head(toRelay).type = type
         /\ Items(toRelay) = {Head(toRelay)} \cup Items(toRelay')
         /\ ~reply.pending /\ conn
<1>1. toRelay \in Seq(Frame) /\ toRelay # << >>
  BY DEF IInv, Shapes, NextFrame
<1> QED
  BY <1>1, ItemsTail DEF IInv, NextFrame, Connection

\* The client is subscribed before the announce is on the wire.
LEMMA SessionResumeInv ==
  ASSUME IInv, SessionResume PROVE IInv'
<1> USE DEF SessionResume, storeVars, clientVars
<1>0. AppliedSet' = AppliedSet /\ counter' = counter /\ stage' = stage
  BY DEF AppliedSet
<1>1. /\ toRelay' \in Seq(Frame) /\ Head(toRelay).type = "resume"
      /\ Items(toRelay) = {Head(toRelay)} \cup Items(toRelay') /\ conn
  BY NextFrameIs
<1>2. RingOrder' /\ AppliedOnce' /\ ReplyOK' /\ RingAccountsForEverySeq' /\ OutboxOrder'
  BY DEF IInv, RingOrder, AppliedOnce, ReplyOK, RingAccountsForEverySeq, OutboxOrder
<1>3. TypeOK'
  BY DEF IInv, TypeOK
<1>4. /\ toClient' \in Seq(AnnounceMsg \cup OB!Item)
      /\ Items(toClient') \subseteq Items(toClient) \cup {[type |-> "announce"]}
      /\ Items(toClient) \subseteq Items(toClient')
      /\ subscribed \/ toClient' # toClient => subscribed'
  <2>1. toClient \in Seq(AnnounceMsg \cup OB!Item)
    BY DEF IInv, Shapes
  <2>2. [type |-> "announce"] \in AnnounceMsg
    BY DEF AnnounceMsg
  <2>3. CASE announced
    <3>1. subscribed' /\ toClient' = Append(toClient, [type |-> "announce"])
      BY <2>3
    <3> QED
      BY <2>1, <2>2, <3>1, ItemsAppend
  <2>4. CASE ~announced
    <3>1. subscribed' = subscribed /\ toClient' = toClient
      BY <2>4
    <3> QED
      BY <2>1, <3>1
  <2> QED
    BY <2>3, <2>4
<1>5. Shapes'
  <2>1. \A m : ItemOK(m)' = ItemOK(m)
    BY <1>0 DEF ItemOK
  <2>2. \A m \in Items(toClient') : m.type # "announce" => ItemOK(m)
    BY <1>4 DEF IInv, Shapes
  <2> QED
    BY <1>0, <1>1, <1>4, <2>1, <2>2 DEF IInv, Shapes
<1>6. Connection'
  BY <1>1, <1>4 DEF IInv, Connection
<1>7. Coverage'
  <2>1. \A n : StandsFor(toClient, n) => StandsFor(toClient', n)
    BY <1>4 DEF StandsFor
  <2>2. (\E m \in Items(toRelay) : m.type = "resync") => \E m \in Items(toRelay') : m.type = "resync"
    BY <1>1
  <2> QED
    BY <1>0, <2>1, <2>2 DEF IInv, Coverage, Accounted, OnItsWay, StandsFor
<1> QED
  BY <1>2, <1>3, <1>5, <1>6, <1>7 DEF IInv

\* The request under way becomes the reply that waits, which reaches as far.
LEMMA ResyncReadInv ==
  ASSUME IInv, ResyncRead PROVE IInv'
<1> USE DEF ResyncRead, storeVars, clientVars
<1>0. /\ AppliedSet' = AppliedSet /\ counter' = counter /\ stage' = stage /\ counter \in Nat
      /\ ring \subseteq 1..counter /\ lastEvicted \in 0..counter
  BY DEF AppliedSet, IInv, TypeOK
<1>1. /\ toRelay' \in Seq(Frame) /\ Head(toRelay).type = "resync"
      /\ Items(toRelay) = {Head(toRelay)} \cup Items(toRelay') /\ conn
  BY NextFrameIs
<1>2. Head(toRelay).since = cursor /\ resynced
  BY <1>1 DEF IInv, Connection
<1>3. reply' = [pending |-> TRUE, since |-> cursor, dropped |-> cursor < lastEvicted,
                droppedTo |-> lastEvicted, entries |-> {n \in ring : n > cursor}]
  BY <1>2
<1>4. /\ reply'.pending = TRUE /\ reply'.since = cursor
      /\ reply'.dropped = (cursor < lastEvicted) /\ reply'.dropped \in BOOLEAN
      /\ reply'.droppedTo = lastEvicted /\ reply'.entries = {n \in ring : n > cursor}
  BY <1>3
<1>5. RingOrder' /\ AppliedOnce' /\ RingAccountsForEverySeq' /\ OutboxOrder'
  BY DEF IInv, RingOrder, AppliedOnce, RingAccountsForEverySeq, OutboxOrder
<1>6. TypeOK'
  BY DEF IInv, TypeOK
<1>7. Shapes'
  BY <1>0, <1>1 DEF IInv, Shapes, ItemOK
<1>8. ReplyOK'
  <2>1. {n \in ring : n > cursor} \subseteq 1..counter
    BY <1>0
  <2> QED
    BY <1>0, <1>2, <1>4, <2>1 DEF ReplyOK
<1>9. Connection'
  BY <1>1 DEF IInv, Connection
<1>10. Coverage'
  <2> SUFFICES ASSUME NEW n \in (cursor + 1)..counter
               PROVE  (Accounted(n) \/ n \in raced \/ OnItsWay(n))'
    BY <1>0 DEF Coverage
  <2>1. Accounted(n) \/ n \in raced \/ OnItsWay(n)
    BY <1>1, <1>2 DEF IInv, Coverage
  <2>2. CASE Accounted(n) \/ n \in raced
    BY <1>0, <2>2 DEF Accounted
  <2>3. CASE n \in ring \/ n <= lastEvicted
    <3>1. cursor \in Nat /\ n \in Int /\ n > cursor /\ lastEvicted \in Nat
      BY <1>0 DEF IInv, TypeOK
    <3>2. CASE cursor < lastEvicted
      BY <2>3, <3>2, <1>4 DEF OnItsWay
    <3>3. CASE ~(cursor < lastEvicted)
      <4>1. n \in ring
        BY <2>3, <3>1, <3>3
      <4> QED
        BY <4>1, <3>1, <3>3, <1>4 DEF OnItsWay
    <3> QED
      BY <3>2, <3>3
  <2>4. CASE ~(n \in ring \/ n <= lastEvicted) /\ OnItsWay(n)
    <3>1. ~reply.pending
      BY NextFrameIs
    <3> QED
      BY <2>4, <3>1, <1>0 DEF OnItsWay, StandsFor
  <2> QED
    BY <2>1, <2>2, <2>3, <2>4
<1> QED
  BY <1>5, <1>6, <1>7, <1>8, <1>9, <1>10 DEF IInv

\* The reply puts on the wire all that it reaches.
LEMMA ResyncReplyInv ==
  ASSUME IInv, ResyncReply PROVE IInv'
<1> USE DEF ResyncReply, storeVars, clientVars
<1>0. /\ AppliedSet' = AppliedSet /\ counter' = counter /\ stage' = stage /\ counter \in Nat
      /\ ring \subseteq 1..counter /\ cursor \in Nat
  BY DEF AppliedSet, IInv, TypeOK
<1>1. /\ resynced /\ reply.since = cursor /\ reply.dropped \in BOOLEAN
      /\ reply.droppedTo \in 0..counter /\ (reply.dropped => cursor < reply.droppedTo)
      /\ reply.entries \subseteq 1..counter /\ conn
  BY DEF IInv, ReplyOK, Connection
<1> DEFINE S == IF reply.dropped THEN ring ELSE reply.entries
           M == IF reply.dropped THEN <<OB!Marker(Session, cursor + 1, reply.droppedTo)>> ELSE << >>
           T == AnnounceMsg \cup OB!Item
<1>2. toClient' = toClient \o M \o Replay(S)
  BY <1>1
<1>3. S \in SUBSET (1..counter)
  BY <1>0, <1>1
<1>4. /\ Replay(S) \in Seq(T) /\ Items(Replay(S)) = {OB!Update(Session, n) : n \in S}
  <2>1. Replay(S) \in Seq(OB!Item) /\ Items(Replay(S)) = {OB!Update(Session, n) : n \in S}
    BY <1>0, <1>3, ReplayIs
  <2> HIDE DEF S
  <2> QED
    BY <2>1
<1>5. /\ M \in Seq(T)
      /\ \A m \in Items(M) : /\ m = OB!Marker(Session, cursor + 1, reply.droppedTo)
                             /\ reply.dropped
      /\ reply.dropped => OB!Marker(Session, cursor + 1, reply.droppedTo) \in Items(M)
  <2>1. CASE reply.dropped
    <3> DEFINE x == OB!Marker(Session, cursor + 1, reply.droppedTo)
    <3>1. x \in OB!Item
      BY <1>0, <1>1 DEF OB!Marker, OB!Item
    <3> HIDE DEF x
    <3>2. M = <<x>>
      BY <2>1 DEF x
    <3>3. <<x>> \in Seq(T) /\ Items(<<x>>) = {x}
      BY <3>1 DEF Items
    <3> QED
      BY <2>1, <3>2, <3>3 DEF x
  <2>2. CASE ~reply.dropped
    <3>1. M = << >> /\ << >> \in Seq(T) /\ Items(<< >>) = {}
      BY <2>2 DEF Items
    <3> QED
      BY <2>2, <3>1
  <2> QED
    BY <2>1, <2>2, <1>1
<1>6. toClient \in Seq(T)
  BY DEF IInv, Shapes
<1> HIDE DEF S, M, T
<1>7. /\ toClient' \in Seq(T)
      /\ Items(toClient') = Items(toClient) \cup Items(M) \cup {OB!Update(Session, n) : n \in S}
  <2> DEFINE A == toClient \o M
             B == Replay(S)
  <2>1. A \in Seq(T) /\ Items(A) = Items(toClient) \cup Items(M)
    BY <1>5, <1>6, ItemsConcat
  <2>2. toClient' = A \o B /\ B \in Seq(T) /\ Items(B) = {OB!Update(Session, n) : n \in S}
    BY <1>2, <1>4
  <2> HIDE DEF A, B
  <2>3. A \o B \in Seq(T) /\ Items(A \o B) = Items(A) \cup Items(B)
    BY <2>1, <2>2, ItemsConcat
  <2> QED
    BY <2>1, <2>2, <2>3
<1>8. ASSUME NEW m \in Items(toClient'), m \notin Items(toClient)
      PROVE  m.type # "announce" /\ ItemOK(m)
  <2>1. CASE m \in Items(M)
    <3>1. m = OB!Marker(Session, cursor + 1, reply.droppedTo) /\ reply.dropped
      BY <2>1, <1>5
    <3> QED
      BY <3>1, <1>0, <1>1 DEF OB!Marker, ItemOK
  <2>2. ASSUME NEW n \in S, m = OB!Update(Session, n) PROVE m.type # "announce" /\ ItemOK(m)
    <3>1. n \in 1..counter
      BY <1>3 DEF S
    <3> QED
      BY <2>2, <3>1, <1>0 DEF OB!Update, ItemOK
  <2> QED
    BY <1>7, <1>8, <2>1, <2>2
<1>9. Shapes'
  <2>1. \A m : ItemOK(m)' = ItemOK(m)
    BY <1>0 DEF ItemOK
  <2>2. \A m \in Items(toClient') : m.type # "announce" => ItemOK(m)
    BY <1>8 DEF IInv, Shapes
  <2>3. toRelay' = toRelay /\ outbox' = outbox /\ chain' = chain /\ applied' = applied
    OBVIOUS
  <2> QED
    BY <1>0, <1>7, <2>1, <2>2, <2>3 DEF IInv, Shapes, T
<1>10. ~reply'.pending /\ reply'.pending \in BOOLEAN
  BY DEF NoReply
<1>11. ReplyOK' /\ RingOrder' /\ AppliedOnce' /\ RingAccountsForEverySeq' /\ OutboxOrder'
  BY <1>10 DEF IInv, ReplyOK, RingOrder, AppliedOnce, RingAccountsForEverySeq, OutboxOrder
<1>12. TypeOK'
  BY DEF IInv, TypeOK
<1>13. Connection'
  BY <1>1, <1>8, <1>10 DEF IInv, Connection
<1>14. Coverage'
  <2> SUFFICES ASSUME NEW n \in (cursor + 1)..counter
               PROVE  (Accounted(n) \/ n \in raced \/ OnItsWay(n))'
    BY <1>0 DEF Coverage
  <2>1. Accounted(n) \/ n \in raced \/ OnItsWay(n)
    BY <1>1 DEF IInv, Coverage
  <2>2. CASE Accounted(n) \/ n \in raced
    BY <1>0, <2>2 DEF Accounted
  <2>3. CASE n \in S
    <3>1. OB!Update(Session, n) \in Items(toClient')
      BY <2>3, <1>7
    <3>2. n \in Int
      BY <1>0
    <3>3. StandsFor(toClient', n)
      BY <3>1, <3>2 DEF StandsFor, OB!Update
    <3> QED
      BY <3>3 DEF OnItsWay
  <2>4. CASE reply.dropped /\ n <= reply.droppedTo
    <3>1. OB!Marker(Session, cursor + 1, reply.droppedTo) \in Items(toClient')
      BY <2>4, <1>5, <1>7
    <3>2. cursor + 1 <= n
      BY <1>0
    <3>3. StandsFor(toClient', n)
      BY <3>1, <3>2, <2>4 DEF StandsFor, OB!Marker
    <3> QED
      BY <3>3 DEF OnItsWay
  <2>5. CASE OnItsWay(n) /\ ~(n \in S) /\ ~(reply.dropped /\ n <= reply.droppedTo)
    <3>1. StandsFor(toClient, n) => StandsFor(toClient', n)
      BY <1>7 DEF StandsFor
    <3> QED
      BY <2>5, <3>1, <1>0 DEF OnItsWay, StandsFor, S
  <2> QED
    BY <2>1, <2>2, <2>3, <2>4, <2>5
<1> QED
  BY <1>9, <1>11, <1>12, <1>13, <1>14 DEF IInv

-----------------------------------------------------------------------------
(* The steps of the client.                                                *)

\* The high-water mark is a seq that was given out, or 0.
LEMMA LastAppliedIs ==
  ASSUME Shapes, counter \in Nat
  PROVE  LastApplied \in Nat
<1>1. AppliedSet \in SUBSET Nat /\ \A n \in AppliedSet : n <= counter
  BY ItemTypes DEF Shapes
<1>2. CASE applied = << >>
  BY <1>2 DEF LastApplied
<1>3. CASE applied # << >>
  <2>1. applied[1] \in AppliedSet
    BY <1>3 DEF Shapes, AppliedSet
  <2>2. \E n \in AppliedSet : \A m \in AppliedSet : m <= n
    BY <1>1, <2>1, GreatestExists
  <2>3. LastApplied \in AppliedSet
    BY <1>3, <2>2 DEF LastApplied
  <2> QED
    BY <1>1, <2>3
<1> QED
  BY <1>2, <1>3

\* A new connection starts with one resume, and has nothing to catch up on yet.
LEMMA ConnectInv ==
  ASSUME IInv, Connect PROVE IInv'
<1> USE DEF Connect, storeVars, relayVars
<1>0. AppliedSet' = AppliedSet /\ counter' = counter /\ stage' = stage
  BY DEF AppliedSet
<1>1. toRelay' \in Seq(Frame) /\ Items(toRelay') = {[type |-> "resume"]}
  BY DEF Frame, Items
<1>2. toClient' \in Seq(AnnounceMsg \cup OB!Item) /\ Items(toClient') = {}
  BY DEF Items
<1>3. Shapes'
  <2>1. \A m : ItemOK(m)' = ItemOK(m)
    BY <1>0 DEF ItemOK
  <2> QED
    BY <1>0, <1>1, <1>2, <2>1 DEF IInv, Shapes
<1>4. TypeOK'
  <2>1. connects \in Nat
    BY DEF IInv, TypeOK
  <2>2. connects' \in Nat /\ conn' = TRUE /\ resynced' = FALSE
    BY <2>1
  <2>3. /\ UNCHANGED <<announced, counter, ring, lastEvicted, refused, stage, raced>>
        /\ UNCHANGED <<subscribed, flushing, attempts, acked, cursor, failed>>
    OBVIOUS
  <2> QED
    BY <2>2, <2>3 DEF IInv, TypeOK
<1>5. ReplyOK' /\ Connection'
  BY <1>1, <1>2 DEF IInv, ReplyOK, Connection
<1>6. RingOrder' /\ AppliedOnce' /\ RingAccountsForEverySeq' /\ OutboxOrder'
  BY DEF IInv, RingOrder, AppliedOnce, RingAccountsForEverySeq, OutboxOrder
<1>7. Coverage'
  BY DEF Coverage
<1> QED
  BY <1>3, <1>4, <1>5, <1>6, <1>7 DEF IInv

\* A lost connection leaves nothing of itself at the relay or on the wire.
LEMMA DisconnectInv ==
  ASSUME IInv, Disconnect PROVE IInv'
<1> USE DEF Disconnect, storeVars
<1>0. AppliedSet' = AppliedSet /\ counter' = counter /\ stage' = stage
  BY DEF AppliedSet
<1>1. /\ Items(<< >>) = {} /\ << >> \in Seq(Frame) /\ << >> \in Seq(OB!Item)
      /\ << >> \in Seq(AnnounceMsg \cup OB!Item)
  BY DEF Items
<1>2. ~reply'.pending /\ reply'.pending \in BOOLEAN
  BY DEF NoReply
<1>3. Shapes'
  <2>1. \A m : ItemOK(m)' = ItemOK(m)
    BY <1>0 DEF ItemOK
  <2> QED
    BY <1>0, <1>1, <2>1 DEF IInv, Shapes
<1>4. TypeOK'
  <2>1. /\ subscribed' = FALSE /\ flushing' = FALSE /\ conn' = FALSE
        /\ UNCHANGED <<announced, counter, ring, lastEvicted, refused, stage, raced>>
        /\ UNCHANGED <<connects, attempts, acked, resynced, cursor, failed>>
    OBVIOUS
  <2> QED
    BY <2>1 DEF IInv, TypeOK
<1>5. ReplyOK' /\ Connection'
  BY <1>1, <1>2 DEF ReplyOK, Connection
<1>6. RingOrder' /\ AppliedOnce' /\ RingAccountsForEverySeq'
  BY DEF IInv, RingOrder, AppliedOnce, RingAccountsForEverySeq
<1>7. OutboxOrder' /\ Coverage'
  BY <1>1 DEF OutboxOrder, Coverage
<1> QED
  BY <1>3, <1>4, <1>5, <1>6, <1>7 DEF IInv

\* One more resume on the wire.
LEMMA RetryResumeInv ==
  ASSUME IInv, RetryResume PROVE IInv'
<1> USE DEF RetryResume, storeVars, relayVars
<1>0. AppliedSet' = AppliedSet /\ counter' = counter /\ stage' = stage
  BY DEF AppliedSet
<1>1. /\ toRelay' \in Seq(Frame) /\ Items(toRelay) \subseteq Items(toRelay')
      /\ Items(toRelay') \subseteq Items(toRelay) \cup {[type |-> "resume"]}
      /\ ~conn => toRelay' = toRelay
  <2>1. toRelay \in Seq(Frame) /\ [type |-> "resume"] \in Frame
    BY DEF IInv, Shapes, Frame
  <2>2. /\ Append(toRelay, [type |-> "resume"]) \in Seq(Frame)
        /\ Items(Append(toRelay, [type |-> "resume"])) = Items(toRelay) \cup {[type |-> "resume"]}
    BY <2>1, ItemsAppend
  <2> QED
    BY <2>1, <2>2
<1>2. Shapes'
  <2>1. \A m : ItemOK(m)' = ItemOK(m)
    BY <1>0 DEF ItemOK
  <2> QED
    BY <1>0, <1>1, <2>1 DEF IInv, Shapes
<1>3. TypeOK'
  BY DEF IInv, TypeOK
<1>4. ReplyOK' /\ RingOrder' /\ AppliedOnce' /\ RingAccountsForEverySeq' /\ OutboxOrder'
  BY DEF IInv, ReplyOK, RingOrder, AppliedOnce, RingAccountsForEverySeq, OutboxOrder
<1>5. Connection'
  BY <1>1 DEF IInv, Connection
<1>6. Coverage'
  BY <1>0, <1>1 DEF IInv, Coverage, Accounted, OnItsWay, StandsFor
<1> QED
  BY <1>2, <1>3, <1>4, <1>5, <1>6 DEF IInv

\* A message leaves the wire; all else that holds of it stays.
LEMMA ReceivedIs ==
  ASSUME IInv, toClient # << >>, toClient' = Tail(toClient)
  PROVE  /\ toClient' \in Seq(AnnounceMsg \cup OB!Item)
         /\ Head(toClient) \in Items(toClient)
         /\ Items(toClient) = {Head(toClient)} \cup Items(toClient')
         /\ \/ Head(toClient) = [type |-> "announce"]
            \/ /\ Head(toClient).type \in {"update", "marker"} /\ ItemOK(Head(toClient))
               /\ Head(toClient).from \in Nat /\ Head(toClient).to \in Nat
<1>1. toClient \in Seq(AnnounceMsg \cup OB!Item)
  BY DEF IInv, Shapes
<1>2. /\ toClient' \in Seq(AnnounceMsg \cup OB!Item)
      /\ Items(toClient) = {Head(toClient)} \cup Items(toClient')
  BY <1>1, ItemsTail
<1>3. Head(toClient) \in Items(toClient)
  BY <1>2
<1> QED
  BY <1>2, <1>3, ItemTypes DEF IInv, Shapes

\* The announce starts the catching up: every seq beyond the high-water mark is
\* within the reach of the request, refused, or in the hands of its handler.
LEMMA ReceiveAnnounceInv ==
  ASSUME IInv, Receive, Head(toClient).type = "announce" PROVE IInv'
<1>0. /\ conn /\ toClient # << >> /\ toClient' = Tail(toClient) /\ ReceiveAnnounce
      /\ UNCHANGED <<storeVars, stage, relayVars, conn, connects, attempts, applied, failed>>
  BY DEF Receive
<1> USE DEF storeVars, relayVars
<1>1. AppliedSet' = AppliedSet /\ counter' = counter /\ stage' = stage /\ counter \in Nat
  BY <1>0 DEF AppliedSet, IInv, TypeOK
<1>2. /\ toClient' \in Seq(AnnounceMsg \cup OB!Item)
      /\ Head(toClient) \in Items(toClient)
      /\ Items(toClient) = {Head(toClient)} \cup Items(toClient')
  BY <1>0, ReceivedIs
<1>3. subscribed
  BY <1>2 DEF IInv, Connection
<1>4. acked' = TRUE /\ chain' = chain /\ gaps' = gaps
  BY <1>0 DEF ReceiveAnnounce
<1>5. LastApplied \in Nat
  BY <1>1, LastAppliedIs DEF IInv
<1>6. RingOrder' /\ AppliedOnce' /\ RingAccountsForEverySeq' /\ OutboxOrder'
  BY <1>0 DEF IInv, RingOrder, AppliedOnce, RingAccountsForEverySeq, OutboxOrder
<1>7. \A m : ItemOK(m)' = ItemOK(m)
  BY <1>1 DEF ItemOK
<1>8. CASE resynced
  <2>1. resynced' = resynced /\ cursor' = cursor /\ toRelay' = toRelay
    BY <1>0, <1>8 DEF ReceiveAnnounce
  <2>2. TypeOK'
    BY <1>0, <1>4, <2>1 DEF IInv, TypeOK
  <2>3. Shapes'
    BY <1>0, <1>1, <1>2, <1>4, <1>7, <2>1 DEF IInv, Shapes
  <2>4. ReplyOK'
    BY <1>0, <2>1 DEF IInv, ReplyOK
  <2>5. Connection'
    BY <1>0, <1>2, <2>1 DEF IInv, Connection
  <2>6. Coverage'
    <3>1. \A n : StandsFor(toClient, n) => StandsFor(toClient', n)
      BY <1>2 DEF StandsFor
    <3> QED
      BY <1>0, <1>1, <1>4, <2>1, <3>1 DEF IInv, Coverage, Accounted, OnItsWay, StandsFor
  <2> QED
    BY <1>6, <2>2, <2>3, <2>4, <2>5, <2>6 DEF IInv
<1>9. CASE ~resynced
  <2> DEFINE f == [type |-> "resync", since |-> LastApplied]
  <2>1. resynced' = TRUE /\ cursor' = LastApplied /\ toRelay' = Append(toRelay, f)
    BY <1>0, <1>9 DEF ReceiveAnnounce
  <2>2. f \in Frame /\ f.type = "resync" /\ f.since = LastApplied
    BY <1>5 DEF Frame
  <2> HIDE DEF f
  <2>3. toRelay' \in Seq(Frame) /\ Items(toRelay') = Items(toRelay) \cup {f}
    <3>1. toRelay \in Seq(Frame)
      BY DEF IInv, Shapes
    <3> QED
      BY <3>1, <2>1, <2>2, ItemsAppend
  <2>4. ~reply.pending /\ reply' = reply
    BY <1>0, <1>9 DEF IInv, ReplyOK
  <2>5. TypeOK'
    BY <1>0, <1>4, <1>5, <2>1 DEF IInv, TypeOK
  <2>6. Shapes'
    BY <1>0, <1>1, <1>2, <1>4, <1>7, <2>3 DEF IInv, Shapes
  <2>7. ReplyOK'
    BY <2>4 DEF IInv, ReplyOK
  <2>8. Connection'
    <3>1. \A m \in Items(toRelay) : m.type # "resync"
      BY <1>9 DEF IInv, Connection
    <3> QED
      BY <1>0, <1>2, <1>3, <2>1, <2>2, <2>3, <3>1 DEF IInv, Connection
  <2>9. Coverage'
    <3> SUFFICES ASSUME NEW n \in (LastApplied + 1)..counter
                 PROVE  (Accounted(n) \/ n \in raced \/ OnItsWay(n))'
      BY <1>1, <2>1 DEF Coverage
    <3>1. n \in 1..counter
      BY <1>5
    <3>2. n \in ring \/ n <= lastEvicted \/ n \in refused \/ (n = counter /\ stage = "assigned")
      BY <3>1 DEF IInv, RingAccountsForEverySeq
    <3>3. \E m \in Items(toRelay') : m.type = "resync"
      BY <2>2, <2>3
    <3>4. UNCHANGED <<ring, lastEvicted, refused, counter, stage>>
      BY <1>0
    <3> QED
      BY <3>2, <3>3, <3>4 DEF Accounted, OnItsWay
  <2> QED
    BY <1>6, <2>5, <2>6, <2>7, <2>8, <2>9 DEF IInv
<1> QED
  BY <1>8, <1>9

\* An update is queued for its turn, unless it was applied before.
LEMMA ReceiveUpdateInv ==
  ASSUME IInv, Receive, Head(toClient).type = "update" PROVE IInv'
<1>0. /\ conn /\ toClient # << >> /\ toClient' = Tail(toClient)
      /\ ReceiveUpdate(Head(toClient).from)
      /\ UNCHANGED <<storeVars, stage, relayVars, conn, connects, attempts, applied, failed>>
  BY DEF Receive
<1> USE DEF storeVars, relayVars
<1> DEFINE k == Head(toClient).from
<1>1. AppliedSet' = AppliedSet /\ counter' = counter /\ stage' = stage /\ counter \in Nat
  BY <1>0 DEF AppliedSet, IInv, TypeOK
<1>2. /\ toClient' \in Seq(AnnounceMsg \cup OB!Item)
      /\ Items(toClient) = {Head(toClient)} \cup Items(toClient')
      /\ k \in Nat /\ k <= counter /\ Head(toClient).to = k
  BY <1>0, ReceivedIs DEF ItemOK
<1>3. UNCHANGED <<toRelay, acked, resynced, cursor, gaps>>
  BY <1>0 DEF ReceiveUpdate
<1>4. /\ chain' \in Seq(Nat) /\ Items(chain) \subseteq Items(chain')
      /\ Items(chain') \subseteq Items(chain) \cup {k}
      /\ k \in AppliedSet \/ k \in Items(chain')
  <2>1. chain \in Seq(Nat)
    BY DEF IInv, Shapes
  <2>2. Append(chain, k) \in Seq(Nat) /\ Items(Append(chain, k)) = Items(chain) \cup {k}
    BY <1>2, <2>1, ItemsAppend
  <2>3. chain' = IF k \in AppliedSet THEN chain ELSE Append(chain, k)
    BY <1>0 DEF ReceiveUpdate
  <2> QED
    BY <2>1, <2>2, <2>3
<1>5. RingOrder' /\ AppliedOnce' /\ RingAccountsForEverySeq' /\ OutboxOrder'
  BY <1>0 DEF IInv, RingOrder, AppliedOnce, RingAccountsForEverySeq, OutboxOrder
<1>6. TypeOK' /\ ReplyOK'
  BY <1>0, <1>3 DEF IInv, TypeOK, ReplyOK
<1>7. Shapes'
  <2>1. \A m : ItemOK(m)' = ItemOK(m)
    BY <1>1 DEF ItemOK
  <2>2. \A n \in Items(chain') : n <= counter
    BY <1>2, <1>4 DEF IInv, Shapes
  <2> QED
    BY <1>0, <1>1, <1>2, <1>3, <1>4, <2>1, <2>2 DEF IInv, Shapes
<1>8. Connection'
  BY <1>0, <1>2, <1>3 DEF IInv, Connection
<1>9. Coverage'
  <2> SUFFICES ASSUME conn, resynced, NEW n \in (cursor + 1)..counter
               PROVE  (Accounted(n) \/ n \in raced \/ OnItsWay(n))'
    BY <1>0, <1>1, <1>3 DEF Coverage
  <2>1. Accounted(n) \/ n \in raced \/ OnItsWay(n)
    BY DEF IInv, Coverage
  <2>2. n \in Nat
    BY DEF IInv, TypeOK
  <2>3. StandsFor(toClient, n) => StandsFor(toClient', n) \/ n = k
    BY <1>2, <2>2 DEF StandsFor
  <2>4. CASE n = k
    BY <2>4, <1>1, <1>4 DEF Accounted, OnItsWay
  <2>5. CASE n # k
    BY <2>1, <2>3, <2>5, <1>0, <1>1, <1>3, <1>4 DEF Accounted, OnItsWay, StandsFor
  <2> QED
    BY <2>4, <2>5
<1> QED
  BY <1>5, <1>6, <1>7, <1>8, <1>9 DEF IInv

\* A marker becomes a gap item.
LEMMA ReceiveMarkerInv ==
  ASSUME IInv, Receive, Head(toClient).type = "marker" PROVE IInv'
<1>0. /\ conn /\ toClient # << >> /\ toClient' = Tail(toClient)
      /\ ReceiveMarker(Head(toClient).from, Head(toClient).to)
      /\ UNCHANGED <<storeVars, stage, relayVars, conn, connects, attempts, applied, failed>>
  BY DEF Receive
<1> USE DEF storeVars, relayVars
<1> DEFINE f == Head(toClient).from
           t == Head(toClient).to
<1>1. AppliedSet' = AppliedSet /\ counter' = counter /\ stage' = stage /\ counter \in Nat
  BY <1>0 DEF AppliedSet, IInv, TypeOK
<1>2. /\ toClient' \in Seq(AnnounceMsg \cup OB!Item)
      /\ Items(toClient) = {Head(toClient)} \cup Items(toClient')
      /\ f \in Nat /\ t \in Nat
  BY <1>0, ReceivedIs
<1>3. UNCHANGED <<toRelay, acked, resynced, cursor, chain>> /\ gaps' = gaps \cup {<<f, t>>}
  BY <1>0 DEF ReceiveMarker
<1>4. RingOrder' /\ AppliedOnce' /\ RingAccountsForEverySeq' /\ OutboxOrder'
  BY <1>0 DEF IInv, RingOrder, AppliedOnce, RingAccountsForEverySeq, OutboxOrder
<1>5. TypeOK' /\ ReplyOK'
  BY <1>0, <1>3 DEF IInv, TypeOK, ReplyOK
<1>6. Shapes'
  <2>1. \A m : ItemOK(m)' = ItemOK(m)
    BY <1>1 DEF ItemOK
  <2> QED
    BY <1>0, <1>1, <1>2, <1>3, <2>1 DEF IInv, Shapes
<1>7. Connection'
  BY <1>0, <1>2, <1>3 DEF IInv, Connection
<1>8. Coverage'
  <2> SUFFICES ASSUME conn, resynced, NEW n \in (cursor + 1)..counter
               PROVE  (Accounted(n) \/ n \in raced \/ OnItsWay(n))'
    BY <1>0, <1>1, <1>3 DEF Coverage
  <2>1. Accounted(n) \/ n \in raced \/ OnItsWay(n)
    BY DEF IInv, Coverage
  <2>2. n \in Nat
    BY DEF IInv, TypeOK
  <2>3. StandsFor(toClient, n) => StandsFor(toClient', n) \/ n \in f..t
    BY <1>2, <2>2 DEF StandsFor
  <2>4. CASE n \in f..t
    <3>1. <<f, t>> \in gaps' /\ n \in <<f, t>>[1]..<<f, t>>[2]
      BY <2>4, <1>3
    <3> QED
      BY <3>1 DEF Accounted
  <2>5. CASE n \notin f..t
    <3>1. Accounted(n) => Accounted(n)'
      BY <1>0, <1>1, <1>3 DEF Accounted
    <3> QED
      BY <2>1, <2>3, <2>5, <3>1, <1>0, <1>1, <1>3 DEF OnItsWay, StandsFor
  <2> QED
    BY <2>4, <2>5
<1> QED
  BY <1>4, <1>5, <1>6, <1>7, <1>8 DEF IInv

\* The update whose turn it is leaves the queue.
LEMMA DequeuedIs ==
  ASSUME IInv, chain # << >>, chain' = Tail(chain)
  PROVE  /\ chain' \in Seq(Nat) /\ Items(chain) = {Head(chain)} \cup Items(chain')
         /\ Head(chain) \in Nat /\ Head(chain) <= counter
<1>1. chain \in Seq(Nat)
  BY DEF IInv, Shapes
<1>2. /\ chain' \in Seq(Nat) /\ Items(chain) = {Head(chain)} \cup Items(chain')
      /\ Head(chain) \in Nat
  BY <1>1, ItemsTail
<1> QED
  BY <1>2 DEF IInv, Shapes

\* It is applied, unless its seq has been meanwhile.
LEMMA ProcessUpdateInv ==
  ASSUME IInv, ProcessUpdate PROVE IInv'
<1> USE DEF ProcessUpdate, storeVars, relayVars, wireVars
<1> DEFINE k == Head(chain)
<1>0. counter' = counter /\ stage' = stage /\ counter \in Nat /\ applied \in Seq(Nat)
  BY DEF IInv, TypeOK, Shapes
<1>1. /\ chain' \in Seq(Nat) /\ Items(chain) = {k} \cup Items(chain')
      /\ k \in Nat /\ k <= counter
  BY DequeuedIs
<1>2. /\ applied' \in Seq(Nat) /\ AppliedSet' = AppliedSet \cup {k} /\ AppliedOnce'
  <2>1. CASE k \in AppliedSet
    <3>1. applied' = applied
      BY <2>1
    <3> QED
      BY <2>1, <3>1, <1>0 DEF AppliedSet, AppliedOnce, IInv
  <2>2. CASE k \notin AppliedSet
    <3>1. applied' = Append(applied, k)
      BY <2>2
    <3>2. /\ DOMAIN applied' = 1..(Len(applied) + 1) /\ Len(applied) \in Nat
          /\ DOMAIN applied = 1..Len(applied)
          /\ \A i \in 1..Len(applied) : applied'[i] = applied[i]
          /\ applied'[Len(applied) + 1] = k
          /\ applied' \in Seq(Nat)
      BY <3>1, <1>0, <1>1
    <3>3. \A i \in 1..Len(applied) : applied[i] # k
      BY <2>2, <3>2 DEF AppliedSet
    <3>4. AppliedOnce'
      <4> SUFFICES ASSUME NEW i \in DOMAIN applied', NEW j \in DOMAIN applied', applied'[i] = applied'[j]
                   PROVE  i = j
        BY DEF AppliedOnce
      <4>1. CASE i \in 1..Len(applied) /\ j \in 1..Len(applied)
        BY <4>1, <3>2 DEF IInv, AppliedOnce
      <4>2. CASE i \notin 1..Len(applied) \/ j \notin 1..Len(applied)
        BY <4>2, <3>2, <3>3
      <4> QED
        BY <4>1, <4>2
    <3>5. AppliedSet' = AppliedSet \cup {k}
      <4>1. Items(applied') = Items(applied) \cup {k}
        BY <1>0, <3>1, ItemsAppend
      <4> QED
        BY <4>1 DEF Items, AppliedSet
    <3> QED
      BY <3>2, <3>4, <3>5
  <2> QED
    BY <2>1, <2>2
<1>3. RingOrder' /\ RingAccountsForEverySeq' /\ OutboxOrder'
  BY DEF IInv, RingOrder, RingAccountsForEverySeq, OutboxOrder
<1>4. TypeOK' /\ ReplyOK' /\ Connection'
  BY DEF IInv, TypeOK, ReplyOK, Connection
<1>5. Shapes'
  <2>1. \A m : ItemOK(m)' = ItemOK(m)
    BY <1>0 DEF ItemOK
  <2> QED
    BY <1>0, <1>1, <1>2, <2>1 DEF IInv, Shapes
<1>6. Coverage'
  BY <1>0, <1>1, <1>2 DEF IInv, Coverage, Accounted, OnItsWay, StandsFor
<1> QED
  BY <1>2, <1>3, <1>4, <1>5, <1>6 DEF IInv

\* It is dropped as not decryptable.
LEMMA DecryptFailsInv ==
  ASSUME IInv, DecryptFails PROVE IInv'
<1> USE DEF DecryptFails, storeVars, relayVars, wireVars
<1>0. AppliedSet' = AppliedSet /\ counter' = counter /\ stage' = stage
  BY DEF AppliedSet
<1>1. /\ chain' \in Seq(Nat) /\ Items(chain) = {Head(chain)} \cup Items(chain')
      /\ Head(chain) \in Nat
  BY DequeuedIs
<1>2. RingOrder' /\ AppliedOnce' /\ RingAccountsForEverySeq' /\ OutboxOrder'
  BY DEF IInv, RingOrder, AppliedOnce, RingAccountsForEverySeq, OutboxOrder
<1>3. TypeOK' /\ ReplyOK' /\ Connection'
  BY <1>1 DEF IInv, TypeOK, ReplyOK, Connection
<1>4. Shapes'
  <2>1. \A m : ItemOK(m)' = ItemOK(m)
    BY <1>0 DEF ItemOK
  <2> QED
    BY <1>0, <1>1, <2>1 DEF IInv, Shapes
<1>5. Coverage'
  BY <1>0, <1>1 DEF IInv, Coverage, Accounted, OnItsWay, StandsFor
<1> QED
  BY <1>2, <1>3, <1>4, <1>5 DEF IInv

-----------------------------------------------------------------------------
\* Every step keeps the invariant.
LEMMA NextInv == IInv /\ [Next]_vars => IInv'
<1> SUFFICES ASSUME IInv, [Next]_vars PROVE IInv'
  OBVIOUS
<1>1. CASE UNCHANGED vars
  BY <1>1 DEF vars, storeVars, relayVars, wireVars, clientVars, IInv, TypeOK, Shapes, ItemOK,
     ReplyOK, Connection, OutboxOrder, RingOrder, RingAccountsForEverySeq, AppliedOnce,
     Coverage, Accounted, OnItsWay, AppliedSet, StandsFor
<1>2. CASE Announce
  BY <1>2, AnnounceInv
<1>3. CASE AssignSeq
  BY <1>3, AssignSeqInv
<1>4. CASE \E fits \in BOOLEAN : BufferUpdate(fits)
  BY <1>4, BufferUpdateInv
<1>5. CASE FanOutUpdate
  BY <1>5, FanOutUpdateInv
<1>6. CASE OutboxFloor
  BY <1>6, OutboxFloorInv
<1>7. CASE SessionResume
  BY <1>7, SessionResumeInv
<1>8. CASE ResyncRead
  BY <1>8, ResyncReadInv
<1>9. CASE ResyncReply
  BY <1>9, ResyncReplyInv
<1>10. CASE Connect
  BY <1>10, ConnectInv
<1>11. CASE Disconnect
  BY <1>11, DisconnectInv
<1>12. CASE RetryResume
  BY <1>12, RetryResumeInv
<1>13. CASE Receive
  <2>1. Head(toClient).type \in {"announce", "update", "marker"}
    <3>1. toClient # << >> /\ toClient' = Tail(toClient)
      BY <1>13 DEF Receive
    <3> QED
      BY <3>1, ReceivedIs
  <2> QED
    BY <1>13, <2>1, ReceiveAnnounceInv, ReceiveUpdateInv, ReceiveMarkerInv
<1>14. CASE ProcessUpdate
  BY <1>14, ProcessUpdateInv
<1>15. CASE DecryptFails
  BY <1>15, DecryptFailsInv
<1> QED
  BY <1>1, <1>2, <1>3, <1>4, <1>5, <1>6, <1>7, <1>8, <1>9, <1>10, <1>11, <1>12, <1>13,
     <1>14, <1>15 DEF Next, Node, Relay, Client

\* The inductive invariant holds in every reachable state.
THEOREM StreamInvariant == Spec => []IInv
  BY InitInv, NextInv, PTL DEF Spec

\* Types are kept.
THEOREM TypeCorrect == Spec => []TypeOK
<1>1. IInv => TypeOK
  BY DEF IInv
<1> QED
  BY <1>1, StreamInvariant, PTL

\* Every seq that session_update gave out is in the ring, noted as evicted by
\* pushRingEntry, refused by the quota, or still with its handler, and the ring
\* never grows past ringBufferSize: for every capacity and every course of events.
THEOREM RingAccounts == Spec => []RingAccountsForEverySeq
<1>1. IInv => RingAccountsForEverySeq
  BY DEF IInv
<1> QED
  BY <1>1, StreamInvariant, PTL

\* No seq is applied twice by processSessionUpdate, however often fan-out and
\* replays on any number of connections deliver it.
THEOREM NothingAppliedTwice == Spec => []AppliedOnce
<1>1. IInv => AppliedOnce
  BY DEF IInv
<1> QED
  BY <1>1, StreamInvariant, PTL

\* A connection that has nothing under way has shown the client every seq after
\* the cursor of its resync_request, save those evicted under a waiting reply: at
\* every moment before, each missing seq is in the decrypt queue, on the wire, in
\* the outbox, with its handler, or within the reach of the resync.
THEOREM QuietMeansCaughtUp == Spec => []CaughtUpSinceCursor
<1>1. IInv => CaughtUpSinceCursor
  <2> SUFFICES ASSUME IInv, Quiet, NEW n \in (cursor + 1)..counter
               PROVE  Accounted(n) \/ n \in raced
    BY DEF CaughtUpSinceCursor
  <2>1. Items(<< >>) = {}
    BY DEF Items
  <2>2. ~OnItsWay(n)
    BY <2>1 DEF Quiet, OnItsWay, StandsFor
  <2> QED
    BY <2>2 DEF IInv, Coverage, Quiet
<1> QED
  BY <1>1, StreamInvariant, PTL

-----------------------------------------------------------------------------
(* The outboxes over any number of streams, in either grouping.              *)

\* The items of each stream in s stand for ranges in increasing order.
Pieces(s) ==
  /\ \A i \in DOMAIN s : s[i].from <= s[i].to
  /\ \A i, j \in DOMAIN s : i < j /\ s[i].key = s[j].key => s[i].to < s[j].from

\* The fields of an item.
LEMMA ItemFields ==
  ASSUME NEW S \in SUBSET Item, NEW s \in Seq(S)
  PROVE  /\ DOMAIN s = 1..Len(s) /\ Len(s) \in Nat
         /\ \A i \in 1..Len(s) : /\ s[i] \in Item /\ s[i].type \in {"update", "marker"}
                                 /\ s[i].key \in Keys /\ s[i].from \in Nat /\ s[i].to \in Nat
<1>1. DOMAIN s = 1..Len(s) /\ Len(s) \in Nat /\ \A i \in 1..Len(s) : s[i] \in Item
  OBVIOUS
<1> QED
  BY <1>1 DEF Item

\* A later item of a stream stands for later numbers.
LEMMA PiecesAscend ==
  ASSUME NEW s \in Seq(Item), Pieces(s), NEW i \in 1..Len(s), NEW j \in 1..Len(s),
         i <= j, s[i].key = s[j].key
  PROVE  s[i].from <= s[j].from /\ s[i].to <= s[j].to
<1>1. /\ DOMAIN s = 1..Len(s) /\ s[i].from \in Nat /\ s[i].to \in Nat
      /\ s[j].from \in Nat /\ s[j].to \in Nat
  BY ItemFields
<1>2. s[i].from <= s[i].to /\ s[j].from <= s[j].to /\ (i = j \/ s[i].to < s[j].from)
  BY <1>1 DEF Pieces
<1> QED
  BY <1>1, <1>2

\* The marker of a group runs from the group's first number to its last, which are
\* those of its first and last items.
LEMMA MarkerIs ==
  ASSUME NEW d \in Seq(Item), Pieces(d), grouping \in {"contiguous", "perKey"},
         NEW i \in 1..Len(d), i \in Starts(d)
  PROVE  \E f, l \in GroupOf(d, i) :
           /\ f \in 1..Len(d) /\ l \in 1..Len(d) /\ d[f].key = d[i].key /\ d[l].key = d[i].key
           /\ MarkerAt(d, i) = Marker(d[i].key, d[f].from, d[l].to)
           /\ \A j \in GroupOf(d, i) : d[f].from <= d[j].from /\ d[j].to <= d[l].to
           /\ grouping = "contiguous" => f = i
<1> DEFINE G == GroupOf(d, i)
           IsFirst(j) == \A l \in G :
             IF grouping = "contiguous" THEN j <= l ELSE d[j].from <= d[l].from
           IsLast(j) == \A l \in G :
             IF grouping = "contiguous" THEN j >= l ELSE d[j].to >= d[l].to
           first == CHOOSE j \in G : IsFirst(j)
           last == CHOOSE j \in G : IsLast(j)
<1>0. /\ Len(d) \in Nat /\ DOMAIN d = 1..Len(d)
      /\ \A j \in 1..Len(d) : d[j].from \in Nat /\ d[j].to \in Nat
  BY ItemFields
<1>1. /\ G \in SUBSET Nat /\ G \subseteq 1..Len(d) /\ i \in G
      /\ \A j \in G : d[j].key = d[i].key
      /\ grouping = "contiguous" => \A j \in G : i <= j
  BY <1>0 DEF GroupOf
<1> HIDE DEF G
<1>2. PICK f0 \in G : \A j \in G : f0 <= j
  BY <1>1, LeastExists
<1>3. PICK l0 \in G : \A j \in G : j <= l0
  <2>1. G # {} /\ \A j \in G : j <= Len(d)
    BY <1>0, <1>1
  <2> QED
    BY <1>0, <1>1, <2>1, GreatestExists

<1>4. ASSUME NEW j \in G, NEW k \in G, j <= k
      PROVE  d[j].from <= d[k].from /\ d[j].to <= d[k].to
  BY <1>1, <1>4, PiecesAscend
<1>5. IsFirst(f0)
  BY <1>2, <1>4
<1>6. IsLast(l0)
  <2>1. \A l \in G : l <= l0 /\ l \in Nat /\ l0 \in Nat /\ d[l].to \in Nat /\ d[l0].to \in Nat
    BY <1>0, <1>1, <1>3
  <2> QED
    BY <1>3, <1>4, <2>1
<1>7. first \in G /\ IsFirst(first)
  <2> HIDE DEF IsFirst
  <2> QED
    BY <1>5
<1>8. last \in G /\ IsLast(last)
  <2> HIDE DEF IsLast
  <2> QED
    BY <1>6
<1>9. MarkerAt(d, i) = Marker(d[i].key, d[first].from, d[last].to)
  BY DEF MarkerAt, G
<1> HIDE DEF first, last
<1>10. \A j \in G : d[first].from <= d[j].from /\ d[j].to <= d[last].to
  <2> SUFFICES ASSUME NEW j \in G PROVE d[first].from <= d[j].from /\ d[j].to <= d[last].to
    OBVIOUS
  <2>1. /\ d[first].from \in Nat /\ d[j].from \in Nat /\ d[last].to \in Nat /\ d[j].to \in Nat
        /\ first \in Nat /\ last \in Nat /\ j \in Nat
    BY <1>0, <1>1, <1>7, <1>8
  <2>2. CASE grouping = "contiguous"
    <3>1. first <= j /\ j <= last
      BY <1>7, <1>8, <2>1, <2>2
    <3> QED
      BY <1>4, <1>7, <1>8, <3>1
  <2>3. CASE grouping # "contiguous"
    BY <1>7, <1>8, <2>1, <2>3
  <2> QED
    BY <2>2, <2>3
<1>11. grouping = "contiguous" => first = i
  <2> SUFFICES ASSUME grouping = "contiguous" PROVE first = i
    OBVIOUS
  <2>1. first <= i /\ i <= first /\ first \in Nat /\ i \in Nat
    BY <1>0, <1>1, <1>7
  <2> QED
    BY <2>1
<1>12. /\ first \in 1..Len(d) /\ last \in 1..Len(d)
       /\ d[first].key = d[i].key /\ d[last].key = d[i].key
  BY <1>1, <1>7, <1>8
<1> QED
  BY <1>7, <1>8, <1>9, <1>10, <1>11, <1>12 DEF G

\* Markers are made at positions of the batch, at the first at the latest, and
\* every item of the batch belongs to the group of one.
LEMMA EveryItemGrouped ==
  ASSUME NEW d \in Seq(Item), NEW i \in 1..Len(d), grouping \in {"contiguous", "perKey"}
  PROVE  /\ Starts(d) \in SUBSET (1..Len(d))
         /\ \E t \in Starts(d) : i \in GroupOf(d, t) /\ d[t].key = d[i].key
<1>0. Len(d) \in Nat /\ DOMAIN d = 1..Len(d) /\ i \in Nat /\ 1 <= i /\ i <= Len(d)
  OBVIOUS
<1>1. Starts(d) \in SUBSET (1..Len(d))
  BY DEF Starts
<1>2. CASE grouping = "contiguous"
  <2> DEFINE T == {t \in 1..i : t \in Starts(d)}
  <2>1. 1 \in T
    BY <1>0, <1>2 DEF Starts
  <2>2. T \in SUBSET Nat /\ \A t \in T : t <= i
    BY <1>0
  <2>3. PICK t \in T : \A u \in T : u <= t
    <3> HIDE DEF T
    <3> QED
      BY <1>0, <2>1, <2>2, GreatestExists
  <2> DEFINE W == {l \in t..i : d[l].key # d[t].key}
  <2>4. t \in 1..i /\ t \in Starts(d)
    OBVIOUS
  <2>5. W = {}
    <3> SUFFICES ASSUME W # {} PROVE FALSE
      OBVIOUS
    <3>1. W \in SUBSET Nat
      BY <1>0, <2>4
    <3>2. PICK l \in W : \A m \in W : l <= m
      <4> HIDE DEF W
      <4> QED
        BY <3>1, LeastExists
    <3>3. l \in t..i /\ d[l].key # d[t].key /\ l # t
      BY <2>4, <3>2
    <3>4. l - 1 \in t..i /\ l - 1 \notin W
      <4>1. l - 1 \in t..i /\ l \in Nat /\ l - 1 \in Nat
        BY <1>0, <2>4, <3>3
      <4>2. ~(l <= l - 1)
        BY <4>1
      <4> QED
        BY <3>2, <4>1, <4>2
    <3>5. d[l - 1].key = d[t].key
      BY <3>4
    <3>6. l \in Starts(d) /\ l \in 1..i
      <4>1. l \in 1..Len(d) /\ l \in 1..i
        BY <1>0, <2>4, <3>3
      <4> QED
        BY <1>2, <3>3, <3>5, <4>1 DEF Starts
    <3>7. l <= t
      BY <2>3, <3>6
    <3> QED
      BY <1>0, <2>4, <3>3, <3>7
  <2>6. \A l \in t..i : d[l].key = d[t].key
    BY <2>5
  <2>7. i \in t..Len(d) /\ i \in t..i
    BY <1>0, <2>4
  <2> HIDE DEF T, W
  <2>8. i \in GroupOf(d, t)
    BY <1>2, <2>6, <2>7 DEF GroupOf
  <2> QED
    BY <1>1, <2>4, <2>6, <2>7, <2>8
<1>3. CASE grouping = "perKey"
  <2> DEFINE T == {t \in 1..Len(d) : d[t].key = d[i].key}
  <2>1. T \in SUBSET Nat /\ i \in T
    BY <1>0
  <2>2. PICK t \in T : \A u \in T : t <= u
    <3> HIDE DEF T
    <3> QED
      BY <2>1, LeastExists
  <2>3. t \in 1..Len(d) /\ d[t].key = d[i].key
    OBVIOUS
  <2>4. ASSUME NEW j \in 1..(t - 1) PROVE d[j].key # d[t].key
    <3>1. j \in 1..Len(d) /\ ~(t <= j)
      BY <1>0, <2>3
    <3> QED
      BY <2>2, <2>3, <3>1
  <2>5. t \in Starts(d)
    BY <1>3, <2>3, <2>4 DEF Starts
  <2>6. i \in GroupOf(d, t)
    BY <1>3, <2>3 DEF GroupOf
  <2> QED
    BY <1>1, <2>3, <2>5, <2>6
<1> QED
  BY <1>2, <1>3

\* A marker that starts later is for another stream, or for later numbers.
LEMMA MarkersAscend ==
  ASSUME NEW d \in Seq(Item), Pieces(d), grouping \in {"contiguous", "perKey"},
         NEW i \in Starts(d), NEW j \in Starts(d), i < j, d[i].key = d[j].key
  PROVE  MarkerAt(d, i).to < MarkerAt(d, j).from
<1>0. Len(d) \in Nat /\ DOMAIN d = 1..Len(d) /\ i \in 1..Len(d) /\ j \in 1..Len(d)
  BY DEF Starts
<1>1. grouping = "contiguous"
  <2>1. i \in 1..(j - 1)
    BY <1>0
  <2> QED
    BY <2>1 DEF Starts
<1>2. PICK f, l \in GroupOf(d, i) :
        /\ l \in 1..Len(d) /\ d[l].key = d[i].key
        /\ MarkerAt(d, i) = Marker(d[i].key, d[f].from, d[l].to)
  BY <1>0, MarkerIs
<1>3. PICK g, m \in GroupOf(d, j) :
        /\ MarkerAt(d, j) = Marker(d[j].key, d[g].from, d[m].to) /\ g = j
  BY <1>0, <1>1, MarkerIs
<1>4. l < j
  <2> SUFFICES ASSUME ~(l < j) PROVE FALSE
    OBVIOUS
  <2>1. l \in i..Len(d) /\ \A u \in i..l : d[u].key = d[i].key
    BY <1>1, <1>2 DEF GroupOf
  <2>2. j - 1 \in i..l /\ j \in i..l /\ j > 1
    BY <1>0, <2>1
  <2>3. d[j - 1].key = d[j].key
    BY <2>1, <2>2
  <2> QED
    BY <1>1, <2>2, <2>3 DEF Starts
<1>5. d[l].to < d[j].from
  BY <1>0, <1>2, <1>4 DEF Pieces
<1> QED
  BY <1>2, <1>3, <1>5 DEF Marker

\* Ranks are ordered like the elements.
LEMMA RankAscends ==
  ASSUME NEW b \in Nat, NEW S \in SUBSET (1..b), NEW m \in S, NEW n \in S, Rank(S, m) < Rank(S, n)
  PROVE  m < n
<1> SUFFICES ASSUME n <= m PROVE FALSE
  OBVIOUS
<1> DEFINE Below(x) == {y \in S : y <= x}
<1>1. S \subseteq Nat
  OBVIOUS
<1>2. Below(n) \in SUBSET Below(m)
  <2>1. ASSUME NEW y \in S, y <= n PROVE y <= m
    <3>1. y \in Nat /\ n \in Nat /\ m \in Nat
      BY <1>1
    <3> QED
      BY <2>1, <3>1
  <2> QED
    BY <2>1
<1>3. IsFiniteSet(Below(m))
  <2>1. IsFiniteSet(1..b)
    BY FS_Interval
  <2>2. Below(m) \in SUBSET (1..b)
    OBVIOUS
  <2> QED
    BY <2>1, <2>2, FS_Subset
<1> HIDE DEF Below
<1>4. Cardinality(Below(n)) <= Cardinality(Below(m))
  BY <1>2, <1>3, FS_Subset
<1>5. Rank(S, m) \in Nat /\ Rank(S, n) \in Nat
  <2>1. Cardinality(S) \in Nat /\ \A x \in S : Rank(S, x) \in 1..Cardinality(S)
    BY RankIsBijective
  <2> QED
    BY <2>1

<1> QED
  BY <1>4, <1>5 DEF Rank, Below

\* The markers of a dropped batch: each runs between numbers of items of its
\* stream, every item is within one, and they are in order.
LEMMA MarkersAre ==
  ASSUME NEW d \in Seq(Item), Pieces(d), grouping \in {"contiguous", "perKey"}
  PROVE  LET B == BuildMarkers(d)
         IN  /\ B \in Seq(Item) /\ Len(B) = Cardinality(Starts(d)) /\ Pieces(B)
             /\ \A n \in 1..Len(B) :
                  /\ B[n].type = "marker"
                  /\ \E f, l \in 1..Len(d) : /\ d[f].key = B[n].key /\ d[l].key = B[n].key
                                             /\ B[n].from = d[f].from /\ B[n].to = d[l].to
             /\ \A i \in 1..Len(d) : \E n \in 1..Len(B) :
                  B[n].key = d[i].key /\ B[n].from <= d[i].from /\ d[i].to <= B[n].to
<1> DEFINE S == Starts(d)
           C == Cardinality(S)
           At(n) == CHOOSE i \in S : Rank(S, i) = n
           B == BuildMarkers(d)
<1>0. /\ Len(d) \in Nat /\ DOMAIN d = 1..Len(d)
      /\ \A i \in 1..Len(d) : d[i].key \in Keys /\ d[i].from \in Nat /\ d[i].to \in Nat
  BY ItemFields
<1>1. S \in SUBSET (1..Len(d))
  BY DEF Starts
<1>2. /\ C \in Nat
      /\ \A i \in S : Rank(S, i) \in 1..C
      /\ \A i, j \in S : Rank(S, i) = Rank(S, j) => i = j
      /\ \A n \in 1..C : \E i \in S : Rank(S, i) = n
  <2> HIDE DEF S
  <2> QED
    BY <1>0, <1>1, RankIsBijective
<1>3. \A n \in 1..C : At(n) \in S /\ Rank(S, At(n)) = n
  <2> HIDE DEF S, C
  <2> QED
    BY <1>2
<1>4. B = [n \in 1..C |-> MarkerAt(d, At(n))]
  <2>1. \A n : Nth(S, n) = At(n)
    BY DEF Nth, Rank
  <2> QED
    BY <2>1 DEF BuildMarkers
<1> HIDE DEF S, C, At, B
<1>5. ASSUME NEW n \in 1..C
      PROVE  /\ At(n) \in S /\ At(n) \in 1..Len(d) /\ B[n] = MarkerAt(d, At(n))
             /\ B[n] \in Item /\ B[n].type = "marker" /\ B[n].key = d[At(n)].key
             /\ B[n].from <= B[n].to
             /\ \E f, l \in 1..Len(d) : /\ d[f].key = B[n].key /\ d[l].key = B[n].key
                                        /\ B[n].from = d[f].from /\ B[n].to = d[l].to
             /\ \A j \in GroupOf(d, At(n)) : B[n].from <= d[j].from /\ d[j].to <= B[n].to
  <2> DEFINE i == At(n)
  <2>1. i \in S /\ i \in 1..Len(d) /\ B[n] = MarkerAt(d, i)
    BY <1>1, <1>3, <1>4
  <2> HIDE DEF i
  <2>2. PICK f, l \in GroupOf(d, i) :
           /\ f \in 1..Len(d) /\ l \in 1..Len(d) /\ d[f].key = d[i].key /\ d[l].key = d[i].key
           /\ MarkerAt(d, i) = Marker(d[i].key, d[f].from, d[l].to)
           /\ \A j \in GroupOf(d, i) : d[f].from <= d[j].from /\ d[j].to <= d[l].to
    BY <2>1, MarkerIs DEF S
  <2>3. /\ B[n].type = "marker" /\ B[n].key = d[i].key
        /\ B[n].from = d[f].from /\ B[n].to = d[l].to
    BY <2>1, <2>2 DEF Marker
  <2>4. B[n] \in Item
    BY <1>0, <2>1, <2>2 DEF Marker, Item
  <2>5. d[f].from <= d[l].to
    <3>1. d[f].from <= d[l].from /\ d[l].from <= d[l].to
      BY <1>0, <2>2 DEF Pieces
    <3> QED
      BY <1>0, <2>2, <3>1
  <2> QED
    BY <2>1, <2>2, <2>3, <2>4, <2>5 DEF i
<1>6. B \in Seq(Item) /\ Len(B) = C /\ DOMAIN B = 1..C
  <2>1. B = [n \in 1..C |-> B[n]]
    BY <1>4
  <2>2. \A n \in 1..C : B[n] \in Item
    BY <1>5
  <2> QED
    BY <1>2, <2>1, <2>2
<1>7. Pieces(B)

  <2> SUFFICES ASSUME NEW m \in 1..C, NEW n \in 1..C, m < n, B[m].key = B[n].key
               PROVE  B[m].to < B[n].from
    BY <1>5, <1>6 DEF Pieces
  <2>1. At(m) < At(n)
    <3>1. At(m) \in S /\ At(n) \in S /\ Rank(S, At(m)) < Rank(S, At(n))
      BY <1>3
    <3> QED
      BY <1>0, <1>1, <3>1, RankAscends
  <2>2. /\ At(m) \in S /\ At(n) \in S /\ d[At(m)].key = d[At(n)].key
        /\ B[m] = MarkerAt(d, At(m)) /\ B[n] = MarkerAt(d, At(n))
    BY <1>5
  <2> QED
    BY <2>1, <2>2, MarkersAscend DEF S
<1>8. ASSUME NEW i \in 1..Len(d)
      PROVE  \E n \in 1..C : B[n].key = d[i].key /\ B[n].from <= d[i].from /\ d[i].to <= B[n].to
  <2>1. PICK t \in S : i \in GroupOf(d, t) /\ d[t].key = d[i].key
    BY EveryItemGrouped DEF S
  <2>2. PICK n \in 1..C : Rank(S, t) = n
    BY <1>2
  <2>3. At(n) = t
    BY <1>2, <1>3, <2>2
  <2> QED
    BY <1>5, <2>1, <2>3
<1> QED
  BY <1>5, <1>6, <1>7, <1>8 DEF B, C, S

\* The three parts of EachSeqOnceInOrder: the items of each stream are in order,
\* stand for numbers that were produced, and leave none of them out.
Ascending(s) == \A i, j \in DOMAIN s : i < j /\ s[i].key = s[j].key => s[i].to < s[j].from

Before(x, y) == \A m \in Items(x), n \in Items(y) : m.key = n.key => m.to < n.from

Within(S, p) == \A m \in S : 1 <= m.from /\ m.from <= m.to /\ m.to <= p[m.key]

AllOf(S, p) ==
  \A k \in Keys : \A n \in 1..p[k] : \E m \in S : m.key = k /\ m.from <= n /\ n <= m.to

\* A concatenation is in order if its parts are and the first comes first.
LEMMA AscendingConcat ==
  ASSUME NEW x \in Seq(Item), NEW y \in Seq(Item)
  PROVE  Ascending(x \o y) <=> Ascending(x) /\ Ascending(y) /\ Before(x, y)
<1> DEFINE s == x \o y
           a == Len(x)
<1>1. /\ DOMAIN x = 1..a /\ a \in Nat /\ DOMAIN y = 1..Len(y) /\ Len(y) \in Nat
      /\ DOMAIN s = 1..(a + Len(y))
      /\ \A i \in 1..a : s[i] = x[i]
      /\ \A i \in 1..Len(y) : s[a + i] = y[i]
  OBVIOUS
<1> HIDE DEF s, a
<1>2. \A i \in 1..a : i \in DOMAIN s
  BY <1>1
<1>3. \A i \in 1..Len(y) : a + i \in DOMAIN s /\ a + i > a
  BY <1>1
<1>4. ASSUME Ascending(s) PROVE Ascending(x) /\ Ascending(y) /\ Before(x, y)
  <2>1. Ascending(x)
    BY <1>1, <1>2, <1>4 DEF Ascending
  <2>2. Ascending(y)
    <3> SUFFICES ASSUME NEW i \in 1..Len(y), NEW j \in 1..Len(y), i < j, y[i].key = y[j].key
                 PROVE  y[i].to < y[j].from
      BY <1>1 DEF Ascending
    <3>1. a + i < a + j
      BY <1>1
    <3> QED
      BY <1>1, <1>3, <1>4, <3>1 DEF Ascending
  <2>3. Before(x, y)
    <3> SUFFICES ASSUME NEW i \in 1..a, NEW j \in 1..Len(y), x[i].key = y[j].key
                 PROVE  x[i].to < y[j].from
      BY <1>1 DEF Before, Items
    <3>1. i < a + j
      BY <1>1
    <3> QED
      BY <1>1, <1>2, <1>3, <1>4, <3>1 DEF Ascending
  <2> QED
    BY <2>1, <2>2, <2>3
<1>5. ASSUME Ascending(x), Ascending(y), Before(x, y),
             NEW i \in DOMAIN s, NEW j \in DOMAIN s, i < j, s[i].key = s[j].key
      PROVE  s[i].to < s[j].from
  <2>1. CASE j <= a
    BY <1>1, <1>5, <2>1 DEF Ascending
  <2>2. CASE i <= a /\ a < j
    <3>1. j - a \in 1..Len(y) /\ a + (j - a) = j /\ i \in 1..a
      BY <1>1, <2>2
    <3>2. s[i] \in Items(x) /\ s[j] \in Items(y)
      <4>1. s[i] = x[i] /\ s[j] = y[j - a]
        BY <1>1, <3>1
      <4> QED
        BY <1>1, <3>1, <4>1 DEF Items
    <3> QED
      BY <1>5, <3>2 DEF Before
  <2>3. CASE a < i
    <3>1. /\ i - a \in 1..Len(y) /\ a + (i - a) = i /\ j - a \in 1..Len(y) /\ a + (j - a) = j
          /\ i - a < j - a
      BY <1>1, <1>5, <2>3
    <3>2. s[i] = y[i - a] /\ s[j] = y[j - a]
      BY <1>1, <3>1
    <3> QED
      BY <1>1, <1>5, <3>1, <3>2 DEF Ascending
  <2> QED
    BY <1>1, <1>5, <2>1, <2>2, <2>3
<1> QED
  BY <1>4, <1>5 DEF Ascending, s

\* EachSeqOnceInOrder, of any stream s of which p was produced.
EachSeq(s, p) ==
  /\ \A i \in DOMAIN s : 1 <= s[i].from /\ s[i].from <= s[i].to /\ s[i].to <= p[s[i].key]
  /\ \A k \in Keys : \A n \in 1..p[k] : \E i \in DOMAIN s : s[i].key = k /\ n \in Covers(s[i])
  /\ Ascending(s)

\* EachSeqOnceInOrder in terms of its parts.
LEMMA EachSeqIs ==
  ASSUME NEW s \in Seq(Item), NEW p \in [Keys -> Nat]
  PROVE  EachSeq(s, p) <=> Ascending(s) /\ Within(Items(s), p) /\ AllOf(Items(s), p)
<1>1. /\ DOMAIN s = 1..Len(s) /\ Items(s) = {s[i] : i \in DOMAIN s}
      /\ \A i \in DOMAIN s : s[i].from \in Nat /\ s[i].to \in Nat
  BY ItemFields DEF Items
<1>2. (\A i \in DOMAIN s : 1 <= s[i].from /\ s[i].from <= s[i].to /\ s[i].to <= p[s[i].key])
        <=> Within(Items(s), p)
  BY <1>1 DEF Within
<1>3. (\A k \in Keys : \A n \in 1..p[k] :
         \E i \in DOMAIN s : s[i].key = k /\ n \in Covers(s[i]))
        <=> AllOf(Items(s), p)
  <2>1. ASSUME NEW k \in Keys, NEW n \in 1..p[k]
        PROVE  (\E i \in DOMAIN s : s[i].key = k /\ n \in Covers(s[i]))
                 <=> \E m \in Items(s) : m.key = k /\ m.from <= n /\ n <= m.to
    <3>1. n \in Int
      OBVIOUS
    <3>2. \A i \in DOMAIN s : n \in Covers(s[i]) <=> s[i].from <= n /\ n <= s[i].to
      BY <1>1, <3>1 DEF Covers
    <3> QED
      BY <1>1, <3>2
  <2> QED
    BY <2>1 DEF AllOf
<1> QED
  BY <1>2, <1>3 DEF EachSeq

\* OnlyOldestDropped and DepthBounded, of any queue.
OldestOnly(q) ==
  \A i \in DOMAIN q :
    q[i].type = "marker" =>
      /\ i <= Len(q) - MaxDepth
      /\ \A j \in (Len(q) - MaxDepth + 1)..Len(q) : q[j].type = "update"

Bounded(q) == grouping = "perKey" => Len(q) <= MaxDepth + Cardinality(Keys)

\* The streams of a connection are finitely many.
LEMMA KeysFinite ==
  IsFiniteSet(Keys) /\ Cardinality(Keys) \in Nat
<1>1. IsFiniteSet(Keys)
  <2>1. IsFiniteSet(Keys)
    BY OutboxAssumption
  <2> QED
    BY <2>1, Zenon DEF IsFiniteSet, IsFiniteSet
<1> QED
  BY <1>1, FS_CardinalityType

\* What terminal-outbox.ts drops makes at most one marker per terminal.
LEMMA MarkerPerKey ==
  ASSUME grouping = "perKey", NEW d \in Seq(Item)
  PROVE  Cardinality(Starts(d)) <= Cardinality(Keys)
<1> DEFINE S == Starts(d)
           f == [i \in S |-> d[i].key]
<1>1. S = {i \in 1..Len(d) : \A j \in 1..(i - 1) : d[j].key # d[i].key}
  BY DEF Starts
<1>2. Len(d) \in Nat /\ \A i \in 1..Len(d) : d[i].key \in Keys
  BY ItemFields
<1> HIDE DEF S
<1>3. ASSUME NEW i \in S, NEW j \in S, i < j PROVE d[i].key # d[j].key
  <2>1. i \in 1..(j - 1)
    BY <1>1, <1>2, <1>3
  <2> QED
    BY <1>1, <2>1
<1>4. ASSUME NEW i \in S, NEW j \in S, d[i].key = d[j].key PROVE i = j
  <2>1. i \in Nat /\ j \in Nat
    BY <1>1
  <2>2. ~(i < j) /\ ~(j < i)
    BY <1>3, <1>4
  <2> QED
    BY <2>1, <2>2
<1>5. f \in Injection(S, Keys)
  BY <1>1, <1>2, <1>4 DEF Injection, IsInjective
<1>6. IsFiniteSet(Keys)
  BY KeysFinite
<1> HIDE DEF f

<1> QED
  BY <1>5, <1>6, FS_Injection DEF S

\* Sequences that agree at every position are equal.
LEMMA SameSequence ==
  ASSUME NEW S, NEW s \in Seq(S), NEW t \in Seq(S), Len(s) = Len(t),
         \A i \in 1..Len(s) : s[i] = t[i]
  PROVE  s = t
  OBVIOUS

\* The parts of a concatenation.
LEMMA ConcatIs ==
  ASSUME NEW S, NEW s \in Seq(S), NEW t \in Seq(S)
  PROVE  /\ s \o t \in Seq(S) /\ Len(s) \in Nat /\ Len(t) \in Nat
         /\ Len(s \o t) = Len(s) + Len(t) /\ DOMAIN (s \o t) = 1..Len(s \o t)
         /\ \A i \in 1..Len(s) : (s \o t)[i] = s[i]
         /\ \A i \in 1..Len(t) : (s \o t)[Len(s) + i] = t[i]
  OBVIOUS

\* DropOldest of a queue that is e items too deep.
LEMMA DropOldestOf ==
  ASSUME NEW q, NEW e \in Int, e = Len(q) - MaxDepth
  PROVE  DropOldest(q) = IF e > 0 THEN BuildMarkers(SubSeq(q, 1, e)) \o SubSeq(q, e + 1, Len(q))
                           ELSE q
  BY DEF DropOldest

\* The overflow of an outbox, behind what x holds: the same numbers as before, in
\* order, each once; nothing but the oldest dropped; and the depth bounded.
LEMMA OverflowIs ==
  ASSUME grouping \in {"contiguous", "perKey"},
         NEW x \in Seq(Item), NEW q \in Seq(Item), NEW p \in [Keys -> Nat],
         Ascending(x \o q), Within(Items(x \o q), p), AllOf(Items(x \o q), p),
         \A i \in DOMAIN q : i > Len(q) - MaxDepth => q[i].type = "update"
  PROVE  LET r == DropOldest(q)
         IN  /\ r \in Seq(Item) /\ OldestOnly(r) /\ Bounded(r)
             /\ Ascending(x \o r) /\ Within(Items(x \o r), p) /\ AllOf(Items(x \o r), p)
<1>0. /\ MaxDepth \in Nat /\ MaxDepth >= 1 /\ Cardinality(Keys) \in Nat
      /\ DOMAIN q = 1..Len(q) /\ Len(q) \in Nat
  BY KeysFinite, OutboxAssumption

<1>1. CASE Len(q) <= MaxDepth
  <2>1. DropOldest(q) = q
    <3> DEFINE e == Len(q) - MaxDepth
    <3>1. e \in Int /\ ~(e > 0)
      BY <1>0, <1>1
    <3> HIDE DEF e
    <3> QED
      BY <3>1, DropOldestOf DEF e
  <2>2. \A i \in DOMAIN q : q[i].type = "update"
    BY <1>0, <1>1
  <2> QED
    BY <1>0, <1>1, <2>1, <2>2 DEF OldestOnly, Bounded
<1>2. CASE Len(q) > MaxDepth
  <2> DEFINE e == Len(q) - MaxDepth
             d == SubSeq(q, 1, e)
             w == SubSeq(q, e + 1, Len(q))
             B == BuildMarkers(d)
             r == DropOldest(q)
  <2>1. e \in 1..Len(q) /\ e + MaxDepth = Len(q)
    BY <1>0, <1>2
  <2>2. /\ d \in Seq(Item) /\ Len(d) = e /\ DOMAIN d = 1..e
        /\ \A i \in 1..e : d[i] = q[i]
    BY <1>0, <2>1
  <2>3. /\ w \in Seq(Item) /\ Len(w) = MaxDepth /\ DOMAIN w = 1..MaxDepth
        /\ \A i \in 1..MaxDepth : w[i] = q[e + i]
    BY <1>0, <2>1
  <2>4. q = d \o w
    <3>1. /\ d \o w \in Seq(Item) /\ Len(d \o w) = Len(q)
          /\ \A i \in 1..Len(q) : (d \o w)[i] = q[i]
      BY <1>0, <2>1, <2>2, <2>3
    <3> HIDE DEF d, w
    <3> QED
      BY <3>1, SameSequence
  <2>5. r = B \o w
    <3>1. e \in Int /\ e > 0
      BY <1>0, <2>1
    <3>2. r = IF e > 0 THEN B \o w ELSE q
      BY <3>1, DropOldestOf
    <3> QED
      BY <3>1, <3>2
  <2> HIDE DEF e, d, w, B, r
  <2>6. /\ Ascending(x) /\ Ascending(d) /\ Ascending(w) /\ Before(d, w)
        /\ Before(x, d) /\ Before(x, w)
        /\ Items(q) = Items(d) \cup Items(w) /\ Items(x \o q) = Items(x) \cup Items(q)
    <3>1. Ascending(x) /\ Ascending(q) /\ Before(x, q)
      BY AscendingConcat
    <3>2. Ascending(d) /\ Ascending(w) /\ Before(d, w)
      BY <2>2, <2>3, <2>4, <3>1, AscendingConcat
    <3>3. Items(q) = Items(d) \cup Items(w) /\ Items(x \o q) = Items(x) \cup Items(q)
      <4>1. Items(d \o w) = Items(d) \cup Items(w)
        BY <2>2, <2>3, ItemsConcat
      <4>2. Items(x \o q) = Items(x) \cup Items(q)
        BY ItemsConcat
      <4> QED
        BY <2>4, <4>1, <4>2
    <3> QED
      BY <3>1, <3>2, <3>3 DEF Before
  <2>7. Pieces(d)
    <3>1. \A i \in DOMAIN d : d[i] \in Items(x \o q)
      BY <2>6 DEF Items
    <3> QED
      BY <2>6, <3>1 DEF Pieces, Ascending, Within
  <2>8. /\ B \in Seq(Item) /\ Len(B) = Cardinality(Starts(d)) /\ Pieces(B)
        /\ \A n \in 1..Len(B) :
             /\ B[n].type = "marker"
             /\ \E f, l \in 1..Len(d) : /\ d[f].key = B[n].key /\ d[l].key = B[n].key
                                        /\ B[n].from = d[f].from /\ B[n].to = d[l].to
        /\ \A i \in 1..Len(d) : \E n \in 1..Len(B) :
             B[n].key = d[i].key /\ B[n].from <= d[i].from /\ d[i].to <= B[n].to
    BY <2>2, <2>7, MarkersAre DEF B
  <2>9. /\ r \in Seq(Item) /\ Items(r) = Items(B) \cup Items(w)
        /\ Items(x \o r) = Items(x) \cup Items(B) \cup Items(w)
    <3>1. r \in Seq(Item) /\ Items(r) = Items(B) \cup Items(w)
      BY <2>3, <2>5, <2>8, ItemsConcat
    <3>2. Items(x \o r) = Items(x) \cup Items(r)
      BY <3>1, ItemsConcat
    <3> QED
      BY <3>1, <3>2
  <2>10. ASSUME NEW m \in Items(B)
         PROVE  \E f, l \in Items(d) : /\ f.key = m.key /\ l.key = m.key
                                       /\ m.from = f.from /\ m.to = l.to /\ m.from <= m.to
    <3>1. PICK n \in 1..Len(B) : m = B[n] /\ B[n].from <= B[n].to
      <4>1. DOMAIN B = 1..Len(B)
        BY <2>8
      <4> QED
        BY <2>8, <4>1 DEF Items, Pieces
    <3>2. PICK f, l \in 1..Len(d) : /\ d[f].key = B[n].key /\ d[l].key = B[n].key
                                    /\ B[n].from = d[f].from /\ B[n].to = d[l].to
      BY <2>8
    <3>3. d[f] \in Items(d) /\ d[l] \in Items(d)
      BY <2>2 DEF Items
    <3> QED
      BY <3>1, <3>2, <3>3
  <2>11. Ascending(x \o r)
    <3>1. Ascending(B)
      BY <2>8 DEF Pieces, Ascending
    <3>2. Before(B, w) /\ Before(x, B)
      BY <2>6, <2>10 DEF Before
    <3>3. Ascending(r)
      BY <2>3, <2>5, <2>6, <2>8, <3>1, <3>2, AscendingConcat
    <3>4. Before(x, r)
      BY <2>6, <2>9, <3>2 DEF Before
    <3> QED
      BY <2>6, <2>9, <3>3, <3>4, AscendingConcat
  <2>12. Within(Items(x \o r), p)
    <3>1. \A m \in Items(x) \cup Items(w) : m \in Items(x \o q)
      BY <2>6
    <3>2. ASSUME NEW m \in Items(B) PROVE 1 <= m.from /\ m.from <= m.to /\ m.to <= p[m.key]
      <4>1. PICK f, l \in Items(d) : /\ f.key = m.key /\ l.key = m.key
                                     /\ m.from = f.from /\ m.to = l.to /\ m.from <= m.to
        BY <2>10
      <4>2. f \in Items(x \o q) /\ l \in Items(x \o q)
        BY <2>6
      <4> QED
        BY <4>1, <4>2 DEF Within
    <3> QED
      BY <2>9, <3>1, <3>2 DEF Within
  <2>13. AllOf(Items(x \o r), p)
    <3> SUFFICES ASSUME NEW k \in Keys, NEW n \in 1..p[k]
                 PROVE  \E m \in Items(x \o r) : m.key = k /\ m.from <= n /\ n <= m.to
      BY DEF AllOf
    <3>1. PICK m \in Items(x \o q) : m.key = k /\ m.from <= n /\ n <= m.to
      BY DEF AllOf
    <3>2. CASE m \in Items(d)
      <4>1. PICK i \in 1..Len(d) : m = d[i]
        BY <2>2, <3>2 DEF Items
      <4>2. PICK c \in 1..Len(B) :
              B[c].key = d[i].key /\ B[c].from <= d[i].from /\ d[i].to <= B[c].to
        BY <2>8
      <4>3. /\ B[c] \in Items(B) /\ B[c].from \in Nat /\ B[c].to \in Nat
            /\ m.from \in Nat /\ m.to \in Nat /\ n \in Int
        <5>1. DOMAIN B = 1..Len(B) /\ B[c].from \in Nat /\ B[c].to \in Nat
          BY <2>8, ItemFields
        <5>2. m.from \in Nat /\ m.to \in Nat
          BY <2>2, <4>1, ItemFields
        <5>3. n \in Int
          OBVIOUS
        <5> QED
          BY <5>1, <5>2, <5>3 DEF Items
      <4>4. B[c].key = k /\ B[c].from <= n /\ n <= B[c].to
        BY <3>1, <4>1, <4>2, <4>3
      <4> QED
        BY <2>9, <4>3, <4>4
    <3>3. CASE m \notin Items(d)
      BY <2>6, <2>9, <3>1, <3>3
    <3> QED
      BY <3>2, <3>3
  <2>14. /\ Len(r) = Len(B) + MaxDepth /\ Len(B) \in Nat /\ DOMAIN r = 1..Len(r)
         /\ \A i \in 1..MaxDepth : r[Len(B) + i] = q[e + i]
    <3>1. /\ Len(B) \in Nat /\ Len(B \o w) = Len(B) + Len(w) /\ DOMAIN (B \o w) = 1..Len(B \o w)
          /\ \A i \in 1..Len(w) : (B \o w)[Len(B) + i] = w[i]
      <4>1. B \in Seq(Item) /\ w \in Seq(Item)
        BY <2>3, <2>8
      <4> QED
        BY <4>1, ConcatIs

    <3> QED
      BY <2>3, <2>5, <3>1
  <2>15. OldestOnly(r)
    <3>1. ASSUME NEW j \in (Len(B) + 1)..Len(r) PROVE r[j].type = "update"
      <4>1. j - Len(B) \in 1..MaxDepth /\ Len(B) + (j - Len(B)) = j
        BY <1>0, <2>14
      <4>2. /\ r[j] = q[e + (j - Len(B))] /\ e + (j - Len(B)) \in DOMAIN q
            /\ e + (j - Len(B)) > Len(q) - MaxDepth
        <5> DEFINE c == j - Len(B)
        <5>1. c \in 1..MaxDepth /\ Len(B) + c = j
          BY <4>1
        <5> HIDE DEF c
        <5>2. r[j] = q[e + c]
          BY <2>14, <5>1
        <5>3. e + c \in 1..Len(q) /\ e + c > Len(q) - MaxDepth
          BY <1>0, <2>1, <5>1
        <5> QED
          BY <1>0, <5>2, <5>3 DEF c

      <4> QED
        BY <4>2
    <3>2. \A i \in DOMAIN r : r[i].type = "marker" => i <= Len(B)
      BY <2>14, <3>1
    <3>3. Len(r) - MaxDepth = Len(B)
      BY <1>0, <2>14
    <3> QED
      BY <3>1, <3>2, <3>3 DEF OldestOnly
  <2>16. Bounded(r)
    BY <1>0, <2>2, <2>8, <2>14, MarkerPerKey DEF Bounded
  <2> QED
    BY <2>9, <2>11, <2>12, <2>13, <2>15, <2>16 DEF r
<1> QED
  BY <1>0, <1>1, <1>2

\* The inductive invariant of an outbox: the types and the three properties.
QInv == OutboxTypeOK /\ EachSeqOnceInOrder /\ OnlyOldestDropped /\ DepthBounded

\* pump() hands over the head of the queue: what the client is handed stays the
\* same, and the queue loses nothing but its oldest item.
LEMMA PumpKeeps ==
  ASSUME sent \in Seq(Item), NEW q \in Seq(Item), Pump(q),
         OldestOnly(q), Bounded(q), Cardinality(Keys) \in Nat
  PROVE  /\ queue' \in Seq(Item) /\ sent' \in Seq(Item)
         /\ {sending', callbackFired', floorElapsed'} \subseteq BOOLEAN
         /\ sent' \o queue' = sent \o q
         /\ OldestOnly(queue') /\ Bounded(queue')
<1>0. MaxDepth \in Nat
  BY OutboxAssumption
<1>1. CASE q = << >>
  BY <1>1 DEF Pump
<1>2. CASE q # << >>
  <2> DEFINE h == Head(q)
             r == Tail(q)
  <2>1. queue' = r /\ sent' = Append(sent, h) /\ {sending', callbackFired', floorElapsed'} \subseteq BOOLEAN
    BY <1>2 DEF Pump
  <2>2. /\ h \in Item /\ r \in Seq(Item) /\ h = q[1] /\ Len(q) \in Nat /\ Len(q) >= 1
        /\ DOMAIN q = 1..Len(q) /\ Len(r) = Len(q) - 1 /\ DOMAIN r = 1..Len(r)
        /\ \A i \in 1..Len(r) : r[i] = q[i + 1]
    BY <1>2
  <2> HIDE DEF h, r
  <2>3. /\ Append(sent, h) \in Seq(Item) /\ Len(Append(sent, h)) = Len(sent) + 1
        /\ Append(sent, h)[Len(sent) + 1] = h /\ Len(sent) \in Nat
        /\ \A i \in 1..Len(sent) : Append(sent, h)[i] = sent[i]
    BY <2>2
  <2>4. Append(sent, h) \o r = sent \o q
    <3> DEFINE y == Append(sent, h)
               s == y \o r
               t == sent \o q
               a == Len(sent)
    <3>1. y \in Seq(Item) /\ Len(y) = a + 1 /\ a \in Nat
      BY <2>3
    <3>2. /\ s \in Seq(Item) /\ Len(s) = Len(y) + Len(r)
          /\ \A i \in 1..Len(y) : s[i] = y[i]
          /\ \A i \in 1..Len(r) : s[Len(y) + i] = r[i]
      <4>1. y \in Seq(Item) /\ r \in Seq(Item)
        BY <2>2, <3>1
      <4> HIDE DEF y
      <4> QED
        BY <4>1, ConcatIs
    <3>3. /\ t \in Seq(Item) /\ Len(t) = a + Len(q)
          /\ \A i \in 1..a : t[i] = sent[i]
          /\ \A i \in 1..Len(q) : t[a + i] = q[i]
      BY ConcatIs
    <3>4. y[a + 1] = h /\ \A i \in 1..a : y[i] = sent[i]
      BY <2>3
    <3> HIDE DEF y, s, t, a
    <3>5. Len(s) = Len(t)
      BY <2>2, <3>1, <3>2, <3>3
    <3>6. ASSUME NEW i \in 1..Len(s) PROVE s[i] = t[i]
      <4>1. CASE i <= a
        BY <3>1, <3>2, <3>3, <3>4, <4>1
      <4>2. CASE i = a + 1
        <5>1. i \in 1..Len(y) /\ 1 \in 1..Len(q)
          BY <2>2, <3>1, <4>2
        <5>2. s[i] = h /\ t[a + 1] = q[1]
          BY <3>2, <3>3, <3>4, <4>2, <5>1
        <5> QED
          BY <2>2, <4>2, <5>2
      <4>3. CASE i > a + 1
        <5> DEFINE c == i - (a + 1)
        <5>1. /\ c \in 1..Len(r) /\ i = Len(y) + c /\ c + 1 \in 1..Len(q) /\ i = a + (c + 1)
          BY <2>2, <3>1, <3>2, <4>3
        <5> HIDE DEF c
        <5>2. s[i] = r[c] /\ t[i] = q[c + 1]
          BY <3>2, <3>3, <5>1
        <5> QED
          BY <2>2, <5>1, <5>2
      <4> QED
        BY <3>1, <3>2, <4>1, <4>2, <4>3
    <3>7. s = t
      BY <3>2, <3>3, <3>5, <3>6, SameSequence
    <3> QED
      BY <3>7 DEF s, t, y
  <2>5. OldestOnly(r)
    <3> SUFFICES ASSUME NEW i \in DOMAIN r, r[i].type = "marker"
                 PROVE  /\ i <= Len(r) - MaxDepth
                        /\ \A j \in (Len(r) - MaxDepth + 1)..Len(r) : r[j].type = "update"
      BY DEF OldestOnly
    <3>1. i + 1 \in DOMAIN q /\ q[i + 1].type = "marker"
      BY <2>2
    <3>2. /\ i + 1 <= Len(q) - MaxDepth
          /\ \A j \in (Len(q) - MaxDepth + 1)..Len(q) : q[j].type = "update"
      BY <3>1 DEF OldestOnly
    <3>3. i <= Len(r) - MaxDepth
      BY <1>0, <2>2, <3>2
    <3>4. ASSUME NEW j \in (Len(r) - MaxDepth + 1)..Len(r) PROVE r[j].type = "update"
      <4>1. j \in 1..Len(r) /\ j + 1 \in (Len(q) - MaxDepth + 1)..Len(q)
        BY <1>0, <2>2, <3>3
      <4> QED
        BY <2>2, <3>2, <4>1
    <3> QED
      BY <3>3, <3>4
  <2>6. Bounded(r)
    BY <1>0, <2>2 DEF Bounded
  <2> QED
    BY <2>1, <2>2, <2>3, <2>4, <2>5, <2>6
<1> QED
  BY <1>1, <1>2

\* The invariant holds of an outbox that has been handed nothing.
LEMMA QueueInit == OutboxInit => QInv
<1> SUFFICES ASSUME OutboxInit PROVE QInv
  OBVIOUS
<1>0. /\ sent = << >> /\ queue = << >> /\ produced = [k \in Keys |-> 0]
      /\ grouping \in {"contiguous", "perKey"} /\ ~sending /\ ~callbackFired /\ ~floorElapsed
  BY DEF OutboxInit
<1>1. OutboxTypeOK
  <2>1. << >> \in Seq(Item)
    OBVIOUS
  <2>2. produced \in [Keys -> Nat]
    BY <1>0
  <2> QED
    BY <2>1, <2>2 DEF OutboxInit, OutboxTypeOK
<1>2. Stream = << >> /\ DOMAIN << >> = {}
  BY <1>0 DEF Stream
<1>3. \A k \in Keys : 1..produced[k] = {}
  BY <1>0
<1>4. EachSeqOnceInOrder
  BY <1>2, <1>3 DEF EachSeqOnceInOrder
<1>5. OnlyOldestDropped
  BY <1>0, <1>2 DEF OnlyOldestDropped
<1>6. DepthBounded
  <2>1. MaxDepth \in Nat /\ Cardinality(Keys) \in Nat
    BY KeysFinite, OutboxAssumption
  <2>2. Len(queue) = 0
    BY <1>0
  <2> QED
    BY <2>1, <2>2 DEF DepthBounded
<1> QED
  BY <1>1, <1>4, <1>5, <1>6 DEF QInv

\* The invariant after a step, of the new stream and the new queue.
LEMMA QueueKept ==
  ASSUME grouping' = grouping, grouping \in {"contiguous", "perKey"},
         queue' \in Seq(Item), sent' \in Seq(Item), produced' \in [Keys -> Nat],
         {sending', callbackFired', floorElapsed'} \subseteq BOOLEAN,
         EachSeq(sent' \o queue', produced'), OldestOnly(queue'), Bounded(queue')
  PROVE  QInv'
<1>1. OutboxTypeOK'
  BY DEF OutboxTypeOK
<1>2. EachSeqOnceInOrder'
  BY DEF EachSeqOnceInOrder, Stream, EachSeq, Ascending
<1>3. OnlyOldestDropped'
  BY DEF OnlyOldestDropped, OldestOnly
<1>4. DepthBounded'
  BY DEF DepthBounded, Bounded
<1> QED
  BY <1>1, <1>2, <1>3, <1>4 DEF QInv

\* A new update goes to the end of the stream.
LEMMA AppendedIs ==
  ASSUME NEW x \in Seq(Item), NEW q \in Seq(Item), NEW p \in [Keys -> Nat], NEW k \in Keys,
         EachSeq(x \o q, p)
  PROVE  LET u == Update(k, p[k] + 1)
             r == Append(q, u)
             np == [p EXCEPT ![k] = @ + 1]
         IN  /\ r \in Seq(Item) /\ np \in [Keys -> Nat]
             /\ Ascending(x \o r) /\ Within(Items(x \o r), np) /\ AllOf(Items(x \o r), np)
<1> DEFINE u == Update(k, p[k] + 1)
           r == Append(q, u)
           np == [p EXCEPT ![k] = @ + 1]
<1>1. /\ u \in Item /\ u.key = k /\ u.from = p[k] + 1 /\ u.to = p[k] + 1 /\ p[k] \in Nat
  BY DEF Update, Item
<1>2. np \in [Keys -> Nat] /\ np[k] = p[k] + 1 /\ \A l \in Keys \ {k} : np[l] = p[l]
  OBVIOUS
<1> HIDE DEF u, np
<1>3. /\ r \in Seq(Item) /\ Len(r) = Len(q) + 1 /\ DOMAIN r = 1..(Len(q) + 1)
      /\ \A i \in 1..Len(q) : r[i] = q[i]
      /\ r[Len(q) + 1] = u /\ Len(q) \in Nat /\ DOMAIN q = 1..Len(q)
  BY <1>1
<1>4. Items(r) = Items(q) \cup {u}
  BY <1>1, ItemsAppend
<1> HIDE DEF r
<1>5. /\ x \o q \in Seq(Item) /\ Items(x \o q) = Items(x) \cup Items(q)
      /\ Items(x \o r) = Items(x) \cup Items(r)
  <2>1. x \o q \in Seq(Item) /\ Items(x \o q) = Items(x) \cup Items(q)
    BY ItemsConcat
  <2>2. Items(x \o r) = Items(x) \cup Items(r)
    BY <1>3, ItemsConcat
  <2> QED
    BY <2>1, <2>2
<1>6. Ascending(x \o q) /\ Within(Items(x \o q), p) /\ AllOf(Items(x \o q), p)
  BY <1>5, EachSeqIs
<1>7. \A m \in Items(x) \cup Items(q) : m.key \in Keys /\ m.from \in Nat /\ m.to \in Nat
  <2>1. Items(x) \subseteq Item /\ Items(q) \subseteq Item
    BY DEF Items
  <2> QED
    BY <2>1 DEF Item
<1>8. \A m \in Items(x) \cup Items(q) : m.key = k => m.to < u.from
  BY <1>1, <1>5, <1>6, <1>7 DEF Within
<1>9. Ascending(x) /\ Ascending(q) /\ Before(x, q)
  BY <1>6, AscendingConcat
<1>10. Ascending(r)
  <2> SUFFICES ASSUME NEW i \in 1..(Len(q) + 1), NEW j \in 1..(Len(q) + 1), i < j, r[i].key = r[j].key
               PROVE  r[i].to < r[j].from
    BY <1>3 DEF Ascending
  <2>1. i \in 1..Len(q) /\ r[i] = q[i] /\ q[i] \in Items(q)
    BY <1>3 DEF Items
  <2>2. CASE j = Len(q) + 1
    BY <1>1, <1>3, <1>8, <2>1, <2>2
  <2>3. CASE j # Len(q) + 1
    <3>1. j \in 1..Len(q) /\ r[j] = q[j]
      BY <1>3, <2>3
    <3> QED
      BY <1>3, <1>9, <2>1, <3>1 DEF Ascending
  <2> QED
    BY <2>2, <2>3
<1>11. Before(x, r)
  BY <1>1, <1>4, <1>8, <1>9 DEF Before
<1>12. Ascending(x \o r)
  BY <1>3, <1>9, <1>10, <1>11, AscendingConcat
<1>13. Within(Items(x \o r), np)
  <2> SUFFICES ASSUME NEW m \in Items(x \o r)
               PROVE  1 <= m.from /\ m.from <= m.to /\ m.to <= np[m.key]
    BY DEF Within
  <2>1. CASE m = u
    BY <1>1, <1>2, <2>1
  <2>2. CASE m \in Items(x) \cup Items(q)
    <3>1. 1 <= m.from /\ m.from <= m.to /\ m.to <= p[m.key]
      BY <1>5, <1>6, <2>2 DEF Within
    <3>2. m.key \in Keys /\ m.to \in Nat /\ p[m.key] \in Nat
      BY <1>7, <2>2
    <3>3. np[m.key] \in Nat /\ np[m.key] >= p[m.key]
      <4>1. CASE m.key = k
        BY <1>1, <1>2, <4>1
      <4>2. CASE m.key # k
        BY <1>2, <3>2, <4>2
      <4> QED
        BY <4>1, <4>2
    <3> QED
      BY <3>1, <3>2, <3>3
  <2> QED
    BY <1>4, <1>5, <2>1, <2>2
<1>14. AllOf(Items(x \o r), np)
  <2> SUFFICES ASSUME NEW l \in Keys, NEW n \in 1..np[l]
               PROVE  \E m \in Items(x \o r) : m.key = l /\ m.from <= n /\ n <= m.to
    BY DEF AllOf
  <2>1. CASE n \in 1..p[l]
    BY <1>4, <1>5, <1>6, <2>1 DEF AllOf
  <2>2. CASE n \notin 1..p[l]
    <3>1. l = k /\ n = p[k] + 1
      BY <1>1, <1>2, <2>2
    <3> QED
      BY <1>1, <1>4, <1>5, <3>1
  <2> QED
    BY <2>1, <2>2
<1> QED
  BY <1>2, <1>3, <1>12, <1>13, <1>14 DEF u, r, np

\* Every step of an outbox keeps the invariant.
LEMMA QueueNext == QInv /\ [OutboxNext]_outboxVars => QInv'
<1> SUFFICES ASSUME QInv, [OutboxNext]_outboxVars PROVE QInv'
  OBVIOUS
<1>0. /\ grouping \in {"contiguous", "perKey"} /\ queue \in Seq(Item) /\ sent \in Seq(Item)
      /\ produced \in [Keys -> Nat] /\ {sending, callbackFired, floorElapsed} \subseteq BOOLEAN
  BY DEF QInv, OutboxTypeOK
<1>1. EachSeq(sent \o queue, produced)
  BY DEF QInv, EachSeqOnceInOrder, Stream, EachSeq, Ascending
<1>2. OldestOnly(queue)
  BY DEF QInv, OnlyOldestDropped, OldestOnly
<1>3. Bounded(queue)
  BY DEF QInv, DepthBounded, Bounded
<1>4. Cardinality(Keys) \in Nat /\ MaxDepth \in Nat
  BY KeysFinite, OutboxAssumption
<1>5. CASE UNCHANGED outboxVars
  <2>1. UNCHANGED <<grouping, queue, sending, callbackFired, floorElapsed, produced, sent>>
    BY <1>5 DEF outboxVars
  <2> QED
    BY <1>0, <1>1, <1>2, <1>3, <2>1, QueueKept
<1>6. ASSUME NEW k \in Keys, Enqueue(k) PROVE QInv'
  <2> DEFINE a == Append(queue, Update(k, produced[k] + 1))
             r == DropOldest(a)
             np == [produced EXCEPT ![k] = @ + 1]
  <2>1. /\ produced' = np /\ grouping' = grouping
        /\ IF sending THEN queue' = r /\ UNCHANGED <<sending, callbackFired, floorElapsed, sent>>
           ELSE Pump(r)
    BY <1>6 DEF Enqueue
  <2>2. /\ a \in Seq(Item) /\ np \in [Keys -> Nat]
        /\ Ascending(sent \o a) /\ Within(Items(sent \o a), np) /\ AllOf(Items(sent \o a), np)
    BY <1>0, <1>1, AppendedIs
  <2>3. \A i \in DOMAIN a : i > Len(a) - MaxDepth => a[i].type = "update"
    <3> DEFINE u == Update(k, produced[k] + 1)
    <3>1. u.type = "update"
      BY DEF Update
    <3> HIDE DEF u
    <3>2. /\ Len(a) = Len(queue) + 1 /\ DOMAIN a = 1..(Len(queue) + 1) /\ Len(queue) \in Nat
          /\ \A i \in 1..Len(queue) : a[i] = queue[i]
          /\ a[Len(queue) + 1] = u
      BY <1>0 DEF u
    <3>3. \A i \in 1..Len(queue) : queue[i].type \in {"update", "marker"} /\ i \in DOMAIN queue
      BY <1>0, ItemFields
    <3> HIDE DEF a, r
    <3> SUFFICES ASSUME NEW i \in DOMAIN a, i > Len(a) - MaxDepth PROVE a[i].type = "update"
      OBVIOUS
    <3>6. i \in 1..(Len(queue) + 1) /\ i > Len(queue) + 1 - MaxDepth
      BY <1>4, <3>2
    <3>4. CASE i = Len(queue) + 1
      BY <3>1, <3>2, <3>4
    <3>5. CASE i \in 1..Len(queue)
      <4>1. ~(i <= Len(queue) - MaxDepth)
        BY <1>4, <3>2, <3>6
      <4>2. queue[i].type # "marker"
        BY <1>2, <3>3, <3>5, <4>1 DEF OldestOnly
      <4> QED
        BY <3>2, <3>3, <3>5, <4>2
    <3> QED
      BY <3>2, <3>4, <3>5, <3>6
  <2> HIDE DEF a, r, np
  <2>4. /\ r \in Seq(Item) /\ OldestOnly(r) /\ Bounded(r)
        /\ Ascending(sent \o r) /\ Within(Items(sent \o r), np) /\ AllOf(Items(sent \o r), np)
    BY <1>0, <2>2, <2>3, OverflowIs DEF r
  <2>5. EachSeq(sent \o r, np)
    <3>1. sent \o r \in Seq(Item)
      BY <1>0, <2>4, ItemsConcat
    <3> QED
      BY <2>2, <2>4, <3>1, EachSeqIs
  <2>6. CASE sending
    BY <1>0, <2>1, <2>2, <2>4, <2>5, <2>6, QueueKept
  <2>7. CASE ~sending
    <3>1. Pump(r)
      BY <2>1, <2>7
    <3>2. /\ queue' \in Seq(Item) /\ sent' \in Seq(Item)
          /\ {sending', callbackFired', floorElapsed'} \subseteq BOOLEAN
          /\ sent' \o queue' = sent \o r
          /\ OldestOnly(queue') /\ Bounded(queue')
      BY <1>0, <1>4, <2>4, <3>1, PumpKeeps
    <3>3. EachSeq(sent' \o queue', produced') /\ produced' \in [Keys -> Nat]
      BY <2>1, <2>2, <2>5, <3>2
    <3> QED
      BY <1>0, <2>1, <3>2, <3>3, QueueKept
  <2> QED
    BY <2>6, <2>7
<1>7. CASE CallbackFires \/ FloorElapses
  <2>1. /\ grouping' = grouping /\ produced' = produced
        /\ \/ Pump(queue)
           \/ /\ UNCHANGED <<queue, sending, sent>>
              /\ {callbackFired', floorElapsed'} \subseteq BOOLEAN
    BY <1>0, <1>7 DEF CallbackFires, FloorElapses
  <2>2. CASE Pump(queue)
    <3>1. /\ queue' \in Seq(Item) /\ sent' \in Seq(Item)
          /\ {sending', callbackFired', floorElapsed'} \subseteq BOOLEAN
          /\ sent' \o queue' = sent \o queue
          /\ OldestOnly(queue') /\ Bounded(queue')
      BY <1>0, <1>2, <1>3, <1>4, <2>2, PumpKeeps
    <3>2. EachSeq(sent' \o queue', produced')
      BY <1>1, <2>1, <3>1
    <3> QED
      BY <1>0, <2>1, <3>1, <3>2, QueueKept
  <2>3. CASE /\ UNCHANGED <<queue, sending, sent>>
             /\ {callbackFired', floorElapsed'} \subseteq BOOLEAN
    BY <1>0, <1>1, <1>2, <1>3, <2>1, <2>3, QueueKept
  <2> QED
    BY <2>1, <2>2, <2>3
<1> QED
  BY <1>5, <1>6, <1>7 DEF OutboxNext

\* The inductive invariant of an outbox holds in every reachable state.
THEOREM QueueInvariant == OutboxSpec => []QInv
  BY QueueInit, QueueNext, PTL DEF OutboxSpec

\* The types of an outbox are kept.
THEOREM QueueTypes == OutboxSpec => []OutboxTypeOK
<1>1. QInv => OutboxTypeOK
  BY DEF QInv
<1> QED
  BY <1>1, QueueInvariant, PTL

\* For any number of interleaved streams, any depth and either way of grouping,
\* drop-oldest hands each client exactly the numbers produced, each once and in
\* order, itself or within a marker, however often markers are folded again.
THEOREM NothingLostInOverflow == OutboxSpec => []EachSeqOnceInOrder
<1>1. QInv => EachSeqOnceInOrder
  BY DEF QInv
<1> QED
  BY <1>1, QueueInvariant, PTL

\* While a marker waits, exactly the newest maxDepth updates wait behind it.
THEOREM NewestKept == OutboxSpec => []OnlyOldestDropped
<1>1. QInv => OnlyOldestDropped
  BY DEF QInv
<1> QED
  BY <1>1, QueueInvariant, PTL

\* The terminal outbox never holds more than maxDepth items and a marker per
\* terminal, for any number of terminals.
THEOREM TerminalDepthBounded == OutboxSpec => []DepthBounded
<1>1. QInv => DepthBounded
  BY DEF QInv
<1> QED
  BY <1>1, QueueInvariant, PTL

=============================================================================

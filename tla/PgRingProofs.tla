----------------------------- MODULE PgRingProofs -----------------------------
(***************************************************************************)
(* What survives the interleavings of PgRing, for any number of sockets,   *)
(* any capacity and any number of operations: evictions take the oldest    *)
(* entries, and a resync answer contradicts neither itself nor the ring.   *)
(***************************************************************************)
EXTENDS PgRing, TLAPS, FiniteSetTheorems, WellFoundedInduction

-----------------------------------------------------------------------------
(* The inductive invariant.                                                  *)

\* Which statements an actor runs, and what it remembers at them.
Shape ==
  /\ \A a \in Actors : job[a].pc \in {"idle", "prune"} \cup Deletions => job[a].gone = 0
  /\ \A s \in Sockets :
       /\ job[s].pc \notin {"prune", "deleteThrough", "readMark"}
       /\ job[s].pc \notin {"readOldest", "evict", "writeMark"} => job[s].gone = 0
       /\ job[s].pc \in {"readOldest", "evict"} => job[s].over > 0
       /\ job[s].pc = "evict" => job[s].low > 0
       /\ job[s].pc = "writeMark" => job[s].gone > 0
       /\ job[s].pc \in {"writeCounter", "quota", "readRing", "insertRing", "insertEntry"}
            => job[s].seq > 0
  /\ job[Pruner].pc \in
       {"idle", "prune", "deleteThrough", "readMark", "writeMark"} \cup Deletions
  /\ job[Pruner].pc \in {"deleteThrough", "readMark", "writeMark"} => job[Pruner].gone > 0
  /\ job[Pruner].pc \in {"idle"} \cup Deletions => job[Pruner].todo = {}

\* What was removed is older than what is left.
Ordered == \A n \in stored \ entries, m \in entries : n < m

\* A deletion has the session to itself.
DeletesAlone ==
  \A a \in Actors : job[a].pc \in Deletions =>
    /\ reply.pc # "marked"
    /\ \A b \in Actors \ {a} : job[b].pc = "idle"
    /\ job[a].pc # "deleteEntries" => stored = {}

\* The oldest entry a push has read is still the oldest, or gone.
OldestRead ==
  \A s \in Sockets : job[s].pc = "evict" =>
    /\ job[s].low \in stored /\ job[s].gone < job[s].low
    /\ \A e \in entries : job[s].low <= e

\* What an operation has deleted is below everything left.
GoneBelow ==
  \A a \in Actors : job[a].gone > 0 =>
    /\ job[a].gone \in stored /\ ring
    /\ job[a].pc # "deleteThrough" => \A e \in entries : job[a].gone < e

\* What the retention pass has read still holds.
PruneRead ==
  /\ job[Pruner].todo \subseteq stored
  /\ job[Pruner].pc = "deleteThrough" =>
       /\ job[Pruner].seq \in stored /\ job[Pruner].gone <= job[Pruner].seq
       /\ \A e \in entries : e <= job[Pruner].seq => e <= job[Pruner].gone
  /\ job[Pruner].pc = "writeMark" =>
       /\ job[Pruner].low \in stored \cup {0}
       /\ \A e \in entries : job[Pruner].low < e

\* The mark is a seq that was stored, below everything left.
MarkBelow ==
  /\ \A e \in entries : mark < e
  /\ (\A a \in Actors : job[a].pc # "deleteRing") => mark \in stored \cup {0}

\* Entries have a ring row, but for the end of a deletion.
RingThere ==
  /\ (\A a \in Actors : job[a].pc \notin Deletions) /\ stored # {} => ring
  /\ \A s \in Sockets : job[s].pc \in {"insertEntry", "count"} => ring

\* Whatever was removed is covered by the mark or by one about to be written.
Covered ==
  \A d \in stored \ entries :
    d <= mark \/ \E a \in Actors : job[a].gone > 0 /\ d <= job[a].gone

\* A resync's mark was true when it was read, and stays so.
MarkRead ==
  reply.pc = "marked" =>
    /\ reply.mark \in stored \cup {0}
    /\ \A e \in entries : reply.mark < e
    /\ reply.clean /\ ~lowered => \A d \in stored \ entries : d <= reply.mark

\* The last answer was true when it was given.
Answered ==
  reply.pc = "answered" =>
    /\ \A e \in reply.entries : reply.mark < e
    /\ reply.clean /\ ~lowered => reply.missed = {}

Calm == /\ Ordered /\ DeletesAlone /\ OldestRead /\ GoneBelow /\ PruneRead /\ MarkBelow
        /\ RingThere /\ MarkRead /\ Answered
        /\ ~lowered => Covered


IInv == TypeOK /\ IsFiniteSet(entries) /\ entries \subseteq stored /\ Shape /\ (~raced => Calm)

-----------------------------------------------------------------------------
\* A set of naturals has a least element, which Least chooses.
LEMMA LeastIs ==
  ASSUME NEW S \in SUBSET Nat, S # {}
  PROVE  Least(S) \in S /\ \A m \in S : Least(S) <= m
<1> DEFINE R == {ss \in Nat \X Nat : ss[1] < ss[2]}
<1>1. IsWellFoundedOn(R, Nat)
  BY NatLessThanWellFounded, Zenon DEF OpToRel
<1>2. PICK n \in S : \A m \in S : ~(<<m, n>> \in R)
  <2> HIDE DEF R
  <2> QED
    BY <1>1, WFMin, Zenon
<1>3. ASSUME NEW m \in S PROVE n <= m
  <2>1. m \in Nat /\ n \in Nat
    OBVIOUS
  <2>2. m < n => <<m, n>> \in R
    BY <2>1
  <2> QED
    BY <1>2, <2>1, <2>2
<1> QED
  BY <1>3 DEF Least

\* A bounded set of naturals has a greatest element, which Greatest chooses.
LEMMA GreatestIs ==
  ASSUME NEW S \in SUBSET Nat, S # {}, NEW b \in Nat, \A m \in S : m <= b
  PROVE  Greatest(S) \in S /\ \A m \in S : m <= Greatest(S)
<1> DEFINE U == {k \in Nat : \A m \in S : m <= k}
<1>1. U \in SUBSET Nat /\ U # {}
  OBVIOUS
<1>2. PICK n \in U : \A k \in U : n <= k
  BY <1>1, LeastIs
<1>3. n \in S
  <2> SUFFICES ASSUME n \notin S PROVE FALSE
    OBVIOUS
  <2>1. n \in Nat /\ \A m \in S : m <= n - 1
    OBVIOUS
  <2>2. n # 0
    <3> SUFFICES ASSUME n = 0 PROVE FALSE
      OBVIOUS
    <3>1. PICK m \in S : TRUE
      OBVIOUS
    <3>2. m \in Nat /\ m <= 0
      BY <3>1
    <3> QED
      BY <3>1, <3>2
  <2>3. n - 1 \in U
    BY <2>1, <2>2
  <2> QED
    BY <1>2, <2>3
<1> QED
  BY <1>3 DEF Greatest

-----------------------------------------------------------------------------
(* What a step does to the actors' jobs.                                     *)

\* Actor a goes on to the statement p and keeps what it has read.
LEMMA StepIs ==
  ASSUME TypeOK, NEW a \in Actors, NEW p \in Steps, Step(a, p)
  PROVE  /\ job' \in [Actors -> Jobs]
         /\ \A b \in Actors \ {a} : job'[b] = job[b]
         /\ job'[a].pc = p /\ job'[a].seq = job[a].seq /\ job'[a].over = job[a].over
         /\ job'[a].low = job[a].low /\ job'[a].gone = job[a].gone /\ job'[a].todo = job[a].todo
<1>1. [job[a] EXCEPT !.pc = p] \in Jobs
  BY DEF TypeOK, Jobs
<1> QED
  BY <1>1 DEF Step, Goto, TypeOK, Jobs

\* Actor a ends up with the job j.
LEMMA GotoIs ==
  ASSUME TypeOK, NEW a \in Actors, NEW j \in Jobs, Goto(a, j)
  PROVE  /\ job' \in [Actors -> Jobs]
         /\ \A b \in Actors \ {a} : job'[b] = job[b]
         /\ job'[a] = j
BY DEF Goto, TypeOK

\* Actor a is done.
LEMMA IdleIs ==
  ASSUME TypeOK, NEW a \in Actors, Goto(a, Idle)
  PROVE  /\ job' \in [Actors -> Jobs]
         /\ \A b \in Actors \ {a} : job'[b] = job[b]
         /\ job'[a].pc = "idle" /\ job'[a].seq = 0 /\ job'[a].over = 0
         /\ job'[a].low = 0 /\ job'[a].gone = 0 /\ job'[a].todo = {}
<1>1. Idle \in Jobs
  BY DEF Idle, Jobs, Steps
<1>2. job'[a] = Idle
  BY <1>1, GotoIs
<1> QED
  BY <1>1, <1>2, GotoIs DEF Idle

\* The eviction of the seqs S leaves all of the reply but clean alone.
LEMMA DroppedIs ==
  ASSUME TypeOK, NEW S, Dropped(S)
  PROVE  /\ reply' \in [pc : {"none", "marked", "answered"}, since : Nat, mark : Nat,
                        entries : SUBSET Nat, missed : SUBSET Nat, clean : BOOLEAN]
         /\ reply'.pc = reply.pc /\ reply'.mark = reply.mark
         /\ reply'.entries = reply.entries /\ reply'.missed = reply.missed
         /\ reply'.clean => reply.clean /\ (reply.pc = "marked" => S = {})
<1>1. (reply.clean /\ (reply.pc # "marked" \/ S = {})) \in BOOLEAN
  BY Zenon
<1> QED
  BY <1>1 DEF TypeOK, Dropped

\* A step that only moves actor a, which has deleted nothing, to a statement that
\* relies on nothing it has read keeps what the invariant says of the ring.
LEMMA QuietStep ==
  ASSUME TypeOK, Calm, NEW a \in Actors,
         \A b \in Actors \ {a} : job'[b] = job[b],
         UNCHANGED <<ring, mark, entries, reply, stored, lowered>>,
         job[a].gone = 0, job'[a].gone = 0,
         job[a].pc \notin Deletions,
         job'[a].pc \notin Deletions \cup {"evict", "deleteThrough", "writeMark"},
         job'[a].pc \in {"insertEntry", "count"} => ring,
         a = Pruner => job'[a].todo \subseteq stored,
         job[a].pc = "idle" => \A b \in Actors : job[b].pc \notin Deletions
  PROVE  Calm'
<1>1. \A b \in Actors : job[b].pc \notin Deletions /\ job'[b].pc \notin Deletions
  BY DEF Calm, DeletesAlone
<1>2. Ordered' /\ MarkRead' /\ Answered'
  BY DEF Calm, Ordered, MarkRead, Answered
<1>3. DeletesAlone' /\ RingThere' /\ MarkBelow'
  BY <1>1 DEF Calm, DeletesAlone, RingThere, MarkBelow, Actors, Deletions
<1>4. OldestRead' /\ GoneBelow'
  BY DEF Calm, OldestRead, GoneBelow, Actors
<1>5. PruneRead'
  BY DEF Calm, PruneRead, Actors
<1>6. ~lowered' => Covered'
  BY DEF Calm, Covered
<1> QED
  BY <1>2, <1>3, <1>4, <1>5, <1>6 DEF Calm

-----------------------------------------------------------------------------
(* Every step keeps the invariant, one lemma per action.                     *)


\* Announce keeps the invariant.
LEMMA AnnounceInv ==
  ASSUME IInv, NEW s \in Sockets, Announce(s)
  PROVE  IInv'
<1> USE RingAssumption DEF IInv
<1>1. job' = job
  BY DEF Announce
<1>2. TypeOK'
  BY <1>1 DEF Announce, At, TypeOK, Crosses, Deleting
<1>3. IsFiniteSet(entries') /\ entries' \subseteq stored'
  BY <1>1 DEF Announce, At, Crosses, Deleting
<1>4. Shape'
  BY <1>1 DEF Announce, At, Shape, Crosses, Deleting
<1>5. ASSUME ~raced' PROVE Calm'
  <2>1. ~raced /\ Calm
    BY <1>5 DEF Announce, At, Calm, Crosses, Deleting
  <2>2. Ordered'
    BY <2>1, <1>5, <1>1 DEF Announce, At, Calm, Ordered, Crosses, Deleting
  <2>3. DeletesAlone'
    BY <2>1, <1>5, <1>1 DEF Announce, At, Calm, DeletesAlone, Crosses, Deleting
  <2>4. OldestRead'
    BY <2>1, <1>5, <1>1 DEF Announce, At, Calm, OldestRead, Crosses, Deleting
  <2>5. GoneBelow'
    BY <2>1, <1>5, <1>1 DEF Announce, At, Calm, GoneBelow, Crosses, Deleting
  <2>6. PruneRead'
    BY <2>1, <1>5, <1>1 DEF Announce, At, Calm, PruneRead, Crosses, Deleting
  <2>7. MarkBelow'
    BY <2>1, <1>5, <1>1 DEF Announce, At, Calm, MarkBelow, Crosses, Deleting
  <2>8. RingThere'
    BY <2>1, <1>5, <1>1 DEF Announce, At, Calm, RingThere, Crosses, Deleting
  <2>9. MarkRead'
    BY <2>1, <1>5, <1>1 DEF Announce, At, Calm, MarkRead, Crosses, Deleting
  <2>10. Answered'
    BY <2>1, <1>5, <1>1 DEF Announce, At, Calm, Answered, Crosses, Deleting
  <2>11. ~lowered' => Covered'
    BY <2>1, <1>5, <1>1 DEF Announce, At, Calm, Covered, Crosses, Deleting
  <2> QED
    BY <2>2, <2>3, <2>4, <2>5, <2>6, <2>7, <2>8, <2>9, <2>10, <2>11 DEF Calm
<1> QED
  BY <1>2, <1>3, <1>4, <1>5

\* GetRecord keeps the invariant.
LEMMA GetRecordInv ==
  ASSUME IInv, NEW s \in Sockets, GetRecord(s)
  PROVE  IInv'
<1> USE RingAssumption DEF IInv
<1>1. /\ job' \in [Actors -> Jobs]
      /\ \A b \in Actors \ {s} : job'[b] = job[b]
      /\ job'[s].pc = "readCounter" /\ job'[s].seq = job[s].seq /\ job'[s].over = job[s].over
      /\ job'[s].low = job[s].low /\ job'[s].gone = job[s].gone /\ job'[s].todo = job[s].todo
  <2>1. Step(s, "readCounter") /\ s \in Actors /\ "readCounter" \in Steps
    BY DEF GetRecord, Steps, Actors, Deletions
  <2> QED
    BY <2>1, StepIs
<1>2. TypeOK'
  BY <1>1 DEF GetRecord, At, tables, TypeOK, Crosses, Spend, Deleting
<1>3. IsFiniteSet(entries') /\ entries' \subseteq stored'
  BY <1>1 DEF GetRecord, At, tables, Crosses, Spend, Deleting
<1>4. Shape'
  BY <1>1 DEF GetRecord, At, tables, Shape, Actors, Crosses, Spend, Deleting
<1>5. ASSUME ~raced' PROVE Calm'
  <2>1. ~raced /\ Calm
    BY <1>5 DEF GetRecord, At, tables, Calm, Crosses, Spend, Deleting
  <2>2. /\ UNCHANGED <<ring, mark, entries, reply, stored, lowered>>
        /\ s \in Actors /\ job[s].gone = 0 /\ job'[s].gone = 0 /\ job[s].pc \notin Deletions
        /\ job'[s].pc \notin Deletions \cup {"evict", "deleteThrough", "writeMark"}
        /\ job'[s].pc \in {"insertEntry", "count"} => ring
    BY <2>1, <1>1 DEF GetRecord, At, tables, Shape, Actors, Deletions, Crosses, Spend,
       Deleting
  <2>3. s = Pruner => job'[s].todo \subseteq stored
    BY <2>1, <1>1 DEF GetRecord, At, tables, Calm, PruneRead, Crosses, Spend, Deleting
  <2>4. job[s].pc = "idle" => \A b \in Actors : job[b].pc \notin Deletions
    BY <2>1, <1>5, <1>1 DEF GetRecord, At, tables, history, Crosses, Deleting, Actors,
       Deletions, Spend
  <2> QED
    BY <2>1, <2>2, <2>3, <2>4, <1>1, QuietStep
<1> QED
  BY <1>2, <1>3, <1>4, <1>5

\* ReadCounter keeps the invariant.
LEMMA ReadCounterInv ==
  ASSUME IInv, NEW s \in Sockets, ReadCounter(s)
  PROVE  IInv'
<1> USE RingAssumption DEF IInv
<1>1. /\ job' \in [Actors -> Jobs]
      /\ \A b \in Actors \ {s} : job'[b] = job[b]
      /\ job'[s].pc = "writeCounter"
      /\ job'[s].seq = counter + 1
      /\ job'[s].over = job[s].over
      /\ job'[s].low = job[s].low
      /\ job'[s].gone = job[s].gone
      /\ job'[s].todo = job[s].todo
  <2> DEFINE j == [job[s] EXCEPT !.pc = "writeCounter", !.seq = counter + 1]
  <2>1. s \in Actors /\ Goto(s, j)
    BY DEF ReadCounter, Actors
  <2>2. j \in Jobs
    <3>1. job[s] \in Jobs
      BY <2>1 DEF TypeOK
    <3>2. counter + 1 \in Nat
      BY DEF TypeOK
    <3> QED
      BY <3>1, <3>2 DEF Jobs, Steps, Idle
  <2>3. job'[s] = j /\ job' \in [Actors -> Jobs] /\ \A b \in Actors \ {s} : job'[b] = job[b]
    <3> HIDE DEF j
    <3> QED
      BY <2>1, <2>2, GotoIs
  <2> QED
    BY <2>1, <2>3 DEF TypeOK, Jobs, Idle
<1>2. TypeOK'
  BY <1>1 DEF ReadCounter, At, tables, history, TypeOK
<1>3. IsFiniteSet(entries') /\ entries' \subseteq stored'
  BY <1>1 DEF ReadCounter, At, tables, history
<1>4. Shape'
  BY <1>1 DEF ReadCounter, At, tables, history, Shape, Actors, Deletions, TypeOK
<1>5. ASSUME ~raced' PROVE Calm'
  <2>1. ~raced /\ Calm
    BY <1>5 DEF ReadCounter, At, tables, history, Calm
  <2>2. /\ UNCHANGED <<ring, mark, entries, reply, stored, lowered>>
        /\ s \in Actors /\ job[s].gone = 0 /\ job'[s].gone = 0 /\ job[s].pc \notin Deletions
        /\ job'[s].pc \notin Deletions \cup {"evict", "deleteThrough", "writeMark"}
        /\ job'[s].pc \in {"insertEntry", "count"} => ring
    BY <2>1, <1>1 DEF ReadCounter, At, tables, history, Shape, Actors, Deletions
  <2>3. s = Pruner => job'[s].todo \subseteq stored
    BY <2>1, <1>1 DEF ReadCounter, At, tables, history, Calm, PruneRead
  <2>4. job[s].pc = "idle" => \A b \in Actors : job[b].pc \notin Deletions
    BY <2>1, <1>5, <1>1 DEF ReadCounter, At, tables, history, Crosses, Deleting, Actors
  <2> QED
    BY <2>1, <2>2, <2>3, <2>4, <1>1, QuietStep
<1> QED
  BY <1>2, <1>3, <1>4, <1>5

\* WriteCounter keeps the invariant.
LEMMA WriteCounterInv ==
  ASSUME IInv, NEW s \in Sockets, WriteCounter(s)
  PROVE  IInv'
<1> USE RingAssumption DEF IInv
<1>1. /\ job' \in [Actors -> Jobs]
      /\ \A b \in Actors \ {s} : job'[b] = job[b]
      /\ \/ job'[s].pc \in {"quota"} /\ job'[s].seq = job[s].seq /\ job'[s].over = job[s].over /\ job'[s].low = job[s].low
            /\ job'[s].gone = job[s].gone /\ job'[s].todo = job[s].todo
         \/ /\ job'[s].pc = "idle" /\ job'[s].seq = 0 /\ job'[s].over = 0
            /\ job'[s].low = 0 /\ job'[s].gone = 0 /\ job'[s].todo = {}
  <2>1. Step(s, "quota") \/ Goto(s, Idle)
    BY DEF WriteCounter
  <2>2. s \in Actors /\ {"quota"} \subseteq Steps
    BY DEF Actors, Steps
  <2>3. CASE Step(s, "quota")
    BY <2>2, <2>3, StepIs
  <2>4. CASE Goto(s, Idle)
    BY <2>2, <2>4, IdleIs
  <2> QED
    BY <2>1, <2>3, <2>4
<1>2. counter' \in {job[s].seq, counter}
  BY Zenon DEF WriteCounter
<1>3. job[s] \in Jobs /\ job[s].seq \in Nat
  BY DEF TypeOK, Jobs, Actors
<1>4. TypeOK'
  BY <1>1, <1>2, <1>3 DEF WriteCounter, At, history, TypeOK
<1>5. IsFiniteSet(entries') /\ entries' \subseteq stored'
  BY <1>1, <1>2, <1>3 DEF WriteCounter, At, history
<1>6. Shape'
  BY <1>1, <1>2, <1>3 DEF WriteCounter, At, history, Shape, Actors
<1>7. ASSUME ~raced' PROVE Calm'
  <2>1. ~raced /\ Calm
    BY <1>7 DEF WriteCounter, At, history, Calm
  <2>2. /\ UNCHANGED <<ring, mark, entries, reply, stored, lowered>>
        /\ s \in Actors /\ job[s].gone = 0 /\ job'[s].gone = 0 /\ job[s].pc \notin Deletions
        /\ job'[s].pc \notin Deletions \cup {"evict", "deleteThrough", "writeMark"}
        /\ job'[s].pc \in {"insertEntry", "count"} => ring
    BY <2>1, <1>1, <1>2, <1>3 DEF WriteCounter, At, history, Shape, Actors, Deletions
  <2>3. s = Pruner => job'[s].todo \subseteq stored
    BY <2>1, <1>1, <1>2, <1>3 DEF WriteCounter, At, history, Calm, PruneRead
  <2>4. job[s].pc = "idle" => \A b \in Actors : job[b].pc \notin Deletions
    BY <2>1, <1>7, <1>1, <1>2, <1>3 DEF WriteCounter, At, history, Crosses, Deleting,
       Actors
  <2> QED
    BY <2>1, <2>2, <2>3, <2>4, <1>1, <1>2, <1>3, QuietStep
<1> QED
  BY <1>4, <1>5, <1>6, <1>7

\* CheckQuota keeps the invariant.
LEMMA CheckQuotaInv ==
  ASSUME IInv, NEW s \in Sockets, NEW fits \in BOOLEAN, CheckQuota(s, fits)
  PROVE  IInv'
<1> USE RingAssumption DEF IInv
<1>1. /\ job' \in [Actors -> Jobs]
      /\ \A b \in Actors \ {s} : job'[b] = job[b]
      /\ \/ job'[s].pc \in {"readRing"} /\ job'[s].seq = job[s].seq /\ job'[s].over = job[s].over /\ job'[s].low = job[s].low
            /\ job'[s].gone = job[s].gone /\ job'[s].todo = job[s].todo
         \/ /\ job'[s].pc = "idle" /\ job'[s].seq = 0 /\ job'[s].over = 0
            /\ job'[s].low = 0 /\ job'[s].gone = 0 /\ job'[s].todo = {}
  <2>1. Step(s, "readRing") \/ Goto(s, Idle)
    BY DEF CheckQuota
  <2>2. s \in Actors /\ {"readRing"} \subseteq Steps
    BY DEF Actors, Steps
  <2>3. CASE Step(s, "readRing")
    BY <2>2, <2>3, StepIs
  <2>4. CASE Goto(s, Idle)
    BY <2>2, <2>4, IdleIs
  <2> QED
    BY <2>1, <2>3, <2>4
<1>2. TypeOK'
  BY <1>1 DEF CheckQuota, At, tables, history, TypeOK
<1>3. IsFiniteSet(entries') /\ entries' \subseteq stored'
  BY <1>1 DEF CheckQuota, At, tables, history
<1>4. Shape'
  BY <1>1 DEF CheckQuota, At, tables, history, Shape, Actors
<1>5. ASSUME ~raced' PROVE Calm'
  <2>1. ~raced /\ Calm
    BY <1>5 DEF CheckQuota, At, tables, history, Calm
  <2>2. /\ UNCHANGED <<ring, mark, entries, reply, stored, lowered>>
        /\ s \in Actors /\ job[s].gone = 0 /\ job'[s].gone = 0 /\ job[s].pc \notin Deletions
        /\ job'[s].pc \notin Deletions \cup {"evict", "deleteThrough", "writeMark"}
        /\ job'[s].pc \in {"insertEntry", "count"} => ring
    BY <2>1, <1>1 DEF CheckQuota, At, tables, history, Shape, Actors, Deletions
  <2>3. s = Pruner => job'[s].todo \subseteq stored
    BY <2>1, <1>1 DEF CheckQuota, At, tables, history, Calm, PruneRead
  <2>4. job[s].pc = "idle" => \A b \in Actors : job[b].pc \notin Deletions
    BY <2>1, <1>5, <1>1 DEF CheckQuota, At, tables, history, Crosses, Deleting, Actors
  <2> QED
    BY <2>1, <2>2, <2>3, <2>4, <1>1, QuietStep
<1> QED
  BY <1>2, <1>3, <1>4, <1>5

\* ReadRing keeps the invariant.
LEMMA ReadRingInv ==
  ASSUME IInv, NEW s \in Sockets, ReadRing(s)
  PROVE  IInv'
<1> USE RingAssumption DEF IInv
<1>1. /\ job' \in [Actors -> Jobs]
      /\ \A b \in Actors \ {s} : job'[b] = job[b]
      /\ job'[s].pc = (IF ring THEN "insertEntry" ELSE "insertRing") /\ job'[s].seq = job[s].seq /\ job'[s].over = job[s].over
      /\ job'[s].low = job[s].low /\ job'[s].gone = job[s].gone /\ job'[s].todo = job[s].todo
  <2>1. Step(s, IF ring THEN "insertEntry" ELSE "insertRing") /\ s \in Actors
    BY DEF ReadRing, Actors
  <2>2. (IF ring THEN "insertEntry" ELSE "insertRing") \in Steps
    BY DEF Steps
  <2> QED
    BY <2>1, <2>2, StepIs
<1>2. TypeOK'
  BY <1>1 DEF ReadRing, At, tables, history, TypeOK
<1>3. IsFiniteSet(entries') /\ entries' \subseteq stored'
  BY <1>1 DEF ReadRing, At, tables, history
<1>4. Shape'
  BY <1>1 DEF ReadRing, At, tables, history, Shape, Actors
<1>5. ASSUME ~raced' PROVE Calm'
  <2>1. ~raced /\ Calm
    BY <1>5 DEF ReadRing, At, tables, history, Calm
  <2>2. /\ UNCHANGED <<ring, mark, entries, reply, stored, lowered>>
        /\ s \in Actors /\ job[s].gone = 0 /\ job'[s].gone = 0 /\ job[s].pc \notin Deletions
        /\ job'[s].pc \notin Deletions \cup {"evict", "deleteThrough", "writeMark"}
        /\ job'[s].pc \in {"insertEntry", "count"} => ring
    BY <2>1, <1>1 DEF ReadRing, At, tables, history, Shape, Actors, Deletions
  <2>3. s = Pruner => job'[s].todo \subseteq stored
    BY <2>1, <1>1 DEF ReadRing, At, tables, history, Calm, PruneRead
  <2>4. job[s].pc = "idle" => \A b \in Actors : job[b].pc \notin Deletions
    BY <2>1, <1>5, <1>1 DEF ReadRing, At, tables, history, Crosses, Deleting, Actors
  <2> QED
    BY <2>1, <2>2, <2>3, <2>4, <1>1, QuietStep
<1> QED
  BY <1>2, <1>3, <1>4, <1>5

\* InsertRing keeps the invariant.
LEMMA InsertRingInv ==
  ASSUME IInv, NEW s \in Sockets, InsertRing(s)
  PROVE  IInv'
<1> USE RingAssumption DEF IInv
<1>1. ring' \in BOOLEAN
  <2>1. ring' \in {ring, TRUE}
    BY Zenon DEF InsertRing
  <2> QED
    BY <2>1, Zenon DEF TypeOK
<1>2. /\ job' \in [Actors -> Jobs]
      /\ \A b \in Actors \ {s} : job'[b] = job[b]
      /\ \/ job'[s].pc \in {"insertEntry"} /\ job'[s].seq = job[s].seq /\ job'[s].over = job[s].over /\ job'[s].low = job[s].low
            /\ job'[s].gone = job[s].gone /\ job'[s].todo = job[s].todo
         \/ /\ job'[s].pc = "idle" /\ job'[s].seq = 0 /\ job'[s].over = 0
            /\ job'[s].low = 0 /\ job'[s].gone = 0 /\ job'[s].todo = {}
  <2>1. Step(s, "insertEntry") \/ Goto(s, Idle)
    BY DEF InsertRing
  <2>2. s \in Actors /\ {"insertEntry"} \subseteq Steps
    BY DEF Actors, Steps
  <2>3. CASE Step(s, "insertEntry")
    BY <2>2, <2>3, StepIs
  <2>4. CASE Goto(s, Idle)
    BY <2>2, <2>4, IdleIs
  <2> QED
    BY <2>1, <2>3, <2>4
<1>3. mark' \in Nat
  <2>1. mark' \in {mark, 0}
    BY Zenon DEF InsertRing
  <2> QED
    BY <2>1 DEF TypeOK
<1>4. TypeOK'
  BY <1>1, <1>2, <1>3 DEF InsertRing, At, history, TypeOK
<1>5. IsFiniteSet(entries') /\ entries' \subseteq stored'
  BY <1>1, <1>2, <1>3 DEF InsertRing, At, history
<1>6. Shape'
  BY <1>1, <1>2, <1>3 DEF InsertRing, At, history, Shape, Actors
<1>7. ASSUME ~raced' PROVE Calm'
  <2>1. ~raced /\ Calm
    BY <1>7 DEF InsertRing, At, history, Calm
  <2>2. Ordered'
    BY <2>1, <1>7, <1>1, <1>2, <1>3 DEF InsertRing, At, history, Calm, Ordered
  <2>3. DeletesAlone'
    BY <2>1, <1>7, <1>1, <1>2, <1>3 DEF InsertRing, At, history, Calm, DeletesAlone,
       Actors, Deletions
  <2>4. OldestRead'
    BY <2>1, <1>7, <1>1, <1>2, <1>3 DEF InsertRing, At, history, Calm, OldestRead, Actors
  <2>5. GoneBelow'
    BY <2>1, <1>7, <1>1, <1>2, <1>3 DEF InsertRing, At, history, Calm, GoneBelow
  <2>6. PruneRead'
    BY <2>1, <1>7, <1>1, <1>2, <1>3 DEF InsertRing, At, history, Calm, PruneRead, Actors
  <2>7. MarkBelow'
    BY <2>1, <1>7, <1>1, <1>2, <1>3 DEF InsertRing, At, history, Calm, MarkBelow, Actors,
       Deletions, TypeOK, Jobs
  <2>8. RingThere'
    BY <2>1, <1>7, <1>1, <1>2, <1>3 DEF InsertRing, At, history, Calm, RingThere
  <2>9. MarkRead'
    BY <2>1, <1>7, <1>1, <1>2, <1>3 DEF InsertRing, At, history, Calm, MarkRead
  <2>10. Answered'
    BY <2>1, <1>7, <1>1, <1>2, <1>3 DEF InsertRing, At, history, Calm, Answered
  <2>11. ~lowered' => Covered'
    BY <2>1, <1>7, <1>1, <1>2, <1>3 DEF InsertRing, At, history, TypeOK, Calm, Covered,
       GoneBelow, OldestRead, PruneRead, DeletesAlone, RingThere, Shape, Actors,
       Deletions, Jobs, tables
  <2> QED
    BY <2>2, <2>3, <2>4, <2>5, <2>6, <2>7, <2>8, <2>9, <2>10, <2>11 DEF Calm
<1> QED
  BY <1>4, <1>5, <1>6, <1>7

\* InsertEntry keeps the invariant.
LEMMA InsertEntryInv ==
  ASSUME IInv, NEW s \in Sockets, InsertEntry(s)
  PROVE  IInv'
<1> USE RingAssumption DEF IInv
<1>1. /\ job' \in [Actors -> Jobs]
      /\ \A b \in Actors \ {s} : job'[b] = job[b]
      /\ \/ job'[s].pc \in {"count"} /\ job'[s].seq = job[s].seq /\ job'[s].over = job[s].over /\ job'[s].low = job[s].low
            /\ job'[s].gone = job[s].gone /\ job'[s].todo = job[s].todo
         \/ /\ job'[s].pc = "idle" /\ job'[s].seq = 0 /\ job'[s].over = 0
            /\ job'[s].low = 0 /\ job'[s].gone = 0 /\ job'[s].todo = {}
  <2>1. Step(s, "count") \/ Goto(s, Idle)
    BY DEF InsertEntry
  <2>2. s \in Actors /\ {"count"} \subseteq Steps
    BY DEF Actors, Steps
  <2>3. CASE Step(s, "count")
    BY <2>2, <2>3, StepIs
  <2>4. CASE Goto(s, Idle)
    BY <2>2, <2>4, IdleIs
  <2> QED
    BY <2>1, <2>3, <2>4
<1>2. /\ UNCHANGED <<session, counter, ring, mark, reply, lowered, failed, left>>
      /\ job[s].pc = "insertEntry" /\ job[s].seq \in Nat \ {0}
      /\ \/ job'[s].pc = "idle" /\ UNCHANGED <<entries, stored, raced>>
         \/ /\ job'[s].pc = "count"
            /\ entries' = entries \cup {job[s].seq} /\ stored' = stored \cup {job[s].seq}
            /\ ~raced' => \A m \in stored : m < job[s].seq
  <2>1. s \in Actors /\ job[s] \in Jobs /\ job[s].pc = "insertEntry"
    BY DEF TypeOK, Actors, InsertEntry, At
  <2>2. job[s].seq \in Nat /\ job[s].seq > 0
    BY <2>1 DEF Jobs, Shape
  <2>3. CASE job[s].seq \in entries
    BY <2>1, <2>2, <2>3, IdleIs DEF InsertEntry
  <2>4. CASE job[s].seq \notin entries
    <3>1. Step(s, "count") /\ "count" \in Steps
      BY <2>4 DEF InsertEntry, Steps
    <3>2. job'[s].pc = "count"
      BY <2>1, <3>1, StepIs
    <3>3. ~raced' => ~raced /\ \A m \in stored : ~(m >= job[s].seq)
      BY <2>4, Zenon DEF InsertEntry
    <3>4. ~raced' => \A m \in stored : m < job[s].seq
      BY <2>2, <3>3 DEF TypeOK
    <3> QED
      BY <2>1, <2>2, <2>4, <3>2, <3>4 DEF InsertEntry
  <2> QED
    BY <2>3, <2>4
<1>3. IsFiniteSet(entries')
  <2>1. IsFiniteSet(entries \cup {job[s].seq})
    BY FS_AddElement
  <2> QED
    BY <1>2, <2>1
<1>4. raced' \in BOOLEAN
  <2>1. raced' = raced \/ raced' = (raced \/ \E m \in stored : m >= job[s].seq)
    BY Zenon DEF InsertEntry
  <2> QED
    BY <2>1, Zenon DEF TypeOK
<1>5. TypeOK'
  BY <1>1, <1>2, <1>3, <1>4 DEF TypeOK
<1>6. IsFiniteSet(entries') /\ entries' \subseteq stored'
  BY <1>1, <1>2, <1>3, <1>4
<1>7. Shape'
  BY <1>1, <1>2, <1>3, <1>4 DEF Shape, Actors
<1>8. ASSUME ~raced' PROVE Calm'
  <2>1. ~raced /\ Calm
    <3>1. raced' = raced \/ raced' = (raced \/ \E m \in stored : m >= job[s].seq)
      BY Zenon DEF InsertEntry
    <3>2. ~raced
      BY <1>8, <3>1, Zenon
    <3> QED
      BY <3>2
  <2>2. CASE job'[s].pc = "idle"
    <3>1. /\ UNCHANGED <<entries, stored, ring, mark, reply, lowered>>
          /\ job'[s].gone = 0 /\ job[s].gone = 0 /\ s # Pruner /\ job[s].pc = "insertEntry"
      BY <1>1, <1>2, <2>2 DEF Shape
    <3>2. Ordered' /\ MarkRead' /\ Answered'
      BY <2>1, <3>1 DEF Calm, Ordered, MarkRead, Answered
    <3>3. DeletesAlone' /\ MarkBelow' /\ RingThere'
      BY <1>1, <2>1, <2>2, <3>1 DEF Calm, DeletesAlone, MarkBelow, RingThere, Actors, Deletions
    <3>4. OldestRead' /\ GoneBelow' /\ PruneRead'
      BY <1>1, <2>1, <2>2, <3>1 DEF Calm, OldestRead, GoneBelow, PruneRead, Actors
    <3>5. ~lowered' => Covered'
      BY <1>1, <2>1, <3>1 DEF Calm, Covered, Actors
    <3> QED
      BY <3>2, <3>3, <3>4, <3>5 DEF Calm
  <2>3. CASE job'[s].pc = "count"
    <3> DEFINE n == job[s].seq
    <3>1. /\ entries' = entries \cup {n} /\ stored' = stored \cup {n}
          /\ n \in Nat \ {0} /\ \A m \in stored : m < n
      BY <1>2, <1>8, <2>3
    <3>2. entries \subseteq Nat /\ stored \subseteq Nat /\ entries \subseteq stored
      BY DEF TypeOK
    <3>3. /\ UNCHANGED <<ring, mark, reply, lowered>> /\ ring
          /\ job'[s].gone = 0 /\ job[s].gone = 0 /\ s # Pruner /\ job[s].pc = "insertEntry"
      BY <1>1, <1>2, <2>1, <2>3 DEF Shape, Calm, RingThere
    <3>4. \A a \in Actors : {job[a].gone, job[a].low, job[a].seq} \subseteq Nat
      BY DEF TypeOK, Jobs
    <3> HIDE DEF n
    <3>5. Ordered'
      BY <2>1, <3>1, <3>2 DEF Calm, Ordered
    <3>6. DeletesAlone' /\ RingThere'
      BY <1>1, <2>1, <2>3, <3>3 DEF Calm, DeletesAlone, RingThere, Actors, Deletions
    <3>7. OldestRead'
      <4> SUFFICES ASSUME NEW t \in Sockets, job'[t].pc = "evict"
                   PROVE  /\ job'[t].low \in stored' /\ job'[t].gone < job'[t].low
                          /\ \A e \in entries' : job'[t].low <= e
        BY DEF OldestRead
      <4>1. t # s /\ job'[t] = job[t]
        BY <1>1, <2>3 DEF Actors
      <4>2. /\ job[t].low \in stored /\ job[t].gone < job[t].low
            /\ \A e \in entries : job[t].low <= e
        BY <2>1, <4>1 DEF Calm, OldestRead
      <4>3. job[t].low <= n
        <5>1. job[t].low < n
          BY <3>1, <4>2
        <5>2. job[t].low \in Nat /\ n \in Nat
          BY <3>1, <3>4 DEF Actors
        <5> QED
          BY <5>1, <5>2
      <4>4. \A e \in entries' : job[t].low <= e
        BY <3>1, <4>2, <4>3
      <4> QED
        BY <3>1, <4>1, <4>2, <4>4
    <3>8. GoneBelow'
      BY <1>1, <2>1, <2>3, <3>1, <3>2, <3>3, <3>4 DEF Calm, GoneBelow, Actors
    <3>9. PruneRead'
      BY <1>1, <2>1, <2>3, <3>1, <3>2, <3>3, <3>4 DEF Calm, PruneRead, Actors
    <3>10. mark \in stored \cup {0}
      BY <2>1, <3>3 DEF Calm, MarkBelow, DeletesAlone, Actors, Deletions
    <3>11. MarkBelow'
      <4>1. mark < n
        BY <3>1, <3>10
      <4> QED
        BY <2>1, <3>1, <3>3, <3>10, <4>1 DEF Calm, MarkBelow
    <3>12. MarkRead'
      <4>1. reply.pc = "marked" => reply.mark < n
        BY <2>1, <3>1 DEF Calm, MarkRead
      <4> QED
        BY <2>1, <3>1, <3>2, <3>3, <4>1 DEF Calm, MarkRead
    <3>13. Answered'
      BY <2>1, <3>3 DEF Calm, Answered
    <3>14. ~lowered' => Covered'
      BY <1>1, <2>1, <3>1, <3>2, <3>3 DEF Calm, Covered, Actors
    <3> QED
      BY <3>5, <3>6, <3>7, <3>8, <3>9, <3>11, <3>12, <3>13, <3>14 DEF Calm
  <2> QED
    BY <1>2, <2>2, <2>3
<1> QED
  BY <1>5, <1>6, <1>7, <1>8

\* Count keeps the invariant.
LEMMA CountInv ==
  ASSUME IInv, NEW s \in Sockets, Count(s)
  PROVE  IInv'
<1> USE RingAssumption DEF IInv
<1>1. /\ job' \in [Actors -> Jobs]
      /\ \A b \in Actors \ {s} : job'[b] = job[b]
      /\ job[s].pc = "count"
      /\ \/ /\ job'[s].pc = "readOldest" /\ job'[s].over > 0 /\ job'[s].seq = job[s].seq
            /\ job'[s].low = job[s].low /\ job'[s].gone = job[s].gone /\ job'[s].todo = job[s].todo
         \/ /\ job'[s].pc = "idle" /\ job'[s].seq = 0 /\ job'[s].over = 0
            /\ job'[s].low = 0 /\ job'[s].gone = 0 /\ job'[s].todo = {}
  <2> DEFINE over == Cardinality(entries) - Capacity
             j == [job[s] EXCEPT !.pc = "readOldest", !.over = over]
  <2>1. s \in Actors /\ job[s] \in Jobs /\ job[s].pc = "count" /\ over \in Int
    BY FS_CardinalityType DEF TypeOK, Actors, Count, At
  <2>2. CASE over > 0
    <3>1. Goto(s, j)
      BY <2>2 DEF Count
    <3>2. j \in Jobs
      <4>1. over \in Nat
        BY <2>1, <2>2
      <4> HIDE DEF over
      <4> QED
        BY <2>1, <4>1 DEF Jobs, Steps
    <3>3. job'[s] = j /\ job' \in [Actors -> Jobs] /\ \A b \in Actors \ {s} : job'[b] = job[b]
      <4> HIDE DEF j
      <4> QED
        BY <2>1, <3>1, <3>2, GotoIs
    <3> QED
      BY <2>1, <2>2, <3>3 DEF Jobs
  <2>3. CASE ~(over > 0)
    <3>1. Goto(s, Idle)
      BY <2>3 DEF Count
    <3> QED
      BY <2>1, <3>1, IdleIs
  <2> QED
    BY <2>2, <2>3
<1>2. TypeOK'
  BY <1>1 DEF Count, At, tables, history, TypeOK
<1>3. IsFiniteSet(entries') /\ entries' \subseteq stored'
  BY <1>1 DEF Count, At, tables, history
<1>4. Shape'
  BY <1>1 DEF Count, At, tables, history, Shape, Actors
<1>5. ASSUME ~raced' PROVE Calm'
  <2>1. ~raced /\ Calm
    BY <1>5 DEF Count, At, tables, history, Calm
  <2>2. /\ UNCHANGED <<ring, mark, entries, reply, stored, lowered>>
        /\ s \in Actors /\ job[s].gone = 0 /\ job'[s].gone = 0 /\ job[s].pc \notin Deletions
        /\ job'[s].pc \notin Deletions \cup {"evict", "deleteThrough", "writeMark"}
        /\ job'[s].pc \in {"insertEntry", "count"} => ring
    BY <2>1, <1>1 DEF Count, At, tables, history, Shape, Actors, Deletions
  <2>3. s = Pruner => job'[s].todo \subseteq stored
    BY <2>1, <1>1 DEF Count, At, tables, history, Calm, PruneRead
  <2>4. job[s].pc = "idle" => \A b \in Actors : job[b].pc \notin Deletions
    BY <2>1, <1>5, <1>1 DEF Count, At, tables, history, Crosses, Deleting, Actors
  <2> QED
    BY <2>1, <2>2, <2>3, <2>4, <1>1, QuietStep
<1> QED
  BY <1>2, <1>3, <1>4, <1>5

\* ReadOldest keeps the invariant.
LEMMA ReadOldestInv ==
  ASSUME IInv, NEW s \in Sockets, ReadOldest(s)
  PROVE  IInv'
<1> USE RingAssumption DEF IInv
<1>1. /\ job' \in [Actors -> Jobs]
      /\ \A b \in Actors \ {s} : job'[b] = job[b]
      /\ job[s].pc = "readOldest"
      /\ \/ /\ job'[s].pc = "evict" /\ job'[s].over = job[s].over /\ job'[s].gone = job[s].gone
            /\ job'[s].low \in entries /\ \A e \in entries : job'[s].low <= e
         \/ job'[s].pc = "writeMark" /\ job'[s].gone = job[s].gone /\ job[s].gone > 0
         \/ job'[s].pc = "idle" /\ job'[s].gone = 0 /\ job[s].gone = 0
  <2>1. s \in Actors /\ job[s] \in Jobs /\ job[s].pc = "readOldest" /\ job[s].gone \in Nat
    BY DEF TypeOK, Actors, ReadOldest, At, Jobs
  <2>2. CASE entries # {}
    <3> DEFINE j == [job[s] EXCEPT !.pc = "evict", !.low = Oldest]
    <3>1. Goto(s, j)
      BY <2>2 DEF ReadOldest
    <3>2. Oldest \in entries /\ \A e \in entries : Oldest <= e
      BY <2>2, LeastIs DEF Oldest, TypeOK
    <3>3. j \in Jobs
      BY <2>1, <3>2 DEF Jobs, Steps, TypeOK
    <3>4. job'[s] = j /\ job' \in [Actors -> Jobs] /\ \A b \in Actors \ {s} : job'[b] = job[b]
      <4> HIDE DEF j
      <4> QED
        BY <2>1, <3>1, <3>3, GotoIs
    <3> QED
      BY <2>1, <3>2, <3>4 DEF Jobs
  <2>3. CASE entries = {} /\ job[s].gone > 0
    <3>1. Step(s, "writeMark") /\ "writeMark" \in Steps
      BY <2>3 DEF ReadOldest, Steps
    <3> QED
      BY <2>1, <2>3, <3>1, StepIs
  <2>4. CASE entries = {} /\ ~(job[s].gone > 0)
    <3>1. Goto(s, Idle) /\ job[s].gone = 0
      BY <2>1, <2>4 DEF ReadOldest
    <3> QED
      BY <2>1, <3>1, IdleIs
  <2> QED
    BY <2>2, <2>3, <2>4
<1>2. TypeOK'
  BY <1>1 DEF ReadOldest, At, tables, history, TypeOK
<1>3. IsFiniteSet(entries') /\ entries' \subseteq stored'
  BY <1>1 DEF ReadOldest, At, tables, history
<1>4. Shape'
  BY <1>1 DEF ReadOldest, At, tables, history, Shape, Actors, Deletions, TypeOK
<1>5. ASSUME ~raced' PROVE Calm'
  <2>1. ~raced /\ Calm
    BY <1>5 DEF ReadOldest, At, tables, history, Calm
  <2>2. Ordered'
    BY <2>1, <1>5, <1>1 DEF ReadOldest, At, tables, history, Calm, Ordered
  <2>3. DeletesAlone'
    BY <2>1, <1>5, <1>1 DEF ReadOldest, At, tables, history, Calm, DeletesAlone, Actors,
       Deletions
  <2>4. OldestRead'
    BY <2>1, <1>5, <1>1 DEF ReadOldest, At, tables, history, TypeOK, Calm, OldestRead,
       Ordered, DeletesAlone, GoneBelow, Shape, Actors, Deletions, Jobs
  <2>5. GoneBelow'
    BY <2>1, <1>5, <1>1 DEF ReadOldest, At, tables, history, Calm, GoneBelow
  <2>6. PruneRead'
    BY <2>1, <1>5, <1>1 DEF ReadOldest, At, tables, history, Calm, PruneRead, Actors
  <2>7. MarkBelow'
    BY <2>1, <1>5, <1>1 DEF ReadOldest, At, tables, history, Calm, MarkBelow
  <2>8. RingThere'
    BY <2>1, <1>5, <1>1 DEF ReadOldest, At, tables, history, Calm, RingThere, Actors,
       Deletions
  <2>9. MarkRead'
    BY <2>1, <1>5, <1>1 DEF ReadOldest, At, tables, history, Calm, MarkRead
  <2>10. Answered'
    BY <2>1, <1>5, <1>1 DEF ReadOldest, At, tables, history, Calm, Answered
  <2>11. ~lowered' => Covered'
    BY <2>1, <1>5, <1>1 DEF ReadOldest, At, tables, history, Calm, Covered
  <2> QED
    BY <2>2, <2>3, <2>4, <2>5, <2>6, <2>7, <2>8, <2>9, <2>10, <2>11 DEF Calm
<1> QED
  BY <1>2, <1>3, <1>4, <1>5

\* Evict keeps the invariant.
LEMMA EvictInv ==
  ASSUME IInv, NEW s \in Sockets, Evict(s)
  PROVE  IInv'
<1> USE RingAssumption DEF IInv
<1>1. /\ job' \in [Actors -> Jobs] /\ \A b \in Actors \ {s} : job'[b] = job[b]
      /\ job'[s].pc = (IF job[s].over > 1 THEN "readOldest" ELSE "writeMark")
      /\ job'[s].gone = job[s].low /\ job'[s].over = job[s].over - 1 /\ job'[s].todo = job[s].todo
  <2> DEFINE p == IF job[s].over > 1 THEN "readOldest" ELSE "writeMark"
             j == [job[s] EXCEPT !.pc = p, !.gone = job[s].low, !.over = @ - 1]
  <2>1. s \in Actors /\ Goto(s, j) /\ job[s].pc = "evict"
    BY DEF Evict, Actors, At
  <2>2. job[s] \in Jobs /\ job[s].low \in Nat /\ job[s].over \in Nat /\ job[s].over > 0
    BY <2>1 DEF TypeOK, Jobs, Shape
  <2>6. job[s].over - 1 \in Nat
    BY <2>2
  <2>3. p \in Steps
    BY DEF Steps
  <2>4. j \in Jobs
    <3> HIDE DEF p
    <3> QED
      BY <2>2, <2>3, <2>6 DEF Jobs
  <2>5. job'[s] = j /\ job' \in [Actors -> Jobs] /\ \A b \in Actors \ {s} : job'[b] = job[b]
    <3> HIDE DEF j
    <3> QED
      BY <2>1, <2>4, GotoIs
  <2> QED
    BY <2>2, <2>5 DEF Jobs
<1>2. job[s].pc = "evict" /\ job[s].over \in Nat /\ job[s].over > 0 /\ job[s].low > 0
  BY DEF Evict, At, Shape, TypeOK, Jobs, Actors
<1>3. /\ job[s].pc = "evict" /\ entries' = entries \ {job[s].low}
      /\ UNCHANGED <<session, counter, ring, mark, stored, raced, lowered, failed, left>>
  BY DEF Evict, At, history
<1>4. /\ reply' \in [pc : {"none", "marked", "answered"}, since : Nat, mark : Nat,
                     entries : SUBSET Nat, missed : SUBSET Nat, clean : BOOLEAN]
      /\ reply'.pc = reply.pc /\ reply'.mark = reply.mark
      /\ reply'.entries = reply.entries /\ reply'.missed = reply.missed
      /\ reply'.clean => reply.clean
      /\ reply'.clean => (reply.pc = "marked" => entries \cap {job[s].low} = {})
  <2>1. Dropped(entries \cap {job[s].low})
    BY DEF Evict
  <2> QED
    BY <2>1, DroppedIs
<1>5. IsFiniteSet(entries')
  BY <1>3, FS_RemoveElement
<1>6. TypeOK'
  BY <1>1, <1>2, <1>3, <1>4, <1>5 DEF TypeOK
<1>7. IsFiniteSet(entries') /\ entries' \subseteq stored'
  BY <1>1, <1>2, <1>3, <1>4, <1>5
<1>8. Shape'
  BY <1>1, <1>2 DEF Shape, TypeOK, Actors, Jobs, Deletions
<1>9. ASSUME ~raced' PROVE Calm'
  <2>1. ~raced /\ Calm
    BY <1>9, <1>1, <1>2, <1>3, <1>4, <1>5 DEF Calm
  <2> DEFINE n == job[s].low

  <2>2. /\ job[s].pc = "evict" /\ s \in Actors /\ s # Pruner /\ n \in stored /\ job[s].gone < n
        /\ \A e \in entries : n <= e
    BY <2>1, <1>3 DEF Calm, OldestRead, Actors
  <2>3. /\ entries \subseteq Nat \ {0} /\ stored \subseteq Nat \ {0} /\ entries \subseteq stored
        /\ n \in Nat \ {0}
    BY <2>2 DEF TypeOK
  <2>4. ASSUME NEW e \in entries' PROVE n < e
    <3>1. e \in Nat /\ n \in Nat /\ e # n /\ n <= e
      BY <1>3, <2>2, <2>3
    <3> QED
      BY <3>1
  <2>5. ring /\ \A a \in Actors : job[a].pc \notin Deletions
    BY <2>1, <2>2 DEF Calm, DeletesAlone, RingThere, Actors, Deletions
  <2>6. \A d \in stored' \ entries' : d = n \/ d \in stored \ entries
    BY <1>3
  <2>7. Ordered'
    BY <1>3, <2>1, <2>4, <2>6 DEF Calm, Ordered
  <2>8. DeletesAlone' /\ RingThere'
    BY <1>1, <1>3, <2>1, <2>2, <2>5 DEF Calm, DeletesAlone, RingThere, Actors, Deletions
  <2>9. OldestRead'
    BY <1>1, <1>3, <2>1, <2>2 DEF Calm, OldestRead, Actors
  <2>10. GoneBelow'
    BY <1>1, <1>3, <2>1, <2>2, <2>4, <2>5 DEF Calm, GoneBelow, Actors
  <2>11. PruneRead' /\ MarkBelow'
    BY <1>1, <1>3, <2>1, <2>2 DEF Calm, PruneRead, MarkBelow, Actors
  <2>12. MarkRead'
    <3> SUFFICES ASSUME reply.pc = "marked" PROVE MarkRead'
      BY <1>4 DEF MarkRead
    <3>1. reply'.clean => reply.clean /\ entries' = entries
      BY <1>3, <1>4
    <3> QED
      BY <1>3, <1>4, <2>1, <3>1 DEF Calm, MarkRead
  <2>13. Answered'
    BY <1>3, <1>4, <2>1 DEF Calm, Answered
  <2>14. ASSUME ~lowered' PROVE Covered'
    <3> SUFFICES ASSUME NEW d \in stored' \ entries'
                 PROVE  d <= mark' \/ \E a \in Actors : job'[a].gone > 0 /\ d <= job'[a].gone
      BY DEF Covered
    <3>1. job'[s].gone = n /\ n > 0 /\ n <= n
      BY <1>1, <2>3
    <3>2. CASE d = n
      BY <2>2, <3>1, <3>2
    <3>3. CASE d \in stored \ entries
      <4>1. d <= mark \/ \E a \in Actors : job[a].gone > 0 /\ d <= job[a].gone
        BY <1>3, <2>1, <2>14, <3>3 DEF Calm, Covered
      <4>2. ASSUME d <= job[s].gone PROVE d <= n
        BY <2>2, <2>3, <3>3, <4>2 DEF TypeOK, Jobs
      <4> QED
        BY <1>1, <1>3, <2>2, <3>1, <4>1, <4>2
    <3> QED
      BY <2>6, <3>2, <3>3
  <2> QED
    BY <2>7, <2>8, <2>9, <2>10, <2>11, <2>12, <2>13, <2>14 DEF Calm
<1> QED
  BY <1>6, <1>7, <1>8, <1>9

\* WriteMark keeps the invariant.
LEMMA WriteMarkInv ==
  ASSUME IInv, NEW s \in Sockets, WriteMark(s)
  PROVE  IInv'
<1> USE RingAssumption DEF IInv
<1>1. /\ job' \in [Actors -> Jobs]
      /\ \A b \in Actors \ {s} : job'[b] = job[b]
      /\ job'[s].pc = "idle" /\ job'[s].seq = 0 /\ job'[s].over = 0
      /\ job'[s].low = 0 /\ job'[s].gone = 0 /\ job'[s].todo = {}
  <2>1. Goto(s, Idle) /\ s \in Actors
    BY DEF WriteMark, Actors
  <2> QED
    BY <2>1, IdleIs
<1>2. /\ job[s].pc = "writeMark" /\ job[s].gone \in Nat /\ job[s].gone > 0 /\ s # Pruner
      /\ mark' \in Nat
  BY DEF WriteMark, At, TypeOK, Jobs, Shape, Actors
<1>3. lowered' \in BOOLEAN
  <2>1. lowered' = (lowered \/ job[s].gone < mark)
    BY DEF WriteMark
  <2> QED
    BY <2>1, Zenon DEF TypeOK
<1>4. TypeOK'
  BY <1>1, <1>2, <1>3 DEF WriteMark, At, TypeOK
<1>5. IsFiniteSet(entries') /\ entries' \subseteq stored'
  BY <1>1, <1>2, <1>3 DEF WriteMark, At
<1>6. Shape'
  BY <1>1, <1>2, <1>3 DEF WriteMark, At, Shape, Actors
<1>7. ASSUME ~raced' PROVE Calm'
  <2>1. ~raced /\ Calm
    BY <1>7 DEF WriteMark, At, Calm
  <2>2. Ordered'
    BY <2>1, <1>7, <1>1, <1>2, <1>3 DEF WriteMark, At, Calm, Ordered
  <2>3. DeletesAlone'
    BY <2>1, <1>7, <1>1, <1>2, <1>3 DEF WriteMark, At, Calm, DeletesAlone, Actors,
       Deletions
  <2>4. OldestRead'
    BY <2>1, <1>7, <1>1, <1>2, <1>3 DEF WriteMark, At, Calm, OldestRead, Actors
  <2>5. GoneBelow'
    BY <2>1, <1>7, <1>1, <1>2, <1>3 DEF WriteMark, At, Calm, GoneBelow
  <2>6. PruneRead'
    BY <2>1, <1>7, <1>1, <1>2, <1>3 DEF WriteMark, At, Calm, PruneRead, Actors
  <2>7. MarkBelow'
    BY <2>1, <1>7, <1>1, <1>2, <1>3 DEF WriteMark, At, Calm, MarkBelow, DeletesAlone,
       GoneBelow, PruneRead, OldestRead, Ordered, Actors, Deletions
  <2>8. RingThere'
    BY <2>1, <1>7, <1>1, <1>2, <1>3 DEF WriteMark, At, Calm, RingThere, Actors, Deletions
  <2>9. MarkRead'
    BY <2>1, <1>7, <1>1, <1>2, <1>3 DEF WriteMark, At, Calm, MarkRead
  <2>10. Answered'
    BY <2>1, <1>7, <1>1, <1>2, <1>3 DEF WriteMark, At, Calm, Answered
  <2>11. ~lowered' => Covered'
    BY <2>1, <1>7, <1>1, <1>2, <1>3 DEF WriteMark, At, TypeOK, Calm, Covered, GoneBelow,
       OldestRead, PruneRead, DeletesAlone, RingThere, Shape, Actors, Deletions, Jobs,
       tables, history
  <2> QED
    BY <2>2, <2>3, <2>4, <2>5, <2>6, <2>7, <2>8, <2>9, <2>10, <2>11 DEF Calm
<1> QED
  BY <1>4, <1>5, <1>6, <1>7

\* BeginDelete keeps the invariant.
LEMMA BeginDeleteInv ==
  ASSUME IInv, NEW a \in Actors, BeginDelete(a)
  PROVE  IInv'
<1> USE RingAssumption DEF IInv
<1>1. /\ job' \in [Actors -> Jobs]
      /\ \A b \in Actors \ {a} : job'[b] = job[b]
      /\ job'[a].pc = "deleteEntries" /\ job'[a].seq = job[a].seq /\ job'[a].over = job[a].over
      /\ job'[a].low = job[a].low /\ job'[a].gone = job[a].gone /\ job'[a].todo = job[a].todo
  <2>1. Step(a, "deleteEntries") /\ a \in Actors /\ "deleteEntries" \in Steps
    BY DEF BeginDelete, Steps, Actors, Deletions
  <2> QED
    BY <2>1, StepIs
<1>2. job[a].pc = "idle" /\ (~raced' => reply.pc # "marked" /\ \A b \in Actors \ {a} : job[b].pc = "idle")
  <2>1. raced' = (raced \/ Crosses(a, TRUE))
    BY DEF BeginDelete
  <2>2. ~raced' => ~Crosses(a, TRUE)
    BY <2>1, Zenon
  <2> QED
    BY <2>2 DEF Crosses, At, BeginDelete
<1>3. TypeOK'
  BY <1>1, <1>2 DEF BeginDelete, At, tables, TypeOK, Crosses, Spend, Deleting
<1>4. IsFiniteSet(entries') /\ entries' \subseteq stored'
  BY <1>1, <1>2 DEF BeginDelete, At, tables, Crosses, Spend, Deleting
<1>5. Shape'
  BY <1>1, <1>2 DEF BeginDelete, At, tables, Shape, Actors, Deletions, Crosses, Spend,
     Deleting
<1>6. ASSUME ~raced' PROVE Calm'
  <2>1. ~raced /\ Calm
    BY <1>6 DEF BeginDelete, At, tables, Calm, Crosses, Spend, Deleting
  <2>2. Ordered'
    BY <2>1, <1>6, <1>1, <1>2 DEF BeginDelete, At, tables, Calm, Ordered, Crosses, Spend,
       Deleting
  <2>3. DeletesAlone'
    BY <2>1, <1>6, <1>1, <1>2 DEF BeginDelete, At, tables, Calm, DeletesAlone, Actors,
       Deletions, Crosses, Spend, Deleting
  <2>4. OldestRead'
    BY <2>1, <1>6, <1>1, <1>2 DEF BeginDelete, At, tables, Calm, OldestRead, Actors,
       Crosses, Spend, Deleting
  <2>5. GoneBelow'
    BY <2>1, <1>6, <1>1, <1>2 DEF BeginDelete, At, tables, Calm, GoneBelow, Crosses,
       Spend, Deleting
  <2>6. PruneRead'
    BY <2>1, <1>6, <1>1, <1>2 DEF BeginDelete, At, tables, Calm, PruneRead, Actors,
       Crosses, Spend, Deleting
  <2>7. MarkBelow'
    BY <2>1, <1>6, <1>1, <1>2 DEF BeginDelete, At, tables, Calm, MarkBelow, Crosses,
       Spend, Deleting
  <2>8. RingThere'
    BY <2>1, <1>6, <1>1, <1>2 DEF BeginDelete, At, tables, Calm, RingThere, Actors,
       Deletions, Crosses, Spend, Deleting
  <2>9. MarkRead'
    BY <2>1, <1>6, <1>1, <1>2 DEF BeginDelete, At, tables, Calm, MarkRead, Crosses, Spend,
       Deleting
  <2>10. Answered'
    BY <2>1, <1>6, <1>1, <1>2 DEF BeginDelete, At, tables, Calm, Answered, Crosses, Spend,
       Deleting
  <2>11. ~lowered' => Covered'
    BY <2>1, <1>6, <1>1, <1>2 DEF BeginDelete, At, tables, Calm, Covered, Crosses, Spend,
       Deleting
  <2> QED
    BY <2>2, <2>3, <2>4, <2>5, <2>6, <2>7, <2>8, <2>9, <2>10, <2>11 DEF Calm
<1> QED
  BY <1>3, <1>4, <1>5, <1>6

\* DeleteEntries keeps the invariant.
LEMMA DeleteEntriesInv ==
  ASSUME IInv, NEW a \in Actors, DeleteEntries(a)
  PROVE  IInv'
<1> USE RingAssumption DEF IInv
<1>1. /\ job' \in [Actors -> Jobs]
      /\ \A b \in Actors \ {a} : job'[b] = job[b]
      /\ job'[a].pc = "deleteRing" /\ job'[a].seq = job[a].seq /\ job'[a].over = job[a].over
      /\ job'[a].low = job[a].low /\ job'[a].gone = job[a].gone /\ job'[a].todo = job[a].todo
  <2>1. Step(a, "deleteRing") /\ a \in Actors /\ "deleteRing" \in Steps
    BY DEF DeleteEntries, Steps, Actors, Deletions
  <2> QED
    BY <2>1, StepIs
<1>2. IsFiniteSet(entries')
  BY FS_EmptySet DEF DeleteEntries
<1>3. Dropped(entries)
  BY DEF DeleteEntries
<1>4. /\ reply' \in [pc : {"none", "marked", "answered"}, since : Nat, mark : Nat,
                     entries : SUBSET Nat, missed : SUBSET Nat, clean : BOOLEAN]
      /\ reply'.pc = reply.pc /\ reply'.mark = reply.mark
      /\ reply'.entries = reply.entries /\ reply'.missed = reply.missed
      /\ reply'.clean => reply.clean
  BY <1>3, DroppedIs
<1>5. TypeOK'
  BY <1>1, <1>2, <1>3, <1>4 DEF DeleteEntries, At, TypeOK
<1>6. IsFiniteSet(entries') /\ entries' \subseteq stored'
  BY <1>1, <1>2, <1>3, <1>4 DEF DeleteEntries, At
<1>7. Shape'
  BY <1>1, <1>2, <1>3, <1>4 DEF DeleteEntries, At, Shape, Actors, Deletions
<1>8. ASSUME ~raced' PROVE Calm'
  <2>1. ~raced /\ Calm
    BY <1>8 DEF DeleteEntries, At, Calm
  <2>2. Ordered'
    BY <2>1, <1>8, <1>1, <1>2, <1>3, <1>4 DEF DeleteEntries, At, Calm, Ordered
  <2>3. DeletesAlone'
    BY <2>1, <1>8, <1>1, <1>2, <1>3, <1>4 DEF DeleteEntries, At, Calm, DeletesAlone,
       Actors, Deletions
  <2>4. OldestRead'
    BY <2>1, <1>8, <1>1, <1>2, <1>3, <1>4 DEF DeleteEntries, At, Calm, OldestRead,
       Ordered, DeletesAlone, GoneBelow, Actors, Deletions
  <2>5. GoneBelow'
    BY <2>1, <1>8, <1>1, <1>2, <1>3, <1>4 DEF DeleteEntries, At, TypeOK, Calm, GoneBelow,
       DeletesAlone, OldestRead, PruneRead, RingThere, Ordered, Shape, Actors, Deletions,
       Jobs, tables, history
  <2>6. PruneRead'
    BY <2>1, <1>8, <1>1, <1>2, <1>3, <1>4 DEF DeleteEntries, At, TypeOK, Calm, PruneRead,
       DeletesAlone, MarkBelow, GoneBelow, Ordered, Shape, Actors, Deletions, Jobs,
       tables, history
  <2>7. MarkBelow'
    BY <2>1, <1>8, <1>1, <1>2, <1>3, <1>4 DEF DeleteEntries, At, Calm, MarkBelow
  <2>8. RingThere'
    BY <2>1, <1>8, <1>1, <1>2, <1>3, <1>4 DEF DeleteEntries, At, Calm, RingThere, Actors
  <2>9. MarkRead'
    BY <2>1, <1>8, <1>1, <1>2, <1>3, <1>4 DEF DeleteEntries, At, Calm, MarkRead,
       DeletesAlone, MarkBelow, Covered, Ordered, Actors, Deletions
  <2>10. Answered'
    BY <2>1, <1>8, <1>1, <1>2, <1>3, <1>4 DEF DeleteEntries, At, Calm, Answered
  <2>11. ~lowered' => Covered'
    BY <2>1, <1>8, <1>1, <1>2, <1>3, <1>4 DEF DeleteEntries, At, Calm, Covered
  <2> QED
    BY <2>2, <2>3, <2>4, <2>5, <2>6, <2>7, <2>8, <2>9, <2>10, <2>11 DEF Calm
<1> QED
  BY <1>5, <1>6, <1>7, <1>8

\* DeleteRing keeps the invariant.
LEMMA DeleteRingInv ==
  ASSUME IInv, NEW a \in Actors, DeleteRing(a)
  PROVE  IInv'
<1> USE RingAssumption DEF IInv
<1>1. /\ job' \in [Actors -> Jobs]
      /\ \A b \in Actors \ {a} : job'[b] = job[b]
      /\ job'[a].pc = "deleteCounter" /\ job'[a].seq = job[a].seq /\ job'[a].over = job[a].over
      /\ job'[a].low = job[a].low /\ job'[a].gone = job[a].gone /\ job'[a].todo = job[a].todo
  <2>1. Step(a, "deleteCounter") /\ a \in Actors /\ "deleteCounter" \in Steps
    BY DEF DeleteRing, Steps, Actors, Deletions
  <2> QED
    BY <2>1, StepIs
<1>2. TypeOK'
  BY <1>1 DEF DeleteRing, At, history, TypeOK
<1>3. IsFiniteSet(entries') /\ entries' \subseteq stored'
  BY <1>1 DEF DeleteRing, At, history
<1>4. Shape'
  BY <1>1 DEF DeleteRing, At, history, Shape, Actors, Deletions
<1>5. ASSUME ~raced' PROVE Calm'
  <2>1. ~raced /\ Calm
    BY <1>5 DEF DeleteRing, At, history, Calm
  <2>2. Ordered'
    BY <2>1, <1>5, <1>1 DEF DeleteRing, At, history, Calm, Ordered
  <2>3. DeletesAlone'
    BY <2>1, <1>5, <1>1 DEF DeleteRing, At, history, Calm, DeletesAlone, Actors, Deletions
  <2>4. OldestRead'
    BY <2>1, <1>5, <1>1 DEF DeleteRing, At, history, Calm, OldestRead, Actors
  <2>5. GoneBelow'
    BY <2>1, <1>5, <1>1 DEF DeleteRing, At, history, Calm, GoneBelow, DeletesAlone,
       OldestRead, PruneRead, RingThere, Ordered, Actors, Deletions
  <2>6. PruneRead'
    BY <2>1, <1>5, <1>1 DEF DeleteRing, At, history, Calm, PruneRead, Actors
  <2>7. MarkBelow'
    BY <2>1, <1>5, <1>1 DEF DeleteRing, At, history, Calm, MarkBelow, Actors, Deletions,
       TypeOK
  <2>8. RingThere'
    BY <2>1, <1>5, <1>1 DEF DeleteRing, At, history, Calm, RingThere, DeletesAlone,
       OldestRead, Actors, Deletions
  <2>9. MarkRead'
    BY <2>1, <1>5, <1>1 DEF DeleteRing, At, history, Calm, MarkRead
  <2>10. Answered'
    BY <2>1, <1>5, <1>1 DEF DeleteRing, At, history, Calm, Answered
  <2>11. ~lowered' => Covered'
    BY <2>1, <1>5, <1>1 DEF DeleteRing, At, history, TypeOK, Calm, Covered, GoneBelow,
       OldestRead, PruneRead, DeletesAlone, RingThere, Shape, Actors, Deletions, Jobs,
       tables
  <2> QED
    BY <2>2, <2>3, <2>4, <2>5, <2>6, <2>7, <2>8, <2>9, <2>10, <2>11 DEF Calm
<1> QED
  BY <1>2, <1>3, <1>4, <1>5

\* DeleteCounter keeps the invariant.
LEMMA DeleteCounterInv ==
  ASSUME IInv, NEW a \in Actors, DeleteCounter(a)
  PROVE  IInv'
<1> USE RingAssumption DEF IInv
<1>1. /\ job' \in [Actors -> Jobs]
      /\ \A b \in Actors \ {a} : job'[b] = job[b]
      /\ job'[a].pc = "deleteSession" /\ job'[a].seq = job[a].seq /\ job'[a].over = job[a].over
      /\ job'[a].low = job[a].low /\ job'[a].gone = job[a].gone /\ job'[a].todo = job[a].todo
  <2>1. Step(a, "deleteSession") /\ a \in Actors /\ "deleteSession" \in Steps
    BY DEF DeleteCounter, Steps, Actors, Deletions
  <2> QED
    BY <2>1, StepIs
<1>2. TypeOK'
  BY <1>1 DEF DeleteCounter, At, history, TypeOK
<1>3. IsFiniteSet(entries') /\ entries' \subseteq stored'
  BY <1>1 DEF DeleteCounter, At, history
<1>4. Shape'
  BY <1>1 DEF DeleteCounter, At, history, Shape, Actors, Deletions
<1>5. ASSUME ~raced' PROVE Calm'
  <2>1. ~raced /\ Calm
    BY <1>5 DEF DeleteCounter, At, history, Calm
  <2>2. Ordered'
    BY <2>1, <1>5, <1>1 DEF DeleteCounter, At, history, Calm, Ordered
  <2>3. DeletesAlone'
    BY <2>1, <1>5, <1>1 DEF DeleteCounter, At, history, Calm, DeletesAlone, Actors,
       Deletions
  <2>4. OldestRead'
    BY <2>1, <1>5, <1>1 DEF DeleteCounter, At, history, Calm, OldestRead, Actors
  <2>5. GoneBelow'
    BY <2>1, <1>5, <1>1 DEF DeleteCounter, At, history, Calm, GoneBelow
  <2>6. PruneRead'
    BY <2>1, <1>5, <1>1 DEF DeleteCounter, At, history, Calm, PruneRead, Actors
  <2>7. MarkBelow'
    BY <2>1, <1>5, <1>1 DEF DeleteCounter, At, history, Calm, MarkBelow
  <2>8. RingThere'
    BY <2>1, <1>5, <1>1 DEF DeleteCounter, At, history, Calm, RingThere, Actors, Deletions
  <2>9. MarkRead'
    BY <2>1, <1>5, <1>1 DEF DeleteCounter, At, history, Calm, MarkRead
  <2>10. Answered'
    BY <2>1, <1>5, <1>1 DEF DeleteCounter, At, history, Calm, Answered
  <2>11. ~lowered' => Covered'
    BY <2>1, <1>5, <1>1 DEF DeleteCounter, At, history, Calm, Covered
  <2> QED
    BY <2>2, <2>3, <2>4, <2>5, <2>6, <2>7, <2>8, <2>9, <2>10, <2>11 DEF Calm
<1> QED
  BY <1>2, <1>3, <1>4, <1>5

\* DeleteSession keeps the invariant.
LEMMA DeleteSessionInv ==
  ASSUME IInv, NEW a \in Actors, DeleteSession(a)
  PROVE  IInv'
<1> USE RingAssumption DEF IInv
<1>1. /\ job' \in [Actors -> Jobs]
      /\ \A b \in Actors \ {a} : job'[b] = job[b]
      /\ job'[a].pc = "idle" /\ job'[a].seq = 0 /\ job'[a].over = 0
      /\ job'[a].low = 0 /\ job'[a].gone = 0 /\ job'[a].todo = {}
  <2>1. Goto(a, Idle) /\ a \in Actors
    BY DEF DeleteSession, Actors
  <2> QED
    BY <2>1, IdleIs
<1>2. TypeOK'
  BY <1>1 DEF DeleteSession, At, history, TypeOK
<1>3. IsFiniteSet(entries') /\ entries' \subseteq stored'
  BY <1>1 DEF DeleteSession, At, history
<1>4. Shape'
  BY <1>1 DEF DeleteSession, At, history, Shape, Actors
<1>5. ASSUME ~raced' PROVE Calm'
  <2>1. ~raced /\ Calm
    BY <1>5 DEF DeleteSession, At, history, Calm
  <2>2. Ordered'
    BY <2>1, <1>5, <1>1 DEF DeleteSession, At, history, Calm, Ordered
  <2>3. DeletesAlone'
    BY <2>1, <1>5, <1>1 DEF DeleteSession, At, history, Calm, DeletesAlone, Actors,
       Deletions
  <2>4. OldestRead'
    BY <2>1, <1>5, <1>1 DEF DeleteSession, At, history, Calm, OldestRead, Actors
  <2>5. GoneBelow'
    BY <2>1, <1>5, <1>1 DEF DeleteSession, At, history, Calm, GoneBelow
  <2>6. PruneRead'
    BY <2>1, <1>5, <1>1 DEF DeleteSession, At, history, Calm, PruneRead, Actors
  <2>7. MarkBelow'
    BY <2>1, <1>5, <1>1 DEF DeleteSession, At, history, Calm, MarkBelow
  <2>8. RingThere'
    BY <2>1, <1>5, <1>1 DEF DeleteSession, At, history, Calm, RingThere, DeletesAlone,
       OldestRead, Actors, Deletions
  <2>9. MarkRead'
    BY <2>1, <1>5, <1>1 DEF DeleteSession, At, history, Calm, MarkRead
  <2>10. Answered'
    BY <2>1, <1>5, <1>1 DEF DeleteSession, At, history, Calm, Answered
  <2>11. ~lowered' => Covered'
    BY <2>1, <1>5, <1>1 DEF DeleteSession, At, history, Calm, Covered, Actors, Deletions,
       Shape
  <2> QED
    BY <2>2, <2>3, <2>4, <2>5, <2>6, <2>7, <2>8, <2>9, <2>10, <2>11 DEF Calm
<1> QED
  BY <1>2, <1>3, <1>4, <1>5

\* QueryFails keeps the invariant.
LEMMA QueryFailsInv ==
  ASSUME IInv, NEW a \in Actors, QueryFails(a)
  PROVE  IInv'
<1> USE RingAssumption DEF IInv
<1>1. /\ job' \in [Actors -> Jobs]
      /\ \A b \in Actors \ {a} : job'[b] = job[b]
      /\ job'[a].pc = "idle" /\ job'[a].seq = 0 /\ job'[a].over = 0
      /\ job'[a].low = 0 /\ job'[a].gone = 0 /\ job'[a].todo = {}
  <2>1. Goto(a, Idle) /\ a \in Actors
    BY DEF QueryFails, Actors
  <2> QED
    BY <2>1, IdleIs
<1>2. /\ job[a].gone \in Nat /\ (~lowered' => ~lowered /\ job[a].gone = 0)
      /\ ~raced' => ~raced /\ job[a].pc \notin Deletions
  <2>1. job[a].gone \in Nat
    BY DEF TypeOK, Jobs
  <2>2. (~lowered' => ~lowered /\ ~(job[a].gone > 0)) /\ (~raced' => ~raced /\ ~Deleting(a))
    BY Zenon DEF QueryFails
  <2> QED
    BY <2>1, <2>2 DEF Deleting
<1>3. raced' \in BOOLEAN /\ lowered' \in BOOLEAN
  <2>1. raced' = (raced \/ Deleting(a)) /\ lowered' = (lowered \/ job[a].gone > 0)
    BY DEF QueryFails
  <2> QED
    BY <2>1, Zenon DEF TypeOK
<1>4. TypeOK'
  BY <1>1, <1>2, <1>3 DEF QueryFails, At, tables, TypeOK, Spend
<1>5. IsFiniteSet(entries') /\ entries' \subseteq stored'
  BY <1>1, <1>2, <1>3 DEF QueryFails, At, tables, Spend
<1>6. Shape'
  BY <1>1, <1>2, <1>3 DEF QueryFails, At, tables, Shape, Actors, Spend
<1>7. ASSUME ~raced' PROVE Calm'
  <2>1. ~raced /\ Calm
    BY <1>7 DEF QueryFails, At, tables, Calm, Spend
  <2>2. Ordered'
    BY <2>1, <1>7, <1>1, <1>2, <1>3 DEF QueryFails, At, tables, Calm, Ordered, Spend
  <2>3. DeletesAlone'
    BY <2>1, <1>7, <1>1, <1>2, <1>3 DEF QueryFails, At, tables, Calm, DeletesAlone,
       Actors, Deletions, Spend
  <2>4. OldestRead'
    BY <2>1, <1>7, <1>1, <1>2, <1>3 DEF QueryFails, At, tables, Calm, OldestRead, Actors,
       Spend
  <2>5. GoneBelow'
    BY <2>1, <1>7, <1>1, <1>2, <1>3 DEF QueryFails, At, tables, Calm, GoneBelow, Spend
  <2>6. PruneRead'
    BY <2>1, <1>7, <1>1, <1>2, <1>3 DEF QueryFails, At, tables, Calm, PruneRead, Actors,
       Spend
  <2>7. MarkBelow'
    BY <2>1, <1>7, <1>1, <1>2, <1>3 DEF QueryFails, At, tables, Calm, MarkBelow, Actors,
       Deletions, Spend
  <2>8. RingThere'
    BY <2>1, <1>7, <1>1, <1>2, <1>3 DEF QueryFails, At, tables, Calm, RingThere, Actors,
       Spend
  <2>9. MarkRead'
    BY <2>1, <1>7, <1>1, <1>2, <1>3 DEF QueryFails, At, tables, Calm, MarkRead, Spend
  <2>10. Answered'
    BY <2>1, <1>7, <1>1, <1>2, <1>3 DEF QueryFails, At, tables, Calm, Answered, Spend
  <2>11. ~lowered' => Covered'
    BY <2>1, <1>7, <1>1, <1>2, <1>3 DEF QueryFails, At, tables, Calm, Covered, Spend
  <2> QED
    BY <2>2, <2>3, <2>4, <2>5, <2>6, <2>7, <2>8, <2>9, <2>10, <2>11 DEF Calm
<1> QED
  BY <1>4, <1>5, <1>6, <1>7

\* ListForRetention keeps the invariant.
LEMMA ListForRetentionInv ==
  ASSUME IInv, ListForRetention
  PROVE  IInv'
<1> USE RingAssumption DEF IInv
<1>1. /\ job' \in [Actors -> Jobs] /\ Pruner \in Actors
      /\ \A b \in Actors \ {Pruner} : job'[b] = job[b]
      /\ job'[Pruner].pc = "prune" /\ job'[Pruner].gone = 0 /\ job'[Pruner].todo = entries
  <2> DEFINE j == [Idle EXCEPT !.pc = "prune", !.todo = entries]
  <2>1. Pruner \in Actors /\ Goto(Pruner, j)
    BY DEF ListForRetention, Actors
  <2>2. j \in Jobs
    BY DEF TypeOK, Jobs, Steps, Idle
  <2>3. job'[Pruner] = j /\ job' \in [Actors -> Jobs] /\ \A b \in Actors \ {Pruner} : job'[b] = job[b]
    <3> HIDE DEF j
    <3> QED
      BY <2>1, <2>2, GotoIs
  <2> QED
    BY <2>1, <2>3 DEF Idle
<1>2. ~raced' => ~raced /\ \A b \in Actors \ {Pruner} : job[b].pc \notin Deletions
  <2>1. ~raced' => ~raced /\ ~Crosses(Pruner, FALSE)
    BY Zenon DEF ListForRetention
  <2> QED
    BY <2>1 DEF Crosses, At, Deleting, Deletions
<1>3. TypeOK'
  BY <1>1, <1>2 DEF ListForRetention, At, tables, TypeOK, Spend
<1>4. IsFiniteSet(entries') /\ entries' \subseteq stored'
  BY <1>1, <1>2 DEF ListForRetention, At, tables, Spend
<1>5. Shape'
  BY <1>1, <1>2 DEF ListForRetention, At, tables, Shape, Actors, Deletions, Spend
<1>6. ASSUME ~raced' PROVE Calm'
  <2>1. ~raced /\ Calm
    BY <1>6 DEF ListForRetention, At, tables, Calm, Spend
  <2>2. /\ UNCHANGED <<ring, mark, entries, reply, stored, lowered>>
        /\ Pruner \in Actors /\ job[Pruner].gone = 0 /\ job'[Pruner].gone = 0 /\ job[Pruner].pc \notin Deletions
        /\ job'[Pruner].pc \notin Deletions \cup {"evict", "deleteThrough", "writeMark"}
        /\ job'[Pruner].pc \in {"insertEntry", "count"} => ring
    BY <2>1, <1>1, <1>2 DEF ListForRetention, At, tables, Shape, Actors, Deletions, Spend
  <2>3. Pruner = Pruner => job'[Pruner].todo \subseteq stored
    BY <2>1, <1>1, <1>2 DEF ListForRetention, At, tables, Calm, PruneRead, Spend
  <2>4. job[Pruner].pc = "idle" => \A b \in Actors : job[b].pc \notin Deletions
    BY <2>1, <1>6, <1>1, <1>2 DEF ListForRetention, At, tables, history, Crosses,
       Deleting, Actors, Deletions, Spend
  <2> QED
    BY <2>1, <2>2, <2>3, <2>4, <1>1, <1>2, QuietStep
<1> QED
  BY <1>3, <1>4, <1>5, <1>6

\* StopPass keeps the invariant.
LEMMA StopPassInv ==
  ASSUME IInv, StopPass
  PROVE  IInv'
<1> USE RingAssumption DEF IInv
<1>1. Pruner \in Actors
  BY DEF Actors
<1>2. /\ job' \in [Actors -> Jobs]
      /\ \A b \in Actors \ {Pruner} : job'[b] = job[b]
      /\ job'[Pruner].pc = "idle" /\ job'[Pruner].seq = 0 /\ job'[Pruner].over = 0
      /\ job'[Pruner].low = 0 /\ job'[Pruner].gone = 0 /\ job'[Pruner].todo = {}
  <2>1. Goto(Pruner, Idle) /\ Pruner \in Actors
    BY DEF StopPass, Actors
  <2> QED
    BY <2>1, IdleIs
<1>3. TypeOK'
  BY <1>1, <1>2 DEF StopPass, At, tables, history, TypeOK
<1>4. IsFiniteSet(entries') /\ entries' \subseteq stored'
  BY <1>1, <1>2 DEF StopPass, At, tables, history
<1>5. Shape'
  BY <1>1, <1>2 DEF StopPass, At, tables, history, Shape, Actors
<1>6. ASSUME ~raced' PROVE Calm'
  <2>1. ~raced /\ Calm
    BY <1>6 DEF StopPass, At, tables, history, Calm
  <2>2. /\ UNCHANGED <<ring, mark, entries, reply, stored, lowered>>
        /\ Pruner \in Actors /\ job[Pruner].gone = 0 /\ job'[Pruner].gone = 0 /\ job[Pruner].pc \notin Deletions
        /\ job'[Pruner].pc \notin Deletions \cup {"evict", "deleteThrough", "writeMark"}
        /\ job'[Pruner].pc \in {"insertEntry", "count"} => ring
    BY <2>1, <1>1, <1>2 DEF StopPass, At, tables, history, Shape, Actors, Deletions
  <2>3. Pruner = Pruner => job'[Pruner].todo \subseteq stored
    BY <2>1, <1>1, <1>2 DEF StopPass, At, tables, history, Calm, PruneRead
  <2>4. job[Pruner].pc = "idle" => \A b \in Actors : job[b].pc \notin Deletions
    BY <2>1, <1>6, <1>1, <1>2 DEF StopPass, At, tables, history, Crosses, Deleting, Actors
  <2> QED
    BY <2>1, <2>2, <2>3, <2>4, <1>1, <1>2, QuietStep
<1> QED
  BY <1>3, <1>4, <1>5, <1>6

\* ReadToDelete keeps the invariant.
LEMMA ReadToDeleteInv ==
  ASSUME IInv, ReadToDelete
  PROVE  IInv'
<1> USE RingAssumption DEF IInv
<1>1. /\ job' \in [Actors -> Jobs] /\ Pruner \in Actors
      /\ \A b \in Actors \ {Pruner} : job'[b] = job[b]
      /\ job[Pruner].pc = "prune" /\ job'[Pruner].todo \subseteq job[Pruner].todo
      /\ \/ job'[Pruner].pc = "prune" /\ job'[Pruner].gone = job[Pruner].gone
         \/ /\ job'[Pruner].pc = "deleteThrough" /\ job'[Pruner].seq \in job[Pruner].todo
            /\ job'[Pruner].gone \in entries /\ job'[Pruner].gone <= job'[Pruner].seq
            /\ \A e \in entries : e <= job'[Pruner].seq => e <= job'[Pruner].gone
  <2> DEFINE todo == job[Pruner].todo
             through == Least(todo)
             rest == todo \ {through}
             D == {n \in entries : n <= through}
             j == [job[Pruner] EXCEPT !.todo = rest]
             k == [job[Pruner] EXCEPT !.pc = "deleteThrough", !.seq = through,
                                      !.gone = Greatest(D), !.todo = rest]
  <2>1. /\ Pruner \in Actors /\ job[Pruner] \in Jobs /\ job[Pruner].pc = "prune"
        /\ todo \in SUBSET (Nat \ {0}) /\ todo # {}
        /\ entries \in SUBSET (Nat \ {0})
    BY DEF TypeOK, Jobs, Actors, ReadToDelete, At
  <2>2. through \in todo /\ through \in Nat /\ rest \in SUBSET (Nat \ {0}) /\ rest \subseteq todo
    BY <2>1, LeastIs
  <2>3. IF D = {} THEN Goto(Pruner, j) ELSE Goto(Pruner, k)
    BY DEF ReadToDelete
  <2>4. CASE D = {}
    <3>1. j \in Jobs
      <4> HIDE DEF through, rest
      <4> QED
        BY <2>1, <2>2 DEF Jobs
    <3>2. job'[Pruner] = j /\ job' \in [Actors -> Jobs] /\ \A b \in Actors \ {Pruner} : job'[b] = job[b]
      <4> HIDE DEF j, D
      <4> QED
        BY <2>1, <2>3, <2>4, <3>1, GotoIs
    <3> HIDE DEF through, rest
    <3> QED
      BY <2>1, <2>2, <3>2 DEF Jobs
  <2>5. CASE D # {}
    <3>1. Greatest(D) \in D /\ \A m \in D : m <= Greatest(D)
      BY <2>1, <2>2, <2>5, GreatestIs
    <3>2. Greatest(D) \in Nat /\ Greatest(D) \in entries /\ Greatest(D) <= through
      BY <2>1, <3>1
    <3>3. \A e \in entries : e <= through => e <= Greatest(D)
      BY <3>1
    <3> DEFINE g == Greatest(D)
    <3>4. k \in Jobs
      <4> HIDE DEF through, rest, g, D
      <4> QED
        BY <2>1, <2>2, <3>2 DEF Jobs, Steps
    <3>5. job'[Pruner] = k /\ job' \in [Actors -> Jobs] /\ \A b \in Actors \ {Pruner} : job'[b] = job[b]
      <4> HIDE DEF k, D
      <4> QED
        BY <2>1, <2>3, <2>5, <3>4, GotoIs
    <3> HIDE DEF through, rest, D
    <3> QED
      BY <2>1, <2>2, <3>2, <3>3, <3>5 DEF Jobs
  <2> QED
    BY <2>4, <2>5
<1>2. TypeOK'
  BY <1>1 DEF ReadToDelete, At, tables, history, TypeOK
<1>3. IsFiniteSet(entries') /\ entries' \subseteq stored'
  BY <1>1 DEF ReadToDelete, At, tables, history
<1>4. Shape'
  BY <1>1 DEF ReadToDelete, At, tables, history, Shape, Actors, Deletions, TypeOK
<1>5. ASSUME ~raced' PROVE Calm'
  <2>1. ~raced /\ Calm
    BY <1>5 DEF ReadToDelete, At, tables, history, Calm
  <2>2. Ordered'
    BY <2>1, <1>5, <1>1 DEF ReadToDelete, At, tables, history, Calm, Ordered
  <2>3. DeletesAlone'
    BY <2>1, <1>5, <1>1 DEF ReadToDelete, At, tables, history, Calm, DeletesAlone, Actors,
       Deletions
  <2>4. OldestRead'
    BY <2>1, <1>5, <1>1 DEF ReadToDelete, At, tables, history, Calm, OldestRead, Actors
  <2>5. GoneBelow'
    BY <2>1, <1>5, <1>1 DEF ReadToDelete, At, tables, history, Calm, GoneBelow,
       DeletesAlone, OldestRead, PruneRead, RingThere, Ordered, Actors, Deletions
  <2>6. PruneRead'
    BY <2>1, <1>5, <1>1 DEF ReadToDelete, At, tables, history, Calm, PruneRead
  <2>7. MarkBelow'
    BY <2>1, <1>5, <1>1 DEF ReadToDelete, At, tables, history, Calm, MarkBelow
  <2>8. RingThere'
    BY <2>1, <1>5, <1>1 DEF ReadToDelete, At, tables, history, Calm, RingThere, Actors,
       Deletions
  <2>9. MarkRead'
    BY <2>1, <1>5, <1>1 DEF ReadToDelete, At, tables, history, Calm, MarkRead
  <2>10. Answered'
    BY <2>1, <1>5, <1>1 DEF ReadToDelete, At, tables, history, Calm, Answered
  <2>11. ~lowered' => Covered'
    BY <2>1, <1>5, <1>1 DEF ReadToDelete, At, tables, history, Calm, Covered, Actors,
       Deletions, Shape
  <2> QED
    BY <2>2, <2>3, <2>4, <2>5, <2>6, <2>7, <2>8, <2>9, <2>10, <2>11 DEF Calm
<1> QED
  BY <1>2, <1>3, <1>4, <1>5

\* DeleteThrough keeps the invariant.
LEMMA DeleteThroughInv ==
  ASSUME IInv, DeleteThrough
  PROVE  IInv'
<1> USE RingAssumption DEF IInv
<1>1. /\ job' \in [Actors -> Jobs]
      /\ \A b \in Actors \ {Pruner} : job'[b] = job[b]
      /\ job'[Pruner].pc = "readMark" /\ job'[Pruner].seq = job[Pruner].seq /\ job'[Pruner].over = job[Pruner].over
      /\ job'[Pruner].low = job[Pruner].low /\ job'[Pruner].gone = job[Pruner].gone /\ job'[Pruner].todo = job[Pruner].todo
  <2>1. Step(Pruner, "readMark") /\ Pruner \in Actors /\ "readMark" \in Steps
    BY DEF DeleteThrough, Steps, Actors, Deletions
  <2> QED
    BY <2>1, StepIs
<1>2. /\ job[Pruner].pc = "deleteThrough" /\ job[Pruner].gone > 0 /\ Pruner \in Actors
      /\ entries' = entries \ {n \in entries : n <= job[Pruner].seq}
      /\ UNCHANGED <<session, counter, ring, mark, stored, raced, lowered, failed, left>>
  BY DEF DeleteThrough, At, history, Shape, Actors
<1>3. /\ reply' \in [pc : {"none", "marked", "answered"}, since : Nat, mark : Nat,
                     entries : SUBSET Nat, missed : SUBSET Nat, clean : BOOLEAN]
      /\ reply'.pc = reply.pc /\ reply'.mark = reply.mark
      /\ reply'.entries = reply.entries /\ reply'.missed = reply.missed
      /\ reply'.clean => reply.clean
      /\ reply'.clean => (reply.pc = "marked" => {n \in entries : n <= job[Pruner].seq} = {})
  <2>1. Dropped({n \in entries : n <= job[Pruner].seq})
    BY DEF DeleteThrough
  <2> QED
    BY <2>1, DroppedIs
<1>4. IsFiniteSet(entries')
  BY <1>2, FS_Subset
<1>5. TypeOK'
  BY <1>1, <1>2, <1>3, <1>4 DEF TypeOK
<1>6. IsFiniteSet(entries') /\ entries' \subseteq stored'
  BY <1>1, <1>2, <1>3, <1>4
<1>7. Shape'
  BY <1>1, <1>2, <1>3, <1>4 DEF Shape, Actors, Deletions
<1>8. ASSUME ~raced' PROVE Calm'
  <2>1. ~raced /\ Calm
    BY <1>8, <1>1, <1>2, <1>3, <1>4 DEF Calm
  <2> DEFINE t == job[Pruner].seq
             g == job[Pruner].gone
  <2>2. /\ t \in stored /\ g <= t /\ g \in stored /\ ring
        /\ \A e \in entries : e <= t => e <= g
    BY <1>2, <2>1 DEF Calm, PruneRead, GoneBelow, Actors
  <2>3. entries \subseteq Nat \ {0} /\ stored \subseteq Nat \ {0} /\ entries \subseteq stored
    BY DEF TypeOK
  <2>4. t \in Nat /\ g \in Nat
    BY <2>2, <2>3
  <2>5. ASSUME NEW e \in entries' PROVE e \in entries /\ t < e /\ g < e
    <3>1. e \in entries /\ ~(e <= t) /\ e \in Nat
      BY <1>2, <2>3
    <3> QED
      BY <2>2, <2>4, <3>1
  <2>6. ASSUME NEW d \in stored' \ entries' PROVE d \in stored \ entries \/ (d \in entries /\ d <= t)
    BY <1>2
  <2>7. Ordered'
    <3> SUFFICES ASSUME NEW d \in stored' \ entries', NEW e \in entries' PROVE d < e
      BY DEF Ordered
    <3>1. CASE d \in stored \ entries
      BY <2>1, <2>5, <3>1 DEF Calm, Ordered
    <3>2. CASE d \in entries /\ d <= t
      <4>1. d \in Nat /\ e \in Nat /\ t < e
        BY <2>3, <2>5, <3>2
      <4> QED
        BY <2>4, <3>2, <4>1
    <3> QED
      BY <2>6, <3>1, <3>2
  <2>8. DeletesAlone' /\ RingThere'
    BY <1>1, <1>2, <2>1, <2>2 DEF Calm, DeletesAlone, RingThere, Actors, Deletions
  <2>9. OldestRead'
    <3> SUFFICES ASSUME NEW s \in Sockets, job'[s].pc = "evict"
                 PROVE  /\ job'[s].low \in stored' /\ job'[s].gone < job'[s].low
                        /\ \A e \in entries' : job'[s].low <= e
      BY DEF OldestRead
    <3>1. s # Pruner /\ job'[s] = job[s]
      BY <1>1 DEF Actors
    <3> QED
      BY <1>2, <2>1, <2>5, <3>1 DEF Calm, OldestRead
  <2>10. GoneBelow'
    <3> SUFFICES ASSUME NEW a \in Actors, job'[a].gone > 0
                 PROVE  /\ job'[a].gone \in stored' /\ ring'
                        /\ job'[a].pc # "deleteThrough" => \A e \in entries' : job'[a].gone < e
      BY DEF GoneBelow
    <3>1. CASE a = Pruner
      BY <1>1, <1>2, <2>2, <2>5, <3>1
    <3>2. CASE a # Pruner
      BY <1>1, <1>2, <2>1, <2>5, <3>2 DEF Calm, GoneBelow
    <3> QED
      BY <3>1, <3>2
  <2>11. PruneRead' /\ MarkBelow'
    BY <1>1, <1>2, <2>1, <2>5 DEF Calm, PruneRead, MarkBelow, Actors
  <2>12. MarkRead'
    <3> SUFFICES ASSUME reply.pc = "marked" PROVE MarkRead'
      BY <1>3 DEF MarkRead
    <3>1. reply'.clean => reply.clean /\ entries' = entries
      BY <1>2, <1>3
    <3> QED
      BY <1>2, <1>3, <2>1, <2>5, <3>1 DEF Calm, MarkRead
  <2>13. Answered'
    BY <1>2, <1>3, <2>1 DEF Calm, Answered
  <2>14. ASSUME ~lowered' PROVE Covered'
    <3> SUFFICES ASSUME NEW d \in stored' \ entries'
                 PROVE  d <= mark' \/ \E a \in Actors : job'[a].gone > 0 /\ d <= job'[a].gone
      BY DEF Covered
    <3>1. \A a \in Actors : job'[a].gone = job[a].gone
      BY <1>1
    <3>2. CASE d \in entries /\ d <= t
      BY <1>2, <2>2, <3>1, <3>2 DEF Actors
    <3>3. CASE d \in stored \ entries
      BY <1>2, <2>1, <2>14, <3>1, <3>3 DEF Calm, Covered
    <3> QED
      BY <2>6, <3>2, <3>3
  <2> QED
    BY <2>7, <2>8, <2>9, <2>10, <2>11, <2>12, <2>13, <2>14 DEF Calm
<1> QED
  BY <1>5, <1>6, <1>7, <1>8

\* ReadMark keeps the invariant.
LEMMA ReadMarkInv ==
  ASSUME IInv, ReadMark
  PROVE  IInv'
<1> USE RingAssumption DEF IInv
<1>1. /\ job' \in [Actors -> Jobs] /\ Pruner \in Actors
      /\ \A b \in Actors \ {Pruner} : job'[b] = job[b]
      /\ job[Pruner].pc = "readMark" /\ job'[Pruner].pc = "writeMark" /\ job'[Pruner].low = mark
      /\ job'[Pruner].gone = job[Pruner].gone /\ job'[Pruner].todo = job[Pruner].todo
  <2> DEFINE j == [job[Pruner] EXCEPT !.pc = "writeMark", !.low = mark]
  <2>1. Pruner \in Actors /\ Goto(Pruner, j) /\ job[Pruner].pc = "readMark"
    BY DEF ReadMark, Actors, At
  <2>2. job[Pruner] \in Jobs
    BY <2>1 DEF TypeOK
  <2>3. j \in Jobs
    BY <2>2 DEF TypeOK, Jobs, Steps
  <2>4. job'[Pruner] = j /\ job' \in [Actors -> Jobs] /\ \A b \in Actors \ {Pruner} : job'[b] = job[b]
    <3> HIDE DEF j
    <3> QED
      BY <2>1, <2>3, GotoIs
  <2> QED
    BY <2>1, <2>2, <2>4 DEF Jobs
<1>2. TypeOK'
  BY <1>1 DEF ReadMark, At, tables, history, TypeOK
<1>3. IsFiniteSet(entries') /\ entries' \subseteq stored'
  BY <1>1 DEF ReadMark, At, tables, history
<1>4. Shape'
  BY <1>1 DEF ReadMark, At, tables, history, Shape, Actors, Deletions
<1>5. ASSUME ~raced' PROVE Calm'
  <2>1. ~raced /\ Calm
    BY <1>5 DEF ReadMark, At, tables, history, Calm
  <2>2. Ordered'
    BY <2>1, <1>5, <1>1 DEF ReadMark, At, tables, history, Calm, Ordered
  <2>3. DeletesAlone'
    BY <2>1, <1>5, <1>1 DEF ReadMark, At, tables, history, Calm, DeletesAlone, Actors,
       Deletions
  <2>4. OldestRead'
    BY <2>1, <1>5, <1>1 DEF ReadMark, At, tables, history, Calm, OldestRead, Actors
  <2>5. GoneBelow'
    BY <2>1, <1>5, <1>1 DEF ReadMark, At, tables, history, Calm, GoneBelow
  <2>6. PruneRead'
    BY <2>1, <1>5, <1>1 DEF ReadMark, At, tables, history, Calm, PruneRead, DeletesAlone,
       MarkBelow, GoneBelow, Ordered, Actors, Deletions
  <2>7. MarkBelow'
    BY <2>1, <1>5, <1>1 DEF ReadMark, At, tables, history, Calm, MarkBelow
  <2>8. RingThere'
    BY <2>1, <1>5, <1>1 DEF ReadMark, At, tables, history, Calm, RingThere, Actors,
       Deletions
  <2>9. MarkRead'
    BY <2>1, <1>5, <1>1 DEF ReadMark, At, tables, history, Calm, MarkRead
  <2>10. Answered'
    BY <2>1, <1>5, <1>1 DEF ReadMark, At, tables, history, Calm, Answered
  <2>11. ~lowered' => Covered'
    BY <2>1, <1>5, <1>1 DEF ReadMark, At, tables, history, Calm, Covered
  <2> QED
    BY <2>2, <2>3, <2>4, <2>5, <2>6, <2>7, <2>8, <2>9, <2>10, <2>11 DEF Calm
<1> QED
  BY <1>2, <1>3, <1>4, <1>5

\* RaiseMark keeps the invariant.
LEMMA RaiseMarkInv ==
  ASSUME IInv, RaiseMark
  PROVE  IInv'
<1> USE RingAssumption DEF IInv
<1>1. /\ job' \in [Actors -> Jobs] /\ Pruner \in Actors
      /\ \A b \in Actors \ {Pruner} : job'[b] = job[b]
      /\ job[Pruner].pc = "writeMark" /\ job'[Pruner].pc = "prune" /\ job'[Pruner].gone = 0
      /\ job'[Pruner].todo = job[Pruner].todo
  <2> DEFINE j == [Idle EXCEPT !.pc = "prune", !.todo = job[Pruner].todo]
  <2>1. Pruner \in Actors /\ Goto(Pruner, j) /\ job[Pruner].pc = "writeMark"
    BY DEF RaiseMark, Actors, At
  <2>2. job[Pruner] \in Jobs
    BY <2>1 DEF TypeOK
  <2>3. j \in Jobs
    BY <2>2 DEF Jobs, Steps, Idle
  <2>4. job'[Pruner] = j /\ job' \in [Actors -> Jobs] /\ \A b \in Actors \ {Pruner} : job'[b] = job[b]
    <3> HIDE DEF j
    <3> QED
      BY <2>1, <2>3, GotoIs
  <2> QED
    BY <2>1, <2>4 DEF Idle
<1>2. /\ NextMark(job[Pruner]) \in {job[Pruner].low, job[Pruner].gone}
      /\ job[Pruner].low \in Nat /\ job[Pruner].gone \in Nat
      /\ job[Pruner].low <= NextMark(job[Pruner]) /\ job[Pruner].gone <= NextMark(job[Pruner])
  <2>1. job[Pruner].low \in Nat /\ job[Pruner].gone \in Nat
    BY DEF TypeOK, Jobs, Actors
  <2> QED
    BY <2>1 DEF NextMark, Higher
<1>3. /\ mark' = (IF ring THEN NextMark(job[Pruner]) ELSE mark)
      /\ UNCHANGED <<session, counter, ring, entries, reply, stored, raced, failed, left>>
      /\ ~lowered' => ~lowered /\ ~(NextMark(job[Pruner]) < mark)
  BY Zenon DEF RaiseMark
<1>4. mark' \in Nat
  BY <1>2, <1>3 DEF TypeOK
<1>5. lowered' \in BOOLEAN
  <2>1. lowered' = (lowered \/ NextMark(job[Pruner]) < mark)
    BY DEF RaiseMark
  <2> QED
    BY <2>1, Zenon DEF TypeOK
<1>6. TypeOK'
  BY <1>1, <1>2, <1>3, <1>4, <1>5 DEF TypeOK
<1>7. IsFiniteSet(entries') /\ entries' \subseteq stored'
  BY <1>1, <1>2, <1>3, <1>4, <1>5
<1>8. Shape'
  BY <1>1, <1>2, <1>3, <1>4, <1>5 DEF Shape, Actors, Deletions
<1>9. ASSUME ~raced' PROVE Calm'
  <2>1. ~raced /\ Calm
    BY <1>9, <1>1, <1>2, <1>3, <1>4, <1>5 DEF Calm
  <2>2. Ordered'
    BY <2>1, <1>9, <1>1, <1>2, <1>3, <1>4, <1>5 DEF Calm, Ordered
  <2>3. DeletesAlone'
    BY <2>1, <1>9, <1>1, <1>2, <1>3, <1>4, <1>5 DEF Calm, DeletesAlone, Actors, Deletions
  <2>4. OldestRead'
    BY <2>1, <1>9, <1>1, <1>2, <1>3, <1>4, <1>5 DEF Calm, OldestRead, Actors
  <2>5. GoneBelow'
    BY <2>1, <1>9, <1>1, <1>2, <1>3, <1>4, <1>5 DEF Calm, GoneBelow
  <2>6. PruneRead'
    BY <2>1, <1>9, <1>1, <1>2, <1>3, <1>4, <1>5 DEF Calm, PruneRead
  <2>7. MarkBelow'
    BY <2>1, <1>9, <1>1, <1>2, <1>3, <1>4, <1>5 DEF Calm, MarkBelow, DeletesAlone,
       GoneBelow, PruneRead, OldestRead, Ordered, Actors, Deletions
  <2>8. RingThere'
    BY <2>1, <1>9, <1>1, <1>2, <1>3, <1>4, <1>5 DEF Calm, RingThere, Actors, Deletions
  <2>9. MarkRead'
    BY <2>1, <1>9, <1>1, <1>2, <1>3, <1>4, <1>5 DEF Calm, MarkRead
  <2>10. Answered'
    BY <2>1, <1>9, <1>1, <1>2, <1>3, <1>4, <1>5 DEF Calm, Answered
  <2>11. ~lowered' => Covered'
    BY <2>1, <1>9, <1>1, <1>2, <1>3, <1>4, <1>5 DEF TypeOK, Calm, Covered, GoneBelow,
       OldestRead, PruneRead, DeletesAlone, RingThere, Shape, At, Actors, Deletions, Jobs,
       tables, history
  <2> QED
    BY <2>2, <2>3, <2>4, <2>5, <2>6, <2>7, <2>8, <2>9, <2>10, <2>11 DEF Calm
<1> QED
  BY <1>6, <1>7, <1>8, <1>9

\* ReadEvicted keeps the invariant.
LEMMA ReadEvictedInv ==
  ASSUME IInv, NEW since \in 0..MaxUpdates, ReadEvicted(since)
  PROVE  IInv'
<1> USE RingAssumption DEF IInv
<1>1. UNCHANGED <<session, counter, ring, mark, entries, job, stored, lowered, failed>> /\ reply.pc # "marked"
  BY DEF ReadEvicted, tables
<1>2. /\ reply' \in [pc : {"none", "marked", "answered"}, since : Nat, mark : Nat,
               entries : SUBSET Nat, missed : SUBSET Nat, clean : BOOLEAN]
      /\ reply'.pc = "marked" /\ reply'.mark = mark
      /\ reply'.clean => ~Unmarked
  <2>1. (~Unmarked) \in BOOLEAN
    BY Zenon DEF Unmarked
  <2>2. reply' = [pc |-> "marked", since |-> since, mark |-> mark, entries |-> {},
                  missed |-> {}, clean |-> ~Unmarked]
    BY DEF ReadEvicted
  <2>3. since \in Nat /\ mark \in Nat
    BY DEF TypeOK
  <2> HIDE DEF Unmarked
  <2> QED
    BY <2>1, <2>2, <2>3
<1>3. left' \in [{"updates", "others"} -> Nat]
  BY DEF ReadEvicted, Spend, TypeOK
<1>4. raced' \in BOOLEAN
  <2>1. raced' = (raced \/ \E a \in Actors : Deleting(a))
    BY DEF ReadEvicted
  <2> QED
    BY <2>1, Zenon DEF TypeOK
<1>5. ~raced' => ~raced /\ \A a \in Actors : job[a].pc \notin Deletions
  <2>1. ~raced' => ~raced /\ \A a \in Actors : ~Deleting(a)
    BY Zenon DEF ReadEvicted
  <2> QED
    BY <2>1 DEF Deleting
<1>6. \A a \in Actors : job[a].gone \in Nat
  BY DEF TypeOK, Jobs
<1>7. TypeOK'
  BY <1>1, <1>2, <1>3, <1>4, <1>5, <1>6 DEF TypeOK, Unmarked
<1>8. IsFiniteSet(entries') /\ entries' \subseteq stored'
  BY <1>1, <1>2, <1>3, <1>4, <1>5, <1>6 DEF Unmarked
<1>9. Shape'
  BY <1>1, <1>2, <1>3, <1>4, <1>5, <1>6 DEF Shape, Unmarked
<1>10. ASSUME ~raced' PROVE Calm'
  <2>1. ~raced /\ Calm
    BY <1>10, <1>1, <1>2, <1>3, <1>4, <1>5, <1>6 DEF Calm, Unmarked
  <2>2. Ordered'
    BY <2>1, <1>10, <1>1, <1>2, <1>3, <1>4, <1>5, <1>6 DEF Calm, Ordered, Unmarked
  <2>3. DeletesAlone'
    BY <2>1, <1>10, <1>1, <1>2, <1>3, <1>4, <1>5, <1>6 DEF Calm, DeletesAlone, Unmarked
  <2>4. OldestRead'
    BY <2>1, <1>10, <1>1, <1>2, <1>3, <1>4, <1>5, <1>6 DEF Calm, OldestRead, Unmarked
  <2>5. GoneBelow'
    BY <2>1, <1>10, <1>1, <1>2, <1>3, <1>4, <1>5, <1>6 DEF Calm, GoneBelow, Unmarked
  <2>6. PruneRead'
    BY <2>1, <1>10, <1>1, <1>2, <1>3, <1>4, <1>5, <1>6 DEF Calm, PruneRead, Unmarked
  <2>7. MarkBelow'
    BY <2>1, <1>10, <1>1, <1>2, <1>3, <1>4, <1>5, <1>6 DEF Calm, MarkBelow, Unmarked
  <2>8. RingThere'
    BY <2>1, <1>10, <1>1, <1>2, <1>3, <1>4, <1>5, <1>6 DEF Calm, RingThere, Unmarked
  <2>9. MarkRead'
    BY <2>1, <1>10, <1>1, <1>2, <1>3, <1>4, <1>5, <1>6 DEF Calm, MarkRead, DeletesAlone,
       MarkBelow, Covered, Ordered, Actors, Deletions, Unmarked
  <2>10. Answered'
    BY <2>1, <1>10, <1>1, <1>2, <1>3, <1>4, <1>5, <1>6 DEF Calm, Answered, Unmarked
  <2>11. ~lowered' => Covered'
    BY <2>1, <1>10, <1>1, <1>2, <1>3, <1>4, <1>5, <1>6 DEF Calm, Covered, Unmarked
  <2> QED
    BY <2>2, <2>3, <2>4, <2>5, <2>6, <2>7, <2>8, <2>9, <2>10, <2>11 DEF Calm
<1> QED
  BY <1>7, <1>8, <1>9, <1>10

\* ReadEntries keeps the invariant.
LEMMA ReadEntriesInv ==
  ASSUME IInv, ReadEntries
  PROVE  IInv'
<1> USE RingAssumption DEF IInv
<1>1. UNCHANGED <<session, counter, ring, mark, entries, job, stored, raced, lowered, failed, left>> /\ reply.pc = "marked"
  BY DEF ReadEntries, tables, history
<1>2. /\ reply' \in [pc : {"none", "marked", "answered"}, since : Nat, mark : Nat,
               entries : SUBSET Nat, missed : SUBSET Nat, clean : BOOLEAN]
      /\ reply'.pc = "answered" /\ reply'.mark = reply.mark /\ reply'.clean = reply.clean
      /\ reply'.entries \subseteq entries
      /\ reply'.missed \subseteq {n \in stored \ entries : n > reply.mark}
  BY DEF ReadEntries, TypeOK
<1>3. TypeOK'
  BY <1>1, <1>2 DEF TypeOK
<1>4. IsFiniteSet(entries') /\ entries' \subseteq stored'
  BY <1>1, <1>2
<1>5. Shape'
  BY <1>1, <1>2 DEF Shape
<1>6. ASSUME ~raced' PROVE Calm'
  <2>1. ~raced /\ Calm
    BY <1>6, <1>1, <1>2 DEF Calm
  <2>2. Ordered'
    BY <2>1, <1>6, <1>1, <1>2 DEF Calm, Ordered
  <2>3. DeletesAlone'
    BY <2>1, <1>6, <1>1, <1>2 DEF Calm, DeletesAlone
  <2>4. OldestRead'
    BY <2>1, <1>6, <1>1, <1>2 DEF Calm, OldestRead
  <2>5. GoneBelow'
    BY <2>1, <1>6, <1>1, <1>2 DEF Calm, GoneBelow
  <2>6. PruneRead'
    BY <2>1, <1>6, <1>1, <1>2 DEF Calm, PruneRead
  <2>7. MarkBelow'
    BY <2>1, <1>6, <1>1, <1>2 DEF Calm, MarkBelow
  <2>8. RingThere'
    BY <2>1, <1>6, <1>1, <1>2 DEF Calm, RingThere
  <2>9. MarkRead'
    BY <2>1, <1>6, <1>1, <1>2 DEF Calm, MarkRead
  <2>10. Answered'
    BY <2>1, <1>6, <1>1, <1>2 DEF Calm, Answered, MarkRead, Actors, Deletions
  <2>11. ~lowered' => Covered'
    BY <2>1, <1>6, <1>1, <1>2 DEF Calm, Covered
  <2> QED
    BY <2>2, <2>3, <2>4, <2>5, <2>6, <2>7, <2>8, <2>9, <2>10, <2>11 DEF Calm
<1> QED
  BY <1>3, <1>4, <1>5, <1>6

\* The invariant holds at first.
LEMMA InitInv == Init => IInv
<1> SUFFICES ASSUME Init PROVE IInv
  OBVIOUS
<1> USE RingAssumption
<1>1. Idle \in Jobs
  BY DEF Idle, Jobs, Steps
<1>2. job \in [Actors -> Jobs] /\ \A a \in Actors : job[a] = Idle
  BY <1>1 DEF Init
<1>3. \A a \in Actors : job[a].pc = "idle" /\ job[a].gone = 0 /\ job[a].todo = {}
  BY <1>2 DEF Idle
<1>4. session \in BOOLEAN /\ ring \in BOOLEAN /\ raced \in BOOLEAN /\ lowered \in BOOLEAN /\ failed \in BOOLEAN
  BY Zenon DEF Init
<1>5. left \in [{"updates", "others"} -> Nat]
  BY DEF Init
<1>6. TypeOK
  BY <1>2, <1>4, <1>5 DEF Init, TypeOK, NoReply
<1>7. IsFiniteSet(entries) /\ entries \subseteq stored
  BY FS_EmptySet DEF Init
<1>8. Shape
  BY <1>3 DEF Shape, Actors, Deletions
<1>9. Calm
  BY <1>3 DEF Init, Calm, Ordered, DeletesAlone, OldestRead, GoneBelow, PruneRead, MarkBelow,
              RingThere, MarkRead, Answered, Covered, Actors, Deletions, NoReply
<1> QED
  BY <1>6, <1>7, <1>8, <1>9 DEF IInv

\* Every step keeps the invariant.
LEMMA NextInv == IInv /\ [Next]_vars => IInv'
<1> SUFFICES ASSUME IInv, [Next]_vars PROVE IInv'
  OBVIOUS
<1>1. ASSUME NEW s \in Sockets,
             Announce(s) \/ GetRecord(s) \/ ReadCounter(s) \/ WriteCounter(s) \/ (\E fits \in
           BOOLEAN : CheckQuota(s, fits)) \/ ReadRing(s) \/ InsertRing(s) \/
           InsertEntry(s) \/ Count(s) \/ ReadOldest(s) \/ Evict(s) \/
           WriteMark(s)
      PROVE  IInv'
  BY <1>1, AnnounceInv, GetRecordInv, ReadCounterInv, WriteCounterInv, CheckQuotaInv,
        ReadRingInv, InsertRingInv, InsertEntryInv, CountInv, ReadOldestInv, EvictInv,
        WriteMarkInv
<1>2. ASSUME NEW a \in Actors,
             BeginDelete(a) \/ DeleteEntries(a) \/ DeleteRing(a) \/ DeleteCounter(a) \/
           DeleteSession(a) \/ QueryFails(a)
      PROVE  IInv'
  BY <1>2, BeginDeleteInv, DeleteEntriesInv, DeleteRingInv, DeleteCounterInv,
        DeleteSessionInv, QueryFailsInv
<1>3. ASSUME ListForRetention \/ StopPass \/ ReadToDelete \/ DeleteThrough \/ ReadMark \/
           RaiseMark
      PROVE  IInv'
  BY <1>3, ListForRetentionInv, StopPassInv, ReadToDeleteInv, DeleteThroughInv,
        ReadMarkInv, RaiseMarkInv
<1>4. ASSUME NEW since \in 0..MaxUpdates,
             ReadEvicted(since)
      PROVE  IInv'
  BY <1>4, ReadEvictedInv
<1>5. ASSUME ReadEntries
      PROVE  IInv'
  BY <1>5, ReadEntriesInv
<1>6. CASE UNCHANGED vars
  <2>1. UNCHANGED <<session, counter, ring, mark, entries, job, reply, stored, raced, lowered, failed, left>>
    BY <1>6 DEF vars, tables, history
  <2>2. TypeOK' /\ Shape' /\ IsFiniteSet(entries') /\ entries' \subseteq stored'
    BY <2>1 DEF IInv, TypeOK, Shape
  <2>3. Calm' = Calm
    BY <2>1 DEF Calm, Ordered, DeletesAlone, OldestRead, GoneBelow, PruneRead, MarkBelow,
                RingThere, MarkRead, Answered, Covered
  <2> QED
    BY <2>1, <2>2, <2>3 DEF IInv
<1> QED
  BY <1>1, <1>2, <1>3, <1>4, <1>5, <1>6 DEF Next

\* The invariant holds throughout.
THEOREM RingInvariant == Spec => []IInv
<1> QED
  BY InitInv, NextInv, PTL DEF Spec

\* The tables, the jobs and the reply keep their types.
THEOREM TypeCorrect == Spec => []TypeOK
<1>1. IInv => TypeOK
  BY DEF IInv
<1> QED
  BY <1>1, RingInvariant, PTL

\* Pushes and prunes remove the oldest entries only, however their statements
\* interleave and wherever a query fails (pushRingEntry, pruneRingEntriesThrough).
THEOREM EvictsOldestFirst == Spec => []OldestFirst
<1>1. IInv => OldestFirst
  BY DEF IInv, Calm, Ordered, OldestFirst
<1> QED
  BY <1>1, RingInvariant, PTL

\* A resync answer does not contradict itself, and has no silent gap unless an
\* eviction met its two statements or a mark was lost (getEntriesSince).
THEOREM AnswersAreHonest == Spec => []AnswerHonest
<1>1. ASSUME IInv, reply.pc = "answered", ~raced
      PROVE  Marker \cap reply.entries = {} /\ (reply.clean /\ ~lowered => reply.missed = {})
  <2>1. Calm /\ reply.mark \in Nat /\ reply.since \in Nat /\ reply.entries \subseteq Nat
    BY <1>1 DEF IInv, TypeOK
  <2>2. \A e \in reply.entries : reply.mark < e
    BY <1>1, <2>1 DEF Calm, Answered
  <2>3. \A n \in Marker : n \in Int /\ n <= reply.mark
    BY <2>1 DEF Marker
  <2>4. Marker \cap reply.entries = {}
    BY <2>1, <2>2, <2>3
  <2> QED
    BY <1>1, <2>1, <2>4 DEF Calm, Answered
<1>2. IInv => AnswerHonest
  BY <1>1 DEF AnswerHonest
<1> QED
  BY <1>2, RingInvariant, PTL

-----------------------------------------------------------------------------
(* The capacity.  Of the pushes under way the one that counted last evicts   *)
(* enough: what is inserted later is counted later.                          *)

\* What push s has still to evict brings the ring down to its capacity; the entry
\* it is about to delete is one of them, unless another has deleted it.
Clears(s) ==
  /\ At(s, "readOldest") \/ At(s, "evict")
  /\ Cardinality(entries) <= Capacity + job[s].over
  /\ At(s, "evict") =>
       job[s].low \in entries \/ Cardinality(entries) < Capacity + job[s].over

\* Unless an entry has not been counted yet, the ring is within its capacity or some
\* push clears it.
Restored ==
  ~failed /\ (\A s \in Sockets : ~At(s, "count")) =>
    Cardinality(entries) <= Capacity \/ \E s \in Sockets : Clears(s)

\* Entries that others delete leave a push no more to evict.
LEMMA StillClears ==
  ASSUME IInv, NEW s \in Sockets, Clears(s), entries' \subseteq entries, job'[s] = job[s]
  PROVE  Clears(s)'
<1>1. /\ IsFiniteSet(entries) /\ IsFiniteSet(entries')
      /\ Cardinality(entries) \in Nat /\ Cardinality(entries') \in Nat
      /\ Cardinality(entries') <= Cardinality(entries)
  BY FS_Subset, FS_CardinalityType DEF IInv
<1>2. job[s].over \in Nat /\ Capacity \in Nat
  BY RingAssumption DEF IInv, TypeOK, Jobs, Actors
<1>3. job[s].low \in entries /\ job[s].low \notin entries'
        => Cardinality(entries') < Cardinality(entries)
  <2> SUFFICES ASSUME job[s].low \in entries, job[s].low \notin entries'
               PROVE  Cardinality(entries') < Cardinality(entries)
    OBVIOUS
  <2>1. entries' # entries
    OBVIOUS
  <2>2. Cardinality(entries') # Cardinality(entries)
    BY <1>1, <2>1, FS_Subset
  <2> QED
    BY <1>1, <2>2
<1> QED
  BY <1>1, <1>2, <1>3 DEF Clears, At

\* A step that adds no entry, of an actor that is not evicting, keeps the capacity
\* in sight.
LEMMA OtherStep ==
  ASSUME IInv, Restored, entries' \subseteq entries, failed => failed',
         \A s \in Sockets :
           job[s].pc \in {"count", "readOldest", "evict"} => job'[s] = job[s]
  PROVE  Restored'
<1> SUFFICES ASSUME ~failed', \A s \in Sockets : ~At(s, "count")'
             PROVE  Cardinality(entries') <= Capacity \/ \E s \in Sockets : Clears(s)'
  BY DEF Restored
<1>1. ~failed /\ \A s \in Sockets : ~At(s, "count")
  BY DEF At
<1>2. CASE Cardinality(entries) <= Capacity
  <2>1. /\ Cardinality(entries) \in Nat /\ Cardinality(entries') \in Nat
        /\ Cardinality(entries') <= Cardinality(entries) /\ Capacity \in Nat
    BY RingAssumption, FS_Subset, FS_CardinalityType DEF IInv
  <2> QED
    BY <1>2, <2>1
<1>3. ASSUME NEW s \in Sockets, Clears(s) PROVE Clears(s)'
  <2>1. job'[s] = job[s]
    BY <1>3 DEF Clears, At
  <2> QED
    BY <1>3, <2>1, StillClears
<1> QED
  BY <1>1, <1>2, <1>3 DEF Restored

\* A push counts the entries: it clears what is over.
LEMMA CountRestored ==
  ASSUME IInv, Restored, NEW s \in Sockets, Count(s)
  PROVE  Restored'
<1> DEFINE over == Cardinality(entries) - Capacity
           j == [job[s] EXCEPT !.pc = "readOldest", !.over = over]
<1>1. /\ s \in Actors /\ job[s] \in Jobs /\ over \in Int /\ entries' = entries
      /\ Cardinality(entries) \in Nat /\ Capacity \in Nat
  BY RingAssumption, FS_CardinalityType DEF IInv, TypeOK, Actors, Count, tables
<1>2. CASE over > 0
  <2>1. Goto(s, j)
    BY <1>2 DEF Count
  <2>2. j.pc = "readOldest" /\ j.over = over /\ job'[s] = j
    BY <1>1, <2>1 DEF Goto, IInv, TypeOK, Jobs
  <2>3. Clears(s)'
    BY <1>1, <2>2 DEF Clears, At
  <2> QED
    BY <2>3 DEF Restored
<1>3. CASE ~(over > 0)
  BY <1>1, <1>3 DEF Restored
<1> QED
  BY <1>2, <1>3

\* A push reads the oldest entry, or finds none.
LEMMA ReadOldestRestored ==
  ASSUME IInv, Restored, NEW s \in Sockets, ReadOldest(s)
  PROVE  Restored'
<1>1. s \in Actors /\ job[s] \in Jobs /\ job[s].pc = "readOldest" /\ entries' = entries /\ failed' = failed
  BY DEF IInv, TypeOK, Actors, ReadOldest, At, tables, history
<1>2. CASE entries = {}
  <2>1. Cardinality(entries') = 0 /\ Capacity \in Nat
    BY <1>1, <1>2, RingAssumption, FS_EmptySet
  <2> QED
    BY <2>1 DEF Restored
<1>3. CASE entries # {}
  <2> DEFINE j == [job[s] EXCEPT !.pc = "evict", !.low = Oldest]
  <2>1. Oldest \in entries
    BY <1>3, LeastIs DEF Oldest, IInv, TypeOK
  <2>2. Goto(s, j)
    BY <1>3 DEF ReadOldest
  <2>3. /\ job' = [job EXCEPT ![s] = j] /\ job'[s] = j
        /\ j.pc = "evict" /\ j.over = job[s].over /\ j.low = Oldest
    BY <1>1, <2>2 DEF Goto, IInv, TypeOK, Jobs
  <2>4. \A t \in Sockets \ {s} : job'[t] = job[t]
    <3> HIDE DEF j
    <3> QED
      BY <2>3 DEF IInv, TypeOK, Actors
  <2>5. Clears(s) => Clears(s)'
    BY <1>1, <2>1, <2>3 DEF Clears, At
  <2>6. \A t \in Sockets \ {s} : Clears(t) => Clears(t)'
    BY <1>1, <2>4, StillClears
  <2>7. (\A t \in Sockets : ~At(t, "count")') => \A t \in Sockets : ~At(t, "count")
    BY <1>1, <2>4 DEF At
  <2> QED
    BY <1>1, <2>5, <2>6, <2>7 DEF Restored
<1> QED
  BY <1>2, <1>3

\* A push deletes the entry it read; with the last one over its duty the ring is
\* within its capacity.
LEMMA EvictRestored ==
  ASSUME IInv, Restored, NEW s \in Sockets, Evict(s)
  PROVE  Restored'
<1> DEFINE n == job[s].low
           p == IF job[s].over > 1 THEN "readOldest" ELSE "writeMark"
           j == [job[s] EXCEPT !.pc = p, !.gone = n, !.over = @ - 1]
<1>1. /\ s \in Actors /\ job[s] \in Jobs /\ job[s].pc = "evict" /\ failed' = failed
      /\ job[s].over \in Nat /\ job[s].over > 0 /\ Capacity \in Nat
      /\ entries' = entries \ {n}
  BY RingAssumption DEF IInv, TypeOK, Actors, Evict, At, history, Shape, Jobs
<1>2. /\ IsFiniteSet(entries) /\ IsFiniteSet(entries')
      /\ Cardinality(entries) \in Nat /\ Cardinality(entries') \in Nat
      /\ Cardinality(entries') = IF n \in entries THEN Cardinality(entries) - 1
                                                  ELSE Cardinality(entries)
  BY <1>1, FS_RemoveElement, FS_CardinalityType DEF IInv
<1>3. Goto(s, j)
  BY DEF Evict
<1>4. /\ job' = [job EXCEPT ![s] = j] /\ job'[s] = j
      /\ j.pc = p /\ j.over = job[s].over - 1
  <2> HIDE DEF p
  <2> QED
    BY <1>1, <1>3 DEF Goto, IInv, TypeOK, Jobs
<1>5. \A t \in Sockets \ {s} : job'[t] = job[t]
  <2> HIDE DEF j
  <2> QED
    BY <1>4 DEF IInv, TypeOK, Actors
<1>6. Clears(s) => Cardinality(entries') <= Capacity \/ Clears(s)'
  <2> SUFFICES ASSUME Clears(s) PROVE Cardinality(entries') <= Capacity \/ Clears(s)'
    OBVIOUS
  <2>1. Cardinality(entries') <= Capacity + job[s].over - 1
    <3>1. Cardinality(entries) <= Capacity + job[s].over
      BY DEF Clears
    <3>2. n \in entries \/ Cardinality(entries) < Capacity + job[s].over
      BY <1>1 DEF Clears, At
    <3> QED
      BY <1>1, <1>2, <3>1, <3>2
  <2>2. CASE job[s].over > 1
    <3>1. job'[s].pc = "readOldest" /\ job'[s].over = job[s].over - 1
      BY <1>4, <2>2
    <3> QED
      BY <1>1, <1>2, <2>1, <3>1 DEF Clears, At
  <2>3. CASE ~(job[s].over > 1)
    BY <1>1, <1>2, <2>1, <2>3
  <2> QED
    BY <2>2, <2>3
<1>7. \A t \in Sockets \ {s} : Clears(t) => Clears(t)'
  BY <1>1, <1>5, StillClears
<1>8. (\A t \in Sockets : ~At(t, "count")') => \A t \in Sockets : ~At(t, "count")
  BY <1>1, <1>5 DEF At
<1>9. Cardinality(entries) <= Capacity => Cardinality(entries') <= Capacity
  BY <1>1, <1>2
<1> QED
  BY <1>1, <1>6, <1>7, <1>8, <1>9 DEF Restored

\* An entry is inserted, and not counted yet, or is there already.
LEMMA InsertEntryRestored ==
  ASSUME IInv, Restored, NEW s \in Sockets, InsertEntry(s)
  PROVE  Restored'
<1>1. s \in Actors /\ job[s] \in Jobs /\ job[s].pc = "insertEntry" /\ failed' = failed
  BY DEF IInv, TypeOK, Actors, InsertEntry, At
<1>2. CASE job[s].seq \in entries
  <2>1. entries' = entries /\ Goto(s, Idle)
    BY <1>2 DEF InsertEntry
  <2>2. \A t \in Sockets \ {s} : job'[t] = job[t]
    BY <1>1, <2>1, IdleIs DEF IInv, Actors
  <2> QED
    BY <1>1, <2>1, <2>2, OtherStep
<1>3. CASE job[s].seq \notin entries
  <2>1. Step(s, "count") /\ "count" \in Steps
    BY <1>3 DEF InsertEntry, Steps
  <2>2. At(s, "count")'
    BY <1>1, <2>1, StepIs DEF IInv, At
  <2> QED
    BY <2>2 DEF Restored
<1> QED
  BY <1>2, <1>3

\* Restored holds throughout.
LEMMA RestoredNext == IInv /\ Restored /\ [Next]_vars => Restored'
<1> SUFFICES ASSUME IInv, Restored, [Next]_vars PROVE Restored'
  OBVIOUS
<1> USE DEF tables, history
<1> DEFINE Busy == {"count", "readOldest", "evict"}
<1>1. ASSUME NEW a \in Actors, job[a].pc \notin Busy \/ a = Pruner, NEW j, Goto(a, j),
             entries' \subseteq entries, failed' = failed
      PROVE  Restored'
  <2>1. \A s \in Sockets : job[s].pc \in Busy => job'[s] = job[s]
    BY <1>1, RingAssumption DEF Goto, IInv, TypeOK, Actors
  <2> QED
    BY <1>1, <2>1, OtherStep
<1>2. ASSUME NEW s \in Sockets,
             Announce(s) \/ GetRecord(s) \/ ReadCounter(s) \/ WriteCounter(s)
             \/ (\E fits \in BOOLEAN : CheckQuota(s, fits))
             \/ ReadRing(s) \/ InsertRing(s) \/ WriteMark(s)
      PROVE  Restored'
  <2>1. CASE Announce(s)
    BY <2>1, OtherStep DEF Announce
  <2>2. CASE GetRecord(s)
    BY <1>1, <1>2, <2>2 DEF GetRecord, Step, At, Actors
  <2>3. CASE ReadCounter(s)
    BY <1>1, <1>2, <2>3 DEF ReadCounter, At, Actors
  <2>4. CASE WriteCounter(s)
    BY <1>1, <1>2, <2>4 DEF WriteCounter, Step, At, Actors
  <2>5. ASSUME NEW fits \in BOOLEAN, CheckQuota(s, fits) PROVE Restored'
    BY <1>1, <1>2, <2>5 DEF CheckQuota, Step, At, Actors
  <2>6. CASE ReadRing(s)
    BY <1>1, <1>2, <2>6 DEF ReadRing, Step, At, Actors
  <2>7. CASE InsertRing(s)
    BY <1>1, <1>2, <2>7 DEF InsertRing, Step, At, Actors
  <2>8. CASE WriteMark(s)
    BY <1>1, <1>2, <2>8 DEF WriteMark, At, Actors
  <2> QED
    BY <1>2, <2>1, <2>2, <2>3, <2>4, <2>5, <2>6, <2>7, <2>8
<1>3. ASSUME NEW a \in Actors,
             BeginDelete(a) \/ DeleteEntries(a) \/ DeleteRing(a) \/ DeleteCounter(a)
             \/ DeleteSession(a) \/ QueryFails(a)
      PROVE  Restored'
  <2>1. CASE BeginDelete(a)
    BY <1>1, <1>3, <2>1 DEF BeginDelete, Step, At
  <2>2. CASE DeleteEntries(a)
    BY <1>1, <1>3, <2>2 DEF DeleteEntries, Step, At
  <2>3. CASE DeleteRing(a)
    BY <1>1, <1>3, <2>3 DEF DeleteRing, Step, At
  <2>4. CASE DeleteCounter(a)
    BY <1>1, <1>3, <2>4 DEF DeleteCounter, Step, At
  <2>5. CASE DeleteSession(a)
    BY <1>1, <1>3, <2>5 DEF DeleteSession, At
  <2>6. CASE QueryFails(a)
    BY <2>6 DEF QueryFails, Restored
  <2> QED
    BY <1>3, <2>1, <2>2, <2>3, <2>4, <2>5, <2>6
<1>4. ASSUME ListForRetention \/ StopPass \/ ReadToDelete \/ DeleteThrough \/ ReadMark \/ RaiseMark
      PROVE  Restored'
  <2> Pruner \in Actors
    BY DEF Actors
  <2>1. CASE ListForRetention
    BY <1>1, <2>1 DEF ListForRetention
  <2>2. CASE StopPass
    BY <1>1, <2>2 DEF StopPass
  <2>3. CASE ReadToDelete
    BY <1>1, <2>3 DEF ReadToDelete
  <2>4. CASE DeleteThrough
    BY <1>1, <2>4 DEF DeleteThrough, Step
  <2>5. CASE ReadMark
    BY <1>1, <2>5 DEF ReadMark
  <2>6. CASE RaiseMark
    BY <1>1, <2>6 DEF RaiseMark
  <2> QED
    BY <1>4, <2>1, <2>2, <2>3, <2>4, <2>5, <2>6
<1>5. ASSUME NEW since \in 0..MaxUpdates, ReadEvicted(since) PROVE Restored'
  BY <1>5, OtherStep DEF ReadEvicted
<1>6. CASE ReadEntries
  BY <1>6, OtherStep DEF ReadEntries
<1>7. CASE UNCHANGED vars
  BY <1>7, OtherStep DEF vars
<1> QED
  BY <1>2, <1>3, <1>4, <1>5, <1>6, <1>7, InsertEntryRestored, CountRestored,
     ReadOldestRestored, EvictRestored DEF Next

\* However the statements of pushes, prunes and deletions interleave, the ring is
\* within its capacity once the node's sockets rest, unless a query failed
\* (pushRingEntry).
THEOREM CapacityRestored == Spec => []CapacityKept
<1>1. Init => Restored
  BY RingAssumption, FS_EmptySet DEF Init, Restored
<1>2. IInv /\ Restored => CapacityKept
  BY DEF Restored, CapacityKept, Clears, At
<1> QED
  BY <1>1, <1>2, RestoredNext, RingInvariant, PTL DEF Spec
===============================================================================

------------------------- MODULE SessionLaunchProofs -------------------------
(***************************************************************************)
(* Proofs about SessionLaunch, for every set of sessions and every cap.    *)
(***************************************************************************)
EXTENDS SessionLaunch, SequenceTheorems, FiniteSetTheorems, TLAPS

-----------------------------------------------------------------------------
\* What cancel's splice leaves: the other entries, in order.
LEMMA RemoveAtProperties ==
  ASSUME NEW S, NEW q \in Seq(S), NEW i \in DOMAIN q
  PROVE  /\ RemoveAt(q, i) \in Seq(S)
         /\ DOMAIN RemoveAt(q, i) = 1..(Len(q) - 1)
         /\ \A j \in 1..(Len(q) - 1) :
              RemoveAt(q, i)[j] = IF j < i THEN q[j] ELSE q[j + 1]
<1> DEFINE a == SubSeq(q, 1, i - 1)
           b == SubSeq(q, i + 1, Len(q))
<1>1. i \in 1..Len(q) /\ Len(q) \in Nat
  BY LenProperties
<1>2. /\ a \in Seq(S) /\ Len(a) = i - 1
      /\ \A j \in 1..(i - 1) : a[j] = q[j]
  BY <1>1, SubSeqProperties, SubSeqEmpty, EmptySeq
<1>3. /\ b \in Seq(S) /\ Len(b) = Len(q) - i
      /\ \A j \in 1..(Len(q) - i) : b[j] = q[i + j]
  <2>1. CASE i = Len(q)
    BY <1>1, <2>1, SubSeqEmpty, EmptySeq
  <2>2. CASE i < Len(q)
    BY <1>1, <2>2, SubSeqProperties
  <2> QED
    BY <1>1, <2>1, <2>2
<1> HIDE DEF a, b
<1>4. /\ a \o b \in Seq(S)
      /\ Len(a \o b) = Len(q) - 1
      /\ \A j \in 1..(Len(q) - 1) : (a \o b)[j] = IF j < i THEN q[j] ELSE q[j + 1]
  <2>1. a \o b \in Seq(S) /\ Len(a \o b) = Len(q) - 1
    BY <1>1, <1>2, <1>3, ConcatProperties
  <2>2. ASSUME NEW j \in 1..(Len(q) - 1), j < i PROVE (a \o b)[j] = q[j]
    BY <1>1, <1>2, <1>3, <2>1, <2>2, ConcatProperties
  <2>3. ASSUME NEW j \in 1..(Len(q) - 1), ~(j < i) PROVE (a \o b)[j] = q[j + 1]
    <3>1. j - (i - 1) \in 1..(Len(q) - i)
      BY <1>1, <2>3
    <3>2. (a \o b)[j] = b[j - (i - 1)]
      BY <1>1, <1>2, <1>3, <2>1, <2>3, ConcatProperties
    <3> QED
      BY <1>1, <1>3, <2>3, <3>1, <3>2
  <2> QED
    BY <2>1, <2>2, <2>3
<1>5. DOMAIN (a \o b) = 1..(Len(q) - 1)
  BY <1>4, LenProperties
<1> QED
  BY <1>4, <1>5 DEF RemoveAt, a, b

-----------------------------------------------------------------------------
Phases == {"idle", "preparing", "reporting", "queued", "withdrawn",
           "starting", "started", "wired", "unwired", "over", "failed"}

\* The gate's state after a step is well typed and consistent.
GateOK ==
  /\ running \in 0..MaxRunning
  /\ queue \in Seq(Sessions)
  /\ phase \in [Sessions -> Phases]
  /\ QueueExact
  /\ SlotsAccounted

\* The slots owned are finitely many.
LEMMA HoldersFinite == IsFiniteSet(Holders)
  BY LaunchAssumption, FS_Subset DEF Holders

\* A step of one session that neither enters nor leaves the queue, and neither
\* takes nor gives up a slot, leaves the gate consistent.
LEMMA PlainStep ==
  ASSUME GateOK, NEW s \in Sessions, NEW p \in Phases,
         phase' = [phase EXCEPT ![s] = p], UNCHANGED gateVars,
         phase[s] # "queued", p # "queued",
         phase[s] \in SlotPhases <=> p \in SlotPhases
  PROVE  GateOK'
<1>1. phase' \in [Sessions -> Phases]
  BY DEF GateOK
<1>2. QueueExact'
  BY LenProperties DEF GateOK, QueueExact, gateVars
<1>3. Holders' = Holders
  BY DEF GateOK, Holders
<1> QED
  BY <1>1, <1>2, <1>3 DEF GateOK, SlotsAccounted, gateVars

\* tryAcquire keeps the count and the cap.
LEMMA AcquireStep ==
  ASSUME GateOK, NEW s \in Sessions, phase[s] = "preparing", TryAcquire(s), UNCHANGED queue
  PROVE  GateOK' /\ running <= running'
<1>1. CASE running >= MaxRunning
  BY <1>1, PlainStep, LaunchAssumption DEF TryAcquire, gateVars, SlotPhases, Phases, GateOK
<1>2. CASE ~(running >= MaxRunning)
  <2>1. /\ phase' = [phase EXCEPT ![s] = "starting"]
        /\ running' = running + 1
    BY <1>2 DEF TryAcquire
  <2>2. /\ running' \in 0..MaxRunning
        /\ running <= running'
        /\ phase' \in [Sessions -> Phases]
    BY <1>2, <2>1, LaunchAssumption DEF GateOK, Phases
  <2>3. QueueExact'
    BY <2>1 DEF GateOK, QueueExact
  <2>4. Holders' = Holders \cup {s} /\ s \notin Holders
    BY <2>1 DEF GateOK, Holders, SlotPhases
  <2>5. SlotsAccounted'
    BY <2>1, <2>4, HoldersFinite, FS_AddElement DEF GateOK, SlotsAccounted
  <2> QED
    BY <2>2, <2>3, <2>5 DEF GateOK
<1> QED
  BY <1>1, <1>2

\* release hands the slot to the oldest queued session or frees it: the count
\* still is the number of owners, and a queue that is left waiting leaves it
\* unchanged.
LEMMA ReleaseStep ==
  ASSUME GateOK, NEW s \in Sessions, phase[s] \in SlotPhases, NEW p \in {"failed", "over"},
         Release([phase EXCEPT ![s] = p])
  PROVE  GateOK' /\ (queue' # << >> => queue # << >> /\ running' = running)
<1> s \in Holders
  BY DEF Holders
<1>1. CASE queue # << >>
  <2> DEFINE h == Head(queue)
  <2>1. /\ h \in Sessions /\ h = queue[1] /\ 1 \in DOMAIN queue
        /\ phase[h] = "queued" /\ h # s
    BY <1>1, EmptySeq, LenProperties, HeadTailProperties DEF GateOK, QueueExact, SlotPhases
  <2>2. /\ queue' = Tail(queue)
        /\ phase' = [[phase EXCEPT ![s] = p] EXCEPT ![h] = "starting"]
        /\ running' = running
    BY <1>1 DEF Release
  <2>3. /\ queue' \in Seq(Sessions)
        /\ Len(queue) \in Nat
        /\ DOMAIN queue = 1..Len(queue)
        /\ DOMAIN queue' = 1..(Len(queue) - 1)
        /\ \A i \in 1..(Len(queue) - 1) : queue'[i] = queue[i + 1]
    BY <1>1, <2>2, HeadTailProperties, LenProperties DEF GateOK
  <2>4. phase' \in [Sessions -> Phases]
    BY <2>1, <2>2 DEF GateOK, Phases
  <2> HIDE DEF h
  <2>5. \A t \in Sessions : phase'[t] = IF t = h THEN "starting"
                                        ELSE IF t = s THEN p ELSE phase[t]
    BY <2>1, <2>2 DEF GateOK
  <2>6. QueueExact'
    <3>1. ASSUME NEW i \in DOMAIN queue' PROVE phase'[queue'[i]] = "queued"
      <4>1. /\ i + 1 \in DOMAIN queue /\ queue'[i] = queue[i + 1] /\ i + 1 # 1
            /\ queue[i + 1] \in Sessions
        BY <2>3, <3>1, ElementOfSeq DEF GateOK
      <4>2. phase[queue[i + 1]] = "queued" /\ queue[i + 1] # h
        BY <2>1, <4>1 DEF GateOK, QueueExact
      <4>3. queue[i + 1] # s
        BY <4>2 DEF SlotPhases
      <4> QED
        BY <2>5, <4>1, <4>2, <4>3
    <3>2. ASSUME NEW t \in Sessions, phase'[t] = "queued"
          PROVE  \E i \in DOMAIN queue' : queue'[i] = t
      <4>1. t # h /\ phase[t] = "queued"
        BY <2>5, <3>2
      <4>2. PICK i \in DOMAIN queue : queue[i] = t
        BY <4>1 DEF GateOK, QueueExact
      <4>3. i # 1
        BY <2>1, <4>1, <4>2
      <4>4. i - 1 \in DOMAIN queue' /\ queue'[i - 1] = t
        BY <2>3, <4>2, <4>3
      <4> QED
        BY <4>4
    <3>3. \A i, j \in DOMAIN queue' : queue'[i] = queue'[j] => i = j
      <4>1. ASSUME NEW i \in DOMAIN queue', NEW j \in DOMAIN queue', queue'[i] = queue'[j]
            PROVE  i = j
        <5>1. i + 1 \in DOMAIN queue /\ j + 1 \in DOMAIN queue
          BY <2>3
        <5>2. queue[i + 1] = queue[j + 1]
          BY <2>3, <4>1
        <5>3. i + 1 = j + 1
          BY <5>1, <5>2 DEF GateOK, QueueExact
        <5> QED
          BY <2>3, <5>3
      <4> QED
        BY <4>1
    <3> QED
      BY <3>1, <3>2, <3>3 DEF QueueExact
  <2>7. Holders' = (Holders \ {s}) \cup {h} /\ h \notin Holders
    BY <2>1, <2>5 DEF Holders, SlotPhases
  <2>8. Cardinality(Holders') = Cardinality(Holders)
    <3>1. /\ IsFiniteSet(Holders \ {s})
          /\ Cardinality(Holders \ {s}) = Cardinality(Holders) - 1
      BY HoldersFinite, FS_RemoveElement
    <3>2. Cardinality((Holders \ {s}) \cup {h}) = Cardinality(Holders \ {s}) + 1
      BY <2>7, <3>1, FS_AddElement
    <3>3. Cardinality(Holders) \in Nat
      BY HoldersFinite, FS_CardinalityType
    <3> QED
      BY <2>7, <3>1, <3>2, <3>3
  <2> QED
    BY <1>1, <2>2, <2>3, <2>4, <2>6, <2>8 DEF GateOK, SlotsAccounted
<1>2. CASE queue = << >>
  <2>1. /\ running' = IF running > 0 THEN running - 1 ELSE 0
        /\ phase' = [phase EXCEPT ![s] = p]
        /\ queue' = queue
    BY <1>2 DEF Release
  <2>2. QueueExact'
    BY <2>1 DEF GateOK, QueueExact, SlotPhases
  <2>3. Holders' = Holders \ {s}
    BY <2>1 DEF GateOK, Holders, SlotPhases
  <2>4. Cardinality(Holders') = Cardinality(Holders) - 1
    BY <2>3, HoldersFinite, FS_RemoveElement
  <2>5. running > 0 /\ running \in Nat
    <3>1. Cardinality(Holders) \in Nat /\ Cardinality(Holders) # 0
      BY HoldersFinite, FS_CardinalityType, FS_EmptySet
    <3> QED
      BY <3>1 DEF GateOK, SlotsAccounted
  <2>6. phase' \in [Sessions -> Phases]
    BY <2>1 DEF GateOK, Phases
  <2>7. SlotsAccounted'
    BY <2>1, <2>4, <2>5 DEF GateOK, SlotsAccounted
  <2>8. running' \in 0..MaxRunning
    BY <2>1, <2>5, LaunchAssumption DEF GateOK
  <2> QED
    BY <1>2, <2>1, <2>2, <2>6, <2>7, <2>8 DEF GateOK
<1> QED
  BY <1>1, <1>2

\* enqueue, of a session that was not waiting.
LEMMA EnqueueStep ==
  ASSUME GateOK, NEW s \in Sessions, phase[s] = "reporting",
         queue' = Append(queue, s), phase' = [phase EXCEPT ![s] = "queued"],
         UNCHANGED running
  PROVE  GateOK'
<1>1. /\ queue' \in Seq(Sessions)
      /\ Len(queue) \in Nat
      /\ DOMAIN queue = 1..Len(queue)
      /\ DOMAIN queue' = 1..(Len(queue) + 1)
      /\ \A i \in 1..Len(queue) : queue'[i] = queue[i]
      /\ queue'[Len(queue) + 1] = s
  BY AppendProperties, LenProperties DEF GateOK
<1>2. phase' \in [Sessions -> Phases]
  BY DEF GateOK, Phases
<1>3. \A i \in DOMAIN queue : queue[i] \in Sessions /\ queue[i] # s
  BY <1>1, ElementOfSeq DEF GateOK, QueueExact
<1>4. QueueExact'
  <2>1. ASSUME NEW i \in DOMAIN queue' PROVE phase'[queue'[i]] = "queued"
    BY <1>1, <1>3 DEF GateOK, QueueExact
  <2>2. ASSUME NEW t \in Sessions, phase'[t] = "queued"
        PROVE  \E i \in DOMAIN queue' : queue'[i] = t
    <3>1. CASE t = s
      BY <1>1, <3>1
    <3>2. CASE t # s
      <4>1. PICK i \in DOMAIN queue : queue[i] = t
        BY <2>2, <3>2 DEF GateOK, QueueExact
      <4> QED
        BY <1>1, <4>1
    <3> QED
      BY <3>1, <3>2
  <2>3. ASSUME NEW i \in DOMAIN queue', NEW j \in DOMAIN queue', queue'[i] = queue'[j]
        PROVE  i = j
    <3>1. CASE i \in DOMAIN queue /\ j \in DOMAIN queue
      BY <1>1, <2>3, <3>1 DEF GateOK, QueueExact
    <3>2. CASE i \notin DOMAIN queue \/ j \notin DOMAIN queue
      BY <1>1, <1>3, <2>3, <3>2
    <3> QED
      BY <3>1, <3>2
  <2> QED
    BY <2>1, <2>2, <2>3 DEF QueueExact
<1>5. Holders' = Holders
  BY DEF GateOK, Holders, SlotPhases
<1> QED
  BY <1>1, <1>2, <1>4, <1>5 DEF GateOK, SlotsAccounted

\* cancel of one session takes out its entry and nothing else.
LEMMA CancelStep ==
  ASSUME GateOK, NEW s \in Sessions, Cancel(s), UNCHANGED running
  PROVE  GateOK' /\ (queue' # << >> => queue # << >>)
<1>1. CASE \E i \in DOMAIN queue : queue[i] = s
  <2>1. PICK k \in DOMAIN queue : queue[k] = s /\ queue' = RemoveAt(queue, k)
    BY <1>1 DEF Cancel
  <2>2. phase' = [phase EXCEPT ![s] = "withdrawn"] /\ phase[s] = "queued"
    BY <1>1 DEF Cancel, GateOK, QueueExact
  <2>3. /\ queue' \in Seq(Sessions)
        /\ DOMAIN queue' = 1..(Len(queue) - 1)
        /\ \A j \in 1..(Len(queue) - 1) : queue'[j] = IF j < k THEN queue[j] ELSE queue[j + 1]
    BY <2>1, RemoveAtProperties DEF GateOK
  <2>4. /\ Len(queue) \in Nat /\ DOMAIN queue = 1..Len(queue) /\ k \in 1..Len(queue)
        /\ \A j \in DOMAIN queue : queue[j] \in Sessions
        /\ queue # << >>
    BY <2>1, LenProperties, ElementOfSeq, EmptySeq DEF GateOK
  <2> DEFINE old(j) == IF j < k THEN j ELSE j + 1
  <2>5. \A j \in DOMAIN queue' : old(j) \in DOMAIN queue /\ old(j) # k /\ queue'[j] = queue[old(j)]
    BY <2>3, <2>4
  <2>6. QueueExact'
    <3>1. ASSUME NEW j \in DOMAIN queue' PROVE phase'[queue'[j]] = "queued"
      <4>1. old(j) \in DOMAIN queue /\ old(j) # k /\ queue'[j] = queue[old(j)]
        BY <2>5
      <4>2. queue[old(j)] # s
        BY <2>1, <4>1 DEF GateOK, QueueExact
      <4>3. phase[queue[old(j)]] = "queued" /\ queue[old(j)] \in Sessions
        BY <2>4, <4>1 DEF GateOK, QueueExact
      <4> QED
        BY <2>2, <4>1, <4>2, <4>3 DEF GateOK
    <3>2. ASSUME NEW t \in Sessions, phase'[t] = "queued"
          PROVE  \E j \in DOMAIN queue' : queue'[j] = t
      <4>1. t # s /\ phase[t] = "queued"
        BY <2>2, <3>2 DEF GateOK
      <4>2. PICK i \in DOMAIN queue : queue[i] = t
        BY <4>1 DEF GateOK, QueueExact
      <4>3. CASE i < k
        BY <2>3, <2>4, <4>2, <4>3
      <4>4. CASE i > k
        <5>1. i - 1 \in DOMAIN queue' /\ ~(i - 1 < k) /\ (i - 1) + 1 = i
          BY <2>3, <2>4, <4>4
        <5> QED
          BY <2>3, <4>2, <5>1
      <4>5. i # k
        BY <2>1, <4>1, <4>2
      <4> QED
        BY <2>4, <4>3, <4>4, <4>5
    <3>3. ASSUME NEW i \in DOMAIN queue', NEW j \in DOMAIN queue', queue'[i] = queue'[j]
          PROVE  i = j
      <4>1. old(i) = old(j)
        BY <2>5, <3>3 DEF GateOK, QueueExact
      <4> QED
        BY <2>3, <2>4, <4>1
    <3> QED
      BY <3>1, <3>2, <3>3 DEF QueueExact
  <2>7. Holders' = Holders
    BY <2>2 DEF GateOK, Holders, SlotPhases
  <2>8. phase' \in [Sessions -> Phases]
    BY <2>2 DEF GateOK, Phases
  <2> QED
    BY <2>3, <2>4, <2>6, <2>7, <2>8 DEF GateOK, SlotsAccounted
<1>2. CASE ~(\E i \in DOMAIN queue : queue[i] = s)
  BY <1>2 DEF Cancel, GateOK, QueueExact, SlotsAccounted, Holders
<1> QED
  BY <1>1, <1>2

\* close() empties the queue.
LEMMA CancelAllStep ==
  ASSUME GateOK, CancelAll, UNCHANGED running
  PROVE  GateOK' /\ queue' = << >>
<1>1. queue' = << >> /\ queue' \in Seq(Sessions) /\ DOMAIN queue' = {}
  BY EmptySeq DEF CancelAll
<1>2. /\ phase' \in [Sessions -> Phases]
      /\ \A s \in Sessions : phase'[s] # "queued"
      /\ \A s \in Sessions : phase'[s] = IF phase[s] = "queued" THEN "withdrawn" ELSE phase[s]
  BY DEF CancelAll, GateOK, Phases
<1>3. Holders' = Holders
  BY <1>2 DEF Holders, SlotPhases
<1>4. QueueExact'
  BY <1>1, <1>2 DEF QueueExact
<1> QED
  BY <1>1, <1>2, <1>3, <1>4 DEF GateOK, SlotsAccounted

-----------------------------------------------------------------------------
(* The inductive invariant.                                                *)

IInv == TypeOK /\ QueueExact /\ SlotsAccounted /\ WaitsForFullTarget

\* What TypeOK says of the variables outside the gate.
RestOK ==
  /\ record \in [Sessions -> {"none", "disconnected", "running", "ended", "removed"}]
  /\ agent \in [Sessions -> {"none", "up", "down"}]
  /\ muted \subseteq Sessions
  /\ closed \in BOOLEAN
  /\ archived \subseteq Sessions
  /\ stranded \subseteq Sessions

\* The invariant splits into the gate's part and the rest.
LEMMA IInvParts == IInv <=> GateOK /\ RestOK /\ WaitsForFullTarget
  BY DEF IInv, TypeOK, GateOK, RestOK, Phases

\* An idle gate satisfies it.
LEMMA InitIInv == Init => IInv
<1> SUFFICES ASSUME Init PROVE IInv
  OBVIOUS
<1>1. queue \in Seq(Sessions) /\ DOMAIN queue = {} /\ queue = << >>
  BY EmptySeq DEF Init
<1>2. TypeOK
  <2>1. record \in [Sessions -> {"none", "disconnected", "running", "ended", "removed"}]
    BY DEF Init
  <2>2. running \in 0..MaxRunning
    BY LaunchAssumption DEF Init
  <2>3. /\ phase \in [Sessions -> Phases]
        /\ agent \in [Sessions -> {"none", "up", "down"}]
    BY DEF Init, Phases
  <2>4. /\ muted \subseteq Sessions /\ archived \subseteq Sessions /\ stranded \subseteq Sessions
        /\ closed \in BOOLEAN
    BY DEF Init
  <2> QED
    BY <1>1, <2>1, <2>2, <2>3, <2>4 DEF TypeOK, Phases
<1>3. QueueExact
  BY <1>1 DEF Init, QueueExact
<1>4. Holders = {}
  BY DEF Init, Holders, SlotPhases
<1>5. SlotsAccounted
  BY <1>4, FS_EmptySet DEF Init, SlotsAccounted
<1> QED
  BY <1>1, <1>2, <1>3, <1>5 DEF IInv, WaitsForFullTarget

\* The variables outside the gate keep their types.
LEMMA RestStep == RestOK /\ [Next]_vars => RestOK'
<1> SUFFICES ASSUME RestOK, [Next]_vars PROVE RestOK'
  OBVIOUS
<1> USE DEF RestOK
<1>1. ASSUME NEW s \in Sessions, Create(s) PROVE RestOK'
  BY <1>1 DEF Create
<1>2. ASSUME NEW s \in Sessions, Revive(s) PROVE RestOK'
  BY <1>2 DEF Revive
<1>3. ASSUME NEW s \in Sessions, Acquire(s) PROVE RestOK'
  BY <1>3 DEF Acquire
<1>4. ASSUME NEW s \in Sessions, Enqueue(s) PROVE RestOK'
  BY <1>4 DEF Enqueue
<1>5. ASSUME NEW s \in Sessions, AgentStarts(s) PROVE RestOK'
  BY <1>5 DEF AgentStarts
<1>6. ASSUME NEW s \in Sessions, StartFails(s) PROVE RestOK'
  BY <1>6 DEF StartFails
<1>7. ASSUME NEW s \in Sessions, FinishCreation(s) PROVE RestOK'
  BY <1>7 DEF FinishCreation
<1>8. ASSUME NEW s \in Sessions, ErrorEvent(s) PROVE RestOK'
  BY <1>8 DEF ErrorEvent
<1>9. ASSUME NEW s \in Sessions, AgentExits(s) PROVE RestOK'
  BY <1>9 DEF AgentExits
<1>10. ASSUME NEW s \in Sessions, Archive(s) PROVE RestOK'
  BY <1>10 DEF Archive
<1>11. ASSUME NEW s \in Sessions, ArchiveDone(s) PROVE RestOK'
  BY <1>11 DEF ArchiveDone
<1>12. CASE CloseDaemon
  BY <1>12 DEF CloseDaemon
<1>13. CASE UNCHANGED vars
  BY <1>13 DEF vars
<1>14. ASSUME NEW s \in Sessions, ReviveDone(s) PROVE RestOK'
  BY <1>14 DEF ReviveDone
<1> QED
  BY <1>1, <1>2, <1>3, <1>4, <1>5, <1>6, <1>7, <1>8, <1>9, <1>10, <1>11, <1>12, <1>13,
     <1>14 DEF Next

\* Every step keeps the gate consistent, and leaves sessions waiting only for
\* a full target.
LEMMA GateStep ==
  GateOK /\ WaitsForFullTarget /\ [Next]_vars => GateOK' /\ WaitsForFullTarget'
<1> SUFFICES ASSUME GateOK, WaitsForFullTarget, [Next]_vars
             PROVE  GateOK' /\ WaitsForFullTarget'
  OBVIOUS
<1>1. ASSUME NEW s \in Sessions, Create(s) PROVE GateOK' /\ WaitsForFullTarget'
  <2>1. GateOK'
    BY <1>1, PlainStep DEF Create, Phases, SlotPhases
  <2> QED
    BY <1>1, <2>1 DEF Create, WaitsForFullTarget, gateVars
<1>2. ASSUME NEW s \in Sessions, Revive(s) PROVE GateOK' /\ WaitsForFullTarget'
  <2>1. GateOK'
    BY <1>2, PlainStep DEF Revive, Phases, SlotPhases
  <2> QED
    BY <1>2, <2>1 DEF Revive, WaitsForFullTarget, gateVars
<1>3. ASSUME NEW s \in Sessions, Acquire(s) PROVE GateOK' /\ WaitsForFullTarget'
  <2>1. GateOK' /\ running <= running'
    BY <1>3, AcquireStep DEF Acquire
  <2>2. UNCHANGED <<queue, stranded>>
    BY <1>3 DEF Acquire
  <2> QED
    BY <2>1, <2>2, LaunchAssumption DEF WaitsForFullTarget, GateOK
<1>4. ASSUME NEW s \in Sessions, Enqueue(s) PROVE GateOK' /\ WaitsForFullTarget'
  <2>1. GateOK'
    BY <1>4, EnqueueStep DEF Enqueue
  <2>2. stranded' = {} => running >= MaxRunning
    BY <1>4, LaunchAssumption DEF Enqueue, GateOK
  <2>3. running' = running
    BY <1>4 DEF Enqueue
  <2> QED
    BY <2>1, <2>2, <2>3, LaunchAssumption DEF WaitsForFullTarget, GateOK
<1>5. ASSUME NEW s \in Sessions, AgentStarts(s) PROVE GateOK' /\ WaitsForFullTarget'
  <2>1. GateOK'
    BY <1>5, PlainStep DEF AgentStarts, Phases, SlotPhases
  <2> QED
    BY <1>5, <2>1 DEF AgentStarts, WaitsForFullTarget, gateVars
<1>6. ASSUME NEW s \in Sessions, StartFails(s) PROVE GateOK' /\ WaitsForFullTarget'
  <2>1. GateOK' /\ (queue' # << >> => queue # << >> /\ running' = running)
    BY <1>6, ReleaseStep DEF StartFails, SlotPhases
  <2>2. UNCHANGED stranded
    BY <1>6 DEF StartFails
  <2> QED
    BY <2>1, <2>2 DEF WaitsForFullTarget
<1>7. ASSUME NEW s \in Sessions, FinishCreation(s) PROVE GateOK' /\ WaitsForFullTarget'
  <2>1. GateOK'
    <3>1. CASE record[s] = "removed"
      BY <1>7, <3>1, PlainStep DEF FinishCreation, Phases, SlotPhases
    <3>2. CASE record[s] # "removed"
      BY <1>7, <3>2, PlainStep DEF FinishCreation, Phases, SlotPhases
    <3> QED
      BY <3>1, <3>2
  <2> QED
    BY <1>7, <2>1 DEF FinishCreation, WaitsForFullTarget, gateVars
<1>8. ASSUME NEW s \in Sessions, ErrorEvent(s) PROVE GateOK' /\ WaitsForFullTarget'
  BY <1>8 DEF ErrorEvent, gateVars, GateOK, QueueExact, SlotsAccounted, Holders, WaitsForFullTarget
<1>9. ASSUME NEW s \in Sessions, AgentExits(s) PROVE GateOK' /\ WaitsForFullTarget'
  <2>1. CASE phase[s] = "wired" /\ s \notin muted
    <3>1. GateOK' /\ (queue' # << >> => queue # << >> /\ running' = running)
      BY <1>9, <2>1, ReleaseStep DEF AgentExits, SlotPhases
    <3>2. UNCHANGED stranded
      BY <1>9 DEF AgentExits
    <3> QED
      BY <3>1, <3>2 DEF WaitsForFullTarget
  <2>2. CASE ~(phase[s] = "wired" /\ s \notin muted)
    <3>1. UNCHANGED <<running, queue, phase, stranded>>
      BY <1>9, <2>2 DEF AgentExits, gateVars
    <3> QED
      BY <3>1 DEF GateOK, QueueExact, SlotsAccounted, Holders, WaitsForFullTarget
  <2> QED
    BY <2>1, <2>2
<1>10. ASSUME NEW s \in Sessions, Archive(s) PROVE GateOK' /\ WaitsForFullTarget'
  <2>1. GateOK' /\ (queue' # << >> => queue # << >>)
    BY <1>10, CancelStep DEF Archive
  <2>2. UNCHANGED <<running, stranded>>
    BY <1>10 DEF Archive
  <2> QED
    BY <2>1, <2>2 DEF WaitsForFullTarget
<1>11. ASSUME NEW s \in Sessions, ArchiveDone(s) PROVE GateOK' /\ WaitsForFullTarget'
  BY <1>11 DEF ArchiveDone, gateVars, GateOK, QueueExact, SlotsAccounted, Holders, WaitsForFullTarget
<1>12. CASE CloseDaemon
  <2>1. GateOK' /\ queue' = << >>
    BY <1>12, CancelAllStep DEF CloseDaemon
  <2> QED
    BY <2>1 DEF WaitsForFullTarget
<1>13. CASE UNCHANGED vars
  BY <1>13 DEF vars, GateOK, QueueExact, SlotsAccounted, Holders, WaitsForFullTarget
<1>14. ASSUME NEW s \in Sessions, ReviveDone(s) PROVE GateOK' /\ WaitsForFullTarget'
  BY <1>14 DEF ReviveDone, gateVars, GateOK, QueueExact, SlotsAccounted, Holders, WaitsForFullTarget
<1> QED
  BY <1>1, <1>2, <1>3, <1>4, <1>5, <1>6, <1>7, <1>8, <1>9, <1>10, <1>11, <1>12, <1>13,
     <1>14 DEF Next

\* Every step keeps it.
LEMMA NextIInv == IInv /\ [Next]_vars => IInv'
<1> SUFFICES ASSUME IInv, [Next]_vars PROVE IInv'
  OBVIOUS
<1>1. GateOK' /\ RestOK' /\ WaitsForFullTarget'
  BY IInvParts, RestStep, GateStep
<1> QED
  BY <1>1 DEF IInv, TypeOK, GateOK, RestOK, Phases

-----------------------------------------------------------------------------
\* The invariant holds in every reachable state.
THEOREM Invariance == Spec => []IInv
  BY InitIInv, NextIInv, PTL DEF Spec

\* Types are kept and the gate's running count never leaves 0..maxFor(targetId).
THEOREM TypeCorrect == Spec => []TypeOK
<1>1. IInv => TypeOK
  BY DEF IInv
<1> QED
  BY <1>1, Invariance, PTL

\* The gate's counter is the number of sessions that own a slot.
THEOREM SlotsAlwaysAccounted == Spec => []SlotsAccounted
<1>1. IInv => SlotsAccounted
  BY DEF IInv
<1> QED
  BY <1>1, Invariance, PTL

\* The gate's queue holds exactly the sessions that wait, each once.
THEOREM QueueAlwaysExact == Spec => []QueueExact
<1>1. IInv => QueueExact
  BY DEF IInv
<1> QED
  BY <1>1, Invariance, PTL

\* Sessions wait only for a full target, but for those queued too late.
THEOREM WaitingMeansFull == Spec => []WaitsForFullTarget
<1>1. IInv => WaitsForFullTarget
  BY DEF IInv
<1> QED
  BY <1>1, Invariance, PTL

\* A withdrawn session is never launched: release takes only the head of the
\* queue, and every entry of the queue is a session still waiting.
THEOREM WithdrawnStays == Spec => WithdrawnNeverLaunches
<1>1. IInv /\ [Next]_vars =>
        [\A s \in Sessions : phase[s] = "withdrawn" => phase'[s] = "withdrawn"]_vars
  <2> SUFFICES ASSUME IInv, Next, NEW t \in Sessions, phase[t] = "withdrawn"
               PROVE  phase'[t] = "withdrawn"
    BY DEF vars
  <2>1. phase \in [Sessions -> Phases] /\ queue \in Seq(Sessions)
    BY DEF IInv, TypeOK, Phases
  <2>2. queue # << >> => Head(queue) \in Sessions /\ phase[Head(queue)] = "queued"
    BY <2>1, EmptySeq, LenProperties, HeadTailProperties DEF IInv, QueueExact
  <2>3. ASSUME NEW s \in Sessions, s # t, NEW p \in Phases, Release([phase EXCEPT ![s] = p])
        PROVE  phase'[t] = "withdrawn"
    BY <2>1, <2>2, <2>3 DEF Release
  <2>4. ASSUME NEW s \in Sessions,
               Create(s) \/ Revive(s) \/ Enqueue(s) \/ AgentStarts(s) \/ FinishCreation(s)
        PROVE  phase'[t] = "withdrawn"
    BY <2>1, <2>4 DEF Create, Revive, Enqueue, AgentStarts, FinishCreation
  <2>5. ASSUME NEW s \in Sessions, Acquire(s) PROVE phase'[t] = "withdrawn"
    BY <2>1, <2>5 DEF Acquire, TryAcquire
  <2>6. ASSUME NEW s \in Sessions, StartFails(s) PROVE phase'[t] = "withdrawn"
    BY <2>3, <2>6 DEF StartFails, Phases
  <2>7. ASSUME NEW s \in Sessions, AgentExits(s) PROVE phase'[t] = "withdrawn"
    BY <2>3, <2>7 DEF AgentExits, Phases
  <2>8. ASSUME NEW s \in Sessions, ErrorEvent(s) \/ ReviveDone(s) \/ ArchiveDone(s)
        PROVE  phase'[t] = "withdrawn"
    BY <2>8 DEF ErrorEvent, ReviveDone, ArchiveDone
  <2>9. ASSUME NEW s \in Sessions, Archive(s) PROVE phase'[t] = "withdrawn"
    BY <2>1, <2>9 DEF Archive, Cancel
  <2>10. CASE CloseDaemon
    BY <2>1, <2>10 DEF CloseDaemon, CancelAll
  <2> QED
    BY <2>4, <2>5, <2>6, <2>7, <2>8, <2>9, <2>10 DEF Next
<1> QED
  BY <1>1, Invariance, PTL DEF Spec, WithdrawnNeverLaunches

=============================================================================

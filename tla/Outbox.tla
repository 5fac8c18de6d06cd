------------------------------- MODULE Outbox -------------------------------
(***************************************************************************)
(* One outbox of the relay as a state machine: enqueue, and the            *)
(* single-flight pump, whose next item goes out only once both the send    *)
(* callback and the floor timer of the previous one have come.  grouping   *)
(* says which of the two classes the outbox is; it never changes.          *)
(***************************************************************************)
EXTENDS Integers, Sequences, FiniteSets

CONSTANTS Keys,        \* sessionId, or sessionId:terminalId
          MaxDepth,    \* maxClientQueueDepth / maxTerminalQueueDepth
          MaxProduced  \* bound: updates produced per key

ASSUME OutboxAssumption ==
  /\ IsFiniteSet(Keys)
  /\ MaxDepth \in Nat \ {0}
  /\ MaxProduced \in Nat

VARIABLES grouping,       \* "contiguous": outbox.ts, "perKey": terminal-outbox.ts
          queue,          \* this.queue
          sending,        \* this.sending: one flush is in progress
          callbackFired,  \* pump's local: the transport took the item
          floorElapsed,   \* pump's local: minFlushIntervalMs has passed
          produced,       \* last seq enqueued per key
          sent            \* history: the items handed to send, in order

outboxVars == <<grouping, queue, sending, callbackFired, floorElapsed, produced, sent>>

INSTANCE OutboxQueue WITH Grouping <- grouping

-----------------------------------------------------------------------------
OutboxInit ==
  /\ grouping \in {"contiguous", "perKey"}
  /\ queue = << >>
  /\ sending = FALSE
  /\ callbackFired = FALSE
  /\ floorElapsed = FALSE
  /\ produced = [k \in Keys |-> 0]
  /\ sent = << >>

\* pump() on a queue q while no flush is in progress.
Pump(q) ==
  IF q = << >>
  THEN /\ queue' = q
       /\ sending' = FALSE
       /\ callbackFired' = FALSE
       /\ floorElapsed' = FALSE
       /\ UNCHANGED sent
  ELSE /\ queue' = Tail(q)
       /\ sent' = Append(sent, Head(q))
       /\ sending' = TRUE
       /\ callbackFired' = FALSE
       /\ floorElapsed' = FALSE

\* enqueue(item), for the next update of key k.
Enqueue(k) ==
  LET q == DropOldest(Append(queue, Update(k, produced[k] + 1)))
  IN /\ produced[k] < MaxProduced
     /\ produced' = [produced EXCEPT ![k] = @ + 1]
     /\ UNCHANGED grouping
     /\ IF sending
        THEN queue' = q /\ UNCHANGED <<sending, callbackFired, floorElapsed, sent>>
        ELSE Pump(q)

\* send's done callback; advanceIfReady pumps when the floor has elapsed too.
CallbackFires ==
  /\ sending /\ ~callbackFired
  /\ IF floorElapsed
     THEN Pump(queue)
     ELSE callbackFired' = TRUE /\ UNCHANGED <<queue, sending, floorElapsed, sent>>
  /\ UNCHANGED <<grouping, produced>>

\* Mutant: the timer only sets its flag, nobody pumps when it comes last.
FloorElapsesMutant ==
  /\ sending /\ ~floorElapsed
  /\ floorElapsed' = TRUE
  /\ UNCHANGED <<grouping, queue, sending, callbackFired, produced, sent>>

\* The floor timer; advanceIfReady pumps when the callback has fired too.
FloorElapses ==
  /\ sending /\ ~floorElapsed
  /\ IF callbackFired
     THEN Pump(queue)
     ELSE floorElapsed' = TRUE /\ UNCHANGED <<queue, sending, callbackFired, sent>>
  /\ UNCHANGED <<grouping, produced>>

OutboxNext ==
  \/ \E k \in Keys : Enqueue(k)
  \/ CallbackFires
  \/ FloorElapses

\* A socket write completes or fails, and a timer fires: both callbacks come.
OutboxFairness == WF_outboxVars(CallbackFires) /\ WF_outboxVars(FloorElapses)

OutboxSpec == OutboxInit /\ [][OutboxNext]_outboxVars

OutboxFairSpec == OutboxSpec /\ OutboxFairness

-----------------------------------------------------------------------------
Covers(i) == i.from..i.to

\* Everything the client has been or will be handed, in order.
Stream == sent \o queue

\* Type invariant of the outbox's fields and of the history.
OutboxTypeOK ==
  /\ grouping \in {"contiguous", "perKey"}
  /\ queue \in Seq(Item)
  /\ sending \in BOOLEAN
  /\ callbackFired \in BOOLEAN
  /\ floorElapsed \in BOOLEAN
  /\ produced \in [Keys -> Nat]
  /\ sent \in Seq(Item)

\* Drop-oldest loses no number silently and reports none wrongly: what a key's
\* client is handed (sent or still queued, live or as a marker's range) is
\* 1..produced cut into pieces, each number exactly once and in order, however
\* often markers are dropped again and folded into new ones.
EachSeqOnceInOrder ==
  /\ \A i \in DOMAIN Stream : LET x == Stream[i] IN
       1 <= x.from /\ x.from <= x.to /\ x.to <= produced[x.key]
  /\ \A k \in Keys : \A n \in 1..produced[k] :
       \E i \in DOMAIN Stream : Stream[i].key = k /\ n \in Covers(Stream[i])
  /\ \A i, j \in DOMAIN Stream :
       i < j /\ Stream[i].key = Stream[j].key => Stream[i].to < Stream[j].from

\* Only the oldest are dropped, and only when the queue is full: while a marker
\* waits, exactly the newest MaxDepth updates wait behind it.
OnlyOldestDropped ==
  \A i \in DOMAIN queue :
    queue[i].type = "marker" =>
      /\ i <= Len(queue) - MaxDepth
      /\ \A j \in (Len(queue) - MaxDepth + 1)..Len(queue) : queue[j].type = "update"

\* The bound the terminal outbox groups per key for: besides maxDepth items its
\* queue holds at most one marker per key.  (The client outbox has no such bound:
\* the updates of two sessions that alternate leave a marker each.)
DepthBounded == grouping = "perKey" => Len(queue) <= MaxDepth + Cardinality(Keys)

\* Every enqueued update is eventually sent, itself or as part of a marker: no
\* pump is lost between the send callback and the floor timer.
EventuallySent ==
  \A k \in Keys : \A n \in 1..MaxProduced :
    produced[k] >= n ~> \E i \in DOMAIN sent : sent[i].key = k /\ n \in Covers(sent[i])

=============================================================================

---------------------------- MODULE SessionStream ----------------------------
(***************************************************************************)
(* The update stream of one session, from its owning node through the      *)
(* relay to one client, across reconnects.                                 *)
(*                                                                         *)
(* Relay (packages/relay/src/relay.ts with the in-memory store of          *)
(* store.ts): session_update gives an update its seq, buffers it in the    *)
(* session's ring unless the account is over its quota, and fans it out;   *)
(* session_resume subscribes a connection; resync_request replays the      *)
(* ring.  Every await of a handler is a point where the handlers of other  *)
(* sockets run.  Frames of one socket are handled one at a time.           *)
(*                                                                         *)
(* Client (apps/web/src/lib/relay-client.ts): resumes the session on every *)
(* connection, asks for a resync from its high-water mark once per         *)
(* connection, and applies updates in the order received, each seq once.   *)
(*                                                                         *)
(* An update is its seq; its envelope is left out.  Entries enter the ring *)
(* in increasing seq order, so the ring is the set of its seqs and shift   *)
(* removes the least.  undefined lastEvictedSeq is 0: seqs start at 1.     *)
(***************************************************************************)
EXTENDS Integers, Sequences, FiniteSets

CONSTANTS Session,      \* the session's id
          Capacity,     \* ringBufferSize
          QueueDepth,   \* maxClientQueueDepth
          MaxAttempts,  \* SESSION_RESUME_MAX_ATTEMPTS
          MaxSeq,       \* bound: updates the node sends
          MaxConnects,  \* bound: connections the client opens
          MaxFailures   \* bound: envelopes that fail to decrypt

ASSUME StreamAssumption ==
  /\ Capacity \in Nat \ {0}
  /\ QueueDepth \in Nat \ {0}
  /\ {MaxAttempts, MaxSeq, MaxConnects, MaxFailures} \subseteq Nat

VARIABLES
  \* relay, session store
  announced,    \* the session has a record
  counter,      \* seqCounters: last seq given out
  ring,         \* seqs buffered for resync
  lastEvicted,  \* ring.lastEvictedSeq
  refused,      \* history: seqs the quota kept out of the ring
  \* relay, the owning node's socket
  stage,        \* where the session_update handler of seq counter is
  \* relay, the client's current connection
  subscribed,   \* client.subscriptions has the session
  outbox,       \* client.outbox's queue
  flushing,     \* client.outbox.sending: its floor timer is running
  reply,        \* result of getEntriesSince awaiting its continuation
  raced,        \* history: seqs evicted while a reply that aliases the ring waits
  \* wire, both directions of the current connection
  toRelay,
  toClient,
  \* client
  conn,         \* the socket is open and the handshake done
  connects,     \* connectionGeneration
  attempts,     \* retrySessionResume: attempts made so far
  acked,        \* acknowledgeSessionResume has cancelled the retry timer
  resynced,     \* resyncedConnectionGenerationBySession = connectionGeneration
  cursor,       \* history: sinceSeq of this connection's resync_request
  chain,        \* sessionUpdateQueue: seqs waiting for decrypt and apply
  applied,      \* history: the seqs applied, in order
  gaps,         \* ranges shown as gap items
  failed        \* history: seqs whose envelope did not decrypt

storeVars  == <<announced, counter, ring, lastEvicted, refused>>
relayVars  == <<subscribed, outbox, flushing, reply, raced>>
wireVars   == <<toRelay, toClient>>
clientVars == <<conn, connects, attempts, acked, resynced, cursor, chain, applied, gaps, failed>>
vars == <<storeVars, stage, relayVars, wireVars, clientVars>>

\* The connection's outbox holds one session's items here.
OB == INSTANCE OutboxQueue WITH Keys <- {Session}, MaxDepth <- QueueDepth,
                                Grouping <- "contiguous"

NoReply == [pending |-> FALSE]

\* appliedSeqsBySession and lastAppliedSeqBySession.
AppliedSet == {applied[i] : i \in DOMAIN applied}
LastApplied == IF applied = << >> THEN 0
               ELSE CHOOSE n \in AppliedSet : \A m \in AppliedSet : m <= n

-----------------------------------------------------------------------------
(* The node's socket at the relay.                                         *)

\* session_announce: the session's record is stored.
Announce ==
  /\ ~announced
  /\ announced' = TRUE
  /\ UNCHANGED <<counter, ring, lastEvicted, refused, stage, relayVars, wireVars, clientVars>>

\* session_update up to nextSeq; an update of an unknown session is dropped.
AssignSeq ==
  /\ announced
  /\ stage = "idle"
  /\ counter < MaxSeq
  /\ counter' = counter + 1
  /\ stage' = "assigned"
  /\ UNCHANGED <<announced, ring, lastEvicted, refused, relayVars, wireVars, clientVars>>

\* pushRingEntry with evictOne: what leaves the ring when seq n enters.
Evicted(n) ==
  LET full == ring \cup {n}
  IN IF Cardinality(full) > Capacity
     THEN {CHOOSE m \in full : \A l \in full : m <= l}
     ELSE {}

\* Mutant: the ring forgets to note what it evicted.
PushRingEntryMutant(n) ==
  /\ ring' = (ring \cup {n}) \ Evicted(n)
  /\ UNCHANGED lastEvicted

PushRingEntry(n) ==
  /\ ring' = (ring \cup {n}) \ Evicted(n)
  /\ lastEvicted' = IF Evicted(n) = {} THEN lastEvicted
                    ELSE CHOOSE m \in Evicted(n) : TRUE

\* session_update from hasQuotaFor to pushRingEntry.  The account's other
\* sessions and blobs decide whether the update still fits.
BufferUpdate(fits) ==
  /\ stage = "assigned"
  /\ stage' = "buffered"
  /\ IF fits
     THEN /\ PushRingEntry(counter)
          /\ raced' = IF reply.pending /\ reply.dropped
                      THEN raced \cup Evicted(counter) ELSE raced
          /\ UNCHANGED refused
     ELSE refused' = refused \cup {counter} /\ UNCHANGED <<ring, lastEvicted, raced>>
  /\ UNCHANGED <<announced, counter, subscribed, outbox, flushing, reply, wireVars, clientVars>>

\* fanOutSessionUpdate through the in-process backend, to the connection's
\* outbox.  The relay's send reports done at once, so an idle outbox hands the
\* head of its queue to the socket and starts its floor timer.
FanOutUpdate ==
  /\ stage = "buffered"
  /\ stage' = "idle"
  /\ IF ~subscribed
     THEN UNCHANGED <<outbox, flushing, toClient>>
     ELSE LET q == OB!DropOldest(Append(outbox, OB!Update(Session, counter)))
          IN IF flushing
             THEN outbox' = q /\ UNCHANGED <<flushing, toClient>>
             ELSE /\ outbox' = Tail(q)
                  /\ toClient' = Append(toClient, Head(q))
                  /\ flushing' = TRUE
  /\ UNCHANGED <<storeVars, subscribed, reply, raced, toRelay, clientVars>>

-----------------------------------------------------------------------------
(* The client's socket at the relay.                                       *)

\* Mutant: the timer ends the flush and leaves what has queued up meanwhile.
OutboxFloorMutant ==
  /\ flushing
  /\ flushing' = FALSE
  /\ UNCHANGED <<storeVars, stage, subscribed, outbox, reply, raced, wireVars, clientVars>>

\* The outbox's floor timer fires: flush the next item, or fall idle.
OutboxFloor ==
  /\ flushing
  /\ IF outbox = << >>
     THEN flushing' = FALSE /\ UNCHANGED <<outbox, toClient>>
     ELSE /\ outbox' = Tail(outbox)
          /\ toClient' = Append(toClient, Head(outbox))
          /\ UNCHANGED flushing
  /\ UNCHANGED <<storeVars, stage, subscribed, reply, raced, toRelay, clientVars>>

\* Frames of one socket are processed in order, one at a time.
NextFrame(type) ==
  /\ toRelay # << >>
  /\ Head(toRelay).type = type
  /\ ~reply.pending
  /\ toRelay' = Tail(toRelay)

\* Mutant: the ack is sent without subscribing.
SessionResumeMutant ==
  /\ NextFrame("resume")
  /\ toClient' = IF announced THEN Append(toClient, [type |-> "announce"]) ELSE toClient
  /\ UNCHANGED <<storeVars, stage, relayVars, clientVars>>

\* session_resume: subscribe, then answer with session_announce; the resume of
\* a session the relay does not know is dropped without an answer.
SessionResume ==
  /\ NextFrame("resume")
  /\ IF announced
     THEN /\ subscribed' = TRUE
          /\ toClient' = Append(toClient, [type |-> "announce"])
     ELSE UNCHANGED <<subscribed, toClient>>
  /\ UNCHANGED <<storeVars, stage, outbox, flushing, reply, raced, clientVars>>

\* resync_request up to getEntriesSince.  When the ring has evicted past
\* sinceSeq the result's entries are the ring's own array, not a copy.
ResyncRead ==
  /\ NextFrame("resync")
  /\ announced
  /\ LET since == Head(toRelay).since
     IN reply' = [pending |-> TRUE, since |-> since,
                  dropped |-> since < lastEvicted,
                  droppedTo |-> lastEvicted,
                  entries |-> {n \in ring : n > since}]
  /\ UNCHANGED <<storeVars, stage, subscribed, outbox, flushing, raced, toClient, clientVars>>

\* A set of seqs as replayed updates, in increasing order.
Replay(S) == [i \in 1..Cardinality(S) |->
                OB!Update(Session, CHOOSE n \in S : Cardinality({m \in S : m <= n}) = i)]

\* The rest of resync_request: the marker, then the entries, past the outbox.
ResyncReply ==
  /\ reply.pending
  /\ toClient' = toClient
       \o (IF reply.dropped
           THEN <<OB!Marker(Session, reply.since + 1, reply.droppedTo)>> ELSE << >>)
       \o Replay(IF reply.dropped THEN ring ELSE reply.entries)
  /\ reply' = NoReply
  /\ UNCHANGED <<storeVars, stage, subscribed, outbox, flushing, raced, toRelay, clientVars>>

-----------------------------------------------------------------------------
(* The client.                                                             *)

\* initialize_result arrives: resubscribeSessionsOnReconnect sends one resume.
Connect ==
  /\ ~conn
  /\ connects < MaxConnects
  /\ conn' = TRUE
  /\ connects' = connects + 1
  /\ resynced' = FALSE
  /\ toRelay' = <<[type |-> "resume"]>>
  /\ toClient' = << >>
  /\ UNCHANGED <<storeVars, stage, relayVars, attempts, acked, cursor, chain, applied, gaps, failed>>

\* The socket is gone: what was on the wire is lost, the relay drops the
\* connection's subscription and outbox, and queued decrypts go on.
Disconnect ==
  /\ conn
  /\ conn' = FALSE
  /\ toRelay' = << >>
  /\ toClient' = << >>
  /\ subscribed' = FALSE
  /\ outbox' = << >>
  /\ flushing' = FALSE
  /\ reply' = NoReply
  /\ UNCHANGED <<storeVars, stage, raced, connects, attempts, acked, resynced, cursor,
                 chain, applied, gaps, failed>>

\* retrySessionResume's timer: send session_resume again until it is acked.
\* send() drops the frame while the socket is not open.
RetryResume ==
  /\ ~acked
  /\ attempts < MaxAttempts
  /\ attempts' = attempts + 1
  /\ toRelay' = IF conn THEN Append(toRelay, [type |-> "resume"]) ELSE toRelay
  /\ UNCHANGED <<storeVars, stage, relayVars, toClient, conn, connects, acked,
                 resynced, cursor, chain, applied, gaps, failed>>

\* acknowledgeSessionResume: the resync once per connection, from the
\* high-water mark of what has been applied.
ReceiveAnnounce ==
  /\ acked' = TRUE
  /\ IF resynced
     THEN UNCHANGED <<resynced, cursor, toRelay>>
     ELSE /\ resynced' = TRUE
          /\ cursor' = LastApplied
          /\ toRelay' = Append(toRelay, [type |-> "resync", since |-> LastApplied])
  /\ UNCHANGED <<chain, gaps>>

\* handleSessionUpdate: drop a seq already applied, queue any other.
ReceiveUpdate(n) ==
  /\ chain' = IF n \in AppliedSet THEN chain ELSE Append(chain, n)
  /\ UNCHANGED <<toRelay, acked, resynced, cursor, gaps>>

\* handleResyncMarker and reduceResyncGap.
ReceiveMarker(f, t) ==
  /\ gaps' = gaps \cup {<<f, t>>}
  /\ UNCHANGED <<toRelay, acked, resynced, cursor, chain>>

Receive ==
  /\ conn
  /\ toClient # << >>
  /\ toClient' = Tail(toClient)
  /\ LET m == Head(toClient)
     IN CASE m.type = "announce" -> ReceiveAnnounce
          [] m.type = "update"   -> ReceiveUpdate(m.from)
          [] m.type = "marker"   -> ReceiveMarker(m.from, m.to)
  /\ UNCHANGED <<storeVars, stage, relayVars, conn, connects, attempts, applied, failed>>

\* Mutant: no check of the applied seqs when an update's turn comes.
ProcessUpdateMutant ==
  /\ chain # << >>
  /\ chain' = Tail(chain)
  /\ applied' = Append(applied, Head(chain))
  /\ UNCHANGED <<storeVars, stage, relayVars, wireVars, conn, connects, attempts, acked,
                 resynced, cursor, gaps, failed>>

\* processSessionUpdate for the update whose turn it is: skip a duplicate,
\* otherwise decrypt and apply.
ProcessUpdate ==
  /\ chain # << >>
  /\ chain' = Tail(chain)
  /\ applied' = IF Head(chain) \in AppliedSet THEN applied
                ELSE Append(applied, Head(chain))
  /\ UNCHANGED <<storeVars, stage, relayVars, wireVars, conn, connects, attempts, acked,
                 resynced, cursor, gaps, failed>>

\* processSessionUpdate when the envelope does not decrypt or validate: the
\* update is dropped, and not marked as applied.
DecryptFails ==
  /\ chain # << >>
  /\ Head(chain) \notin AppliedSet
  /\ Cardinality(failed) < MaxFailures
  /\ chain' = Tail(chain)
  /\ failed' = failed \cup {Head(chain)}
  /\ UNCHANGED <<storeVars, stage, relayVars, wireVars, conn, connects, attempts, acked,
                 resynced, cursor, applied, gaps>>

-----------------------------------------------------------------------------
\* The client has the session open and has sent its first session_resume.
Init ==
  /\ announced = FALSE /\ counter = 0 /\ ring = {} /\ lastEvicted = 0 /\ refused = {}
  /\ stage = "idle"
  /\ subscribed = FALSE /\ outbox = << >> /\ flushing = FALSE
  /\ reply = NoReply /\ raced = {}
  /\ toRelay = <<[type |-> "resume"]>> /\ toClient = << >>
  /\ conn = TRUE /\ connects = 1 /\ attempts = 0 /\ acked = FALSE /\ resynced = FALSE /\ cursor = 0
  /\ chain = << >> /\ applied = << >> /\ gaps = {} /\ failed = {}

Node   == Announce \/ AssignSeq \/ (\E fits \in BOOLEAN : BufferUpdate(fits)) \/ FanOutUpdate
Relay  == OutboxFloor \/ SessionResume \/ ResyncRead \/ ResyncReply
Client == Connect \/ Disconnect \/ RetryResume \/ Receive \/ ProcessUpdate \/ DecryptFails

Next == Node \/ Relay \/ Client

Spec == Init /\ [][Next]_vars

\* Awaited continuations, timers and socket events are run by the event loops;
\* nothing obliges the node to produce or the network to fail or to recover.
Fairness ==
  /\ WF_vars(\E fits \in BOOLEAN : BufferUpdate(fits))
  /\ WF_vars(FanOutUpdate)
  /\ WF_vars(OutboxFloor)
  /\ WF_vars(SessionResume \/ ResyncRead \/ ResyncReply)
  /\ WF_vars(Receive)
  /\ WF_vars(ProcessUpdate)

FairSpec == Spec /\ Fairness

-----------------------------------------------------------------------------
\* Type invariant.
TypeOK ==
  /\ announced \in BOOLEAN
  /\ counter \in Nat
  /\ ring \subseteq 1..counter
  /\ lastEvicted \in 0..counter
  /\ refused \subseteq 1..counter
  /\ stage \in {"idle", "assigned", "buffered"}
  /\ subscribed \in BOOLEAN
  /\ flushing \in BOOLEAN
  /\ raced \subseteq 1..counter
  /\ conn \in BOOLEAN
  /\ connects \in Nat
  /\ attempts \in Nat
  /\ acked \in BOOLEAN
  /\ resynced \in BOOLEAN
  /\ cursor \in Nat
  /\ failed \subseteq Nat

\* Every seq given out is buffered, was evicted (which getEntriesSince reports
\* through lastEvictedSeq), was refused by the quota, or is the one whose
\* handler has not reached the ring yet; and the ring is within its capacity.
\* This is what a resync's completeness rests on.
RingAccountsForEverySeq ==
  /\ \A n \in 1..counter :
       \/ n \in ring
       \/ n <= lastEvicted
       \/ n \in refused
       \/ n = counter /\ stage = "assigned"
  /\ \A n \in ring : lastEvicted < n
  /\ Cardinality(ring) <= Capacity

\* No update reaches the transcript twice, although live fan-out and replay
\* can both deliver it and both copies can be queued before either is applied.
AppliedOnce ==
  \A i, j \in DOMAIN applied : applied[i] = applied[j] => i = j

\* Nothing of this connection is under way any more.
Quiet ==
  /\ conn /\ resynced
  /\ stage = "idle" /\ ~reply.pending
  /\ outbox = << >> /\ toRelay = << >> /\ toClient = << >> /\ chain = << >>

Accounted(n) ==
  \/ n \in AppliedSet
  \/ \E g \in gaps : n \in g[1]..g[2]
  \/ n \in refused
  \/ n \in failed

\* Once a connection is quiet, the client has every seq after the cursor it
\* resynced from: applied, shown as a gap, kept out by the quota or not
\* decryptable.  The one exception is a seq that was evicted between
\* getEntriesSince returning the ring's own array and the reply being sent.
CaughtUpSinceCursor ==
  Quiet => \A n \in (cursor + 1)..counter : Accounted(n) \/ n \in raced

\* A connection that has asked for its resync gets quiet, unless it is lost.
EventuallyQuiet == (conn /\ resynced) ~> (Quiet \/ ~conn)

\* What relay-client.ts expects of a reconnect: "the resync recovering
\* whatever was missed while disconnected", with no seq missing unnoticed.
NoSilentGap ==
  Quiet => \A n \in 1..counter : Accounted(n) \/ n \in raced

=============================================================================

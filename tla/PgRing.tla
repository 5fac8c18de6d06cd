-------------------------------- MODULE PgRing --------------------------------
(***************************************************************************)
(* The resync ring of one session as the Postgres store keeps it           *)
(* (packages/relay/src/store-postgres.ts): a seq counter, a ring row with  *)
(* the highest seq evicted, and one row per buffered update.  No operation *)
(* runs in a transaction, so every SQL statement is a step of its own, and *)
(* the operations of these actors interleave:                              *)
(*   - the sockets of the owning node, an old one whose frames still wait  *)
(*     and the one that replaced it; each handles one frame at a time      *)
(*     (relay.ts: session_update, session_archive_response);               *)
(*   - the retention pass, a process of its own (prune.ts, prune-cli.ts);  *)
(*   - a client's resync_request.                                          *)
(* A query may fail, which ends the operation where it stands.             *)
(*                                                                         *)
(* An update is its seq; the rows of session_ring_entries are the set of   *)
(* their seqs.  No counter row and a null last_evicted_seq are 0: seqs     *)
(* start at 1.                                                             *)
(***************************************************************************)
EXTENDS Integers, FiniteSets

CONSTANTS Sockets,     \* the node's connections
          Pruner,      \* the retention pass
          Capacity,    \* ringBufferSize
          MaxUpdates,  \* bound: updates the node sends
          MaxOthers    \* bound: deletions, size-cap passes, resyncs and failed queries

ASSUME RingAssumption ==
  /\ Pruner \notin Sockets
  /\ Capacity \in Nat \ {0}
  /\ {MaxUpdates, MaxOthers} \subseteq Nat

Actors == Sockets \cup {Pruner}

VARIABLES
  \* tables
  session,  \* the row of sessions is there
  counter,  \* session_seq_counters.seq
  ring,     \* the row of session_rings is there
  mark,     \* session_rings.last_evicted_seq
  entries,  \* seqs of session_ring_entries
  \* operations
  job,      \* per actor: what its operation has read so far, and its next statement
  reply,    \* the resync in progress or answered last; history: missed, the seqs the
            \* answer neither holds nor marks, and clean, nothing was being evicted
  \* history
  stored,   \* every seq put in the ring since the session was last deleted
  raced,    \* an entry came below one stored before, or a deletion met another operation
  lowered,  \* last_evicted_seq was overwritten by a lower value, or not written at all
  failed,   \* a query has failed
  left      \* what is left of each bound

tables == <<session, counter, ring, mark, entries>>
history == <<stored, raced, lowered, failed>>
vars == <<tables, job, reply, history, left>>

\* seq: the update's seq, or throughSeq.  over: overflow.  low: the oldest seq read,
\* or the mark.  gone: the highest seq this operation has deleted.  todo: ring
\* entries the retention pass has listed.
Idle == [pc |-> "idle", seq |-> 0, over |-> 0, low |-> 0, gone |-> 0, todo |-> {}]

NoReply == [pc |-> "none", since |-> 0, mark |-> 0, entries |-> {}, missed |-> {},
            clean |-> TRUE]

Least(S) == CHOOSE n \in S : \A m \in S : n <= m
Greatest(S) == CHOOSE n \in S : \A m \in S : m <= n
Higher(m, n) == IF m > n THEN m ELSE n

At(a, pc) == job[a].pc = pc
Goto(a, j) == job' = [job EXCEPT ![a] = j]
Step(a, pc) == Goto(a, [job[a] EXCEPT !.pc = pc])
Spend(bound) == left[bound] > 0 /\ left' = [left EXCEPT ![bound] = @ - 1]

Deletions == {"deleteEntries", "deleteRing", "deleteCounter", "deleteSession"}
Deleting(a) == job[a].pc \in Deletions

\* An operation of actor a begins while a deletion runs, or the other way round.
Crosses(a, deleting) ==
  \/ \E b \in Actors \ {a} : ~At(b, "idle") /\ (deleting \/ Deleting(b))
  \/ deleting /\ reply.pc = "marked"

\* The seqs S leave the ring: a resync between its two statements may miss them.
Dropped(S) == reply' = [reply EXCEPT !.clean = @ /\ (reply.pc # "marked" \/ S = {})]

-----------------------------------------------------------------------------
Init ==
  /\ session = FALSE /\ counter = 0 /\ ring = FALSE /\ mark = 0 /\ entries = {}
  /\ job = [a \in Actors |-> Idle]
  /\ reply = NoReply
  /\ stored = {} /\ raced = FALSE /\ lowered = FALSE
  /\ failed = FALSE
  /\ left = [updates |-> MaxUpdates, others |-> MaxOthers]

-----------------------------------------------------------------------------
(* session_announce and session_update.                                    *)

\* session_announce: an upsert.
Announce(s) ==
  /\ At(s, "idle") /\ ~session
  /\ session' = TRUE
  /\ raced' = (raced \/ Crosses(s, FALSE))
  /\ UNCHANGED <<counter, ring, mark, entries, job, reply, stored, lowered, failed, left>>

\* sessions.get: the update of a known session goes on.
GetRecord(s) ==
  /\ At(s, "idle") /\ session
  /\ Spend("updates")
  /\ Step(s, "readCounter")
  /\ raced' = (raced \/ Crosses(s, FALSE))
  /\ UNCHANGED <<tables, reply, stored, lowered, failed>>

\* nextSeq: the SELECT.
ReadCounter(s) ==
  /\ At(s, "readCounter")
  /\ Goto(s, [job[s] EXCEPT !.pc = "writeCounter", !.seq = counter + 1])
  /\ UNCHANGED <<tables, reply, history, left>>

\* nextSeq: the UPDATE, of no row if it is gone, or, for the first seq, the INSERT,
\* which fails when another has inserted it.
WriteCounter(s) ==
  LET first == job[s].seq = 1
      there == counter > 0
  IN
  /\ At(s, "writeCounter")
  /\ IF first /\ there THEN Goto(s, Idle) ELSE Step(s, "quota")
  /\ counter' = IF first # there THEN job[s].seq ELSE counter
  /\ UNCHANGED <<session, ring, mark, entries, reply, history, left>>

\* hasQuotaFor: an update over the quota is fanned out and not buffered.
CheckQuota(s, fits) ==
  /\ At(s, "quota")
  /\ IF fits THEN Step(s, "readRing") ELSE Goto(s, Idle)
  /\ UNCHANGED <<tables, reply, history, left>>

\* pushRingEntry: the SELECT of the ring row.
ReadRing(s) ==
  /\ At(s, "readRing")
  /\ Step(s, IF ring THEN "insertEntry" ELSE "insertRing")
  /\ UNCHANGED <<tables, reply, history, left>>

\* The INSERT of the ring row fails when another has inserted it.
InsertRing(s) ==
  /\ At(s, "insertRing")
  /\ IF ring
     THEN Goto(s, Idle) /\ UNCHANGED <<ring, mark>>
     ELSE Step(s, "insertEntry") /\ ring' = TRUE /\ mark' = 0
  /\ UNCHANGED <<session, counter, entries, reply, history, left>>

\* The INSERT of the entry fails on a seq that is there already.
InsertEntry(s) ==
  LET n == job[s].seq IN
  /\ At(s, "insertEntry")
  /\ IF n \in entries
     THEN Goto(s, Idle) /\ UNCHANGED <<entries, stored, raced>>
     ELSE /\ Step(s, "count")
          /\ entries' = entries \cup {n}
          /\ stored' = stored \cup {n}
          /\ raced' = (raced \/ \E m \in stored : m >= n)
  /\ UNCHANGED <<session, counter, ring, mark, reply, lowered, failed, left>>

\* Mutant: overflow starts one above the capacity.
CountMutant(s) ==
  LET over == Cardinality(entries) - Capacity - 1 IN
  /\ At(s, "count")
  /\ IF over > 0
     THEN Goto(s, [job[s] EXCEPT !.pc = "readOldest", !.over = over])
     ELSE Goto(s, Idle)
  /\ UNCHANGED <<tables, reply, history, left>>

\* SELECT COUNT.  An entry that fits ends the push, and the update is fanned out.
Count(s) ==
  LET over == Cardinality(entries) - Capacity IN
  /\ At(s, "count")
  /\ IF over > 0
     THEN Goto(s, [job[s] EXCEPT !.pc = "readOldest", !.over = over])
     ELSE Goto(s, Idle)
  /\ UNCHANGED <<tables, reply, history, left>>

\* Mutant: ORDER BY seq DESC.
OldestMutant == Greatest(entries)

\* ORDER BY seq ASC LIMIT 1.
Oldest == Least(entries)

\* The SELECT of the oldest entry; none is left when others have deleted them.
ReadOldest(s) ==
  /\ At(s, "readOldest")
  /\ IF entries # {}
     THEN Goto(s, [job[s] EXCEPT !.pc = "evict", !.low = Oldest])
     ELSE IF job[s].gone > 0 THEN Step(s, "writeMark") ELSE Goto(s, Idle)
  /\ UNCHANGED <<tables, reply, history, left>>

\* The DELETE of that entry, whether or not it is still there.
Evict(s) ==
  LET n == job[s].low IN
  /\ At(s, "evict")
  /\ entries' = entries \ {n}
  /\ Goto(s, [job[s] EXCEPT !.pc = IF job[s].over > 1 THEN "readOldest" ELSE "writeMark",
                            !.gone = n, !.over = @ - 1])
  /\ Dropped(entries \cap {n})
  /\ UNCHANGED <<session, counter, ring, mark, history, left>>

\* The UPDATE of last_evicted_seq with what this push evicted, whatever is there.
WriteMark(s) ==
  LET n == job[s].gone IN
  /\ At(s, "writeMark") /\ s \in Sockets
  /\ mark' = IF ring THEN n ELSE mark
  /\ lowered' = (lowered \/ n < mark)
  /\ Goto(s, Idle)
  /\ UNCHANGED <<session, counter, ring, entries, reply, stored, raced, failed, left>>

-----------------------------------------------------------------------------
(* deleteSession: an archive on the node's socket, or the retention pass's   *)
(* expiry.                                                                   *)

BeginDelete(a) ==
  /\ At(a, "idle") /\ session
  /\ Spend("others")
  /\ Step(a, "deleteEntries")
  /\ raced' = (raced \/ Crosses(a, TRUE))
  /\ UNCHANGED <<tables, reply, stored, lowered, failed>>

DeleteEntries(a) ==
  /\ At(a, "deleteEntries")
  /\ entries' = {} /\ stored' = {}
  /\ Dropped(entries)
  /\ Step(a, "deleteRing")
  /\ UNCHANGED <<session, counter, ring, mark, raced, lowered, failed, left>>

DeleteRing(a) ==
  /\ At(a, "deleteRing")
  /\ ring' = FALSE /\ mark' = 0
  /\ Step(a, "deleteCounter")
  /\ UNCHANGED <<session, counter, entries, reply, history, left>>

DeleteCounter(a) ==
  /\ At(a, "deleteCounter")
  /\ counter' = 0
  /\ Step(a, "deleteSession")
  /\ UNCHANGED <<session, ring, mark, entries, reply, history, left>>

DeleteSession(a) ==
  /\ At(a, "deleteSession")
  /\ session' = FALSE
  /\ Goto(a, Idle)
  /\ UNCHANGED <<counter, ring, mark, entries, reply, history, left>>

-----------------------------------------------------------------------------
(* The size-cap pass.  The account's other data decides when it stops.       *)

\* listRingEntriesForRetention, which joins the entries to their session.
ListForRetention ==
  /\ At(Pruner, "idle") /\ session /\ entries # {}
  /\ Spend("others")
  /\ Goto(Pruner, [Idle EXCEPT !.pc = "prune", !.todo = entries])
  /\ raced' = (raced \/ Crosses(Pruner, FALSE))
  /\ UNCHANGED <<tables, reply, stored, lowered, failed>>

\* Under the cap, or through the list.
StopPass ==
  /\ At(Pruner, "prune")
  /\ Goto(Pruner, Idle)
  /\ UNCHANGED <<tables, reply, history, left>>

\* pruneRingEntriesThrough of the next entry listed: the SELECT.  One with
\* nothing to delete returns.
ReadToDelete ==
  LET through == Least(job[Pruner].todo)
      toDelete == {n \in entries : n <= through}
      rest == job[Pruner].todo \ {through}
  IN
  /\ At(Pruner, "prune") /\ job[Pruner].todo # {}
  /\ IF toDelete = {}
     THEN Goto(Pruner, [job[Pruner] EXCEPT !.todo = rest])
     ELSE Goto(Pruner, [job[Pruner] EXCEPT !.pc = "deleteThrough", !.seq = through,
                                           !.gone = Greatest(toDelete), !.todo = rest])
  /\ UNCHANGED <<tables, reply, history, left>>

\* The DELETE, of what is there now.
DeleteThrough ==
  LET S == {n \in entries : n <= job[Pruner].seq} IN
  /\ At(Pruner, "deleteThrough")
  /\ entries' = entries \ S
  /\ Dropped(S)
  /\ Step(Pruner, "readMark")
  /\ UNCHANGED <<session, counter, ring, mark, history, left>>

\* The SELECT of last_evicted_seq.
ReadMark ==
  /\ At(Pruner, "readMark")
  /\ Goto(Pruner, [job[Pruner] EXCEPT !.pc = "writeMark", !.low = mark])
  /\ UNCHANGED <<tables, reply, history, left>>

\* Mutant: the higher of the two is not taken.
NextMarkMutant(j) == j.low

\* nextLastEvicted.
NextMark(j) == Higher(j.low, j.gone)

\* The UPDATE with the higher of the mark read and what was deleted.
RaiseMark ==
  LET n == NextMark(job[Pruner]) IN
  /\ At(Pruner, "writeMark")
  /\ mark' = IF ring THEN n ELSE mark
  /\ lowered' = (lowered \/ n < mark)
  /\ Goto(Pruner, [Idle EXCEPT !.pc = "prune", !.todo = job[Pruner].todo])
  /\ UNCHANGED <<session, counter, ring, entries, reply, stored, raced, failed, left>>

-----------------------------------------------------------------------------
\* A query rejects: the frame's handler, or the whole pass, ends there.  The
\* entries it has deleted go unmarked.
QueryFails(a) ==
  /\ ~At(a, "idle")
  /\ Spend("others")
  /\ Goto(a, Idle)
  /\ lowered' = (lowered \/ job[a].gone > 0)
  /\ raced' = (raced \/ Deleting(a))
  /\ failed' = TRUE
  /\ UNCHANGED <<tables, reply, stored>>

-----------------------------------------------------------------------------
(* getEntriesSince for a client at seq since.                                *)

\* Someone has deleted entries and not yet written the mark.
Unmarked == \E a \in Actors : job[a].gone > 0

ReadEvicted(since) ==
  /\ reply.pc # "marked" /\ session
  /\ Spend("others")
  /\ reply' = [pc |-> "marked", since |-> since, mark |-> mark, entries |-> {},
               missed |-> {}, clean |-> ~Unmarked]
  /\ raced' = (raced \/ \E a \in Actors : Deleting(a))
  /\ UNCHANGED <<tables, job, stored, lowered, failed>>

\* The entries; the relay then sends the marker, if any, and the entries.
ReadEntries ==
  /\ reply.pc = "marked"
  /\ reply' = [reply EXCEPT
       !.pc = "answered",
       !.entries = {n \in entries : n > reply.since},
       !.missed = {n \in stored \ entries : n > reply.since /\ n > reply.mark}]
  /\ UNCHANGED <<tables, job, history, left>>

\* droppedFromSeq to droppedToSeq of the answer.
Marker == IF reply.since < reply.mark THEN (reply.since + 1)..reply.mark ELSE {}

-----------------------------------------------------------------------------
Next ==
  \/ \E s \in Sockets :
       \/ Announce(s) \/ GetRecord(s)
       \/ ReadCounter(s) \/ WriteCounter(s)
       \/ \E fits \in BOOLEAN : CheckQuota(s, fits)
       \/ ReadRing(s) \/ InsertRing(s) \/ InsertEntry(s)
       \/ Count(s) \/ ReadOldest(s) \/ Evict(s) \/ WriteMark(s)
  \/ \E a \in Actors :
       \/ BeginDelete(a) \/ DeleteEntries(a) \/ DeleteRing(a)
       \/ DeleteCounter(a) \/ DeleteSession(a)
       \/ QueryFails(a)
  \/ ListForRetention \/ StopPass \/ ReadToDelete
  \/ DeleteThrough \/ ReadMark \/ RaiseMark
  \/ \E since \in 0..MaxUpdates : ReadEvicted(since)
  \/ ReadEntries

Spec == Init /\ [][Next]_vars

-----------------------------------------------------------------------------
Steps == {"idle", "readCounter", "writeCounter", "quota", "readRing", "insertRing",
          "insertEntry", "count", "readOldest", "evict", "writeMark",
          "prune", "deleteThrough", "readMark"} \cup Deletions

Jobs == [pc : Steps, seq : Nat, over : Nat, low : Nat, gone : Nat,
         todo : SUBSET (Nat \ {0})]

\* Type invariant.
TypeOK ==
  /\ session \in BOOLEAN /\ ring \in BOOLEAN
  /\ counter \in Nat /\ mark \in Nat
  /\ entries \in SUBSET (Nat \ {0}) /\ stored \in SUBSET (Nat \ {0})
  /\ job \in [Actors -> Jobs]
  /\ reply \in [pc : {"none", "marked", "answered"}, since : Nat, mark : Nat,
                entries : SUBSET Nat, missed : SUBSET Nat, clean : BOOLEAN]
  /\ raced \in BOOLEAN /\ lowered \in BOOLEAN /\ failed \in BOOLEAN
  /\ left \in [{"updates", "others"} -> Nat]

\* What pushes and prunes have removed is older than anything they left, however
\* their statements interleave and wherever one fails: each deletes the oldest
\* entry it read, or a prefix, and neither skips one.  Only an update that comes
\* after a newer one, or a deletion of the whole session, breaks it.
OldestFirst == ~raced => \A n \in stored \ entries, m \in entries : n < m

\* A resync answer marks as dropped nothing that it also replays, and when no
\* eviction was under way and no mark lost, it replays or marks every update that
\* was ever buffered after the client's seq: no silent gap.
AnswerHonest ==
  reply.pc = "answered" /\ ~raced =>
    /\ Marker \cap reply.entries = {}
    /\ reply.clean /\ ~lowered => reply.missed = {}

\* When the node's sockets rest the ring is back within its capacity: pushes that
\* count each other's entries, and a prune that empties the ring under them,
\* evict at least what they added.
CapacityKept ==
  ~failed /\ (\A s \in Sockets : At(s, "idle"))
    => Cardinality(entries) <= Capacity

=============================================================================

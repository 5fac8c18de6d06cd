----------------------------- MODULE OutboxQueue -----------------------------
(***************************************************************************)
(* The queue operations of the relay's bounded output queues towards a     *)
(* client connection: BoundedClientOutbox (packages/relay/src/outbox.ts),  *)
(* one instance for all the sessions of a connection, and                  *)
(* BoundedTerminalOutbox (terminal-outbox.ts), which takes several         *)
(* terminals too, although the relay makes one instance per terminal.      *)
(* Both push an item, shift the oldest ones when the queue is deeper than  *)
(* maxDepth, and put markers for what they dropped in front.  They differ  *)
(* only in how dropped items are grouped into markers, which is the        *)
(* constant Grouping here.                                                 *)
(*                                                                         *)
(* An item is the key of its stream (a session, or a session and terminal) *)
(* and the range of sequence numbers it stands for: one number for a live  *)
(* update, from..to for a marker.  Ciphertext is left out.                 *)
(***************************************************************************)
EXTENDS Integers, Sequences, FiniteSets

CONSTANTS Keys,      \* sessionId, or sessionId:terminalId
          MaxDepth,  \* maxClientQueueDepth / maxTerminalQueueDepth
          Grouping   \* "contiguous" in outbox.ts, "perKey" in terminal-outbox.ts

Item == [type : {"update", "marker"}, key : Keys, from : Nat, to : Nat]

Update(k, n) == [type |-> "update", key |-> k, from |-> n, to |-> n]

Marker(k, f, t) == [type |-> "marker", key |-> k, from |-> f, to |-> t]

-----------------------------------------------------------------------------
(* buildMarkers: the positions of the dropped batch at which a new marker  *)
(* starts, and the marker that starts there.                               *)

\* Mutant: terminals grouped the way outbox.ts groups sessions, the first cut
\* that terminal-outbox.ts describes.
StartsMutant(d) == {i \in 1..Len(d) : i > 1 => d[i].key # d[i-1].key}

\* outbox.ts starts a marker wherever the session changes; terminal-outbox.ts
\* at the first item of each key of the batch.
Starts(d) ==
  IF Grouping = "contiguous"
  THEN {i \in 1..Len(d) : i > 1 => d[i].key # d[i-1].key}
  ELSE {i \in 1..Len(d) : \A j \in 1..(i-1) : d[j].key # d[i].key}

\* The positions a marker started at i speaks for: outbox.ts's run, or every
\* item of the key.
GroupOf(d, i) ==
  IF Grouping = "contiguous"
  THEN {j \in i..Len(d) : \A l \in i..j : d[l].key = d[i].key}
  ELSE {j \in 1..Len(d) : d[j].key = d[i].key}

\* Mutant: the marker forgets what an earlier, re-dropped marker covered.
MarkerAtMutant(d, i) ==
  LET G == GroupOf(d, i)
      last == CHOOSE j \in G : \A l \in G : j >= l
  IN Marker(d[i].key, d[last].to, d[last].to)

\* outbox.ts takes from of the first item of the run and to of the last one,
\* terminal-outbox.ts the least from and the greatest to.
MarkerAt(d, i) ==
  LET G == GroupOf(d, i)
      first == CHOOSE j \in G : \A l \in G :
                 IF Grouping = "contiguous" THEN j <= l ELSE d[j].from <= d[l].from
      last  == CHOOSE j \in G : \A l \in G :
                 IF Grouping = "contiguous" THEN j >= l ELSE d[j].to >= d[l].to
  IN Marker(d[i].key, d[first].from, d[last].to)

\* The n-th smallest element of a set of positions.
Nth(S, n) == CHOOSE i \in S : Cardinality({j \in S : j <= i}) = n

BuildMarkers(d) ==
  [n \in 1..Cardinality(Starts(d)) |-> MarkerAt(d, Nth(Starts(d), n))]

\* Mutant: the markers go behind the updates that were kept.
DropOldestMutant(q) ==
  LET excess == Len(q) - MaxDepth
  IN IF excess > 0
     THEN SubSeq(q, excess + 1, Len(q)) \o BuildMarkers(SubSeq(q, 1, excess))
     ELSE q

\* enqueue's overflow branch: shift until the queue is maxDepth deep, then
\* unshift the markers of what was shifted.
DropOldest(q) ==
  LET excess == Len(q) - MaxDepth
  IN IF excess > 0
     THEN BuildMarkers(SubSeq(q, 1, excess)) \o SubSeq(q, excess + 1, Len(q))
     ELSE q

==============================================================================

----------------------------- MODULE SessionLease -----------------------------
(***************************************************************************)
(* Ownership of one ssh session among several nodes.  Each node has a lease*)
(* in its own memory (SessionLeaseManager, packages/node/src/ssh/          *)
(* session-lease.ts), which is what it looks at before it drives the       *)
(* session, and asks the relay for another (relay-lease-client.ts,         *)
(* relay.ts), which arbitrates between nodes.  node-daemon.ts acquires both*)
(* when the session is scheduled, renews both on a heartbeat and gives both*)
(* up when the session stops.                                              *)
(*                                                                         *)
(* The relay keeps leases in memory, where a request is one atomic step, or*)
(* in Postgres, where it reads the row in one statement and writes it in   *)
(* another.  Links lose what they carry when they drop, the relay restarts,*)
(* nodes crash, and a request may time out before its answer comes.  What  *)
(* the relay had received of a dropped link stays in that socket's chain   *)
(* and is handled all the same, beside the requests of the next socket.    *)
(*                                                                         *)
(* A lease is the number of ticks it has left, 0 for none or expired.  Both*)
(* sides use the TTL the node asks for (30 s, below the relay's limit).    *)
(* The relay chains the frames of one socket, so the requests of one node  *)
(* are handled one after another; those of two nodes interleave.           *)
(***************************************************************************)
EXTENDS Integers, Sequences, FiniteSets

CONSTANTS Nodes,
          Nobody,     \* no holder
          Ttl,        \* leaseManager.ttlMs, in ticks
          Beat,       \* leaseHeartbeatIntervalMs, in ticks
          MaxWire,    \* bound: messages under way of one node when time passes or a user acts
          MaxLeaseFaults  \* bound: drops, restarts, crashes and timeouts

ASSUME LeaseAssumption ==
  /\ IsFiniteSet(Nodes)
  /\ Nobody \notin Nodes
  /\ Ttl \in Nat \ {0} /\ Beat \in 1..Ttl
  /\ MaxWire \in Nat \ {0} /\ MaxLeaseFaults \in Nat

VARIABLES
  \* node
  leasePc,   \* "idle", "acquiring" (acquireRelayLeaseOrRollback), "running" (heartbeat on)
  local,     \* ticks left of the lease in leaseManager
  beat,      \* ticks to the next heartbeat
  deferred,  \* requests that await whenConnected()
  \* link
  up,        \* the node is connected to the relay
  toRelay,   \* requests under way; heard: the node still waits for the answer
  toNode,    \* answers under way
  \* relay
  memory,    \* the in-memory store, or else Postgres
  holder,    \* holderNodeId of the lease
  left,      \* ticks left of it
  read,      \* per node: what the request being handled has read, Postgres only
  late,      \* per fault: the chain of the socket it ended, if that is not done
  \* history
  answered,  \* the node's latest request was answered and the answer heard
  raced,     \* a Postgres write was based on a row that had changed
  withdrawn, \* nodes whose lease a late release removed, until the next grant
  leaseFaults

nodeVars == <<leasePc, local, beat, deferred>>
linkVars == <<up, toRelay, toNode>>
relayVars == <<memory, holder, left, read, late>>
leaseHistory == <<answered, raced, withdrawn, leaseFaults>>
leaseVars == <<nodeVars, linkVars, relayVars, leaseHistory>>

NoRead == [holder |-> Nobody, live |-> FALSE, pending |-> FALSE]

\* The chain of frames of a socket that has closed: the requests left in it, and
\* what the first of them has read.
NoChain == [node |-> Nobody, asks |-> << >>, read |-> NoRead]

\* isLeaseholder, of a node that has the session's bridge: assertStillLeaseholder
\* lets it drive.
Driving(n) == leasePc[n] = "running" /\ local[n] > 0

-----------------------------------------------------------------------------
LeaseInit ==
  /\ leasePc = [n \in Nodes |-> "idle"]
  /\ local = [n \in Nodes |-> 0]
  /\ beat = [n \in Nodes |-> 0]
  /\ deferred = [n \in Nodes |-> << >>]
  /\ up = [n \in Nodes |-> TRUE]
  /\ toRelay = [n \in Nodes |-> << >>]
  /\ toNode = [n \in Nodes |-> << >>]
  /\ memory \in BOOLEAN
  /\ holder = Nobody
  /\ left = 0
  /\ read = [n \in Nodes |-> NoRead]
  /\ late = [k \in 1..MaxLeaseFaults |-> NoChain]
  /\ answered = [n \in Nodes |-> FALSE]
  /\ raced = FALSE
  /\ withdrawn = {}
  /\ leaseFaults = 0

LeaseFault == leaseFaults < MaxLeaseFaults /\ leaseFaults' = leaseFaults + 1

\* The messages of n that are under way, on its link or left in the chains of its
\* closed sockets.
Outstanding(n) ==
  LET Closed == {k \in 1..MaxLeaseFaults : late[k].node = n}
      InChains == UNION {{k} \X DOMAIN late[k].asks : k \in Closed}
  IN Len(toRelay[n]) + Len(toNode[n]) + Cardinality(InChains)

\* The link is not at the bound: a user's actions are slower than messages.
Room(n) == Outstanding(n) + Len(deferred[n]) < MaxWire

Message(kind, heard) == [kind |-> kind, heard |-> heard]

\* request(): at once, or after whenConnected().  Renewals that pile up are sent
\* and answered together, so one stands for all of them.
Request(n, kind) ==
  IF up[n]
  THEN /\ toRelay' = [toRelay EXCEPT ![n] = Append(@, Message(kind, TRUE))]
       /\ UNCHANGED deferred
  ELSE /\ deferred' = [deferred EXCEPT ![n] =
                         IF kind = "renew" /\ @ # << >> /\ @[Len(@)] = "renew"
                         THEN @ ELSE Append(@, kind)]
       /\ UNCHANGED toRelay

\* scheduleSshSession: the local lease is free, the relay's is asked for.
Schedule(n) ==
  /\ leasePc[n] = "idle" /\ Room(n)
  /\ leasePc' = [leasePc EXCEPT ![n] = "acquiring"]
  /\ local' = [local EXCEPT ![n] = Ttl]
  /\ Request(n, "acquire")
  /\ answered' = [answered EXCEPT ![n] = FALSE]
  /\ UNCHANGED <<beat, up, toNode, relayVars, raced, withdrawn, leaseFaults>>

\* startLeaseHeartbeat.
StartLeaseHeartbeat(n) ==
  /\ leasePc' = [leasePc EXCEPT ![n] = "running"]
  /\ beat' = [beat EXCEPT ![n] = Beat]

\* awaitRelayMessage gives up: nobody listens for the answers under way.  A
\* renewal's timeout is logged; an acquire's lets the session start.
TimedOut(n) ==
  LET Deaf(ms) == [i \in DOMAIN ms |-> [ms[i] EXCEPT !.heard = FALSE]]
  IN /\ toRelay' = [toRelay EXCEPT ![n] = Deaf(@)]
     /\ toNode' = [toNode EXCEPT ![n] = Deaf(@)]

RequestTimesOut(n) ==
  /\ LeaseFault
  /\ TimedOut(n)
  /\ \/ /\ leasePc[n] = "acquiring" /\ deferred[n] = << >>
        /\ StartLeaseHeartbeat(n)
     \/ /\ leasePc[n] = "running"
        /\ \E i \in DOMAIN toRelay[n] : toRelay[n][i].heard
        /\ UNCHANGED <<leasePc, beat>>
  /\ UNCHANGED <<local, deferred, up, relayVars, answered, raced, withdrawn>>

\* Mutant: the local lease is taken again rather than renewed.
RenewedMutant(n) == Ttl

\* leaseManager.renew: only a lease that is still live.
Renewed(n) == IF local[n] > 0 THEN Ttl ELSE 0

\* The interval of startLeaseHeartbeat: both renewals, neither waits for the
\* other.
Heartbeat(n) ==
  /\ leasePc[n] = "running" /\ beat[n] = 0
  /\ beat' = [beat EXCEPT ![n] = Beat]
  /\ local' = [local EXCEPT ![n] = Renewed(n)]
  /\ Request(n, "renew")
  /\ answered' = [answered EXCEPT ![n] = FALSE]
  /\ UNCHANGED <<leasePc, up, toNode, relayVars, raced, withdrawn, leaseFaults>>

\* stopLeaseHeartbeat, from archiving, a failed launch or close(): the release
\* is sent if the link is up and forgotten if it is not.
StopLeaseHeartbeat(n) ==
  /\ leasePc[n] = "running" /\ Room(n)
  /\ leasePc' = [leasePc EXCEPT ![n] = "idle"]
  /\ local' = [local EXCEPT ![n] = 0]
  /\ beat' = [beat EXCEPT ![n] = 0]
  /\ toRelay' = IF up[n]
                THEN [toRelay EXCEPT ![n] = Append(@, Message("release", FALSE))]
                ELSE toRelay
  /\ UNCHANGED <<deferred, up, toNode, relayVars, leaseHistory>>

-----------------------------------------------------------------------------
(* The relay.  A request of node n finds holder h, with a live lease or not.  *)

\* Mutant: the holder's lease is not looked at, only who asks.
GrantsMutant(kind, n, h, live) == kind = "acquire" \/ (h = n /\ live)

\* acquire and renew of the lease stores.
Grants(kind, n, h, live) ==
  IF kind = "acquire" THEN h \in {Nobody, n} \/ ~live ELSE h = n /\ live

\* A release removes the lease of the node that asks.
Removes(kind, n, h) == kind = "release" /\ h = n

\* What the store does for a request of n that was decided on holder h.
Store(kind, n, h, live) ==
  CASE Removes(kind, n, h) -> holder' = Nobody /\ left' = 0
    [] kind # "release" /\ Grants(kind, n, h, live) -> holder' = n /\ left' = Ttl
    [] OTHER -> UNCHANGED <<holder, left>>

\* The store's write and the reply, for the request at the head of n's link.
Decide(n, h, live) ==
  LET m == Head(toRelay[n])
      granted == Grants(m.kind, n, h, live)
      reply == [kind |-> m.kind, granted |-> granted, heard |-> m.heard]
  IN /\ toRelay' = [toRelay EXCEPT ![n] = Tail(@)]
     /\ Store(m.kind, n, h, live)
     /\ toNode' = IF m.kind = "release" THEN toNode
                  ELSE [toNode EXCEPT ![n] = Append(@, reply)]
     /\ withdrawn' = IF m.kind # "release" /\ granted THEN withdrawn \ {n} ELSE withdrawn

\* handleLeaseRequest and handleLeaseRelease on the in-memory store.
RelayHandles(n) ==
  /\ memory /\ toRelay[n] # << >>
  /\ Decide(n, holder, left > 0)
  /\ UNCHANGED <<nodeVars, up, memory, read, late, answered, raced, leaseFaults>>

\* On Postgres: the SELECT of currentLease.
RelayReads(n) ==
  /\ ~memory /\ toRelay[n] # << >> /\ ~read[n].pending
  /\ read' = [read EXCEPT ![n] = [holder |-> holder, live |-> left > 0, pending |-> TRUE]]
  /\ UNCHANGED <<nodeVars, linkVars, memory, holder, left, late, leaseHistory>>

\* A Postgres write based on r: the row is no longer what was read.
Changed(r) == r.holder # holder \/ r.live # (left > 0)

\* The INSERT of grant, or the DELETE of release, or nothing.
RelayWrites(n) ==
  /\ read[n].pending /\ toRelay[n] # << >>
  /\ Decide(n, read[n].holder, read[n].live)
  /\ raced' = (raced \/ Changed(read[n]))
  /\ read' = [read EXCEPT ![n] = NoRead]
  /\ UNCHANGED <<nodeVars, up, memory, late, answered, leaseFaults>>

\* The same for the first request in the chain of a closed socket; its reply goes
\* nowhere.
DecideLate(k, h, live) ==
  LET c == late[k]
      kind == Head(c.asks)
  IN /\ Store(kind, c.node, h, live)
     /\ late' = [late EXCEPT ![k] =
                   IF Len(c.asks) = 1 THEN NoChain
                   ELSE [node |-> c.node, asks |-> Tail(c.asks), read |-> NoRead]]
     /\ withdrawn' = CASE Removes(kind, c.node, h) -> withdrawn \cup {c.node}
                       [] kind # "release" /\ Grants(kind, c.node, h, live)
                            -> withdrawn \ {c.node}
                       [] OTHER -> withdrawn

LateHandles(k) ==
  /\ memory /\ late[k].asks # << >>
  /\ DecideLate(k, holder, left > 0)
  /\ UNCHANGED <<nodeVars, linkVars, memory, read, answered, raced, leaseFaults>>

LateReads(k) ==
  /\ ~memory /\ late[k].asks # << >> /\ ~late[k].read.pending
  /\ late' = [late EXCEPT ![k].read = [holder |-> holder, live |-> left > 0, pending |-> TRUE]]
  /\ UNCHANGED <<nodeVars, linkVars, memory, holder, left, read, leaseHistory>>

LateWrites(k) ==
  /\ late[k].read.pending /\ late[k].asks # << >>
  /\ DecideLate(k, late[k].read.holder, late[k].read.live)
  /\ raced' = (raced \/ Changed(late[k].read))
  /\ UNCHANGED <<nodeVars, linkVars, memory, read, answered, leaseFaults>>

-----------------------------------------------------------------------------
\* Mutant: a denied renewal is logged like a failed one.
HeardMutant(n, m) ==
  IF m.kind = "acquire" /\ leasePc[n] = "acquiring"
  THEN IF m.granted
       THEN StartLeaseHeartbeat(n) /\ UNCHANGED local
       ELSE /\ leasePc' = [leasePc EXCEPT ![n] = "idle"]
            /\ local' = [local EXCEPT ![n] = 0]
            /\ UNCHANGED beat
  ELSE UNCHANGED <<leasePc, local, beat>>

\* The answer m: acquireRelayLeaseOrRollback goes on or rolls back, a denied
\* renewal releases the local lease.
Heard(n, m) ==
  IF m.kind = "acquire" /\ leasePc[n] = "acquiring"
  THEN IF m.granted
       THEN StartLeaseHeartbeat(n) /\ UNCHANGED local
       ELSE /\ leasePc' = [leasePc EXCEPT ![n] = "idle"]
            /\ local' = [local EXCEPT ![n] = 0]
            /\ UNCHANGED beat
  ELSE /\ local' = IF m.granted THEN local ELSE [local EXCEPT ![n] = 0]
       /\ UNCHANGED <<leasePc, beat>>

\* A lease_result arrives; one that nobody listens for is ignored.
NodeReceives(n) ==
  LET m == Head(toNode[n]) IN
  /\ toNode[n] # << >>
  /\ toNode' = [toNode EXCEPT ![n] = Tail(@)]
  /\ IF m.heard THEN Heard(n, m) ELSE UNCHANGED <<leasePc, local, beat>>
  /\ answered' = [answered EXCEPT ![n] =
       @ \/ (m.heard /\ Len(toNode[n]) = 1 /\ toRelay[n] = << >> /\ deferred[n] = << >>)]
  /\ UNCHANGED <<deferred, up, toRelay, relayVars, raced, withdrawn, leaseFaults>>

\* What is under way on a link is lost when it drops, a handler's reply included.
Drop(S) ==
  /\ up' = [n \in Nodes |-> up[n] /\ n \notin S]
  /\ toRelay' = [n \in Nodes |-> IF n \in S THEN << >> ELSE toRelay[n]]
  /\ toNode' = [n \in Nodes |-> IF n \in S THEN << >> ELSE toNode[n]]
  /\ read' = [n \in Nodes |-> IF n \in S THEN NoRead ELSE read[n]]

\* The chain of n's socket, if the relay has received the first r of the requests
\* under way.
Received(n, r) ==
  IF r = 0 THEN NoChain
  ELSE [node |-> n, asks |-> [i \in 1..r |-> toRelay[n][i].kind], read |-> read[n]]

\* The socket of n closes: what the relay has received, a request being handled
\* included, stays in its chain.
Closes(n) ==
  /\ Drop({n})
  /\ \E r \in 0..Len(toRelay[n]) :
       /\ read[n].pending => r > 0
       /\ late' = [late EXCEPT ![leaseFaults'] = Received(n, r)]

LinkDrops(n) ==
  /\ LeaseFault /\ up[n]
  /\ Closes(n)
  /\ UNCHANGED <<nodeVars, memory, holder, left, answered, raced, withdrawn>>

\* 'connected': the requests that awaited it are sent.
LinkComesUp(n) ==
  /\ ~up[n]
  /\ up' = [up EXCEPT ![n] = TRUE]
  /\ toRelay' = [toRelay EXCEPT ![n] =
                   @ \o [i \in DOMAIN deferred[n] |-> Message(deferred[n][i], TRUE)]]
  /\ deferred' = [deferred EXCEPT ![n] = << >>]
  /\ UNCHANGED <<leasePc, local, beat, toNode, relayVars, leaseHistory>>

\* The node's process dies: its lease on the relay is left to expire.
NodeCrashes(n) ==
  /\ LeaseFault /\ leasePc[n] # "idle"
  /\ Closes(n)
  /\ leasePc' = [leasePc EXCEPT ![n] = "idle"]
  /\ local' = [local EXCEPT ![n] = 0]
  /\ beat' = [beat EXCEPT ![n] = 0]
  /\ deferred' = [deferred EXCEPT ![n] = << >>]
  /\ UNCHANGED <<memory, holder, left, answered, raced, withdrawn>>

\* The relay restarts: its handlers are gone and the in-memory store is empty.
RelayRestarts ==
  /\ LeaseFault
  /\ Drop(Nodes)
  /\ late' = [k \in 1..MaxLeaseFaults |-> NoChain]
  /\ IF memory THEN holder' = Nobody /\ left' = 0 ELSE UNCHANGED <<holder, left>>
  /\ answered' = [n \in Nodes |-> FALSE]
  /\ UNCHANGED <<nodeVars, memory, raced, withdrawn>>

\* Time passes.  Heartbeats are not late, and a query takes less than a tick.
Tick ==
  LET Down(x) == IF x > 0 THEN x - 1 ELSE 0 IN
  /\ \A n \in Nodes : /\ leasePc[n] = "running" => beat[n] > 0
                      /\ Outstanding(n) < MaxWire
                      /\ ~read[n].pending
  /\ \A k \in 1..MaxLeaseFaults : ~late[k].read.pending
  /\ local' = [n \in Nodes |-> Down(local[n])]
  /\ beat' = [n \in Nodes |-> Down(beat[n])]
  /\ left' = Down(left)
  /\ UNCHANGED <<leasePc, deferred, linkVars, memory, holder, read, late, leaseHistory>>

LeaseNext ==
  \/ \E n \in Nodes : \/ Schedule(n)
                      \/ RequestTimesOut(n)
                      \/ Heartbeat(n)
                      \/ StopLeaseHeartbeat(n)
                      \/ RelayHandles(n)
                      \/ RelayReads(n)
                      \/ RelayWrites(n)
                      \/ NodeReceives(n)
                      \/ LinkDrops(n)
                      \/ LinkComesUp(n)
                      \/ NodeCrashes(n)
  \/ \E k \in 1..MaxLeaseFaults : LateHandles(k) \/ LateReads(k) \/ LateWrites(k)
  \/ RelayRestarts
  \/ Tick

LeaseSpec == LeaseInit /\ [][LeaseNext]_leaseVars

\* Time passes, timers fire, a link comes back (RelayConnection) and what it
\* carries is delivered and handled.
LeaseFairness ==
  /\ WF_leaseVars(Tick)
  /\ \A n \in Nodes : /\ WF_leaseVars(Heartbeat(n))
                      /\ WF_leaseVars(RelayHandles(n) \/ RelayReads(n) \/ RelayWrites(n))
                      /\ WF_leaseVars(NodeReceives(n))
                      /\ WF_leaseVars(LinkComesUp(n))
  /\ \A k \in 1..MaxLeaseFaults : WF_leaseVars(LateHandles(k) \/ LateReads(k) \/ LateWrites(k))

LeaseFairSpec == LeaseSpec /\ LeaseFairness

-----------------------------------------------------------------------------
\* Type invariant.
LeaseTypeOK ==
  /\ leasePc \in [Nodes -> {"idle", "acquiring", "running"}]
  /\ local \in [Nodes -> 0..Ttl]
  /\ beat \in [Nodes -> 0..Beat]
  /\ deferred \in [Nodes -> Seq({"acquire", "renew"})]
  /\ up \in [Nodes -> BOOLEAN]
  /\ toRelay \in [Nodes -> Seq([kind : {"acquire", "renew", "release"}, heard : BOOLEAN])]
  /\ toNode \in
       [Nodes -> Seq([kind : {"acquire", "renew"}, granted : BOOLEAN, heard : BOOLEAN])]
  /\ memory \in BOOLEAN
  /\ holder \in Nodes \cup {Nobody}
  /\ left \in 0..Ttl
  /\ read \in [Nodes -> [holder : Nodes \cup {Nobody}, live : BOOLEAN, pending : BOOLEAN]]
  /\ late \in [1..MaxLeaseFaults ->
       [node : Nodes \cup {Nobody}, asks : Seq({"acquire", "renew", "release"}),
        read : [holder : Nodes \cup {Nobody}, live : BOOLEAN, pending : BOOLEAN]]]
  /\ answered \in [Nodes -> BOOLEAN]
  /\ raced \in BOOLEAN
  /\ withdrawn \in SUBSET Nodes
  /\ leaseFaults \in 0..MaxLeaseFaults

TwoDrivers == \E m, n \in Nodes : m # n /\ Driving(m) /\ Driving(n)

\* A node that has heard the answer to its latest request and still drives holds
\* the relay's lease, for at least as long as its own: nodes whose requests are
\* answered exclude each other, whatever drops, crashes, takeovers and late
\* answers came before, and whatever is still in the chains of closed sockets.  Two
\* things can break it: a Postgres write on a changed row, and a release of the node's
\* own that a closed socket's chain applies after the grant of its next socket, until
\* the relay grants the node another.
AnsweredMeansHeld ==
  \A n \in Nodes \ withdrawn :
    ~raced /\ answered[n] /\ Driving(n) => holder = n /\ left >= local[n]

\* A lease that was lost is never regained in passing: while the session runs on,
\* no heartbeat, answer or reconnect makes its node drive again.
LostStaysLost ==
  [][\A n \in Nodes : leasePc[n] = "running" /\ local[n] = 0 /\ leasePc'[n] = "running"
                        => local'[n] = 0]_leaseVars

\* Two nodes that both drive the session do not go on doing so: once the faults
\* end, a heartbeat of one of them is denied.
SplitHeals == []<>~TwoDrivers

==============================================================================

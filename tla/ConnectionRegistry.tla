-------------------------- MODULE ConnectionRegistry --------------------------
(***************************************************************************)
(* The relay's registry of live connections (packages/relay/src/relay.ts): *)
(* which node connection a nodeId is routed to, which client connections   *)
(* are present (push is suppressed for their devices), and which have a    *)
(* fan-out handler for a session.                                          *)
(*                                                                         *)
(* Each socket handles its frames one at a time, in order, and a handler   *)
(* gives way to the other sockets' at every await.  The socket's close     *)
(* event is not part of that chain: it runs at once, whatever frame is     *)
(* being handled or still queued, and drops the connection if the          *)
(* handshake has produced one.                                             *)
(*                                                                         *)
(* One account.  A nodeId stands for itself and for the session it         *)
(* announces.  Target records, which no guard here reads, are left out.    *)
(***************************************************************************)
EXTENDS Naturals, Sequences, FiniteSets

CONSTANTS Sockets,   \* sockets the relay accepts over time
          Devices,   \* devicePublicKey
          NodeIds,
          None,      \* no connection, no frame in progress
          MaxInbox   \* bound: frames queued on one socket

ASSUME RegistryAssumption ==
  /\ None \notin Sockets \cup NodeIds
  /\ MaxInbox \in Nat

VARIABLES
  phase,      \* per socket: "unused", "new", "checking", "live" or "refused"
  kind,       \* initialize.role
  device,     \* initialize.devicePublicKey
  closing,    \* sockets the relay has called close() on
  closed,     \* sockets whose close event has been handled
  inbox,      \* per socket: frames chained on `processing`
  step,       \* per socket: the nodeId whose session_announce awaits the store
  nodes,      \* registry.nodes
  clients,    \* registry.clients
  route,      \* registry.nodeConnectionsByNodeId
  nodeIds,    \* connection.nodeIds
  conflicted, \* connections with an identityConflict
  sessions,   \* nodeIds whose session the store has a record of
  subscriptions, \* pairs <<socket, nodeId>>: client.subscriptions
  fanOut,     \* pairs <<socket, nodeId>> with a registered fan-out handler
  disturbed   \* history: sockets closed while work was under way for them, or
              \* whose session_announce the store failed

sockVars == <<phase, kind, device, closing, closed, inbox, step, disturbed>>
regVars  == <<nodes, clients, route, nodeIds, conflicted, sessions, subscriptions, fanOut>>
vars == <<sockVars, regVars>>

Frame == [type : {"target_announce", "session_announce", "session_resume"}, node : NodeIds]

Init ==
  /\ phase = [s \in Sockets |-> "unused"]
  /\ kind = [s \in Sockets |-> "client"]
  /\ device \in [Sockets -> Devices]
  /\ closing = {} /\ closed = {}
  /\ inbox = [s \in Sockets |-> << >>]
  /\ step = [s \in Sockets |-> None]
  /\ nodes = {} /\ clients = {}
  /\ route = [n \in NodeIds |-> None]
  /\ nodeIds = [s \in Sockets |-> {}]
  /\ conflicted = {} /\ sessions = {} /\ disturbed = {}
  /\ subscriptions = {} /\ fanOut = {}

-----------------------------------------------------------------------------
\* The websocket route accepts a socket.
Accept(s, k) ==
  /\ phase[s] = "unused"
  /\ phase' = [phase EXCEPT ![s] = "new"]
  /\ kind' = [kind EXCEPT ![s] = k]
  /\ UNCHANGED <<device, closing, closed, inbox, step, disturbed, regVars>>

\* handleInitialize starts on the first frame, up to its first await.
Initialize(s) ==
  /\ phase[s] = "new"
  /\ s \notin closed
  /\ phase' = [phase EXCEPT ![s] = "checking"]
  /\ UNCHANGED <<kind, device, closing, closed, inbox, step, disturbed, regVars>>

\* handleInitialize refuses the peer (version, token, revoked or foreign device).
InitializeRefused(s) ==
  /\ phase[s] = "checking"
  /\ phase' = [phase EXCEPT ![s] = "refused"]
  /\ closing' = closing \cup {s}
  /\ UNCHANGED <<kind, device, closed, inbox, step, disturbed, regVars>>

\* handleInitialize after its last await: the connection enters the registry,
\* whether or not the socket is still open.
InitializeDone(s) ==
  /\ phase[s] = "checking"
  /\ phase' = [phase EXCEPT ![s] = "live"]
  /\ IF kind[s] = "node"
     THEN nodes' = nodes \cup {s} /\ UNCHANGED clients
     ELSE clients' = clients \cup {s} /\ UNCHANGED nodes
  /\ UNCHANGED <<kind, device, closing, closed, inbox, step, disturbed,
                 route, nodeIds, conflicted, sessions, subscriptions, fanOut>>

\* The peer, past the handshake, sends a frame; it is chained on `processing`.
SendFrame(s, f) ==
  /\ phase[s] = "live"
  /\ s \notin closed
  /\ Len(inbox[s]) < MaxInbox
  /\ (f.type = "session_resume") = (kind[s] = "client")
  /\ inbox' = [inbox EXCEPT ![s] = Append(@, f)]
  /\ UNCHANGED <<phase, kind, device, closing, closed, step, disturbed, regVars>>

\* The next queued frame of s is handled when the previous one is done.
TakeFrame(s, type) ==
  /\ phase[s] = "live"
  /\ step[s] = None
  /\ inbox[s] # << >>
  /\ Head(inbox[s]).type = type
  /\ inbox' = [inbox EXCEPT ![s] = Tail(@)]

-----------------------------------------------------------------------------
(* claimNodeRouting(nodeId, connection).                                   *)

\* A different device already holds n.
Rival(n, s) ==
  route[n] # None /\ route[n] # s /\ device[route[n]] # device[s]

\* Mutant: the superseded connection is left open.
ClaimAcceptedMutant(n, s) ==
  /\ ~Rival(n, s)
  /\ route' = [route EXCEPT ![n] = s]
  /\ UNCHANGED <<closing, conflicted>>

\* Nobody holds n, s itself does, or the same device on an older connection,
\* which is told that it is superseded and closed.
ClaimAccepted(n, s) ==
  /\ ~Rival(n, s)
  /\ route' = [route EXCEPT ![n] = s]
  /\ closing' = IF route[n] \in {None, s} THEN closing ELSE closing \cup {route[n]}
  /\ UNCHANGED conflicted

\* The newcomer is closed and the incumbent marked; nothing else happens.
ClaimRejected(n, s) ==
  /\ Rival(n, s)
  /\ closing' = closing \cup {s}
  /\ conflicted' = conflicted \cup {route[n]}
  /\ UNCHANGED route

TargetAnnounce(s) ==
  /\ TakeFrame(s, "target_announce")
  /\ LET n == Head(inbox[s]).node
     IN \/ ClaimAccepted(n, s) /\ nodeIds' = [nodeIds EXCEPT ![s] = @ \cup {n}]
        \/ ClaimRejected(n, s) /\ UNCHANGED nodeIds
  /\ UNCHANGED <<phase, kind, device, closed, step, disturbed, nodes, clients, sessions,
                 subscriptions, fanOut>>

\* session_announce up to the await of store.sessions.announce.
SessionAnnounce(s) ==
  /\ TakeFrame(s, "session_announce")
  /\ LET n == Head(inbox[s]).node
     IN \/ ClaimAccepted(n, s) /\ step' = [step EXCEPT ![s] = n]
        \/ ClaimRejected(n, s) /\ UNCHANGED step
  /\ UNCHANGED <<phase, kind, device, closed, disturbed, nodes, clients, nodeIds, sessions,
                 subscriptions, fanOut>>

\* The rest of session_announce.
SessionStored(s) ==
  /\ step[s] # None
  /\ sessions' = sessions \cup {step[s]}
  /\ nodeIds' = [nodeIds EXCEPT ![s] = @ \cup {step[s]}]
  /\ step' = [step EXCEPT ![s] = None]
  /\ UNCHANGED <<phase, kind, device, closing, closed, inbox, disturbed, nodes, clients, route,
                 conflicted, subscriptions, fanOut>>

\* The store call rejects: the frame's handler ends there, with n routed to s
\* but not noted in its nodeIds.
SessionStoreFails(s) ==
  /\ step[s] # None
  /\ step' = [step EXCEPT ![s] = None]
  /\ disturbed' = disturbed \cup {s}
  /\ UNCHANGED <<phase, kind, device, closing, closed, inbox, regVars>>

\* session_resume: subscribeClientToSession, once per session, unless the
\* session is unknown.  A close during its await, which precedes both, is a
\* close while the frame is still queued.
SessionResume(s) ==
  /\ TakeFrame(s, "session_resume")
  /\ LET n == Head(inbox[s]).node
         new == {<<s, m>> : m \in {n} \cap sessions} \ subscriptions
     IN /\ subscriptions' = subscriptions \cup new
        /\ fanOut' = fanOut \cup new
  /\ UNCHANGED <<phase, kind, device, closing, closed, step, disturbed, nodes, clients, route,
                 nodeIds, conflicted, sessions>>

-----------------------------------------------------------------------------
\* Mutant: the routes of a dropped connection are removed without asking
\* whether a newer connection has taken them over.
RoutesWithoutMutant(s) ==
  [n \in NodeIds |-> IF n \in nodeIds[s] THEN None ELSE route[n]]

RoutesWithout(s) ==
  [n \in NodeIds |-> IF n \in nodeIds[s] /\ route[n] = s THEN None ELSE route[n]]

\* Mutant: a dropped client keeps its fan-out handlers.
DropConnectionMutant(s) ==
  IF kind[s] = "node"
  THEN /\ nodes' = nodes \ {s}
       /\ route' = RoutesWithout(s)
       /\ UNCHANGED <<clients, fanOut>>
  ELSE /\ clients' = clients \ {s}
       /\ UNCHANGED <<nodes, route, fanOut>>

\* dropConnection.
DropConnection(s) ==
  IF kind[s] = "node"
  THEN /\ nodes' = nodes \ {s}
       /\ route' = RoutesWithout(s)
       /\ UNCHANGED <<clients, fanOut>>
  ELSE /\ clients' = clients \ {s}
       /\ fanOut' = {p \in fanOut : p[1] # s}
       /\ UNCHANGED <<nodes, route>>

\* The socket's close event, of a socket the relay closed or whose peer went.
Close(s) ==
  /\ phase[s] # "unused"
  /\ s \notin closed
  /\ closed' = closed \cup {s}
  /\ IF phase[s] = "live"
     THEN DropConnection(s)
     ELSE UNCHANGED <<nodes, clients, route, fanOut>>
  /\ disturbed' = IF phase[s] = "checking" \/ inbox[s] # << >> \/ step[s] # None
             THEN disturbed \cup {s} ELSE disturbed
  /\ UNCHANGED <<phase, kind, device, closing, inbox, step, nodeIds, conflicted, sessions,
                 subscriptions>>

-----------------------------------------------------------------------------
Next ==
  \E s \in Sockets :
    \/ \E k \in {"node", "client"} : Accept(s, k)
    \/ Initialize(s)
    \/ InitializeRefused(s)
    \/ InitializeDone(s)
    \/ \E f \in Frame : SendFrame(s, f)
    \/ TargetAnnounce(s)
    \/ SessionAnnounce(s)
    \/ SessionStored(s)
    \/ SessionStoreFails(s)
    \/ SessionResume(s)
    \/ Close(s)

Spec == Init /\ [][Next]_vars

-----------------------------------------------------------------------------
\* Type invariant.
TypeOK ==
  /\ phase \in [Sockets -> {"unused", "new", "checking", "live", "refused"}]
  /\ kind \in [Sockets -> {"node", "client"}]
  /\ device \in [Sockets -> Devices]
  /\ closing \subseteq Sockets
  /\ closed \subseteq Sockets
  /\ inbox \in [Sockets -> Seq(Frame)]
  /\ step \in [Sockets -> NodeIds \cup {None}]
  /\ nodes \subseteq Sockets
  /\ clients \subseteq Sockets
  /\ route \in [NodeIds -> Sockets \cup {None}]
  /\ nodeIds \in [Sockets -> SUBSET NodeIds]
  /\ conflicted \subseteq Sockets
  /\ sessions \subseteq NodeIds
  /\ subscriptions \subseteq Sockets \X NodeIds
  /\ fanOut \subseteq subscriptions
  /\ disturbed \subseteq Sockets

\* Nothing in the registry stands for connection s.
NoTrace(s) ==
  /\ s \notin nodes \cup clients
  /\ \A n \in NodeIds : route[n] # s /\ <<s, n>> \notin fanOut

\* A connection whose close event comes while the relay is doing nothing for it,
\* and none of whose announces the store failed, is gone from the registry for
\* good: its presence, its routes (also those a session_announce claimed before
\* its await) and its fan-out handlers.
PromptCloseLeavesNoTrace ==
  \A s \in closed \ disturbed : NoTrace(s)

\* The routing of a connection that stays open is never removed and never
\* handed to another device: not by a rival's announce, and not by the late
\* close of an older connection that it superseded.
RouteKeptByDevice ==
  [][\A n \in NodeIds :
       (route[n] # None /\ route[n] \notin closed' /\ route'[n] # route[n]) =>
          route'[n] # None /\ device[route'[n]] = device[route[n]]]_vars

\* Two open connections never both hold a nodeId for long: all but at most one
\* of those that announced it have been told to close.
OneOpenHolder ==
  \A s, t \in Sockets \ (closed \cup closing) :
    s # t => nodeIds[s] \cap nodeIds[t] = {}

=============================================================================

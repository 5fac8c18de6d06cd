--------------------------- MODULE RelayConnection ---------------------------
(***************************************************************************)
(* The node's outbound connection to the relay: RelayConnection            *)
(* (packages/node/src/relay-connection.ts) and the two listeners that      *)
(* NodeDaemon registers on it.  One current socket, three timers, a flag   *)
(* for the outstanding handshake and one for the outstanding ping, all     *)
(* shared by every socket the object ever opens.                           *)
(*                                                                         *)
(* The sockets are external: a socket connects or fails, delivers the      *)
(* frames of a relay that answers, and reports its end by 'error', by      *)
(* 'close', or by both.  The relay and the network are faulty: a connection*)
(* ends with a FIN or silently (half-open), and while the relay is down a  *)
(* connection is refused, or accepted by a proxy that never answers.       *)
(*                                                                         *)
(* connect() is called once, by createNode, and close() at most once.      *)
(* Times are left out: an armed timer may fire at any moment.              *)
(***************************************************************************)
EXTENDS Integers, FiniteSets

CONSTANTS Sockets,     \* identities of sockets, reused once a socket is silent
          None,        \* undefined
          Initial,     \* initialBackoffMs, in units
          MaxBackoff,  \* maxBackoffMs, in the same units
          MaxFaults    \* bound: failures of the relay or the network

ASSUME ConnectionAssumption ==
  /\ IsFiniteSet(Sockets)
  /\ None \notin Sockets
  /\ Initial \in Nat \ {0}
  /\ MaxBackoff \in Nat
  /\ Initial <= MaxBackoff
  /\ MaxFaults \in Nat

VARIABLES
  socket,          \* this.socket
  awaiting,        \* this.awaitingInitializeResult
  handshakeTimer,  \* the socket this.handshakeTimer would close
  heartbeatTimer,  \* the socket this.heartbeatTimer pings
  pendingPing,     \* this.pendingPingNonce is set
  retries,         \* reconnect timers that are armed; the newest is this.reconnectTimer
  backoff,         \* this.backoffMs
  userClosed,      \* this.userClosed
  started,         \* connect() has been called
  connected,       \* NodeDaemon._connected
  state,           \* per socket: readyState, and "gone" while a second end event may come
  peer,            \* per socket: what is at the other end
  replied,         \* per socket: the relay's answer to initialize
  relayUp,         \* the relay accepts and answers
  faults           \* failures so far

own == <<socket, awaiting, handshakeTimer, heartbeatTimer, pendingPing, retries, backoff>>
wire == <<state, peer, replied>>
env == <<relayUp, faults>>
vars == <<own, userClosed, started, connected, wire, env>>

Live == {"connecting", "open"}

-----------------------------------------------------------------------------
Init ==
  /\ socket = None
  /\ awaiting = FALSE
  /\ handshakeTimer = None
  /\ heartbeatTimer = None
  /\ pendingPing = FALSE
  /\ retries = 0
  /\ backoff = Initial
  /\ userClosed = FALSE
  /\ started = FALSE
  /\ connected = FALSE
  /\ state = [s \in Sockets |-> "none"]
  /\ peer = [s \in Sockets |-> "alive"]
  /\ replied = [s \in Sockets |-> "no"]
  /\ relayUp = TRUE
  /\ faults = 0

\* socket.close(): no effect on a socket that is not connecting or open.
Closing(st, s) == IF s # None /\ st[s] \in Live THEN [st EXCEPT ![s] = "closing"] ELSE st

\* scheduleReconnect(), n timers being armed before it.
ScheduleReconnect(n) ==
  IF userClosed
  THEN retries' = n /\ UNCHANGED backoff
  ELSE /\ retries' = n + 1
       /\ backoff' = IF 2 * backoff < MaxBackoff THEN 2 * backoff ELSE MaxBackoff

\* Mutant: the handshake timer is armed only once the socket is open.
AttemptOpenMutant(n) ==
  \E s \in Sockets :
    /\ state[s] = "none"
    /\ state' = [state EXCEPT ![s] = "connecting"]
    /\ peer' = [peer EXCEPT ![s] = "alive"]
    /\ replied' = [replied EXCEPT ![s] = "no"]
    /\ socket' = s
    /\ awaiting' = TRUE
    /\ retries' = n
    /\ UNCHANGED <<handshakeTimer, heartbeatTimer, pendingPing, backoff>>

\* attemptOpen(): the constructor returns a connecting socket.
AttemptOpen(n) ==
  \E s \in Sockets :
    /\ state[s] = "none"
    /\ state' = [state EXCEPT ![s] = "connecting"]
    /\ peer' = [peer EXCEPT ![s] = "alive"]
    /\ replied' = [replied EXCEPT ![s] = "no"]
    /\ socket' = s
    /\ awaiting' = TRUE
    /\ handshakeTimer' = s
    /\ retries' = n
    /\ UNCHANGED <<heartbeatTimer, pendingPing, backoff>>

\* open()'s catch: the constructor throws.
OpenThrows(n) ==
  /\ faults < MaxFaults
  /\ socket' = None
  /\ ScheduleReconnect(n)
  /\ UNCHANGED <<awaiting, handshakeTimer, heartbeatTimer, pendingPing, wire>>

\* connect(), from createNode.
Connect ==
  /\ ~started
  /\ started' = TRUE
  /\ userClosed' = FALSE
  /\ \/ AttemptOpen(retries) /\ UNCHANGED faults
     \/ OpenThrows(retries) /\ faults' = faults + 1
  /\ UNCHANGED <<connected, relayUp>>

\* The callback of a reconnect timer.
ReconnectTimerFires ==
  /\ retries > 0
  /\ ~userClosed
  /\ \/ AttemptOpen(retries - 1) /\ UNCHANGED faults
     \/ OpenThrows(retries - 1) /\ faults' = faults + 1
  /\ UNCHANGED <<userClosed, started, connected, relayUp>>

\* Mutant: close() leaves the reconnect timer armed.
CloseMutant ==
  /\ started /\ ~userClosed
  /\ userClosed' = TRUE
  /\ handshakeTimer' = None
  /\ heartbeatTimer' = None
  /\ pendingPing' = FALSE
  /\ state' = Closing(state, socket)
  /\ socket' = None
  /\ UNCHANGED <<awaiting, retries, backoff, started, connected, peer, replied, env>>

\* close(), from NodeDaemon.close(): one clearTimeout, of the newest retry.
Close ==
  /\ started /\ ~userClosed
  /\ userClosed' = TRUE
  /\ retries' = IF retries > 0 THEN retries - 1 ELSE retries
  /\ handshakeTimer' = None
  /\ heartbeatTimer' = None
  /\ pendingPing' = FALSE
  /\ state' = Closing(state, socket)
  /\ socket' = None
  /\ UNCHANGED <<awaiting, backoff, started, connected, peer, replied, env>>

\* The socket's 'open' event: initialize is sent.  While the relay is down a
\* proxy may accept the connection.
SocketOpens(s) ==
  /\ state[s] = "connecting"
  /\ state' = [state EXCEPT ![s] = "open"]
  /\ peer' = [peer EXCEPT ![s] = IF relayUp THEN "alive" ELSE "dead"]
  /\ backoff' = Initial
  /\ UNCHANGED <<socket, awaiting, handshakeTimer, heartbeatTimer, pendingPing, retries,
                 userClosed, started, connected, replied, env>>

\* The 'message' event of initialize_result, from a relay that advertises the
\* heartbeat capability or not; NodeDaemon's 'open' listener runs in it.
InitializeResult(s, heartbeat) ==
  /\ state[s] = "open" /\ peer[s] = "alive" /\ replied[s] = "no"
  /\ replied' = [replied EXCEPT ![s] = IF heartbeat THEN "ok" ELSE "okSilent"]
  /\ IF awaiting
     THEN /\ awaiting' = FALSE
          /\ handshakeTimer' = None
          /\ heartbeatTimer' = IF heartbeat THEN s ELSE heartbeatTimer
          /\ connected' = TRUE
     ELSE UNCHANGED <<awaiting, handshakeTimer, heartbeatTimer, connected>>
  /\ UNCHANGED <<socket, pendingPing, retries, backoff, userClosed, started, state, peer, env>>

\* The first frame is a rejection (update_required): nothing is armed, and the
\* relay closes the socket, which the node learns if the FIN gets through.
HandshakeRejected(s) ==
  /\ state[s] = "open" /\ peer[s] = "alive" /\ replied[s] = "no"
  /\ faults < MaxFaults
  /\ faults' = faults + 1
  /\ replied' = [replied EXCEPT ![s] = "rejected"]
  /\ \E p \in {"fin", "dead"} : peer' = [peer EXCEPT ![s] = p]
  /\ IF awaiting
     THEN awaiting' = FALSE /\ handshakeTimer' = None
     ELSE UNCHANGED <<awaiting, handshakeTimer>>
  /\ UNCHANGED <<socket, heartbeatTimer, pendingPing, retries, backoff,
                 userClosed, started, connected, state, relayUp>>

\* armHandshakeTimeout's callback.
HandshakeTimeout ==
  /\ handshakeTimer # None
  /\ state' = Closing(state, handshakeTimer)
  /\ handshakeTimer' = None
  /\ UNCHANGED <<socket, awaiting, heartbeatTimer, pendingPing, retries, backoff,
                 userClosed, started, connected, peer, replied, env>>

\* Mutant: an unanswered ping is simply sent again.
HeartbeatTickMutant ==
  /\ heartbeatTimer # None
  /\ pendingPing' = TRUE
  /\ UNCHANGED <<socket, awaiting, handshakeTimer, heartbeatTimer, retries, backoff,
                 userClosed, started, connected, wire, env>>

\* armHeartbeat's interval: a ping still unanswered closes the socket,
\* otherwise the next ping is sent.
HeartbeatTick ==
  /\ heartbeatTimer # None
  /\ IF pendingPing
     THEN /\ state' = Closing(state, heartbeatTimer)
          /\ heartbeatTimer' = None
          /\ pendingPing' = FALSE
     ELSE /\ pendingPing' = TRUE
          /\ UNCHANGED <<state, heartbeatTimer>>
  /\ UNCHANGED <<socket, awaiting, handshakeTimer, retries, backoff,
                 userClosed, started, connected, peer, replied, env>>

\* The 'message' event of the pong whose nonce is the pending one.
Pong(s) ==
  /\ state[s] = "open" /\ peer[s] = "alive"
  /\ pendingPing /\ heartbeatTimer = s
  /\ pendingPing' = FALSE
  /\ UNCHANGED <<socket, awaiting, handshakeTimer, heartbeatTimer, retries, backoff,
                 userClosed, started, connected, wire, env>>

\* Mutant: every end event of a socket is acted on.
OnSocketGoneMutant(s) ==
  /\ handshakeTimer' = None
  /\ heartbeatTimer' = None
  /\ pendingPing' = FALSE
  /\ socket' = IF socket = s THEN None ELSE socket
  /\ connected' = FALSE
  /\ ScheduleReconnect(retries)
  /\ UNCHANGED awaiting

\* onSocketGone: the first end event of a socket counts, a second is ignored.
\* NodeDaemon's 'close' listener runs in it.
OnSocketGone(s) ==
  IF state[s] = "gone"
  THEN UNCHANGED <<own, connected>>
  ELSE /\ handshakeTimer' = None
       /\ heartbeatTimer' = None
       /\ pendingPing' = FALSE
       /\ socket' = IF socket = s THEN None ELSE socket
       /\ connected' = FALSE
       /\ ScheduleReconnect(retries)
       /\ UNCHANGED awaiting

\* An 'error' or 'close' event: of a socket that is closing, of an attempt that
\* is refused, or of a connection whose FIN arrives.  Another may follow.
SocketEnds(s) ==
  /\ \/ state[s] \in {"closing", "gone"}
     \/ state[s] = "connecting" /\ ~relayUp
     \/ state[s] = "open" /\ peer[s] = "fin"
  /\ \E again \in IF state[s] = "gone" THEN {FALSE} ELSE BOOLEAN :
       state' = [state EXCEPT ![s] = IF again THEN "gone" ELSE "none"]
  /\ OnSocketGone(s)
  /\ UNCHANGED <<userClosed, started, peer, replied, env>>

\* The relay goes down: its connections end with a FIN or silently.
RelayGoesDown ==
  /\ relayUp /\ faults < MaxFaults
  /\ relayUp' = FALSE
  /\ faults' = faults + 1
  /\ \E p \in {"fin", "dead"} :
       peer' = [s \in Sockets |-> IF state[s] = "open" /\ peer[s] = "alive" THEN p ELSE peer[s]]
  /\ UNCHANGED <<own, userClosed, started, connected, state, replied>>

RelayComesUp ==
  /\ ~relayUp
  /\ relayUp' = TRUE
  /\ UNCHANGED <<own, userClosed, started, connected, wire, faults>>

Next ==
  \/ Connect
  \/ Close
  \/ ReconnectTimerFires
  \/ HandshakeTimeout
  \/ HeartbeatTick
  \/ \E s \in Sockets : \/ SocketOpens(s)
                        \/ \E heartbeat \in BOOLEAN : InitializeResult(s, heartbeat)
                        \/ HandshakeRejected(s)
                        \/ Pong(s)
                        \/ SocketEnds(s)
  \/ RelayGoesDown
  \/ RelayComesUp

Spec == Init /\ [][Next]_vars

\* Timers fire and ended sockets say so.  A relay that is up answers within the
\* timeouts often enough: strong fairness, since a timer may come first.
Fairness ==
  /\ WF_vars(ReconnectTimerFires)
  /\ WF_vars(HandshakeTimeout)
  /\ WF_vars(HeartbeatTick)
  /\ \A s \in Sockets : /\ WF_vars(SocketEnds(s))
                        /\ SF_vars(relayUp /\ SocketOpens(s))
                        /\ SF_vars(\E heartbeat \in BOOLEAN : InitializeResult(s, heartbeat))
                        /\ SF_vars(Pong(s))

FairSpec == Spec /\ Fairness

-----------------------------------------------------------------------------
\* Type invariant of the connection, the daemon's flag and the environment.
TypeOK ==
  /\ socket \in Sockets \cup {None}
  /\ awaiting \in BOOLEAN
  /\ handshakeTimer \in Sockets \cup {None}
  /\ heartbeatTimer \in Sockets \cup {None}
  /\ pendingPing \in BOOLEAN
  /\ retries \in Nat
  /\ backoff \in Initial..MaxBackoff
  /\ userClosed \in BOOLEAN
  /\ started \in BOOLEAN
  /\ connected \in BOOLEAN
  /\ state \in [Sockets -> {"none", "connecting", "open", "closing", "gone"}]
  /\ peer \in [Sockets -> {"alive", "fin", "dead"}]
  /\ replied \in [Sockets -> {"no", "ok", "okSilent", "rejected"}]
  /\ relayUp \in BOOLEAN
  /\ faults \in Nat

\* The retry chain never dies and never forks (#511): until close(), there is
\* either a current socket whose end is still to be reported, or exactly one
\* armed retry, never both and never two; a socket that is not current is done.
OneWayForward ==
  started /\ ~userClosed =>
    /\ IF socket = None THEN retries = 1 ELSE retries = 0
    /\ \A s \in Sockets : state[s] \in Live \cup {"closing"} <=> s = socket

\* No attempt can hang: while the relay has not answered, the handshake timer
\* runs and is this socket's; a connection whose relay promised heartbeats is
\* being pinged; and no timer is left over for any other socket.
EveryAttemptWatched ==
  /\ socket # None /\ state[socket] \in Live =>
       /\ replied[socket] = "no" => handshakeTimer = socket /\ awaiting
       /\ replied[socket] = "ok" => heartbeatTimer = socket
  /\ handshakeTimer # None => handshakeTimer = socket /\ replied[socket] = "no"
  /\ heartbeatTimer # None => heartbeatTimer = socket /\ replied[socket] = "ok"

\* close() is final: nothing stays armed, no socket is current or stays open,
\* and none is ever opened again, whatever events still arrive.
ClosedForGood ==
  userClosed => /\ socket = None
                /\ retries = 0
                /\ handshakeTimer = None /\ heartbeatTimer = None /\ ~pendingPing
                /\ \A s \in Sockets : state[s] \notin Live

\* The daemon's _connected, which gates what it sends and awaits, is exact: it
\* is set while the current socket's handshake succeeded and at no other time.
ConnectedExact ==
  ~userClosed => (connected <=> socket # None /\ replied[socket] \in {"ok", "okSilent"})

\* Silence the code has no timer for: the relay is gone without a FIN, and it
\* had not advertised heartbeats, or had rejected the handshake.
Unnoticed ==
  socket # None /\ state[socket] = "open" /\ peer[socket] = "dead"
    /\ replied[socket] \in {"okSilent", "rejected"}

\* The daemon is connected, and to a relay that is there.
Usable == connected /\ socket # None /\ state[socket] = "open" /\ peer[socket] = "alive"

\* Once the relay stays up the node reaches it again, whatever failed before and
\* in the middle of whatever: a refused attempt, a hung handshake, a connection
\* that died without a word.  Except after close() and in the silence above.
Reconnects == <>[]relayUp => []<>(started => Usable \/ userClosed \/ Unnoticed)

==============================================================================

------------------------ MODULE RelayConnectionProofs ------------------------
(***************************************************************************)
(* The safety properties of RelayConnection for every number of sockets,   *)
(* every back-off and any number of faults.  They are proved together: that*)
(* no timer belongs to an old socket rests on there being one socket, that *)
(* there is one rests on the retry chain not forking, and after close() the*)
(* chain rests on no timer being left.                                     *)
(***************************************************************************)
EXTENDS RelayConnection, TLAPS

\* Before connect() the object is idle, and a ping is outstanding only while the
\* heartbeat runs.
Idle ==
  /\ ~started =>
       /\ ~userClosed /\ ~connected /\ socket = None /\ retries = 0
       /\ \A s \in Sockets : state[s] = "none"
  /\ pendingPing => heartbeatTimer # None

\* The type invariant in two parts: the flags, and everything else.
Flags ==
  /\ awaiting \in BOOLEAN
  /\ pendingPing \in BOOLEAN
  /\ userClosed \in BOOLEAN
  /\ started \in BOOLEAN
  /\ connected \in BOOLEAN
  /\ relayUp \in BOOLEAN

Rest ==
  /\ socket \in Sockets \cup {None}
  /\ handshakeTimer \in Sockets \cup {None}
  /\ heartbeatTimer \in Sockets \cup {None}
  /\ retries \in Nat
  /\ backoff \in Initial..MaxBackoff
  /\ state \in [Sockets -> {"none", "connecting", "open", "closing", "gone"}]
  /\ peer \in [Sockets -> {"alive", "fin", "dead"}]
  /\ replied \in [Sockets -> {"no", "ok", "okSilent", "rejected"}]
  /\ faults \in Nat

IInv ==
  /\ TypeOK
  /\ OneWayForward
  /\ EveryAttemptWatched
  /\ ClosedForGood
  /\ ConnectedExact
  /\ Idle

-----------------------------------------------------------------------------
\* The two parts make up the type invariant.
LEMMA TypeParts == (TypeOK <=> Flags /\ Rest) /\ (TypeOK' <=> Flags' /\ Rest')
BY Zenon DEF TypeOK, Flags, Rest

\* The back-off stays between its initial and its greatest value.
LEMMA BackoffBounded ==
  ASSUME NEW b \in Initial..MaxBackoff
  PROVE  /\ (IF 2 * b < MaxBackoff THEN 2 * b ELSE MaxBackoff) \in Initial..MaxBackoff
         /\ Initial \in Initial..MaxBackoff
BY ConnectionAssumption

\* The object as it is constructed satisfies the invariant.
LEMMA InitInv == Init => IInv
<1>1. Initial \in Initial..MaxBackoff
  BY ConnectionAssumption
<1>2. Init => TypeOK
  <2>1. Init => Flags
    BY Zenon DEF Init, Flags
  <2>2. Init => Rest
    BY <1>1, ConnectionAssumption DEF Init, Rest
  <2> QED
    BY <2>1, <2>2, TypeParts
<1>3. Init => OneWayForward /\ EveryAttemptWatched /\ ClosedForGood /\ ConnectedExact /\ Idle
  BY DEF Init, OneWayForward, EveryAttemptWatched, ClosedForGood, ConnectedExact, Idle, Live
<1> QED
  BY <1>2, <1>3 DEF IInv

\* attemptOpen keeps the invariant when no socket is current and no other retry
\* is armed.
LEMMA AttemptOpenInv ==
  ASSUME IInv, socket = None, ~userClosed, AttemptOpen(0),
         \A s \in Sockets : state[s] \in {"none", "gone"},
         started' \in BOOLEAN, started', userClosed' \in BOOLEAN, ~userClosed',
         connected' = connected, relayUp' = relayUp, faults' \in Nat
  PROVE  IInv'
<1>1. ~connected
  BY DEF IInv, ConnectedExact
<1>2. PICK s \in Sockets :
        /\ state[s] = "none"
        /\ state' = [state EXCEPT ![s] = "connecting"]
        /\ peer' = [peer EXCEPT ![s] = "alive"]
        /\ replied' = [replied EXCEPT ![s] = "no"]
        /\ socket' = s
        /\ awaiting' = TRUE
        /\ handshakeTimer' = s
        /\ retries' = 0
        /\ UNCHANGED <<heartbeatTimer, pendingPing, backoff>>
  BY DEF AttemptOpen
<1>3. TypeOK'
  BY <1>2 DEF IInv, TypeOK
<1>4. heartbeatTimer = None
  BY DEF IInv, EveryAttemptWatched
<1>5. OneWayForward'
  BY <1>2, ConnectionAssumption DEF IInv, TypeOK, OneWayForward, Live
<1>6. EveryAttemptWatched'
  BY <1>2, <1>4, ConnectionAssumption DEF IInv, TypeOK, EveryAttemptWatched
<1>7. ClosedForGood' /\ ConnectedExact' /\ Idle'
  BY <1>1, <1>2, ConnectionAssumption DEF IInv, TypeOK, ClosedForGood, ConnectedExact, Idle
<1> QED
  BY <1>3, <1>5, <1>6, <1>7 DEF IInv

\* So does a constructor that throws.
LEMMA OpenThrowsInv ==
  ASSUME IInv, socket = None, ~userClosed, OpenThrows(0),
         \A s \in Sockets : state[s] \in {"none", "gone"},
         started' \in BOOLEAN, started', userClosed' \in BOOLEAN, ~userClosed',
         connected' = connected, relayUp' = relayUp, faults' \in Nat
  PROVE  IInv'
<1>1. retries' = 1 /\ backoff' \in Initial..MaxBackoff
  BY BackoffBounded DEF OpenThrows, ScheduleReconnect, IInv, TypeOK
<1>2. UNCHANGED <<awaiting, handshakeTimer, heartbeatTimer, pendingPing, wire>> /\ socket' = None
  BY DEF OpenThrows
<1> QED
  BY <1>1, <1>2, ConnectionAssumption
     DEF IInv, TypeOK, OneWayForward, EveryAttemptWatched, ClosedForGood,
         ConnectedExact, Idle, Live, wire

\* The whole invariant is inductive.
LEMMA NextInv == IInv /\ [Next]_vars => IInv'
<1> SUFFICES ASSUME IInv, [Next]_vars PROVE IInv'
  OBVIOUS
<1> USE ConnectionAssumption
<1>1. CASE Connect
  <2>1. /\ socket = None /\ ~userClosed /\ retries = 0
        /\ \A s \in Sockets : state[s] \in {"none", "gone"}
    BY <1>1 DEF Connect, IInv, Idle
  <2>2. /\ started' \in BOOLEAN /\ started' /\ userClosed' \in BOOLEAN /\ ~userClosed'
        /\ connected' = connected /\ relayUp' = relayUp
    BY <1>1, Zenon DEF Connect
  <2>4. faults' \in Nat
    BY <1>1 DEF Connect, IInv, TypeOK
  <2>3. AttemptOpen(0) \/ OpenThrows(0)
    BY <1>1, <2>1 DEF Connect
  <2> QED
    BY <2>1, <2>2, <2>3, <2>4, AttemptOpenInv, OpenThrowsInv
<1>2. CASE ReconnectTimerFires
  <2>1. started /\ ~userClosed /\ socket = None /\ retries = 1
    BY <1>2 DEF ReconnectTimerFires, IInv, TypeOK, OneWayForward, Idle
  <2>2. \A s \in Sockets : state[s] \in {"none", "gone"}
    BY <2>1 DEF IInv, TypeOK, OneWayForward, Live
  <2>3. /\ started' \in BOOLEAN /\ started' /\ userClosed' \in BOOLEAN /\ ~userClosed'
        /\ connected' = connected /\ relayUp' = relayUp /\ faults' \in Nat
    BY <1>2, <2>1 DEF ReconnectTimerFires, IInv, TypeOK
  <2>4. AttemptOpen(0) \/ OpenThrows(0)
    BY <1>2, <2>1 DEF ReconnectTimerFires
  <2> QED
    BY <2>1, <2>2, <2>3, <2>4, AttemptOpenInv, OpenThrowsInv
<1>3. CASE Close
  <2>1. TypeOK'
    <3>1. Flags'
      BY <1>3, Zenon DEF Close, Closing, env, IInv, TypeOK, Flags
    <3>2. Rest'
      BY <1>3 DEF Close, Closing, env, IInv, TypeOK, Rest
    <3> QED
      BY <3>1, <3>2, TypeParts
  <2>2. OneWayForward'
    BY <1>3 DEF Close, Closing, env, IInv, TypeOK, OneWayForward, ClosedForGood, Live
  <2>3. EveryAttemptWatched'
    BY <1>3 DEF Close, Closing, env, IInv, TypeOK, OneWayForward, EveryAttemptWatched, ClosedForGood, Live
  <2>4. ClosedForGood'
    BY <1>3 DEF Close, Closing, env, IInv, TypeOK, OneWayForward, ClosedForGood, EveryAttemptWatched, Idle, Live
  <2>5. ConnectedExact' /\ Idle'
    BY <1>3 DEF Close, Closing, env, IInv, TypeOK, OneWayForward, ClosedForGood, EveryAttemptWatched, ConnectedExact, Idle, Live
  <2> QED
    BY <2>1, <2>2, <2>3, <2>4, <2>5 DEF IInv
<1>4. CASE HandshakeTimeout
  BY <1>4 DEF HandshakeTimeout, Closing, IInv, TypeOK, OneWayForward, EveryAttemptWatched,
              ClosedForGood, ConnectedExact, Idle, Live, env
<1>5. CASE HeartbeatTick
  BY <1>5 DEF HeartbeatTick, Closing, IInv, TypeOK, OneWayForward, EveryAttemptWatched,
              ClosedForGood, ConnectedExact, Idle, Live, env
<1>6. ASSUME NEW s \in Sockets, SocketOpens(s) PROVE IInv'
  <2>1. backoff' \in Initial..MaxBackoff
    BY <1>6, BackoffBounded DEF SocketOpens, IInv, TypeOK
  <2> QED
    BY <1>6, <2>1 DEF SocketOpens, IInv, TypeOK, OneWayForward, EveryAttemptWatched,
              ClosedForGood, ConnectedExact, Idle, Live, env
<1>7. ASSUME NEW s \in Sockets, NEW heartbeat \in BOOLEAN, InitializeResult(s, heartbeat)
      PROVE  IInv'
  <2>1. s = socket /\ awaiting /\ started /\ ~userClosed
    BY <1>7 DEF InitializeResult, IInv, TypeOK, OneWayForward, EveryAttemptWatched,
                ClosedForGood, Idle, Live
  <2> QED
    BY <1>7, <2>1 DEF InitializeResult, IInv, TypeOK, OneWayForward, EveryAttemptWatched,
              ClosedForGood, ConnectedExact, Idle, Live, env
<1>8. ASSUME NEW s \in Sockets, HandshakeRejected(s) PROVE IInv'
  <2>1. s = socket /\ awaiting /\ started /\ ~userClosed /\ ~connected
    BY <1>8 DEF HandshakeRejected, IInv, TypeOK, OneWayForward, EveryAttemptWatched,
                ClosedForGood, ConnectedExact, Idle, Live
  <2>2. TypeOK'
    <3>1. Flags'
      BY <1>8, <2>1, Zenon DEF HandshakeRejected, IInv, TypeOK, Flags
    <3>2. Rest'
      BY <1>8, <2>1 DEF HandshakeRejected, IInv, TypeOK, Rest
    <3> QED
      BY <3>1, <3>2, TypeParts
  <2>3. OneWayForward'
    BY <1>8, <2>1 DEF HandshakeRejected, IInv, TypeOK, OneWayForward, ClosedForGood, Live
  <2>4. EveryAttemptWatched'
    BY <1>8, <2>1 DEF HandshakeRejected, IInv, TypeOK, OneWayForward, EveryAttemptWatched, ClosedForGood, Live
  <2>5. ClosedForGood'
    BY <1>8, <2>1 DEF HandshakeRejected, IInv, TypeOK, OneWayForward, ClosedForGood, EveryAttemptWatched, Idle, Live
  <2>6. ConnectedExact' /\ Idle'
    BY <1>8, <2>1 DEF HandshakeRejected, IInv, TypeOK, OneWayForward, ClosedForGood, EveryAttemptWatched, ConnectedExact, Idle, Live
  <2> QED
    BY <2>2, <2>3, <2>4, <2>5, <2>6 DEF IInv
<1>9. ASSUME NEW s \in Sockets, Pong(s) PROVE IInv'
  BY <1>9 DEF Pong, IInv, TypeOK, OneWayForward, EveryAttemptWatched,
              ClosedForGood, ConnectedExact, Idle, Live, wire, env
<1>10. ASSUME NEW s \in Sockets, SocketEnds(s) PROVE IInv'
  <2>1. PICK st \in {"gone", "none"} : state' = [state EXCEPT ![s] = st]
    BY <1>10 DEF SocketEnds
  <2>2. UNCHANGED <<userClosed, started, peer, replied, env>>
    BY <1>10 DEF SocketEnds
  <2>3. CASE state[s] = "gone"
    <3>1. UNCHANGED <<own, connected>>
      BY <1>10, <2>3 DEF SocketEnds, OnSocketGone
    <3>2. s # socket
      BY <2>3 DEF IInv, OneWayForward, ClosedForGood, Idle, Live
    <3> QED
      BY <2>1, <2>2, <2>3, <3>1, <3>2
         DEF IInv, TypeOK, OneWayForward, EveryAttemptWatched,
             ClosedForGood, ConnectedExact, Idle, Live, own, env
  <2>4. CASE state[s] # "gone"
    <3>1. started /\ state[s] \in Live \cup {"closing"}
      BY <1>10, <2>4 DEF SocketEnds, IInv, TypeOK, Idle, Live
    <3>2. ~userClosed => s = socket /\ retries = 0
      BY <3>1 DEF IInv, OneWayForward
    <3>3. /\ handshakeTimer' = None /\ heartbeatTimer' = None /\ pendingPing' = FALSE
          /\ socket' = IF socket = s THEN None ELSE socket
          /\ connected' = FALSE /\ awaiting' = awaiting
          /\ ScheduleReconnect(retries)
      BY <1>10, <2>4 DEF SocketEnds, OnSocketGone
    <3>4. /\ backoff' \in Initial..MaxBackoff
          /\ retries' = IF userClosed THEN retries ELSE retries + 1
      BY <3>3, BackoffBounded DEF ScheduleReconnect, IInv, TypeOK
    <3>5. socket' = None
      BY <3>2, <3>3 DEF IInv, ClosedForGood, TypeOK
    <3>6. TypeOK'
      <4>1. Flags'
        BY <2>1, <2>2, <3>3, <3>4, <3>5, Zenon DEF env, IInv, TypeOK, Flags
      <4>2. Rest'
        BY <2>1, <2>2, <3>3, <3>4, <3>5 DEF env, IInv, TypeOK, Rest
      <4> QED
        BY <4>1, <4>2, TypeParts
    <3>7. OneWayForward'
      BY <2>1, <2>2, <3>1, <3>2, <3>3, <3>4, <3>5 DEF env, IInv, TypeOK, OneWayForward, ClosedForGood, Live
    <3>8. EveryAttemptWatched'
      BY <2>1, <2>2, <3>1, <3>2, <3>3, <3>4, <3>5 DEF env, IInv, TypeOK, OneWayForward, EveryAttemptWatched, ClosedForGood, Live
    <3>9. ClosedForGood'
      BY <2>1, <2>2, <3>1, <3>2, <3>3, <3>4, <3>5 DEF env, IInv, TypeOK, OneWayForward, ClosedForGood, EveryAttemptWatched, Idle, Live
    <3>10. ConnectedExact' /\ Idle'
      BY <2>1, <2>2, <3>1, <3>2, <3>3, <3>4, <3>5 DEF env, IInv, TypeOK, OneWayForward, ClosedForGood, EveryAttemptWatched, ConnectedExact, Idle, Live
    <3> QED
      BY <3>6, <3>7, <3>8, <3>9, <3>10 DEF IInv
  <2> QED
    BY <2>3, <2>4
<1>11. CASE RelayGoesDown
  <2>1. TypeOK'
    <3>1. Flags'
      BY <1>11, Zenon DEF RelayGoesDown, own, IInv, TypeOK, Flags
    <3>2. Rest'
      BY <1>11 DEF RelayGoesDown, own, IInv, TypeOK, Rest
    <3> QED
      BY <3>1, <3>2, TypeParts
  <2>2. OneWayForward'
    BY <1>11 DEF RelayGoesDown, own, IInv, TypeOK, OneWayForward, ClosedForGood, Live
  <2>3. EveryAttemptWatched'
    BY <1>11 DEF RelayGoesDown, own, IInv, TypeOK, OneWayForward, EveryAttemptWatched, ClosedForGood, Live
  <2>4. ClosedForGood'
    BY <1>11 DEF RelayGoesDown, own, IInv, TypeOK, OneWayForward, ClosedForGood, EveryAttemptWatched, Idle, Live
  <2>5. ConnectedExact' /\ Idle'
    BY <1>11 DEF RelayGoesDown, own, IInv, TypeOK, OneWayForward, ClosedForGood, EveryAttemptWatched, ConnectedExact, Idle, Live
  <2> QED
    BY <2>1, <2>2, <2>3, <2>4, <2>5 DEF IInv
<1>12. CASE RelayComesUp
  BY <1>12 DEF RelayComesUp, IInv, TypeOK, OneWayForward, EveryAttemptWatched,
              ClosedForGood, ConnectedExact, Idle, Live, own, wire
<1>13. CASE UNCHANGED vars
  BY <1>13 DEF vars, IInv, TypeOK, OneWayForward, EveryAttemptWatched,
              ClosedForGood, ConnectedExact, Idle, Live, own, wire, env
<1> QED
  BY <1>1, <1>2, <1>3, <1>4, <1>5, <1>6, <1>7, <1>8, <1>9, <1>10, <1>11, <1>12, <1>13 DEF Next

\* The invariant holds throughout every behaviour of the connection.
LEMMA Invariant == Spec => []IInv
BY InitInv, NextInv, PTL DEF Spec

\* The connection's fields keep their types; the back-off never exceeds its cap.
THEOREM TypeCorrect == Spec => []TypeOK
<1>1. IInv => TypeOK
  BY DEF IInv
<1> QED
  BY <1>1, Invariant, PTL

\* The retry chain of relay-connection.ts neither dies nor forks.
THEOREM RetryChainNeverDies == Spec => []OneWayForward
<1>1. IInv => OneWayForward
  BY DEF IInv
<1> QED
  BY <1>1, Invariant, PTL

\* Every handshake has its own timer, every heartbeat connection its pings.
THEOREM NoAttemptHangs == Spec => []EveryAttemptWatched
<1>1. IInv => EveryAttemptWatched
  BY DEF IInv
<1> QED
  BY <1>1, Invariant, PTL

\* After close() nothing is armed, current or open.
THEOREM CloseIsFinal == Spec => []ClosedForGood
<1>1. IInv => ClosedForGood
  BY DEF IInv
<1> QED
  BY <1>1, Invariant, PTL

\* The daemon's _connected flag is the success of the current handshake.
THEOREM ConnectedFlagExact == Spec => []ConnectedExact
<1>1. IInv => ConnectedExact
  BY DEF IInv
<1> QED
  BY <1>1, Invariant, PTL

==============================================================================

----------------------- MODULE ConnectionRegistryProofs -----------------------
(***************************************************************************)
(* Proofs about ConnectionRegistry, for all sets of sockets, devices and   *)
(* nodeIds.                                                                *)
(***************************************************************************)
EXTENDS ConnectionRegistry, SequenceTheorems, TLAPS

NodeFrame   == {f \in Frame : f.type # "session_resume"}
ClientFrame == {f \in Frame : f.type = "session_resume"}

\* A connection queues only the frames of its role, and only when live.
InboxByKind ==
  \A s \in Sockets :
    /\ kind[s] = "node" => inbox[s] \in Seq(NodeFrame)
    /\ kind[s] = "client" => inbox[s] \in Seq(ClientFrame)
    /\ phase[s] # "live" => inbox[s] = << >>

\* Only a live node has a session_announce under way.
StepOfNode ==
  \A s \in Sockets : step[s] # None => phase[s] = "live" /\ kind[s] = "node"

\* Who is in the registry has passed the handshake, in that role.
RegisteredLive ==
  /\ \A s \in nodes : phase[s] = "live" /\ kind[s] = "node"
  /\ \A s \in clients : phase[s] = "live" /\ kind[s] = "client"
  /\ \A s \in Sockets, n \in NodeIds :
       <<s, n>> \in fanOut => phase[s] = "live" /\ kind[s] = "client"

\* A route leads to a live node that has noted the nodeId, is about to, or
\* failed to.
RouteOwned ==
  \A n \in NodeIds, s \in Sockets :
    route[n] = s =>
      /\ phase[s] = "live" /\ kind[s] = "node"
      /\ n \in nodeIds[s] \/ step[s] = n \/ s \in disturbed

\* Nothing is under way for a socket whose close event found it idle.
QuietAfterClose ==
  \A s \in closed \ disturbed :
    phase[s] \in {"new", "live", "refused"} /\ inbox[s] = << >> /\ step[s] = None

\* What an open connection has announced, or is announcing, is routed to it.
RouteFollows ==
  \A s \in Sockets \ (closed \cup closing), n \in NodeIds :
    (n \in nodeIds[s] \/ step[s] = n) => route[n] = s

IInv ==
  /\ TypeOK
  /\ InboxByKind
  /\ StepOfNode
  /\ RegisteredLive
  /\ RouteOwned
  /\ QuietAfterClose
  /\ RouteFollows
  /\ PromptCloseLeavesNoTrace

-----------------------------------------------------------------------------
\* The invariant holds of an empty registry.
LEMMA InitIInv == Init => IInv
<1> SUFFICES ASSUME Init PROVE IInv
  OBVIOUS
<1> USE DEF Init
<1>1. TypeOK
  <2>1. inbox \in [Sockets -> Seq(Frame)]
    BY EmptySeq
  <2>2. step \in [Sockets -> NodeIds \cup {None}] /\ route \in [NodeIds -> Sockets \cup {None}]
    OBVIOUS
  <2> QED
    BY <2>1, <2>2 DEF TypeOK
<1>2. InboxByKind
  BY EmptySeq DEF InboxByKind
<1>3. StepOfNode /\ RegisteredLive /\ QuietAfterClose /\ PromptCloseLeavesNoTrace
  BY DEF StepOfNode, RegisteredLive, QuietAfterClose, PromptCloseLeavesNoTrace
<1>4. RouteOwned /\ RouteFollows
  BY RegistryAssumption DEF RouteOwned, RouteFollows
<1> QED
  BY <1>1, <1>2, <1>3, <1>4 DEF IInv

\* The frame that TakeFrame hands to a handler, and what it leaves queued.
LEMMA TakeFrameStep ==
  ASSUME IInv, NEW s \in Sockets, NEW type, TakeFrame(s, type),
         UNCHANGED <<phase, kind>>
  PROVE  /\ Head(inbox[s]) \in Frame /\ Head(inbox[s]).node \in NodeIds
         /\ Head(inbox[s]).type = type
         /\ kind[s] = "client" <=> type = "session_resume"
         /\ phase[s] = "live" /\ step[s] = None
         /\ s \notin closed \ disturbed
         /\ inbox' \in [Sockets -> Seq(Frame)]
         /\ InboxByKind'
         /\ \A t \in Sockets : inbox[t] = << >> => inbox'[t] = << >>
<1> USE DEF IInv, TypeOK
<1>1. /\ phase[s] = "live" /\ step[s] = None /\ inbox[s] # << >>
      /\ Head(inbox[s]).type = type
      /\ inbox' = [inbox EXCEPT ![s] = Tail(@)]
  BY DEF TakeFrame
<1>2. Head(inbox[s]) \in Frame /\ Tail(inbox[s]) \in Seq(Frame)
  BY <1>1, HeadTailProperties
<1>3. CASE kind[s] = "node"
  <2>1. Head(inbox[s]) \in NodeFrame /\ Tail(inbox[s]) \in Seq(NodeFrame)
    BY <1>1, <1>3, HeadTailProperties DEF InboxByKind
  <2>2. InboxByKind'
    BY <1>1, <1>3, <2>1 DEF InboxByKind
  <2> QED
    BY <1>1, <1>2, <1>3, <2>1, <2>2 DEF NodeFrame, Frame, QuietAfterClose
<1>4. CASE kind[s] = "client"
  <2>1. Head(inbox[s]) \in ClientFrame /\ Tail(inbox[s]) \in Seq(ClientFrame)
    BY <1>1, <1>4, HeadTailProperties DEF InboxByKind
  <2>2. InboxByKind'
    BY <1>1, <1>4, <2>1 DEF InboxByKind
  <2> QED
    BY <1>1, <1>2, <1>4, <2>1, <2>2 DEF ClientFrame, Frame, QuietAfterClose
<1> QED
  BY <1>3, <1>4

-----------------------------------------------------------------------------
(* One lemma per action, one step per conjunct of the invariant.           *)

\* A fresh socket gets its role before it has any frame.
LEMMA AcceptStep ==
  ASSUME IInv, NEW s \in Sockets, NEW k \in {"node", "client"}, Accept(s, k)
  PROVE  IInv'
<1> USE RegistryAssumption DEF IInv, TypeOK, Accept, regVars
<1>1. TypeOK'
  OBVIOUS
<1>2. InboxByKind'
  BY EmptySeq DEF InboxByKind
<1>3. StepOfNode'
  BY DEF StepOfNode
<1>4. RegisteredLive'
  BY DEF RegisteredLive
<1>5. RouteOwned'
  BY DEF RouteOwned
<1>6. QuietAfterClose'
  BY DEF QuietAfterClose
<1>7. RouteFollows'
  BY DEF RouteFollows
<1>8. PromptCloseLeavesNoTrace'
  BY DEF PromptCloseLeavesNoTrace, NoTrace
<1> QED
  BY <1>1, <1>2, <1>3, <1>4, <1>5, <1>6, <1>7, <1>8

\* The handshake begins on an open socket only.
LEMMA InitializeStep ==
  ASSUME IInv, NEW s \in Sockets, Initialize(s)
  PROVE  IInv'
<1> USE RegistryAssumption DEF IInv, TypeOK, Initialize, regVars
<1>1. TypeOK'
  OBVIOUS
<1>2. InboxByKind'
  BY DEF InboxByKind
<1>3. StepOfNode'
  BY DEF StepOfNode
<1>4. RegisteredLive'
  BY DEF RegisteredLive
<1>5. RouteOwned'
  BY DEF RouteOwned
<1>6. QuietAfterClose'
  BY DEF QuietAfterClose
<1>7. RouteFollows'
  BY DEF RouteFollows
<1>8. PromptCloseLeavesNoTrace'
  BY DEF PromptCloseLeavesNoTrace, NoTrace
<1> QED
  BY <1>1, <1>2, <1>3, <1>4, <1>5, <1>6, <1>7, <1>8

\* A refused socket has never been registered.
LEMMA InitializeRefusedStep ==
  ASSUME IInv, NEW s \in Sockets, InitializeRefused(s)
  PROVE  IInv'
<1> USE RegistryAssumption DEF IInv, TypeOK, InitializeRefused, regVars
<1>1. TypeOK'
  OBVIOUS
<1>2. InboxByKind'
  BY DEF InboxByKind
<1>3. StepOfNode'
  BY DEF StepOfNode
<1>4. RegisteredLive'
  BY DEF RegisteredLive
<1>5. RouteOwned'
  BY DEF RouteOwned
<1>6. QuietAfterClose'
  BY DEF QuietAfterClose
<1>7. RouteFollows'
  BY DEF RouteFollows
<1>8. PromptCloseLeavesNoTrace'
  BY DEF PromptCloseLeavesNoTrace, NoTrace
<1> QED
  BY <1>1, <1>2, <1>3, <1>4, <1>5, <1>6, <1>7, <1>8

\* A socket that closes while it is checked counts as disturbed.
LEMMA InitializeDoneStep ==
  ASSUME IInv, NEW s \in Sockets, InitializeDone(s)
  PROVE  IInv'
<1> USE RegistryAssumption DEF IInv, TypeOK, InitializeDone
<1>a. s \notin closed \ disturbed
  BY DEF QuietAfterClose
<1>b. nodes' \subseteq nodes \cup {s} /\ clients' \subseteq clients \cup {s}
  OBVIOUS
<1>1. TypeOK'
  OBVIOUS
<1>2. InboxByKind'
  BY DEF InboxByKind
<1>3. StepOfNode'
  BY DEF StepOfNode
<1>4. RegisteredLive'
  BY DEF RegisteredLive
<1>5. RouteOwned'
  BY DEF RouteOwned
<1>6. QuietAfterClose'
  BY DEF QuietAfterClose
<1>7. RouteFollows'
  BY DEF RouteFollows
<1>8. PromptCloseLeavesNoTrace'
  <2>1. UNCHANGED <<closed, disturbed, route, fanOut>>
    OBVIOUS
  <2>2. PromptCloseLeavesNoTrace
    OBVIOUS
  <2> HIDE DEF IInv, TypeOK, InitializeDone
  <2> QED
    BY <1>a, <1>b, <2>1, <2>2 DEF PromptCloseLeavesNoTrace, NoTrace
<1> QED
  BY <1>1, <1>2, <1>3, <1>4, <1>5, <1>6, <1>7, <1>8

\* A frame of the connection's role is queued.
LEMMA SendFrameStep ==
  ASSUME IInv, NEW s \in Sockets, NEW f \in Frame, SendFrame(s, f)
  PROVE  IInv'
<1> USE RegistryAssumption DEF IInv, TypeOK, SendFrame, regVars
<1>a. Append(inbox[s], f) \in Seq(Frame)
  BY AppendProperties
<1>b. kind[s] = "node" => Append(inbox[s], f) \in Seq(NodeFrame)
  BY AppendProperties DEF InboxByKind, NodeFrame
<1>c. kind[s] = "client" => Append(inbox[s], f) \in Seq(ClientFrame)
  BY AppendProperties DEF InboxByKind, ClientFrame
<1>1. TypeOK'
  BY <1>a
<1>2. InboxByKind'
  BY <1>b, <1>c DEF InboxByKind
<1>3. StepOfNode'
  BY DEF StepOfNode
<1>4. RegisteredLive'
  BY DEF RegisteredLive
<1>5. RouteOwned'
  BY DEF RouteOwned
<1>6. QuietAfterClose'
  BY DEF QuietAfterClose
<1>7. RouteFollows'
  BY DEF RouteFollows
<1>8. PromptCloseLeavesNoTrace'
  BY DEF PromptCloseLeavesNoTrace, NoTrace
<1> QED
  BY <1>1, <1>2, <1>3, <1>4, <1>5, <1>6, <1>7, <1>8

\* A target_announce, accepted or refused.
LEMMA TargetAnnounceStep ==
  ASSUME IInv, NEW s \in Sockets, TargetAnnounce(s)
  PROVE  IInv'
<1> USE RegistryAssumption
<1>1. PICK n \in NodeIds : n = Head(inbox[s]).node
  BY TakeFrameStep DEF TargetAnnounce
<1>2. /\ kind[s] = "node"
      /\ phase[s] = "live" /\ step[s] = None /\ s \notin closed \ disturbed
      /\ inbox' \in [Sockets -> Seq(Frame)] /\ InboxByKind'
      /\ \A t \in Sockets : inbox[t] = << >> => inbox'[t] = << >>
      /\ TypeOK
  BY TakeFrameStep DEF TargetAnnounce, IInv, TypeOK
<1>3. UNCHANGED <<phase, kind, device, closed, disturbed, nodes, clients, sessions,
                subscriptions, fanOut>>
  BY DEF TargetAnnounce
<1>4. CASE ClaimAccepted(n, s) /\ nodeIds' = [nodeIds EXCEPT ![s] = @ \cup {n}] /\ UNCHANGED step
  <2>1. /\ \A m \in NodeIds : route'[m] = IF m = n THEN s ELSE route[m]
        /\ route[n] # s => route[n] = None \/ route[n] \in closing'
        /\ closing \subseteq closing'
    BY <1>2, <1>4 DEF ClaimAccepted, TypeOK
  <2>2. /\ nodeIds' \in [Sockets -> SUBSET NodeIds]
        /\ step' \in [Sockets -> NodeIds \cup {None}]
        /\ \A t \in Sockets : t # s => nodeIds'[t] = nodeIds[t] /\ step'[t] = step[t]
        /\ \A m \in NodeIds : (m \in nodeIds'[s] \/ step'[s] = m) <=> (m \in nodeIds[s] \/ m = n)
        /\ step'[s] \in {None, n}
    BY <1>1, <1>2, <1>4 DEF TypeOK
  <2>3. TypeOK'
    <3>1. closing' \subseteq Sockets /\ route' \in [NodeIds -> Sockets \cup {None}] /\ conflicted' = conflicted
      BY <1>2, <1>4 DEF ClaimAccepted, TypeOK
    <3> QED
      BY <1>2, <1>3, <2>2, <3>1 DEF TypeOK
  <2>4. StepOfNode'
    BY <1>2, <1>3, <2>2 DEF StepOfNode, IInv
  <2>5. RegisteredLive'
    BY <1>3 DEF RegisteredLive, IInv
  <2>6. RouteOwned'
    <3> SUFFICES ASSUME NEW m \in NodeIds, NEW t \in Sockets, route'[m] = t
                 PROVE  /\ phase[t] = "live" /\ kind[t] = "node"
                        /\ m \in nodeIds'[t] \/ step'[t] = m \/ t \in disturbed
      BY <1>3 DEF RouteOwned
    <3>1. CASE m = n
      BY <1>2, <2>1, <2>2, <3>1
    <3>2. CASE m # n
      <4>1. /\ phase[t] = "live" /\ kind[t] = "node"
            /\ m \in nodeIds[t] \/ step[t] = m \/ t \in disturbed
        BY <2>1, <3>2 DEF RouteOwned, IInv
      <4> QED
        BY <2>2, <4>1, <1>2
    <3> QED
      BY <3>1, <3>2
  <2>7. QuietAfterClose'
    BY <1>2, <1>3, <2>2 DEF QuietAfterClose, IInv, TypeOK
  <2>8. RouteFollows'
    <3> SUFFICES ASSUME NEW t \in Sockets \ (closed \cup closing'), NEW m \in NodeIds,
                        m \in nodeIds'[t] \/ step'[t] = m
                 PROVE  route'[m] = t
      BY <1>3 DEF RouteFollows
    <3>1. CASE t = s
      BY <1>2, <2>1, <2>2, <3>1 DEF RouteFollows, IInv
    <3>2. CASE t # s
      <4>1. route[m] = t
        BY <2>1, <2>2, <3>2 DEF RouteFollows, IInv
      <4> QED
        BY <2>1, <3>2, <4>1
    <3> QED
      BY <3>1, <3>2
  <2>9. PromptCloseLeavesNoTrace'
    BY <1>2, <1>3, <2>1 DEF PromptCloseLeavesNoTrace, NoTrace, IInv, TypeOK
  <2> QED
    BY <1>2, <2>3, <2>4, <2>5, <2>6, <2>7, <2>8, <2>9 DEF IInv
<1>5. CASE ClaimRejected(n, s) /\ UNCHANGED <<nodeIds, step>>
  <2>1. /\ closing' = closing \cup {s}
        /\ conflicted' \subseteq Sockets
        /\ UNCHANGED <<route, nodeIds, step>>
    BY <1>1, <1>2, <1>5 DEF ClaimRejected, Rival, TypeOK
  <2>2. TypeOK'
    BY <1>2, <1>3, <2>1 DEF TypeOK
  <2>3. StepOfNode' /\ RegisteredLive' /\ RouteOwned'
    BY <1>3, <2>1 DEF StepOfNode, RegisteredLive, RouteOwned, IInv
  <2>4. QuietAfterClose'
    BY <1>2, <1>3, <2>1 DEF QuietAfterClose, IInv, TypeOK
  <2>5. RouteFollows'
    BY <1>3, <2>1 DEF RouteFollows, IInv
  <2>6. PromptCloseLeavesNoTrace'
    BY <1>3, <2>1 DEF PromptCloseLeavesNoTrace, NoTrace, IInv
  <2> QED
    BY <1>2, <2>2, <2>3, <2>4, <2>5, <2>6 DEF IInv
<1> QED
  BY <1>1, <1>4, <1>5 DEF TargetAnnounce

\* A session_announce up to its await, accepted or refused.
LEMMA SessionAnnounceStep ==
  ASSUME IInv, NEW s \in Sockets, SessionAnnounce(s)
  PROVE  IInv'
<1> USE RegistryAssumption
<1>1. PICK n \in NodeIds : n = Head(inbox[s]).node
  BY TakeFrameStep DEF SessionAnnounce
<1>2. /\ kind[s] = "node"
      /\ phase[s] = "live" /\ step[s] = None /\ s \notin closed \ disturbed
      /\ inbox' \in [Sockets -> Seq(Frame)] /\ InboxByKind'
      /\ \A t \in Sockets : inbox[t] = << >> => inbox'[t] = << >>
      /\ TypeOK
  BY TakeFrameStep DEF SessionAnnounce, IInv, TypeOK
<1>3. UNCHANGED <<phase, kind, device, closed, disturbed, nodes, clients, sessions,
                subscriptions, fanOut>>
  BY DEF SessionAnnounce
<1>4. CASE ClaimAccepted(n, s) /\ step' = [step EXCEPT ![s] = n] /\ UNCHANGED nodeIds
  <2>1. /\ \A m \in NodeIds : route'[m] = IF m = n THEN s ELSE route[m]
        /\ route[n] # s => route[n] = None \/ route[n] \in closing'
        /\ closing \subseteq closing'
    BY <1>2, <1>4 DEF ClaimAccepted, TypeOK
  <2>2. /\ nodeIds' \in [Sockets -> SUBSET NodeIds]
        /\ step' \in [Sockets -> NodeIds \cup {None}]
        /\ \A t \in Sockets : t # s => nodeIds'[t] = nodeIds[t] /\ step'[t] = step[t]
        /\ \A m \in NodeIds : (m \in nodeIds'[s] \/ step'[s] = m) <=> (m \in nodeIds[s] \/ m = n)
        /\ step'[s] \in {None, n}
    BY <1>1, <1>2, <1>4 DEF TypeOK
  <2>3. TypeOK'
    <3>1. closing' \subseteq Sockets /\ route' \in [NodeIds -> Sockets \cup {None}] /\ conflicted' = conflicted
      BY <1>2, <1>4 DEF ClaimAccepted, TypeOK
    <3> QED
      BY <1>2, <1>3, <2>2, <3>1 DEF TypeOK
  <2>4. StepOfNode'
    BY <1>2, <1>3, <2>2 DEF StepOfNode, IInv
  <2>5. RegisteredLive'
    BY <1>3 DEF RegisteredLive, IInv
  <2>6. RouteOwned'
    <3> SUFFICES ASSUME NEW m \in NodeIds, NEW t \in Sockets, route'[m] = t
                 PROVE  /\ phase[t] = "live" /\ kind[t] = "node"
                        /\ m \in nodeIds'[t] \/ step'[t] = m \/ t \in disturbed
      BY <1>3 DEF RouteOwned
    <3>1. CASE m = n
      BY <1>2, <2>1, <2>2, <3>1
    <3>2. CASE m # n
      <4>1. /\ phase[t] = "live" /\ kind[t] = "node"
            /\ m \in nodeIds[t] \/ step[t] = m \/ t \in disturbed
        BY <2>1, <3>2 DEF RouteOwned, IInv
      <4> QED
        BY <2>2, <4>1, <1>2
    <3> QED
      BY <3>1, <3>2
  <2>7. QuietAfterClose'
    BY <1>2, <1>3, <2>2 DEF QuietAfterClose, IInv, TypeOK
  <2>8. RouteFollows'
    <3> SUFFICES ASSUME NEW t \in Sockets \ (closed \cup closing'), NEW m \in NodeIds,
                        m \in nodeIds'[t] \/ step'[t] = m
                 PROVE  route'[m] = t
      BY <1>3 DEF RouteFollows
    <3>1. CASE t = s
      BY <1>2, <2>1, <2>2, <3>1 DEF RouteFollows, IInv
    <3>2. CASE t # s
      <4>1. route[m] = t
        BY <2>1, <2>2, <3>2 DEF RouteFollows, IInv
      <4> QED
        BY <2>1, <3>2, <4>1
    <3> QED
      BY <3>1, <3>2
  <2>9. PromptCloseLeavesNoTrace'
    BY <1>2, <1>3, <2>1 DEF PromptCloseLeavesNoTrace, NoTrace, IInv, TypeOK
  <2> QED
    BY <1>2, <2>3, <2>4, <2>5, <2>6, <2>7, <2>8, <2>9 DEF IInv
<1>5. CASE ClaimRejected(n, s) /\ UNCHANGED <<nodeIds, step>>
  <2>1. /\ closing' = closing \cup {s}
        /\ conflicted' \subseteq Sockets
        /\ UNCHANGED <<route, nodeIds, step>>
    BY <1>1, <1>2, <1>5 DEF ClaimRejected, Rival, TypeOK
  <2>2. TypeOK'
    BY <1>2, <1>3, <2>1 DEF TypeOK
  <2>3. StepOfNode' /\ RegisteredLive' /\ RouteOwned'
    BY <1>3, <2>1 DEF StepOfNode, RegisteredLive, RouteOwned, IInv
  <2>4. QuietAfterClose'
    BY <1>2, <1>3, <2>1 DEF QuietAfterClose, IInv, TypeOK
  <2>5. RouteFollows'
    BY <1>3, <2>1 DEF RouteFollows, IInv
  <2>6. PromptCloseLeavesNoTrace'
    BY <1>3, <2>1 DEF PromptCloseLeavesNoTrace, NoTrace, IInv
  <2> QED
    BY <1>2, <2>2, <2>3, <2>4, <2>5, <2>6 DEF IInv
<1> QED
  BY <1>1, <1>4, <1>5 DEF SessionAnnounce

\* The session_announce under way notes its nodeId.
LEMMA SessionStoredStep ==
  ASSUME IInv, NEW s \in Sockets, SessionStored(s)
  PROVE  IInv'
<1> USE RegistryAssumption DEF IInv, TypeOK, SessionStored
<1>1. TypeOK'
  OBVIOUS
<1>2. InboxByKind'
  BY DEF InboxByKind
<1>3. StepOfNode'
  BY DEF StepOfNode
<1>4. RegisteredLive'
  BY DEF RegisteredLive
<1>5. RouteOwned'
  BY DEF RouteOwned
<1>6. QuietAfterClose'
  BY DEF QuietAfterClose
<1>7. RouteFollows'
  BY DEF RouteFollows
<1>8. PromptCloseLeavesNoTrace'
  BY DEF PromptCloseLeavesNoTrace, NoTrace
<1> QED
  BY <1>1, <1>2, <1>3, <1>4, <1>5, <1>6, <1>7, <1>8

\* The session_announce under way is abandoned: its route is accounted for by
\* the failure.
LEMMA SessionStoreFailsStep ==
  ASSUME IInv, NEW s \in Sockets, SessionStoreFails(s)
  PROVE  IInv'
<1> USE RegistryAssumption DEF IInv, TypeOK, SessionStoreFails, regVars
<1>1. TypeOK'
  OBVIOUS
<1>2. InboxByKind'
  BY DEF InboxByKind
<1>3. StepOfNode'
  BY DEF StepOfNode
<1>4. RegisteredLive'
  BY DEF RegisteredLive
<1>5. RouteOwned'
  BY DEF RouteOwned
<1>6. QuietAfterClose'
  BY DEF QuietAfterClose
<1>7. RouteFollows'
  BY DEF RouteFollows
<1>8. PromptCloseLeavesNoTrace'
  BY DEF PromptCloseLeavesNoTrace, NoTrace
<1> QED
  BY <1>1, <1>2, <1>3, <1>4, <1>5, <1>6, <1>7, <1>8

\* A client's session_resume.
LEMMA SessionResumeStep ==
  ASSUME IInv, NEW s \in Sockets, SessionResume(s)
  PROVE  IInv'
<1> USE RegistryAssumption DEF IInv, TypeOK, SessionResume
<1>a. PICK n \in NodeIds : n = Head(inbox[s]).node
  BY TakeFrameStep
<1>b. /\ kind[s] = "client"
      /\ phase[s] = "live" /\ step[s] = None /\ s \notin closed \ disturbed
      /\ inbox' \in [Sockets -> Seq(Frame)] /\ InboxByKind'
      /\ \A t \in Sockets : inbox[t] = << >> => inbox'[t] = << >>
  BY TakeFrameStep
<1>1. TypeOK'
  BY <1>a, <1>b
<1>2. InboxByKind'
  BY <1>b
<1>3. StepOfNode'
  BY <1>a, <1>b DEF StepOfNode
<1>4. RegisteredLive'
  BY <1>a, <1>b DEF RegisteredLive
<1>5. RouteOwned'
  BY <1>a, <1>b DEF RouteOwned
<1>6. QuietAfterClose'
  BY <1>a, <1>b DEF QuietAfterClose
<1>7. RouteFollows'
  BY <1>a, <1>b DEF RouteFollows
<1>8. PromptCloseLeavesNoTrace'
  BY <1>a, <1>b DEF PromptCloseLeavesNoTrace, NoTrace
<1> QED
  BY <1>1, <1>2, <1>3, <1>4, <1>5, <1>6, <1>7, <1>8

\* The close event drops what the connection has, all of it if nothing is under way.
LEMMA CloseStep ==
  ASSUME IInv, NEW s \in Sockets, Close(s)
  PROVE  IInv'
<1> USE RegistryAssumption DEF IInv, TypeOK, Close, DropConnection, RoutesWithout
<1>1. TypeOK'
  OBVIOUS
<1>2. InboxByKind'
  BY DEF InboxByKind
<1>3. StepOfNode'
  BY DEF StepOfNode
<1>4. RegisteredLive'
  BY DEF RegisteredLive
<1>5. RouteOwned'
  BY DEF RouteOwned
<1>6. QuietAfterClose'
  BY DEF QuietAfterClose
<1>7. RouteFollows'
  BY DEF RouteFollows
<1>8. PromptCloseLeavesNoTrace'
  BY DEF PromptCloseLeavesNoTrace, NoTrace, RouteOwned, RegisteredLive
<1> QED
  BY <1>1, <1>2, <1>3, <1>4, <1>5, <1>6, <1>7, <1>8

-----------------------------------------------------------------------------
\* Every step keeps the invariant.
LEMMA NextIInv == IInv /\ [Next]_vars => IInv'
<1> SUFFICES ASSUME IInv, [Next]_vars PROVE IInv'
  OBVIOUS
<1>1. CASE Next
  <2>1. PICK s \in Sockets :
          \/ \E k \in {"node", "client"} : Accept(s, k)
          \/ \E f \in Frame : SendFrame(s, f)
          \/ Initialize(s) \/ InitializeRefused(s) \/ InitializeDone(s)
          \/ TargetAnnounce(s) \/ SessionAnnounce(s) \/ SessionStored(s)
          \/ SessionStoreFails(s) \/ SessionResume(s) \/ Close(s)
    BY <1>1 DEF Next
  <2> QED
    BY <2>1, AcceptStep, SendFrameStep, InitializeStep, InitializeRefusedStep,
       InitializeDoneStep, TargetAnnounceStep, SessionAnnounceStep, SessionStoredStep,
       SessionStoreFailsStep, SessionResumeStep, CloseStep
<1>2. CASE UNCHANGED vars
  BY <1>2 DEF vars, sockVars, regVars, IInv, TypeOK, InboxByKind, StepOfNode, RegisteredLive,
     RouteOwned, QuietAfterClose, RouteFollows, PromptCloseLeavesNoTrace, NoTrace
<1> QED
  BY <1>1, <1>2

\* The inductive invariant holds in every reachable state.
THEOREM Invariance == Spec => []IInv
  BY InitIInv, NextIInv, PTL DEF Spec

\* Types are kept.
THEOREM TypeCorrect == Spec => []TypeOK
<1>1. IInv => TypeOK
  BY DEF IInv
<1> QED
  BY <1>1, Invariance, PTL

\* dropConnection leaves nothing behind of a connection whose close event finds
\* the relay idle on it, whatever the other sockets are doing.
THEOREM PromptCloseIsComplete == Spec => []PromptCloseLeavesNoTrace
<1>1. IInv => PromptCloseLeavesNoTrace
  BY DEF IInv
<1> QED
  BY <1>1, Invariance, PTL

\* Of the connections that have announced a nodeId, all but one are closed or
\* told to close: claimNodeRouting never leaves two.
THEOREM AtMostOneOpenHolder == Spec => []OneOpenHolder
<1>1. IInv => OneOpenHolder
  <2> SUFFICES ASSUME IInv, NEW s \in Sockets \ (closed \cup closing),
                      NEW t \in Sockets \ (closed \cup closing), s # t,
                      NEW n \in nodeIds[s] \cap nodeIds[t]
               PROVE  FALSE
    BY DEF OneOpenHolder
  <2>1. n \in NodeIds
    BY DEF IInv, TypeOK
  <2>2. route[n] = s /\ route[n] = t
    BY <2>1 DEF IInv, RouteFollows
  <2> QED
    BY <2>2
<1> QED
  BY <1>1, Invariance, PTL

\* The routing of an open connection moves only to a newer connection of the
\* same device: no rival's announce and no late close takes it away.
THEOREM RouteStaysWithDevice == Spec => RouteKeptByDevice
<1> DEFINE Kept(n) ==
      (route[n] # None /\ route[n] \notin closed' /\ route'[n] # route[n]) =>
        route'[n] # None /\ device[route'[n]] = device[route[n]]
<1>1. IInv /\ [Next]_vars => [\A n \in NodeIds : Kept(n)]_vars
  <2> SUFFICES ASSUME TypeOK, IInv, Next, NEW n \in NodeIds PROVE Kept(n)
    BY DEF IInv, vars
  <2>1. ASSUME NEW s \in Sockets, NEW m \in NodeIds, ClaimAccepted(m, s) \/ ClaimRejected(m, s)
        PROVE  Kept(n)
    BY <2>1, RegistryAssumption DEF ClaimAccepted, ClaimRejected, Rival, TypeOK
  <2>2. ASSUME NEW s \in Sockets, TargetAnnounce(s) \/ SessionAnnounce(s) PROVE Kept(n)
    <3>1. Head(inbox[s]).node \in NodeIds
      BY <2>2, TakeFrameStep DEF TargetAnnounce, SessionAnnounce
    <3> QED
      BY <2>1, <2>2, <3>1 DEF TargetAnnounce, SessionAnnounce
  <2>3. ASSUME NEW s \in Sockets, Close(s) PROVE Kept(n)
    <3>1. CASE phase[s] = "live" /\ kind[s] = "node"
      BY <2>3, <3>1 DEF Close, DropConnection, RoutesWithout, TypeOK
    <3>2. CASE ~(phase[s] = "live" /\ kind[s] = "node")
      BY <2>3, <3>2 DEF Close, DropConnection
    <3> QED
      BY <3>1, <3>2
  <2>4. ASSUME NEW s \in Sockets,
               \/ \E k \in {"node", "client"} : Accept(s, k)
               \/ \E f \in Frame : SendFrame(s, f)
               \/ Initialize(s) \/ InitializeRefused(s) \/ InitializeDone(s)
               \/ SessionStored(s) \/ SessionStoreFails(s) \/ SessionResume(s)
        PROVE  Kept(n)
    BY <2>4 DEF Accept, SendFrame, Initialize, InitializeRefused, InitializeDone,
                SessionStored, SessionStoreFails, SessionResume, regVars
  <2> QED
    BY <2>2, <2>3, <2>4 DEF Next
<1> QED
  BY <1>1, Invariance, PTL DEF Spec, RouteKeptByDevice

===============================================================================

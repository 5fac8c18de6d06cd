---------------------------- MODULE SessionLaunch ----------------------------
(***************************************************************************)
(* How a node launches the sessions of one local target under its          *)
(* concurrency cap: SessionConcurrencyGate                                 *)
(* (packages/node/src/session-concurrency-gate.ts) with the NodeDaemon     *)
(* methods that own its acquire/release pairing (node-daemon.ts).          *)
(*                                                                         *)
(* The gate is synchronous; its callers are not.  Every await of creation, *)
(* launch, revival and archiving is a point where another session's code   *)
(* runs, so each of them is cut into the steps between its awaits.         *)
(*                                                                         *)
(* Worktrees, titles, MCP servers and status events are left out, and so   *)
(* is the agent of a start that lost to its timeout: it is stopped when it *)
(* comes up and never touches the gate.  Pausing a session leaves its      *)
(* process and its slot alone, so a paused record counts as running.       *)
(***************************************************************************)
EXTENDS Integers, SequencesExt, FiniteSets

CONSTANTS Sessions, MaxRunning   \* maxFor(targetId)

ASSUME LaunchAssumption ==
  /\ IsFiniteSet(Sessions)
  /\ MaxRunning \in Nat \ {0}

VARIABLES
  running,    \* the gate's running count
  queue,      \* the gate's overflow queue, oldest first
  phase,      \* per session: where its launch is
  record,     \* per session: SessionManager's record
  agent,      \* per session: its agent process
  muted,      \* sessions whose AgentSession has emitted its one terminal event
  closed,     \* close() has run
  archived,   \* history: sessions an archive request has come for
  stranded    \* history: sessions queued when a slot was already free

gateVars == <<running, queue>>
vars == <<running, queue, phase, record, agent, muted, closed, archived, stranded>>

\* A session in one of these phases owns one of the target's slots.
SlotPhases == {"starting", "started", "wired", "unwired"}

Holders == {s \in Sessions : phase[s] \in SlotPhases}

\* Revivable sessions are those a restart has left disconnected.
Init ==
  /\ running = 0
  /\ queue = << >>
  /\ phase = [s \in Sessions |-> "idle"]
  /\ record \in [Sessions -> {"none", "disconnected"}]
  /\ agent = [s \in Sessions |-> "none"]
  /\ muted = {} /\ archived = {} /\ stranded = {}
  /\ closed = FALSE

-----------------------------------------------------------------------------
(* The gate.  ph is the phases as the calling step leaves them.            *)

\* tryAcquire for s, launching on success; the callers report on failure.
TryAcquire(s) ==
  IF running >= MaxRunning
  THEN phase' = [phase EXCEPT ![s] = "reporting"] /\ UNCHANGED running
  ELSE phase' = [phase EXCEPT ![s] = "starting"] /\ running' = running + 1

\* Mutant: the freed slot is given back although sessions are waiting.
ReleaseMutant(ph) ==
  /\ running' = running - 1
  /\ phase' = ph
  /\ UNCHANGED queue

\* release: the slot goes straight to the oldest queued session, whose
\* onDequeue launches it, and is freed only when none is queued.
Release(ph) ==
  IF queue # << >>
  THEN /\ queue' = Tail(queue)
       /\ phase' = [ph EXCEPT ![Head(queue)] = "starting"]
       /\ UNCHANGED running
  ELSE /\ running' = IF running > 0 THEN running - 1 ELSE 0
       /\ phase' = ph
       /\ UNCHANGED queue

\* Mutant: only queuedById forgets the session, the queue keeps its entry.
CancelMutant(s) ==
  /\ phase' = IF phase[s] = "queued" THEN [phase EXCEPT ![s] = "withdrawn"] ELSE phase
  /\ UNCHANGED queue

\* cancel: splice s out of the queue, if it is there.
Cancel(s) ==
  IF \E i \in DOMAIN queue : queue[i] = s
  THEN /\ \E i \in DOMAIN queue : queue[i] = s /\ queue' = RemoveAt(queue, i)
       /\ phase' = [phase EXCEPT ![s] = "withdrawn"]
  ELSE UNCHANGED <<queue, phase>>

\* cancel for each of queuedSessionIds.
CancelAll ==
  /\ queue' = << >>
  /\ phase' = [s \in Sessions |-> IF phase[s] = "queued" THEN "withdrawn" ELSE phase[s]]

-----------------------------------------------------------------------------
(* Creation and revival.                                                   *)

\* createSessionInternal or forkSessionInternal has its record and announces.
Create(s) ==
  /\ ~closed
  /\ phase[s] = "idle" /\ record[s] = "none"
  /\ phase' = [phase EXCEPT ![s] = "preparing"]
  /\ record' = [record EXCEPT ![s] = "running"]
  /\ UNCHANGED <<gateVars, agent, muted, closed, archived, stranded>>

\* reviveSessionAttempt of a disconnected session; attempts do not overlap.
Revive(s) ==
  /\ ~closed
  /\ phase[s] \in {"idle", "failed", "over"} /\ record[s] = "disconnected"
  /\ phase' = [phase EXCEPT ![s] = "preparing"]
  /\ UNCHANGED <<gateVars, record, agent, muted, closed, archived, stranded>>

\* The announce, or a revival's lookups, are done: ask the gate.
Acquire(s) ==
  /\ phase[s] = "preparing"
  /\ TryAcquire(s)
  /\ UNCHANGED <<queue, record, agent, muted, closed, archived, stranded>>

\* sendSessionStatus('queued') is done: enqueue.
Enqueue(s) ==
  /\ phase[s] = "reporting"
  /\ queue' = Append(queue, s)
  /\ phase' = [phase EXCEPT ![s] = "queued"]
  /\ stranded' = IF running < MaxRunning THEN stranded \cup {s} ELSE stranded
  /\ UNCHANGED <<running, record, agent, muted, closed, archived>>

-----------------------------------------------------------------------------
(* launchLocalSession, by a session that owns a slot.                      *)

\* startAgentWithMcpFallback resolves.
AgentStarts(s) ==
  /\ phase[s] = "starting"
  /\ phase' = [phase EXCEPT ![s] = "started"]
  /\ agent' = [agent EXCEPT ![s] = "up"]
  /\ muted' = muted \ {s}
  /\ UNCHANGED <<gateVars, record, closed, archived, stranded>>

\* Mutant: a failed start keeps its slot.
StartFailsMutant(s) ==
  /\ phase[s] = "starting"
  /\ phase' = [phase EXCEPT ![s] = "failed"]
  /\ UNCHANGED <<gateVars, record, agent, muted, closed, archived, stranded>>

\* It rejects, or sessionStartTimeoutMs passes first.
StartFails(s) ==
  /\ phase[s] = "starting"
  /\ Release([phase EXCEPT ![s] = "failed"])
  /\ UNCHANGED <<record, agent, muted, closed, archived, stranded>>

\* finishSessionCreation: the bridge enters the map, setAcpSessionId throws if
\* the record is gone, and wireAgentSession registers the exit listener.
FinishCreation(s) ==
  /\ phase[s] = "started"
  /\ phase' = [phase EXCEPT ![s] = IF record[s] = "removed" THEN "unwired" ELSE "wired"]
  /\ UNCHANGED <<gateVars, record, agent, muted, closed, archived, stranded>>

\* reviveSessionAttempt after the launch: if the bridge is still there, the
\* record is running again.
ReviveDone(s) ==
  /\ phase[s] = "wired" /\ record[s] = "disconnected"
  /\ record' = [record EXCEPT ![s] = "running"]
  /\ UNCHANGED <<gateVars, phase, agent, muted, closed, archived, stranded>>

-----------------------------------------------------------------------------
(* The agent.                                                              *)

\* AcpClient cannot parse a line of the agent's output: AgentSession emits
\* 'error', its one terminal event, and the process goes on.
ErrorEvent(s) ==
  /\ phase[s] = "wired" /\ agent[s] = "up"
  /\ s \notin muted
  /\ muted' = muted \cup {s}
  /\ UNCHANGED <<gateVars, phase, record, agent, closed, archived, stranded>>

\* The process exits, by itself or because it was stopped.  handleTerminal
\* emits 'exit' unless it has emitted before, and only a wired session hears.
AgentExits(s) ==
  /\ agent[s] = "up"
  /\ agent' = [agent EXCEPT ![s] = "down"]
  /\ IF phase[s] = "wired" /\ s \notin muted
     THEN Release([phase EXCEPT ![s] = "over"])
     ELSE UNCHANGED <<gateVars, phase>>
  /\ muted' = muted \cup {s}
  /\ UNCHANGED <<record, closed, archived, stranded>>

-----------------------------------------------------------------------------
(* Archiving and shutdown.  Stopping a bridge kills its agent, whose exit  *)
(* follows as AgentExits.                                                  *)

\* handleSessionArchiveRequest, up to archiveSession's first await.  The cancel
\* is unconditional; a record that is ended or gone stays so.
Archive(s) ==
  /\ ~closed
  /\ record[s] # "none"
  /\ Cancel(s)
  /\ archived' = archived \cup {s}
  /\ record' = IF record[s] = "removed" THEN record ELSE [record EXCEPT ![s] = "ended"]
  /\ UNCHANGED <<running, agent, muted, closed, stranded>>

\* removeSession.
ArchiveDone(s) ==
  /\ record[s] = "ended"
  /\ record' = [record EXCEPT ![s] = "removed"]
  /\ UNCHANGED <<gateVars, phase, agent, muted, closed, archived, stranded>>

\* close(): the queue is emptied before any bridge is stopped.
CloseDaemon ==
  /\ ~closed
  /\ closed' = TRUE
  /\ CancelAll
  /\ UNCHANGED <<running, record, agent, muted, archived, stranded>>

-----------------------------------------------------------------------------
Next ==
  \/ \E s \in Sessions :
       \/ Create(s) \/ Revive(s) \/ Acquire(s) \/ Enqueue(s)
       \/ AgentStarts(s) \/ StartFails(s) \/ FinishCreation(s) \/ ReviveDone(s)
       \/ ErrorEvent(s) \/ AgentExits(s)
       \/ Archive(s) \/ ArchiveDone(s)
  \/ CloseDaemon

Spec == Init /\ [][Next]_vars

\* Awaited continuations run, and a start resolves or times out.
Fairness ==
  \A s \in Sessions :
    /\ WF_vars(Acquire(s))
    /\ WF_vars(Enqueue(s))
    /\ WF_vars(AgentStarts(s) \/ StartFails(s))
    /\ WF_vars(FinishCreation(s))
    /\ WF_vars(ReviveDone(s))

FairSpec == Spec /\ Fairness

-----------------------------------------------------------------------------
\* Type invariant; the count of running sessions stays within the cap.
TypeOK ==
  /\ running \in 0..MaxRunning
  /\ queue \in Seq(Sessions)
  /\ phase \in [Sessions -> {"idle", "preparing", "reporting", "queued", "withdrawn",
                             "starting", "started", "wired", "unwired", "over", "failed"}]
  /\ record \in [Sessions -> {"none", "disconnected", "running", "ended", "removed"}]
  /\ agent \in [Sessions -> {"none", "up", "down"}]
  /\ muted \subseteq Sessions
  /\ closed \in BOOLEAN
  /\ archived \subseteq Sessions
  /\ stranded \subseteq Sessions

\* The queue holds exactly the sessions that are waiting, each once.
QueueExact ==
  /\ \A i \in DOMAIN queue : phase[queue[i]] = "queued"
  /\ \A s \in Sessions : phase[s] = "queued" => \E i \in DOMAIN queue : queue[i] = s
  /\ \A i, j \in DOMAIN queue : queue[i] = queue[j] => i = j

\* The gate's bare counter is the number of sessions that own a slot, whoever
\* acquired, handed on and released them in whatever order.  With TypeOK: at
\* most maxFor(targetId) sessions run at a time.
SlotsAccounted == running = Cardinality(Holders)

\* Sessions wait only for a full target, unless one was queued when the last
\* slot had been freed behind its failed tryAcquire.
WaitsForFullTarget ==
  (queue # << >> /\ stranded = {}) => running = MaxRunning

\* A session withdrawn from the queue, by archiving or by close(), is never
\* launched by a later release.
WithdrawnNeverLaunches ==
  [][\A s \in Sessions : phase[s] = "withdrawn" => phase'[s] = "withdrawn"]_vars

\* A slot whose session's exit will not be heard any more.
Leaked(s) ==
  \/ phase[s] = "unwired"
  \/ phase[s] \in {"started", "wired"} /\ s \in muted

\* If every agent process ends some time, every queued session is launched or
\* withdrawn some time, unless a session was stranded or a slot leaked.
QueueDrains ==
  (\A s \in Sessions : []<>(agent[s] # "up")) =>
    \A s \in Sessions :
      phase[s] = "queued" ~>
        (phase[s] # "queued" \/ stranded # {} \/ \E t \in Sessions : Leaked(t))

=============================================================================

------------------------------ MODULE SelfUpdate ------------------------------
(***************************************************************************)
(* The node's update of itself: NodeSelfUpdateMonitor and                  *)
(* applyNodeSelfUpdate (packages/node/src/node-self-update-monitor.ts and  *)
(* self-update.ts) over the local driver of install-layout.ts, driven by   *)
(* handleNodeSelfUpdateApplyRequest of node-daemon.ts.  A bundle is        *)
(* unpacked into versions/<version>/, started once with --version, and only*)
(* then the link "current" is moved to it and the process exits, for the   *)
(* service manager to start what "current" points at.                      *)
(*                                                                         *)
(* Every await between two effects on the disk separates two steps; the    *)
(* requests are not serialized by the code, turns of agent sessions start  *)
(* and end in between, and the process may be killed at any point.         *)
(***************************************************************************)
EXTENDS Integers, FiniteSets

CONSTANTS Requests,    \* node_self_update_apply_requests
          NoVersion,   \* no link, no process, no version known
          MaxVersion,  \* bound: versions are 1..MaxVersion, in order of release
          MaxKills     \* bound: times the process is killed

ASSUME UpdateAssumption ==
  /\ IsFiniteSet(Requests)
  /\ MaxVersion \in Nat \ {0}
  /\ MaxKills \in Nat
  /\ NoVersion \notin Requests \cup (1..MaxVersion)

Versions == 1..MaxVersion

VARIABLES
  sound,    \* versions whose bundle starts and reports its own version
  newest,   \* the newest release
  dir,      \* per version: what is at versions/<version>/
  current,  \* the version "current" points at
  running,  \* the version of the running process
  latest,   \* monitor.latest.latestVersion
  working,  \* some session's agent is in a turn
  updatePc, \* per request: the call it makes next
  target,   \* per request: targetVersion
  goal,     \* per request: the version being activated, or gone back to
  reply,    \* per request: the node_self_update_apply_response
  kills,
  overlapped  \* history: a request was let through with another under way

disk == <<dir, current>>
process == <<running, latest, working>>
request == <<updatePc, target, goal, reply>>
world == <<sound, newest, kills, overlapped>>
updateVars == <<disk, process, request, world>>

Labels == {"idle", "fetch", "remove", "make", "extract", "extracting", "severed",
           "probe", "stat", "unlink", "link", "restart", "exit", "recheck", "done", "lost"}
InFlight(r) == updatePc[r] \notin {"idle", "done", "lost"}

Goto(r, l) == updatePc' = [updatePc EXCEPT ![r] = l]

\* What the service manager, or the probe, can start.
Starts(v) == v \in sound /\ dir[v] = "whole"

-----------------------------------------------------------------------------
\* Version 1 has been installed and runs.
UpdateInit ==
  /\ sound \in {S \in SUBSET Versions : 1 \in S}
  /\ newest = 1
  /\ dir = [v \in Versions |-> IF v = 1 THEN "whole" ELSE "absent"]
  /\ current = 1
  /\ running = 1
  /\ latest = NoVersion
  /\ working = FALSE
  /\ updatePc = [r \in Requests |-> "idle"]
  /\ target = [r \in Requests |-> NoVersion]
  /\ goal = [r \in Requests |-> NoVersion]
  /\ reply = [r \in Requests |-> "none"]
  /\ kills = 0
  /\ overlapped = FALSE

\* A version is released.
Release ==
  /\ newest < MaxVersion
  /\ newest' = newest + 1
  /\ UNCHANGED <<disk, process, request, sound, kills, overlapped>>

TurnStarts ==
  /\ running # NoVersion /\ ~working
  /\ working' = TRUE
  /\ UNCHANGED <<disk, request, world, running, latest>>

TurnEnds ==
  /\ working
  /\ working' = FALSE
  /\ UNCHANGED <<disk, request, world, running, latest>>

\* What checkNow records: the newest release when it asked, or nothing when
\* checkLatest rejects or finds no bundle for this platform.
CheckNow == latest' \in (1..newest) \cup {NoVersion}

\* checkNow, at the start and every intervalMs.
PeriodicCheck ==
  /\ running # NoVersion
  /\ CheckNow
  /\ UNCHANGED <<disk, request, world, running, working>>

Finish(r, answer) ==
  /\ Goto(r, "done")
  /\ reply' = [reply EXCEPT ![r] = answer]

\* Mutant: not strictly newer.
UpdateAvailableMutant == latest # NoVersion /\ latest >= running

\* evaluateNodeUpdateStatus = 'update_available'.
UpdateAvailable == latest # NoVersion /\ latest > running

\* The request arrives: refused during a turn or with nothing newer known.
ApplyRequest(r) ==
  /\ running # NoVersion
  /\ updatePc[r] = "idle"
  /\ IF working \/ ~UpdateAvailable
     THEN Finish(r, "failed") /\ UNCHANGED <<target, goal, overlapped>>
     ELSE /\ Goto(r, "fetch")
          /\ target' = [target EXCEPT ![r] = latest]
          /\ goal' = [goal EXCEPT ![r] = latest]
          /\ overlapped' = (overlapped \/ \E q \in Requests : InFlight(q))
          /\ UNCHANGED reply
  /\ UNCHANGED <<disk, process, sound, newest, kills>>

\* source.fetch, and the signature when a key is configured: on failure the
\* monitor checks again before it answers.
Fetch(r) ==
  /\ updatePc[r] = "fetch"
  /\ Goto(r, "remove") \/ Goto(r, "recheck")
  /\ UNCHANGED <<disk, process, target, goal, reply, world>>

\* stageVersion: rm.  A tar that was unpacking there goes on into nothing.
StageRemove(r) ==
  /\ updatePc[r] = "remove"
  /\ dir' = [dir EXCEPT ![target[r]] = "absent"]
  /\ updatePc' = [q \in Requests |->
              IF q = r THEN "make"
              ELSE IF updatePc[q] = "extracting" /\ target[q] = target[r] THEN "severed"
              ELSE updatePc[q]]
  /\ UNCHANGED <<current, process, target, goal, reply, world>>

\* stageVersion: mkdir.
StageMake(r) ==
  /\ updatePc[r] = "make"
  /\ dir' = [dir EXCEPT ![target[r]] = IF @ = "absent" THEN "partial" ELSE @]
  /\ Goto(r, "extract")
  /\ UNCHANGED <<current, process, target, goal, reply, world>>

\* stageVersion: tar starts to replace the files there.
StageExtract(r) ==
  /\ updatePc[r] = "extract"
  /\ dir[target[r]] # "absent"
  /\ dir' = [dir EXCEPT ![target[r]] = "partial"]
  /\ Goto(r, "extracting")
  /\ UNCHANGED <<current, process, target, goal, reply, world>>

\* stageVersion: tar ends.
StageExtracted(r) ==
  /\ updatePc[r] = "extracting"
  /\ dir' = [dir EXCEPT ![target[r]] =
               IF \E q \in Requests \ {r} : updatePc[q] = "extracting" /\ target[q] = target[r]
               THEN "partial" ELSE "whole"]
  /\ Goto(r, "probe")
  /\ UNCHANGED <<current, process, target, goal, reply, world>>

\* Mutant: a rejected stageVersion is not answered.
StageFailsMutant(r) ==
  /\ updatePc[r] \in {"remove", "make", "extract", "extracting", "severed"}
  /\ Goto(r, "done")
  /\ \/ UNCHANGED dir
     \/ dir' = [dir EXCEPT ![target[r]] = IF @ = "absent" THEN @ ELSE "partial"]
  /\ UNCHANGED <<current, process, target, goal, reply, world>>

\* A call of stageVersion rejects, with what it has done so far left on the disk:
\* neither a check nor a rollback, only the answer.
StageFails(r) ==
  /\ updatePc[r] \in {"remove", "make", "extract", "extracting", "severed"}
  /\ Finish(r, "failed")
  /\ \/ UNCHANGED dir
     \/ dir' = [dir EXCEPT ![target[r]] = IF @ = "absent" THEN @ ELSE "partial"]
  /\ UNCHANGED <<current, process, target, goal, world>>

\* Mutant: the exit code of the probe is all that counts, and it is ignored.
ProbeMutant(r) ==
  /\ updatePc[r] = "probe"
  /\ Goto(r, "stat") \/ Goto(r, "recheck")
  /\ UNCHANGED <<disk, process, target, goal, reply, world>>

\* verifyStagedNodeBuild: a whole and sound build answers; a partial one may, if
\* its entry file is there; any may take longer than timeoutMs.
Probe(r) ==
  /\ updatePc[r] = "probe"
  /\ \/ target[r] \in sound /\ dir[target[r]] # "absent" /\ Goto(r, "stat")
     \/ Goto(r, "recheck")
  /\ UNCHANGED <<disk, process, target, goal, reply, world>>

\* Mutant: a failed activation goes on to the restart.
ActivationFailsMutant(r) ==
  IF goal[r] = target[r]
  THEN Goto(r, "restart") /\ UNCHANGED goal
  ELSE Goto(r, "recheck") /\ UNCHANGED goal

\* activateVersion throws: rollbackVersion to the running version, whose own
\* failure is swallowed.
ActivationFails(r) ==
  IF goal[r] = target[r]
  THEN Goto(r, "stat") /\ goal' = [goal EXCEPT ![r] = running]
  ELSE Goto(r, "recheck") /\ UNCHANGED goal

\* activateVersion: stat.
ActivateStat(r) ==
  /\ updatePc[r] = "stat"
  /\ \/ dir[goal[r]] # "absent" /\ Goto(r, "unlink") /\ UNCHANGED goal
     \/ ActivationFails(r)
  /\ UNCHANGED <<disk, process, target, reply, world>>

\* activateVersion: unlink, ENOENT swallowed.
ActivateUnlink(r) ==
  /\ updatePc[r] = "unlink"
  /\ \/ current' = NoVersion /\ Goto(r, "link") /\ UNCHANGED goal
     \/ ActivationFails(r) /\ UNCHANGED current
  /\ UNCHANGED <<dir, process, target, reply, world>>

\* activateVersion: symlink, which fails when there is a link again.
ActivateLink(r) ==
  /\ updatePc[r] = "link"
  /\ \/ /\ current = NoVersion
        /\ current' = goal[r]
        /\ Goto(r, IF goal[r] = target[r] THEN "restart" ELSE "recheck")
        /\ UNCHANGED goal
     \/ ActivationFails(r) /\ UNCHANGED current
  /\ UNCHANGED <<dir, process, target, reply, world>>

\* The restart callback answers, then waits for the frame to leave.
AnswerUpdated(r) ==
  /\ updatePc[r] = "restart"
  /\ Goto(r, "exit")
  /\ reply' = [reply EXCEPT ![r] = "ok"]
  /\ UNCHANGED <<disk, process, target, goal, world>>

\* checkNow after a failed attempt, and the answer.
AnswerFailed(r) ==
  /\ updatePc[r] = "recheck"
  /\ CheckNow
  /\ Finish(r, "failed")
  /\ UNCHANGED <<disk, running, working, target, goal, world>>

\* The process is gone, with every request it was working on.
ProcessEnds ==
  /\ running' = NoVersion
  /\ latest' = NoVersion
  /\ working' = FALSE
  /\ updatePc' = [r \in Requests |-> IF InFlight(r) THEN "lost" ELSE updatePc[r]]
  /\ UNCHANGED <<disk, target, goal, reply, sound, newest, overlapped>>

\* The restart: process.exit(0).
Exit(r) ==
  /\ updatePc[r] = "exit"
  /\ ProcessEnds
  /\ UNCHANGED kills

Kill ==
  /\ running # NoVersion
  /\ kills < MaxKills
  /\ kills' = kills + 1
  /\ ProcessEnds

\* The service manager starts current/node.mjs.
ServiceStart ==
  /\ running = NoVersion
  /\ current # NoVersion
  /\ Starts(current)
  /\ running' = current
  /\ UNCHANGED <<disk, latest, working, request, world>>

\* A step of a request under way.
Step(r) ==
  \/ Fetch(r) \/ StageRemove(r) \/ StageMake(r) \/ StageExtract(r)
  \/ StageExtracted(r) \/ StageFails(r) \/ Probe(r) \/ ActivateStat(r)
  \/ ActivateUnlink(r) \/ ActivateLink(r) \/ AnswerUpdated(r) \/ AnswerFailed(r)
  \/ Exit(r)

UpdateNext ==
  \/ Release \/ TurnStarts \/ TurnEnds \/ PeriodicCheck \/ Kill \/ ServiceStart
  \/ \E r \in Requests : ApplyRequest(r) \/ Step(r)

UpdateSpec == UpdateInit /\ [][UpdateNext]_updateVars

\* The calls a request makes end, and a stopped service is started again.
UpdateFairness == WF_updateVars(ServiceStart) /\ \A r \in Requests : WF_updateVars(Step(r))

UpdateFairSpec == UpdateSpec /\ UpdateFairness

-----------------------------------------------------------------------------
\* Type invariant.
UpdateTypeOK ==
  /\ sound \in SUBSET Versions
  /\ newest \in Versions
  /\ dir \in [Versions -> {"absent", "partial", "whole"}]
  /\ current \in Versions \cup {NoVersion}
  /\ running \in Versions \cup {NoVersion}
  /\ latest \in Versions \cup {NoVersion}
  /\ working \in BOOLEAN
  /\ updatePc \in [Requests -> Labels]
  /\ target \in [Requests -> Versions \cup {NoVersion}]
  /\ goal \in [Requests -> Versions \cup {NoVersion}]
  /\ reply \in [Requests -> {"none", "ok", "failed"}]
  /\ kills \in 0..MaxKills
  /\ overlapped \in BOOLEAN

\* What "current" points at can be started, through failed downloads, half
\* unpacked bundles, bundles that do not start, failed links, kills and repeated
\* attempts: the gate before the swap "can never leave a live symlink pointed at a
\* build that turned out to be broken" (self-update.ts, applyNodeSelfUpdate).  Only
\* a request that overlaps another may remove the version that one has activated.
LiveBuildStarts == current # NoVersion /\ ~overlapped => Starts(current)

\* The running version stays unpacked on the disk, so that a failed activation can
\* go back to it without the network, however requests overlap.
OldBuildKept == running # NoVersion => Starts(running)

\* An update that was answered with ok takes effect: the process comes back as that
\* version or a later one, also if it is killed before it exits, unless a request
\* that overlapped has interfered.
UpdateTakesEffect ==
  \A r \in Requests, v \in Versions :
    updatePc[r] = "exit" /\ target[r] = v ~> (running # NoVersion /\ running >= v) \/ overlapped

\* Every request is answered, unless the process ends first: no error path of the
\* chain of awaits leaves the client without an answer.
EveryRequestAnswered ==
  \A r \in Requests : InFlight(r) ~> reply[r] # "none" \/ updatePc[r] = "lost"

==============================================================================

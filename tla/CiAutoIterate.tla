---------------------------- MODULE CiAutoIterate ----------------------------
(***************************************************************************)
(* How red checks and failed local runs drive turns of a session's agent:  *)
(* CiCheckWatcher (packages/node/src/ci-check-watcher.ts), the             *)
(* AutoIterateDriveGate and the CiAutoIterateController, as NodeDaemon     *)
(* wires them, for one session (all of their state is kept per session).   *)
(*                                                                         *)
(* A poll of the pull request's checks, the registration of a new pull     *)
(* request, the look-up of a failed run's commit and the delivery of a     *)
(* decided turn each wait for something outside the daemon in the middle,  *)
(* so each is two steps between which the others, a user's stop, a pause,  *)
(* an archive or a restart may come.                                       *)
(***************************************************************************)
EXTENDS Integers, FiniteSets

CONSTANTS Shas,         \* commits
          NoSha,        \* no commit: undefined or 'unknown'
          MaxAttempts,  \* maxAttempts
          MaxPrs,       \* bound: pull requests the session opens
          MaxRuns,      \* bound: failed runs whose commit is being looked up
          MaxLoops      \* bound: loops after which nothing new comes in

ASSUME IterateAssumption ==
  /\ NoSha \notin Shas
  /\ MaxAttempts \in Nat /\ MaxPrs \in Nat /\ MaxRuns \in Nat /\ MaxLoops \in Nat

VARIABLES
  checks,       \* what the check runs of the newest pull request add up to
  opened,       \* number of pull requests opened
  session,      \* the session's record and agent
  watched,      \* CiCheckWatcher.entries: the pull request, 0 for none
  stored,       \* the same in the CiWatchStore file
  notified,     \* CiCheckWatcher.notifiedFailureSha
  poll,         \* pollOne's locals: the entry's pull request and the reading
  registering,  \* registerCiCheckWatch waits for the branch of this one, 0: none
  failedRuns,   \* driveAutoIterateFromRunFailure calls that wait for the commit
  gate,         \* AutoIterateDriveGate.lastDrivenSha
  loop,         \* CiAutoIterateController's record, fresh where it has none
  turns,        \* number of decided turns that wait for the status push before the prompt
  loops,        \* history: loops ended after a turn or a stop, and restarts
  prompted,     \* history: turns handed to the agent
  stopped,      \* history: the user's stop is in force
  weighed,      \* history: the last commit weighed in this loop
  drove         \* history: the commits that drove a turn since the gate was last cleared

world == <<checks, opened>>
watcher == <<watched, stored, notified, poll, registering>>
driver == <<failedRuns, gate, loop, turns, loops, stopped, weighed, drove>>
vars == <<checks, opened, session, watched, stored, notified, poll, registering,
          failedRuns, gate, loop, turns, loops, prompted, stopped, weighed, drove>>

\* What a poll can report.  'pending' is treated as 'unknown' is, and only a
\* failing reading's commit is looked at.
Unknown == [state |-> "unknown", sha |-> NoSha]
Passing == [state |-> "passing", sha |-> NoSha]
Failing(s) == [state |-> "failing", sha |-> s]
Readings == {Unknown, Passing} \cup {Failing(s) : s \in Shas}

NoPoll == [pr |-> 0, reading |-> Unknown, answered |-> FALSE]

\* freshRecord.
FreshRecord == [attempts |-> 0, active |-> FALSE, reason |-> "none", userStopped |-> FALSE]

\* Something new still comes in.
Live == loops < MaxLoops

\* This daemon knows the session: resolveSessionRouting.
Known == session # "gone"

-----------------------------------------------------------------------------
Init ==
  /\ checks = Unknown
  /\ opened = 0
  /\ session = "running"
  /\ watched = 0 /\ stored = 0
  /\ notified = NoSha
  /\ poll = NoPoll
  /\ registering = 0
  /\ failedRuns = 0
  /\ gate = NoSha
  /\ loop = FreshRecord
  /\ turns = 0
  /\ loops = 0 /\ prompted = 0
  /\ stopped = FALSE
  /\ weighed = NoSha
  /\ drove = {}

-----------------------------------------------------------------------------
(* The loop.                                                               *)

\* A loop that has driven a turn or was stopped is over.
Ends == loops' = loops + (IF loop.attempts > 0 \/ stopped THEN 1 ELSE 0)

\* reset() or forget(), and clear() of the gate.
Reset ==
  /\ loop' = FreshRecord
  /\ gate' = NoSha
  /\ stopped' = FALSE
  /\ weighed' = NoSha
  /\ drove' = {}
  /\ Ends

\* Mutant: a green check clears the gate but leaves the loop as it is.
OnGreenMutant ==
  /\ gate' = NoSha
  /\ drove' = {}
  /\ UNCHANGED <<loop, stopped, weighed, loops>>

\* onUpdate of a passing reading: clear() of the gate and onGreen().
OnGreen ==
  /\ gate' = NoSha
  /\ drove' = {}
  /\ IF ~loop.active /\ loop.attempts = 0 /\ loop.reason = "none"
     THEN UNCHANGED <<loop, stopped, weighed, loops>>
     ELSE /\ loop' = [FreshRecord EXCEPT !.reason = "green"]
          /\ stopped' = FALSE
          /\ weighed' = NoSha
          /\ Ends

\* isAutoIterateEligible: a session the daemon has no record of counts as eligible.
Eligible == session \in {"running", "gone"}

\* shouldDrive: a commit is driven unless it is the last one remembered.
ShouldDrive(s) == s = NoSha \/ gate # s

\* Mutant: the attempts are compared one too late.
OnFailureMutant ==
  LET refuse(why) == /\ loop' = [loop EXCEPT !.active = FALSE, !.reason = why]
                     /\ UNCHANGED turns
  IN IF loop.userStopped THEN refuse("user_stop")
     ELSE IF loop.attempts > MaxAttempts THEN refuse("max_attempts")
     ELSE IF ~Eligible THEN refuse("ineligible")
     ELSE /\ loop' = [loop EXCEPT !.attempts = @ + 1, !.active = TRUE, !.reason = "none"]
          /\ turns' = turns + 1

\* CiAutoIterateController.onFailure.
OnFailure ==
  LET refuse(why) == /\ loop' = [loop EXCEPT !.active = FALSE, !.reason = why]
                     /\ UNCHANGED turns
  IN IF loop.userStopped THEN refuse("user_stop")
     ELSE IF loop.attempts >= MaxAttempts THEN refuse("max_attempts")
     ELSE IF ~Eligible THEN refuse("ineligible")
     ELSE /\ loop' = [loop EXCEPT !.attempts = @ + 1, !.active = TRUE, !.reason = "none"]
          /\ turns' = turns + 1

\* handleCiCheckFailure, and driveAutoIterateFromRunFailure once it has the
\* commit: up to the push of the status, which the prompt waits for.
Weigh(s) ==
  /\ IF ShouldDrive(s)
     THEN /\ gate' = IF s = NoSha THEN gate ELSE s
          /\ OnFailure
          /\ weighed' = s
          /\ drove' = IF turns' > turns THEN drove \cup ({s} \ {NoSha}) ELSE drove
     ELSE UNCHANGED <<gate, loop, turns, weighed, drove>>
  /\ UNCHANGED <<loops, stopped>>

\* The status is pushed and promptSession finds the session's bridge.
PromptSession ==
  /\ turns > 0
  /\ session \in {"running", "paused", "ended"}
  /\ turns' = turns - 1
  /\ prompted' = prompted + 1
  /\ UNCHANGED <<world, session, watcher, failedRuns, gate, loop, loops, stopped, weighed, drove>>

\* The push rejects, or promptSession does: no bridge, or the lease is lost.
PromptFails ==
  /\ turns > 0
  /\ turns' = turns - 1
  /\ UNCHANGED <<world, session, watcher, failedRuns, gate, loop, loops, prompted, stopped,
                 weighed, drove>>

\* Mutant: the stop ends the loop but is not remembered.
StopByUserMutant ==
  /\ Live /\ Known
  /\ loop' = [loop EXCEPT !.active = FALSE, !.reason = "user_stop"]
  /\ stopped' = TRUE
  /\ UNCHANGED <<world, session, watcher, failedRuns, gate, turns, loops, prompted, weighed, drove>>

\* handleCiAutoIterateStop.
StopByUser ==
  /\ Live /\ Known
  /\ loop' = [loop EXCEPT !.userStopped = TRUE, !.active = FALSE, !.reason = "user_stop"]
  /\ stopped' = TRUE
  /\ UNCHANGED <<world, session, watcher, failedRuns, gate, turns, loops, prompted, weighed, drove>>

-----------------------------------------------------------------------------
(* CiCheckWatcher.                                                         *)

\* runPass: pollOne asks for the checks of the entry it was given.
StartPoll ==
  /\ poll.pr = 0 /\ watched # 0
  /\ poll' = [NoPoll EXCEPT !.pr = watched]
  /\ UNCHANGED <<world, session, watched, stored, notified, registering, driver, prompted>>

\* fetchState succeeds; a pull request that has been replaced may be in any state.
FetchState(r) ==
  /\ poll.pr # 0 /\ ~poll.answered
  /\ r # checks => Live /\ poll.pr # opened
  /\ poll' = [poll EXCEPT !.reading = r, !.answered = TRUE]
  /\ UNCHANGED <<world, session, watched, stored, notified, registering, driver, prompted>>

\* There is no token, the request fails or times out.
FetchFails ==
  /\ poll.pr # 0 /\ ~poll.answered
  /\ poll' = [poll EXCEPT !.reading = Unknown, !.answered = TRUE]
  /\ UNCHANGED <<world, session, watched, stored, notified, registering, driver, prompted>>

\* Mutant: a commit is remembered only once the gate has let it through.
PollDoneMutant ==
  LET r == poll.reading IN
  /\ poll.answered
  /\ poll' = NoPoll
  /\ IF watched = 0
     THEN UNCHANGED <<notified, gate, loop, turns, loops, stopped, weighed, drove>>
     ELSE /\ notified' = IF r.state # "failing" THEN NoSha
                        ELSE IF ShouldDrive(r.sha) THEN r.sha ELSE notified
          /\ CASE r.state = "passing" -> OnGreen /\ UNCHANGED turns
               [] r.state = "failing" /\ notified # r.sha -> Weigh(r.sha)
               [] OTHER -> UNCHANGED <<gate, loop, turns, loops, stopped, weighed, drove>>
  /\ UNCHANGED <<world, session, watched, stored, registering, failedRuns, prompted>>

\* pollOne goes on with the reading, whatever is watched by now.
PollDone ==
  LET r == poll.reading IN
  /\ poll.answered
  /\ poll' = NoPoll
  /\ IF watched = 0
     THEN UNCHANGED <<notified, gate, loop, turns, loops, stopped, weighed, drove>>
     ELSE /\ notified' = IF r.state = "failing" THEN r.sha ELSE NoSha
          /\ CASE r.state = "passing" -> OnGreen /\ UNCHANGED turns
               [] r.state = "failing" /\ notified # r.sha -> Weigh(r.sha)
               [] OTHER -> UNCHANGED <<gate, loop, turns, loops, stopped, weighed, drove>>
  /\ UNCHANGED <<world, session, watched, stored, registering, failedRuns, prompted>>

\* openPr has succeeded; registerCiCheckWatch asks for the session's branch.
PrOpened ==
  /\ Live /\ Known /\ registering = 0 /\ opened < MaxPrs
  /\ opened' = opened + 1
  /\ registering' = opened + 1
  /\ checks' = Unknown
  /\ UNCHANGED <<session, watched, stored, notified, poll, driver, prompted>>

\* registerCiCheckWatch has the branch.
RegisterCiCheckWatch ==
  /\ registering # 0
  /\ watched' = registering /\ stored' = registering
  /\ registering' = 0
  /\ Reset
  /\ UNCHANGED <<world, session, notified, poll, failedRuns, turns, prompted>>

\* It has none, or the pull request is not on github.com.
RegisterFails ==
  /\ registering # 0
  /\ registering' = 0
  /\ UNCHANGED <<world, session, watched, stored, notified, poll, driver, prompted>>

-----------------------------------------------------------------------------
(* The local runner.                                                       *)

\* trackRunOutcome of a failed run.
RunFails ==
  /\ Live /\ failedRuns < MaxRuns
  /\ failedRuns' = failedRuns + 1
  /\ UNCHANGED <<world, session, watcher, gate, loop, turns, loops, prompted, stopped, weighed,
                 drove>>

\* driveAutoIterateFromRunFailure has the worktree's commit s, or none.
DriveFromRunFailure(s) ==
  /\ failedRuns > 0
  /\ failedRuns' = failedRuns - 1
  /\ Weigh(s)
  /\ UNCHANGED <<world, session, watcher, prompted>>

-----------------------------------------------------------------------------
(* The session and the daemon.                                             *)

\* The session is paused, or its spend is over the cap.
Pause ==
  /\ session = "running" /\ session' = "paused"
  /\ UNCHANGED <<world, watcher, driver, prompted>>

\* It is resumed, its cap raised, or it is revived after a restart.
Resume ==
  /\ session \in {"paused", "disconnected"} /\ session' = "running"
  /\ UNCHANGED <<world, watcher, driver, prompted>>

\* archiveSession up to its first wait.
ArchiveSession ==
  /\ session \in {"running", "paused", "disconnected"}
  /\ session' = "ended"
  /\ watched' = 0 /\ stored' = 0
  /\ notified' = NoSha
  /\ Reset
  /\ UNCHANGED <<world, poll, registering, failedRuns, turns, prompted>>

\* removeSession.
RemoveSession ==
  /\ session = "ended" /\ session' = "gone"
  /\ UNCHANGED <<world, watcher, driver, prompted>>

\* The daemon ends and starts again: only the stored watch survives, and that
\* only if the session's record does.
Restart ==
  /\ Live
  /\ session' = IF session \in {"ended", "gone"} THEN session ELSE "disconnected"
  /\ watched' = IF Known THEN stored ELSE 0
  /\ stored' = watched'
  /\ notified' = NoSha
  /\ poll' = NoPoll /\ registering' = 0 /\ failedRuns' = 0
  /\ gate' = NoSha /\ loop' = FreshRecord
  /\ turns' = 0
  /\ stopped' = FALSE /\ weighed' = NoSha /\ drove' = {}
  /\ loops' = loops + 1
  /\ UNCHANGED <<world, prompted>>

-----------------------------------------------------------------------------
(* GitHub.                                                                 *)

\* The pull request's branch is pushed, or its check runs go on.
ChecksChange(r) ==
  /\ Live /\ opened > 0
  /\ checks' = r
  /\ UNCHANGED <<opened, session, watcher, driver, prompted>>

-----------------------------------------------------------------------------
Node ==
  \/ PromptSession \/ PromptFails
  \/ StopByUser
  \/ StartPoll \/ (\E r \in Readings : FetchState(r)) \/ FetchFails \/ PollDone
  \/ PrOpened \/ RegisterCiCheckWatch \/ RegisterFails
  \/ RunFails \/ \E s \in Shas \cup {NoSha} : DriveFromRunFailure(s)
  \/ Pause \/ Resume \/ ArchiveSession \/ RemoveSession \/ Restart

World == \E r \in Readings : ChecksChange(r)

Next == Node \/ World

Spec == Init /\ [][Next]_vars

\* The interval timer starts a pass whenever none is running, a request ends by
\* its timeout at the latest, and now and then it succeeds.
Fairness ==
  /\ WF_vars(StartPoll) /\ WF_vars(PollDone)
  /\ SF_vars(\E r \in Readings : FetchState(r))

FairSpec == Spec /\ Fairness

-----------------------------------------------------------------------------
\* Type invariant of the session's entries in the watcher, gate and controller.
TypeOK ==
  /\ checks \in Readings
  /\ opened \in Nat
  /\ session \in {"running", "paused", "disconnected", "ended", "gone"}
  /\ watched \in Nat /\ stored \in Nat /\ registering \in Nat
  /\ notified \in Shas \cup {NoSha}
  /\ poll \in [pr : Nat, reading : Readings, answered : BOOLEAN]
  /\ failedRuns \in Nat
  /\ gate \in Shas \cup {NoSha}
  /\ loop \in [attempts : Nat, active : BOOLEAN,
               reason : {"none", "user_stop", "max_attempts", "ineligible", "green"},
               userStopped : BOOLEAN]
  /\ turns \in Nat
  /\ loops \in Nat /\ prompted \in Nat
  /\ stopped \in BOOLEAN
  /\ weighed \in Shas \cup {NoSha}
  /\ drove \in SUBSET Shas

\* The loop never spins: however the two sources interleave with late polls and
\* delayed prompts, the agent gets at most maxAttempts turns per loop, and a loop
\* ends only by a green check, a new pull request, an archive or a restart.
TurnsBounded == prompted <= MaxAttempts * (loops + 1)

\* A user's stop holds: until a check is green, another pull request is watched or
\* the daemon forgets the session, no failure from either source decides on a
\* turn, also not one whose poll or commit look-up was under way already.
StopHolds == [][stopped => turns' <= turns]_vars

\* A red check and a failed local run of the same commit do not drive two turns in a
\* row: within a loop, a commit drives again only after another failure was weighed,
\* of another commit or of one that is not known.
RepeatNeedsAnother ==
  [][turns' > turns => weighed' = NoSha \/ weighed' # weighed]_vars

\* What the comment of shouldDrive claims (auto-iterate-drive-gate.ts:40), and the code
\* does not do: true the first time a commit is seen since the last clear(), false
\* every later time, so that a commit drives one turn.  The gate remembers one commit;
\* after A and then B have failed, a late report of A drives A again.
DrivenOncePerClear ==
  [][turns' > turns => weighed' \notin drove]_vars

\* Polling never gets stuck: while the watched pull request stays red on one
\* commit, the watcher has reported that commit again and again.
RedIsNoticed ==
  \A s \in Shas :
    <>[](watched = opened /\ checks = Failing(s)) => []<>(notified = s)

==============================================================================

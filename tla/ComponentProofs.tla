--------------------------- MODULE ComponentProofs ---------------------------
(***************************************************************************)
(* Proofs about three components that share no names and no state:         *)
(* SelfUpdate, SessionLease and PromptQueue, one after the other.          *)
(***************************************************************************)
EXTENDS SelfUpdate, SessionLease, PromptQueue, FiniteSetTheorems, TLAPS

-----
(* The node's update of itself.                                            *)

\* A request under way belongs to the running process, is for a newer version,
\* and activates that version or goes back to the running one.
UnderWay ==
  \A r \in Requests : InFlight(r) =>
    /\ running # NoVersion /\ target[r] \in Versions /\ target[r] > running
    /\ goal[r] \in {target[r], running}

\* "current" points at the request's version.
Swapped(r) == updatePc[r] \in {"restart", "exit"}

\* As long as requests do not overlap, one is under way at most; "current" is left
\* alone, removed or restored until it is moved to a version that was unpacked to
\* the end, and started.
Alone ==
  /\ \A r, q \in Requests : InFlight(r) /\ InFlight(q) => r = q
  /\ running # NoVersion /\ (\A r \in Requests : ~Swapped(r)) => current \in {NoVersion, running}
  /\ \A r \in Requests :
       /\ updatePc[r] = "probe" => dir[target[r]] = "whole"
       /\ updatePc[r] \in {"stat", "unlink", "link"} /\ goal[r] = target[r] => Starts(target[r])
       /\ Swapped(r) => current = target[r]

UInv ==
  /\ UpdateTypeOK
  /\ UnderWay
  /\ OldBuildKept
  /\ ~overlapped => Alone
  /\ LiveBuildStarts

\* The invariant holds with version 1 installed and running.
LEMMA UpdateStarts == UpdateInit => UInv
<1> SUFFICES ASSUME UpdateInit PROVE UInv
  OBVIOUS
<1> USE DEF UpdateInit
<1>1. 1 \in Versions /\ 1 # NoVersion /\ NoVersion \notin Versions
  BY UpdateAssumption DEF Versions
<1>2. UpdateTypeOK
  <2>1. kills \in 0..MaxKills
    BY UpdateAssumption
  <2>2. sound \in SUBSET Versions
    OBVIOUS
  <2>3. dir \in [Versions -> {"absent", "partial", "whole"}]
    OBVIOUS
  <2> QED
    BY <1>1, <2>1, <2>2, <2>3 DEF UpdateTypeOK, Labels
<1>3. \A r \in Requests : ~InFlight(r)
  BY DEF InFlight
<1>4. Starts(1)
  BY <1>1 DEF Starts
<1> QED
  BY <1>1, <1>2, <1>3, <1>4 DEF UInv, UnderWay, Alone, Swapped, OldBuildKept, LiveBuildStarts

\* What touches neither the disk nor a request keeps the invariant, unless it
\* starts or ends a process.
LEMMA UpdateOutside ==
  ASSUME UInv,
         Release \/ TurnStarts \/ TurnEnds \/ PeriodicCheck
  PROVE  UInv'
<1> USE DEF disk, request, world, process
<1>1. UpdateTypeOK'
  <2>1. Release => newest' \in Versions
    BY UpdateAssumption DEF Release, UInv, UpdateTypeOK, Versions
  <2>2. PeriodicCheck => latest' \in Versions \cup {NoVersion}
    BY UpdateAssumption DEF PeriodicCheck, CheckNow, UInv, UpdateTypeOK, Versions
  <2> QED
    BY <2>1, <2>2 DEF Release, TurnStarts, TurnEnds, PeriodicCheck, UInv, UpdateTypeOK
<1>2. UNCHANGED <<sound, dir, current, running, updatePc, target, goal, overlapped>>
  BY DEF Release, TurnStarts, TurnEnds, PeriodicCheck
<1> QED
  BY <1>1, <1>2 DEF UInv, UnderWay, Alone, Swapped, OldBuildKept, LiveBuildStarts, InFlight,
     Starts

\* The end of the process ends its requests, and the service starts again from
\* "current" alone.
LEMMA UpdateProcess ==
  ASSUME UInv,
         Kill \/ ServiceStart \/ \E r \in Requests : Exit(r)
  PROVE  UInv'
<1> USE DEF disk, request, world, process
<1>0. NoVersion \notin Versions
  BY UpdateAssumption DEF Versions
<1>1. CASE ProcessEnds /\ (kills' = kills \/ (kills < MaxKills /\ kills' = kills + 1))
  <2>1. /\ running' = NoVersion /\ latest' = NoVersion /\ working' = FALSE
        /\ UNCHANGED <<dir, current, target, goal, reply, sound, newest, overlapped>>
        /\ updatePc' = [r \in Requests |-> IF InFlight(r) THEN "lost" ELSE updatePc[r]]
    BY <1>1 DEF ProcessEnds
  <2>2. \A r \in Requests : ~InFlight(r)' /\ updatePc'[r] \in {"idle", "done", "lost"}
    BY <2>1 DEF InFlight
  <2>3. UpdateTypeOK'
    <3>1. kills' \in 0..MaxKills
      BY <1>1, UpdateAssumption DEF UInv, UpdateTypeOK
    <3>2. updatePc' \in [Requests -> Labels]
      BY <2>1 DEF UInv, UpdateTypeOK, Labels
    <3> QED
      BY <2>1, <3>1, <3>2 DEF UInv, UpdateTypeOK
  <2>4. UnderWay' /\ OldBuildKept' /\ LiveBuildStarts'
    BY <2>1, <2>2 DEF UInv, UnderWay, OldBuildKept, LiveBuildStarts, Starts
  <2>5. Alone'
    BY <2>1, <2>2 DEF Alone, Swapped
  <2> QED
    BY <2>3, <2>4, <2>5 DEF UInv
<1>2. CASE ServiceStart
  <2>1. /\ running = NoVersion /\ current # NoVersion /\ Starts(current) /\ running' = current
        /\ UNCHANGED <<dir, current, latest, working, updatePc, target, goal, reply>>
        /\ UNCHANGED <<sound, newest, kills, overlapped>>
    BY <1>2 DEF ServiceStart
  <2>2. \A r \in Requests : ~InFlight(r)
    BY <2>1 DEF UInv, UnderWay
  <2>3. \A r \in Requests : ~InFlight(r)' /\ updatePc'[r] \in {"idle", "done", "lost"}
    BY <2>1, <2>2 DEF InFlight
  <2>4. UpdateTypeOK'
    BY <2>1 DEF UInv, UpdateTypeOK
  <2>5. UnderWay' /\ OldBuildKept' /\ LiveBuildStarts' /\ Alone'
    BY <2>1, <2>3 DEF UInv, UnderWay, OldBuildKept, LiveBuildStarts, Starts, Alone, Swapped
  <2> QED
    BY <2>4, <2>5 DEF UInv
<1> QED
  BY <1>1, <1>2 DEF Kill, Exit

\* A request that is let through is for a version newer than the running one, and
\* is noted when it overlaps another.
LEMMA UpdateApply ==
  ASSUME UInv, NEW r \in Requests, ApplyRequest(r)
  PROVE  UInv'
<1> USE DEF disk, process
<1>0. /\ NoVersion \notin Versions /\ running # NoVersion /\ updatePc[r] = "idle"
      /\ UNCHANGED <<dir, current, running, latest, working, sound, newest, kills>>
  BY UpdateAssumption DEF Versions, ApplyRequest
<1>1. CASE working \/ ~UpdateAvailable
  <2>1. /\ updatePc' = [updatePc EXCEPT ![r] = "done"]
        /\ reply' = [reply EXCEPT ![r] = "failed"]
        /\ UNCHANGED <<target, goal, overlapped>>
    BY <1>1 DEF ApplyRequest, Finish, Goto
  <2>2. UpdateTypeOK'
    BY <1>0, <2>1 DEF UInv, UpdateTypeOK, Labels
  <2>3. \A q \in Requests : InFlight(q)' = InFlight(q) /\ (q # r => updatePc'[q] = updatePc[q])
    BY <1>0, <2>1 DEF InFlight, UInv, UpdateTypeOK
  <2>4. updatePc'[r] = "done"
    BY <2>1 DEF UInv, UpdateTypeOK
  <2>5. UnderWay' /\ OldBuildKept' /\ LiveBuildStarts'
    BY <1>0, <2>1, <2>3 DEF UInv, UnderWay, OldBuildKept, LiveBuildStarts, Starts
  <2>6. Alone => Alone'
    BY <1>0, <2>1, <2>3, <2>4 DEF Alone, Swapped, Starts
  <2> QED
    BY <2>1, <2>2, <2>5, <2>6 DEF UInv
<1>2. CASE ~(working \/ ~UpdateAvailable)
  <2>1. /\ updatePc' = [updatePc EXCEPT ![r] = "fetch"]
        /\ target' = [target EXCEPT ![r] = latest]
        /\ goal' = [goal EXCEPT ![r] = latest]
        /\ overlapped' = (overlapped \/ \E q \in Requests : InFlight(q))
        /\ UNCHANGED reply
        /\ latest # NoVersion /\ latest > running
    BY <1>2 DEF ApplyRequest, Goto, UpdateAvailable
  <2>2. latest \in Versions
    BY <2>1 DEF UInv, UpdateTypeOK
  <2>3. UpdateTypeOK'
    BY <1>0, <2>1, <2>2 DEF UInv, UpdateTypeOK, Labels
  <2>4. \A q \in Requests : q # r => /\ updatePc'[q] = updatePc[q] /\ target'[q] = target[q]
                                     /\ goal'[q] = goal[q] /\ InFlight(q)' = InFlight(q)
    BY <2>1 DEF InFlight, UInv, UpdateTypeOK
  <2>5. updatePc'[r] = "fetch" /\ target'[r] = latest /\ goal'[r] = latest
    BY <2>1 DEF UInv, UpdateTypeOK
  <2>6. UnderWay' /\ OldBuildKept'
    BY <1>0, <2>1, <2>2, <2>4, <2>5 DEF UInv, UnderWay, OldBuildKept, Starts
  <2>7. LiveBuildStarts'
    BY <1>0, <2>1 DEF UInv, LiveBuildStarts, Starts
  <2>8. ASSUME ~overlapped' PROVE Alone'
    <3>1. Alone /\ \A q \in Requests : ~InFlight(q)
      BY <2>8, <2>1 DEF UInv
    <3>2. \A q \in Requests : updatePc[q] \in {"idle", "done", "lost"}
      BY <3>1 DEF InFlight
    <3> QED
      BY <1>0, <2>4, <2>5, <3>1, <3>2 DEF Alone, Swapped, InFlight
  <2> QED
    BY <2>3, <2>6, <2>7, <2>8 DEF UInv
<1> QED
  BY <1>1, <1>2

\* Unpacking touches only the directory of a version newer than the running one,
\* and no version "current" points at unless requests overlap.
LEMMA UpdateStage ==
  ASSUME UInv, NEW r \in Requests, InFlight(r), ~Swapped(r),
         NEW d \in {"absent", "partial", "whole"},
         dir' = [dir EXCEPT ![target[r]] = d] \/ dir' = dir,
         updatePc' \in [Requests -> Labels],
         updatePc'[r] \in Labels \ {"idle", "lost", "stat", "unlink", "link", "restart", "exit"},
         updatePc'[r] = "probe" /\ ~overlapped => dir' = [dir EXCEPT ![target[r]] = d] /\ d = "whole",
         \A q \in Requests \ {r} :
           updatePc'[q] # updatePc[q] => updatePc[q] = "extracting" /\ updatePc'[q] = "severed",
         updatePc[r] \notin {"probe", "stat", "unlink", "link"},
         reply' \in [Requests -> {"none", "ok", "failed"}],
         UNCHANGED <<current, running, latest, working, target, goal, sound, newest, kills, overlapped>>
  PROVE  UInv'
<1>0. /\ NoVersion \notin Versions /\ running # NoVersion /\ target[r] \in Versions
      /\ target[r] > running /\ running \in Versions /\ target[r] # running
  BY UpdateAssumption DEF Versions, UInv, UnderWay, UpdateTypeOK
<1>1. UpdateTypeOK'
  BY <1>0 DEF UInv, UpdateTypeOK
<1>2. \A v \in Versions : v # target[r] => dir'[v] = dir[v]
  BY DEF UInv, UpdateTypeOK
<1>3. \A q \in Requests : InFlight(q)' => InFlight(q)
  BY DEF InFlight
<1>4. UnderWay'
  BY <1>3 DEF UInv, UnderWay
<1>5. OldBuildKept'
  BY <1>0, <1>2 DEF UInv, OldBuildKept, Starts
<1>6. ASSUME ~overlapped PROVE Alone' /\ LiveBuildStarts'
  <2>1. Alone /\ \A q \in Requests \ {r} : ~InFlight(q)
    BY <1>6 DEF UInv, Alone
  <2>2. \A q \in Requests \ {r} : updatePc[q] \in {"idle", "done", "lost"} /\ updatePc'[q] = updatePc[q]
    BY <2>1 DEF InFlight
  <2>3. current \in {NoVersion, running}
    <3>1. \A q \in Requests : ~Swapped(q)
      BY <2>2 DEF Swapped
    <3> QED
      BY <1>0, <2>1, <3>1 DEF Alone
  <2>4. updatePc'[r] = "probe" => dir'[target[r]] = "whole"
    BY <1>0, <1>6 DEF UInv, UpdateTypeOK
  <2>5. Alone'
    <3>1. \A q, s \in Requests : InFlight(q)' /\ InFlight(s)' => q = s
      BY <1>3, <2>1
    <3>2. \A q \in Requests :
            /\ updatePc'[q] = "probe" => dir'[target[q]] = "whole"
            /\ updatePc'[q] \notin {"stat", "unlink", "link", "restart", "exit"}
      BY <2>2, <2>4
    <3> QED
      BY <2>3, <3>1, <3>2 DEF Alone, Swapped
  <2>6. LiveBuildStarts'
    BY <1>0, <1>2, <2>3 DEF UInv, OldBuildKept, LiveBuildStarts, Starts
  <2> QED
    BY <2>5, <2>6
<1> QED
  BY <1>1, <1>4, <1>5, <1>6 DEF UInv, LiveBuildStarts

\* The steps of a request up to its probe are of that kind.
LEMMA UpdateStages ==
  ASSUME UInv, NEW r \in Requests,
         \/ Fetch(r) \/ StageRemove(r) \/ StageMake(r) \/ StageExtract(r)
         \/ StageExtracted(r) \/ StageFails(r)
  PROVE  UInv'
<1> USE DEF disk, process, world, Goto, Finish
<1>0. updatePc \in [Requests -> Labels] /\ reply \in [Requests -> {"none", "ok", "failed"}]
  BY DEF UInv, UpdateTypeOK
<1>1. InFlight(r) /\ ~Swapped(r) /\ updatePc[r] \notin {"probe", "stat", "unlink", "link"}
  BY DEF Fetch, StageRemove, StageMake, StageExtract, StageExtracted, StageFails,
     InFlight, Swapped
<1>2. target[r] \in Versions /\ dir[target[r]] \in {"absent", "partial", "whole"}
  BY <1>1 DEF UInv, UnderWay, UpdateTypeOK
<1>3. CASE Fetch(r)
  <2>1. /\ dir' = dir /\ reply' = reply
        /\ \E l \in {"remove", "recheck"} : updatePc' = [updatePc EXCEPT ![r] = l]
        /\ UNCHANGED <<current, running, latest, working, target, goal, sound, newest, kills, overlapped>>
    BY <1>3 DEF Fetch
  <2>2. /\ updatePc' \in [Requests -> Labels] /\ updatePc'[r] \in {"remove", "recheck"}
        /\ \A q \in Requests \ {r} : updatePc'[q] = updatePc[q]
    BY <1>0, <2>1 DEF Labels
  <2> QED
    BY <1>0, <1>1, <2>1, <2>2, UpdateStage DEF Labels
<1>4. CASE StageRemove(r)
  <2>1. /\ dir' = [dir EXCEPT ![target[r]] = "absent"] /\ reply' = reply
        /\ UNCHANGED <<current, running, latest, working, target, goal, sound, newest, kills, overlapped>>
        /\ updatePc' = [q \in Requests |->
              IF q = r THEN "make"
              ELSE IF updatePc[q] = "extracting" /\ target[q] = target[r] THEN "severed"
              ELSE updatePc[q]]
    BY <1>4 DEF StageRemove
  <2>2. /\ updatePc' \in [Requests -> Labels] /\ updatePc'[r] = "make"
        /\ \A q \in Requests \ {r} :
             updatePc'[q] # updatePc[q] => updatePc[q] = "extracting" /\ updatePc'[q] = "severed"
    BY <1>0, <2>1 DEF Labels
  <2> QED
    BY <1>0, <1>1, <2>1, <2>2, UpdateStage DEF Labels
<1>5. ASSUME StageMake(r) \/ StageExtract(r) \/ StageFails(r) PROVE UInv'
  <2>1. /\ \E d \in {"absent", "partial", "whole"} :
             dir' = [dir EXCEPT ![target[r]] = d] \/ dir' = dir
        /\ UNCHANGED <<current, running, latest, working, target, goal, sound, newest, kills, overlapped>>
        /\ \E l \in {"extract", "extracting", "done"} : updatePc' = [updatePc EXCEPT ![r] = l]
        /\ reply' \in [Requests -> {"none", "ok", "failed"}]
    <3>1. CASE StageMake(r)
      BY <1>0, <1>2, <3>1 DEF StageMake
    <3>2. CASE StageExtract(r)
      BY <1>0, <1>2, <3>2 DEF StageExtract
    <3>3. CASE StageFails(r)
      BY <1>0, <1>2, <3>3 DEF StageFails
    <3> QED
      BY <1>5, <3>1, <3>2, <3>3
  <2>2. /\ updatePc' \in [Requests -> Labels]
        /\ updatePc'[r] \in {"extract", "extracting", "done"}
        /\ \A q \in Requests \ {r} : updatePc'[q] = updatePc[q]
    BY <1>0, <2>1 DEF Labels
  <2> QED
    BY <1>0, <1>1, <2>1, <2>2, UpdateStage DEF Labels
<1>6. CASE StageExtracted(r)
  <2> DEFINE other == \E q \in Requests \ {r} : updatePc[q] = "extracting" /\ target[q] = target[r]
             d == IF other THEN "partial" ELSE "whole"
  <2>1. /\ dir' = [dir EXCEPT ![target[r]] = d] /\ reply' = reply
        /\ UNCHANGED <<current, running, latest, working, target, goal, sound, newest, kills, overlapped>>
        /\ updatePc' = [updatePc EXCEPT ![r] = "probe"]
    BY <1>6 DEF StageExtracted
  <2>2. ~overlapped => d = "whole"
    <3> SUFFICES ASSUME ~overlapped, NEW q \in Requests \ {r}, updatePc[q] = "extracting" PROVE FALSE
      OBVIOUS
    <3>1. InFlight(q)
      BY DEF InFlight
    <3> QED
      BY <1>1, <3>1 DEF UInv, Alone
  <2>3. /\ updatePc' \in [Requests -> Labels] /\ updatePc'[r] = "probe"
        /\ \A q \in Requests \ {r} : updatePc'[q] = updatePc[q]
    BY <1>0, <2>1 DEF Labels
  <2>4. d \in {"absent", "partial", "whole"}
    OBVIOUS
  <2> HIDE DEF d
  <2> QED
    BY <1>0, <1>1, <2>1, <2>2, <2>3, <2>4, UpdateStage DEF Labels
<1> QED
  BY <1>3, <1>4, <1>5, <1>6

\* A step of a request after the unpacking, which leaves all directories alone:
\* what "current" may become, and when the request may go on to the next call.
LEMMA UpdateActivate ==
  ASSUME UInv, NEW r \in Requests, InFlight(r),
         NEW l \in Labels \ {"idle", "lost", "probe"},
         updatePc' = [updatePc EXCEPT ![r] = l],
         goal' = goal \/ goal' = [goal EXCEPT ![r] = running],
         l \in {"stat", "unlink", "link"} /\ goal'[r] = target[r] /\ ~overlapped => Starts(target[r]),
         current' = current \/ current' \in {NoVersion, running} \/ (current' = target[r] /\ l = "restart"),
         l \in {"restart", "exit"} /\ ~overlapped => current' = target[r] /\ Starts(target[r]),
         Swapped(r) => l = "exit" /\ current' = current,
         reply' \in [Requests -> {"none", "ok", "failed"}],
         latest' \in Versions \cup {NoVersion},
         UNCHANGED <<dir, running, working, target, sound, newest, kills, overlapped>>
  PROVE  UInv'
<1>0. /\ NoVersion \notin Versions /\ running # NoVersion /\ target[r] \in Versions
      /\ running \in Versions /\ updatePc'[r] = l
      /\ \A q \in Requests \ {r} : updatePc'[q] = updatePc[q] /\ goal'[q] = goal[q]
      /\ goal'[r] \in {goal[r], running}
      /\ goal[r] \in {target[r], running}
  BY UpdateAssumption DEF Versions, UInv, UnderWay, UpdateTypeOK
<1>1. UpdateTypeOK'
  <2>1. updatePc' \in [Requests -> Labels]
    BY DEF UInv, UpdateTypeOK
  <2>2. goal' \in [Requests -> Versions \cup {NoVersion}]
    BY DEF UInv, UpdateTypeOK
  <2>3. current' \in Versions \cup {NoVersion}
    BY <1>0 DEF UInv, UpdateTypeOK
  <2> QED
    BY <2>1, <2>2, <2>3 DEF UInv, UpdateTypeOK
<1>2. \A q \in Requests : InFlight(q)' => InFlight(q)
  BY <1>0 DEF InFlight
<1>3. UnderWay'
  BY <1>0, <1>2 DEF UInv, UnderWay
<1>4. OldBuildKept' /\ \A v \in Versions : Starts(v)' = Starts(v)
  BY DEF UInv, OldBuildKept, Starts
<1>5. ASSUME ~overlapped PROVE Alone' /\ LiveBuildStarts'
  <2>1. Alone /\ \A q \in Requests \ {r} : ~InFlight(q)
    BY <1>5 DEF UInv, Alone
  <2>2. \A q \in Requests \ {r} : updatePc[q] \in {"idle", "done", "lost"} /\ updatePc'[q] = updatePc[q]
    BY <1>0, <2>1 DEF InFlight
  <2>3. current' \in {NoVersion, running} \/ (l \in {"restart", "exit"} /\ current' = target[r])
    <3>1. CASE Swapped(r)
      BY <3>1, <1>5
    <3>2. CASE ~Swapped(r)
      <4>1. \A q \in Requests : ~Swapped(q)
        BY <3>2, <2>2 DEF Swapped
      <4>2. current \in {NoVersion, running}
        BY <1>0, <2>1, <4>1 DEF Alone
      <4> QED
        BY <4>2
    <3> QED
      BY <3>1, <3>2
  <2>4. \A q, s \in Requests : InFlight(q)' /\ InFlight(s)' => q = s
    BY <1>2, <2>1
  <2>5. running # NoVersion /\ (\A q \in Requests : ~Swapped(q)') => current' \in {NoVersion, running}
    BY <1>0, <2>3 DEF Swapped
  <2>6. \A q \in Requests :
          /\ updatePc'[q] # "probe"
          /\ updatePc'[q] \in {"stat", "unlink", "link"} /\ goal'[q] = target[q] => Starts(target[q])
          /\ Swapped(q)' => current' = target[q]
    BY <1>0, <1>5, <2>2 DEF Swapped
  <2>7. Alone'
    BY <1>0, <1>4, <2>4, <2>5, <2>6 DEF Alone, Starts
  <2>8. LiveBuildStarts'
    BY <1>0, <1>4, <1>5, <2>3 DEF UInv, OldBuildKept, LiveBuildStarts, Starts
  <2> QED
    BY <2>7, <2>8
<1> QED
  BY <1>1, <1>3, <1>4, <1>5 DEF UInv, LiveBuildStarts

\* The steps of a request from its probe on are of that kind.
LEMMA UpdateActivates ==
  ASSUME UInv, NEW r \in Requests,
         \/ Probe(r) \/ ActivateStat(r) \/ ActivateUnlink(r) \/ ActivateLink(r)
         \/ AnswerUpdated(r) \/ AnswerFailed(r)
  PROVE  UInv'
<1> USE DEF disk, process, world, Goto, Finish
<1>0. /\ updatePc \in [Requests -> Labels] /\ reply \in [Requests -> {"none", "ok", "failed"}]
      /\ latest \in Versions \cup {NoVersion} /\ NoVersion \notin Versions
      /\ goal \in [Requests -> Versions \cup {NoVersion}]
  BY UpdateAssumption DEF UInv, UpdateTypeOK, Versions
<1>1. InFlight(r)
  BY DEF Probe, ActivateStat, ActivateUnlink, ActivateLink, AnswerUpdated, AnswerFailed,
     InFlight
<1>2. /\ running # NoVersion /\ target[r] \in Versions /\ target[r] > running
      /\ goal[r] \in {target[r], running} /\ running \in Versions /\ target[r] # running
  BY <1>0, <1>1 DEF UInv, UnderWay, UpdateTypeOK, Versions
<1>3. CASE Probe(r)
  <2>1. /\ updatePc[r] = "probe" /\ UNCHANGED <<goal, current, reply, latest>>
        /\ UNCHANGED <<dir, running, working, target, sound, newest, kills, overlapped>>
    BY <1>3 DEF Probe
  <2>2. \/ updatePc' = [updatePc EXCEPT ![r] = "stat"] /\ target[r] \in sound
        \/ updatePc' = [updatePc EXCEPT ![r] = "recheck"]
    BY <1>3 DEF Probe
  <2>3. ~overlapped => dir[target[r]] = "whole"
    BY <2>1 DEF UInv, Alone
  <2>4. ~Swapped(r)
    BY <2>1 DEF Swapped
  <2> QED
    BY <1>0, <1>1, <2>1, <2>2, <2>3, <2>4, UpdateActivate DEF Labels, Starts
<1>4. ASSUME updatePc[r] \in {"stat", "unlink", "link"}, ActivationFails(r), current' = current,
             UNCHANGED <<reply, latest, dir, running, working, target, sound, newest, kills, overlapped>>
      PROVE  UInv'
  <2>1. ~Swapped(r)
    BY <1>4 DEF Swapped
  <2>2. CASE goal[r] = target[r]
    <3>1. updatePc' = [updatePc EXCEPT ![r] = "stat"] /\ goal' = [goal EXCEPT ![r] = running]
      BY <1>4, <2>2 DEF ActivationFails
    <3>2. goal'[r] # target[r]
      BY <1>0, <1>2, <3>1
    <3> QED
      BY <1>0, <1>1, <1>4, <2>1, <3>1, <3>2, UpdateActivate DEF Labels
  <2>3. CASE goal[r] # target[r]
    <3>1. updatePc' = [updatePc EXCEPT ![r] = "recheck"] /\ goal' = goal
      BY <1>4, <2>3 DEF ActivationFails
    <3> QED
      BY <1>0, <1>1, <1>4, <2>1, <3>1, UpdateActivate DEF Labels
  <2> QED
    BY <2>2, <2>3
<1>5. CASE ActivateStat(r)
  <2>1. /\ updatePc[r] = "stat"
        /\ UNCHANGED <<current, reply, latest, dir, running, working, target, sound, newest, kills, overlapped>>
    BY <1>5 DEF ActivateStat
  <2>2. CASE updatePc' = [updatePc EXCEPT ![r] = "unlink"] /\ goal' = goal
    <3>1. ~overlapped /\ goal[r] = target[r] => Starts(target[r])
      BY <2>1 DEF UInv, Alone
    <3>2. ~Swapped(r)
      BY <2>1 DEF Swapped
    <3> QED
      BY <1>0, <1>1, <2>1, <2>2, <3>1, <3>2, UpdateActivate DEF Labels
  <2> QED
    BY <1>4, <1>5, <2>1, <2>2 DEF ActivateStat
<1>6. CASE ActivateUnlink(r)
  <2>1. /\ updatePc[r] = "unlink"
        /\ UNCHANGED <<reply, latest, dir, running, working, target, sound, newest, kills, overlapped>>
    BY <1>6 DEF ActivateUnlink
  <2>2. CASE updatePc' = [updatePc EXCEPT ![r] = "link"] /\ goal' = goal /\ current' = NoVersion
    <3>1. ~overlapped /\ goal[r] = target[r] => Starts(target[r])
      BY <2>1 DEF UInv, Alone
    <3>2. ~Swapped(r)
      BY <2>1 DEF Swapped
    <3> QED
      BY <1>0, <1>1, <2>1, <2>2, <3>1, <3>2, UpdateActivate DEF Labels
  <2> QED
    BY <1>4, <1>6, <2>1, <2>2 DEF ActivateUnlink
<1>7. CASE ActivateLink(r)
  <2>1. /\ updatePc[r] = "link"
        /\ UNCHANGED <<reply, latest, dir, running, working, target, sound, newest, kills, overlapped>>
    BY <1>7 DEF ActivateLink
  <2>2. ~Swapped(r)
    BY <2>1 DEF Swapped
  <2>3. CASE /\ current' = goal[r] /\ goal' = goal
             /\ updatePc' = [updatePc EXCEPT ![r] = IF goal[r] = target[r] THEN "restart" ELSE "recheck"]
    <3>1. CASE goal[r] = target[r]
      <4>1. updatePc' = [updatePc EXCEPT ![r] = "restart"] /\ current' = target[r]
        BY <2>3, <3>1
      <4>2. ~overlapped => Starts(target[r])
        BY <2>1, <3>1 DEF UInv, Alone
      <4> QED
        BY <1>0, <1>1, <2>1, <2>2, <2>3, <4>1, <4>2, UpdateActivate DEF Labels
    <3>2. CASE goal[r] # target[r]
      <4>1. updatePc' = [updatePc EXCEPT ![r] = "recheck"] /\ current' = running
        BY <1>2, <2>3, <3>2
      <4> QED
        BY <1>0, <1>1, <2>1, <2>2, <2>3, <4>1, UpdateActivate DEF Labels
    <3> QED
      BY <3>1, <3>2
  <2> QED
    BY <1>4, <1>7, <2>1, <2>3 DEF ActivateLink
<1>8. CASE AnswerUpdated(r)
  <2>1. /\ updatePc[r] = "restart" /\ updatePc' = [updatePc EXCEPT ![r] = "exit"]
        /\ UNCHANGED <<current, goal, latest, dir, running, working, target, sound, newest, kills, overlapped>>
        /\ reply' \in [Requests -> {"none", "ok", "failed"}]
    BY <1>0, <1>8 DEF AnswerUpdated
  <2>2. ~overlapped => current = target[r] /\ Starts(target[r])
    <3> SUFFICES ASSUME ~overlapped PROVE current = target[r] /\ Starts(target[r])
      OBVIOUS
    <3>1. current = target[r]
      BY <2>1 DEF UInv, Alone, Swapped
    <3>2. current # NoVersion
      BY <1>0, <1>2, <3>1
    <3> QED
      BY <3>1, <3>2 DEF UInv, LiveBuildStarts
  <2> QED
    BY <1>0, <1>1, <2>1, <2>2, UpdateActivate DEF Labels
<1>9. CASE AnswerFailed(r)
  <2>1. /\ updatePc[r] = "recheck" /\ updatePc' = [updatePc EXCEPT ![r] = "done"]
        /\ UNCHANGED <<current, goal, dir, running, working, target, sound, newest, kills, overlapped>>
        /\ reply' \in [Requests -> {"none", "ok", "failed"}]
    BY <1>0, <1>9 DEF AnswerFailed
  <2>2. latest' \in Versions \cup {NoVersion}
    BY <1>9, UpdateAssumption DEF AnswerFailed, CheckNow, UInv, UpdateTypeOK, Versions
  <2>3. ~Swapped(r)
    BY <2>1 DEF Swapped
  <2> QED
    BY <1>0, <1>1, <2>1, <2>2, <2>3, UpdateActivate DEF Labels
<1> QED
  BY <1>3, <1>5, <1>6, <1>7, <1>8, <1>9

\* Every step keeps the invariant.
LEMMA UpdateSteps == UInv /\ [UpdateNext]_updateVars => UInv'
<1> SUFFICES ASSUME UInv, [UpdateNext]_updateVars PROVE UInv'
  OBVIOUS
<1>1. CASE UNCHANGED updateVars
  BY <1>1 DEF updateVars, disk, process, request, world, UInv, UpdateTypeOK, UnderWay, Alone, Swapped,
     OldBuildKept, LiveBuildStarts, InFlight, Starts
<1>2. CASE Release \/ TurnStarts \/ TurnEnds \/ PeriodicCheck
  BY <1>2, UpdateOutside
<1>3. CASE Kill \/ ServiceStart
  BY <1>3, UpdateProcess
<1>4. ASSUME NEW r \in Requests, ApplyRequest(r) PROVE UInv'
  BY <1>4, UpdateApply
<1>5. ASSUME NEW r \in Requests, Step(r) PROVE UInv'
  BY <1>5, UpdateStages, UpdateActivates, UpdateProcess DEF Step
<1> QED
  BY <1>1, <1>2, <1>3, <1>4, <1>5 DEF UpdateNext

\* The inductive invariant of the self-update holds in every reachable state.
THEOREM UpdateInvariant == UpdateSpec => []UInv
  BY UpdateStarts, UpdateSteps, PTL DEF UpdateSpec

\* The types of the self-update are kept.
THEOREM UpdateTypes == UpdateSpec => []UpdateTypeOK
<1>1. UInv => UpdateTypeOK
  BY DEF UInv
<1> QED
  BY <1>1, UpdateInvariant, PTL

\* Through failed downloads, half unpacked bundles, bundles that do not start,
\* failed links and kills, "current" never points at a version that cannot be
\* started, as long as requests do not overlap: the probe before activateVersion
\* is enough, for any number of versions, requests and kills.
THEOREM LiveBuildAlwaysStarts == UpdateSpec => []LiveBuildStarts
<1>1. UInv => LiveBuildStarts
  BY DEF UInv
<1> QED
  BY <1>1, UpdateInvariant, PTL

\* The running version stays on the disk whole for rollbackVersion, however
\* requests overlap: stageVersion only ever replaces a newer one.
THEOREM RunningBuildKept == UpdateSpec => []OldBuildKept
<1>1. UInv => OldBuildKept
  BY DEF UInv
<1> QED
  BY <1>1, UpdateInvariant, PTL

-----------------------------------------------------------------------------
(* The leases of an ssh session.                                           *)

Ask == [kind : {"acquire", "renew", "release"}, heard : BOOLEAN]
Answer == [kind : {"acquire", "renew"}, granted : BOOLEAN, heard : BOOLEAN]
Reads == [holder : Nodes \cup {Nobody}, live : BOOLEAN, pending : BOOLEAN]
Chain == [node : Nodes \cup {Nobody}, asks : Seq({"acquire", "renew", "release"}), read : Reads]

\* The node has the session, or is about to, and its own lease is live.
Wants(n) == leasePc[n] # "idle" /\ local[n] > 0

Held(n) == holder = n /\ left >= local[n]

\* The latest request of n is answered, and the answer under way is a grant.
GrantComing(n) ==
  /\ toNode[n] # << >> /\ Last(toNode[n]).granted
  /\ toRelay[n] = << >> /\ deferred[n] = << >>

\* What ties a node to the relay: nothing is under way on a link that is down; a
\* release is followed by nothing but idleness; an answered node has no request
\* under way; and a grant, heard or about to be, means that the lease is held,
\* unless the node's own release came late and took it away.
LeaseTie(n) ==
  /\ ~up[n] => toRelay[n] = << >>
  /\ toRelay[n] # << >> /\ Last(toRelay[n]).kind = "release" => leasePc[n] = "idle"
  /\ answered[n] /\ leasePc[n] # "idle" => toRelay[n] = << >> /\ deferred[n] = << >>
  /\ ~raced /\ n \notin withdrawn /\ Wants(n) /\ (answered[n] \/ GrantComing(n)) => Held(n)

\* What is left in the chain of a closed socket is some node's.
LateTie == \A k \in 1..MaxLeaseFaults : late[k].asks # << >> => late[k].node \in Nodes

LInv == LeaseTypeOK /\ LateTie /\ \A n \in Nodes : LeaseTie(n)

\* The ends of a sequence that grows by one.
LEMMA AppendEnds ==
  ASSUME NEW S, NEW q \in Seq(S), NEW x \in S
  PROVE  Append(q, x) \in Seq(S) /\ Append(q, x) # << >> /\ Last(Append(q, x)) = x
  BY DEF Last

\* The ends of a sequence that loses its head.
LEMMA TailEnds ==
  ASSUME NEW S, NEW q \in Seq(S), q # << >>
  PROVE  /\ Head(q) \in S /\ Tail(q) \in Seq(S)
         /\ Tail(q) # << >> => Last(Tail(q)) = Last(q)
         /\ Tail(q) = << >> => Head(q) = Last(q)
         /\ Len(q) = 1 => Tail(q) = << >>
<1>1. /\ Len(q) \in Nat /\ Len(q) >= 1 /\ Head(q) = q[1] /\ q[1] \in S
      /\ Tail(q) \in Seq(S) /\ Len(Tail(q)) = Len(q) - 1
      /\ \A i \in 1..(Len(q) - 1) : Tail(q)[i] = q[i + 1]
  OBVIOUS
<1>2. Tail(q) = << >> <=> Len(q) = 1
  <2>1. \A t \in Seq(S) : t = << >> <=> Len(t) = 0
    OBVIOUS
  <2>2. Tail(q) = << >> <=> Len(Tail(q)) = 0
    BY <1>1, <2>1
  <2> QED
    BY <1>1, <2>2
<1>3. Tail(q) # << >> => Last(Tail(q)) = Last(q)
  BY <1>1, <1>2 DEF Last
<1> QED
  BY <1>1, <1>2, <1>3 DEF Last

\* Initially no node has a lease.
LEMMA LeaseStarts == LeaseInit => LInv
<1> SUFFICES ASSUME LeaseInit PROVE LInv
  OBVIOUS
<1> USE DEF LeaseInit
<1>1. LeaseTypeOK
  <2>1. 0 \in 0..Ttl /\ 0 \in 0..Beat /\ 0 \in 0..MaxLeaseFaults
    BY LeaseAssumption
  <2>2. NoRead \in [holder : Nodes \cup {Nobody}, live : BOOLEAN, pending : BOOLEAN]
    BY DEF NoRead
  <2>3. \A S : [n \in Nodes |-> << >>] \in [Nodes -> Seq(S)]
    OBVIOUS
  <2>4. /\ deferred \in [Nodes -> Seq({"acquire", "renew"})]
        /\ toRelay \in [Nodes -> Seq([kind : {"acquire", "renew", "release"}, heard : BOOLEAN])]
        /\ toNode \in
             [Nodes -> Seq([kind : {"acquire", "renew"}, granted : BOOLEAN, heard : BOOLEAN])]
    BY <2>3
  <2>5. /\ leasePc \in [Nodes -> {"idle", "acquiring", "running"}]
        /\ local \in [Nodes -> 0..Ttl] /\ beat \in [Nodes -> 0..Beat]
        /\ up \in [Nodes -> BOOLEAN] /\ answered \in [Nodes -> BOOLEAN]
        /\ holder \in Nodes \cup {Nobody} /\ left \in 0..Ttl
        /\ raced \in BOOLEAN /\ memory \in BOOLEAN /\ leaseFaults \in 0..MaxLeaseFaults
    BY <2>1
  <2>6. read \in [Nodes -> [holder : Nodes \cup {Nobody}, live : BOOLEAN, pending : BOOLEAN]]
    BY <2>2
  <2>7. late \in [1..MaxLeaseFaults -> Chain]
    <3>1. << >> \in Seq({"acquire", "renew", "release"})
      OBVIOUS
    <3>2. NoChain \in Chain
      BY <2>2, <3>1 DEF NoChain, Chain, Reads
    <3> QED
      BY <3>2
  <2> QED
    BY <2>4, <2>5, <2>6, <2>7 DEF LeaseTypeOK, Chain, Reads
<1>2. ASSUME NEW n \in Nodes PROVE LeaseTie(n)
  BY DEF LeaseTie, Wants
<1>3. LateTie
  BY DEF LateTie, NoChain
<1> QED
  BY <1>1, <1>2, <1>3 DEF LInv

\* A node whose part of the state does not change stays tied, if no write takes
\* its live lease away or shortens it below its own.
LEMMA LeaseKept ==
  ASSUME NEW n \in Nodes, LeaseTie(n),
         leasePc'[n] = leasePc[n], local'[n] = local[n], deferred'[n] = deferred[n],
         up'[n] = up[n], toRelay'[n] = toRelay[n], toNode'[n] = toNode[n],
         answered'[n] = answered[n], raced => raced', n \in withdrawn => n \in withdrawn',
         ~raced' /\ local[n] > 0 /\ Held(n) => holder' = n /\ left' >= local[n]
  PROVE  LeaseTie(n)'
  BY DEF LeaseTie, Wants, Held, GrantComing

\* A request leaves no answer to wait for at the end of what is under way.
LEMMA LeaseRequest ==
  ASSUME LInv, NEW n \in Nodes, NEW kind \in {"acquire", "renew"},
         Request(n, kind)
  PROVE  /\ deferred' \in [Nodes -> Seq({"acquire", "renew"})]
         /\ toRelay' \in [Nodes -> Seq(Ask)]
         /\ \A k \in Nodes \ {n} : toRelay'[k] = toRelay[k] /\ deferred'[k] = deferred[k]
         /\ up[n] => toRelay'[n] # << >> /\ Last(toRelay'[n]).kind = kind
         /\ ~up[n] => toRelay'[n] = << >> /\ deferred'[n] # << >>
<1>0. /\ deferred \in [Nodes -> Seq({"acquire", "renew"})]
      /\ toRelay \in [Nodes -> Seq(Ask)]
      /\ up \in [Nodes -> BOOLEAN]
      /\ ~up[n] => toRelay[n] = << >>
  BY DEF LInv, LeaseTypeOK, Ask, LeaseTie
<1>1. CASE up[n]
  <2> DEFINE m == Message(kind, TRUE)
             q == toRelay[n]
  <2>1. m \in Ask /\ m.kind = kind
    BY DEF Message, Ask
  <2> HIDE DEF m
  <2>2. toRelay' = [toRelay EXCEPT ![n] = Append(q, m)] /\ deferred' = deferred
    BY <1>1 DEF Request, m
  <2>3. Append(q, m) \in Seq(Ask) /\ Append(q, m) # << >> /\ Last(Append(q, m)) = m
    BY <1>0, <2>1, AppendEnds
  <2> QED
    BY <1>0, <1>1, <2>1, <2>2, <2>3
<1>2. CASE ~up[n]
  <2> DEFINE q == deferred[n]
             d == IF kind = "renew" /\ q # << >> /\ q[Len(q)] = "renew" THEN q ELSE Append(q, kind)
  <2>1. deferred' = [deferred EXCEPT ![n] = d] /\ toRelay' = toRelay
    BY <1>2 DEF Request
  <2>2. d \in Seq({"acquire", "renew"}) /\ d # << >>
    BY <1>0, AppendEnds
  <2> HIDE DEF d
  <2> QED
    BY <1>0, <1>2, <2>1, <2>2
<1> QED
  BY <1>1, <1>2

\* A node that asks has no answer yet.
LEMMA LeaseAsks ==
  ASSUME LInv, NEW n \in Nodes, Schedule(n) \/ Heartbeat(n)
  PROVE  LInv'
<1> USE DEF relayVars
<1>0. /\ leasePc \in [Nodes -> {"idle", "acquiring", "running"}] /\ local \in [Nodes -> 0..Ttl]
      /\ beat \in [Nodes -> 0..Beat] /\ answered \in [Nodes -> BOOLEAN] /\ up \in [Nodes -> BOOLEAN]
      /\ Ttl \in Nat /\ Beat \in Nat /\ Ttl \in 0..Ttl /\ Beat \in 0..Beat /\ 0 \in 0..Ttl
  BY LeaseAssumption DEF LInv, LeaseTypeOK
<1>1. PICK kind \in {"acquire", "renew"} : Request(n, kind)
  BY DEF Schedule, Heartbeat
<1>2. /\ UNCHANGED <<up, toNode, memory, holder, left, read, late, raced, withdrawn, leaseFaults>>
      /\ answered' = [answered EXCEPT ![n] = FALSE]
  BY DEF Schedule, Heartbeat
<1>3. /\ deferred' \in [Nodes -> Seq({"acquire", "renew"})]
      /\ toRelay' \in [Nodes -> Seq(Ask)]
      /\ \A k \in Nodes \ {n} : toRelay'[k] = toRelay[k] /\ deferred'[k] = deferred[k]
      /\ up[n] => toRelay'[n] # << >> /\ Last(toRelay'[n]).kind = kind
      /\ ~up[n] => toRelay'[n] = << >> /\ deferred'[n] # << >>
  BY <1>1, LeaseRequest
<1>4. /\ leasePc' \in [Nodes -> {"idle", "acquiring", "running"}] /\ local' \in [Nodes -> 0..Ttl]
      /\ beat' \in [Nodes -> 0..Beat] /\ answered' \in [Nodes -> BOOLEAN] /\ ~answered'[n]
      /\ \A k \in Nodes \ {n} : /\ leasePc'[k] = leasePc[k] /\ local'[k] = local[k]
                                /\ answered'[k] = answered[k]
  <2>1. CASE Schedule(n)
    BY <1>0, <2>1 DEF Schedule
  <2>2. CASE Heartbeat(n)
    BY <1>0, <2>2 DEF Heartbeat, Renewed
  <2> QED
    BY <2>1, <2>2
<1>5. LeaseTypeOK'
  BY <1>2, <1>3, <1>4 DEF LInv, LeaseTypeOK, Ask
<1>6. LeaseTie(n)'
  BY <1>0, <1>1, <1>2, <1>3, <1>4 DEF LeaseTie, GrantComing
<1>7. ASSUME NEW k \in Nodes \ {n} PROVE LeaseTie(k)'
  BY <1>2, <1>3, <1>4, LeaseKept DEF LInv, Held
<1>late. LateTie'
  BY <1>2 DEF LInv, LateTie
<1> QED
  BY <1>late, <1>5, <1>6, <1>7 DEF LInv

\* A node that stops wants nothing any more.
LEMMA LeaseStops ==
  ASSUME LInv, NEW n \in Nodes, StopLeaseHeartbeat(n)
  PROVE  LInv'
<1> USE DEF relayVars, leaseHistory
<1>0. /\ leasePc \in [Nodes -> {"idle", "acquiring", "running"}] /\ local \in [Nodes -> 0..Ttl]
      /\ beat \in [Nodes -> 0..Beat] /\ toRelay \in [Nodes -> Seq(Ask)] /\ up \in [Nodes -> BOOLEAN]
      /\ 0 \in 0..Beat /\ 0 \in 0..Ttl
  BY LeaseAssumption DEF LInv, LeaseTypeOK, Ask
<1>1. /\ UNCHANGED <<deferred, up, toNode, memory, holder, left, read, late, answered, raced, withdrawn, leaseFaults>>
      /\ leasePc' = [leasePc EXCEPT ![n] = "idle"] /\ local' = [local EXCEPT ![n] = 0]
      /\ beat' = [beat EXCEPT ![n] = 0]
  BY DEF StopLeaseHeartbeat
<1> DEFINE q == toRelay[n]
           m == Message("release", FALSE)
<1>2. m \in Ask
  BY DEF Message, Ask
<1> HIDE DEF m
<1>3. toRelay' = IF up[n] THEN [toRelay EXCEPT ![n] = Append(q, m)] ELSE toRelay
  BY DEF StopLeaseHeartbeat, m
<1>4. Append(q, m) \in Seq(Ask)
  BY <1>0, <1>2, AppendEnds
<1>5. /\ toRelay' \in [Nodes -> Seq(Ask)] /\ (~up[n] => toRelay'[n] = toRelay[n])
      /\ \A k \in Nodes \ {n} : toRelay'[k] = toRelay[k]
  BY <1>0, <1>3, <1>4
<1>6. LeaseTypeOK'
  BY <1>0, <1>1, <1>5 DEF LInv, LeaseTypeOK, Ask
<1>7. LeaseTie(n)'
  BY <1>0, <1>1, <1>5 DEF LInv, LeaseTie, Wants
<1>8. ASSUME NEW k \in Nodes \ {n} PROVE LeaseTie(k)'
  BY <1>0, <1>1, <1>5, LeaseKept DEF LInv, Held
<1>late. LateTie'
  BY <1>1 DEF LInv, LateTie
<1> QED
  BY <1>late, <1>6, <1>7, <1>8 DEF LInv

\* Messages nobody listens for any more are otherwise the same.
LEMMA DeafAsks ==
  ASSUME NEW q \in Seq(Ask), NEW d, d = [i \in DOMAIN q |-> [q[i] EXCEPT !.heard = FALSE]]
  PROVE  /\ d \in Seq(Ask) /\ (d = << >> <=> q = << >>)
         /\ q # << >> => Last(d).kind = Last(q).kind
<1>1. DOMAIN q = 1..Len(q) /\ Len(q) \in Nat /\ \A i \in 1..Len(q) : q[i] \in Ask
  OBVIOUS
<1>2. \A i \in 1..Len(q) : d[i] \in Ask /\ d[i].kind = q[i].kind
  BY <1>1 DEF Ask
<1>3. d \in Seq(Ask) /\ Len(d) = Len(q)
  BY <1>1, <1>2
<1> QED
  BY <1>1, <1>2, <1>3 DEF Last

LEMMA DeafAnswers ==
  ASSUME NEW q \in Seq(Answer), NEW d, d = [i \in DOMAIN q |-> [q[i] EXCEPT !.heard = FALSE]]
  PROVE  /\ d \in Seq(Answer) /\ (d = << >> <=> q = << >>)
         /\ q # << >> => Last(d).granted = Last(q).granted
<1>1. DOMAIN q = 1..Len(q) /\ Len(q) \in Nat /\ \A i \in 1..Len(q) : q[i] \in Answer
  OBVIOUS
<1>2. \A i \in 1..Len(q) : d[i] \in Answer /\ d[i].granted = q[i].granted
  BY <1>1 DEF Answer
<1>3. d \in Seq(Answer) /\ Len(d) = Len(q)
  BY <1>1, <1>2
<1> QED
  BY <1>1, <1>2, <1>3 DEF Last

\* A timeout changes who listens, not what is decided.
LEMMA LeaseTimesOut ==
  ASSUME LInv, NEW n \in Nodes, RequestTimesOut(n)
  PROVE  LInv'
<1> USE DEF relayVars
<1>0. /\ leasePc \in [Nodes -> {"idle", "acquiring", "running"}] /\ beat \in [Nodes -> 0..Beat]
      /\ toRelay \in [Nodes -> Seq(Ask)] /\ toNode \in [Nodes -> Seq(Answer)]
      /\ leaseFaults \in 0..MaxLeaseFaults /\ MaxLeaseFaults \in Nat /\ Beat \in 0..Beat
  BY LeaseAssumption DEF LInv, LeaseTypeOK, Ask, Answer
<1>1. /\ UNCHANGED <<local, deferred, up, memory, holder, left, read, late, answered, raced, withdrawn>>
      /\ leaseFaults' \in 0..MaxLeaseFaults
  BY <1>0 DEF RequestTimesOut, LeaseFault
<1>2. /\ leasePc' \in [Nodes -> {"idle", "acquiring", "running"}] /\ beat' \in [Nodes -> 0..Beat]
      /\ leasePc'[n] = "idle" <=> leasePc[n] = "idle"
      /\ \A k \in Nodes \ {n} : leasePc'[k] = leasePc[k]
  BY <1>0 DEF RequestTimesOut, StartLeaseHeartbeat
<1> DEFINE q == toRelay[n]
           d == [i \in DOMAIN q |-> [q[i] EXCEPT !.heard = FALSE]]
           r == toNode[n]
           e == [i \in DOMAIN r |-> [r[i] EXCEPT !.heard = FALSE]]
<1>3. toRelay' = [toRelay EXCEPT ![n] = d] /\ toNode' = [toNode EXCEPT ![n] = e]
  BY DEF RequestTimesOut, TimedOut
<1>4. /\ d \in Seq(Ask) /\ (d = << >> <=> q = << >>)
      /\ q # << >> => Last(d).kind = Last(q).kind
  BY <1>0, DeafAsks
<1>5. /\ e \in Seq(Answer) /\ (e = << >> <=> r = << >>)
      /\ r # << >> => Last(e).granted = Last(r).granted
  BY <1>0, DeafAnswers
<1> HIDE DEF d, e
<1>6. /\ toRelay' \in [Nodes -> Seq(Ask)] /\ toNode' \in [Nodes -> Seq(Answer)]
      /\ toRelay'[n] = d /\ toNode'[n] = e
      /\ \A k \in Nodes \ {n} : toRelay'[k] = toRelay[k] /\ toNode'[k] = toNode[k]
  BY <1>0, <1>3, <1>4, <1>5
<1>7. LeaseTypeOK'
  BY <1>1, <1>2, <1>6 DEF LInv, LeaseTypeOK, Ask, Answer
<1>8. LeaseTie(n)'
  BY <1>1, <1>2, <1>4, <1>5, <1>6 DEF LInv, LeaseTie, Wants, Held, GrantComing
<1>9. ASSUME NEW k \in Nodes \ {n} PROVE LeaseTie(k)'
  BY <1>1, <1>2, <1>6, LeaseKept DEF LInv, Held
<1>late. LateTie'
  BY <1>1 DEF LInv, LateTie
<1> QED
  BY <1>late, <1>7, <1>8, <1>9 DEF LInv

\* The store's row keeps its type.
LEMMA StoreType ==
  ASSUME NEW kind, NEW n \in Nodes, NEW h, NEW live, Store(kind, n, h, live),
         holder \in Nodes \cup {Nobody}, left \in 0..Ttl
  PROVE  holder' \in Nodes \cup {Nobody} /\ left' \in 0..Ttl
  BY LeaseAssumption DEF Store

\* A request of n that is decided on the row as it is takes nothing from another
\* node whose lease is live.
LEMMA StoreSpares ==
  ASSUME NEW kind, NEW n \in Nodes, NEW h, NEW live, Store(kind, n, h, live),
         h = holder, live = (left > 0), NEW k \in Nodes \ {n}, left \in 0..Ttl,
         local[k] \in 0..Ttl, local[k] > 0, Held(k)
  PROVE  holder' = holder /\ left' = left
<1>1. left > 0
  <2>1. Ttl \in Nat /\ left >= local[k]
    BY LeaseAssumption DEF Held
  <2>2. left \in Int /\ local[k] \in Int
    BY <2>1
  <2> QED
    BY <2>1, <2>2
<1>2. h = k /\ h # Nobody /\ h # n /\ live
  BY <1>1, LeaseAssumption DEF Held
<1>3. ~(kind # "release" /\ Grants(kind, n, h, live)) /\ ~Removes(kind, n, h)
  BY <1>2 DEF Grants, Removes
<1> QED
  BY <1>3 DEF Store

\* The relay decides a request on the lease as it is: a grant makes the asking
\* node the holder for a whole TTL, and takes nothing from a node whose lease is
\* live.
LEMMA LeaseDecides ==
  ASSUME LInv, NEW n \in Nodes, toRelay[n] # << >>,
         NEW h \in Nodes \cup {Nobody}, NEW live \in BOOLEAN, Decide(n, h, live),
         ~raced' => ~raced /\ h = holder /\ live = (left > 0),
         UNCHANGED <<leasePc, local, beat, deferred, up, memory, late, answered, leaseFaults>>,
         raced' \in BOOLEAN,
         read' \in [Nodes -> Reads]
  PROVE  LInv'
<1> DEFINE q == toRelay[n]
           m == Head(q)
           ok == Grants(m.kind, n, h, live)
           said == [kind |-> m.kind, granted |-> ok, heard |-> m.heard]
<1>0. /\ leasePc \in [Nodes -> {"idle", "acquiring", "running"}] /\ local \in [Nodes -> 0..Ttl]
      /\ toRelay \in [Nodes -> Seq(Ask)] /\ toNode \in [Nodes -> Seq(Answer)]
      /\ holder \in Nodes \cup {Nobody} /\ left \in 0..Ttl /\ Ttl \in Nat /\ Nobody \notin Nodes
      /\ up \in [Nodes -> BOOLEAN]
  BY LeaseAssumption DEF LInv, LeaseTypeOK, Ask, Answer
<1>1. /\ m \in Ask /\ Tail(q) \in Seq(Ask)
      /\ Tail(q) # << >> => Last(Tail(q)) = Last(q)
      /\ Tail(q) = << >> => m = Last(q)
  BY <1>0, TailEnds
<1>2. toRelay' = [toRelay EXCEPT ![n] = Tail(q)]
  BY DEF Decide
<1>3. /\ m.kind = "release" => toNode' = toNode
      /\ m.kind # "release" =>
           /\ toNode' = [toNode EXCEPT ![n] = Append(@, said)]
           /\ ok => holder' = n /\ left' = Ttl
      /\ withdrawn' \in {withdrawn, withdrawn \ {n}}
      /\ Store(m.kind, n, h, live)
  BY DEF Decide, Store, Removes
<1>4. ok \in BOOLEAN /\ (m.kind # "release" => said \in Answer /\ said.granted = ok)
  <2>1. ok \in BOOLEAN
    BY DEF Grants
  <2> HIDE DEF ok
  <2> QED
    BY <1>1, <2>1 DEF Ask, Answer
<1> HIDE DEF m, ok, said
<1>6. m.kind # "release" => /\ Append(toNode[n], said) \in Seq(Answer)
                            /\ Append(toNode[n], said) # << >>
                            /\ Last(Append(toNode[n], said)) = said
  <2> SUFFICES ASSUME m.kind # "release"
               PROVE  /\ Append(toNode[n], said) \in Seq(Answer)
                      /\ Append(toNode[n], said) # << >>
                      /\ Last(Append(toNode[n], said)) = said
    OBVIOUS
  <2>1. said \in Answer /\ toNode[n] \in Seq(Answer)
    BY <1>0, <1>4
  <2> QED
    BY <2>1, AppendEnds
<1>7. /\ toRelay' \in [Nodes -> Seq(Ask)] /\ toNode' \in [Nodes -> Seq(Answer)]
      /\ holder' \in Nodes \cup {Nobody} /\ left' \in 0..Ttl /\ toRelay'[n] = Tail(q)
      /\ m.kind # "release" => toNode'[n] = Append(toNode[n], said)
      /\ \A k \in Nodes \ {n} : toRelay'[k] = toRelay[k] /\ toNode'[k] = toNode[k]
  <2>1. holder' \in Nodes \cup {Nobody} /\ left' \in 0..Ttl
    BY <1>0, <1>3, StoreType
  <2>2. /\ toRelay' \in [Nodes -> Seq(Ask)] /\ toRelay'[n] = Tail(q)
        /\ \A k \in Nodes \ {n} : toRelay'[k] = toRelay[k]
    BY <1>0, <1>1, <1>2
  <2>3. /\ toNode' \in [Nodes -> Seq(Answer)]
        /\ m.kind # "release" => toNode'[n] = Append(toNode[n], said)
        /\ \A k \in Nodes \ {n} : toNode'[k] = toNode[k]
    BY <1>0, <1>3, <1>6
  <2> QED
    BY <2>1, <2>2, <2>3
<1>8. LeaseTypeOK' /\ LateTie'
  BY <1>3, <1>7 DEF LInv, LeaseTypeOK, LateTie, Ask, Answer, Reads
<1>9. LeaseTie(n)'
  <2>1. /\ ~up'[n] => toRelay'[n] = << >>
        /\ toRelay'[n] # << >> /\ Last(toRelay'[n]).kind = "release" => leasePc'[n] = "idle"
        /\ ~(answered'[n] /\ leasePc'[n] # "idle")
    BY <1>1, <1>7 DEF LInv, LeaseTie
  <2>2. ASSUME Wants(n)', GrantComing(n)' PROVE Held(n)'
    <3>1. Tail(q) = << >> /\ leasePc[n] # "idle" /\ local[n] \in 0..Ttl
      BY <1>0, <1>7, <2>2 DEF GrantComing, Wants
    <3>2. m.kind # "release"
      BY <1>1, <3>1 DEF LInv, LeaseTie
    <3>3. ok
      BY <1>4, <1>6, <1>7, <2>2, <3>2 DEF GrantComing
    <3> QED
      BY <1>0, <1>3, <3>1, <3>2, <3>3 DEF Held
  <2> QED
    BY <2>1, <2>2 DEF LeaseTie, Wants
<1>10. ASSUME NEW k \in Nodes \ {n} PROVE LeaseTie(k)'
  <2>1. ~raced' /\ local[k] > 0 /\ Held(k) => holder' = k /\ left' >= local[k]
    <3> SUFFICES ASSUME ~raced', local[k] > 0, Held(k) PROVE holder' = holder /\ left' = left
      BY DEF Held
    <3> QED
      BY <1>0, <1>3, StoreSpares
  <2>2. (raced => raced') /\ (k \in withdrawn => k \in withdrawn')
    BY <1>3
  <2> QED
    BY <1>7, <2>1, <2>2, LeaseKept DEF LInv
<1> QED
  BY <1>8, <1>9, <1>10 DEF LInv

\* The three steps of the relay, on either store.
LEMMA LeaseRelay ==
  ASSUME LInv, NEW n \in Nodes,
         RelayHandles(n) \/ RelayReads(n) \/ RelayWrites(n)
  PROVE  LInv'
<1> USE DEF nodeVars, linkVars, leaseHistory
<1>0. /\ holder \in Nodes \cup {Nobody} /\ left \in 0..Ttl /\ raced \in BOOLEAN
      /\ read \in [Nodes -> Reads] /\ Ttl \in Nat
  BY LeaseAssumption DEF LInv, LeaseTypeOK, Reads
<1>1. CASE RelayHandles(n)
  <2>1. /\ toRelay[n] # << >> /\ Decide(n, holder, left > 0)
        /\ UNCHANGED <<leasePc, local, beat, deferred, up, memory, late, answered, leaseFaults, read, raced>>
    BY <1>1 DEF RelayHandles
  <2>2. raced' \in BOOLEAN /\ read' \in [Nodes -> Reads]
    BY <1>0, <2>1
  <2>3. CASE left > 0
    <3>1. Decide(n, holder, TRUE)
      BY <2>1, <2>3 DEF Decide, Store, Removes, Grants
    <3>2. ~raced' => ~raced /\ TRUE = (left > 0)
      BY <2>1, <2>3
    <3> QED
      BY <1>0, <2>1, <2>2, <3>1, <3>2, LeaseDecides
  <2>4. CASE ~(left > 0)
    <3>1. Decide(n, holder, FALSE)
      BY <2>1, <2>4 DEF Decide, Store, Removes, Grants
    <3>2. ~raced' => ~raced /\ FALSE = (left > 0)
      BY <2>1, <2>4
    <3> QED
      BY <1>0, <2>1, <2>2, <3>1, <3>2, LeaseDecides
  <2> QED
    BY <2>3, <2>4

<1>2. CASE RelayReads(n)
  <2>1. /\ read' = [read EXCEPT ![n] = [holder |-> holder, live |-> left > 0, pending |-> TRUE]]
        /\ UNCHANGED <<leasePc, local, beat, deferred, up, toRelay, toNode, memory, holder, left,
                       late, answered, raced, withdrawn, leaseFaults>>
    BY <1>2 DEF RelayReads
  <2>2. [holder |-> holder, live |-> left > 0, pending |-> TRUE] \in Reads
    BY <1>0 DEF Reads
  <2>3. read' \in [Nodes -> Reads]
    BY <1>0, <2>1, <2>2
  <2>4. LeaseTypeOK' /\ LateTie'
    BY <2>1, <2>3 DEF LInv, LeaseTypeOK, LateTie, Reads
  <2>5. ASSUME NEW k \in Nodes PROVE LeaseTie(k)'
    BY <2>1, LeaseKept DEF LInv, Held
  <2> QED
    BY <2>4, <2>5 DEF LInv
<1>3. CASE RelayWrites(n)
  <2>1. /\ toRelay[n] # << >> /\ Decide(n, read[n].holder, read[n].live)
        /\ raced' = (raced \/ read[n].holder # holder \/ read[n].live # (left > 0))
        /\ read' = [read EXCEPT ![n] = NoRead]
        /\ UNCHANGED <<leasePc, local, beat, deferred, up, memory, late, answered, leaseFaults>>
    BY <1>3 DEF RelayWrites, Changed
  <2>2. read[n].holder \in Nodes \cup {Nobody} /\ read[n].live \in BOOLEAN /\ NoRead \in Reads
    BY <1>0 DEF NoRead, Reads
  <2>3. raced' \in BOOLEAN /\ read' \in [Nodes -> Reads]
    BY <1>0, <2>1, <2>2
  <2>4. ~raced' => ~raced /\ read[n].holder = holder /\ read[n].live = (left > 0)
    BY <2>1
  <2>5. PICK h, v : h = read[n].holder /\ v = read[n].live
    OBVIOUS
  <2>6. Decide(n, h, v)
    BY <2>1, <2>5 DEF Decide, Store, Removes, Grants
  <2> QED
    BY <2>1, <2>2, <2>3, <2>4, <2>5, <2>6, LeaseDecides
<1> QED
  BY <1>1, <1>2, <1>3

\* A request left in the chain of a closed socket: a grant can only lengthen the
\* lease of its node, and a release that takes it away is noted.
LEMMA LateDecides ==
  ASSUME LInv, NEW k \in 1..MaxLeaseFaults, late[k].asks # << >>,
         NEW h \in Nodes \cup {Nobody}, NEW live \in BOOLEAN, DecideLate(k, h, live),
         ~raced' => ~raced /\ h = holder /\ live = (left > 0),
         UNCHANGED <<leasePc, local, beat, deferred, up, toRelay, toNode, memory, read, answered,
                     leaseFaults>>,
         raced' \in BOOLEAN
  PROVE  LInv'
<1>n. PICK n : n = late[k].node
  OBVIOUS
<1> DEFINE c == late[k]
           kind == Head(c.asks)
           Kinds == {"acquire", "renew", "release"}
<1>0. /\ local \in [Nodes -> 0..Ttl] /\ holder \in Nodes \cup {Nobody} /\ left \in 0..Ttl
      /\ late \in [1..MaxLeaseFaults -> Chain] /\ withdrawn \in SUBSET Nodes
      /\ Ttl \in Nat /\ n \in Nodes
  BY <1>n, LeaseAssumption DEF LInv, LeaseTypeOK, LateTie, Chain, Reads
<1>1. c \in Chain /\ c.asks \in Seq(Kinds) /\ Tail(c.asks) \in Seq(Kinds) /\ kind \in Kinds
  BY <1>0, TailEnds DEF Chain
<1>2. NoRead \in Reads /\ NoChain \in Chain /\ NoChain.asks = << >>
  <2>1. << >> \in Seq(Kinds)
    OBVIOUS
  <2> QED
    BY <2>1 DEF NoRead, NoChain, Reads, Chain
<1> DEFINE rest == IF Len(c.asks) = 1 THEN NoChain
                   ELSE [node |-> n, asks |-> Tail(c.asks), read |-> NoRead]
<1>3. Store(kind, n, h, live) /\ late' = [late EXCEPT ![k] = rest]
  BY <1>n DEF DecideLate
<1>4. /\ withdrawn' \in {withdrawn, withdrawn \cup {n}, withdrawn \ {n}}
      /\ \/ n \in withdrawn'
         \/ holder' = n /\ left' = Ttl
         \/ holder' = holder /\ left' = left /\ withdrawn' = withdrawn
  <2>1. CASE Removes(kind, n, h)
    BY <1>n, <2>1 DEF DecideLate, Removes
  <2>2. CASE kind # "release" /\ Grants(kind, n, h, live)
    BY <1>n, <2>2 DEF DecideLate, Store, Removes
  <2>3. CASE ~Removes(kind, n, h) /\ ~(kind # "release" /\ Grants(kind, n, h, live))
    BY <1>n, <2>3 DEF DecideLate, Store
  <2> QED
    BY <2>1, <2>2, <2>3
<1>5. rest \in Chain /\ (rest.asks # << >> => rest.node \in Nodes)
  BY <1>0, <1>1, <1>2 DEF Chain
<1> HIDE DEF rest, kind
<1>6. holder' \in Nodes \cup {Nobody} /\ left' \in 0..Ttl
  BY <1>0, <1>3, StoreType
<1>7. LeaseTypeOK' /\ LateTie'
  <2>1. late' \in [1..MaxLeaseFaults -> Chain] /\ LateTie'
    BY <1>0, <1>3, <1>5 DEF LInv, LateTie
  <2>2. withdrawn' \in SUBSET Nodes
    BY <1>0, <1>4
  <2> QED
    BY <1>6, <2>1, <2>2 DEF LInv, LeaseTypeOK, Chain, Reads
<1>8. LeaseTie(n)'
  BY <1>0, <1>4 DEF LInv, LeaseTie, Wants, Held, GrantComing
<1>9. ASSUME NEW i \in Nodes \ {n} PROVE LeaseTie(i)'
  <2>1. ~raced' /\ local[i] > 0 /\ Held(i) => holder' = i /\ left' >= local[i]
    <3> SUFFICES ASSUME ~raced', local[i] > 0, Held(i) PROVE holder' = holder /\ left' = left
      BY DEF Held
    <3> QED
      BY <1>0, <1>3, StoreSpares
  <2>2. (raced => raced') /\ (i \in withdrawn => i \in withdrawn')
    BY <1>4
  <2> QED
    BY <2>1, <2>2, LeaseKept DEF LInv
<1> QED
  BY <1>0, <1>7, <1>8, <1>9 DEF LInv

\* The three steps of a closed socket's chain, on either store.
LEMMA LeaseLate ==
  ASSUME LInv, NEW k \in 1..MaxLeaseFaults,
         LateHandles(k) \/ LateReads(k) \/ LateWrites(k)
  PROVE  LInv'
<1> USE DEF nodeVars, linkVars, leaseHistory
<1>0. /\ holder \in Nodes \cup {Nobody} /\ left \in 0..Ttl /\ raced \in BOOLEAN
      /\ late \in [1..MaxLeaseFaults -> Chain] /\ Ttl \in Nat
  BY LeaseAssumption DEF LInv, LeaseTypeOK, Chain, Reads
<1>1. CASE LateHandles(k)
  <2>1. /\ late[k].asks # << >> /\ DecideLate(k, holder, left > 0)
        /\ UNCHANGED <<leasePc, local, beat, deferred, up, toRelay, toNode, memory, read, answered,
                       raced, leaseFaults>>
    BY <1>1 DEF LateHandles
  <2>2. raced' \in BOOLEAN /\ (~raced' => ~raced)
    BY <1>0, <2>1
  <2>3. PICK h : h = holder
    OBVIOUS
  <2>4. CASE left > 0
    <3>1. DecideLate(k, h, TRUE)
      BY <2>1, <2>3, <2>4 DEF DecideLate, Store, Removes, Grants
    <3>2. TRUE = (left > 0)
      BY <2>4
    <3> QED
      BY <1>0, <2>1, <2>2, <2>3, <3>1, <3>2, LateDecides
  <2>5. CASE ~(left > 0)
    <3>1. DecideLate(k, h, FALSE)
      BY <2>1, <2>3, <2>5 DEF DecideLate, Store, Removes, Grants
    <3>2. FALSE = (left > 0)
      BY <2>5
    <3> QED
      BY <1>0, <2>1, <2>2, <2>3, <3>1, <3>2, LateDecides
  <2> QED
    BY <2>4, <2>5
<1>2. CASE LateReads(k)
  <2> DEFINE row == [holder |-> holder, live |-> left > 0, pending |-> TRUE]
  <2>1. /\ late' = [late EXCEPT ![k].read = row]
        /\ UNCHANGED <<leasePc, local, beat, deferred, up, toRelay, toNode, memory, holder, left,
                       read, answered, raced, withdrawn, leaseFaults>>
    BY <1>2 DEF LateReads
  <2>2. row \in Reads
    BY <1>0 DEF Reads
  <2> HIDE DEF row
  <2>3. /\ late' \in [1..MaxLeaseFaults -> Chain]
        /\ \A i \in 1..MaxLeaseFaults : late'[i].asks = late[i].asks /\ late'[i].node = late[i].node
    BY <1>0, <2>1, <2>2 DEF Chain
  <2>4. LeaseTypeOK' /\ LateTie'
    BY <2>1, <2>3 DEF LInv, LeaseTypeOK, LateTie, Chain, Reads
  <2>5. ASSUME NEW n \in Nodes PROVE LeaseTie(n)'
    BY <2>1, LeaseKept DEF LInv, Held
  <2> QED
    BY <2>4, <2>5 DEF LInv
<1>3. CASE LateWrites(k)
  <2>1. /\ late[k].asks # << >> /\ DecideLate(k, late[k].read.holder, late[k].read.live)
        /\ raced' = (raced \/ late[k].read.holder # holder \/ late[k].read.live # (left > 0))
        /\ UNCHANGED <<leasePc, local, beat, deferred, up, toRelay, toNode, memory, read, answered,
                       leaseFaults>>
    BY <1>3 DEF LateWrites, Changed
  <2>2. late[k].read.holder \in Nodes \cup {Nobody} /\ late[k].read.live \in BOOLEAN
    BY <1>0 DEF Chain, Reads
  <2>3. PICK h, v : h = late[k].read.holder /\ v = late[k].read.live
    OBVIOUS
  <2>4. DecideLate(k, h, v)
    BY <2>1, <2>3 DEF DecideLate, Store, Removes, Grants
  <2>5. raced' \in BOOLEAN
    BY <1>0, <2>1, <2>2
  <2> QED
    BY <2>1, <2>2, <2>3, <2>4, <2>5, LateDecides
<1> QED
  BY <1>1, <1>2, <1>3

\* The node hears an answer: the last one, if it is a grant, finds the lease held.
LEMMA LeaseReceives ==
  ASSUME LInv, NEW n \in Nodes, NodeReceives(n)
  PROVE  LInv'
<1> USE DEF relayVars
<1> DEFINE q == toNode[n]
           m == Head(q)
<1>0. /\ leasePc \in [Nodes -> {"idle", "acquiring", "running"}] /\ local \in [Nodes -> 0..Ttl]
      /\ beat \in [Nodes -> 0..Beat] /\ answered \in [Nodes -> BOOLEAN]
      /\ toNode \in [Nodes -> Seq(Answer)]
      /\ Ttl \in Nat /\ Beat \in 0..Beat /\ 0 \in 0..Ttl
  BY LeaseAssumption DEF LInv, LeaseTypeOK, Answer
<1>1. /\ q # << >> /\ toNode' = [toNode EXCEPT ![n] = Tail(q)]
      /\ answered' = [answered EXCEPT ![n] =
           @ \/ (m.heard /\ Len(q) = 1 /\ toRelay[n] = << >> /\ deferred[n] = << >>)]
      /\ UNCHANGED <<deferred, up, toRelay, memory, holder, left, read, late, raced, withdrawn, leaseFaults>>
  BY DEF NodeReceives
<1>2. /\ m \in Answer /\ Tail(q) \in Seq(Answer)
      /\ Tail(q) # << >> => Last(Tail(q)) = Last(q)
      /\ Tail(q) = << >> => m = Last(q)
      /\ Len(q) = 1 => Tail(q) = << >>
  BY <1>0, <1>1, TailEnds
<1>3. /\ leasePc' \in [Nodes -> {"idle", "acquiring", "running"}] /\ local' \in [Nodes -> 0..Ttl]
      /\ beat' \in [Nodes -> 0..Beat]
      /\ \A k \in Nodes \ {n} : leasePc'[k] = leasePc[k] /\ local'[k] = local[k]
      /\ leasePc[n] = "idle" => leasePc'[n] = "idle"
      /\ leasePc'[n] # "idle" /\ local'[n] > 0 => local'[n] = local[n] /\ (m.heard => m.granted)
  <2>1. CASE m.heard
    <3>1. Heard(n, m)
      BY <2>1 DEF NodeReceives
    <3> HIDE DEF m
    <3>2. CASE m.kind = "acquire" /\ leasePc[n] = "acquiring" /\ m.granted
      BY <1>0, <3>1, <3>2 DEF Heard, StartLeaseHeartbeat
    <3>3. CASE m.kind = "acquire" /\ leasePc[n] = "acquiring" /\ ~m.granted
      BY <1>0, <3>1, <3>3 DEF Heard
    <3>4. CASE ~(m.kind = "acquire" /\ leasePc[n] = "acquiring")
      <4>1. /\ leasePc' = leasePc /\ beat' = beat
            /\ local' = IF m.granted THEN local ELSE [local EXCEPT ![n] = 0]
        BY <3>1, <3>4 DEF Heard
      <4> QED
        BY <1>0, <4>1
    <3> QED
      BY <3>2, <3>3, <3>4

  <2>2. CASE ~m.heard
    BY <1>0, <2>2 DEF NodeReceives
  <2> QED
    BY <2>1, <2>2
<1> HIDE DEF m
<1>4. /\ toNode' \in [Nodes -> Seq(Answer)] /\ toNode'[n] = Tail(q)
      /\ answered' \in [Nodes -> BOOLEAN]
      /\ \A k \in Nodes \ {n} : toNode'[k] = toNode[k] /\ answered'[k] = answered[k]
      /\ answered'[n] =>
           answered[n] \/ (m.heard /\ Len(q) = 1 /\ toRelay[n] = << >> /\ deferred[n] = << >>)
  <2>1. m.heard \in BOOLEAN
    BY <1>2 DEF Answer
  <2> QED
    BY <1>0, <1>1, <1>2, <2>1
<1>5. LeaseTypeOK'
  BY <1>1, <1>3, <1>4 DEF LInv, LeaseTypeOK, Answer
<1>6. LeaseTie(n)'
  <2>1. /\ ~up'[n] => toRelay'[n] = << >>
        /\ toRelay'[n] # << >> /\ Last(toRelay'[n]).kind = "release" => leasePc'[n] = "idle"
        /\ answered'[n] /\ leasePc'[n] # "idle" => toRelay'[n] = << >> /\ deferred'[n] = << >>
    BY <1>1, <1>3, <1>4 DEF LInv, LeaseTie
  <2>2. ASSUME ~raced', n \notin withdrawn', Wants(n)', answered'[n] \/ GrantComing(n)'
        PROVE  Held(n)'
    <3>1. Wants(n) /\ local'[n] = local[n] /\ (m.heard => m.granted)
      BY <1>3, <2>2 DEF Wants
    <3>2. answered[n] \/ GrantComing(n)
      BY <1>1, <1>2, <1>4, <2>2, <3>1 DEF GrantComing
    <3>3. Held(n)
      BY <1>1, <2>2, <3>1, <3>2 DEF LInv, LeaseTie
    <3> QED
      BY <1>1, <3>1, <3>3 DEF Held
  <2> QED
    BY <2>1, <2>2 DEF LeaseTie
<1>7. ASSUME NEW k \in Nodes \ {n} PROVE LeaseTie(k)'
  BY <1>1, <1>3, <1>4, LeaseKept DEF LInv, Held
<1>late. LateTie'
  BY <1>1 DEF LInv, LateTie
<1> QED
  BY <1>late, <1>5, <1>6, <1>7 DEF LInv

\* The chain of a socket that closes.
LEMMA ReceivedType ==
  ASSUME NEW n \in Nodes, toRelay[n] \in Seq(Ask), read[n] \in Reads,
         NEW r \in 0..Len(toRelay[n])
  PROVE  Received(n, r) \in Chain /\ (Received(n, r).asks # << >> => Received(n, r).node \in Nodes)
<1> DEFINE Kinds == {"acquire", "renew", "release"}
           asks == [i \in 1..r |-> toRelay[n][i].kind]
<1>1. << >> \in Seq(Kinds) /\ NoRead \in Reads
  BY DEF NoRead, Reads
<1>2. asks \in Seq(Kinds)
  <2>1. r \in Nat /\ \A i \in 1..r : toRelay[n][i] \in Ask
    OBVIOUS
  <2>2. \A i \in 1..r : toRelay[n][i].kind \in Kinds
    BY <2>1 DEF Ask
  <2> QED
    BY <2>1, <2>2
<1> HIDE DEF asks
<1>3. CASE r = 0
  BY <1>1, <1>3 DEF Received, NoChain, Chain
<1>4. CASE r # 0
  <2>1. Received(n, r) = [node |-> n, asks |-> asks, read |-> read[n]]
    BY <1>4 DEF Received, asks
  <2> QED
    BY <1>2, <2>1 DEF Chain
<1> QED
  BY <1>3, <1>4

\* What is under way on a dropped link is gone or left in its chain: no grant is on
\* its way.
LEMMA LeaseDrops ==
  ASSUME LInv, NEW n \in Nodes, LinkDrops(n) \/ NodeCrashes(n)
  PROVE  LInv'
<1> USE DEF nodeVars
<1>0. /\ leasePc \in [Nodes -> {"idle", "acquiring", "running"}] /\ local \in [Nodes -> 0..Ttl]
      /\ beat \in [Nodes -> 0..Beat] /\ deferred \in [Nodes -> Seq({"acquire", "renew"})]
      /\ up \in [Nodes -> BOOLEAN] /\ read \in [Nodes -> Reads]
      /\ toRelay \in [Nodes -> Seq(Ask)] /\ toNode \in [Nodes -> Seq(Answer)]
      /\ leaseFaults \in 0..MaxLeaseFaults /\ MaxLeaseFaults \in Nat /\ 0 \in 0..Beat /\ 0 \in 0..Ttl
      /\ NoRead \in Reads
  <2>1. NoRead \in Reads
    BY DEF NoRead, Reads
  <2>2. /\ read \in [Nodes -> Reads] /\ toRelay \in [Nodes -> Seq(Ask)]
        /\ toNode \in [Nodes -> Seq(Answer)]
    BY DEF LInv, LeaseTypeOK, Ask, Answer, Reads
  <2> QED
    BY <2>1, <2>2, LeaseAssumption DEF LInv, LeaseTypeOK
<1>1. /\ Drop({n}) /\ leaseFaults' \in 1..MaxLeaseFaults
      /\ UNCHANGED <<memory, holder, left, answered, raced, withdrawn>>
  BY <1>0 DEF LinkDrops, NodeCrashes, Closes, LeaseFault
<1>late. late' \in [1..MaxLeaseFaults -> Chain] /\ LateTie'
  <2>0. late \in [1..MaxLeaseFaults -> Chain] /\ LateTie
    BY DEF LInv, LeaseTypeOK, Chain, Reads
  <2>1. PICK r \in 0..Len(toRelay[n]) : late' = [late EXCEPT ![leaseFaults'] = Received(n, r)]
    BY DEF LinkDrops, NodeCrashes, Closes
  <2>2. Received(n, r) \in Chain /\ (Received(n, r).asks # << >> => Received(n, r).node \in Nodes)
    BY <1>0, ReceivedType
  <2>3. PICK f, c : f = leaseFaults' /\ c = Received(n, r)
    OBVIOUS
  <2>4. f \in 1..MaxLeaseFaults /\ late' = [late EXCEPT ![f] = c]
    BY <1>1, <2>1, <2>3
  <2> QED
    BY <2>0, <2>2, <2>3, <2>4 DEF LateTie
<1>2. /\ up' \in [Nodes -> BOOLEAN] /\ read' \in [Nodes -> Reads]
      /\ toRelay'[n] = << >> /\ toNode'[n] = << >>
      /\ \A k \in Nodes \ {n} : up'[k] = up[k] /\ toRelay'[k] = toRelay[k] /\ toNode'[k] = toNode[k]
  BY <1>0, <1>1 DEF Drop
<1>3. toRelay' \in [Nodes -> Seq(Ask)] /\ toNode' \in [Nodes -> Seq(Answer)]
  <2>1. << >> \in Seq(Ask) /\ << >> \in Seq(Answer)
    OBVIOUS
  <2> QED
    BY <1>0, <1>1, <2>1 DEF Drop
<1>4. /\ leasePc' \in [Nodes -> {"idle", "acquiring", "running"}] /\ local' \in [Nodes -> 0..Ttl]
      /\ beat' \in [Nodes -> 0..Beat] /\ deferred' \in [Nodes -> Seq({"acquire", "renew"})]
      /\ \A k \in Nodes \ {n} : /\ leasePc'[k] = leasePc[k] /\ local'[k] = local[k]
                                /\ deferred'[k] = deferred[k]
      /\ leasePc'[n] = "idle" \/ (leasePc'[n] = leasePc[n] /\ local'[n] = local[n]
                                  /\ deferred'[n] = deferred[n])
  <2>1. CASE LinkDrops(n)
    BY <1>0, <2>1 DEF LinkDrops
  <2>2. CASE NodeCrashes(n)
    <3>1. << >> \in Seq({"acquire", "renew"})
      OBVIOUS
    <3> QED
      BY <1>0, <2>2, <3>1 DEF NodeCrashes
  <2> QED
    BY <2>1, <2>2
<1>5. LeaseTypeOK'
  <2>1. leaseFaults' \in 0..MaxLeaseFaults
    BY <1>1
  <2>2. /\ memory' \in BOOLEAN /\ holder' \in Nodes \cup {Nobody} /\ left' \in 0..Ttl
        /\ answered' \in [Nodes -> BOOLEAN] /\ raced' \in BOOLEAN /\ withdrawn' \in SUBSET Nodes
    BY <1>1 DEF LInv, LeaseTypeOK
  <2> QED
    BY <1>late, <1>2, <1>3, <1>4, <2>1, <2>2 DEF LeaseTypeOK, Ask, Answer, Chain, Reads
<1>6. LeaseTie(n)'

  BY <1>1, <1>2, <1>4 DEF LInv, LeaseTie, Wants, Held, GrantComing
<1>7. ASSUME NEW k \in Nodes \ {n} PROVE LeaseTie(k)'
  BY <1>1, <1>2, <1>4, LeaseKept DEF LInv, Held
<1> QED
  BY <1>late, <1>5, <1>6, <1>7 DEF LInv

\* A restart of the relay leaves no node answered and no answer under way.
LEMMA LeaseRestarts ==
  ASSUME LInv, RelayRestarts PROVE LInv'
<1> USE DEF nodeVars
<1>0. /\ up \in [Nodes -> BOOLEAN] /\ read \in [Nodes -> Reads] /\ holder \in Nodes \cup {Nobody}
      /\ left \in 0..Ttl /\ 0 \in 0..Ttl /\ NoRead \in Reads
      /\ leaseFaults \in 0..MaxLeaseFaults /\ MaxLeaseFaults \in Nat
  BY LeaseAssumption DEF LInv, LeaseTypeOK, NoRead, Reads
<1>1. /\ Drop(Nodes) /\ UNCHANGED <<leasePc, local, beat, deferred, memory, raced, withdrawn>>
      /\ answered' = [n \in Nodes |-> FALSE] /\ leaseFaults' \in 0..MaxLeaseFaults
      /\ late' = [k \in 1..MaxLeaseFaults |-> NoChain]
      /\ holder' \in Nodes \cup {Nobody} /\ left' \in 0..Ttl
  BY <1>0 DEF RelayRestarts, LeaseFault
<1>2. /\ up' \in [Nodes -> BOOLEAN] /\ read' \in [Nodes -> Reads]
      /\ answered' \in [Nodes -> BOOLEAN]
      /\ toRelay' = [n \in Nodes |-> << >>] /\ toNode' = [n \in Nodes |-> << >>]
  BY <1>0, <1>1 DEF Drop
<1>3. toRelay' \in [Nodes -> Seq(Ask)] /\ toNode' \in [Nodes -> Seq(Answer)]
  <2>1. << >> \in Seq(Ask) /\ << >> \in Seq(Answer)
    OBVIOUS
  <2> QED
    BY <1>2, <2>1
<1>late. late' \in [1..MaxLeaseFaults -> Chain] /\ LateTie'
  <2>1. << >> \in Seq({"acquire", "renew", "release"})
    OBVIOUS
  <2>2. NoChain \in Chain /\ NoChain.asks = << >>
    BY <1>0, <2>1 DEF NoChain, Chain
  <2> QED
    BY <1>1, <2>2 DEF LateTie
<1>4. LeaseTypeOK'
  BY <1>1, <1>late, <1>2, <1>3 DEF LInv, LeaseTypeOK, Ask, Answer, Chain, Reads
<1>5. ASSUME NEW n \in Nodes PROVE LeaseTie(n)'
  BY <1>1, <1>2 DEF LeaseTie, GrantComing
<1> QED
  BY <1>late, <1>4, <1>5 DEF LInv

\* The empty sequence is the one of length 0.
LEMMA EmptyLen == ASSUME NEW S, NEW s \in Seq(S) PROVE s = << >> <=> Len(s) = 0
  OBVIOUS

\* The messages of deferred requests.
LEMMA DeferredSent ==
  ASSUME NEW q \in Seq({"acquire", "renew"}), NEW ms,
         ms = [i \in DOMAIN q |-> Message(q[i], TRUE)]
  PROVE  /\ ms \in Seq(Ask) /\ (ms = << >> <=> q = << >>)
         /\ ms # << >> => Last(ms).kind # "release"
<1>1. DOMAIN q = 1..Len(q) /\ Len(q) \in Nat /\ \A i \in 1..Len(q) : q[i] \in {"acquire", "renew"}
  OBVIOUS
<1>2. \A i \in 1..Len(q) : ms[i] \in Ask /\ ms[i].kind # "release"
  BY <1>1 DEF Ask, Message
<1>3. ms \in Seq(Ask) /\ Len(ms) = Len(q)
  BY <1>1, <1>2 DEF Message
<1>4. (ms = << >> <=> Len(ms) = 0) /\ (q = << >> <=> Len(q) = 0)
  BY <1>3, EmptyLen
<1>5. ASSUME ms # << >> PROVE Last(ms).kind # "release"
  <2>1. Len(q) # 0
    BY <1>3, <1>4, <1>5
  <2>2. Len(ms) \in 1..Len(q)
    BY <1>1, <1>3, <2>1
  <2> QED
    BY <1>2, <2>2 DEF Last
<1> QED
  BY <1>3, <1>4, <1>5

\* The requests that waited for the link go out: they are under way as they were

\* deferred, and none of them is a release.
LEMMA LeaseReconnects ==
  ASSUME LInv, NEW n \in Nodes, LinkComesUp(n) PROVE LInv'
<1> USE DEF relayVars, leaseHistory
<1> DEFINE d == deferred[n]
           ms == [i \in DOMAIN d |-> Message(d[i], TRUE)]
<1>0. /\ up \in [Nodes -> BOOLEAN] /\ toRelay \in [Nodes -> Seq(Ask)]
      /\ deferred \in [Nodes -> Seq({"acquire", "renew"})]
      /\ toRelay[n] = << >>
  BY DEF LInv, LeaseTypeOK, Ask, LeaseTie, LinkComesUp
<1>1. /\ UNCHANGED <<leasePc, local, beat, toNode, memory, holder, left, read, late, answered, raced, withdrawn, leaseFaults>>
      /\ up' = [up EXCEPT ![n] = TRUE] /\ deferred' = [deferred EXCEPT ![n] = << >>]
      /\ toRelay' = [toRelay EXCEPT ![n] = @ \o ms]
  BY DEF LinkComesUp
<1>2. /\ ms \in Seq(Ask) /\ (ms = << >> <=> d = << >>)
      /\ ms # << >> => Last(ms).kind # "release"
  BY <1>0, DeferredSent
<1> HIDE DEF ms
<1>3. << >> \o ms = ms /\ << >> \in Seq({"acquire", "renew"})
  BY <1>2
<1>4. /\ up' \in [Nodes -> BOOLEAN] /\ up'[n] /\ toRelay' \in [Nodes -> Seq(Ask)]
      /\ deferred' \in [Nodes -> Seq({"acquire", "renew"})]
      /\ toRelay'[n] = ms /\ deferred'[n] = << >>
      /\ \A k \in Nodes \ {n} : /\ up'[k] = up[k] /\ toRelay'[k] = toRelay[k]
                                /\ deferred'[k] = deferred[k]
  BY <1>0, <1>1, <1>2, <1>3
<1>5. LeaseTypeOK'
  BY <1>1, <1>4 DEF LInv, LeaseTypeOK, Ask
<1>6. LeaseTie(n)'
  BY <1>0, <1>1, <1>2, <1>4 DEF LInv, LeaseTie, Wants, Held, GrantComing
<1>7. ASSUME NEW k \in Nodes \ {n} PROVE LeaseTie(k)'
  BY <1>1, <1>4, LeaseKept DEF LInv, Held
<1>late. LateTie'
  BY <1>1 DEF LInv, LateTie
<1> QED
  BY <1>late, <1>5, <1>6, <1>7 DEF LInv

\* A tick takes as much from the relay's lease as from the node's.
LEMMA LeaseTicks ==
  ASSUME LInv, Tick PROVE LInv'
<1> USE DEF linkVars, leaseHistory
<1> DEFINE Down(x) == IF x > 0 THEN x - 1 ELSE 0
<1>0. local \in [Nodes -> 0..Ttl] /\ beat \in [Nodes -> 0..Beat] /\ left \in 0..Ttl
      /\ Ttl \in Nat /\ Beat \in Nat
  BY LeaseAssumption DEF LInv, LeaseTypeOK
<1>1. /\ UNCHANGED <<leasePc, deferred, up, toRelay, toNode, memory, holder, read, late, answered, raced, withdrawn, leaseFaults>>
      /\ local' = [n \in Nodes |-> Down(local[n])] /\ beat' = [n \in Nodes |-> Down(beat[n])]
      /\ left' = Down(left)
  BY DEF Tick
<1>2. local' \in [Nodes -> 0..Ttl] /\ beat' \in [Nodes -> 0..Beat] /\ left' \in 0..Ttl
  BY <1>0, <1>1
<1>3. LeaseTypeOK'
  BY <1>1, <1>2 DEF LInv, LeaseTypeOK
<1>4. ASSUME NEW n \in Nodes PROVE LeaseTie(n)'
  <2>1. local'[n] > 0 => local[n] > 0 /\ (left >= local[n] => left' >= local'[n])
    BY <1>0, <1>1
  <2> QED
    BY <1>1, <2>1 DEF LInv, LeaseTie, Wants, Held, GrantComing
<1>late. LateTie'
  BY <1>1 DEF LInv, LateTie
<1> QED
  BY <1>late, <1>3, <1>4 DEF LInv

\* Every step keeps the invariant.
LEMMA LeaseSteps == LInv /\ [LeaseNext]_leaseVars => LInv'
<1> SUFFICES ASSUME LInv, [LeaseNext]_leaseVars PROVE LInv'
  OBVIOUS
<1>1. CASE UNCHANGED leaseVars
  <2>1. UNCHANGED <<leasePc, local, beat, deferred, up, toRelay, toNode, memory, holder, left, read,
                    late, answered, raced, withdrawn, leaseFaults>>
    BY <1>1 DEF leaseVars, nodeVars, linkVars, relayVars, leaseHistory
  <2>2. LeaseTypeOK' /\ LateTie'
    BY <2>1 DEF LInv, LeaseTypeOK, LateTie
  <2>3. ASSUME NEW n \in Nodes PROVE LeaseTie(n)'
    BY <2>1, LeaseKept DEF LInv, Held
  <2> QED
    BY <2>2, <2>3 DEF LInv
<1>2. ASSUME NEW n \in Nodes,
             \/ Schedule(n) \/ RequestTimesOut(n) \/ Heartbeat(n) \/ StopLeaseHeartbeat(n)
             \/ RelayHandles(n) \/ RelayReads(n) \/ RelayWrites(n) \/ NodeReceives(n)
             \/ LinkDrops(n) \/ LinkComesUp(n) \/ NodeCrashes(n)
      PROVE  LInv'
  BY <1>2, LeaseAsks, LeaseTimesOut, LeaseStops, LeaseRelay, LeaseReceives, LeaseDrops, LeaseReconnects
<1>3. CASE RelayRestarts \/ Tick
  BY <1>3, LeaseRestarts, LeaseTicks
<1>4. ASSUME NEW k \in 1..MaxLeaseFaults, LateHandles(k) \/ LateReads(k) \/ LateWrites(k)
      PROVE  LInv'
  BY <1>4, LeaseLate
<1> QED
  BY <1>1, <1>2, <1>3, <1>4 DEF LeaseNext

\* The inductive invariant of the leases holds in every reachable state.
THEOREM LeaseInvariant == LeaseSpec => []LInv
  BY LeaseStarts, LeaseSteps, PTL DEF LeaseSpec

\* The types of the leases are kept.
THEOREM LeaseTypes == LeaseSpec => []LeaseTypeOK
<1>1. LInv => LeaseTypeOK
  BY DEF LInv
<1> QED
  BY <1>1, LeaseInvariant, PTL

\* A node that has heard the answer to its latest request and still drives holds
\* the relay's lease, at least as long as its own, unless a Postgres write was
\* based on a row that had changed or a late release of its own, left in the chain
\* of a closed socket, has undone the grant: for any number of nodes, any TTL and
\* any number of drops, crashes, restarts and timeouts.
THEOREM AnsweredHolds == LeaseSpec => []AnsweredMeansHeld
<1>1. LInv => AnsweredMeansHeld
  BY DEF LInv, LeaseTie, Wants, Held, AnsweredMeansHeld, Driving
<1> QED
  BY <1>1, LeaseInvariant, PTL

\* So two nodes that both drive the session have not both heard the answer to
\* their latest request: the relay's lease excludes all but one of the nodes it
\* has answered, except one whose grant a late release of its own has undone.
THEOREM AnsweredDriversExclude ==
  LeaseSpec => [](\A m, n \in Nodes \ withdrawn :
                    ~raced /\ answered[m] /\ Driving(m) /\ answered[n] /\ Driving(n) => m = n)
<1>1. AnsweredMeansHeld =>
        \A m, n \in Nodes \ withdrawn :
          ~raced /\ answered[m] /\ Driving(m) /\ answered[n] /\ Driving(n) => m = n
  BY DEF AnsweredMeansHeld
<1> QED
  BY <1>1, AnsweredHolds, PTL

\* A lease that was lost is never regained in passing, whatever the node hears or
\* whenever its timer fires: renew extends only a lease that is still live.
THEOREM LostLeaseStaysLost == LeaseSpec => LostStaysLost
<1>1. ASSUME LeaseTypeOK, [LeaseNext]_leaseVars
      PROVE  [\A n \in Nodes : leasePc[n] = "running" /\ local[n] = 0 /\ leasePc'[n] = "running"
                                 => local'[n] = 0]_leaseVars
  <2> SUFFICES ASSUME LeaseNext, NEW n \in Nodes, leasePc[n] = "running", local[n] = 0,
                      leasePc'[n] = "running"
               PROVE  local'[n] = 0
    BY <1>1
  <2> USE DEF nodeVars, linkVars, relayVars, leaseHistory
  <2>0. local \in [Nodes -> 0..Ttl] /\ leasePc \in [Nodes -> {"idle", "acquiring", "running"}]
    BY <1>1 DEF LeaseTypeOK
  <2>1. ASSUME NEW k \in Nodes, Schedule(k) PROVE local'[n] = 0
    BY <2>0, <2>1 DEF Schedule
  <2>2. ASSUME NEW k \in Nodes, Heartbeat(k) PROVE local'[n] = 0
    BY <2>0, <2>2 DEF Heartbeat, Renewed
  <2>3. ASSUME NEW k \in Nodes, StopLeaseHeartbeat(k) \/ NodeCrashes(k) PROVE local'[n] = 0
    BY <2>0, <2>3 DEF StopLeaseHeartbeat, NodeCrashes
  <2>4. ASSUME NEW k \in Nodes, RequestTimesOut(k) \/ RelayHandles(k) \/ RelayReads(k)
                                  \/ RelayWrites(k) \/ LinkDrops(k) \/ LinkComesUp(k)
        PROVE  local'[n] = 0
    BY <2>4 DEF RequestTimesOut, RelayHandles, RelayReads, RelayWrites, LinkDrops, LinkComesUp
  <2>5. ASSUME NEW k \in Nodes, NodeReceives(k) PROVE local'[n] = 0
    <3>1. local' \in {local, [local EXCEPT ![k] = 0]}
      BY <2>5 DEF NodeReceives, Heard
    <3> QED
      BY <2>0, <3>1
  <2>6. CASE RelayRestarts
    BY <2>6 DEF RelayRestarts
  <2>7. CASE Tick
    BY <2>0, <2>7 DEF Tick
  <2>8. ASSUME NEW k \in 1..MaxLeaseFaults, LateHandles(k) \/ LateReads(k) \/ LateWrites(k)
        PROVE  local'[n] = 0
    BY <2>8 DEF LateHandles, LateReads, LateWrites
  <2> QED
    BY <2>1, <2>2, <2>3, <2>4, <2>5, <2>6, <2>7, <2>8 DEF LeaseNext
<1> QED
  BY <1>1, LeaseTypes, PTL DEF LeaseSpec, LostStaysLost

-----------------------------------------------------------------------------
(* The composer's queue of prompts.                                        *)

\* How many elements of S are not above n.
Rank(S, n) == Cardinality({m \in S : m <= n})

\* Ranks number a finite set of naturals from 1 on, without gaps or repetitions.
LEMMA RankIsBijective ==
  ASSUME NEW b \in Nat, NEW S \in SUBSET (1..b)
  PROVE  /\ Cardinality(S) \in Nat
         /\ \A n \in S : Rank(S, n) \in 1..Cardinality(S)
         /\ \A n, k \in S : Rank(S, n) = Rank(S, k) => n = k
         /\ \A i \in 1..Cardinality(S) : \E n \in S : Rank(S, n) = i
<1> DEFINE Below(n) == {m \in S : m <= n}
<1>1. IsFiniteSet(S) /\ Cardinality(S) \in Nat
  <2>1. IsFiniteSet(1..b)
    BY FS_Interval
  <2> QED
    BY <2>1, FS_Subset, FS_CardinalityType
<1>2. ASSUME NEW n \in S
      PROVE  /\ IsFiniteSet(Below(n)) /\ Cardinality(Below(n)) \in Nat
             /\ Cardinality(Below(n)) <= Cardinality(S)
             /\ Cardinality(Below(n)) # 0
  <2>1. Below(n) \in SUBSET S /\ n \in Below(n)
    OBVIOUS
  <2> QED
    BY <2>1, <1>1, FS_Subset, FS_CardinalityType, FS_EmptySet
<1>3. \A n \in S : Rank(S, n) \in 1..Cardinality(S)
  BY <1>1, <1>2 DEF Rank
<1>4. ASSUME NEW n \in S, NEW k \in S, n < k PROVE Rank(S, n) # Rank(S, k)
  <2>a. S \subseteq Nat
    OBVIOUS
  <2>b. ASSUME NEW m \in S, m <= n PROVE m <= k
    <3>1. m \in Nat /\ n \in Nat /\ k \in Nat
      BY <2>a
    <3> QED
      BY <3>1, <2>b, <1>4
  <2>c. k <= k /\ ~(k <= n)
    <3>1. n \in Nat /\ k \in Nat
      BY <2>a
    <3> QED
      BY <3>1, <1>4
  <2>1. Below(n) \in SUBSET Below(k) /\ k \in Below(k) /\ k \notin Below(n)
    BY <2>b, <2>c
  <2>2. Below(k) # Below(n)
    BY <2>1
  <2>3. IsFiniteSet(Below(k))
    BY <1>2
  <2> HIDE DEF Below
  <2>4. Cardinality(Below(k)) # Cardinality(Below(n))
    BY <2>1, <2>2, <2>3, FS_Subset
  <2> QED
    BY <2>4 DEF Rank, Below
<1>5. \A n, k \in S : Rank(S, n) = Rank(S, k) => n = k
  <2> SUFFICES ASSUME NEW n \in S, NEW k \in S, n # k PROVE Rank(S, n) # Rank(S, k)
    OBVIOUS
  <2>1. n < k \/ k < n
    OBVIOUS
  <2> QED
    BY <2>1, <1>4
<1>6. \A i \in 1..Cardinality(S) : \E n \in S : Rank(S, n) = i
  <2> DEFINE T == 1..Cardinality(S)
             f == [n \in S |-> Rank(S, n)]
  <2>1. f \in Injection(S, T)
    BY <1>3, <1>5 DEF Injection, IsInjective
  <2>2. IsFiniteSet(T) /\ Cardinality(T) = Cardinality(S)
    BY <1>1, FS_Interval
  <2> HIDE DEF T
  <2>3. f \in Surjection(S, T)
    <3> HIDE DEF f
    <3> QED
      BY <2>1, <2>2, FS_Injection
  <2> QED
    BY <2>3 DEF Surjection, T
<1> QED
  BY <1>1, <1>3, <1>5, <1>6

\* Ranks are ordered like the elements.
LEMMA RankAscends ==
  ASSUME NEW b \in Nat, NEW S \in SUBSET (1..b), NEW m \in S, NEW n \in S, Rank(S, m) < Rank(S, n)
  PROVE  m < n
<1> SUFFICES ASSUME n <= m PROVE FALSE
  OBVIOUS
<1> DEFINE Below(x) == {y \in S : y <= x}
<1>1. S \subseteq Nat
  OBVIOUS
<1>2. Below(n) \in SUBSET Below(m)
  <2>1. ASSUME NEW y \in S, y <= n PROVE y <= m
    <3>1. y \in Nat /\ n \in Nat /\ m \in Nat
      BY <1>1
    <3> QED
      BY <2>1, <3>1
  <2> QED
    BY <2>1
<1>3. IsFiniteSet(Below(m))
  <2>1. IsFiniteSet(1..b)
    BY FS_Interval
  <2>2. Below(m) \in SUBSET (1..b)
    OBVIOUS
  <2> QED
    BY <2>1, <2>2, FS_Subset
<1> HIDE DEF Below
<1>4. Cardinality(Below(n)) <= Cardinality(Below(m))
  BY <1>2, <1>3, FS_Subset
<1>5. Rank(S, m) \in Nat /\ Rank(S, n) \in Nat
  <2>1. Cardinality(S) \in Nat /\ \A x \in S : Rank(S, x) \in 1..Cardinality(S)
    BY RankIsBijective
  <2> QED
    BY <2>1
<1> QED
  BY <1>4, <1>5 DEF Rank, Below

\* What a sequence holds.
Items(q) == {q[i] : i \in DOMAIN q}

Ascending(q) == \A i, j \in DOMAIN q : i < j => q[i] < q[j]

\* The operators of SequencesExt, in these terms.
LEMMA SameItems == ASSUME NEW q PROVE ToSet(q) = Items(q)
  BY DEF ToSet, Items

LEMMA ContainsIs == ASSUME NEW S, NEW q \in Seq(S), NEW p PROVE Contains(q, p) <=> p \in Items(q)
  BY DEF Contains, Items

\* InOrder has the elements of the set, in ascending order.
LEMMA InOrderIs ==
  ASSUME NEW b \in Nat, NEW S \in SUBSET (1..b)
  PROVE  /\ InOrder(S) \in Seq(S) /\ Len(InOrder(S)) = Cardinality(S)
         /\ Items(InOrder(S)) = S
         /\ Ascending(InOrder(S))
<1> DEFINE Nth(n) == CHOOSE x \in S : Rank(S, x) = n
           C == Cardinality(S)
           q == InOrder(S)
<1>1. C \in Nat /\ \A i \in 1..C : Nth(i) \in S /\ Rank(S, Nth(i)) = i
  BY RankIsBijective
<1>2. ASSUME NEW x \in S PROVE Rank(S, x) \in 1..C /\ Nth(Rank(S, x)) = x
  <2>1. Rank(S, x) \in 1..C
    BY RankIsBijective
  <2>2. Nth(Rank(S, x)) \in S /\ Rank(S, Nth(Rank(S, x))) = Rank(S, x)
    BY <1>1, <2>1
  <2> QED
    BY <2>1, <2>2, RankIsBijective
<1>3. q = [n \in 1..C |-> Nth(n)]
  BY DEF InOrder, Rank
<1> HIDE DEF Nth, C, q
<1>4. q \in Seq(S) /\ Len(q) = C /\ DOMAIN q = 1..C /\ \A i \in 1..C : q[i] = Nth(i)
  BY <1>1, <1>3
<1>5. Items(q) = S
  <2>1. ASSUME NEW x \in S PROVE \E i \in DOMAIN q : q[i] = x
    BY <1>2, <1>4
  <2>2. \A i \in DOMAIN q : q[i] \in S
    BY <1>4
  <2> QED
    BY <2>1, <2>2 DEF Items

<1>6. ASSUME NEW i \in 1..C, NEW j \in 1..C, i < j PROVE q[i] < q[j]
  <2>1. Nth(i) \in S /\ Nth(j) \in S /\ Rank(S, Nth(i)) < Rank(S, Nth(j))
    BY <1>1, <1>6
  <2>2. Nth(i) < Nth(j)
    BY <2>1, RankAscends
  <2> QED
    BY <1>4, <2>2
<1> QED
  BY <1>4, <1>5, <1>6 DEF Ascending, q, C

\* Without takes all occurrences of a prompt from a queue, and keeps the order.
LEMMA WithoutIs ==
  ASSUME NEW S, NEW q \in Seq(S), NEW p
  PROVE  /\ Without(q, p) \in Seq(S)
         /\ Items(Without(q, p)) = Items(q) \ {p}
         /\ Ascending(q) => Ascending(Without(q, p))
<1> DEFINE K == {i \in DOMAIN q : q[i] # p}
           kept == InOrder(K)
           r == [n \in DOMAIN kept |-> q[kept[n]]]
<1>1. Len(q) \in Nat /\ DOMAIN q = 1..Len(q) /\ K \in SUBSET (1..Len(q))
  OBVIOUS
<1>2. Without(q, p) = r
  BY DEF Without
<1>3. kept \in Seq(K) /\ Items(kept) = K /\ Ascending(kept)
  <2> HIDE DEF K
  <2> QED
    BY <1>1, InOrderIs
<1> HIDE DEF kept
<1>4. DOMAIN kept = 1..Len(kept) /\ Len(kept) \in Nat /\ \A n \in 1..Len(kept) : kept[n] \in K
  <2> HIDE DEF K
  <2> QED
    BY <1>3

<1>5. /\ DOMAIN r = 1..Len(kept)
      /\ \A n \in 1..Len(kept) : r[n] = q[kept[n]] /\ kept[n] \in DOMAIN q /\ r[n] # p /\ r[n] \in S
  BY <1>1, <1>4
<1>6. r \in Seq(S)
  BY <1>4, <1>5
<1>7. Items(r) = Items(q) \ {p}
  <2>1. ASSUME NEW i \in DOMAIN q, q[i] # p PROVE q[i] \in Items(r)
    <3>1. PICK n \in DOMAIN kept : kept[n] = i
      BY <1>3, <2>1 DEF Items
    <3> QED
      BY <1>4, <1>5, <3>1 DEF Items
  <2> HIDE DEF r
  <2> QED
    BY <1>4, <1>5, <2>1 DEF Items
<1>8. ASSUME Ascending(q), NEW i \in 1..Len(kept), NEW j \in 1..Len(kept), i < j PROVE r[i] < r[j]
  <2>1. kept[i] < kept[j] /\ kept[i] \in DOMAIN q /\ kept[j] \in DOMAIN q
    BY <1>3, <1>4, <1>5, <1>8 DEF Ascending
  <2> QED
    BY <1>5, <1>8, <2>1 DEF Ascending
<1> HIDE DEF r
<1> QED
  BY <1>2, <1>5, <1>6, <1>7, <1>8 DEF Ascending
-----------------------------------------------------------------------------
(* What a series of puts and deletes leaves in the database.               *)

Call == [op : {"put", "delete"}, prompt : Prompts]

\* No call leaves it as it is.
LEMMA AfterNone ==
  ASSUME NEW s PROVE AfterAll(s, << >>) = s
  BY DEF AfterAll

\* A prompt is there at the end if it was there or has been put, and has not been
\* deleted afterwards.
LEMMA AfterAllIs ==
  ASSUME NEW s, NEW o, NEW p
  PROVE  p \in AfterAll(s, o) <=>
           \/ p \in s /\ \A i \in DOMAIN o : i > 0 => o[i] # Delete(p)
           \/ p \in Prompts /\ \E k \in DOMAIN o :
                o[k] = Put(p) /\ \A i \in DOMAIN o : i > k => o[i] # Delete(p)
  BY DEF AfterAll

\* The calls are put or delete.
LEMMA CallIs ==
  ASSUME NEW c \in Call
  PROVE  /\ c.prompt \in Prompts
         /\ c.op = "put" => c = Put(c.prompt)
         /\ c.op # "put" => c.op = "delete" /\ c = Delete(c.prompt)
         /\ \A p : c = Put(p) => c.op = "put" /\ c.prompt = p
         /\ \A p : c = Delete(p) => c.op = "delete" /\ c.prompt = p
  BY DEF Call, Put, Delete

\* The database after one call.
LEMMA AfterIs ==
  ASSUME NEW s, NEW c \in Call, NEW p
  PROVE  p \in After(s, c) <=> (c = Put(p) \/ (c # Delete(p) /\ p \in s))
  BY CallIs DEF After, Put, Delete, Call

\* One more call comes last.
LEMMA AfterMore ==
  ASSUME NEW s \in SUBSET Prompts, NEW o \in Seq(Call), NEW c \in Call
  PROVE  AfterAll(s, Append(o, c)) = After(AfterAll(s, o), c)
<1> DEFINE n == Len(o) + 1
           a == Append(o, c)
<1>1. /\ Len(o) \in Nat /\ DOMAIN o = 1..Len(o) /\ DOMAIN a = 1..n /\ a[n] = c
      /\ \A i \in 1..Len(o) : a[i] = o[i]
  OBVIOUS
<1> HIDE DEF a
<1>2. \A p : c = Put(p) => c # Delete(p)
  BY CallIs
<1> SUFFICES ASSUME NEW p PROVE p \in AfterAll(s, a) <=> p \in After(AfterAll(s, o), c)
  BY DEF a
<1>3. p \in After(AfterAll(s, o), c) <=>
        \/ c = Put(p)
        \/ c # Delete(p) /\ p \in AfterAll(s, o)
  BY AfterIs
<1>4. CASE c = Put(p)
  <2>1. p \in Prompts
    BY <1>4, CallIs
  <2>2. n \in DOMAIN a /\ a[n] = Put(p) /\ \A i \in DOMAIN a : ~(i > n)
    BY <1>1, <1>4
  <2>3. p \in AfterAll(s, a)
    BY <2>1, <2>2, AfterAllIs
  <2> QED
    BY <1>3, <1>4, <2>3
<1>5. CASE c = Delete(p)
  <2>1. ASSUME NEW k \in DOMAIN a, a[k] = Put(p) PROVE n > k
    BY <1>1, <1>2, <1>5, <2>1
  <2>2. n \in DOMAIN a /\ a[n] = Delete(p) /\ n > 0
    BY <1>1, <1>5
  <2>3. p \notin AfterAll(s, a)
    BY <2>1, <2>2, AfterAllIs
  <2> QED
    BY <1>2, <1>3, <1>5, <2>3
<1>6. CASE c # Put(p) /\ c # Delete(p)
  <2>1. \A k : (\A i \in DOMAIN a : i > k => a[i] # Delete(p))
                 <=> (\A i \in DOMAIN o : i > k => o[i] # Delete(p))
    BY <1>1, <1>6
  <2>2. \A k : (k \in DOMAIN a /\ a[k] = Put(p)) <=> (k \in DOMAIN o /\ o[k] = Put(p))
    BY <1>1, <1>6
  <2>3. p \in AfterAll(s, a) <=> p \in AfterAll(s, o)
    BY <2>1, <2>2, AfterAllIs
  <2> QED
    BY <1>3, <1>6, <2>3
<1> QED
  BY <1>4, <1>5, <1>6

\* The oldest call comes first.
LEMMA AfterFirst ==
  ASSUME NEW s \in SUBSET Prompts, NEW o \in Seq(Call), o # << >>
  PROVE  /\ AfterAll(After(s, Head(o)), Tail(o)) = AfterAll(s, o)
         /\ Head(o).op = "put" => AfterAll(s, Tail(o)) \subseteq AfterAll(s, o)
<1> DEFINE r == Tail(o)
           c == Head(o)
           z == After(s, c)
<1>1. /\ Len(o) \in Nat /\ Len(o) > 0 /\ DOMAIN o = 1..Len(o) /\ c \in Call /\ o[1] = c
      /\ DOMAIN r = 1..(Len(o) - 1) /\ \A i \in 1..(Len(o) - 1) : r[i] = o[i + 1]
  OBVIOUS
<1> HIDE DEF r, c, z
<1>2. \A p : p \in z <=> (c = Put(p) \/ (c # Delete(p) /\ p \in s))
  BY <1>1, AfterIs DEF z
<1>3. \A p : c = Put(p) => c # Delete(p) /\ p \in Prompts
  BY <1>1, CallIs
<1>4. ASSUME NEW p, NEW k \in 0..(Len(o) - 1)
      PROVE  (\A i \in DOMAIN r : i > k => r[i] # Delete(p))
               <=> (\A i \in DOMAIN o : i > k + 1 => o[i] # Delete(p))
  <2>1. ASSUME NEW i \in DOMAIN o, i > k + 1 PROVE i - 1 \in DOMAIN r /\ i - 1 > k /\ r[i - 1] = o[i]
    BY <1>1, <2>1
  <2>2. ASSUME NEW i \in DOMAIN r, i > k PROVE i + 1 \in DOMAIN o /\ i + 1 > k + 1 /\ r[i] = o[i + 1]
    BY <1>1, <2>2
  <2> QED
    BY <2>1, <2>2
<1>5. ASSUME NEW p
      PROVE  (\A i \in DOMAIN o : i > 0 => o[i] # Delete(p))
               <=> c # Delete(p) /\ (\A i \in DOMAIN r : i > 0 => r[i] # Delete(p))
  <2>1. (\A i \in DOMAIN r : i > 0 => r[i] # Delete(p))
          <=> (\A i \in DOMAIN o : i > 1 => o[i] # Delete(p))
    <3>1. 0 \in 0..(Len(o) - 1) /\ 0 + 1 = 1
      BY <1>1
    <3> QED
      BY <1>4, <3>1
  <2>2. \A i \in DOMAIN o : i = 1 \/ i > 1
    BY <1>1
  <2> QED
    BY <1>1, <2>1, <2>2
<1> DEFINE Later(p) == \E k \in DOMAIN o : k > 1 /\ o[k] = Put(p) /\ \A i \in DOMAIN o : i > k => o[i] # Delete(p)
           First(p) == c = Put(p) /\ \A i \in DOMAIN r : i > 0 => r[i] # Delete(p)
<1>6. ASSUME NEW p
      PROVE  (\E k \in DOMAIN r : r[k] = Put(p) /\ \A i \in DOMAIN r : i > k => r[i] # Delete(p)) <=> Later(p)
  <2>1. ASSUME NEW k \in DOMAIN r, r[k] = Put(p), \A i \in DOMAIN r : i > k => r[i] # Delete(p)
        PROVE  Later(p)
    <3>1. k + 1 \in DOMAIN o /\ k + 1 > 1 /\ o[k + 1] = Put(p) /\ k \in 0..(Len(o) - 1)
      BY <1>1, <2>1
    <3>2. \A i \in DOMAIN o : i > k + 1 => o[i] # Delete(p)
      BY <1>4, <2>1, <3>1
    <3> QED
      BY <3>1, <3>2
  <2>2. ASSUME NEW k \in DOMAIN o, k > 1, o[k] = Put(p), \A i \in DOMAIN o : i > k => o[i] # Delete(p)
        PROVE  \E j \in DOMAIN r : r[j] = Put(p) /\ \A i \in DOMAIN r : i > j => r[i] # Delete(p)
    <3>1. k - 1 \in DOMAIN r /\ r[k - 1] = Put(p) /\ k - 1 \in 0..(Len(o) - 1) /\ (k - 1) + 1 = k
      BY <1>1, <2>2
    <3>2. \A i \in DOMAIN r : i > k - 1 => r[i] # Delete(p)
      BY <1>4, <2>2, <3>1
    <3> QED
      BY <3>1, <3>2
  <2> QED
    BY <2>1, <2>2
<1>7. ASSUME NEW p
      PROVE  (\E k \in DOMAIN o : o[k] = Put(p) /\ \A i \in DOMAIN o : i > k => o[i] # Delete(p))
               <=> First(p) \/ Later(p)
  <2>1. (\A i \in DOMAIN r : i > 0 => r[i] # Delete(p))
          <=> (\A i \in DOMAIN o : i > 1 => o[i] # Delete(p))
    <3>1. 0 \in 0..(Len(o) - 1) /\ 0 + 1 = 1
      BY <1>1
    <3> QED
      BY <1>4, <3>1
  <2>2. 1 \in DOMAIN o /\ \A i \in DOMAIN o : i = 1 \/ i > 1
    BY <1>1
  <2> QED
    BY <1>1, <2>1, <2>2
<1> HIDE DEF Later, First
<1>8. ASSUME NEW p
      PROVE  /\ p \in AfterAll(z, r) <=>
                  \/ p \in z /\ \A i \in DOMAIN r : i > 0 => r[i] # Delete(p)
                  \/ p \in Prompts /\ Later(p)
             /\ p \in AfterAll(s, r) <=>
                  \/ p \in s /\ \A i \in DOMAIN r : i > 0 => r[i] # Delete(p)
                  \/ p \in Prompts /\ Later(p)
             /\ p \in AfterAll(s, o) <=>
                  \/ p \in s /\ c # Delete(p) /\ \A i \in DOMAIN r : i > 0 => r[i] # Delete(p)
                  \/ p \in Prompts /\ (First(p) \/ Later(p))
  BY <1>5, <1>6, <1>7, AfterAllIs
<1>9. ASSUME NEW p PROVE p \in AfterAll(z, r) <=> p \in AfterAll(s, o)
  <2> DEFINE Stays == \A i \in DOMAIN r : i > 0 => r[i] # Delete(p)
  <2>1. p \in AfterAll(z, r) <=> (p \in z /\ Stays) \/ (p \in Prompts /\ Later(p))
    BY <1>8
  <2>2. p \in AfterAll(s, o) <=>
          (p \in s /\ c # Delete(p) /\ Stays) \/ (p \in Prompts /\ (First(p) \/ Later(p)))

    BY <1>8
  <2>3. First(p) <=> c = Put(p) /\ Stays
    BY DEF First
  <2> HIDE DEF Stays
  <2> QED
    BY <1>2, <1>3, <2>1, <2>2, <2>3

<1>10. ASSUME c.op = "put", NEW p \in AfterAll(s, r) PROVE p \in AfterAll(s, o)
  <2>1. c # Delete(p)
    BY <1>1, <1>10, CallIs
  <2> QED
    BY <1>8, <1>10, <2>1
<1> QED
  BY <1>9, <1>10 DEF z, r, c

\* Calls that are cut off take nothing from the database, if they are puts.
LEMMA AfterPrefix ==
  ASSUME NEW s \in SUBSET Prompts, NEW o \in Seq(Call), NEW n \in 0..Len(o),
         \A k \in n + 1..Len(o) : o[k].op = "put"
  PROVE  AfterAll(s, SubSeq(o, 1, n)) \subseteq AfterAll(s, o)
<1> DEFINE r == SubSeq(o, 1, n)
<1>1. /\ Len(o) \in Nat /\ DOMAIN o = 1..Len(o) /\ DOMAIN r = 1..n
      /\ \A i \in 1..n : r[i] = o[i] /\ i \in DOMAIN o
  OBVIOUS
<1> HIDE DEF r
<1> SUFFICES ASSUME NEW p \in AfterAll(s, r) PROVE p \in AfterAll(s, o)
  BY DEF r
<1>2. \A k \in n + 1..Len(o) : o[k] # Delete(p)
  BY CallIs
<1>3. \A k : (\A i \in DOMAIN r : i > k => r[i] # Delete(p))
               => (\A i \in DOMAIN o : i > k => o[i] # Delete(p))
  BY <1>1, <1>2
<1>4. \A k \in DOMAIN r : k \in DOMAIN o /\ r[k] = o[k]
  BY <1>1
<1> QED
  BY <1>3, <1>4, AfterAllIs

\* A prompt that no call deletes is there at the end, if it was there or one puts it.
LEMMA AfterKeeps ==
  ASSUME NEW s, NEW o, NEW p \in Prompts, Delete(p) \notin Items(o),
         p \in s \/ Put(p) \in Items(o)
  PROVE  p \in AfterAll(s, o)
  BY AfterAllIs DEF Items
-----------------------------------------------------------------------------
(* The steps of a page, without its socket and its timers.                 *)

\* The variables that the invariants speak of.
Others == <<hydration, listed, store, composed, waited, sent, missed>>

\* dispatchPrompt(p), with the queue at q.
Sends(t, p, q) ==
  /\ queue' = [queue EXCEPT ![t] = Without(q, p)]
  /\ ops' = IF p \in Items(q) THEN [ops EXCEPT ![t] = Append(ops[t], Delete(p))] ELSE ops
  /\ sealing' = [sealing EXCEPT ![t] = sealing[t] \cup {p}]
  /\ dispatched' = Append(dispatched, p)
  /\ early' = (early \/ BeforeOutbox(t, q))

\* Nothing of it changes.
Rests == UNCHANGED <<queue, ops, sealing, dispatched, early>> /\ UNCHANGED Others

\* The oldest prompt is dispatched.
Flushes(t) ==
  /\ queue[t] # << >>
  /\ Sends(t, Head(queue[t]), queue[t])
  /\ UNCHANGED Others

\* A new prompt is queued.
Enqueues(t) ==
  /\ composed + 1 \in Prompts /\ composed' = composed + 1
  /\ queue' = [queue EXCEPT ![t] = Append(queue[t], composed + 1)]
  /\ ops' = [ops EXCEPT ![t] = Append(ops[t], Put(composed + 1))]
  /\ waited' = waited \cup {composed + 1}
  /\ UNCHANGED <<sealing, dispatched, early, hydration, listed, store, sent, missed>>

\* A new prompt is dispatched past an empty queue.
SendsNew(t) ==
  /\ composed + 1 \in Prompts /\ composed' = composed + 1
  /\ queue[t] = << >> /\ Sends(t, composed + 1, << >>)
  /\ UNCHANGED <<hydration, listed, store, waited, sent, missed>>

\* The prompts of the outbox join the queue, and the oldest may be dispatched.
Merges(t) ==
  /\ hydration[t] = "merge"
  /\ hydration' = [hydration EXCEPT ![t] = "done"] /\ listed' = [listed EXCEPT ![t] = {}]
  /\ \/ listed[t] = {} /\ UNCHANGED <<queue, ops, sealing, dispatched, early>>
     \/ /\ queue' = [queue EXCEPT ![t] = Merged(t)]
        /\ UNCHANGED <<ops, sealing, dispatched, early>>
     \/ Merged(t) # << >> /\ Sends(t, Head(Merged(t)), Merged(t))
  /\ UNCHANGED <<store, composed, waited, sent, missed>>

\* The types the steps keep.
PageTypes ==
  /\ queue \in [Pages -> Seq(Prompts)]
  /\ timer \in [Pages -> BOOLEAN]
  /\ pending \in [Pages -> Prompts \cup {None}]
  /\ sealing \in [Pages -> SUBSET Prompts]
  /\ ops \in [Pages -> Seq(Call)]
  /\ dispatched \in Seq(Prompts)
  /\ early \in BOOLEAN

\* A dispatch is what Sends says, and keeps the types.
LEMMA DispatchIs ==
  ASSUME PageTypes, NEW t \in Pages, NEW p \in Prompts, NEW q \in Seq(Prompts),
         DispatchPrompt(t, p, q)
  PROVE  Sends(t, p, q) /\ PageTypes' /\ pending'[t] = p
<1>1. Sends(t, p, q)
  BY ContainsIs DEF DispatchPrompt, Set, Sends
<1>2. /\ timer' = [timer EXCEPT ![t] = TRUE] /\ pending' = [pending EXCEPT ![t] = p]
      /\ sealing' = [sealing EXCEPT ![t] = sealing[t] \cup {p}]
      /\ dispatched' = Append(dispatched, p)
  BY DEF DispatchPrompt, Set
<1>3. Without(q, p) \in Seq(Prompts)
  BY WithoutIs
<1>4. queue' \in [Pages -> Seq(Prompts)]
  BY <1>1, <1>3 DEF Sends, PageTypes
<1>5. ops' \in [Pages -> Seq(Call)]
  <2>1. Delete(p) \in Call
    BY DEF Delete, Call
  <2> QED
    BY <1>1, <2>1 DEF Sends, PageTypes
<1>6. early' \in BOOLEAN
  BY <1>1, Zenon DEF Sends
<1>7. /\ timer' \in [Pages -> BOOLEAN] /\ pending' \in [Pages -> Prompts \cup {None}]
      /\ sealing' \in [Pages -> SUBSET Prompts] /\ pending'[t] = p
  BY <1>2 DEF PageTypes
<1>8. dispatched' \in Seq(Prompts)
  BY <1>2 DEF PageTypes
<1> QED
  BY <1>1, <1>4, <1>5, <1>6, <1>7, <1>8 DEF PageTypes

\* flushNext dispatches the oldest prompt of the queue or leaves the queue at q.
LEMMA FlushIs ==
  ASSUME PageTypes, NEW t \in Pages, NEW q \in Seq(Prompts), NEW active \in BOOLEAN,
         NEW s, NEW v \in Prompts \cup {None},
         FlushNext(t, q, active, s), PendingIs(t, v)
  PROVE  /\ PageTypes'
         /\ \/ queue' = [queue EXCEPT ![t] = q] /\ UNCHANGED <<ops, sealing, dispatched, early>>
            \/ q # << >> /\ Sends(t, Head(q), q)
<1>1. CASE active \/ s = "down" \/ q = << >>
  <2>1. /\ queue' = [queue EXCEPT ![t] = q] /\ timer' = [timer EXCEPT ![t] = active]
        /\ UNCHANGED <<ops, sealing, dispatched, early>>
    BY <1>1 DEF FlushNext, Set
  <2>2. pending' = [pending EXCEPT ![t] = v]
    BY <2>1 DEF PendingIs, Set
  <2> QED
    BY <2>1, <2>2 DEF PageTypes
<1>2. CASE ~(active \/ s = "down" \/ q = << >>)
  <2>1. DispatchPrompt(t, Head(q), q) /\ Head(q) \in Prompts /\ q # << >>
    BY <1>2 DEF FlushNext
  <2> QED
    BY <2>1, DispatchIs
<1> QED
  BY <1>1, <1>2

\* The rest of the types.
OtherTypes ==
  /\ composed \in 0..MaxPrompts
  /\ sock \in [Pages -> {"down", "open", "ready"}]
  /\ hydration \in [Pages -> {"list", "merge", "done"}]
  /\ listed \in [Pages -> SUBSET Prompts]
  /\ store \in SUBSET Prompts
  /\ waited \in SUBSET Prompts
  /\ sent \in Seq(Prompts)
  /\ missed \in SUBSET UNION {{c, Cut(c)} : c \in {"put", "delete", "list", "seal", "send"}}
  /\ faults \in 0..MaxFaults

LEMMA AllTypes == TypeOK <=> PageTypes /\ OtherTypes
  BY DEF TypeOK, PageTypes, OtherTypes, Call

\* A flush of the session's own queue.
LEMMA OwnFlush ==
  ASSUME TypeOK, NEW t \in Pages, NEW active \in BOOLEAN, NEW s,
         NEW v \in Prompts \cup {None},
         FlushNext(t, queue[t], active, s), PendingIs(t, v),
         sock' \in [Pages -> {"down", "open", "ready"}], UNCHANGED Others, UNCHANGED faults
  PROVE  TypeOK' /\ (Rests \/ Flushes(t))
<1>1. PageTypes /\ OtherTypes /\ queue[t] \in Seq(Prompts) /\ queue = [queue EXCEPT ![t] = queue[t]]
  BY AllTypes DEF PageTypes
<1>2. /\ PageTypes'
      /\ \/ queue' = [queue EXCEPT ![t] = queue[t]] /\ UNCHANGED <<ops, sealing, dispatched, early>>
         \/ queue[t] # << >> /\ Sends(t, Head(queue[t]), queue[t])
  <2>1. PICK q : q = queue[t]
    OBVIOUS
  <2>2. q \in Seq(Prompts)
    BY <1>1, <2>1
  <2>3. FlushNext(t, q, active, s)
    BY <2>1 DEF FlushNext, DispatchPrompt, Set
  <2>4. /\ PageTypes'
        /\ \/ queue' = [queue EXCEPT ![t] = q] /\ UNCHANGED <<ops, sealing, dispatched, early>>
           \/ q # << >> /\ Sends(t, Head(q), q)
    BY <1>1, <2>2, <2>3, FlushIs
  <2> QED
    BY <2>1, <2>4
<1>3. OtherTypes'

  BY <1>1 DEF OtherTypes, Others
<1>4. Rests \/ Flushes(t)
  BY <1>1, <1>2 DEF Rests, Flushes
<1>5. TypeOK'
  BY <1>2, <1>3 DEF TypeOK, PageTypes, OtherTypes, Call
<1> QED
  BY <1>4, <1>5

\* A step of a page keeps the types, and is one of these.
PageStep(t) ==
  \/ Rests \/ Flushes(t) \/ Enqueues(t) \/ SendsNew(t) \/ Merges(t)
  \/ Sealed(t) \/ StorageWrite(t) \/ HydrateList(t) \/ Reload(t)

\* The settled turn, the refused prompt and the handshake flush the queue.
LEMMA FlushSteps ==
  ASSUME TypeOK, NEW t \in Pages,
         IdleTimeout(t) \/ TurnEnded(t) \/ PromptInjectResult(t) \/ InitializeResult(t)
  PROVE  TypeOK' /\ (Rests \/ Flushes(t))
<1>1. /\ sock \in [Pages -> {"down", "open", "ready"}] /\ timer[t] \in BOOLEAN
      /\ pending[t] \in Prompts \cup {None}
      /\ None \in Prompts \cup {None} /\ FALSE \in BOOLEAN
  BY DEF TypeOK
<1>2. PICK v0, a0, s0 : v0 = pending[t] /\ a0 = timer[t] /\ s0 = sock[t]
  BY Zenon
<1>3. CASE IdleTimeout(t) \/ TurnEnded(t)
  <2>1. /\ FlushNext(t, queue[t], FALSE, sock[t]) /\ PendingIs(t, pending[t])
        /\ UNCHANGED sock /\ UNCHANGED Others /\ UNCHANGED faults
    BY <1>3 DEF IdleTimeout, TurnEnded, SettleTurn, Others
  <2>2. FlushNext(t, queue[t], FALSE, s0)
    BY <1>2, <2>1 DEF FlushNext
  <2>3. PendingIs(t, v0)
    BY <1>2, <2>1 DEF PendingIs, Set
  <2> QED
    BY <1>1, <1>2, <2>1, <2>2, <2>3, OwnFlush

<1>4. CASE PromptInjectResult(t)
  <2>0. UNCHANGED sock /\ UNCHANGED Others /\ UNCHANGED faults
    BY <1>4 DEF PromptInjectResult, Others
  <2>1. CASE FlushNext(t, queue[t], FALSE, s0) /\ PendingIs(t, None)
    BY <1>1, <2>0, <2>1, OwnFlush
  <2>2. CASE pending' = [pending EXCEPT ![t] = None] /\ UNCHANGED <<queue, timer, ops, sealing, dispatched, early>>
    <3>1. TypeOK'
      BY <2>0, <2>2 DEF TypeOK, Others
    <3> QED
      BY <2>0, <2>2, <3>1 DEF Rests
  <2> QED
    BY <1>2, <1>4, <2>1, <2>2 DEF PromptInjectResult, SettleTurn, Set
<1>5. CASE InitializeResult(t)
  <2>1. /\ FlushNext(t, queue[t], a0, "ready") /\ PendingIs(t, v0)
        /\ sock' = [sock EXCEPT ![t] = "ready"] /\ UNCHANGED Others /\ UNCHANGED faults
    BY <1>2, <1>5 DEF InitializeResult, Set, Others
  <2>2. sock' \in [Pages -> {"down", "open", "ready"}]
    BY <1>1, <2>1
  <2> QED
    BY <1>1, <1>2, <2>1, <2>2, OwnFlush
<1> QED
  BY <1>3, <1>4, <1>5

\* A composed prompt is queued or dispatched.
LEMMA SendStep ==
  ASSUME TypeOK, NEW t \in Pages, SendPrompt(t)
  PROVE  TypeOK' /\ (Enqueues(t) \/ SendsNew(t))
<1>0. MaxPrompts \in Nat
  BY QueueAssumption
<1>1. PageTypes /\ OtherTypes /\ queue[t] \in Seq(Prompts) /\ ops[t] \in Seq(Call)
  BY AllTypes DEF PageTypes
<1>2. PICK p : p = composed + 1
  OBVIOUS
<1>3. /\ p \in Prompts /\ composed' = p
      /\ UNCHANGED <<sock, hydration, listed, store, sent, missed, faults>>
  BY <1>2 DEF SendPrompt
<1>4. CASE queue[t] # << >> \/ timer[t] \/ sock[t] = "down"
  <2>1. /\ queue' = [queue EXCEPT ![t] = Append(queue[t], p)]
        /\ ops' = [ops EXCEPT ![t] = Append(ops[t], Put(p))]
        /\ waited' = waited \cup {p}
        /\ UNCHANGED <<pending, sealing, timer, dispatched, early>>
    BY <1>2, <1>4 DEF SendPrompt, Set
  <2>2. Put(p) \in Call
    BY <1>3 DEF Put, Call
  <2>3. queue' \in [Pages -> Seq(Prompts)]
    BY <1>1, <1>3, <2>1 DEF PageTypes
  <2>4. ops' \in [Pages -> Seq(Call)]
    BY <1>1, <2>1, <2>2 DEF PageTypes
  <2>5. PageTypes'
    BY <1>1, <2>1, <2>3, <2>4 DEF PageTypes
  <2>6. OtherTypes'
    BY <1>0, <1>1, <1>3, <2>1 DEF OtherTypes, Prompts
  <2>7. TypeOK'
    BY <2>5, <2>6 DEF TypeOK, PageTypes, OtherTypes, Call
  <2>8. Enqueues(t)
    BY <1>2, <1>3, <2>1 DEF Enqueues
  <2> QED
    BY <2>7, <2>8
<1>5. CASE ~(queue[t] # << >> \/ timer[t] \/ sock[t] = "down")
  <2>1. queue[t] = << >> /\ << >> \in Seq(Prompts)
    BY <1>5
  <2>2. DispatchPrompt(t, p, << >>) /\ UNCHANGED waited
    BY <1>2, <1>5, <2>1 DEF SendPrompt, DispatchPrompt, Set
  <2>3. Sends(t, p, << >>) /\ PageTypes'
    BY <1>1, <1>3, <2>1, <2>2, DispatchIs
  <2>4. OtherTypes'
    BY <1>0, <1>1, <1>3, <2>2 DEF OtherTypes, Prompts
  <2>5. TypeOK'
    BY <2>3, <2>4 DEF TypeOK, PageTypes, OtherTypes, Call
  <2>6. SendsNew(t)
    BY <1>2, <1>3, <2>1, <2>2, <2>3 DEF SendsNew, Sends
  <2> QED
    BY <2>5, <2>6
<1> QED
  BY <1>4, <1>5
\* The merged queue has the queued prompts and those that were read, in order.
LEMMA MergedIs ==
  ASSUME TypeOK, NEW t \in Pages
  PROVE  /\ Merged(t) \in Seq(Prompts)
         /\ Items(Merged(t)) = Items(queue[t]) \cup listed[t]
         /\ Ascending(Merged(t))
<1>1. PICK S : S = Items(queue[t]) \cup listed[t]
  OBVIOUS
<1>2. S \in SUBSET (1..MaxPrompts) /\ MaxPrompts \in Nat
  BY <1>1, QueueAssumption DEF TypeOK, Prompts, Items
<1>3. Merged(t) = InOrder(S)
  BY <1>1, SameItems DEF Merged
<1>4. /\ InOrder(S) \in Seq(S) /\ Items(InOrder(S)) = S /\ Ascending(InOrder(S))
  BY <1>2, InOrderIs
<1>5. \A q \in Seq(S) : q \in Seq(Prompts)
  <2> SUFFICES ASSUME NEW q \in Seq(S) PROVE q \in Seq(Prompts)
    OBVIOUS
  <2>1. q \in [1..Len(q) -> S] /\ Len(q) \in Nat
    OBVIOUS
  <2>2. q \in [1..Len(q) -> Prompts]
    BY <1>2, <2>1 DEF Prompts
  <2> QED
    BY <2>1, <2>2
<1> QED
  BY <1>1, <1>3, <1>4, <1>5

\* The outbox's prompts join the queue.
LEMMA MergeStep ==
  ASSUME TypeOK, NEW t \in Pages, HydrateMerge(t)
  PROVE  TypeOK' /\ Merges(t)
<1>1. PageTypes /\ OtherTypes /\ pending[t] \in Prompts \cup {None} /\ timer[t] \in BOOLEAN
  BY AllTypes DEF PageTypes
<1>2. /\ hydration[t] = "merge"
      /\ hydration' = [hydration EXCEPT ![t] = "done"] /\ listed' = [listed EXCEPT ![t] = {}]
      /\ UNCHANGED <<sock, store, composed, waited, sent, missed, faults>>
  BY DEF HydrateMerge, Set
<1>3. OtherTypes'
  BY <1>1, <1>2 DEF OtherTypes
<1>4. CASE listed[t] = {}
  <2>1. UNCHANGED <<queue, timer, pending, sealing, ops, dispatched, early>>
    BY <1>4 DEF HydrateMerge
  <2>2. PageTypes'
    BY <1>1, <2>1 DEF PageTypes
  <2>3. Merges(t)
    BY <1>2, <1>4, <2>1 DEF Merges
  <2>4. TypeOK'
    BY <1>3, <2>2 DEF TypeOK, PageTypes, OtherTypes, Call
  <2> QED
    BY <2>3, <2>4
<1>5. CASE listed[t] # {}
  <2>1. FlushNext(t, Merged(t), timer[t], sock[t]) /\ PendingIs(t, pending[t])
    BY <1>5 DEF HydrateMerge
  <2>2. PICK q, a, s, v : q = Merged(t) /\ a = timer[t] /\ s = sock[t] /\ v = pending[t]
    BY Zenon
  <2>3. q \in Seq(Prompts) /\ a \in BOOLEAN /\ v \in Prompts \cup {None}
    BY <1>1, <2>2, MergedIs
  <2>4. FlushNext(t, q, a, s)
    BY <2>1, <2>2 DEF FlushNext, DispatchPrompt, Set
  <2>5. PendingIs(t, v)
    BY <2>1, <2>2 DEF PendingIs, Set
  <2>6. /\ PageTypes'
        /\ \/ queue' = [queue EXCEPT ![t] = q] /\ UNCHANGED <<ops, sealing, dispatched, early>>
           \/ q # << >> /\ Sends(t, Head(q), q)
    BY <1>1, <2>3, <2>4, <2>5, FlushIs
  <2>7. Merges(t)
    BY <1>2, <2>2, <2>6 DEF Merges
  <2>8. TypeOK'
    BY <1>3, <2>6 DEF TypeOK, PageTypes, OtherTypes, Call
  <2> QED
    BY <2>7, <2>8
<1> QED
  BY <1>4, <1>5

\* Whether a call of the database, an encryption or the page is cut short, the types
\* are kept.
LEMMA StorageTypes ==
  ASSUME TypeOK, NEW t \in Pages,
         Sealed(t) \/ StorageWrite(t) \/ HydrateList(t) \/ Reload(t)
  PROVE  TypeOK'
<1> DEFINE All == UNION {{c, Cut(c)} : c \in {"put", "delete", "list", "seal", "send"}}
<1>0. MaxFaults \in Nat
  BY QueueAssumption
<1>1. PageTypes /\ OtherTypes
  BY AllTypes
<1>2. /\ {"put", "delete", "list", "seal", "send"} \subseteq All
      /\ \A c \in {"put", "delete", "seal"} : Cut(c) \in All
  OBVIOUS
<1> HIDE DEF All
<1>4. CASE Sealed(t)

  <2>1. PICK p \in sealing[t] :
          /\ sealing' = [sealing EXCEPT ![t] = sealing[t] \ {p}]
          /\ \/ sent' = Append(sent, p) /\ UNCHANGED <<missed, faults>>
             \/ missed' = missed \cup {"send"} /\ UNCHANGED <<sent, faults>>
             \/ faults < MaxFaults /\ faults' = faults + 1 /\ missed' = missed \cup {"seal"} /\ UNCHANGED sent
    BY <1>4 DEF Sealed, Set, Fault
  <2>2. /\ UNCHANGED <<queue, timer, pending, sock, hydration, listed, ops, store>>
        /\ UNCHANGED <<composed, waited, dispatched, early>>
    BY <1>4 DEF Sealed
  <2>3. PageTypes'
    BY <1>1, <2>1, <2>2 DEF PageTypes
  <2>4. p \in Prompts
    BY <1>1, <2>1 DEF PageTypes
  <2>5. sent' \in Seq(Prompts) /\ missed' \in SUBSET All /\ faults' \in 0..MaxFaults
    <3>1. sent \in Seq(Prompts) /\ missed \in SUBSET All /\ faults \in 0..MaxFaults
      BY <1>1 DEF OtherTypes, All
    <3>2. sent' \in Seq(Prompts)
      BY <2>1, <2>4, <3>1
    <3>3. missed' \in SUBSET All
      BY <1>2, <2>1, <3>1
    <3>4. faults' \in 0..MaxFaults
      BY <1>0, <2>1, <3>1
    <3> QED
      BY <3>2, <3>3, <3>4
  <2>6. OtherTypes'
    BY <1>1, <2>2, <2>5 DEF OtherTypes, All
  <2> QED
    BY <2>3, <2>6 DEF TypeOK, PageTypes, OtherTypes, Call
<1>5. CASE StorageWrite(t)
  <2>1. /\ ops[t] # << >> /\ ops' = [ops EXCEPT ![t] = Tail(ops[t])]
        /\ \/ store' = After(store, Head(ops[t])) /\ UNCHANGED <<missed, faults>>
           \/ faults < MaxFaults /\ faults' = faults + 1 /\ missed' = missed \cup {Head(ops[t]).op} /\ UNCHANGED store
        /\ UNCHANGED <<queue, timer, pending, sock, hydration, listed, sealing>>
        /\ UNCHANGED <<composed, waited, dispatched, sent, early>>
    BY <1>5 DEF StorageWrite, Set, Fault
  <2>2. ops[t] \in Seq(Call) /\ Head(ops[t]) \in Call /\ Tail(ops[t]) \in Seq(Call)
    BY <1>1, <2>1 DEF PageTypes
  <2>3. After(store, Head(ops[t])) \in SUBSET Prompts /\ Head(ops[t]).op \in {"put", "delete"}
    BY <1>1, <2>2 DEF After, Call, OtherTypes
  <2>4. PageTypes'
    BY <1>1, <2>1, <2>2 DEF PageTypes
  <2>5. store' \in SUBSET Prompts /\ missed' \in SUBSET All /\ faults' \in 0..MaxFaults
    BY <1>0, <1>1, <1>2, <2>1, <2>3 DEF OtherTypes, All
  <2>6. OtherTypes'
    BY <1>1, <2>1, <2>5 DEF OtherTypes, All
  <2> QED
    BY <2>4, <2>6 DEF TypeOK, PageTypes, OtherTypes, Call
<1>6. CASE HydrateList(t)
  <2>1. /\ \/ /\ hydration' = [hydration EXCEPT ![t] = "merge"] /\ listed' = [listed EXCEPT ![t] = store]
              /\ UNCHANGED <<missed, faults>>
           \/ /\ faults < MaxFaults /\ faults' = faults + 1
              /\ hydration' = [hydration EXCEPT ![t] = "done"]
              /\ missed' = missed \cup {"list"} /\ UNCHANGED listed
        /\ UNCHANGED <<queue, timer, pending, sock, sealing, ops, store>>
        /\ UNCHANGED <<composed, waited, dispatched, sent, early>>
    BY <1>6 DEF HydrateList, Set, Fault
  <2>2. PageTypes'
    BY <1>1, <2>1 DEF PageTypes
  <2>3. missed' \in SUBSET All /\ faults' \in 0..MaxFaults
    BY <1>0, <1>1, <1>2, <2>1 DEF OtherTypes, All
  <2>4. OtherTypes'
    BY <1>1, <2>1, <2>3 DEF OtherTypes, All
  <2> QED
    BY <2>2, <2>4 DEF TypeOK, PageTypes, OtherTypes, Call
<1>7. CASE Reload(t)
  <2>1. PICK n \in 0..Len(ops[t]) :
          /\ store' = AfterAll(store, SubSeq(ops[t], 1, n))
          /\ missed' = missed \cup {Cut(ops[t][k].op) : k \in n + 1..Len(ops[t])}
                               \cup {Cut("seal") : p \in sealing[t]}
    <3>1. Len(ops[t]) \in Nat
      BY <1>1 DEF PageTypes
    <3> QED
      BY <1>7, <3>1 DEF Reload
  <2>2. /\ faults < MaxFaults /\ faults' = faults + 1
        /\ queue' = [queue EXCEPT ![t] = << >>] /\ timer' = [timer EXCEPT ![t] = FALSE]
        /\ pending' = [pending EXCEPT ![t] = None] /\ sock' = [sock EXCEPT ![t] = "down"]
        /\ hydration' = [hydration EXCEPT ![t] = "list"] /\ listed' = [listed EXCEPT ![t] = {}]
        /\ sealing' = [sealing EXCEPT ![t] = {}] /\ ops' = [ops EXCEPT ![t] = << >>]
        /\ UNCHANGED <<composed, waited, dispatched, sent, early>>
    BY <1>7 DEF Reload, Set, Fault
  <2>3. store' \in SUBSET Prompts
    BY <1>1, <2>1 DEF AfterAll, OtherTypes
  <2>4. missed' \in SUBSET All
    <3>1. \A k \in n + 1..Len(ops[t]) : ops[t][k].op \in {"put", "delete"}
      <4>1. ops[t] \in Seq(Call)
        BY <1>1 DEF PageTypes
      <4>2. \A k \in n + 1..Len(ops[t]) : ops[t][k] \in Call
        BY <4>1
      <4> QED
        BY <4>2 DEF Call
    <3> QED
      BY <1>1, <1>2, <2>1, <3>1 DEF OtherTypes, All
  <2>5. PageTypes'
    BY <1>1, <2>2 DEF PageTypes
  <2>6. OtherTypes'
    BY <1>0, <1>1, <2>2, <2>3, <2>4 DEF OtherTypes, All
  <2> QED
    BY <2>5, <2>6 DEF TypeOK, PageTypes, OtherTypes, Call
<1> QED
  BY <1>4, <1>5, <1>6, <1>7

\* Every step keeps the types, and is one of the steps above.
LEMMA PromptStep ==
  ASSUME TypeOK, [Next]_vars
  PROVE  TypeOK' /\ (Rests \/ \E t \in Pages : PageStep(t))
<1>1. CASE UNCHANGED vars
  <2>1. TypeOK'
    BY <1>1 DEF vars, page, history, TypeOK
  <2> QED
    BY <1>1, <2>1 DEF vars, page, history, Rests, Others
<1>2. ASSUME NEW t \in Pages, UpdateApplied(t) \/ SocketOpens(t) \/ SocketGone(t)
      PROVE  TypeOK' /\ Rests
  <2>1. UNCHANGED <<queue, pending, hydration, listed, sealing, ops, store, composed, waited, dispatched, sent, early, missed>>
    BY <1>2 DEF UpdateApplied, SocketOpens, SocketGone, history
  <2>2. /\ timer' \in {timer, [timer EXCEPT ![t] = TRUE], [timer EXCEPT ![t] = FALSE]}
        /\ sock' \in {sock, [sock EXCEPT ![t] = "open"], [sock EXCEPT ![t] = "down"]}
    BY <1>2 DEF UpdateApplied, SocketOpens, SocketGone, Set
  <2>3. faults' \in 0..MaxFaults
    <3>1. faults' = faults \/ (faults < MaxFaults /\ faults' = faults + 1)
      BY <1>2 DEF UpdateApplied, SocketOpens, SocketGone, history, Fault
    <3>2. faults \in 0..MaxFaults /\ MaxFaults \in Nat
      BY QueueAssumption DEF TypeOK
    <3> QED
      BY <3>1, <3>2

  <2>4. timer' \in [Pages -> BOOLEAN] /\ sock' \in [Pages -> {"down", "open", "ready"}]
    BY <2>2 DEF TypeOK
  <2>5. TypeOK'
    BY <2>1, <2>3, <2>4 DEF TypeOK
  <2> QED
    BY <2>1, <2>5 DEF Rests, Others
<1>3. ASSUME NEW t \in Pages,
             IdleTimeout(t) \/ TurnEnded(t) \/ PromptInjectResult(t) \/ InitializeResult(t)
      PROVE  TypeOK' /\ PageStep(t)
  BY <1>3, FlushSteps DEF PageStep
<1>4. ASSUME NEW t \in Pages, SendPrompt(t) PROVE TypeOK' /\ PageStep(t)
  BY <1>4, SendStep DEF PageStep
<1>5. ASSUME NEW t \in Pages, HydrateMerge(t) PROVE TypeOK' /\ PageStep(t)
  BY <1>5, MergeStep DEF PageStep
<1>6. ASSUME NEW t \in Pages, Sealed(t) \/ StorageWrite(t) \/ HydrateList(t) \/ Reload(t)
      PROVE  TypeOK' /\ PageStep(t)
  BY <1>6, StorageTypes DEF PageStep
<1> QED
  BY <1>1, <1>2, <1>3, <1>4, <1>5, <1>6 DEF Next

\* The types hold at first.
LEMMA PromptTypesInit == Init => TypeOK
<1> SUFFICES ASSUME Init PROVE TypeOK
  OBVIOUS
<1>1. /\ queue \in [Pages -> Seq(Prompts)] /\ ops \in [Pages -> Seq([op : {"put", "delete"}, prompt : Prompts])]
      /\ dispatched \in Seq(Prompts) /\ sent \in Seq(Prompts)
  BY DEF Init
<1>2. early \in BOOLEAN /\ timer \in [Pages -> BOOLEAN]
  BY DEF Init
<1>3. composed \in 0..MaxPrompts /\ faults \in 0..MaxFaults
  BY QueueAssumption DEF Init
<1> QED
  BY <1>1, <1>2, <1>3 DEF Init, TypeOK

\* The variables of the pages, of the database and of the histories keep their types.
THEOREM PromptTypes == Spec => []TypeOK
<1>1. TypeOK /\ [Next]_vars => TypeOK'
  BY PromptStep
<1> QED
  BY <1>1, PromptTypesInit, PTL DEF Spec
-----------------------------------------------------------------------------
(* No queued prompt is lost.                                               *)

\* As long as no call failed or was cut short: what was dispatched is sent or being
\* encrypted; only what was dispatched is deleted; and a prompt that waits for its
\* dispatch is in the database, or in a queue with its put under way.
Kept ==
  missed = {} =>
    /\ \A p \in Items(dispatched) : p \in Items(sent) \/ \E t \in Pages : p \in sealing[t]
    /\ \A t \in Pages, p \in Prompts : Delete(p) \in Items(ops[t]) => p \in Items(dispatched)
    /\ \A p \in waited : \/ p \in Items(dispatched) \/ p \in store
                         \/ \E t \in Pages : p \in Items(queue[t]) /\ Put(p) \in Items(ops[t])

\* What a longer and a shorter sequence hold.
LEMMA AppendItems ==
  ASSUME NEW S, NEW s \in Seq(S), NEW e \in S PROVE Items(Append(s, e)) = Items(s) \cup {e}
<1>1. /\ Len(s) \in Nat /\ DOMAIN s = 1..Len(s) /\ DOMAIN Append(s, e) = 1..(Len(s) + 1)
      /\ Append(s, e)[Len(s) + 1] = e /\ \A i \in 1..Len(s) : Append(s, e)[i] = s[i]
  OBVIOUS
<1> QED
  BY <1>1 DEF Items

LEMMA TailItems ==
  ASSUME NEW S, NEW s \in Seq(S), s # << >>
  PROVE  Items(s) = {Head(s)} \cup Items(Tail(s)) /\ Items(Tail(s)) \subseteq S
<1>1. /\ Len(s) \in Nat /\ Len(s) > 0 /\ DOMAIN s = 1..Len(s) /\ DOMAIN Tail(s) = 1..(Len(s) - 1)
      /\ s[1] = Head(s) /\ \A i \in 1..(Len(s) - 1) : Tail(s)[i] = s[i + 1] /\ s[i + 1] \in S
  OBVIOUS
<1>2. \A i \in 2..Len(s) : i - 1 \in 1..(Len(s) - 1) /\ Tail(s)[i - 1] = s[i]
  BY <1>1
<1>3. \A i \in 1..Len(s) : i = 1 \/ i \in 2..Len(s)
  BY <1>1
<1>4. \A i \in 1..(Len(s) - 1) : i + 1 \in 1..Len(s)
  BY <1>1
<1>5. \A i \in DOMAIN s : s[i] \in {Head(s)} \cup Items(Tail(s))
  BY <1>1, <1>2, <1>3 DEF Items
<1>6. \A i \in DOMAIN Tail(s) : Tail(s)[i] \in Items(s) /\ Tail(s)[i] \in S
  BY <1>1, <1>4 DEF Items
<1>7. Head(s) \in Items(s)
  BY <1>1 DEF Items
<1> QED
  BY <1>5, <1>6, <1>7 DEF Items

\* Put and Delete are different calls, each of one prompt.
LEMMA PutDelete ==
  /\ \A p, r : Put(p) # Delete(r)
  /\ \A p, r : Put(p) = Put(r) => p = r
  /\ \A p, r : Delete(p) = Delete(r) => p = r
  /\ \A p \in Prompts : Put(p) \in Call /\ Delete(p) \in Call
<1>1. \A p, r : Put(p).op = "put" /\ Delete(r).op = "delete" /\ Put(p).prompt = p /\ Delete(r).prompt = r
  BY DEF Put, Delete
<1>2. "put" # "delete"
  OBVIOUS
<1>3. \A p \in Prompts : Put(p) \in Call /\ Delete(p) \in Call
  BY DEF Put, Delete, Call
<1> QED
  BY <1>1, <1>2, <1>3

\* What a dispatch changes.
LEMMA SendsIs ==
  ASSUME TypeOK, NEW t \in Pages, NEW p \in Prompts, NEW q \in Seq(Prompts), Sends(t, p, q)
  PROVE  /\ Items(queue'[t]) = Items(q) \ {p}
         /\ Ascending(q) => Ascending(queue'[t])
         /\ Items(ops'[t]) = Items(ops[t]) \cup (IF p \in Items(q) THEN {Delete(p)} ELSE {})
         /\ \A u \in Pages \ {t} : queue'[u] = queue[u] /\ ops'[u] = ops[u] /\ sealing'[u] = sealing[u]
         /\ sealing'[t] = sealing[t] \cup {p}
         /\ Items(dispatched') = Items(dispatched) \cup {p}
<1>1. /\ queue \in [Pages -> Seq(Prompts)] /\ ops \in [Pages -> Seq(Call)] /\ sealing \in [Pages -> SUBSET Prompts]
      /\ dispatched \in Seq(Prompts) /\ ops[t] \in Seq(Call)
  BY DEF TypeOK, Call
<1>2. /\ queue' = [queue EXCEPT ![t] = Without(q, p)]
      /\ ops' = IF p \in Items(q) THEN [ops EXCEPT ![t] = Append(ops[t], Delete(p))] ELSE ops
      /\ sealing' = [sealing EXCEPT ![t] = sealing[t] \cup {p}]
      /\ dispatched' = Append(dispatched, p)
  BY DEF Sends
<1>3. queue'[t] = Without(q, p)
  BY <1>1, <1>2
<1>4. Items(ops'[t]) = Items(ops[t]) \cup (IF p \in Items(q) THEN {Delete(p)} ELSE {})
  <2>1. CASE p \in Items(q)
    <3>1. ops'[t] = Append(ops[t], Delete(p))
      BY <1>1, <1>2, <2>1
    <3>2. Items(Append(ops[t], Delete(p))) = Items(ops[t]) \cup {Delete(p)}
      BY <1>1, PutDelete, AppendItems
    <3> QED
      BY <2>1, <3>1, <3>2
  <2>2. CASE p \notin Items(q)
    BY <1>2, <2>2
  <2> QED
    BY <2>1, <2>2
<1>5. Items(dispatched') = Items(dispatched) \cup {p}
  BY <1>1, <1>2, AppendItems
<1>6. Items(queue'[t]) = Items(q) \ {p} /\ (Ascending(q) => Ascending(queue'[t]))
  BY <1>3, WithoutIs
<1> QED
  BY <1>1, <1>2, <1>4, <1>5, <1>6

\* A dispatch loses nothing.
LEMMA KeptSends ==
  ASSUME TypeOK, Kept, NEW t \in Pages, NEW p \in Prompts, NEW q \in Seq(Prompts),
         Sends(t, p, q), Items(queue[t]) \subseteq Items(q),
         UNCHANGED <<store, waited, sent, missed>>
  PROVE  Kept'
<1> SUFFICES ASSUME missed = {} PROVE Kept'
  BY DEF Kept
<1>1. /\ Items(queue'[t]) = Items(q) \ {p}
      /\ Items(ops'[t]) = Items(ops[t]) \cup (IF p \in Items(q) THEN {Delete(p)} ELSE {})
      /\ \A u \in Pages \ {t} : queue'[u] = queue[u] /\ ops'[u] = ops[u] /\ sealing'[u] = sealing[u]
      /\ sealing'[t] = sealing[t] \cup {p}
      /\ Items(dispatched') = Items(dispatched) \cup {p}
  BY SendsIs
<1>2. \A x \in Items(dispatched') : x \in Items(sent) \/ \E u \in Pages : x \in sealing'[u]
  BY <1>1 DEF Kept
<1>3. \A u \in Pages, x \in Prompts : Delete(x) \in Items(ops'[u]) => x \in Items(dispatched')
  BY <1>1, PutDelete DEF Kept
<1>4. ASSUME NEW x \in waited, x \notin Items(dispatched'), x \notin store
      PROVE  \E u \in Pages : x \in Items(queue'[u]) /\ Put(x) \in Items(ops'[u])
  <2>1. PICK u \in Pages : x \in Items(queue[u]) /\ Put(x) \in Items(ops[u])
    BY <1>1, <1>4 DEF Kept
  <2> QED
    BY <1>1, <1>4, <2>1
<1> QED
  BY <1>2, <1>3, <1>4 DEF Kept
\* A flush and a dispatch of a new prompt lose nothing.
LEMMA KeptFlushes ==
  ASSUME TypeOK, Kept, NEW t \in Pages, Flushes(t) \/ SendsNew(t) \/ Merges(t)
  PROVE  Kept'
<1>1. queue[t] \in Seq(Prompts) /\ queue \in [Pages -> Seq(Prompts)]
  BY DEF TypeOK
<1>2. CASE Flushes(t)
  <2>1. PICK q : q = queue[t]
    OBVIOUS
  <2>2. q \in Seq(Prompts) /\ Head(q) \in Prompts /\ Sends(t, Head(q), q)
    BY <1>1, <1>2, <2>1 DEF Flushes
  <2>3. Items(queue[t]) \subseteq Items(q) /\ UNCHANGED <<store, waited, sent, missed>>
    BY <1>2, <2>1 DEF Flushes, Others
  <2> QED
    BY <2>2, <2>3, KeptSends
<1>3. CASE SendsNew(t)
  <2>1. PICK p : p = composed + 1
    OBVIOUS
  <2>2. p \in Prompts /\ << >> \in Seq(Prompts) /\ Sends(t, p, << >>)
    BY <1>3, <2>1 DEF SendsNew
  <2>3. Items(queue[t]) \subseteq Items(<< >>) /\ UNCHANGED <<store, waited, sent, missed>>
    BY <1>3 DEF SendsNew
  <2> QED
    BY <2>2, <2>3, KeptSends
<1>4. CASE Merges(t)
  <2>0. UNCHANGED <<store, waited, sent, missed>>
    BY <1>4 DEF Merges
  <2>1. PICK q : q = Merged(t)
    OBVIOUS
  <2>2. q \in Seq(Prompts) /\ Items(queue[t]) \subseteq Items(q)
    BY <2>1, MergedIs
  <2>3. CASE UNCHANGED <<queue, ops, sealing, dispatched, early>>
    BY <2>0, <2>3 DEF Kept
  <2>4. CASE queue' = [queue EXCEPT ![t] = q] /\ UNCHANGED <<ops, sealing, dispatched, early>>
    <3>1. \A u \in Pages : Items(queue[u]) \subseteq Items(queue'[u])
      BY <1>1, <2>2, <2>4
    <3> QED
      BY <2>0, <2>4, <3>1 DEF Kept
  <2>5. CASE q # << >> /\ Sends(t, Head(q), q)
    <3>1. Head(q) \in Prompts
      BY <2>2, <2>5
    <3> QED
      BY <2>0, <2>2, <2>5, <3>1, KeptSends
  <2> QED
    BY <1>4, <2>1, <2>3, <2>4, <2>5 DEF Merges
<1> QED
  BY <1>2, <1>3, <1>4

\* Nor does a new prompt, an end of an encryption, or a call of the database.
LEMMA KeptEnqueues ==
  ASSUME TypeOK, Kept, NEW t \in Pages, Enqueues(t) PROVE Kept'
<1>1. PICK p : p = composed + 1
  OBVIOUS
<1>2. /\ p \in Prompts /\ queue' = [queue EXCEPT ![t] = Append(queue[t], p)]
      /\ ops' = [ops EXCEPT ![t] = Append(ops[t], Put(p))] /\ waited' = waited \cup {p}
      /\ UNCHANGED <<sealing, dispatched, store, sent, missed>>
  BY <1>1 DEF Enqueues
<1>3. /\ queue \in [Pages -> Seq(Prompts)] /\ ops \in [Pages -> Seq(Call)]
      /\ queue[t] \in Seq(Prompts) /\ ops[t] \in Seq(Call) /\ Put(p) \in Call
  BY <1>2, PutDelete DEF TypeOK, Call
<1>4. Items(queue'[t]) = Items(queue[t]) \cup {p} /\ Items(ops'[t]) = Items(ops[t]) \cup {Put(p)}
  <2>1. queue'[t] = Append(queue[t], p) /\ ops'[t] = Append(ops[t], Put(p))
    BY <1>2, <1>3
  <2>2. Items(Append(queue[t], p)) = Items(queue[t]) \cup {p}
    BY <1>2, <1>3, AppendItems
  <2>3. Items(Append(ops[t], Put(p))) = Items(ops[t]) \cup {Put(p)}
    BY <1>3, AppendItems
  <2> QED
    BY <2>1, <2>2, <2>3
<1>5. \A u \in Pages \ {t} : queue'[u] = queue[u] /\ ops'[u] = ops[u]
  BY <1>2, <1>3
<1> QED
  BY <1>2, <1>4, <1>5, PutDelete DEF Kept

LEMMA KeptSealed ==
  ASSUME TypeOK, Kept, NEW t \in Pages, Sealed(t) PROVE Kept'
<1>1. PICK p \in sealing[t] :
        /\ sealing' = [sealing EXCEPT ![t] = sealing[t] \ {p}]
        /\ \/ sent' = Append(sent, p) /\ UNCHANGED missed
           \/ missed' = missed \cup {"send"}
           \/ missed' = missed \cup {"seal"}
  BY DEF Sealed, Set
<1>2. UNCHANGED <<queue, ops, store, waited, dispatched>>
  BY DEF Sealed
<1> SUFFICES ASSUME missed' = {} PROVE Kept'
  BY DEF Kept
<1>3. missed = {} /\ sent' = Append(sent, p)
  BY <1>1
<1>4. p \in Prompts /\ sent \in Seq(Prompts) /\ sealing \in [Pages -> SUBSET Prompts]
  BY <1>1 DEF TypeOK
<1>5. Items(sent') = Items(sent) \cup {p}
  BY <1>3, <1>4, AppendItems
<1>6. \A u \in Pages : \A x \in sealing[u] : x = p \/ x \in sealing'[u]
  BY <1>1, <1>4
<1>7. \A x \in Items(dispatched') : x \in Items(sent') \/ \E u \in Pages : x \in sealing'[u]
  BY <1>2, <1>3, <1>5, <1>6 DEF Kept
<1> QED
  BY <1>2, <1>3, <1>7 DEF Kept

LEMMA KeptWrite ==
  ASSUME TypeOK, Kept, NEW t \in Pages, StorageWrite(t) PROVE Kept'
<1>1. /\ ops[t] # << >> /\ ops' = [ops EXCEPT ![t] = Tail(ops[t])]
      /\ \/ store' = After(store, Head(ops[t])) /\ UNCHANGED missed
         \/ missed' = missed \cup {Head(ops[t]).op}
      /\ UNCHANGED <<queue, sealing, waited, dispatched, sent>>
  BY DEF StorageWrite, Set
<1> SUFFICES ASSUME missed' = {} PROVE Kept'
  BY DEF Kept
<1>2. missed = {} /\ store' = After(store, Head(ops[t]))
  BY <1>1
<1>3. PICK c : c = Head(ops[t])
  OBVIOUS
<1>4. ops \in [Pages -> Seq(Call)] /\ ops[t] \in Seq(Call) /\ c \in Call /\ waited \subseteq Prompts
  <2>1. ops \in [Pages -> Seq(Call)] /\ ops[t] \in Seq(Call) /\ waited \subseteq Prompts
    BY AllTypes DEF PageTypes, OtherTypes
  <2>2. c \in Call
    BY <1>1, <1>3, <2>1
  <2> QED
    BY <2>1, <2>2
<1>5. Items(ops[t]) = {c} \cup Items(ops'[t]) /\ \A u \in Pages \ {t} : ops'[u] = ops[u]
  <2>1. Items(ops[t]) = {c} \cup Items(Tail(ops[t]))
    BY <1>1, <1>3, <1>4, TailItems
  <2> QED
    BY <1>1, <1>4, <2>1
<1>6. \A x : x \in store' <=> (c = Put(x) \/ (c # Delete(x) /\ x \in store))
  <2>1. store' = After(store, c)
    BY <1>2, <1>3
  <2>2. PICK s : s = store
    OBVIOUS
  <2>3. \A x : x \in After(s, c) <=> (c = Put(x) \/ (c # Delete(x) /\ x \in s))
    BY <1>4, AfterIs
  <2>4. After(store, c) = After(s, c)
    BY <2>2 DEF After
  <2> QED
    BY <2>1, <2>2, <2>3, <2>4
<1>7. \A u \in Pages, x \in Prompts : Delete(x) \in Items(ops'[u]) => x \in Items(dispatched)
  BY <1>2, <1>5 DEF Kept
<1>8. ASSUME NEW x \in waited, x \notin Items(dispatched), x \notin store'
      PROVE  \E u \in Pages : x \in Items(queue[u]) /\ Put(x) \in Items(ops'[u])
  <2>1. c # Delete(x)
    BY <1>2, <1>4, <1>5, <1>8 DEF Kept
  <2>2. x \notin store /\ c # Put(x)
    BY <1>6, <1>8, <2>1
  <2>3. PICK u \in Pages : x \in Items(queue[u]) /\ Put(x) \in Items(ops[u])
    BY <1>2, <1>8, <2>2 DEF Kept
  <2> QED
    BY <1>5, <2>2, <2>3
<1> QED
  BY <1>1, <1>2, <1>7, <1>8 DEF Kept

\* A reload that cuts nothing short leaves in the database what the page had queued.
LEMMA KeptReload ==
  ASSUME TypeOK, Kept, NEW t \in Pages, Reload(t) PROVE Kept'
<1>1. /\ ops \in [Pages -> Seq(Call)] /\ ops[t] \in Seq(Call) /\ Len(ops[t]) \in Nat
      /\ queue \in [Pages -> Seq(Prompts)] /\ sealing \in [Pages -> SUBSET Prompts]
      /\ waited \subseteq Prompts
  <2>1. ops \in [Pages -> Seq(Call)] /\ ops[t] \in Seq(Call)
    BY AllTypes DEF PageTypes
  <2> QED
    BY <2>1, AllTypes DEF PageTypes, OtherTypes

<1>2. PICK n \in 0..Len(ops[t]) :
        /\ store' = AfterAll(store, SubSeq(ops[t], 1, n))
        /\ missed' = missed \cup {Cut(ops[t][k].op) : k \in n + 1..Len(ops[t])}
                             \cup {Cut("seal") : p \in sealing[t]}
  <2>1. Len(ops[t]) \in Nat
    BY <1>1
  <2> QED
    BY <2>1 DEF Reload

<1>3. /\ queue' = [queue EXCEPT ![t] = << >>] /\ ops' = [ops EXCEPT ![t] = << >>]
      /\ sealing' = [sealing EXCEPT ![t] = {}] /\ UNCHANGED <<waited, dispatched, sent>>
  BY DEF Reload, Set
<1> SUFFICES ASSUME missed' = {} PROVE Kept'
  BY DEF Kept
<1>4. missed = {} /\ sealing[t] = {} /\ \A k \in n + 1..Len(ops[t]) : FALSE
  BY <1>2
<1>5. n = Len(ops[t])
  BY <1>1, <1>4
<1>6. SubSeq(ops[t], 1, n) = ops[t]
  BY <1>1, <1>5
<1>7. \A x \in Prompts : Delete(x) \notin Items(ops[t]) /\ (x \in store \/ Put(x) \in Items(ops[t])) => x \in store'
  <2>1. PICK s, o : s = store /\ o = ops[t]
    OBVIOUS
  <2>2. store' = AfterAll(s, o)
    BY <1>2, <1>6, <2>1 DEF AfterAll
  <2>3. \A x \in Prompts : Delete(x) \notin Items(o) /\ (x \in s \/ Put(x) \in Items(o)) => x \in AfterAll(s, o)
    BY AfterKeeps
  <2> QED
    BY <2>1, <2>2, <2>3
<1>8. Items(ops'[t]) = {} /\ \A u \in Pages \ {t} : ops'[u] = ops[u] /\ queue'[u] = queue[u] /\ sealing'[u] = sealing[u]
  BY <1>1, <1>3 DEF Items
<1>9. \A x \in Items(dispatched') : x \in Items(sent') \/ \E u \in Pages : x \in sealing'[u]
  BY <1>3, <1>4, <1>8 DEF Kept
<1>10. \A u \in Pages, x \in Prompts : Delete(x) \in Items(ops'[u]) => x \in Items(dispatched')
  BY <1>3, <1>4, <1>8 DEF Kept
<1>11. ASSUME NEW x \in waited, x \notin Items(dispatched), x \notin store'
      PROVE  \E u \in Pages : x \in Items(queue'[u]) /\ Put(x) \in Items(ops'[u])
  <2>1. Delete(x) \notin Items(ops[t]) /\ x \in Prompts
    BY <1>1, <1>4, <1>11 DEF Kept
  <2>2. x \notin store /\ Put(x) \notin Items(ops[t])
    BY <1>7, <1>11, <2>1
  <2>3. PICK u \in Pages : x \in Items(queue[u]) /\ Put(x) \in Items(ops[u])
    BY <1>4, <1>11, <2>2 DEF Kept
  <2> QED
    BY <1>8, <2>2, <2>3
<1> QED
  BY <1>3, <1>9, <1>10, <1>11 DEF Kept

\* "Nothing queued is lost" (onSocketGone), for any number of pages: unless a call
\* fails or is cut short, a prompt that was queued is in a queue, in the outbox, being
\* encrypted or sent.
THEOREM QueuedPromptsKept == Spec => []NothingLost
<1>1. Init => Kept
  BY DEF Init, Kept, Items
<1>2. ASSUME TypeOK, Kept, [Next]_vars PROVE Kept'
  <2>1. CASE Rests
    BY <1>2, <2>1 DEF Rests, Others, Kept
  <2>2. ASSUME NEW t \in Pages, HydrateList(t) PROVE Kept'
    <3>1. /\ UNCHANGED <<queue, sealing, ops, store, waited, dispatched, sent>>
          /\ missed' \in {missed, missed \cup {"list"}}
      BY <2>2 DEF HydrateList
    <3> QED
      BY <1>2, <3>1 DEF Kept
  <2> QED
    BY <1>2, <2>1, <2>2, PromptStep, KeptFlushes, KeptEnqueues, KeptSealed, KeptWrite, KeptReload DEF PageStep
<1>3. ASSUME TypeOK, Kept PROVE NothingLost
  <2>1. sent \in Seq(Prompts) /\ \A t \in Pages : queue[t] \in Seq(Prompts)
    BY <1>3 DEF TypeOK
  <2>2. \A p : Contains(sent, p) <=> p \in Items(sent)
    BY <2>1, ContainsIs
  <2>3. \A t \in Pages : \A p : Contains(queue[t], p) <=> p \in Items(queue[t])
    BY <2>1, ContainsIs
  <2> QED
    BY <1>3, <2>2, <2>3 DEF Kept, NothingLost
<1> QED
  BY <1>1, <1>2, <1>3, PromptTypes, PTL DEF Spec
-----------------------------------------------------------------------------
(* One page: the outbox follows its queue, and prompts go out in order.    *)

OnePage == \E t : Pages = {t}

\* The prompts of the outbox that the page has not merged into its queue yet.
Outside(t) ==
  IF hydration[t] = "list" THEN store ELSE IF hydration[t] = "merge" THEN listed[t] ELSE {}

\* The prompts that wait, as far as the page knows or is about to.
Known(t) == Items(queue[t]) \cup Outside(t)

\* The outbox once the page's calls are done.
Final(t) == AfterAll(store, ops[t])

\* Everything the page handles has been composed; what it has queued is not what it
\* is about to read.
Numbered(t) ==
  /\ Items(queue[t]) \cap Outside(t) = {}
  /\ Known(t) \subseteq 1..composed /\ store \subseteq 1..composed
  /\ Items(dispatched) \subseteq 1..composed
  /\ \A o \in Items(ops[t]) : o.prompt <= composed

\* The outbox will hold what waits.
Matches(t) == missed \cap {"put", "delete", "list"} = {} => Final(t) = Known(t)

\* What waits comes after what was dispatched; the outbox will hold nothing else.
InTurn(t) ==
  ~early /\ missed \cap {"delete", Cut("delete"), "list"} = {} =>
    /\ Ascending(dispatched) /\ Ascending(queue[t])
    /\ Final(t) \subseteq Known(t)
    /\ \A d \in Items(dispatched), x \in Known(t) : d < x

PageInv(t) == Numbered(t) /\ Matches(t) /\ InTurn(t)

\* One more element at the end keeps a sequence ascending, if it is above the rest.
LEMMA AppendAscends ==
  ASSUME NEW S, NEW s \in Seq(S), NEW e \in S, Ascending(s), \A x \in Items(s) : x < e
  PROVE  Ascending(Append(s, e))
<1>1. /\ Len(s) \in Nat /\ DOMAIN s = 1..Len(s) /\ DOMAIN Append(s, e) = 1..(Len(s) + 1)
      /\ Append(s, e)[Len(s) + 1] = e /\ \A i \in 1..Len(s) : Append(s, e)[i] = s[i]
  OBVIOUS
<1>2. ASSUME NEW i \in 1..(Len(s) + 1), NEW j \in 1..(Len(s) + 1), i < j
      PROVE  Append(s, e)[i] < Append(s, e)[j]
  <2>1. i \in 1..Len(s)
    BY <1>1, <1>2
  <2>2. CASE j \in 1..Len(s)
    BY <1>1, <1>2, <2>1, <2>2 DEF Ascending
  <2>3. CASE j = Len(s) + 1
    BY <1>1, <2>1, <2>3 DEF Items
  <2> QED
    BY <1>1, <2>2, <2>3
<1> QED
  BY <1>1, <1>2 DEF Ascending

\* A dispatch, with what waits at q and outside it.
LEMMA OneSends ==
  ASSUME TypeOK, NEW t \in Pages, NEW p \in Prompts, NEW q \in Seq(Prompts),
         Sends(t, p, q), PageInv(t),
         Items(q) \cup Outside(t)' = Known(t), Items(q) \cap Outside(t)' = {},
         UNCHANGED <<store, missed>>,
         composed' \in Nat, composed <= composed', p <= composed',
         \/ q # << >> /\ p = Head(q) /\ (Ascending(queue[t]) => Ascending(q))
         \/ q = << >> /\ p = composed + 1,
         ~BeforeOutbox(t, q) => Outside(t)' = {}
  PROVE  PageInv(t)'
<1>0. /\ composed \in Nat /\ dispatched \in Seq(Prompts) /\ store \in SUBSET Prompts
      /\ ops[t] \in Seq(Call) /\ ops \in [Pages -> Seq(Call)] /\ Prompts \subseteq Nat
  <2>1. ops \in [Pages -> Seq(Call)] /\ ops[t] \in Seq(Call) /\ dispatched \in Seq(Prompts)
    BY AllTypes DEF PageTypes
  <2> QED
    BY <2>1, AllTypes DEF OtherTypes, Prompts
<1>1. /\ Items(queue'[t]) = Items(q) \ {p}
      /\ Ascending(q) => Ascending(queue'[t])
      /\ Items(ops'[t]) = Items(ops[t]) \cup (IF p \in Items(q) THEN {Delete(p)} ELSE {})
      /\ Items(dispatched') = Items(dispatched) \cup {p}
      /\ dispatched' = Append(dispatched, p) /\ early' = (early \/ BeforeOutbox(t, q))
      /\ ops' = IF p \in Items(q) THEN [ops EXCEPT ![t] = Append(ops[t], Delete(p))] ELSE ops
  <2>1. /\ Items(queue'[t]) = Items(q) \ {p}
        /\ Ascending(q) => Ascending(queue'[t])
        /\ Items(ops'[t]) = Items(ops[t]) \cup (IF p \in Items(q) THEN {Delete(p)} ELSE {})
        /\ Items(dispatched') = Items(dispatched) \cup {p}
    BY SendsIs
  <2> QED
    BY <2>1 DEF Sends

<1>2. q # << >> => Head(q) \in Items(q)
  BY TailItems
<1>3. p \notin Outside(t)' /\ (p \in Items(q) \/ p = composed + 1) /\ (p \notin Items(q) => p \notin Known(t))
  <2>1. composed + 1 \notin Known(t)
    BY <1>0 DEF PageInv, Numbered
  <2> QED
    BY <1>2, <2>1
<1>4. Known(t)' = Known(t) \ {p}
  BY <1>1, <1>3 DEF Known
<1>5. Final(t)' = Final(t) \ {p} \/ (p \notin Known(t) /\ Final(t)' = Final(t))
  <2>1. CASE p \in Items(q)
    <3>1. ops'[t] = Append(ops[t], Delete(p)) /\ Delete(p) \in Call
      BY <1>0, <1>1, <2>1, PutDelete
    <3>2. PICK s, o : s = store /\ o = ops[t]
      OBVIOUS
    <3>3. AfterAll(s, Append(o, Delete(p))) = After(AfterAll(s, o), Delete(p))
      BY <1>0, <3>1, <3>2, AfterMore
    <3>4. After(AfterAll(s, o), Delete(p)) = AfterAll(s, o) \ {p}
      BY DEF After, Delete
    <3>5. Final(t)' = AfterAll(s, Append(o, Delete(p))) /\ Final(t) = AfterAll(s, o)
      BY <3>1, <3>2 DEF Final, AfterAll
    <3> QED
      BY <3>3, <3>4, <3>5
  <2>2. CASE p \notin Items(q)
    BY <1>1, <1>3, <2>2 DEF Final, AfterAll
  <2> QED
    BY <2>1, <2>2
<1>6. Numbered(t)'
  <2>1. Items(queue'[t]) \cap Outside(t)' = {}
    BY <1>1
  <2>2. \A x \in 1..composed : x \in 1..composed'
    BY <1>0
  <2>3. p \in 1..composed'
    BY <1>0 DEF Prompts
  <2>4. \A o \in Items(ops'[t]) : o.prompt <= composed'
    <3>1. \A o \in Items(ops[t]) : o.prompt <= composed'
      <4>1. \A o \in Items(ops[t]) : o.prompt <= composed /\ o.prompt \in Nat
        BY <1>0, CallIs DEF PageInv, Numbered, Items
      <4> QED
        BY <1>0, <4>1
    <3>2. Delete(p).prompt = p
      BY DEF Delete
    <3> QED
      BY <1>1, <3>1, <3>2
  <2>5. Known(t)' \subseteq 1..composed' /\ store' \subseteq 1..composed' /\ Items(dispatched') \subseteq 1..composed'
    BY <1>1, <1>4, <2>2, <2>3 DEF PageInv, Numbered
  <2> QED
    BY <2>1, <2>4, <2>5 DEF Numbered
<1>7. Matches(t)'
  BY <1>4, <1>5 DEF PageInv, Matches
<1>8. InTurn(t)'
  <2> SUFFICES ASSUME ~early', missed' \cap {"delete", Cut("delete"), "list"} = {}
               PROVE  /\ Ascending(dispatched') /\ Ascending(queue'[t])
                      /\ Final(t)' \subseteq Known(t)'
                      /\ \A d \in Items(dispatched'), x \in Known(t)' : d < x
    BY DEF InTurn
  <2>1. /\ ~early /\ Outside(t)' = {} /\ Ascending(dispatched) /\ Ascending(queue[t])
        /\ Final(t) \subseteq Known(t) /\ \A d \in Items(dispatched), x \in Known(t) : d < x
    BY <1>1 DEF PageInv, InTurn
  <2>2. Ascending(q)
    BY <2>1 DEF Ascending
  <2>3. \A d \in Items(dispatched) : d < p
    <3>1. \A d \in Items(dispatched) : d < composed + 1
      BY <1>0 DEF PageInv, Numbered
    <3>2. p \in Items(q) => p \in Known(t)
      OBVIOUS
    <3> QED
      BY <1>3, <2>1, <3>1, <3>2
  <2>4. Ascending(dispatched')
    BY <1>0, <1>1, <2>1, <2>3, AppendAscends
  <2>5. ASSUME NEW x \in Items(q), x # p PROVE p < x
    <3>1. DOMAIN q = 1..Len(q) /\ Len(q) \in Nat /\ (q # << >> => Head(q) = q[1] /\ Len(q) > 0)
      OBVIOUS
    <3>2. PICK j \in 1..Len(q) : x = q[j]
      BY <2>5, <3>1 DEF Items
    <3>3. q # << >> /\ p = q[1] /\ 1 < j /\ 1 \in 1..Len(q)
      BY <2>5, <3>1, <3>2
    <3> QED
      BY <2>2, <3>1, <3>2, <3>3 DEF Ascending
  <2>6. \A x \in Known(t)' : x \in Items(q) /\ x # p
    BY <1>4, <2>1
  <2>7. \A d \in Items(dispatched'), x \in Known(t)' : d < x
    BY <1>1, <1>4, <2>1, <2>5, <2>6
  <2>8. Final(t)' \subseteq Known(t)'
    BY <1>4, <1>5, <2>1
  <2> QED
    BY <1>1, <2>2, <2>4, <2>7, <2>8
<1> QED
  BY <1>6, <1>7, <1>8 DEF PageInv

\* The oldest prompt, a new prompt, or the oldest of the merged queue is dispatched.
LEMMA OneFlushes ==
  ASSUME TypeOK, NEW t \in Pages, PageInv(t), Flushes(t) PROVE PageInv(t)'
<1>1. PICK q : q = queue[t]
  OBVIOUS
<1>2. q \in Seq(Prompts) /\ q # << >> /\ Head(q) \in Prompts /\ composed \in Nat
  <2>1. q \in Seq(Prompts) /\ composed \in Nat
    BY <1>1 DEF TypeOK
  <2>2. q # << >>
    BY <1>1 DEF Flushes
  <2> QED
    BY <2>1, <2>2
<1>3. Sends(t, Head(q), q) /\ UNCHANGED Others
  BY <1>1 DEF Flushes
<1>4. Outside(t)' = Outside(t) /\ UNCHANGED <<store, missed, composed>>
  BY <1>3 DEF Outside, Others
<1>5. Items(q) \cup Outside(t)' = Known(t) /\ Items(q) \cap Outside(t)' = {}
  BY <1>1, <1>4 DEF Known, PageInv, Numbered
<1>6. Head(q) \in Items(q) /\ Head(q) <= composed'
  <2>1. Head(q) \in Items(q)
    BY <1>2, TailItems
  <2> QED
    BY <1>2, <1>4, <1>5, <2>1 DEF PageInv, Numbered
<1>7. ~BeforeOutbox(t, q) => Outside(t)' = {}
  <2>1. ToSet(q) = Items(q)
    BY SameItems
  <2> QED
    BY <1>4, <1>5, <2>1 DEF BeforeOutbox, Outside
<1>8. composed' \in Nat /\ composed <= composed' /\ (Ascending(queue[t]) => Ascending(q))
  BY <1>1, <1>2, <1>4 DEF Ascending
<1> QED
  BY <1>2, <1>3, <1>4, <1>5, <1>6, <1>7, <1>8, OneSends

LEMMA OneSendsNew ==
  ASSUME TypeOK, NEW t \in Pages, PageInv(t), SendsNew(t) PROVE PageInv(t)'
<1>1. PICK p : p = composed + 1
  OBVIOUS
<1>2. /\ p \in Prompts /\ << >> \in Seq(Prompts) /\ composed \in Nat /\ composed' = p
      /\ queue[t] = << >> /\ Sends(t, p, << >>)
      /\ UNCHANGED <<hydration, listed, store, missed>>
  BY <1>1 DEF TypeOK, SendsNew
<1>3. Outside(t)' = Outside(t) /\ Items(<< >>) = {}
  BY <1>2 DEF Outside, Items
<1>4. Items(<< >>) \cup Outside(t)' = Known(t) /\ Items(<< >>) \cap Outside(t)' = {}
  BY <1>2, <1>3 DEF Known
<1>5. ~BeforeOutbox(t, << >>) => Outside(t)' = {}
  <2>1. ToSet(<< >>) = Items(<< >>)
    BY SameItems
  <2> QED
    BY <1>3, <2>1 DEF BeforeOutbox, Outside
<1>6. composed' \in Nat /\ composed <= composed' /\ p <= composed'
  BY <1>1, <1>2
<1>7. PICK q : q = << >>
  OBVIOUS
<1>8. /\ q \in Seq(Prompts) /\ Sends(t, p, q) /\ q = << >> /\ p = composed + 1
      /\ Items(q) \cup Outside(t)' = Known(t) /\ Items(q) \cap Outside(t)' = {}
      /\ ~BeforeOutbox(t, q) => Outside(t)' = {}
  BY <1>1, <1>2, <1>4, <1>5, <1>7 DEF Sends, BeforeOutbox
<1> QED
  BY <1>2, <1>6, <1>8, OneSends

LEMMA OneMerges ==
  ASSUME TypeOK, NEW t \in Pages, PageInv(t), Merges(t) PROVE PageInv(t)'
<1>1. /\ hydration[t] = "merge" /\ hydration'[t] = "done" /\ composed \in Nat
      /\ UNCHANGED <<store, composed, missed>> /\ queue \in [Pages -> Seq(Prompts)]
  BY DEF Merges, TypeOK
<1>2. Outside(t) = listed[t] /\ Outside(t)' = {}
  BY <1>1 DEF Outside
<1>3. PICK q : q = Merged(t)
  OBVIOUS
<1>4. q \in Seq(Prompts) /\ Items(q) = Known(t) /\ Ascending(q)
  BY <1>2, <1>3, MergedIs DEF Known
<1>5. CASE listed[t] = {} /\ UNCHANGED <<queue, ops, sealing, dispatched, early>>
  <2>1. Known(t)' = Known(t) /\ Final(t)' = Final(t)
    BY <1>1, <1>2, <1>5 DEF Known, Final, AfterAll
  <2> QED
    BY <1>1, <1>2, <1>5, <2>1 DEF PageInv, Numbered, Matches, InTurn
<1>6. CASE queue' = [queue EXCEPT ![t] = q] /\ UNCHANGED <<ops, sealing, dispatched, early>>
  <2>1. queue'[t] = q
    BY <1>1, <1>6
  <2>2. Known(t)' = Known(t) /\ Final(t)' = Final(t) /\ Ascending(queue'[t])
    BY <1>1, <1>2, <1>4, <1>6, <2>1 DEF Known, Final, AfterAll
  <2> QED
    BY <1>1, <1>2, <1>6, <2>2 DEF PageInv, Numbered, Matches, InTurn
<1>7. CASE q # << >> /\ Sends(t, Head(q), q)
  <2>1. Head(q) \in Prompts /\ Head(q) \in Items(q)
    BY <1>4, <1>7, TailItems
  <2>2. Head(q) <= composed' /\ composed' \in Nat /\ composed <= composed'
    BY <1>1, <1>4, <2>1 DEF PageInv, Numbered
  <2>3. Items(q) \cup Outside(t)' = Known(t) /\ Items(q) \cap Outside(t)' = {}
    BY <1>2, <1>4
  <2> QED
    BY <1>1, <1>2, <1>4, <1>7, <2>1, <2>2, <2>3, OneSends
<1> QED
  BY <1>3, <1>5, <1>6, <1>7 DEF Merges

\* A new prompt is queued.
LEMMA OneEnqueues ==
  ASSUME TypeOK, NEW t \in Pages, PageInv(t), Enqueues(t) PROVE PageInv(t)'
<1>1. PICK p : p = composed + 1
  OBVIOUS
<1>2. /\ p \in Prompts /\ composed' = p /\ queue' = [queue EXCEPT ![t] = Append(queue[t], p)]
      /\ ops' = [ops EXCEPT ![t] = Append(ops[t], Put(p))]
      /\ UNCHANGED <<sealing, dispatched, early, hydration, listed, store, sent, missed>>
  BY <1>1 DEF Enqueues
<1>3. /\ queue \in [Pages -> Seq(Prompts)] /\ ops \in [Pages -> Seq(Call)]
      /\ queue[t] \in Seq(Prompts) /\ ops[t] \in Seq(Call) /\ Put(p) \in Call
      /\ composed \in Nat /\ store \in SUBSET Prompts
  <2>1. ops \in [Pages -> Seq(Call)] /\ ops[t] \in Seq(Call)
    BY AllTypes DEF PageTypes
  <2>2. Put(p) \in Call
    BY <1>2, PutDelete
  <2> QED
    BY <2>1, <2>2 DEF TypeOK
<1>4. queue'[t] = Append(queue[t], p) /\ ops'[t] = Append(ops[t], Put(p)) /\ Outside(t)' = Outside(t)
  BY <1>2, <1>3 DEF Outside
<1>5. Items(queue'[t]) = Items(queue[t]) \cup {p} /\ Items(ops'[t]) = Items(ops[t]) \cup {Put(p)}
  <2>1. Items(Append(queue[t], p)) = Items(queue[t]) \cup {p}
    BY <1>2, <1>3, AppendItems
  <2>2. Items(Append(ops[t], Put(p))) = Items(ops[t]) \cup {Put(p)}
    BY <1>3, AppendItems
  <2> QED
    BY <1>4, <2>1, <2>2
<1>6. Known(t)' = Known(t) \cup {p}
  BY <1>4, <1>5 DEF Known
<1>7. Final(t)' = Final(t) \cup {p}
  <2>1. PICK s, o : s = store /\ o = ops[t]
    OBVIOUS
  <2>2. AfterAll(s, Append(o, Put(p))) = After(AfterAll(s, o), Put(p))
    BY <1>3, <2>1, AfterMore
  <2>3. After(AfterAll(s, o), Put(p)) = AfterAll(s, o) \cup {p}
    BY DEF After, Put
  <2>4. Final(t)' = AfterAll(s, Append(o, Put(p))) /\ Final(t) = AfterAll(s, o)
    BY <1>2, <1>4, <2>1 DEF Final, AfterAll
  <2> QED
    BY <2>2, <2>3, <2>4
<1>8. p \notin Known(t) /\ (\A x \in Known(t) : x < p) /\ (\A d \in Items(dispatched) : d < p)
  BY <1>1, <1>3 DEF PageInv, Numbered
<1>9. Numbered(t)'
  <2>1. Items(queue'[t]) \cap Outside(t)' = {}
    BY <1>4, <1>5, <1>8 DEF PageInv, Numbered, Known
  <2>2. \A x \in 1..composed : x \in 1..composed'
    BY <1>1, <1>2, <1>3
  <2>3. p \in 1..composed'
    BY <1>1, <1>2, <1>3
  <2>4. \A o \in Items(ops'[t]) : o.prompt <= composed'
    <3>1. \A o \in Items(ops[t]) : o.prompt <= composed /\ o.prompt \in Nat
      BY <1>3, CallIs DEF PageInv, Numbered, Items, Prompts
    <3>2. Put(p).prompt = p /\ p <= composed'
      BY <1>1, <1>2, <1>3 DEF Put
    <3>3. \A o \in Items(ops[t]) : o.prompt <= composed'
      BY <1>1, <1>2, <1>3, <3>1
    <3> QED
      BY <1>5, <3>2, <3>3
  <2>5. Known(t)' \subseteq 1..composed' /\ store' \subseteq 1..composed' /\ Items(dispatched') \subseteq 1..composed'
    BY <1>2, <1>6, <2>2, <2>3 DEF PageInv, Numbered
  <2> QED
    BY <2>1, <2>4, <2>5 DEF Numbered
<1>10. Matches(t)'
  BY <1>2, <1>6, <1>7 DEF PageInv, Matches
<1>11. InTurn(t)'
  <2>1. Ascending(queue[t]) => Ascending(queue'[t])
    BY <1>2, <1>3, <1>4, <1>8, AppendAscends DEF Known
  <2> QED
    BY <1>2, <1>6, <1>7, <1>8, <2>1 DEF PageInv, InTurn
<1> QED
  BY <1>9, <1>10, <1>11 DEF PageInv
\* Steps that leave the queue, the outbox and the calls alone, and may only note that
\* something failed.
LEMMA OneRests ==
  ASSUME NEW t \in Pages, PageInv(t), missed \subseteq missed',
         UNCHANGED <<queue, ops, store, hydration, listed, dispatched, early, composed>>
  PROVE  PageInv(t)'
<1>1. Outside(t)' = Outside(t) /\ Known(t)' = Known(t) /\ Final(t)' = Final(t)
  BY DEF Outside, Known, Final, AfterAll
<1>2. Numbered(t)'
  BY <1>1 DEF PageInv, Numbered
<1>3. Matches(t)'
  BY <1>1 DEF PageInv, Matches
<1>4. InTurn(t)'
  <2>1. ~early' /\ missed' \cap {"delete", Cut("delete"), "list"} = {}
          => ~early /\ missed \cap {"delete", Cut("delete"), "list"} = {}
    OBVIOUS
  <2> QED
    BY <1>1, <2>1 DEF PageInv, InTurn
<1> QED
  BY <1>2, <1>3, <1>4 DEF PageInv

\* list() reads the outbox, or fails.
LEMMA OneLists ==
  ASSUME TypeOK, NEW t \in Pages, PageInv(t), HydrateList(t) PROVE PageInv(t)'
<1>1. /\ hydration[t] = "list" /\ UNCHANGED <<queue, ops, store, dispatched, early, composed>>
      /\ hydration \in [Pages -> {"list", "merge", "done"}] /\ listed \in [Pages -> SUBSET Prompts]
  BY DEF HydrateList, TypeOK
<1>2. Final(t)' = Final(t) /\ Outside(t) = store
  BY <1>1 DEF Final, AfterAll, Outside
<1>3. CASE hydration' = [hydration EXCEPT ![t] = "merge"] /\ listed' = [listed EXCEPT ![t] = store] /\ UNCHANGED missed
  <2>1. hydration'[t] = "merge" /\ listed'[t] = store
    BY <1>1, <1>3
  <2>2. Outside(t)' = Outside(t) /\ Known(t)' = Known(t)
    BY <1>1, <1>2, <2>1 DEF Outside, Known
  <2> QED
    BY <1>1, <1>2, <1>3, <2>2 DEF PageInv, Numbered, Matches, InTurn
<1>4. CASE hydration' = [hydration EXCEPT ![t] = "done"] /\ missed' = missed \cup {"list"}
  <2>1. hydration'[t] = "done"
    BY <1>1, <1>4
  <2>2. Outside(t)' = {} /\ Known(t)' = Items(queue[t])
    BY <1>1, <2>1 DEF Outside, Known
  <2>3. Numbered(t)'
    BY <1>1, <2>2 DEF PageInv, Numbered, Known
  <2> QED
    BY <1>4, <2>3 DEF PageInv, Matches, InTurn
<1> QED
  BY <1>3, <1>4 DEF HydrateList, Set

\* The database does the oldest call, which changes nothing at the end, or refuses it.
LEMMA OneWrites ==
  ASSUME TypeOK, NEW t \in Pages, PageInv(t), StorageWrite(t) PROVE PageInv(t)'
<1>1. /\ ops[t] # << >> /\ hydration[t] # "list" /\ ops' = [ops EXCEPT ![t] = Tail(ops[t])]
      /\ \/ store' = After(store, Head(ops[t])) /\ UNCHANGED missed
         \/ missed' = missed \cup {Head(ops[t]).op} /\ UNCHANGED store
      /\ UNCHANGED <<queue, hydration, listed, dispatched, early, composed>>
  BY DEF StorageWrite, Set
<1>2. PICK s, o : s = store /\ o = ops[t]
  OBVIOUS
<1>3. /\ ops \in [Pages -> Seq(Call)] /\ o \in Seq(Call) /\ o # << >> /\ Head(o) \in Call
      /\ s \in SUBSET Prompts /\ composed \in Nat
  <2>1. ops \in [Pages -> Seq(Call)] /\ o \in Seq(Call)
    BY <1>2, AllTypes DEF PageTypes
  <2>2. Head(o) \in Call
    BY <1>1, <1>2, <2>1
  <2> QED
    BY <1>1, <1>2, <2>1, <2>2 DEF TypeOK
<1>4. ops'[t] = Tail(o) /\ Outside(t)' = Outside(t) /\ Known(t)' = Known(t)
  BY <1>1, <1>2, <1>3 DEF Outside, Known
<1>5. Final(t) = AfterAll(s, o) /\ (store' = s => Final(t)' = AfterAll(s, Tail(o)))
  BY <1>2, <1>4 DEF Final, AfterAll
<1>6. Items(o) = {Head(o)} \cup Items(Tail(o))
  BY <1>3, TailItems
<1>7. \A c \in Items(o) : c.prompt <= composed
  BY <1>2 DEF PageInv, Numbered
<1>8. Head(o).prompt \in 1..composed /\ \A c \in Items(ops'[t]) : c.prompt <= composed
  <2>1. Head(o).prompt \in Prompts /\ Head(o).prompt <= composed
    BY <1>3, <1>6, <1>7, CallIs
  <2> QED
    BY <1>3, <1>4, <1>6, <1>7, <2>1 DEF Prompts
<1>9. CASE store' = After(s, Head(o)) /\ UNCHANGED missed
  <2>1. Final(t)' = AfterAll(After(s, Head(o)), Tail(o))
    BY <1>4, <1>9 DEF Final, AfterAll
  <2>2. Final(t)' = Final(t)
    BY <1>3, <1>5, <2>1, AfterFirst
  <2>3. store' \subseteq 1..composed
    <3>1. store' \subseteq s \cup {Head(o).prompt}
      BY <1>9 DEF After
    <3> QED
      BY <1>2, <1>8, <3>1 DEF PageInv, Numbered
  <2>4. Numbered(t)'
    BY <1>1, <1>4, <1>8, <2>3 DEF PageInv, Numbered
  <2> QED
    BY <1>1, <1>4, <1>9, <2>2, <2>4 DEF PageInv, Matches, InTurn
<1>10. CASE missed' = missed \cup {Head(o).op} /\ UNCHANGED store
  <2>1. Numbered(t)'
    BY <1>1, <1>4, <1>8, <1>10 DEF PageInv, Numbered
  <2>2. Head(o).op = "put" \/ Head(o).op = "delete"
    BY <1>3, CallIs
  <2>3. Matches(t)'
    BY <1>10, <2>2 DEF Matches
  <2>4. InTurn(t)'
    <3>1. CASE Head(o).op = "delete"
      BY <1>10, <3>1 DEF InTurn
    <3>2. CASE Head(o).op = "put"
      <4>1. Final(t)' \subseteq Final(t)
        BY <1>2, <1>3, <1>5, <1>10, <3>2, AfterFirst
      <4>2. missed' \cap {"delete", Cut("delete"), "list"} = {}
              => missed \cap {"delete", Cut("delete"), "list"} = {}
        BY <1>10
      <4> QED
        BY <1>1, <1>4, <4>1, <4>2 DEF PageInv, InTurn
    <3> QED
      BY <2>2, <3>1, <3>2
  <2> QED
    BY <2>1, <2>3, <2>4 DEF PageInv
<1> QED
  BY <1>1, <1>2, <1>9, <1>10

\* A reload leaves what the outbox holds by then, which is all that waits.
LEMMA OneReloads ==
  ASSUME TypeOK, NEW t \in Pages, PageInv(t), Reload(t) PROVE PageInv(t)'
<1>1. PICK s, o : s = store /\ o = ops[t]
  OBVIOUS
<1>2. /\ ops \in [Pages -> Seq(Call)] /\ o \in Seq(Call) /\ Len(o) \in Nat
      /\ s \in SUBSET Prompts /\ composed \in Nat
      /\ queue \in [Pages -> Seq(Prompts)] /\ hydration \in [Pages -> {"list", "merge", "done"}]
  <2>1. ops \in [Pages -> Seq(Call)] /\ o \in Seq(Call)
    BY <1>1, AllTypes DEF PageTypes
  <2> QED
    BY <1>1, <2>1 DEF TypeOK
<1>3. PICK n \in 0..Len(o) :
        /\ store' = AfterAll(s, SubSeq(o, 1, n))
        /\ missed \subseteq missed'
        /\ \A k \in n + 1..Len(o) : Cut(o[k].op) \in missed'
  <2>1. PICK n \in 0..(IF hydration[t] = "list" THEN 0 ELSE Len(ops[t])) :
          /\ store' = AfterAll(store, SubSeq(ops[t], 1, n))
          /\ missed' = missed \cup {Cut(ops[t][k].op) : k \in n + 1..Len(ops[t])}
                               \cup {Cut("seal") : p \in sealing[t]}
    BY DEF Reload
  <2>2. n \in 0..Len(o)
    BY <1>1, <1>2, <2>1
  <2>3. store' = AfterAll(s, SubSeq(o, 1, n))
    BY <1>1, <2>1 DEF AfterAll
  <2>4. \A k \in n + 1..Len(o) : Cut(o[k].op) \in missed'
    BY <1>1, <2>1
  <2> QED
    BY <2>1, <2>2, <2>3, <2>4
<1>4. /\ queue'[t] = << >> /\ ops'[t] = << >> /\ hydration'[t] = "list"
      /\ UNCHANGED <<dispatched, early, composed>>
  BY <1>2 DEF Reload, Set
<1>5. Outside(t)' = store' /\ Known(t)' = store' /\ Items(queue'[t]) = {} /\ Items(ops'[t]) = {} /\ Ascending(queue'[t])
  BY <1>4 DEF Outside, Known, Items, Ascending
<1>6. Final(t)' = store'
  <2>1. PICK z : z = store'
    OBVIOUS
  <2>2. Final(t)' = AfterAll(z, << >>)
    BY <1>4, <2>1 DEF Final, AfterAll
  <2> QED
    BY <2>1, <2>2, AfterNone
<1>7. store' \subseteq 1..composed
  <2> SUFFICES ASSUME NEW p \in store' PROVE p \in 1..composed
    OBVIOUS
  <2>1. \/ p \in s
        \/ p \in Prompts /\ \E k \in DOMAIN SubSeq(o, 1, n) : SubSeq(o, 1, n)[k] = Put(p)
    BY <1>3, AfterAllIs
  <2>2. \A k \in DOMAIN SubSeq(o, 1, n) : k \in DOMAIN o /\ SubSeq(o, 1, n)[k] = o[k]
    BY <1>2
  <2>3. CASE p \in s
    BY <1>1, <2>3 DEF PageInv, Numbered
  <2>4. CASE p \in Prompts /\ Put(p) \in Items(o)
    <3>1. Put(p).prompt = p
      BY DEF Put
    <3>2. p <= composed
      BY <1>1, <2>4, <3>1 DEF PageInv, Numbered
    <3> QED
      BY <1>2, <2>4, <3>2 DEF Prompts
  <2> QED
    BY <2>1, <2>2, <2>3, <2>4 DEF Items
<1>8. Numbered(t)'
  BY <1>4, <1>5, <1>7 DEF PageInv, Numbered
<1>9. Matches(t)'
  BY <1>5, <1>6 DEF Matches
<1>10. InTurn(t)'
  <2> SUFFICES ASSUME ~early', missed' \cap {"delete", Cut("delete"), "list"} = {}
               PROVE  /\ Ascending(dispatched') /\ Ascending(queue'[t])
                      /\ Final(t)' \subseteq Known(t)'
                      /\ \A d \in Items(dispatched'), x \in Known(t)' : d < x
    BY DEF InTurn
  <2>1. /\ Ascending(dispatched) /\ Final(t) \subseteq Known(t)
        /\ \A d \in Items(dispatched), x \in Known(t) : d < x
    BY <1>3, <1>4 DEF PageInv, InTurn
  <2>2. \A k \in n + 1..Len(o) : o[k].op = "put"
    <3>1. \A k \in n + 1..Len(o) : o[k] \in Call
      BY <1>2, <1>3
    <3>2. \A k \in n + 1..Len(o) : o[k].op # "delete"
      BY <1>3
    <3> QED
      BY <3>1, <3>2, CallIs
  <2>3. store' \subseteq Final(t)
    <3>1. Final(t) = AfterAll(s, o)
      BY <1>1 DEF Final, AfterAll
    <3> QED
      BY <1>2, <1>3, <2>2, <3>1, AfterPrefix
  <2> QED
    BY <1>4, <1>5, <1>6, <2>1, <2>3 DEF Ascending
<1> QED
  BY <1>8, <1>9, <1>10 DEF PageInv
\* With one page, every step keeps its invariant.
LEMMA OnePageInvariant ==
  ASSUME OnePage PROVE Spec => [](TypeOK /\ \A t \in Pages : PageInv(t))
<1>1. Init => \A t \in Pages : PageInv(t)
  <2> SUFFICES ASSUME Init, NEW t \in Pages PROVE PageInv(t)
    OBVIOUS
  <2>1. /\ queue[t] = << >> /\ ops[t] = << >> /\ hydration[t] = "list" /\ store = {}
        /\ dispatched = << >> /\ composed = 0
    BY DEF Init
  <2>2. Outside(t) = {} /\ Items(queue[t]) = {} /\ Items(ops[t]) = {} /\ Items(dispatched) = {}
    BY <2>1 DEF Outside, Items
  <2>3. Known(t) = {} /\ Ascending(queue[t]) /\ Ascending(dispatched)
    BY <2>1, <2>2 DEF Known, Ascending
  <2>4. Final(t) = {}
    BY <2>1 DEF Final, AfterAll
  <2> QED
    BY <2>1, <2>2, <2>3, <2>4 DEF PageInv, Numbered, Matches, InTurn
<1>2. ASSUME TypeOK, \A t \in Pages : PageInv(t), [Next]_vars PROVE (\A t \in Pages : PageInv(t))'
  <2> SUFFICES ASSUME NEW t \in Pages PROVE PageInv(t)'
    OBVIOUS
  <2>1. PageInv(t) /\ \A u \in Pages : u = t
    BY <1>2 DEF OnePage
  <2>2. CASE Rests \/ Sealed(t)
    <3>1. missed \subseteq missed' /\ UNCHANGED <<queue, ops, store, hydration, listed, dispatched, early, composed>>
      BY <2>2 DEF Rests, Others, Sealed
    <3> QED
      BY <2>1, <3>1, OneRests
  <2>3. CASE PageStep(t)
    BY <1>2, <2>1, <2>2, <2>3, OneFlushes, OneEnqueues, OneSendsNew, OneMerges, OneLists, OneWrites, OneReloads DEF PageStep
  <2> QED
    BY <1>2, <2>1, <2>2, <2>3, PromptStep
<1>3. Spec => []TypeOK
  BY PromptTypes
<1> QED
  BY <1>1, <1>2, <1>3, PTL DEF Spec

\* With one page, the outbox follows the queue (enqueuePrompt, removeFromQueue and
\* hydrateOutbox): once its writes are done and its hydration is over, it holds exactly
\* the queued prompts, whatever a reload cut short, unless the database refused a call.
THEOREM OutboxFollowsQueue ==
  ASSUME OnePage PROVE Spec => []OutboxMatchesQueue
<1>1. ASSUME \A t \in Pages : PageInv(t) PROVE OutboxMatchesQueue
  <2> SUFFICES ASSUME missed \cap {"put", "delete", "list"} = {}, NEW t \in Pages,
                      ops[t] = << >>, hydration[t] = "done"
               PROVE  store = ToSet(queue[t])
    BY DEF OutboxMatchesQueue
  <2>1. PICK s, q : s = store /\ q = queue[t]
    OBVIOUS
  <2>2. AfterAll(s, << >>) = s /\ ToSet(q) = Items(q)
    BY AfterNone, SameItems
  <2>3. Final(t) = AfterAll(s, << >>) /\ Known(t) = Items(q)
    BY <2>1 DEF Final, AfterAll, Known, Outside
  <2>4. Final(t) = Known(t)
    BY <1>1 DEF PageInv, Matches
  <2> QED
    BY <2>1, <2>2, <2>3, <2>4
<1> QED
  BY <1>1, OnePageInvariant, PTL

\* With one page, prompts are dispatched once and in the order they were composed
\* (flushNext, hydrateOutbox), unless one goes out before the outbox has been read, the
\* database failed, or a reload cut a delete short.
THEOREM PromptsGoOutInOrder ==
  ASSUME OnePage PROVE Spec => []DispatchedOnceInOrder
<1>1. ASSUME \A t \in Pages : PageInv(t) PROVE DispatchedOnceInOrder
  BY <1>1 DEF OnePage, PageInv, InTurn, Ascending, DispatchedOnceInOrder
<1> QED
  BY <1>1, OnePageInvariant, PTL
==============================================================================

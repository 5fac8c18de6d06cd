------------------------- MODULE CiAutoIterateProofs -------------------------
(***************************************************************************)
(* For any commits, any number of attempts and any order of polls, runs,   *)
(* stops, pull requests and restarts: the agent's turns are bounded, a     *)
(* stop holds, and no failing commit drives two turns in a row.            *)
(***************************************************************************)
EXTENDS CiAutoIterate, TLAPS

-----------------------------------------------------------------------------
(* The inductive invariant.                                                  *)

\* The types of what the loop does not decide on.
RestOK ==
  /\ checks \in Readings
  /\ opened \in Nat
  /\ session \in {"running", "paused", "disconnected", "ended", "gone"}
  /\ watched \in Nat /\ stored \in Nat /\ registering \in Nat
  /\ notified \in Shas \cup {NoSha}
  /\ poll \in [pr : Nat, reading : Readings, answered : BOOLEAN]
  /\ failedRuns \in Nat

\* The types of the loop's state.
LoopTypes ==
  /\ gate \in Shas \cup {NoSha}
  /\ loop \in [attempts : Nat, active : BOOLEAN,
               reason : {"none", "user_stop", "max_attempts", "ineligible", "green"},
               userStopped : BOOLEAN]
  /\ turns \in Nat
  /\ loops \in Nat /\ prompted \in Nat
  /\ stopped \in BOOLEAN
  /\ weighed \in Shas \cup {NoSha}
  /\ drove \in SUBSET Shas

\* The turns of the loops that are over, and those of the one that is not.
Counted ==
  /\ loop.attempts <= MaxAttempts
  /\ prompted + turns <= MaxAttempts * loops + loop.attempts

\* A stop in force is remembered, and onGreen does not take it for a fresh record.
StopKept ==
  /\ stopped = loop.userStopped
  /\ stopped => loop.reason = "user_stop"

\* The gate remembers the commit weighed last in this loop, and a loop in which
\* one was weighed is not taken for a fresh one.
GateKept ==
  /\ weighed # NoSha => gate = weighed
  /\ ~loop.active /\ loop.attempts = 0 /\ loop.reason = "none" => weighed = NoSha

LoopOK == LoopTypes /\ Counted /\ StopKept /\ GateKept

IInv == RestOK /\ LoopOK

\* What a step may not do: decide on a turn against a stop, or twice in a row for a commit.
StepOK ==
  /\ stopped => turns' <= turns
  /\ turns' > turns => weighed' = NoSha \/ weighed' # weighed

-----------------------------------------------------------------------------
(* The steps of the loop.                                                    *)

\* The bound of one more loop.
LEMMA OneMore ==
  ASSUME NEW n \in Nat
  PROVE  MaxAttempts * n \in Nat /\ MaxAttempts * (n + 1) = MaxAttempts * n + MaxAttempts
BY IterateAssumption

\* A loop that ends is paid for by the count of loops.
LEMMA EndsCounted ==
  ASSUME LoopTypes, Counted, Ends
  PROVE  loops' \in Nat /\ prompted + turns <= MaxAttempts * loops'
<1> USE IterateAssumption DEF LoopTypes
<1>1. MaxAttempts * loops \in Nat /\ MaxAttempts * (loops + 1) = MaxAttempts * loops + MaxAttempts
  BY OneMore
<1>2. CASE loop.attempts > 0 \/ stopped
  <2>1. loops' = loops + 1
    BY <1>2 DEF Ends
  <2> QED
    BY <1>1, <2>1 DEF Counted
<1>3. CASE ~(loop.attempts > 0 \/ stopped)
  <2>1. loops' = loops /\ loop.attempts = 0
    BY <1>3 DEF Ends
  <2> QED
    BY <1>1, <2>1 DEF Counted
<1> QED
  BY <1>2, <1>3

\* A reset or a restart starts a loop from nothing.
LEMMA FreshLoop ==
  ASSUME LoopTypes, loops' \in Nat, turns' \in Nat, UNCHANGED prompted,
         prompted + turns' <= MaxAttempts * loops',
         loop' = FreshRecord \/ loop' = [FreshRecord EXCEPT !.reason = "green"],
         gate' = NoSha, stopped' = FALSE, weighed' = NoSha, drove' = {}
  PROVE  LoopOK'
<1> USE IterateAssumption
<1>1. /\ loop' \in [attempts : Nat, active : BOOLEAN,
                    reason : {"none", "user_stop", "max_attempts", "ineligible", "green"},
                    userStopped : BOOLEAN]
      /\ loop'.attempts = 0 /\ loop'.userStopped = FALSE
  <2>1. CASE loop' = FreshRecord
    BY <2>1 DEF FreshRecord
  <2>2. CASE loop' = [FreshRecord EXCEPT !.reason = "green"]
    BY <2>2 DEF FreshRecord
  <2> QED
    BY <2>1, <2>2
<1>2. LoopTypes'
  BY <1>1 DEF LoopTypes
<1>3. Counted'
  <2>1. MaxAttempts * loops' \in Nat
    BY OneMore
  <2> QED
    BY <1>1, <1>2, <2>1 DEF Counted, LoopTypes
<1>4. StopKept' /\ GateKept'
  BY <1>1 DEF StopKept, GateKept
<1> QED
  BY <1>2, <1>3, <1>4 DEF LoopOK

\* The three sites of reset and forget.
LEMMA ResetOK ==
  ASSUME LoopOK, Reset, UNCHANGED <<turns, prompted>>
  PROVE  LoopOK' /\ StepOK
<1>1. loops' \in Nat /\ prompted + turns <= MaxAttempts * loops'
  BY EndsCounted DEF LoopOK, Reset
<1>2. LoopOK'
  BY <1>1, FreshLoop DEF LoopOK, LoopTypes, Reset
<1> QED
  BY <1>2 DEF StepOK, LoopOK, LoopTypes

\* A green check.
LEMMA OnGreenOK ==
  ASSUME LoopOK, OnGreen, UNCHANGED <<turns, prompted>>
  PROVE  LoopOK' /\ StepOK
<1>1. CASE ~loop.active /\ loop.attempts = 0 /\ loop.reason = "none"
  <2>1. UNCHANGED <<loop, stopped, weighed, loops>> /\ gate' = NoSha /\ drove' = {}
    BY <1>1 DEF OnGreen
  <2>2. weighed = NoSha
    BY <1>1 DEF LoopOK, GateKept
  <2> QED
    BY <2>1, <2>2 DEF LoopOK, LoopTypes, Counted, StopKept, GateKept, StepOK
<1>2. CASE ~(~loop.active /\ loop.attempts = 0 /\ loop.reason = "none")
  <2>1. /\ loop' = [FreshRecord EXCEPT !.reason = "green"] /\ gate' = NoSha
        /\ stopped' = FALSE /\ weighed' = NoSha /\ drove' = {} /\ Ends
    BY <1>2 DEF OnGreen
  <2>2. loops' \in Nat /\ prompted + turns <= MaxAttempts * loops'
    BY <2>1, EndsCounted DEF LoopOK
  <2>3. LoopOK'
    BY <2>1, <2>2, FreshLoop DEF LoopOK, LoopTypes
  <2> QED
    BY <2>3 DEF StepOK, LoopOK, LoopTypes
<1> QED
  BY <1>1, <1>2

\* A failure that is refused leaves its reason and no turn.
LEMMA RefusedOK ==
  ASSUME LoopOK, NEW why \in {"user_stop", "max_attempts", "ineligible"},
         loop.userStopped => why = "user_stop",
         loop' = [loop EXCEPT !.active = FALSE, !.reason = why],
         NEW s \in Shas \cup {NoSha}, weighed' = s,
         gate' = (IF s = NoSha THEN gate ELSE s),
         drove' = drove, UNCHANGED <<turns, loops, stopped, prompted>>
  PROVE  LoopOK' /\ StepOK
<1>1. /\ loop' \in [attempts : Nat, active : BOOLEAN,
                    reason : {"none", "user_stop", "max_attempts", "ineligible", "green"},
                    userStopped : BOOLEAN]
      /\ loop'.attempts = loop.attempts /\ loop'.userStopped = loop.userStopped
      /\ loop'.reason = why
  BY DEF LoopOK, LoopTypes
<1>2. LoopTypes' /\ Counted'
  BY <1>1 DEF LoopOK, LoopTypes, Counted
<1>3. StopKept'
  BY <1>1 DEF LoopOK, StopKept
<1>4. GateKept'
  BY <1>1 DEF GateKept
<1> QED
  BY <1>2, <1>3, <1>4 DEF LoopOK, StepOK, LoopTypes

\* A failure from either source.
LEMMA WeighOK ==
  ASSUME LoopOK, NEW s \in Shas \cup {NoSha}, Weigh(s), UNCHANGED prompted
  PROVE  LoopOK' /\ StepOK
<1> USE IterateAssumption
<1>1. UNCHANGED <<loops, stopped>>
  BY DEF Weigh
<1>2. CASE ~ShouldDrive(s)
  BY <1>1, <1>2 DEF Weigh, LoopOK, LoopTypes, Counted, StopKept, GateKept, StepOK
<1>3. CASE ShouldDrive(s)
  <2>1. /\ gate' = (IF s = NoSha THEN gate ELSE s)
        /\ weighed' = s /\ OnFailure
        /\ drove' \in SUBSET Shas /\ (turns' = turns => drove' = drove)
    BY <1>3 DEF Weigh, LoopOK, LoopTypes
  <2>2. CASE loop.userStopped
    BY <1>1, <2>1, <2>2, RefusedOK DEF OnFailure
  <2>3. CASE ~loop.userStopped /\ loop.attempts >= MaxAttempts
    BY <1>1, <2>1, <2>3, RefusedOK DEF OnFailure
  <2>4. CASE ~loop.userStopped /\ ~(loop.attempts >= MaxAttempts) /\ ~Eligible
    BY <1>1, <2>1, <2>4, RefusedOK DEF OnFailure
  <2>5. CASE ~loop.userStopped /\ ~(loop.attempts >= MaxAttempts) /\ Eligible
    <3>1. /\ loop' = [loop EXCEPT !.attempts = @ + 1, !.active = TRUE, !.reason = "none"]
          /\ turns' = turns + 1
      BY <2>1, <2>5 DEF OnFailure
    <3>2. /\ loop' \in [attempts : Nat, active : BOOLEAN,
                        reason : {"none", "user_stop", "max_attempts", "ineligible", "green"},
                        userStopped : BOOLEAN]
          /\ loop'.attempts = loop.attempts + 1 /\ loop'.userStopped = loop.userStopped
          /\ loop'.active = TRUE
      <4>1. /\ loop.attempts + 1 \in Nat
            /\ loop \in [attempts : Nat, active : BOOLEAN,
                         reason : {"none", "user_stop", "max_attempts", "ineligible", "green"},
                         userStopped : BOOLEAN]
        BY DEF LoopOK, LoopTypes
      <4> QED
        BY <3>1, <4>1
    <3>3. LoopTypes'
      BY <1>1, <2>1, <3>1, <3>2 DEF LoopOK, LoopTypes
    <3>4. Counted'
      <4>1. MaxAttempts * loops \in Nat
        BY OneMore DEF LoopOK, LoopTypes
      <4> QED
        BY <1>1, <2>5, <3>1, <3>2, <4>1 DEF LoopOK, LoopTypes, Counted
    <3>5. ~stopped
      BY <2>5 DEF LoopOK, StopKept
    <3>6. StopKept'
      BY <1>1, <3>2, <3>5 DEF LoopOK, StopKept
    <3>7. GateKept'
      BY <2>1, <3>2 DEF GateKept
    <3>8. weighed' = NoSha \/ weighed' # weighed
      BY <1>3, <2>1 DEF ShouldDrive, LoopOK, GateKept
    <3> QED
      BY <3>3, <3>4, <3>5, <3>6, <3>7, <3>8 DEF LoopOK, StepOK
  <2> QED
    BY <2>2, <2>3, <2>4, <2>5
<1> QED
  BY <1>2, <1>3

\* A step that leaves the loop alone.
LEMMA SameLoop ==
  ASSUME LoopOK, UNCHANGED <<gate, loop, turns, loops, prompted, stopped, weighed, drove>>
  PROVE  LoopOK' /\ StepOK
BY DEF LoopOK, LoopTypes, Counted, StopKept, GateKept, StepOK

-----------------------------------------------------------------------------
(* The steps of the specification.                                           *)

\* The invariant holds at first.
LEMMA InitInv == Init => IInv
<1> SUFFICES ASSUME Init PROVE IInv
  OBVIOUS
<1> USE IterateAssumption DEF Init
<1>1. RestOK
  BY DEF RestOK, Readings, NoPoll, Unknown
<1>2. LoopTypes
  BY DEF LoopTypes, FreshRecord
<1>3. Counted
  <2>1. MaxAttempts * 0 = 0
    OBVIOUS
  <2> QED
    BY <2>1 DEF Counted, FreshRecord
<1>4. StopKept /\ GateKept
  BY DEF StopKept, GateKept, FreshRecord
<1> QED
  BY <1>1, <1>2, <1>3, <1>4 DEF IInv, LoopOK

\* The steps of the loop's turns and of the user's stop.
LEMMA TurnsInv ==
  ASSUME IInv, PromptSession \/ PromptFails \/ StopByUser
  PROVE  IInv' /\ StepOK
<1> USE DEF IInv
<1>1. RestOK'
  BY DEF PromptSession, PromptFails, StopByUser, RestOK, world, watcher
<1>2. CASE PromptSession \/ PromptFails
  <2>1. /\ turns' = turns - 1 /\ turns > 0 /\ prompted' \in {prompted, prompted + 1}
        /\ UNCHANGED <<gate, loop, loops, stopped, weighed, drove>>
    BY <1>2 DEF PromptSession, PromptFails
  <2>2. LoopTypes' /\ StepOK
    BY <2>1 DEF LoopOK, LoopTypes, StepOK
  <2>3. Counted'
    <3>1. MaxAttempts * loops \in Nat
      BY OneMore DEF LoopOK, LoopTypes
    <3> QED
      BY <2>1, <3>1 DEF LoopOK, LoopTypes, Counted
  <2>4. StopKept' /\ GateKept'
    BY <2>1 DEF LoopOK, StopKept, GateKept
  <2> QED
    BY <1>1, <2>2, <2>3, <2>4 DEF LoopOK
<1>3. CASE StopByUser
  <2>1. /\ loop' = [loop EXCEPT !.userStopped = TRUE, !.active = FALSE, !.reason = "user_stop"]
        /\ stopped' = TRUE /\ UNCHANGED <<gate, turns, loops, prompted, weighed, drove>>
    BY <1>3 DEF StopByUser
  <2>2. /\ loop' \in [attempts : Nat, active : BOOLEAN,
                      reason : {"none", "user_stop", "max_attempts", "ineligible", "green"},
                      userStopped : BOOLEAN]
        /\ loop'.attempts = loop.attempts /\ loop'.userStopped = TRUE
        /\ loop'.reason = "user_stop"
    BY <2>1 DEF LoopOK, LoopTypes
  <2>3. LoopTypes' /\ Counted' /\ StepOK
    BY <2>1, <2>2 DEF LoopOK, LoopTypes, Counted, StepOK
  <2>4. StopKept' /\ GateKept'
    BY <2>1, <2>2 DEF LoopOK, StopKept, GateKept
  <2> QED
    BY <1>1, <2>3, <2>4 DEF LoopOK
<1> QED
  BY <1>2, <1>3

\* A poll starts or is answered, a registration or a failed run waits, the session
\* or the checks change: nothing the loop decides on.
LEMMA QuietInv ==
  ASSUME IInv,
         \/ StartPoll \/ (\E r \in Readings : FetchState(r)) \/ FetchFails
         \/ PrOpened \/ RegisterFails \/ RunFails
         \/ Pause \/ Resume \/ RemoveSession
         \/ \E r \in Readings : ChecksChange(r)
  PROVE  IInv' /\ StepOK
<1> USE DEF IInv, Readings
<1>1. UNCHANGED <<gate, loop, turns, loops, prompted, stopped, weighed, drove>>
  BY DEF StartPoll, FetchState, FetchFails, PrOpened, RegisterFails, RunFails, Pause, Resume,
         RemoveSession, ChecksChange, driver
<1>2. CASE StartPoll \/ FetchFails \/ \E r \in Readings : FetchState(r)
  BY <1>1, <1>2, SameLoop DEF StartPoll, FetchState, FetchFails, RestOK, NoPoll, Unknown,
     world, driver
<1>3. CASE PrOpened \/ RegisterFails \/ RunFails
  BY <1>1, <1>3, SameLoop DEF PrOpened, RegisterFails, RunFails, RestOK, Unknown, world,
     watcher, driver
<1>4. CASE \/ Pause \/ Resume \/ RemoveSession
           \/ \E r \in Readings : ChecksChange(r)
  BY <1>1, <1>4, SameLoop DEF Pause, Resume, RemoveSession, ChecksChange, RestOK, world,
     watcher, driver
<1> QED
  BY <1>2, <1>3, <1>4

\* The continuation of a poll.
LEMMA PollDoneInv ==
  ASSUME IInv, PollDone
  PROVE  IInv' /\ StepOK
<1> DEFINE r == poll.reading
<1> USE DEF IInv
<1>1. r \in Readings /\ (r.state = "failing" => r.sha \in Shas) /\ r.sha \in Shas \cup {NoSha}
  BY DEF RestOK, Readings, Unknown, Passing, Failing
<1>2. notified' \in Shas \cup {NoSha}
  BY <1>1 DEF PollDone, RestOK
<1>3. RestOK'
  BY <1>2 DEF PollDone, RestOK, NoPoll, Readings, Unknown, world
<1>4. UNCHANGED prompted
  BY DEF PollDone
<1>5. \/ OnGreen /\ UNCHANGED turns
      \/ Weigh(r.sha)
      \/ UNCHANGED <<gate, loop, turns, loops, stopped, weighed, drove>>
  BY DEF PollDone
<1>6. LoopOK' /\ StepOK
  BY <1>1, <1>4, <1>5, OnGreenOK, WeighOK, SameLoop
<1> QED
  BY <1>3, <1>6

\* A failed run's commit is known.
LEMMA DriveInv ==
  ASSUME IInv, NEW s \in Shas \cup {NoSha}, DriveFromRunFailure(s)
  PROVE  IInv' /\ StepOK
<1> USE DEF IInv
<1>1. RestOK'
  BY DEF DriveFromRunFailure, RestOK, world, watcher
<1>2. LoopOK' /\ StepOK
  BY WeighOK DEF DriveFromRunFailure
<1> QED
  BY <1>1, <1>2

\* A new pull request is watched, the session is archived, the daemon restarts.
LEMMA ResetsInv ==
  ASSUME IInv, RegisterCiCheckWatch \/ ArchiveSession \/ Restart
  PROVE  IInv' /\ StepOK
<1> USE DEF IInv
<1>1. RestOK'
  <2>1. CASE RegisterCiCheckWatch \/ ArchiveSession
    BY <2>1 DEF RegisterCiCheckWatch, ArchiveSession, RestOK, world
  <2>2. CASE Restart
    <3>1. NoPoll \in [pr : Nat, reading : Readings, answered : BOOLEAN]
      BY DEF NoPoll, Unknown, Readings
    <3> QED
      BY <2>2, <3>1 DEF Restart, RestOK, world
  <2> QED
    BY <2>1, <2>2
<1>2. CASE RegisterCiCheckWatch \/ ArchiveSession
  <2>1. Reset /\ UNCHANGED <<turns, prompted>>
    BY <1>2 DEF RegisterCiCheckWatch, ArchiveSession
  <2> QED
    BY <1>1, <2>1, ResetOK
<1>3. CASE Restart
  <2>1. /\ loop' = FreshRecord /\ gate' = NoSha /\ stopped' = FALSE /\ weighed' = NoSha
        /\ drove' = {} /\ loops' = loops + 1 /\ turns' = 0 /\ prompted' = prompted
    BY <1>3 DEF Restart
  <2>2. loops \in Nat /\ turns \in Nat /\ prompted \in Nat
    BY DEF LoopOK, LoopTypes
  <2>3. loops' \in Nat /\ turns' \in Nat /\ prompted + turns' <= MaxAttempts * loops'
    <3>1. /\ MaxAttempts * loops \in Nat
          /\ MaxAttempts * (loops + 1) = MaxAttempts * loops + MaxAttempts
      BY <2>2, OneMore
    <3> QED
      BY <2>1, <2>2, <3>1, IterateAssumption DEF LoopOK, LoopTypes, Counted
  <2>4. LoopOK'
    BY <2>1, <2>3, FreshLoop DEF LoopOK
  <2> QED
    BY <1>1, <2>1, <2>2, <2>4 DEF StepOK
<1> QED
  BY <1>2, <1>3

\* Every step keeps the invariant and does only what it may.
LEMMA NextInv == IInv /\ [Next]_vars => IInv' /\ (StepOK \/ UNCHANGED vars)
<1> SUFFICES ASSUME IInv, [Next]_vars PROVE IInv' /\ (StepOK \/ UNCHANGED vars)
  OBVIOUS
<1>1. CASE UNCHANGED vars
  <2>1. LoopOK'
    BY <1>1, SameLoop DEF vars, IInv
  <2> QED
    BY <1>1, <2>1 DEF vars, IInv, RestOK
<1>2. CASE Next
  BY <1>2, TurnsInv, QuietInv, PollDoneInv, DriveInv, ResetsInv DEF Next, Node, World
<1> QED
  BY <1>1, <1>2

-----------------------------------------------------------------------------
(* The results.                                                              *)

\* The invariant holds throughout.
THEOREM IterateInvariant == Spec => []IInv
BY InitInv, NextInv, PTL DEF Spec

\* The watcher's, the gate's and the controller's state keep their types.
THEOREM TypeCorrect == Spec => []TypeOK
<1>1. IInv => TypeOK
  BY DEF IInv, RestOK, LoopOK, LoopTypes, TypeOK
<1> QED
  BY <1>1, IterateInvariant, PTL

\* The agent gets at most MaxAttempts turns per loop.
THEOREM LoopNeverSpins == Spec => []TurnsBounded
<1>1. IInv => TurnsBounded
  <2> SUFFICES ASSUME IInv PROVE TurnsBounded
    OBVIOUS
  <2>1. /\ MaxAttempts * loops \in Nat
        /\ MaxAttempts * (loops + 1) = MaxAttempts * loops + MaxAttempts
    BY OneMore DEF IInv, LoopOK, LoopTypes
  <2> QED
    BY <2>1, IterateAssumption DEF IInv, LoopOK, LoopTypes, Counted, TurnsBounded
<1> QED
  BY <1>1, IterateInvariant, PTL

\* No failure decides on a turn while a stop is in force.
THEOREM StopIsSticky == Spec => StopHolds
<1>1. IInv /\ [Next]_vars => [stopped => turns' <= turns]_vars
  BY NextInv DEF StepOK
<1> QED
  BY <1>1, IterateInvariant, PTL DEF Spec, StopHolds

\* No commit drives two turns in a row, whichever source reports it first: between them
\* another failure was weighed.
THEOREM NotTwiceInARow == Spec => RepeatNeedsAnother

<1>1. IInv /\ [Next]_vars
        => [turns' > turns => weighed' = NoSha \/ weighed' # weighed]_vars
  BY NextInv DEF StepOK
<1> QED
  BY <1>1, IterateInvariant, PTL DEF Spec, RepeatNeedsAnother

==============================================================================

---------------------------- MODULE NodeLockProofs ----------------------------
(***************************************************************************)
(* The lock of node-lock.ts excludes, for any number of processes, attempts*)
(* and reboots, except through an unlink of a file that had been replaced. *)
(* The argument: until such an unlink, whoever created the file and is     *)
(* still running has it at lockPath (Owned), and a process about to unlink *)
(* has inspected the file of a process that has ended (Inspected), so the  *)
(* file it unlinks is nobody's.                                            *)
(***************************************************************************)
EXTENDS NodeLock, TLAPS

\* A running creator's file is at lockPath, written once it holds the lock.
Owned ==
  ~mistaken => \A p \in Procs : /\ pc[p] = "write" => file = p /\ ~written
                                /\ pc[p] \in Holding => file = p /\ written

\* What a process goes by: the file it read was written by a started process,
\* which has ended if it was found stale.
Inspected ==
  \A p \in Procs :
    /\ pc[p] \in {"check", "recheck", "unlink"} => seen[p] \in Procs /\ pc[seen[p]] # "idle"
    /\ pc[p] \in {"recheck", "unlink"} => pc[seen[p]] \in Ended

\* Running processes belong to the current boot, and files to started processes.
Current ==
  /\ \A p \in Procs : Running(p) => bootOf[p] = boot
  /\ file # None => pc[file] # "idle"

IInv == TypeOK /\ Owned /\ Inspected /\ Current

-----------------------------------------------------------------------------
\* The states of a process are distinct ones.
LEMMA Disjoint ==
  /\ Holding \cap Acquiring = {} /\ Holding \cap Ended = {} /\ Acquiring \cap Ended = {}
  /\ "idle" \notin Holding \cup Acquiring \cup Ended
  /\ {"create", "write", "read", "check", "recheck", "unlink"} = Acquiring
  /\ {"stopped", "dead", "held", "corrupt", "gaveUp"} = Ended
  /\ {"holding", "releasing"} = Holding
BY DEF Holding, Acquiring, Ended, Refused

\* The first state satisfies the invariant.
LEMMA InitInv == Init => IInv
<1> SUFFICES ASSUME Init PROVE IInv
  OBVIOUS
<1>1. 1 \in 1..MaxAttempts
  BY LockAssumption
<1>2. written \in BOOLEAN /\ mistaken \in BOOLEAN /\ torn \in BOOLEAN
  BY Zenon DEF Init
<1>3. TypeOK
  BY <1>1, <1>2 DEF Init, TypeOK
<1>4. Owned /\ Inspected /\ Current
  BY DEF Init, Owned, Inspected, Current, Running, Holding, Acquiring
<1> QED
  BY <1>3, <1>4 DEF IInv

\* NextAttempt leaves the process acquiring afresh, or refused.
LEMMA NextAttemptType ==
  ASSUME TypeOK, NEW p \in Procs, NextAttempt(p)
  PROVE  /\ attempt' \in [Procs -> 1..MaxAttempts]
         /\ \E l \in {"create", "gaveUp"} : pc' = [pc EXCEPT ![p] = l]
BY LockAssumption DEF NextAttempt, Goto, TypeOK

\* A step that only moves process p, without touching the file or what p has
\* read, to a place that is neither past an inspection nor past a creation.
LEMMA MoveInv ==
  ASSUME IInv, NEW p \in Procs, pc[p] # "idle",
         NEW l \in {"create", "read", "held", "corrupt", "gaveUp", "dead", "stopped"},
         pc' = [pc EXCEPT ![p] = l], l \in Acquiring => pc[p] \in Acquiring,
         pc[p] \in Ended => l \in Ended,
         attempt' \in [Procs -> 1..MaxAttempts],
         torn' \in BOOLEAN, contest' \in SUBSET Procs, misled' \in SUBSET Procs,
         UNCHANGED <<file, written, seen, boot, bootOf, reused, mistaken, dated>>
  PROVE  IInv'
<1>1. TypeOK'
  BY Disjoint DEF IInv, TypeOK
<1>2. Owned'
  BY DEF IInv, TypeOK, Owned, Holding
<1>3. Inspected'
  BY DEF IInv, TypeOK, Inspected, Ended, Refused
<1>4. Current'
  BY LockAssumption DEF IInv, TypeOK, Current, Running, Holding, Acquiring
<1> QED
  BY <1>1, <1>2, <1>3, <1>4 DEF IInv

\* Every step keeps the invariant.
LEMMA NextInv == IInv /\ [Next]_vars => IInv'
<1> SUFFICES ASSUME IInv, [Next]_vars PROVE IInv'
  OBVIOUS
<1> USE LockAssumption
<1>1. ASSUME NEW p \in Procs, Start(p) PROVE IInv'
  <2>1. TypeOK'
    BY <1>1, Disjoint DEF Start, Goto, IInv, TypeOK
  <2>2. Owned' /\ Inspected' /\ Current'
    BY <1>1 DEF Start, Goto, IInv, TypeOK, Owned, Inspected, Current, Running,
                Holding, Acquiring, Ended, Refused
  <2> QED
    BY <2>1, <2>2 DEF IInv
<1>2. ASSUME NEW p \in Procs, Create(p) PROVE IInv'
  <2>1. CASE file # None
    <3>1. pc' = [pc EXCEPT ![p] = "read"]
      BY <1>2, <2>1 DEF Create, Goto
    <3> QED
      BY <1>2, <2>1, <3>1, MoveInv, Disjoint DEF Create, IInv, TypeOK
  <2>2. CASE file = None
    <3>1. /\ file' = p /\ written' = FALSE /\ pc' = [pc EXCEPT ![p] = "write"] /\ pc[p] = "create"
          /\ dated' \in {dated, dated \cup {p}}
          /\ UNCHANGED <<seen, attempt, boot, bootOf, reused, mistaken, torn, contest, misled>>
      BY <1>2, <2>2 DEF Create, Goto
    <3>2. TypeOK'
      BY <3>1, Disjoint DEF IInv, TypeOK
    <3>3. Owned'
      BY <2>2, <3>1 DEF IInv, TypeOK, Owned, Holding
    <3>4. Inspected' /\ Current'
      BY <3>1 DEF IInv, TypeOK, Inspected, Current, Running, Holding, Acquiring, Ended, Refused
    <3> QED
      BY <3>2, <3>3, <3>4 DEF IInv
  <2> QED
    BY <2>1, <2>2
<1>3. ASSUME NEW p \in Procs, Write(p) PROVE IInv'
  <2>1. TypeOK'
    BY <1>3, Disjoint DEF Write, Goto, IInv, TypeOK
  <2>2. Owned'
    BY <1>3 DEF Write, Goto, IInv, TypeOK, Owned, Holding
  <2>3. Inspected' /\ Current'
    BY <1>3 DEF Write, Goto, IInv, TypeOK, Inspected, Current, Running, Holding,
                Acquiring, Ended, Refused
  <2> QED
    BY <2>1, <2>2, <2>3 DEF IInv
<1>4. ASSUME NEW p \in Procs, Read(p) PROVE IInv'
  <2>1. CASE file = None
    <3>1. NextAttempt(p) /\ pc[p] = "read"
          /\ UNCHANGED <<file, written, seen, boot, bootOf, reused, mistaken, torn, contest, dated, misled>>
      BY <1>4, <2>1 DEF Read
    <3> QED
      BY <3>1, NextAttemptType, MoveInv, Disjoint DEF IInv, TypeOK
  <2>2. CASE file # None /\ ~written
    <3>1. pc' = [pc EXCEPT ![p] = "corrupt"] /\ pc[p] = "read"
          /\ UNCHANGED <<file, written, seen, attempt, boot, bootOf, reused, mistaken, torn, contest, dated, misled>>
      BY <1>4, <2>2 DEF Read, Goto
    <3> QED
      BY <3>1, MoveInv, Disjoint DEF IInv, TypeOK
  <2>3. CASE file # None /\ written
    <3>1. /\ pc' = [pc EXCEPT ![p] = "check"] /\ pc[p] = "read"
          /\ seen' = [seen EXCEPT ![p] = file] /\ file \in Procs
          /\ UNCHANGED <<file, written, attempt, boot, bootOf, reused, mistaken, torn, contest, dated, misled>>
      BY <1>4, <2>3 DEF Read, Goto, IInv, TypeOK
    <3>2. TypeOK'
      BY <3>1, Disjoint DEF IInv, TypeOK
    <3>3. Owned' /\ Inspected' /\ Current'
      BY <3>1 DEF IInv, TypeOK, Owned, Inspected, Current, Running, Holding,
                  Acquiring, Ended, Refused
    <3> QED
      BY <3>2, <3>3 DEF IInv
  <2> QED
    BY <2>1, <2>2, <2>3
<1>5. ASSUME NEW p \in Procs, Check(p) PROVE IInv'
  <2> DEFINE h == seen[p]
  <2>0. PICK known \in BOOLEAN :
          /\ Goto(p, IF IsLive(h, known) THEN "held" ELSE "recheck")
          /\ misled' = IF h \in reused /\ ~Comparable(h, known) THEN misled \cup {p} ELSE misled
    BY <1>5 DEF Check
  <2>1. /\ pc[p] = "check" /\ h \in Procs /\ pc[h] # "idle" /\ misled' \in SUBSET Procs
        /\ UNCHANGED <<file, written, seen, attempt, boot, bootOf, reused, mistaken, torn, contest, dated>>
    BY <1>5, <2>0 DEF Check, IInv, Inspected, TypeOK
  <2>2. CASE IsLive(h, known)
    <3>1. pc' = [pc EXCEPT ![p] = "held"]
      BY <2>0, <2>2 DEF Goto
    <3> QED
      BY <2>1, <3>1, MoveInv, Disjoint DEF IInv, TypeOK
  <2>3. CASE ~IsLive(h, known)
    <3>1. pc' = [pc EXCEPT ![p] = "recheck"]
      BY <2>0, <2>3 DEF Goto
    <3>2. ~Running(h)
      BY <2>1, <2>3 DEF IsLive, IInv, Current
    <3>3. pc[h] \in Ended
      BY <2>1, <3>2 DEF Running, IInv, TypeOK
    <3>4. h # p /\ pc'[h] \in Ended
      BY <2>1, <3>1, <3>3, Disjoint DEF IInv, TypeOK
    <3>5. TypeOK'
      BY <2>1, <3>1, Disjoint DEF IInv, TypeOK
    <3>6. Owned' /\ Current'
      BY <2>1, <3>1 DEF IInv, TypeOK, Owned, Current, Running, Holding, Acquiring
    <3>7. Inspected'
      BY <2>1, <3>1, <3>4 DEF IInv, TypeOK, Inspected, Ended, Refused
    <3> QED
      BY <3>5, <3>6, <3>7 DEF IInv
  <2> QED
    BY <2>2, <2>3
<1>6. ASSUME NEW p \in Procs, Recheck(p) PROVE IInv'
  <2>1. pc[p] = "recheck"
        /\ UNCHANGED <<file, written, seen, boot, bootOf, reused, mistaken, torn, contest, dated, misled>>
    BY <1>6 DEF Recheck
  <2>2. CASE file = seen[p] /\ written
    <3>1. pc' = [pc EXCEPT ![p] = "unlink"] /\ attempt' = attempt
      BY <1>6, <2>2 DEF Recheck, Goto
    <3>2. TypeOK'
      BY <2>1, <3>1, Disjoint DEF IInv, TypeOK
    <3>3. Owned' /\ Current' /\ Inspected'
      BY <2>1, <3>1 DEF IInv, TypeOK, Owned, Inspected, Current, Running, Holding,
                        Acquiring, Ended, Refused
    <3> QED
      BY <3>2, <3>3 DEF IInv
  <2>3. CASE ~(file = seen[p] /\ written)
    <3>1. NextAttempt(p)
      BY <1>6, <2>3 DEF Recheck
    <3> QED
      BY <2>1, <3>1, NextAttemptType, MoveInv, Disjoint DEF IInv, TypeOK
  <2> QED
    BY <2>2, <2>3
<1>7. ASSUME NEW p \in Procs, Unlink(p) PROVE IInv'
  <2>1. /\ pc[p] = "unlink" /\ file' = None /\ written' = FALSE
        /\ mistaken' = (mistaken \/ file \notin {None, seen[p]})
        /\ UNCHANGED <<seen, boot, bootOf, reused, torn, contest, dated, misled>>
    BY <1>7 DEF Unlink
  <2>2. PICK l \in {"create", "gaveUp"} : pc' = [pc EXCEPT ![p] = l]
    BY <1>7, NextAttemptType DEF Unlink, IInv
  <2>3. TypeOK'
    <3>1. attempt' \in [Procs -> 1..MaxAttempts]
      BY <1>7, NextAttemptType DEF Unlink, IInv
    <3> QED
      BY <2>1, <2>2, <3>1, Disjoint DEF IInv, TypeOK
  <2>4. Owned'
    <3> SUFFICES ASSUME ~mistaken', NEW q \in Procs
                 PROVE  pc'[q] # "write" /\ pc'[q] \notin Holding
      BY DEF Owned
    <3>1. ~mistaken /\ file \in {None, seen[p]}
      BY <2>1
    <3>2. pc[seen[p]] \in Ended /\ seen[p] \in Procs
      BY <2>1 DEF IInv, Inspected
    <3>3. pc[q] # "write" /\ pc[q] \notin Holding
      BY <3>1, <3>2, Disjoint DEF IInv, Owned
    <3> QED
      BY <2>2, <3>3, Disjoint DEF IInv, TypeOK
  <2>5. Inspected' /\ Current'
    BY <2>1, <2>2 DEF IInv, TypeOK, Inspected, Current, Running, Holding, Acquiring, Ended, Refused
  <2> QED
    BY <2>3, <2>4, <2>5 DEF IInv
<1>8. ASSUME NEW p \in Procs, ReleaseRead(p) PROVE IInv'
  <2>1. pc[p] = "holding" /\ contest' = {}
        /\ UNCHANGED <<file, written, seen, attempt, boot, bootOf, reused, mistaken, torn, dated, misled>>
    BY <1>8 DEF ReleaseRead
  <2>2. CASE file = p /\ written
    <3>1. pc' = [pc EXCEPT ![p] = "releasing"]
      BY <1>8, <2>2 DEF ReleaseRead, Goto
    <3>2. TypeOK'
      BY <2>1, <3>1, Disjoint DEF IInv, TypeOK
    <3>3. Owned' /\ Current' /\ Inspected'
      BY <2>1, <2>2, <3>1 DEF IInv, TypeOK, Owned, Inspected, Current, Running, Holding,
                        Acquiring, Ended, Refused
    <3> QED
      BY <3>2, <3>3 DEF IInv
  <2>3. CASE ~(file = p /\ written)
    <3>1. pc' = [pc EXCEPT ![p] = "stopped"]
      BY <1>8, <2>3 DEF ReleaseRead, Goto
    <3> QED
      BY <2>1, <3>1, MoveInv, Disjoint DEF IInv, TypeOK
  <2> QED
    BY <2>2, <2>3
<1>9. ASSUME NEW p \in Procs, ReleaseUnlink(p) PROVE IInv'
  <2>1. /\ pc[p] = "releasing" /\ file' = None /\ written' = FALSE
        /\ mistaken' = (mistaken \/ file \notin {None, p})
        /\ pc' = [pc EXCEPT ![p] = "stopped"] /\ contest' = {}
        /\ UNCHANGED <<seen, attempt, boot, bootOf, reused, torn, dated, misled>>
    BY <1>9 DEF ReleaseUnlink, Goto
  <2>2. TypeOK'
    BY <2>1, Disjoint DEF IInv, TypeOK
  <2>3. Owned'
    BY <2>1 DEF IInv, TypeOK, Owned, Holding
  <2>4. Inspected' /\ Current'
    BY <2>1 DEF IInv, TypeOK, Inspected, Current, Running, Holding, Acquiring, Ended, Refused
  <2> QED
    BY <2>2, <2>3, <2>4 DEF IInv
<1>10. ASSUME NEW p \in Procs, Crash(p) PROVE IInv'
  <2>1. /\ pc' = [pc EXCEPT ![p] = "dead"] /\ contest' = {} /\ torn' \in BOOLEAN
        /\ UNCHANGED <<file, written, seen, attempt, boot, bootOf, reused, mistaken, dated, misled>>
    BY <1>10 DEF Crash, Goto, IInv, TypeOK
  <2>2. pc[p] # "idle" /\ pc[p] \notin Ended
    BY <1>10, Disjoint DEF Crash, Running
  <2> QED
    BY <2>1, <2>2, MoveInv, Disjoint DEF IInv, TypeOK
<1>11. CASE Reboot
  <2>1. /\ pc' = [p \in Procs |-> IF Running(p) THEN "dead" ELSE pc[p]]
        /\ boot' = boot + 1 /\ contest' = {} /\ reused' \in SUBSET Procs
        /\ UNCHANGED <<file, written, seen, attempt, bootOf, mistaken, dated, misled>>
    BY <1>11 DEF Reboot
  <2>2. TypeOK'
    BY <1>11, <2>1, Disjoint DEF Reboot, IInv, TypeOK
  <2>3. \A p \in Procs : pc'[p] \in {"idle"} \cup Ended
    BY <2>1, Disjoint DEF Running, IInv, TypeOK
  <2>4. \A p \in Procs : pc'[p] = "idle" => pc[p] = "idle"
    BY <2>1
  <2>5. Owned' /\ Inspected' /\ Current'
    BY <2>1, <2>3, <2>4, Disjoint DEF IInv, TypeOK, Owned, Inspected, Current, Running
  <2> QED
    BY <2>2, <2>5 DEF IInv
<1>12. CASE UNCHANGED vars
  BY <1>12 DEF vars, IInv, TypeOK, Owned, Inspected, Current, Running
<1> QED
  BY <1>1, <1>2, <1>3, <1>4, <1>5, <1>6, <1>7, <1>8, <1>9, <1>10, <1>11, <1>12
     DEF Next, Acquire

\* The invariant holds throughout.
LEMMA Invariant == Spec => []IInv
BY InitInv, NextInv, PTL DEF Spec

\* The variables of the lock protocol keep their types.
THEOREM TypeCorrect == Spec => []TypeOK
<1>1. IInv => TypeOK
  BY DEF IInv
<1> QED
  BY <1>1, Invariant, PTL

\* acquireNodeLock excludes, for any number of processes, as long as no unlink
\* removed a file that had been replaced since it was inspected.
THEOREM Exclusive == Spec => []ExclusiveUnlessReplaced
<1>1. IInv => ExclusiveUnlessReplaced
  BY DEF IInv, Owned, ExclusiveUnlessReplaced, OneHolder
<1> QED
  BY <1>1, Invariant, PTL

-----------------------------------------------------------------------------
(* A contest has a winner.  Until somebody creates the file, a process of the  *)
(* contest is in its first attempt, or about to create while there is no file: *)
(* it can neither find a live holder (unless it is misled by a reused pid) nor *)
(* an empty file, and two attempts are enough (node-lock.ts makes five).       *)


\* Somebody has created the file and has not been killed or stopped.
Won == \E p \in Procs : pc[p] \in Holding \cup {"write"}

\* What a process can meet: a file without content is being written, one with
\* content is of a process that is past writing it, and a pid that was reused
\* is of an earlier boot.
Met ==
  /\ \A p \in Procs : pc[p] = "idle" => attempt[p] = 1
  /\ \A p \in Procs : pc[p] # "idle" => bootOf[p] <= boot
  /\ \A h \in reused : pc[h] # "idle" /\ bootOf[h] < boot
  /\ file # None /\ ~written /\ ~torn => pc[file] = "write"
  /\ file # None /\ written => pc[file] \in Holding \cup Ended
  /\ \A p \in Procs : pc[p] = "check" => pc[seen[p]] \in Holding \cup Ended

Open ==
  ~torn /\ ~Won =>
    \A p \in contest \ misled :
      /\ pc[p] \in Acquiring
      /\ attempt[p] = 1 \/ (file = None /\ pc[p] = "create")
      /\ pc[p] \in {"check", "recheck", "unlink"} => file \in {None, seen[p]}

CInv == IInv /\ Met /\ Open

\* The next attempt is the second one at most, of a process in its first.
LEMMA SecondAttempt ==
  ASSUME TypeOK, MaxAttempts >= 2, NEW p \in Procs, NextAttempt(p), attempt[p] = 1
  PROVE  pc' = [pc EXCEPT ![p] = "create"]
  BY LockAssumption DEF NextAttempt, Goto, TypeOK

\* The first state satisfies the invariant.
LEMMA ContestInit == Init => CInv
<1> SUFFICES ASSUME Init PROVE CInv
  OBVIOUS
<1>1. Met
  BY DEF Init, Met
<1>2. Open
  BY DEF Init, Open
<1> QED
  BY <1>1, <1>2, InitInv DEF CInv

\* A step of process p that leaves the other processes, the boots and the pids
\* alone, if what it leaves at lockPath and what it has read are as they should be.
LEMMA MetMoves ==
  ASSUME CInv, NEW p \in Procs, NEW l, pc' = [pc EXCEPT ![p] = l],
         pc[p] # "idle", l # "idle", pc[p] \in Holding \cup Ended => l \in Holding \cup Ended,
         UNCHANGED <<boot, bootOf, reused>>,
         \A q \in Procs \ {p} : attempt'[q] = attempt[q] /\ seen'[q] = seen[q],
         l # "check" \/ pc'[seen'[p]] \in Holding \cup Ended,
         file' # None /\ ~written' /\ ~torn' => pc'[file'] = "write",
         file' # None /\ written' => pc'[file'] \in Holding \cup Ended
  PROVE  Met'
<1>0. TypeOK /\ Inspected /\ Met
  BY DEF CInv, IInv
<1>1. /\ \A q \in Procs \ {p} : pc'[q] = pc[q]
      /\ pc'[p] = l
  BY <1>0 DEF TypeOK
<1>2. \A q \in Procs : pc[q] \in Holding \cup Ended => pc'[q] \in Holding \cup Ended
  BY <1>1
<1>3. ASSUME NEW q \in Procs, pc'[q] = "check" PROVE pc'[seen'[q]] \in Holding \cup Ended
  <2>1. CASE pc[q] = "check" /\ seen'[q] = seen[q]
    <3>1. seen[q] \in Procs /\ pc[seen[q]] \in Holding \cup Ended
      BY <1>0, <2>1 DEF Inspected, Met
    <3> QED
      BY <1>2, <2>1, <3>1
  <2>2. CASE q = p
    BY <1>1, <1>3, <2>2
  <2>3. CASE q # p
    BY <1>1, <1>3, <2>1, <2>3
  <2> QED
    BY <2>2, <2>3
<1>4. \A h \in reused' : pc'[h] # "idle" /\ bootOf'[h] < boot'
  BY <1>0, <1>1 DEF TypeOK, Met
<1>5. \A q \in Procs : /\ pc'[q] = "idle" => attempt'[q] = 1
                       /\ pc'[q] # "idle" => bootOf'[q] <= boot'
  BY <1>0, <1>1 DEF Met
<1> QED
  BY <1>3, <1>4, <1>5 DEF Met

\* Every step keeps what a process can meet.
LEMMA MetKept == CInv /\ [Next]_vars => Met'
<1> SUFFICES ASSUME CInv, [Next]_vars PROVE Met'
  OBVIOUS
<1> USE LockAssumption, Disjoint
<1>0. IInv /\ Met /\ TypeOK /\ Inspected
  BY DEF CInv, IInv
<1>1. ASSUME NEW p \in Procs, Start(p) PROVE Met'
  BY <1>0, <1>1 DEF Start, Goto, TypeOK, Met
<1>2. ASSUME NEW p \in Procs, Create(p) PROVE Met'
  <2>1. pc[p] = "create" /\ UNCHANGED <<seen, attempt, boot, bootOf, reused, torn>>
    BY <1>2 DEF Create
  <2>2. CASE file = None
    <3>1. file' = p /\ ~written' /\ pc' = [pc EXCEPT ![p] = "write"]
      BY <1>2, <2>2 DEF Create, Goto
    <3>2. pc'[p] = "write"
      BY <1>0, <3>1 DEF TypeOK
    <3> QED
      BY <2>1, <3>1, <3>2, MetMoves
  <2>3. CASE file # None
    <3>1. UNCHANGED <<file, written>> /\ pc' = [pc EXCEPT ![p] = "read"]
      BY <1>2, <2>3 DEF Create, Goto
    <3>2. /\ file' # None /\ ~written' /\ ~torn' => pc'[file'] = "write"
          /\ file' # None /\ written' => pc'[file'] \in Holding \cup Ended
      BY <1>0, <2>1, <3>1 DEF TypeOK, Met
    <3> QED
      BY <2>1, <3>1, <3>2, MetMoves
  <2> QED
    BY <2>2, <2>3
<1>3. ASSUME NEW p \in Procs, Write(p) PROVE Met'
  <2>1. /\ pc[p] = "write" /\ pc' = [pc EXCEPT ![p] = "holding"] /\ written' = (written \/ file = p)
        /\ UNCHANGED <<file, seen, attempt, boot, bootOf, reused, torn>>
    BY <1>3 DEF Write, Goto
  <2>2. pc'[p] = "holding" /\ \A q \in Procs \ {p} : pc'[q] = pc[q]
    BY <1>0, <2>1 DEF TypeOK
  <2>3. /\ file' # None /\ ~written' /\ ~torn' => pc'[file'] = "write"
        /\ file' # None /\ written' => pc'[file'] \in Holding \cup Ended
    <3>1. file # None => file \in Procs
      BY <1>0 DEF TypeOK
    <3>2. CASE file = p
      <4>1. written' /\ file' = p
        BY <2>1, <3>2
      <4>2. pc'[file'] \in Holding \cup Ended
        BY <2>2, <4>1
      <4> QED
        BY <4>1, <4>2, Zenon

    <3>3. CASE file # p
      BY <1>0, <2>1, <2>2, <3>1, <3>3 DEF Met
    <3> QED
      BY <3>2, <3>3
  <2> QED
    BY <2>1, <2>3, MetMoves
<1>4. ASSUME NEW p \in Procs, Read(p) PROVE Met'
  <2>0. pc[p] = "read" /\ UNCHANGED <<file, written, boot, bootOf, reused, torn>>
    BY <1>4 DEF Read
  <2>1. CASE file = None
    <3>1. PICK l \in {"create", "gaveUp"} : pc' = [pc EXCEPT ![p] = l]
      BY <1>0, <1>4, <2>1, NextAttemptType DEF Read
    <3>2. /\ \A q \in Procs \ {p} : attempt'[q] = attempt[q]
          /\ seen' = seen
      BY <1>0, <1>4, <2>1 DEF Read, NextAttempt, TypeOK
    <3> QED
      BY <2>0, <2>1, <3>1, <3>2, MetMoves
  <2>2. CASE file # None /\ ~written
    <3>1. pc' = [pc EXCEPT ![p] = "corrupt"] /\ UNCHANGED <<attempt, seen>>
      BY <1>4, <2>2 DEF Read, Goto
    <3>2. ~torn' => pc'[file'] = "write"
      BY <1>0, <2>0, <2>2, <3>1 DEF TypeOK, Met
    <3> QED
      BY <2>0, <2>2, <3>1, <3>2, MetMoves
  <2>3. CASE file # None /\ written
    <3>1. /\ pc' = [pc EXCEPT ![p] = "check"] /\ attempt' = attempt
          /\ seen' = [seen EXCEPT ![p] = file] /\ file \in Procs
      BY <1>0, <1>4, <2>3 DEF Read, Goto, TypeOK
    <3>2. pc[file] \in Holding \cup Ended /\ file # p
      BY <1>0, <2>0, <2>3 DEF Met
    <3>3. /\ seen'[p] = file /\ pc'[file] \in Holding \cup Ended
          /\ \A q \in Procs \ {p} : seen'[q] = seen[q]
      BY <1>0, <3>1, <3>2 DEF TypeOK
    <3> QED
      BY <2>0, <2>3, <3>1, <3>3, MetMoves
  <2> QED
    BY <2>1, <2>2, <2>3
<1>5. ASSUME NEW p \in Procs, Check(p) PROVE Met'
  <2>1. PICK l \in {"held", "recheck"} : pc' = [pc EXCEPT ![p] = l]
    BY <1>5 DEF Check, Goto
  <2> QED
    BY <1>0, <1>5, <2>1 DEF Check, TypeOK, Met
<1>6. ASSUME NEW p \in Procs, Recheck(p) \/ Unlink(p) PROVE Met'
  <2>1. PICK l \in {"create", "gaveUp", "unlink"} : pc' = [pc EXCEPT ![p] = l]
    BY <1>0, <1>6, NextAttemptType DEF Recheck, Unlink, Goto
  <2>2. \A q \in Procs \ {p} : attempt'[q] = attempt[q]
    BY <1>0, <1>6 DEF Recheck, Unlink, NextAttempt, TypeOK
  <2>3. /\ pc[p] \in {"recheck", "unlink"}
        /\ UNCHANGED <<seen, boot, bootOf, reused, torn>>
        /\ file' = None \/ UNCHANGED <<file, written>>
    BY <1>6 DEF Recheck, Unlink
  <2> QED
    BY <1>0, <2>1, <2>2, <2>3 DEF TypeOK, Met
<1>7. ASSUME NEW p \in Procs, ReleaseRead(p) \/ ReleaseUnlink(p) PROVE Met'
  <2>1. PICK l \in {"releasing", "stopped"} : pc' = [pc EXCEPT ![p] = l]
    BY <1>7 DEF ReleaseRead, ReleaseUnlink, Goto
  <2>2. /\ pc[p] \in Holding /\ UNCHANGED <<seen, attempt, boot, bootOf, reused, torn>>
        /\ file' = None \/ UNCHANGED <<file, written>>
    BY <1>7 DEF ReleaseRead, ReleaseUnlink
  <2> QED
    BY <1>0, <2>1, <2>2 DEF TypeOK, Met
<1>8. ASSUME NEW p \in Procs, Crash(p) PROVE Met'
  <2>1. /\ pc' = [pc EXCEPT ![p] = "dead"] /\ pc[p] # "idle" /\ torn' = (torn \/ pc[p] = "write")
        /\ UNCHANGED <<file, written, seen, attempt, boot, bootOf, reused>>
    BY <1>8 DEF Crash, Goto, Running
  <2>2. pc'[p] = "dead" /\ \A q \in Procs \ {p} : pc'[q] = pc[q]
    BY <1>0, <2>1 DEF TypeOK
  <2>3. file # None => file \in Procs
    BY <1>0 DEF TypeOK
  <2>4. file' # None /\ ~written' /\ ~torn' => pc'[file'] = "write"
    <3> SUFFICES ASSUME file # None, ~written, ~torn, pc[p] # "write" PROVE pc'[file] = "write"
      BY <2>1
    <3>1. pc[file] = "write"
      BY <1>0 DEF Met
    <3> QED
      BY <2>2, <2>3, <3>1
  <2>5. file' # None /\ written' => pc'[file'] \in Holding \cup Ended
    BY <1>0, <2>1, <2>2, <2>3 DEF Met
  <2> QED
    BY <2>1, <2>4, <2>5, MetMoves
<1>9. CASE Reboot
  <2>1. /\ pc' = [p \in Procs |-> IF Running(p) THEN "dead" ELSE pc[p]]
        /\ boot' = boot + 1 /\ reused' \in SUBSET {p \in Procs : pc[p] # "idle"}
        /\ torn' = (torn \/ \E p \in Procs : pc[p] = "write")
        /\ UNCHANGED <<file, written, seen, attempt, bootOf>>
    BY <1>9 DEF Reboot
  <2>2. \A p \in Procs : /\ pc'[p] = "idle" <=> pc[p] = "idle"
                         /\ pc[p] \in Holding \cup Ended => pc'[p] \in Holding \cup Ended
                         /\ pc'[p] # "check"
    BY <1>0, <2>1 DEF TypeOK, Running
  <2>3. file # None => file \in Procs
    BY <1>0 DEF TypeOK
  <2>4. file' # None /\ ~written' /\ ~torn' => pc'[file'] = "write"
    <3> SUFFICES ASSUME file # None, ~written, ~torn, \A p \in Procs : pc[p] # "write" PROVE FALSE
      BY <2>1
    <3> QED
      BY <1>0, <2>3 DEF Met
  <2>5. file' # None /\ written' => pc'[file'] \in Holding \cup Ended
    BY <1>0, <2>1, <2>2, <2>3 DEF Met
  <2>6. \A h \in reused' : pc'[h] # "idle" /\ bootOf'[h] < boot'
    <3> SUFFICES ASSUME NEW h \in reused' PROVE pc'[h] # "idle" /\ bootOf[h] < boot + 1
      BY <2>1
    <3>1. h \in Procs /\ pc[h] # "idle" /\ bootOf[h] \in Nat /\ boot \in Nat
      BY <1>0, <2>1 DEF TypeOK
    <3>2. bootOf[h] <= boot
      BY <1>0, <3>1 DEF Met
    <3> QED
      BY <2>2, <3>1, <3>2
  <2>7. \A p \in Procs : pc'[p] # "idle" => bootOf'[p] <= boot'
    <3> SUFFICES ASSUME NEW p \in Procs, pc[p] # "idle" PROVE bootOf[p] <= boot + 1
      BY <2>1, <2>2
    <3>1. bootOf[p] \in Nat /\ boot \in Nat /\ bootOf[p] <= boot
      BY <1>0 DEF TypeOK, Met
    <3> QED
      BY <3>1
  <2> QED
    BY <1>0, <2>1, <2>2, <2>4, <2>5, <2>6, <2>7 DEF Met
<1>10.
 CASE UNCHANGED vars
  BY <1>0, <1>10 DEF vars, Met
<1> QED
  BY <1>1, <1>2, <1>3, <1>4, <1>5, <1>6, <1>7, <1>8, <1>9, <1>10 DEF Next, Acquire

\* A step of p while nobody has created the file: the others stay where they are,
\* and if there is no file, there is none after it.
LEMMA OpenMoves ==
  ASSUME CInv, NEW p \in Procs, NEW l, pc' = [pc EXCEPT ![p] = l], l \notin Holding \cup {"write"},
         pc[p] \in Acquiring \ {"write"}, UNCHANGED <<torn, contest>>, file' \in {file, None},
         misled \subseteq misled', misled' \ misled \subseteq {p},
         \A q \in Procs \ {p} : attempt'[q] = attempt[q] /\ seen'[q] = seen[q],
         ~torn /\ ~Won /\ p \in contest \ misled' =>
           /\ l \in Acquiring
           /\ attempt'[p] = 1 \/ (file' = None /\ l = "create")
           /\ l \in {"check", "recheck", "unlink"} => file' \in {None, seen'[p]}
  PROVE  Open'
<1>0. TypeOK /\ Open
  BY DEF CInv, IInv
<1>1. pc'[p] = l /\ \A q \in Procs \ {p} : pc'[q] = pc[q]
  BY <1>0 DEF TypeOK
<1> SUFFICES ASSUME ~torn, ~Won', NEW q \in contest \ misled'
             PROVE  /\ pc'[q] \in Acquiring
                    /\ attempt'[q] = 1 \/ (file' = None /\ pc'[q] = "create")
                    /\ pc'[q] \in {"check", "recheck", "unlink"} => file' \in {None, seen'[q]}
  BY DEF Open
<1>2. q \in Procs
  BY <1>0 DEF TypeOK
<1>3. CASE Won
  <2>1. PICK r \in Procs : pc[r] \in Holding \cup {"write"}
    BY <1>3 DEF Won
  <2>2. r = p
    BY <1>1, <2>1 DEF Won
  <2> QED
    BY <2>1, <2>2, Disjoint
<1>4. CASE ~Won
  BY <1>0, <1>1, <1>2, <1>4 DEF Open
<1> QED
  BY <1>3, <1>4

\* Every step keeps the contest open until somebody has created the file.
LEMMA OpenKept == ASSUME MaxAttempts >= 2 PROVE CInv /\ [Next]_vars => Open'
<1> SUFFICES ASSUME CInv, [Next]_vars PROVE Open'
  OBVIOUS
<1> USE LockAssumption, Disjoint
<1>0. TypeOK /\ Inspected /\ Met /\ Open
  BY DEF CInv, IInv
<1>1. ASSUME NEW p \in Procs, Start(p) PROVE Open'
  <2>1. /\ pc[p] = "idle" /\ pc' = [pc EXCEPT ![p] = "create"] /\ contest' = contest \cup {p}
        /\ UNCHANGED <<file, torn, attempt, seen, misled>>
    BY <1>1 DEF Start, Goto
  <2>2. pc'[p] = "create" /\ \A q \in Procs \ {p} : pc'[q] = pc[q]
    BY <1>0, <2>1 DEF TypeOK
  <2>3. attempt[p] = 1
    BY <1>0, <2>1 DEF Met
  <2>4. Won => Won'
    BY <2>1, <2>2 DEF Won
  <2>5. \A q \in contest : q \in Procs
    BY <1>0 DEF TypeOK
  <2> QED
    BY <1>0, <2>1, <2>2, <2>3, <2>4, <2>5 DEF Open
<1>2. ASSUME NEW p \in Procs, Create(p) PROVE Open'
  <2>1. pc[p] = "create" /\ UNCHANGED <<seen, attempt, torn, contest, misled>>
    BY <1>2 DEF Create
  <2>2. CASE file = None
    <3>1. pc' = [pc EXCEPT ![p] = "write"]
      BY <1>2, <2>2 DEF Create, Goto
    <3>2. Won'
      BY <1>0, <3>1 DEF TypeOK, Won
    <3> QED
      BY <3>2 DEF Open
  <2>3. CASE file # None
    <3>1. file' = file /\ pc' = [pc EXCEPT ![p] = "read"]
      BY <1>2, <2>3 DEF Create, Goto
    <3>2. ~torn /\ ~Won /\ p \in contest \ misled => attempt'[p] = 1
      BY <1>0, <2>1, <2>3 DEF Open
    <3>3. pc[p] \in Acquiring \ {"write"} /\ "read" \in Acquiring /\ "read" \notin Holding \cup {"write"}
      BY <2>1
    <3> QED
      BY <2>1, <3>1, <3>2, <3>3, OpenMoves
  <2> QED
    BY <2>2, <2>3
<1>3. ASSUME NEW p \in Procs, Write(p) PROVE Open'
  <2>1. pc' = [pc EXCEPT ![p] = "holding"]
    BY <1>3 DEF Write, Goto
  <2>2. Won'
    BY <1>0, <2>1 DEF TypeOK, Won
  <2> QED
    BY <2>2 DEF Open
<1>4. ASSUME NEW p \in Procs, pc[p] \in Acquiring \ {"create"}
      PROVE  ~torn /\ ~Won /\ p \in contest \ misled =>
               /\ attempt[p] = 1
               /\ pc[p] \in {"check", "recheck", "unlink"} => file \in {None, seen[p]}
  BY <1>0, <1>4 DEF Open
<1>5. ~torn /\ ~Won /\ file # None => written
  <2> SUFFICES ASSUME ~torn, file # None, ~written PROVE Won
    OBVIOUS
  <2>1. file \in Procs /\ pc[file] = "write"
    BY <1>0 DEF Met, TypeOK
  <2> QED
    BY <2>1 DEF Won
<1>6. ASSUME NEW p \in Procs, Read(p) PROVE Open'
  <2>0. pc[p] = "read" /\ UNCHANGED <<file, torn, contest, misled>>
    BY <1>6 DEF Read
  <2>1. CASE file = None
    <3>1. NextAttempt(p) /\ seen' = seen
      BY <1>6, <2>1 DEF Read
    <3>2. PICK l \in {"create", "gaveUp"} : pc' = [pc EXCEPT ![p] = l]
      BY <1>0, <3>1, NextAttemptType
    <3>3. \A q \in Procs \ {p} : attempt'[q] = attempt[q]
      BY <1>0, <3>1 DEF NextAttempt, TypeOK
    <3>4. ~torn /\ ~Won /\ p \in contest \ misled => l = "create"
      <4>1. attempt[p] = 1 => pc'[p] = "create"
        BY <1>0, <3>1, SecondAttempt DEF TypeOK
      <4> QED
        BY <1>0, <1>4, <2>0, <3>2, <4>1 DEF TypeOK
    <3> QED
      BY <2>0, <2>1, <3>1, <3>2, <3>3, <3>4, OpenMoves
  <2>2. CASE file # None /\ ~written
    <3>1. pc' = [pc EXCEPT ![p] = "corrupt"] /\ UNCHANGED <<attempt, seen>>
      BY <1>6, <2>2 DEF Read, Goto
    <3> QED
      BY <1>5, <2>0, <2>2, <3>1, OpenMoves
  <2>3. CASE file # None /\ written
    <3>1. /\ pc' = [pc EXCEPT ![p] = "check"] /\ attempt' = attempt
          /\ seen' = [seen EXCEPT ![p] = file]
      BY <1>6, <2>3 DEF Read, Goto
    <3>2. seen'[p] = file /\ \A q \in Procs \ {p} : seen'[q] = seen[q]
      BY <1>0, <3>1 DEF TypeOK
    <3>3. /\ pc[p] \in Acquiring \ {"write"} /\ "check" \in Acquiring
          /\ "check" \notin Holding \cup {"write"}
      BY <2>0
    <3>4. ~torn /\ ~Won /\ p \in contest \ misled => attempt'[p] = 1 /\ file' \in {None, seen'[p]}
      BY <1>4, <2>0, <3>1, <3>2
    <3> QED
      BY <2>0, <3>1, <3>2, <3>3, <3>4, OpenMoves
  <2> QED
    BY <2>1, <2>2, <2>3
<1>7. ASSUME NEW p \in Procs, Check(p) PROVE Open'
  <2> DEFINE h == seen[p]
  <2>0. PICK known \in BOOLEAN :
          /\ Goto(p, IF IsLive(h, known) THEN "held" ELSE "recheck")
          /\ misled' = IF h \in reused /\ ~Comparable(h, known) THEN misled \cup {p} ELSE misled
    BY <1>7 DEF Check
  <2>1. /\ pc[p] = "check" /\ UNCHANGED <<file, seen, attempt, torn, contest>>
        /\ misled \subseteq misled' /\ misled' \ misled \subseteq {p}
    BY <1>7, <2>0 DEF Check
  <2>2. h \in Procs /\ pc[h] \in Holding \cup Ended
    BY <1>0, <2>1 DEF Inspected, Met
  <2>3. CASE IsLive(h, known)
    <3>1. pc' = [pc EXCEPT ![p] = "held"]
      BY <2>0, <2>3 DEF Goto
    <3>2. h \in reused => ~Comparable(h, known)
      <4> SUFFICES ASSUME h \in reused, Comparable(h, known) PROVE FALSE
        OBVIOUS
      <4>1. bootOf[h] = boot /\ boot \in Nat
        BY <1>0, <2>3 DEF IsLive, TypeOK
      <4>2. ~(bootOf[h] < boot)
        BY <4>1
      <4> QED
        BY <1>0, <4>2 DEF Met
    <3>3. Won \/ p \in misled'
      BY <2>0, <2>2, <2>3, <3>2 DEF IsLive, Running, Won
    <3> QED
      BY <2>1, <3>1, <3>3, OpenMoves
  <2>4. CASE ~IsLive(h, known)
    <3>1. pc' = [pc EXCEPT ![p] = "recheck"]
      BY <2>0, <2>4 DEF Goto
    <3>2. /\ pc[p] \in Acquiring \ {"write"} /\ "recheck" \in Acquiring
          /\ "recheck" \notin Holding \cup {"write"}
      BY <2>1
    <3>3. ~torn /\ ~Won /\ p \in contest \ misled' => attempt'[p] = 1 /\ file' \in {None, seen'[p]}
      BY <1>4, <2>1
    <3> QED
      BY <2>1, <3>1, <3>2, <3>3, OpenMoves
  <2> QED
    BY <2>3, <2>4
<1>8. ASSUME NEW p \in Procs, Recheck(p) \/ Unlink(p) PROVE Open'
  <2>0. pc[p] \in {"recheck", "unlink"} /\ UNCHANGED <<seen, torn, contest, misled>>
    BY <1>8 DEF Recheck, Unlink
  <2>1. CASE NextAttempt(p) /\ file' \in {file, None}
             /\ (~torn /\ ~Won /\ p \in contest \ misled => file' = None)
    <3>1. PICK l \in {"create", "gaveUp"} : pc' = [pc EXCEPT ![p] = l]
      BY <1>0, <2>1, NextAttemptType
    <3>2. \A q \in Procs \ {p} : attempt'[q] = attempt[q]
      BY <1>0, <2>1 DEF NextAttempt, TypeOK
    <3>3. ~torn /\ ~Won /\ p \in contest \ misled => l = "create"
      <4>1. attempt[p] = 1 => pc'[p] = "create"
        BY <1>0, <2>1, SecondAttempt DEF TypeOK
      <4> QED
        BY <1>0, <1>4, <2>0, <3>1, <4>1 DEF TypeOK
    <3> QED
      BY <2>0, <2>1, <3>1, <3>2, <3>3, OpenMoves
  <2>2. CASE pc' = [pc EXCEPT ![p] = "unlink"] /\ UNCHANGED <<file, attempt>>
    <3>1. /\ pc[p] \in Acquiring \ {"write"} /\ "unlink" \in Acquiring
          /\ "unlink" \notin Holding \cup {"write"}
      BY <2>0
    <3>2. ~torn /\ ~Won /\ p \in contest \ misled => attempt'[p] = 1 /\ file' \in {None, seen'[p]}
      BY <1>4, <2>0, <2>2
    <3> QED
      BY <2>0, <2>2, <3>1, <3>2, OpenMoves

  <2>3. ASSUME Unlink(p) PROVE NextAttempt(p) /\ file' = None
    BY <2>3 DEF Unlink
  <2>4. ASSUME Recheck(p), ~(file = seen[p] /\ written)
        PROVE  NextAttempt(p) /\ file' = file /\ (~torn /\ ~Won /\ p \in contest \ misled => file = None)
    <3>1. NextAttempt(p) /\ file' = file
      BY <2>4 DEF Recheck
    <3> QED
      BY <1>4, <1>5, <2>0, <2>4, <3>1
  <2>5. ASSUME Recheck(p), file = seen[p] /\ written
        PROVE  pc' = [pc EXCEPT ![p] = "unlink"] /\ UNCHANGED <<file, attempt>>
    BY <2>5 DEF Recheck, Goto
  <2> QED
    BY <1>8, <2>1, <2>2, <2>3, <2>4, <2>5
<1>9. ASSUME NEW p \in Procs, ReleaseRead(p) \/ ReleaseUnlink(p) \/ Crash(p) PROVE Open'
  BY <1>9 DEF ReleaseRead, ReleaseUnlink, Crash, Open
<1>10. CASE Reboot
  BY <1>10 DEF Reboot, Open
<1>11. CASE UNCHANGED vars
  BY <1>0, <1>11 DEF vars, Open, Won
<1> QED
  BY <1>1, <1>2, <1>3, <1>6, <1>7, <1>8, <1>9, <1>10, <1>11 DEF Next, Acquire

\* Whoever races for a stale lock, and however: once the processes started since
\* the last kill or stop are all decided, one of them or of those before holds the
\* lock, unless a predecessor left an empty file or every one of them was refused for
\* a pid reused after a reboot, without boot ids to compare.  For any number of
\* processes, provided there are two attempts; the code makes five.
THEOREM SomebodyWins ==
  ASSUME MaxAttempts >= 2 PROVE Spec => []ContestHasWinner
<1>1. CInv /\ [Next]_vars => CInv'
  BY NextInv, MetKept, OpenKept DEF CInv
<1>2. CInv => ContestHasWinner
  <2> SUFFICES ASSUME CInv, contest \ misled # {}, ~torn, \A p \in Procs : pc[p] \notin Acquiring
               PROVE  \E p \in Procs : pc[p] \in Holding
    BY DEF ContestHasWinner
  <2>1. PICK p \in contest \ misled : p \in Procs
    BY DEF CInv, IInv, TypeOK
  <2>2. Won
    BY <2>1 DEF CInv, Open
  <2> QED
    BY <2>2, Disjoint DEF Won
<1> QED
  BY <1>1, <1>2, ContestInit, PTL DEF Spec

==============================================================================

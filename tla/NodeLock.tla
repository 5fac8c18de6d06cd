------------------------------- MODULE NodeLock -------------------------------
(***************************************************************************)
(* The lock file that keeps two node processes from running with one       *)
(* identity: acquireNodeLock and releaseLock (packages/node/src/           *)
(* node-lock.ts), as start() and stop() of main.ts use them.  A process    *)
(* runs one acquisition; every file-system call is a step of its own, and  *)
(* the calls of different processes interleave.  A process may be killed at*)
(* any point and the machine may reboot.                                   *)
(*                                                                         *)
(* The file's content (pid, bootId, token) identifies the acquisition, so  *)
(* it is the process that wrote it.  open('wx') makes an empty file and the*)
(* content follows with writeSync, into that file even if it has been      *)
(* unlinked meanwhile.                                                     *)
(***************************************************************************)
EXTENDS Integers, FiniteSets

CONSTANTS Procs,        \* processes, each started at most once
          None,         \* no file, or nothing read yet
          MaxAttempts,  \* maxAttempts
          MaxBoots      \* bound: reboots

ASSUME LockAssumption ==
  /\ IsFiniteSet(Procs)
  /\ None \notin Procs
  /\ MaxAttempts \in Nat \ {0}
  /\ MaxBoots \in Nat

VARIABLES
  file,      \* the process that created the file now at lockPath
  written,   \* that file's content has been written
  pc,        \* per process: the call it makes next, or how it ended
  seen,      \* per process: existingRaw, as the process that wrote it
  attempt,   \* per process: attempt
  boot,      \* the machine's boot_id
  bootOf,    \* per process: the boot_id it was started under
  reused,    \* processes of an earlier boot whose pid another program now has
  mistaken,  \* history: an unlink removed a file other than the one inspected
  torn,      \* history: a process was killed between creating and writing
  contest,   \* history: the processes started since one was last killed or stopped
  dated,     \* processes whose file names the boot (content.bootId is defined)
  misled     \* history: processes refused for a reused pid, with no boot ids to compare

vars == <<file, written, pc, seen, attempt, boot, bootOf, reused, mistaken, torn, contest, dated, misled>>

Acquiring == {"create", "write", "read", "check", "recheck", "unlink"}
Holding == {"holding", "releasing"}
Refused == {"held", "corrupt", "gaveUp"}
Ended == Refused \cup {"stopped", "dead"}

\* The process exists.
Running(p) == pc[p] \in Acquiring \cup Holding

Goto(p, l) == pc' = [pc EXCEPT ![p] = l]

-----------------------------------------------------------------------------
Init ==
  /\ file = None
  /\ written = FALSE
  /\ pc = [p \in Procs |-> "idle"]
  /\ seen = [p \in Procs |-> None]
  /\ attempt = [p \in Procs |-> 1]
  /\ boot = 0
  /\ bootOf = [p \in Procs |-> 0]
  /\ reused = {}
  /\ mistaken = FALSE
  /\ torn = FALSE
  /\ contest = {}
  /\ dated = {}
  /\ misled = {}

\* start() calls acquireNodeLock.
Start(p) ==
  /\ pc[p] = "idle"
  /\ Goto(p, "create")
  /\ bootOf' = [bootOf EXCEPT ![p] = boot]
  /\ contest' = contest \cup {p}
  /\ UNCHANGED <<file, written, seen, attempt, boot, reused, mistaken, torn, dated, misled>>

\* Mutant: one attempt, so that the process that unlinks a stale lock gives up.
NextAttemptMutant(p) == Goto(p, "gaveUp") /\ UNCHANGED attempt

\* The end of the loop's body: the next attempt, or the final throw.
NextAttempt(p) ==
  IF attempt[p] < MaxAttempts
  THEN Goto(p, "create") /\ attempt' = [attempt EXCEPT ![p] = @ + 1]
  ELSE Goto(p, "gaveUp") /\ UNCHANGED attempt

\* Mutant: 'w' instead of 'wx', which truncates a file that exists.
CreateMutant(p) ==
  /\ pc[p] = "create"
  /\ file' = p /\ written' = FALSE /\ Goto(p, "write")
  /\ UNCHANGED <<seen, attempt, boot, bootOf, reused, mistaken, torn, contest, dated, misled>>

\* The content, with the boot's id where currentBootId() knows it (never off Linux,
\* and not when its read fails), and openSync(filePath, 'wx').
Create(p) ==
  /\ pc[p] = "create"
  /\ IF file = None
     THEN /\ file' = p /\ written' = FALSE /\ Goto(p, "write")
          /\ dated' \in {dated, dated \cup {p}}
     ELSE Goto(p, "read") /\ UNCHANGED <<file, written, dated>>
  /\ UNCHANGED <<seen, attempt, boot, bootOf, reused, mistaken, torn, contest, misled>>

\* writeSync: acquireNodeLock returns the lock.
Write(p) ==
  /\ pc[p] = "write"
  /\ written' = (written \/ file = p)
  /\ Goto(p, "holding")
  /\ UNCHANGED <<file, seen, attempt, boot, bootOf, reused, mistaken, torn, contest, dated, misled>>

\* readFileSync and parseLock: the file is gone, has no content yet, or names
\* its holder.
Read(p) ==
  /\ pc[p] = "read"
  /\ IF file = None
     THEN NextAttempt(p) /\ UNCHANGED seen
     ELSE /\ UNCHANGED attempt
          /\ IF written
             THEN Goto(p, "check") /\ seen' = [seen EXCEPT ![p] = file]
             ELSE Goto(p, "corrupt") /\ UNCHANGED seen
  /\ UNCHANGED <<file, written, boot, bootOf, reused, mistaken, torn, contest, dated, misled>>

\* The holder's boot can be compared: the file names it, and currentBootId() is
\* defined (known) now.
Comparable(h, known) == known /\ h \in dated

\* Mutant: only the pid is looked at, never the boot it belongs to.
IsLiveMutant(h, known) == Running(h) \/ h \in reused

\* isLive(holder): a process with that pid exists, and the machine has not rebooted
\* since, as far as that can be told.
IsLive(h, known) ==
  /\ Comparable(h, known) => bootOf[h] = boot
  /\ Running(h) \/ h \in reused

\* isLive(holder) decides between NodeLockHeldError and the steal.
Check(p) ==
  /\ pc[p] = "check"
  /\ \E known \in BOOLEAN :
       /\ Goto(p, IF IsLive(seen[p], known) THEN "held" ELSE "recheck")
       /\ misled' = IF seen[p] \in reused /\ ~Comparable(seen[p], known)
                    THEN misled \cup {p} ELSE misled
  /\ UNCHANGED <<file, written, seen, attempt, boot, bootOf, reused, mistaken, torn, contest, dated>>

\* existsSync and the second readFileSync: is the file still the one inspected?
Recheck(p) ==
  /\ pc[p] = "recheck"
  /\ IF file = seen[p] /\ written
     THEN Goto(p, "unlink") /\ UNCHANGED attempt
     ELSE NextAttempt(p)
  /\ UNCHANGED <<file, written, seen, boot, bootOf, reused, mistaken, torn, contest, dated, misled>>

\* unlinkSync of the stale lock: whatever is at lockPath now, ENOENT swallowed.
Unlink(p) ==
  /\ pc[p] = "unlink"
  /\ file' = None
  /\ written' = FALSE
  /\ mistaken' = (mistaken \/ file \notin {None, seen[p]})
  /\ NextAttempt(p)
  /\ UNCHANGED <<seen, boot, bootOf, reused, torn, contest, dated, misled>>

\* stop(), or start() failing after the lock was taken: releaseLock's read.
ReleaseRead(p) ==
  /\ pc[p] = "holding"
  /\ Goto(p, IF file = p /\ written THEN "releasing" ELSE "stopped")
  /\ contest' = {}
  /\ UNCHANGED <<file, written, seen, attempt, boot, bootOf, reused, mistaken, torn, dated, misled>>

\* releaseLock's unlinkSync.
ReleaseUnlink(p) ==
  /\ pc[p] = "releasing"
  /\ file' = None
  /\ written' = FALSE
  /\ mistaken' = (mistaken \/ file \notin {None, p})
  /\ Goto(p, "stopped")
  /\ contest' = {}
  /\ UNCHANGED <<seen, attempt, boot, bootOf, reused, torn, dated, misled>>

\* The process is killed, crashes, or exits for a restart without stop().
Crash(p) ==
  /\ Running(p)
  /\ Goto(p, "dead")
  /\ torn' = (torn \/ pc[p] = "write")
  /\ contest' = {}
  /\ UNCHANGED <<file, written, seen, attempt, boot, bootOf, reused, mistaken, dated, misled>>

\* Every process is gone, and other programs get some of their pids.
Reboot ==
  /\ boot < MaxBoots
  /\ boot' = boot + 1
  /\ pc' = [p \in Procs |-> IF Running(p) THEN "dead" ELSE pc[p]]
  /\ torn' = (torn \/ \E p \in Procs : pc[p] = "write")
  /\ contest' = {}
  /\ \E S \in SUBSET {p \in Procs : pc[p] # "idle"} : reused' = S
  /\ UNCHANGED <<file, written, seen, attempt, bootOf, mistaken, dated, misled>>

\* A step of an acquisition.
Acquire(p) ==
  Create(p) \/ Write(p) \/ Read(p) \/ Check(p) \/ Recheck(p) \/ Unlink(p)

Next ==
  \/ \E p \in Procs : Start(p) \/ Acquire(p) \/ ReleaseRead(p) \/ ReleaseUnlink(p) \/ Crash(p)
  \/ Reboot

Spec == Init /\ [][Next]_vars

\* A running process goes on making its calls.
FairSpec == Spec /\ \A p \in Procs : WF_vars(Acquire(p))

-----------------------------------------------------------------------------
\* Type invariant.
TypeOK ==
  /\ file \in Procs \cup {None}
  /\ written \in BOOLEAN
  /\ pc \in [Procs -> {"idle"} \cup Acquiring \cup Holding \cup Ended]
  /\ seen \in [Procs -> Procs \cup {None}]
  /\ attempt \in [Procs -> 1..MaxAttempts]
  /\ boot \in Nat
  /\ bootOf \in [Procs -> Nat]
  /\ reused \in SUBSET Procs
  /\ mistaken \in BOOLEAN
  /\ torn \in BOOLEAN
  /\ contest \in SUBSET Procs
  /\ dated \in SUBSET Procs
  /\ misled \in SUBSET Procs

OneHolder == \A p, q \in Procs : pc[p] \in Holding /\ pc[q] \in Holding => p = q

\* Two live processes never hold one identity, through any interleaving of
\* starts, steals, kills, releases and reboots, as long as no unlink hit a file
\* that had been replaced since it was inspected; then the holder's own file is
\* still there.  (The comment of acquireNodeLock calls the loser's unlink in a steal
\* "a harmless no-op"; the exception is that unlink on the winner's fresh file.)
ExclusiveUnlessReplaced ==
  ~mistaken => /\ OneHolder
               /\ \A p \in Procs : pc[p] \in Holding => file = p /\ written

\* A contest never ends with nobody: once the processes started since anyone was
\* last killed or stopped are all decided, some process holds the lock, however
\* they raced for a stale one; unless a predecessor left a file without content, or
\* every one of them took a program that has the dead holder's pid since a reboot
\* for the holder, having no boot ids to tell (one that has them is enough).
ContestHasWinner ==
  contest \ misled # {} /\ ~torn /\ (\A p \in Procs : pc[p] \notin Acquiring) =>
    \E p \in Procs : pc[p] \in Holding

\* A stale lock does not wedge the node: a process that starts while no other is
\* running gets the lock, whoever was killed before and wherever, or it is killed
\* itself, or another is started, or a predecessor left a file without content, or
\* the holder's pid was reused after a reboot that no boot id tells of.
StaleLockIsTaken ==
  \A p \in Procs :
    LET Alone == \A q \in Procs \ {p} : ~Running(q)
    IN pc[p] = "create" /\ attempt[p] = 1 /\ Alone ~>
         pc[p] \in Holding \cup {"dead"} \/ ~Alone \/ torn \/ p \in misled

==============================================================================

--------------------------- MODULE LifecycleLock ---------------------------
(***************************************************************************)
(* The installer's operation lock (installer/opensocrates.mjs,             *)
(* acquireOperationLock and withOperationLock): lifecycle.lock is created  *)
(* exclusively and names its owner's pid; whoever finds it there reads it, *)
(* asks whether the owner lives, and removes it and tries once more if     *)
(* not, or if nothing can be read and the file is older than two hours.    *)
(*                                                                         *)
(* Reading, asking, removing and creating are separate system calls, and   *)
(* nothing ties a removal to the file that was read.  An installer ends    *)
(* with its operation: the next one has a pid of its own.                  *)
(***************************************************************************)
EXTENDS Naturals, FiniteSets

CONSTANTS Procs,      \* the installers that may run at once, known by their pids
          NoPid,      \* what an unwritten lock file names
          Ended,      \* the pid of any installer that has ended
          MaxCrashes  \* bound on killed installers

ASSUME NoPidIsNotAProcess == NoPid \notin Procs /\ Ended \notin Procs /\ NoPid # Ended
ASSUME CrashBoundIsNatural == MaxCrashes \in Nat

VARIABLES
  lock,      \* the lock file: the pid it names, who created it, two hours old?
  pc,        \* the next step of each process
  attempt,   \* 0 or 1: acquireOperationLock tries twice
  seen,      \* the pid the process read in the lock
  stale,     \* what it made of that
  crashes,   \* how many were killed
  current,   \* history: the processes that read the lock as it is now
  overtaken  \* history: a lock was removed that its remover had not read

vars == <<lock, pc, attempt, seen, stale, crashes, current, overtaken>>

\* The creator stands for the open handle: a process has one at a time.
NoLock == [exists |-> FALSE, pid |-> NoPid, creator |-> NoPid, old |-> FALSE]
Fresh(p) == [exists |-> TRUE, pid |-> NoPid, creator |-> p, old |-> FALSE]

Init ==
  /\ lock = NoLock
  /\ pc = [p \in Procs |-> "idle"]
  /\ attempt = [p \in Procs |-> 0]
  /\ seen = [p \in Procs |-> NoPid]
  /\ stale = [p \in Procs |-> FALSE]
  /\ crashes = 0 /\ current = {} /\ overtaken = FALSE

Goto(p, step) == pc' = [pc EXCEPT ![p] = step]

\* What p knew of the lock is of no use any more.
Forget(p) ==
  /\ attempt' = [attempt EXCEPT ![p] = 0]
  /\ stale' = [stale EXCEPT ![p] = FALSE]
  /\ current' = current \ {p}

\* rm(lock, force): whatever lock is there now.
Unlock == lock' = NoLock /\ current' = {}

\* An installer ends that has not got the lock; no lock names it.
End(p) ==
  /\ Goto(p, "idle") /\ Forget(p)
  /\ seen' = [seen EXCEPT ![p] = NoPid]

\* An installer ends that a lock may name, or somebody may have read of: whoever asks
\* for its pid from now on finds no process.
Named(pid, p) == IF pid = p THEN Ended ELSE pid
Dies(p) ==
  /\ Goto(p, "idle") /\ Forget(p)
  /\ seen' = [q \in Procs |-> IF q = p THEN NoPid ELSE Named(seen[q], p)]
  /\ lock' = [lock EXCEPT !.pid = Named(@, p)]

Begin(p) ==
  /\ pc[p] = "idle"
  /\ Goto(p, "create")
  /\ UNCHANGED <<lock, attempt, seen, stale, crashes, current, overtaken>>

\* open(lock, "wx")
Create(p) ==
  /\ pc[p] = "create"
  /\ IF lock.exists THEN Goto(p, "read") /\ UNCHANGED lock
                    ELSE Goto(p, "write") /\ lock' = Fresh(p)
  /\ UNCHANGED <<attempt, seen, stale, crashes, current, overtaken>>

\* The open fails with anything but EEXIST (the directory is gone again): it is thrown.
CreateFails(p) ==
  /\ pc[p] = "create"
  /\ End(p)
  /\ UNCHANGED <<lock, crashes, overtaken>>

\* The pid goes into the file this process opened, if that is still the lock.
Write(p) ==
  /\ pc[p] = "write"
  /\ IF lock.creator = p THEN lock' = [lock EXCEPT !.pid = p] /\ current' = {}
                         ELSE UNCHANGED <<lock, current>>
  /\ Goto(p, "run")
  /\ UNCHANGED <<attempt, seen, stale, crashes, overtaken>>

\* The write fails: the file is removed, whose ever it is, if that does not fail too,
\* and the error thrown.
WriteFails(p) ==
  /\ pc[p] = "write"
  /\ Unlock \/ UNCHANGED <<lock, current>>
  /\ Goto(p, "idle")
  /\ attempt' = [attempt EXCEPT ![p] = 0]
  /\ UNCHANGED <<seen, stale, crashes, overtaken>>

\* readFile(lock): a pid, or nothing that can be parsed, or no file.
Read(p) ==
  /\ pc[p] = "read"
  /\ seen' = [seen EXCEPT ![p] = lock.pid]
  /\ current' = IF lock.exists THEN current \cup {p} ELSE current
  /\ Goto(p, "probe")
  /\ UNCHANGED <<lock, attempt, stale, crashes, overtaken>>

\* Mutant: no owner is ever found running.
ProbeFindsNobody(p) ==
  /\ pc[p] = "probe"
  /\ seen[p] # NoPid \/ lock.exists
  /\ stale' = [stale EXCEPT ![p] = IF seen[p] = NoPid THEN lock.old ELSE TRUE]
  /\ seen' = [seen EXCEPT ![p] = NoPid]
  /\ Goto(p, "judge")
  /\ UNCHANGED <<lock, attempt, crashes, current, overtaken>>

\* process.kill(pid, 0), or lstat: what names a process that has ended is stale, and
\* what names none if the file there now is old.
Probe(p) ==
  /\ pc[p] = "probe"
  /\ seen[p] # NoPid \/ lock.exists
  /\ stale' = [stale EXCEPT ![p] = IF seen[p] = NoPid THEN lock.old ELSE seen[p] = Ended]
  /\ seen' = [seen EXCEPT ![p] = NoPid]
  /\ Goto(p, "judge")
  /\ UNCHANGED <<lock, attempt, crashes, current, overtaken>>

\* lstat does not find the file, and the error is not caught.
ProbeMissing(p) ==
  /\ pc[p] = "probe"
  /\ seen[p] = NoPid /\ ~lock.exists
  /\ End(p)
  /\ UNCHANGED <<lock, crashes, overtaken>>

\* Mutant: a busy lock is tried again.
RefuseRetries(p) ==
  /\ pc[p] = "judge"
  /\ ~stale[p] \/ attempt[p] > 0
  /\ Goto(p, "create")
  /\ UNCHANGED <<lock, attempt, seen, stale, crashes, current, overtaken>>

\* "another OpenSocrates lifecycle operation is already running"
Refuse(p) ==
  /\ pc[p] = "judge"
  /\ ~stale[p] \/ attempt[p] > 0
  /\ End(p)
  /\ UNCHANGED <<lock, crashes, overtaken>>

\* Mutant: a stale lock is never removed.
RemoveNothing(p) ==
  /\ pc[p] = "judge"
  /\ stale[p] /\ attempt[p] = 0
  /\ attempt' = [attempt EXCEPT ![p] = 1]
  /\ stale' = [stale EXCEPT ![p] = FALSE]
  /\ Goto(p, "create")
  /\ UNCHANGED <<lock, seen, crashes, current, overtaken>>

\* The lock is removed, and creating it tried again.
Remove(p) ==
  /\ pc[p] = "judge"
  /\ stale[p] /\ attempt[p] = 0
  /\ Unlock
  /\ overtaken' = (overtaken \/ (lock.exists /\ p \notin current))
  /\ attempt' = [attempt EXCEPT ![p] = 1]
  /\ stale' = [stale EXCEPT ![p] = FALSE]
  /\ Goto(p, "create")
  /\ UNCHANGED <<seen, crashes>>

\* The removal fails, and the error is not caught.
RemoveFails(p) ==
  /\ pc[p] = "judge"
  /\ stale[p] /\ attempt[p] = 0
  /\ End(p)
  /\ UNCHANGED <<lock, crashes, overtaken>>

\* The action returns or throws; the lock file is removed, whose ever it is.
Release(p) ==
  /\ pc[p] = "run"
  /\ Unlock
  /\ Goto(p, "exit")
  /\ UNCHANGED <<attempt, seen, stale, crashes, overtaken>>

\* The removal fails, and is what the operation fails with.
ReleaseFails(p) ==
  /\ pc[p] = "run"
  /\ Goto(p, "exit")
  /\ UNCHANGED <<lock, attempt, seen, stale, crashes, current, overtaken>>

\* The installer exits.
Exit(p) ==
  /\ pc[p] = "exit"
  /\ Dies(p)
  /\ UNCHANGED <<crashes, overtaken>>

\* It is killed.
Crash(p) ==
  /\ pc[p] # "idle" /\ crashes < MaxCrashes
  /\ crashes' = crashes + 1
  /\ Dies(p)
  /\ UNCHANGED overtaken

\* Two hours pass over a lock that names nobody: of no other is the age asked.  Writing
\* a pid into a file just opened never takes so long, nor is it so long from reading
\* nothing to the lstat: an lstat finds no file that old which was created since.
Age ==
  /\ lock.exists /\ lock.pid = NoPid /\ ~lock.old
  /\ \A p \in Procs : /\ pc[p] # "write"
                      /\ pc[p] = "probe" /\ seen[p] = NoPid => p \in current
  /\ lock' = [lock EXCEPT !.old = TRUE]
  /\ UNCHANGED <<pc, attempt, seen, stale, crashes, current, overtaken>>

Step(p) == \/ Create(p) \/ Write(p) \/ Read(p) \/ Probe(p) \/ ProbeMissing(p)
           \/ Refuse(p) \/ Remove(p) \/ Release(p) \/ Exit(p)
Failure(p) == CreateFails(p) \/ WriteFails(p) \/ RemoveFails(p) \/ ReleaseFails(p) \/ Crash(p)

Next == Age \/ \E p \in Procs : Begin(p) \/ Step(p) \/ Failure(p)

Spec == Init /\ [][Next]_vars

-----------------------------------------------------------------------------
(***************************************************************************)
(* Properties.                                                             *)
(***************************************************************************)
\* Types; a lock that is not there has no content.
TypeOK ==
  /\ lock \in [exists : BOOLEAN, pid : Procs \cup {NoPid, Ended},
               creator : Procs \cup {NoPid}, old : BOOLEAN]
  /\ ~lock.exists => lock = NoLock
  /\ pc \in [Procs -> {"idle", "create", "write", "read", "probe", "judge", "run", "exit"}]
  /\ attempt \in [Procs -> {0, 1}]
  /\ seen \in [Procs -> Procs \cup {NoPid, Ended}]
  /\ stale \in [Procs -> BOOLEAN]
  /\ crashes \in 0 .. MaxCrashes
  /\ current \subseteq Procs
  /\ overtaken \in BOOLEAN

\* The processes that hold the lock: they created the file and have not let go.
Holders == {p \in Procs : pc[p] \in {"write", "run"}}

\* One operation runs at a time and the file names it, though releases and removals
\* never check whose lock they remove, and whatever is killed or fails: as long as
\* nobody has removed a lock that was put in the place of the one it had read, or was
\* written since.
ExclusiveUnlessOvertaken ==
  ~overtaken => /\ Cardinality(Holders) <= 1
                /\ \A p \in Holders : lock.creator = p /\ lock.pid \in {p, NoPid}

\* A lock that nobody holds, left behind by a kill or a removal that failed, written or
\* not, does not stay.
DeadLockGoes == lock.exists /\ Holders = {} ~> ~(lock.exists /\ Holders = {})

\* No operation runs beside another: the test "lifecycle lock rejects a concurrent
\* operation and is released afterward" asserts it (lifecycle.test.mjs, "a concurrent
\* lifecycle operation acquired the lock").
MutualExclusion == Cardinality(Holders) <= 1
=============================================================================

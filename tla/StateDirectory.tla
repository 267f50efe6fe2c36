-------------------------- MODULE StateDirectory --------------------------
(***************************************************************************)
(* The installer's state directory (installer/opensocrates.mjs): the       *)
(* desired state, read and rewritten by every operation that holds         *)
(* lifecycle.lock, and the end of a purge, which does not: the purge that  *)
(* left no host installed renames the directory's files to tombstones,     *)
(* lets the lock go, and then deletes the tombstones and the directory,    *)
(* while other installers may have begun again.                            *)
(*                                                                         *)
(* The receipt of the automatic updates goes the way of the desired state  *)
(* and is left out, as is what a purge and an install do to the host       *)
(* (HostLifecycle): here that succeeds or fails.                           *)
(***************************************************************************)
EXTENDS LifecycleLock

CONSTANTS Hosts,     \* the hosts that can be installed
          MaxPurges  \* bound on purges that get as far as their tombstones

ASSUME PurgeBoundIsNatural == MaxPurges \in Nat

VARIABLES
  dir,        \* the state directory is there
  desired,    \* desired-state.json: is it there, and the hosts it names
  temps,      \* whose temporary files are there
  tombs,      \* the tombstones: the purge that made each, and of what
  purges,     \* how many purges made tombstones: their names are unique
  job,        \* what each process does beside the lock
  installed,  \* history: the hosts, after each write, until two processes shared the lock
  shared      \* history: two processes once held the lock

dirVars == <<dir, desired, temps, tombs, purges, installed>>
sdVars == <<vars, dirVars, job, shared>>

\* A tombstone has a unique name, its purge and file; it keeps the file's content.
Tombstones == [purge : 1..MaxPurges, of : Procs \cup {NoPid}, hosts : SUBSET Hosts]

Absent == [there |-> FALSE, hosts |-> {}]
NoJob == [kind |-> "none", hosts |-> {}, step |-> "none", read |-> {}, cand |-> {},
          plan |-> {}, renamed |-> {}, purge |-> 0]

SDInit ==
  /\ Init
  /\ dir = FALSE /\ desired = Absent /\ temps = {} /\ tombs = {} /\ purges = 0
  /\ job = [p \in Procs |-> NoJob]
  /\ installed = {} /\ shared = FALSE

At(p, step) == pc[p] = "run" /\ job[p].step = step
GoOn(p, step) == job' = [job EXCEPT ![p].step = step]

\* The operation is over but for the lock.
Leave(p) == job' = [job EXCEPT ![p] = [NoJob EXCEPT !.step = "leave"]]

NewlyShared == shared' = (shared \/ Cardinality(Holders') > 1)

-----------------------------------------------------------------------------
(***************************************************************************)
(* Around the lock.  Nothing but these steps changes it.                   *)
(***************************************************************************)
\* An operation begins: ensurePrivateDirectory, before the lock is tried.
BeginJob(p) ==
  /\ Begin(p)
  /\ dir' = TRUE
  /\ UNCHANGED <<job, desired, temps, tombs, purges, installed>>

\* open(lock, "wx"), in a directory that a purge may have removed again.
TryCreate(p) == \/ dir /\ Create(p) /\ UNCHANGED job
                \/ ~dir /\ CreateFails(p) /\ job' = [job EXCEPT ![p] = NoJob]

\* A process that ends without the lock, or is killed, is done.
GiveUp(p) ==
  /\ ProbeMissing(p) \/ Refuse(p) \/ WriteFails(p) \/ RemoveFails(p) \/ Crash(p)
  /\ job' = [job EXCEPT ![p] = NoJob]

\* withOperationLock lets the lock go; a purge that prepared the end goes on.
ReleaseJob(p) ==
  /\ job[p].step \in {"leave", "finish"}
  /\ Release(p)
  /\ job' = IF job[p].step = "finish" THEN job ELSE [job EXCEPT ![p] = NoJob]

\* The lock cannot be removed: withOperationLock throws, and nobody completes the end.
KeepLock(p) ==
  /\ job[p].step \in {"leave", "finish"}
  /\ ReleaseFails(p)
  /\ job' = [job EXCEPT ![p] = NoJob]

\* The installer has nothing left to do.
ExitJob(p) == job[p] = NoJob /\ Exit(p) /\ UNCHANGED job

LockStep(p) ==
  /\ \/ TryCreate(p) \/ GiveUp(p) \/ ReleaseJob(p) \/ KeepLock(p) \/ ExitJob(p)
     \/ (Write(p) \/ Read(p) \/ Probe(p) \/ Remove(p)) /\ UNCHANGED job
  /\ UNCHANGED dirVars

-----------------------------------------------------------------------------
(***************************************************************************)
(* Under the lock: the desired state is read, changed and written.         *)
(***************************************************************************)
\* The action of an install or a purge, of some hosts, begins with readDesiredState: a
\* file that is not there reads as nothing installed.
ReadDesired(p) ==
  /\ At(p, "none")
  /\ \E kind \in {"install", "purge"}, hosts \in (SUBSET Hosts) \ {{}} :
       job' = [job EXCEPT ![p] = [NoJob EXCEPT !.kind = kind, !.hosts = hosts,
                                              !.step = "work", !.read = desired.hosts]]
  /\ UNCHANGED <<vars, dirVars>>

\* What the operation makes of the hosts it read.
NextHosts(p) == IF job[p].kind = "install" THEN job[p].read \cup job[p].hosts
                                           ELSE job[p].read \ job[p].hosts

\* The hosts are dealt with.  A purge that changes nothing for the hosts that
\* remain writes nothing.
Work(p) ==
  /\ At(p, "work")
  /\ IF job[p].kind = "purge" /\ NextHosts(p) = job[p].read /\ job[p].read # {}
       THEN Leave(p) ELSE GoOn(p, "open")
  /\ UNCHANGED <<vars, dirVars>>

\* A host fails: an install is rolled back, a purge keeps the state as it was.
WorkFails(p) == At(p, "work") /\ Leave(p) /\ UNCHANGED <<vars, dirVars>>

\* atomicWritePrivateFile: a temporary file, in a directory made if need be ...
OpenTemporary(p) ==
  /\ At(p, "open")
  /\ dir' = TRUE /\ temps' = temps \cup {p}
  /\ GoOn(p, "rename")
  /\ UNCHANGED <<vars, desired, tombs, purges, installed>>

\* A complete purge that leaves no host goes on to the tombstones; one that is
\* partial, for the residue of a host that stays behind, does not.
Ends(p) == job[p].kind = "purge" /\ NextHosts(p) = {} /\ purges < MaxPurges
Saved(p) ==
  \/ Leave(p) /\ UNCHANGED purges
  \/ /\ Ends(p)
     /\ purges' = purges + 1
     /\ job' = [job EXCEPT ![p] = [NoJob EXCEPT !.step = "survey", !.purge = purges + 1]]

\* ... which is renamed.
RenameTemporary(p) ==
  /\ At(p, "rename") /\ p \in temps
  /\ temps' = temps \ {p}
  /\ desired' = [there |-> TRUE, hosts |-> NextHosts(p)]
  /\ installed' = IF shared THEN {}
                  ELSE IF job[p].kind = "install" THEN installed \cup job[p].hosts
                                                  ELSE installed \ job[p].hosts
  /\ Saved(p)
  /\ UNCHANGED <<vars, dir, tombs>>

\* Writing fails, or another installer's purge took the temporary file away: what is
\* left of the file is removed, and an install is rolled back.
SaveFails(p) ==
  /\ At(p, "open") \/ At(p, "rename")
  /\ temps' = temps \ {p}
  /\ Leave(p)
  /\ UNCHANGED <<vars, dir, desired, tombs, purges, installed>>

-----------------------------------------------------------------------------
(***************************************************************************)
(* preparePurgeStateFinalization, still under the lock, and                *)
(* completePurgeStateFinalization, after it.                               *)
(***************************************************************************)
\* The files there are: the desired state (NoPid), or a temporary file by its writer.
Files == (IF desired.there THEN {NoPid} ELSE {}) \cup temps

\* readdir: the files to rename, and what earlier purges left behind.
Survey(p) ==
  /\ At(p, "survey")
  /\ job' = [job EXCEPT ![p].step = "bury", ![p].cand = Files, ![p].plan = tombs]
  /\ UNCHANGED <<vars, dirVars>>

\* One file becomes a tombstone; a file that is gone is passed over.
Bury(p) ==
  /\ At(p, "bury")
  /\ \E file \in job[p].cand :
       LET new == {t \in Tombstones : t.purge = job[p].purge /\ t.of = file /\ file \in Files
                                     /\ t.hosts = IF file = NoPid THEN desired.hosts ELSE {}}
       IN /\ job' = [job EXCEPT ![p].cand = @ \ {file}, ![p].plan = @ \cup new,
                                ![p].renamed = @ \cup new]
          /\ tombs' = tombs \cup new
          /\ desired' = IF file = NoPid THEN Absent ELSE desired
          /\ temps' = temps \ {file}
  /\ UNCHANGED <<vars, dir, purges, installed>>

\* Any failure on the way, an earlier purge deleting one of its tombstones included,
\* puts back what was renamed, as far as that succeeds.
PrepareFails(p) ==
  /\ At(p, "bury")
  /\ \E back \in SUBSET (job[p].renamed \cap tombs) :
       /\ tombs' = tombs \ back
       /\ temps' = temps \cup {t.of : t \in {b \in back : b.of # NoPid}}
       /\ \/ (\A t \in back : t.of # NoPid) /\ UNCHANGED desired
          \/ \E t \in back : t.of = NoPid /\ desired' = [there |-> TRUE, hosts |-> t.hosts]
  /\ Leave(p)
  /\ UNCHANGED <<vars, dir, purges, installed>>

Buried(p) ==
  /\ At(p, "bury") /\ job[p].cand = {}
  /\ job' = [job EXCEPT ![p] = [NoJob EXCEPT !.step = "finish", !.plan = job[p].plan]]
  /\ UNCHANGED <<vars, dirVars>>

Finishing(p) == pc[p] = "exit" /\ job[p].step = "finish"

\* Mutant: what is deleted has the name the file had before.
UnlinkOriginal(p) ==
  /\ Finishing(p)
  /\ \E tomb \in job[p].plan :
       /\ desired' = IF tomb.of = NoPid THEN Absent ELSE desired
       /\ temps' = temps \ {tomb.of}
       /\ job' = [job EXCEPT ![p].plan = @ \ {tomb}]
  /\ UNCHANGED <<vars, dir, tombs, purges, installed>>

\* A tombstone is deleted, if it is still there.
Unlink(p) ==
  /\ Finishing(p)
  /\ \E tomb \in job[p].plan :
       /\ tombs' = tombs \ {tomb}
       /\ job' = [job EXCEPT ![p].plan = @ \ {tomb}]
  /\ UNCHANGED <<vars, dir, desired, temps, purges, installed>>

Empty == ~lock.exists /\ Files = {} /\ tombs = {}

\* rmdir: a directory with anything in it stays.
RemoveDirectory(p) ==
  /\ Finishing(p) /\ job[p].plan = {}
  /\ dir' = (dir /\ ~Empty)
  /\ job' = [job EXCEPT ![p] = NoJob]
  /\ UNCHANGED <<vars, desired, temps, tombs, purges, installed>>

\* The cleanup fails, or is killed: "state cleanup remains", for the next purge.
FinishFails(p) ==
  /\ Finishing(p)
  /\ job' = [job EXCEPT ![p] = NoJob]
  /\ UNCHANGED <<vars, dirVars>>

-----------------------------------------------------------------------------
Inside(p) == \/ ReadDesired(p) \/ Work(p) \/ WorkFails(p) \/ OpenTemporary(p) \/ RenameTemporary(p)
             \/ SaveFails(p) \/ Survey(p) \/ Bury(p) \/ PrepareFails(p) \/ Buried(p)
             \/ Unlink(p) \/ RemoveDirectory(p) \/ FinishFails(p)

Grow == Age /\ UNCHANGED <<job, dirVars>>

SDNext == /\ Grow \/ \E p \in Procs : BeginJob(p) \/ LockStep(p) \/ Inside(p)
          /\ NewlyShared

SDSpec == SDInit /\ [][SDNext]_sdVars

\* A process that is not killed goes on, the next operation begins, time passes, and
\* the removal of a lock does not fail for ever; none of the failures is owed.
Progress(p) ==
  \/ TryCreate(p) /\ UNCHANGED dirVars
  \/ (ProbeMissing(p) \/ Refuse(p)) /\ job' = [job EXCEPT ![p] = NoJob] /\ UNCHANGED dirVars
  \/ (Write(p) \/ Read(p) \/ Probe(p) \/ Remove(p)) /\ UNCHANGED <<job, dirVars>>
  \/ (ReleaseJob(p) \/ ExitJob(p)) /\ UNCHANGED dirVars
  \/ ReadDesired(p) \/ Work(p) \/ OpenTemporary(p) \/ RenameTemporary(p)
  \/ (p \notin temps /\ SaveFails(p))
  \/ Survey(p) \/ Bury(p) \/ Buried(p) \/ Unlink(p) \/ RemoveDirectory(p)

SDFairSpec ==
  /\ SDSpec
  /\ WF_sdVars(Grow /\ NewlyShared)
  /\ \A p \in Procs : /\ WF_sdVars(Progress(p) /\ NewlyShared)
                      /\ WF_sdVars(BeginJob(p) /\ NewlyShared)
                      /\ SF_sdVars(Remove(p) /\ UNCHANGED <<job, dirVars>> /\ NewlyShared)

-----------------------------------------------------------------------------
(***************************************************************************)
(* Properties.                                                             *)
(***************************************************************************)
\* Types.
SDTypeOK ==
  /\ TypeOK
  /\ dir \in BOOLEAN /\ shared \in BOOLEAN
  /\ desired \in [there : BOOLEAN, hosts : SUBSET Hosts]
  /\ temps \subseteq Procs
  /\ tombs \subseteq Tombstones
  /\ purges \in 0..MaxPurges
  /\ installed \subseteq Hosts
  /\ ~dir => Empty

\* As long as no two installers ever held the lock at once, the desired state names
\* the hosts that were installed and not removed since: no write is lost, and neither
\* the end of a purge nor its rollback takes away, or brings back, what another
\* operation wrote after the purge let the lock go.
RecordKept == ~shared => desired.hosts = installed

\* Every operation ends, the end of a purge included, whatever the others do: none
\* waits for the lock, or spins on it.
Busy(p) == pc[p] # "idle"
JobsEnd == \A p \in Procs : Busy(p) ~> ~Busy(p)
=============================================================================

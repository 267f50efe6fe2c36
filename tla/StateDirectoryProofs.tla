---------------------- MODULE StateDirectoryProofs ----------------------
(***************************************************************************)
(* The state directory with its purges is an implementation of the lock:   *)
(* every step of an installer is a step of LifecycleLock or leaves the     *)
(* lock alone, the end of a purge and the removal of the directory         *)
(* included.  What is proved of the lock therefore holds of the whole.     *)
(***************************************************************************)
EXTENDS StateDirectory, FiniteSetTheorems, TLAPS

-----------------------------------------------------------------------------
(***************************************************************************)
(* At most one installer holds lifecycle.lock, however many there are and  *)
(* however they end, until somebody removes a lock that is not the one it  *)
(* read.  Nothing in a release or a removal checks whose lock it deletes.  *)
(* What saves them is that the lock that is there was created by its one   *)
(* holder, if anybody holds it, who is named by it or about to write it    *)
(* while it is young; so whoever reads this very lock, and finds its owner *)
(* ended or nothing in an old file, knows that nobody holds it.            *)
(***************************************************************************)

\* The lock belongs to the one process that holds it, if any.
OneOwner ==
  /\ lock.exists => Holders \subseteq {lock.creator}
  /\ ~lock.exists => Holders = {}

\* A lock names its holder, or is about to; until then it is young.
Written ==
  /\ \A p \in Procs : pc[p] = "write" => lock.pid = NoPid /\ ~lock.old
  /\ \A p \in Procs : pc[p] = "run" => lock.pid = p

\* What is known of the lock by those who read the one that is there.
Knows ==
  /\ current # {} => lock.exists
  /\ \A p \in current : /\ pc[p] = "probe" => seen[p] = lock.pid
                        /\ pc[p] = "judge" /\ stale[p] => Holders = {}

IInv == TypeOK /\ (~overtaken => OneOwner /\ Written /\ Knows)

-----------------------------------------------------------------------------
\* The two halves of the types: the file, and the processes.
Locks == [exists : BOOLEAN, pid : Procs \cup {NoPid, Ended}, creator : Procs \cup {NoPid},
          old : BOOLEAN]
FileOK == lock \in Locks /\ (~lock.exists => lock = NoLock)
ProcsOK ==
  /\ pc \in [Procs -> {"idle", "create", "write", "read", "probe", "judge", "run", "exit"}]
  /\ attempt \in [Procs -> {0, 1}]
  /\ seen \in [Procs -> Procs \cup {NoPid, Ended}]
  /\ stale \in [Procs -> BOOLEAN]
  /\ crashes \in 0 .. MaxCrashes
  /\ current \subseteq Procs
  /\ overtaken \in BOOLEAN

\* The type invariant is that of the file and that of the processes.
LEMMA TypeParts == TypeOK <=> FileOK /\ ProcsOK
BY DEF TypeOK, FileOK, ProcsOK, Locks

\* What an installer does.
Moves(p) == Begin(p) \/ Step(p) \/ Failure(p)

\* The types hold at first.
LEMMA TypesInit == Init => TypeOK
<1> SUFFICES ASSUME Init PROVE TypeOK
  OBVIOUS
<1>1. NoLock \in Locks
  BY DEF NoLock, Locks
<1>2. FileOK
  BY <1>1 DEF Init, FileOK
<1>3. crashes \in 0 .. MaxCrashes
  BY CrashBoundIsNatural DEF Init
<1>4. ProcsOK
  BY <1>3 DEF Init, ProcsOK
<1> QED
  BY <1>2, <1>4, TypeParts

\* What a step makes of the file: nothing, none, a fresh one, an older one, or one
\* that names its creator or nobody who runs.
LEMMA FileNext ==
  ASSUME TypeOK, [Next]_vars
  PROVE  FileOK'
<1>1. NoLock \in Locks /\ \A p \in Procs : Fresh(p) \in Locks /\ Fresh(p).exists
  BY DEF NoLock, Fresh, Locks
<1>2. FileOK
  BY TypeParts
<1>3. CASE lock' = lock \/ lock' = NoLock \/ \E p \in Procs : lock' = Fresh(p)
  BY <1>1, <1>2, <1>3 DEF FileOK
<1>4. CASE lock.exists /\ lock' = [lock EXCEPT !.old = TRUE]
  BY <1>2, <1>4 DEF FileOK, Locks
<1>5. ASSUME NEW p \in Procs, lock.creator = p, lock' = [lock EXCEPT !.pid = p]
      PROVE  FileOK'
  <2>1. lock.exists
    BY <1>2, <1>5, NoPidIsNotAProcess DEF FileOK, NoLock
  <2> QED
    BY <1>2, <1>5, <2>1 DEF FileOK, Locks
<1>6. ASSUME NEW p \in Procs, lock' = [lock EXCEPT !.pid = Named(@, p)]
      PROVE  FileOK'
  <2>1. lock' = [lock EXCEPT !.pid = Named(lock.pid, p)]
    BY <1>6
  <2>2. Named(lock.pid, p) \in Procs \cup {NoPid, Ended}
    BY <1>2 DEF Named, FileOK, Locks
  <2>3. lock' \in Locks /\ lock'.exists = lock.exists
    BY <1>2, <2>1, <2>2 DEF FileOK, Locks
  <2>4. lock = NoLock => lock' = NoLock
    <3>1. SUFFICES ASSUME lock = NoLock PROVE lock' = NoLock
      OBVIOUS
    <3>2. ~lock'.exists /\ lock'.pid = NoPid /\ lock'.creator = NoPid /\ ~lock'.old
      BY <1>1, <2>1, <3>1, NoPidIsNotAProcess DEF Named, NoLock, Locks
    <3>3. lock' = [exists |-> lock'.exists, pid |-> lock'.pid, creator |-> lock'.creator,
                   old |-> lock'.old]
      BY <2>3 DEF Locks
    <3> QED
      BY <2>3, <3>2, <3>3 DEF NoLock, Locks
  <2> QED
    BY <1>2, <2>3, <2>4 DEF FileOK
<1> QED
  BY <1>3, <1>4, <1>5, <1>6 DEF Next, vars, Age, Begin, Step, Failure, Create, Write, Read, Probe,
     ProbeMissing, Refuse, Remove, Release, ReleaseFails, Exit, CreateFails, WriteFails,
     RemoveFails, Crash, Dies, Unlock

\* A step keeps the types of the processes.
LEMMA ProcsNext ==
  ASSUME TypeOK, [Next]_vars
  PROVE  ProcsOK'
<1>0. ProcsOK
  BY TypeParts
<1> USE <1>0 DEF ProcsOK, Goto, Forget
<1>1. CASE Age
  BY <1>1 DEF Age
<1>2. ASSUME NEW p \in Procs, Moves(p)
      PROVE  ProcsOK'
  <2>1. CASE Begin(p)
    BY <2>1 DEF Begin
  <2>2. CASE Create(p)
    <3>1. Goto(p, "read") \/ Goto(p, "write")
      BY <2>2 DEF Create
    <3> QED
      BY <2>2, <3>1 DEF Create
  <2>3. CASE Write(p)
    <3>1. current' \subseteq Procs
      BY <2>3 DEF Write
    <3> QED
      BY <2>3, <3>1 DEF Write
  <2>4. CASE Read(p)
    <3>1. lock.pid \in Procs \cup {NoPid, Ended}
      BY DEF TypeOK
    <3>2. current' \subseteq Procs
      BY <2>4 DEF Read
    <3> QED
      BY <2>4, <3>1, <3>2 DEF Read
  <2>5. CASE Probe(p)
    <3> DEFINE verdict == IF seen[p] = NoPid THEN lock.old ELSE seen[p] = Ended
    <3>1. stale' = [stale EXCEPT ![p] = verdict] /\ verdict \in BOOLEAN
      BY <2>5 DEF Probe, TypeOK
    <3> HIDE DEF verdict
    <3> QED
      BY <2>5, <3>1 DEF Probe
  <2>6. CASE ProbeMissing(p) \/ Refuse(p) \/ CreateFails(p) \/ RemoveFails(p)
    <3>1. End(p) /\ UNCHANGED <<crashes, overtaken>>
      BY <2>6 DEF ProbeMissing, Refuse, CreateFails, RemoveFails
    <3> QED
      BY <3>1 DEF End
  <2>7. CASE Remove(p) \/ Release(p) \/ ReleaseFails(p)
    <3>1. overtaken' \in BOOLEAN /\ current' \subseteq Procs
      BY <2>7 DEF Remove, Release, ReleaseFails, Unlock
    <3> QED
      BY <2>7, <3>1 DEF Remove, Release, ReleaseFails
  <2>8. CASE WriteFails(p)
    <3>1. current' \subseteq Procs
      BY <2>8 DEF WriteFails, Unlock
    <3> QED
      BY <2>8, <3>1 DEF WriteFails
  <2>9. CASE Exit(p) \/ Crash(p)
    <3>1. Dies(p) /\ overtaken' = overtaken
      BY <2>9 DEF Exit, Crash
    <3>2. crashes' \in 0 .. MaxCrashes
      BY <2>9, CrashBoundIsNatural DEF Exit, Crash
    <3>3. seen' \in [Procs -> Procs \cup {NoPid, Ended}]
      BY <3>1 DEF Dies, Named
    <3> QED
      BY <3>1, <3>2, <3>3 DEF Dies
  <2> QED
    BY <1>2, <2>1, <2>2, <2>3, <2>4, <2>5, <2>6, <2>7, <2>8, <2>9 DEF Moves, Step, Failure
<1>3. CASE UNCHANGED vars
  BY <1>3 DEF vars
<1> QED
  BY <1>1, <1>2, <1>3 DEF Next, Moves

\* A lock that names an installer that ended, or is old and names nobody, nobody holds.
LEMMA StaleIsUnheld ==
  ASSUME TypeOK, Written, lock.pid = Ended \/ (lock.pid = NoPid /\ lock.old)
  PROVE  Holders = {}
BY NoPidIsNotAProcess DEF Written, Holders, TypeOK

\* The steps, while nobody removes a lock it did not read.
LEMMA OwnedNext ==
  ASSUME IInv, ~overtaken', [Next]_vars
  PROVE  (OneOwner /\ Written /\ Knows)'
<1>1. TypeOK /\ ~overtaken
  <2>1. \/ overtaken' = overtaken
        \/ \E p \in Procs : overtaken' = (overtaken \/ (lock.exists /\ p \notin current))
    BY DEF Next, vars, Age, Begin, Step, Failure, Create, Write, Read, Probe, ProbeMissing,
       Refuse, Remove, Release, ReleaseFails, Exit, CreateFails, WriteFails, RemoveFails, Crash
  <2>2. ~overtaken
    BY <2>1
  <2> QED
    BY <2>2 DEF IInv
<1>2. OneOwner /\ Written /\ Knows
  BY <1>1 DEF IInv
<1> USE <1>1, <1>2, NoPidIsNotAProcess DEF TypeOK, OneOwner, Written, Knows, Holders, NoLock, Fresh,
        Goto, Forget
<1>3. CASE Age
  BY <1>3 DEF Age
<1>4. ASSUME NEW p \in Procs, Moves(p)
      PROVE  (OneOwner /\ Written /\ Knows)'
  <2>1. CASE Begin(p)
    BY <2>1 DEF Begin
  <2>2. CASE Create(p)
    BY <2>2 DEF Create
  <2>3. CASE Write(p)
    \* The file this process opened is the lock.
    <3>1. lock.exists /\ lock.creator = p
      BY <2>3 DEF Write
    <3> QED
      BY <2>3, <3>1 DEF Write
  <2>4. CASE Read(p)
    BY <2>4 DEF Read
  <2>5. CASE Probe(p)
    <3>1. p \in current /\ stale'[p] => Holders = {}
      BY <2>5, StaleIsUnheld DEF Probe
    <3> QED
      BY <2>5, <3>1 DEF Probe
  <2>6. CASE ProbeMissing(p) \/ Refuse(p) \/ CreateFails(p) \/ RemoveFails(p)
    <3>1. End(p) /\ lock' = lock /\ pc[p] \notin {"write", "run"}
      BY <2>6 DEF ProbeMissing, Refuse, CreateFails, RemoveFails
    <3> QED
      BY <3>1 DEF End
  <2>7. CASE Remove(p)
    <3>1. lock.exists => p \in current
      BY <1>1, <2>7 DEF Remove
    <3>2. Holders = {}
      BY <2>7, <3>1 DEF Remove
    <3> QED
      BY <2>7, <3>2 DEF Remove, Unlock
  <2>8. CASE Release(p) \/ ReleaseFails(p) \/ WriteFails(p)
    <3>1. Holders = {p}
      BY <2>8 DEF Release, ReleaseFails, WriteFails
    <3> QED
      BY <2>8, <3>1 DEF Release, ReleaseFails, WriteFails, Unlock
  <2>9. CASE Exit(p) \/ Crash(p)
    <3>1. Dies(p)
      BY <2>9 DEF Exit, Crash
    <3>2. /\ pc' = [pc EXCEPT ![p] = "idle"] /\ current' = current \ {p}
          /\ stale' = [stale EXCEPT ![p] = FALSE]
          /\ \A q \in Procs \ {p} : seen'[q] = Named(seen[q], p)
      BY <3>1 DEF Dies
    <3>3. /\ lock'.pid = Named(lock.pid, p)
          /\ lock'.exists = lock.exists /\ lock'.creator = lock.creator /\ lock'.old = lock.old
      BY <3>1 DEF Dies
    <3>4. \A q \in Procs \ {p} : Named(q, p) = q
      BY DEF Named
    <3>5. Named(NoPid, p) = NoPid
      BY DEF Named
    <3> QED
      BY <3>2, <3>3, <3>4, <3>5
  <2> QED
    BY <1>4, <2>1, <2>2, <2>3, <2>4, <2>5, <2>6, <2>7, <2>8, <2>9 DEF Moves, Step, Failure
<1>5. CASE UNCHANGED vars
  BY <1>5 DEF vars
<1> QED
  BY <1>3, <1>4, <1>5 DEF Next, Moves

\* The invariant holds of every reachable state of the lock, for any installers.
THEOREM Invariance == Spec => []IInv
<1>1. Init => IInv
  BY TypesInit DEF Init, IInv, OneOwner, Written, Knows, Holders, NoLock
<1>2. IInv /\ [Next]_vars => IInv'
  <2> SUFFICES ASSUME IInv, [Next]_vars
               PROVE  IInv'
    OBVIOUS
  <2>1. TypeOK'
    BY TypeParts, FileNext, ProcsNext DEF IInv, TypeOK, FileOK, ProcsOK, Locks
  <2> QED
    BY <2>1, OwnedNext DEF IInv
<1> QED
  BY <1>1, <1>2, PTL DEF Spec

\* The types of the lock's state, for any set of installers and any number of kills.
THEOREM LockTypeCorrect == Spec => []TypeOK
<1>1. IInv => TypeOK
  BY DEF IInv
<1> QED
  BY <1>1, Invariance, PTL

\* One operation runs at a time, for any set of installers that end, fail or are killed
\* anywhere, until one removes a lock it did not read (acquireOperationLock,
\* withOperationLock).
THEOREM OneOperation == Spec => []ExclusiveUnlessOvertaken
<1>1. IInv => ExclusiveUnlessOvertaken
  <2>1. ASSUME IInv, ~overtaken
        PROVE  ExclusiveUnlessOvertaken
    <3>1. TypeOK /\ OneOwner /\ Written
      BY <2>1 DEF IInv
    <3>2. \A p \in Holders : lock.creator = p /\ lock.pid \in {p, NoPid}
      BY <3>1 DEF OneOwner, Written, Holders
    <3>3. Holders = {} \/ Holders = {lock.creator}
      BY <3>1 DEF OneOwner
    <3>4. Cardinality(Holders) <= 1
      <4>1. Cardinality({lock.creator}) = 1
        BY FS_Singleton
      <4>2. Cardinality({}) = 0
        BY FS_EmptySet
      <4> QED
        BY <3>3, <4>1, <4>2
    <3> QED
      BY <3>2, <3>4 DEF ExclusiveUnlessOvertaken
  <2> QED
    BY <2>1 DEF ExclusiveUnlessOvertaken
<1> QED
  BY <1>1, Invariance, PTL

-----------------------------------------------------------------------------
(* The directory. *)

\* What is done inside an operation, or after it, leaves the lock alone.
LEMMA InsideLeavesLock ==
  ASSUME NEW p \in Procs, Inside(p)
  PROVE  UNCHANGED vars
BY DEF Inside, ReadDesired, Work, WorkFails, OpenTemporary, RenameTemporary, SaveFails, Survey,
       Bury, PrepareFails, Buried, Unlink, RemoveDirectory, FinishFails

\* What is done around an operation is a step of the lock.
LEMMA LockStepIsNext ==
  ASSUME NEW p \in Procs, LockStep(p)
  PROVE  Next
BY DEF LockStep, TryCreate, GiveUp, ReleaseJob, KeepLock, ExitJob, Next, Step, Failure

\* And so is every step, or it leaves the lock alone.
LEMMA StepOfTheLock ==
  ASSUME [SDNext]_sdVars
  PROVE  [Next]_vars
<1>1. CASE Grow
  BY <1>1 DEF Grow, Next
<1>2. ASSUME NEW p \in Procs, BeginJob(p)
      PROVE  [Next]_vars
  BY <1>2 DEF BeginJob, Next
<1>3. ASSUME NEW p \in Procs, LockStep(p)
      PROVE  [Next]_vars
  BY <1>3, LockStepIsNext
<1>4. ASSUME NEW p \in Procs, Inside(p)
      PROVE  [Next]_vars
  BY <1>4, InsideLeavesLock
<1>5. CASE UNCHANGED sdVars
  BY <1>5 DEF sdVars
<1> QED
  BY <1>1, <1>2, <1>3, <1>4, <1>5 DEF SDNext

\* The installers and their purges implement the lock.
THEOREM ImplementsLock == SDSpec => Spec
<1>1. SDInit => Init
  BY DEF SDInit
<1>2. [SDNext]_sdVars => [Next]_vars
  BY StepOfTheLock
<1> QED
  BY <1>1, <1>2, PTL DEF SDSpec, Spec

\* One operation runs at a time until somebody removes a lock it did not read, though
\* purges go on without the lock (runPurge, completePurgeStateFinalization).
THEOREM OneOperationBesidePurges == SDSpec => []ExclusiveUnlessOvertaken
BY ImplementsLock, OneOperation, PTL

-----------------------------------------------------------------------------
(***************************************************************************)
(* The desired state.  While no two installers ever held the lock at once, *)
(* only its one holder changes the file, and what that process read is     *)
(* what the last one wrote; a purge that buries the file does so when      *)
(* nothing is installed, and so loses nothing, and nor does its rollback.  *)
(***************************************************************************)
Within == {"work", "open", "rename", "survey", "bury", "leave"}
Steps == {"none", "finish"} \cup Within
Jobs == [kind : {"none", "install", "purge"}, hosts : SUBSET Hosts, step : Steps,
         read : SUBSET Hosts, cand : SUBSET (Procs \cup {NoPid}), plan : SUBSET Tombstones,
         renamed : SUBSET Tombstones, purge : 0..MaxPurges]

DataTyped ==
  /\ dir \in BOOLEAN /\ shared \in BOOLEAN
  /\ desired \in [there : BOOLEAN, hosts : SUBSET Hosts]
  /\ temps \subseteq Procs
  /\ tombs \subseteq Tombstones
  /\ purges \in 0..MaxPurges
  /\ installed \subseteq Hosts
  /\ job \in [Procs -> Jobs]

\* Nobody has begun its action before it holds the lock.
Behind == \A p \in Procs : pc[p] \notin {"run", "exit"} => job[p] = NoJob

\* Nobody but one holds the lock, as long as nobody shared it.
Alone ==
  /\ IsFiniteSet(Holders)
  /\ ~shared => \A p, q \in Holders : p = q

\* What the holder knows of the hosts that are installed.
Informed(p) ==
  /\ At(p, "work") \/ At(p, "open") \/ At(p, "rename") => job[p].read = installed
  /\ At(p, "survey") \/ At(p, "bury") => installed = {}
  /\ \A t \in job[p].renamed : t.of = NoPid => t.hosts = {}

RecordInv == ~shared => desired.hosts = installed /\ \A p \in Procs : Informed(p)

SDInv == TypeOK /\ DataTyped /\ (~dir => Empty) /\ Behind /\ Alone /\ RecordInv

\* The end of a step in these terms: what a process is at, and what it knows.
LEMMA AbsentIsNothing ==
  /\ NoJob \in Jobs /\ Absent \in [there : BOOLEAN, hosts : SUBSET Hosts] /\ Absent.hosts = {}
  /\ NoJob.renamed = {} /\ NoJob.step = "none"
  /\ \A step \in Steps : LET j == [NoJob EXCEPT !.step = step]
                        IN  j \in Jobs /\ j.step = step /\ j.renamed = {}
<1>1. 0 \in 0..MaxPurges
  BY PurgeBoundIsNatural
<1> QED
  BY <1>1 DEF NoJob, Absent, Jobs, Steps

\* At most one process more holds the lock after a step.
LEMMA OneHolderMore ==
  ASSUME TypeOK, [Next]_vars
  PROVE  Holders' \subseteq Holders \/ \E p \in Procs : Holders' \subseteq Holders \cup {p}
<1> USE DEF Holders
<1>1. CASE Age \/ UNCHANGED vars
  BY <1>1 DEF Age, vars
<1>2. ASSUME NEW p \in Procs, Moves(p)
      PROVE  Holders' \subseteq Holders \cup {p}
  <2>1. \E step : pc' = [pc EXCEPT ![p] = step]
    BY <1>2 DEF Moves, Step, Failure, Begin, Create, Write, Read, Probe, ProbeMissing, Refuse, Remove,
       Release, ReleaseFails, Exit, CreateFails, WriteFails, RemoveFails, Crash, Goto, End, Dies
  <2> QED
    BY <2>1 DEF TypeOK
<1> QED
  BY <1>1, <1>2 DEF Next, Moves

\* A step keeps that there is one holder as long as no lock was broken while held.
LEMMA AloneNext ==
  ASSUME TypeOK, DataTyped, Alone, [SDNext]_sdVars
  PROVE  Alone' /\ (~shared' => ~shared) /\ shared' \in BOOLEAN
<1>1. IsFiniteSet(Holders')
  <2>1. \A p : IsFiniteSet(Holders \cup {p})
    BY FS_AddElement DEF Alone
  <2>2. \E p : Holders' \subseteq Holders \cup {p}
    BY OneHolderMore, StepOfTheLock
  <2> QED
    BY <2>1, <2>2, FS_Subset
<1>2. CASE UNCHANGED sdVars
  <2>1. UNCHANGED <<pc, shared>>
    BY <1>2 DEF sdVars, vars
  <2> QED
    BY <2>1 DEF Alone, Holders, DataTyped
<1>3. CASE NewlyShared
  <2>1. shared' = (shared \/ Cardinality(Holders') > 1)
    BY <1>3 DEF NewlyShared
  <2>2. ASSUME ~shared', NEW p \in Holders', NEW q \in Holders', p # q
        PROVE  FALSE
    <3>1. IsFiniteSet({p, q}) /\ Cardinality({p, q}) = 2
      <4>1. IsFiniteSet({q}) /\ Cardinality({q}) = 1
        BY FS_Singleton
      <4>2. p \notin {q}
        BY <2>2
      <4>3. IsFiniteSet({q} \cup {p}) /\ Cardinality({q} \cup {p}) = Cardinality({q}) + 1
        BY <4>1, <4>2, FS_AddElement
      <4>4. {q} \cup {p} = {p, q}
        OBVIOUS
      <4> QED
        BY <4>1, <4>3, <4>4
    <3>2. Cardinality({p, q}) <= Cardinality(Holders')
      BY <1>1, <2>2, FS_Subset
    <3>3. Cardinality(Holders') \in Nat
      BY <1>1, FS_CardinalityType
    <3>4. Cardinality(Holders') > 1
      BY <3>1, <3>2, <3>3
    <3>5. shared'
      BY <2>1, <3>4, Zenon
    <3> QED
      BY <2>2, <3>5
  <2>3. Alone'
    BY <1>1, <2>2 DEF Alone
  <2>4. shared' \in BOOLEAN
    BY <2>1
  <2>5. ~shared' => ~shared
    BY <2>1, Zenon
  <2> QED
    BY <2>3, <2>4, <2>5
<1> QED
  BY <1>2, <1>3 DEF SDNext

-----------------------------------------------------------------------------
\* What a step around the lock makes of a process and its job.
Around(q) ==
  \/ job'[q] = job[q] /\ pc'[q] = pc[q]
  \/ job'[q] = NoJob
  \/ job'[q] = job[q] /\ pc'[q] = "exit"

\* Beginning an operation, and a step of the lock, changes no other process and its job.
LEMMA AroundStep ==
  ASSUME TypeOK, DataTyped, Behind, NEW p \in Procs, BeginJob(p) \/ LockStep(p), NEW q \in Procs
  PROVE  Around(q) /\ job' = [r \in Procs |-> job'[r]]
<1> USE DEF TypeOK, DataTyped, Goto, End, Dies, Forget
<1>1. CASE BeginJob(p)
  BY <1>1 DEF BeginJob, Begin, Around, Behind
<1>2. CASE TryCreate(p)
  <2>1. job[p] = NoJob /\ \E step : pc' = [pc EXCEPT ![p] = step]
    BY <1>2 DEF TryCreate, Create, CreateFails, Behind
  <2> QED
    BY <1>2, <2>1 DEF TryCreate, Around
<1>3. CASE GiveUp(p)
  <2>1. pc' = [pc EXCEPT ![p] = "idle"]
    BY <1>3 DEF GiveUp, ProbeMissing, Refuse, WriteFails, RemoveFails, Crash
  <2> QED
    BY <1>3, <2>1 DEF GiveUp, Around
<1>4. CASE ReleaseJob(p) \/ KeepLock(p)
  <2>1. pc' = [pc EXCEPT ![p] = "exit"]
    BY <1>4 DEF ReleaseJob, Release, KeepLock, ReleaseFails
  <2> QED
    BY <1>4, <2>1 DEF ReleaseJob, KeepLock, Around
<1>5. CASE ExitJob(p)
  BY <1>5 DEF ExitJob, Exit, Around
<1>6. CASE (Write(p) \/ Read(p) \/ Probe(p) \/ Remove(p)) /\ UNCHANGED job
  <2>1. job[p] = NoJob /\ \E step : pc' = [pc EXCEPT ![p] = step]
    BY <1>6 DEF Write, Read, Probe, Remove, Behind
  <2> QED
    BY <1>6, <2>1 DEF Around
<1> QED
  BY <1>1, <1>2, <1>3, <1>4, <1>5, <1>6 DEF LockStep

\* A step around the lock loses nothing of what the invariant says.
LEMMA AroundKeeps ==
  ASSUME TypeOK, DataTyped, Behind, RecordInv, TypeOK', ~shared' => ~shared,
         UNCHANGED <<desired, installed>>, job' = [q \in Procs |-> job'[q]],
         \A q \in Procs : Around(q)
  PROVE  job' \in [Procs -> Jobs] /\ Behind' /\ RecordInv'
<1>1. ASSUME NEW q \in Procs
      PROVE  job'[q] \in Jobs /\ (pc'[q] \notin {"run", "exit"} => job'[q] = NoJob)
  BY AbsentIsNothing DEF Around, DataTyped, Behind
<1>2. ASSUME ~shared, NEW q \in Procs
      PROVE  Informed(q)'
  <2>1. Informed(q)
    BY <1>2 DEF RecordInv
  <2>2. \A s \in Within : At(q, s)' => At(q, s) /\ job'[q] = job[q]
    BY AbsentIsNothing DEF Around, At, Within, Behind
  <2>3. job'[q].renamed \subseteq job[q].renamed
    BY AbsentIsNothing DEF Around
  <2> QED
    BY <2>1, <2>2, <2>3 DEF Informed, Within
<1> QED
  BY <1>1, <1>2 DEF RecordInv, Behind

\* Steps around the state directory keep the invariant.
LEMMA AroundNext ==
  ASSUME SDInv, TypeOK', NEW p \in Procs, BeginJob(p) \/ LockStep(p), ~shared' => ~shared
  PROVE  job' \in [Procs -> Jobs] /\ Behind' /\ RecordInv'
<1>1. \A q \in Procs : Around(q)
  BY AroundStep DEF SDInv
<1>2. UNCHANGED <<desired, installed>>
  BY DEF BeginJob, LockStep, dirVars
<1>3. job' = [q \in Procs |-> job'[q]]
  BY AroundStep DEF SDInv
<1> QED
  BY <1>1, <1>2, <1>3, AroundKeeps DEF SDInv

-----------------------------------------------------------------------------
\* What a step inside an operation makes of the rest: the other processes stay, and
\* only the process that is at the step changes anything.
Alters(p) ==
  /\ UNCHANGED vars
  /\ job'[p] \in Jobs
  /\ job' = [job EXCEPT ![p] = job'[p]]

\* Inside the lock, a step alters the directory only for its own job.
LEMMA InsideAlters ==
  ASSUME DataTyped, NEW p \in Procs, Inside(p)
  PROVE  Alters(p)
<1> USE DEF DataTyped
<1>1. UNCHANGED vars
  BY InsideLeavesLock
<1>2. \E j : job' = [job EXCEPT ![p] = j]
  BY ZenonT(30) DEF Inside, ReadDesired, Work, WorkFails, OpenTemporary, RenameTemporary, SaveFails,
     Survey, Bury, PrepareFails, Buried, Unlink, RemoveDirectory, FinishFails, GoOn, Leave, Saved
<1>3. job' = [job EXCEPT ![p] = job'[p]]
  BY <1>2
<1>4. job[p] \in Jobs
  OBVIOUS
<1>5. \A step \in Steps : [job[p] EXCEPT !.step = step] \in Jobs
  BY <1>4 DEF Jobs
<1>6. CASE Work(p) \/ WorkFails(p) \/ OpenTemporary(p) \/ SaveFails(p) \/ PrepareFails(p)
  <2>1. Leave(p) \/ \E step \in Steps : GoOn(p, step)
    BY <1>6 DEF Work, WorkFails, OpenTemporary, SaveFails, PrepareFails, Steps, Within
  <2>2. \/ job'[p] = [NoJob EXCEPT !.step = "leave"]
        \/ \E step \in Steps : job'[p] = [job[p] EXCEPT !.step = step]
    BY <2>1 DEF Leave, GoOn
  <2>3. "leave" \in Steps
    BY DEF Steps, Within
  <2> QED
    BY <1>1, <1>3, <1>5, <2>2, <2>3, AbsentIsNothing DEF Alters
<1>7. CASE ReadDesired(p)
  <2>1. PICK kind \in {"install", "purge"}, hosts \in SUBSET Hosts :
          job' = [job EXCEPT ![p] = [NoJob EXCEPT !.kind = kind, !.hosts = hosts,
                                                  !.step = "work", !.read = desired.hosts]]
    BY <1>7 DEF ReadDesired
  <2>2. NoJob \in Jobs
    BY AbsentIsNothing
  <2>3. job'[p] \in Jobs
    BY <2>1, <2>2 DEF Jobs, Steps, Within
  <2> QED
    BY <1>1, <1>3, <2>3 DEF Alters
<1>8. CASE RenameTemporary(p)
  <2>1. CASE Leave(p)
    BY <1>1, <1>3, <2>1, AbsentIsNothing DEF Leave, Alters, Steps, Within
  <2>2. CASE Ends(p) /\ job' = [job EXCEPT ![p] = [NoJob EXCEPT !.step = "survey", !.purge = purges + 1]]
    <3>1. purges + 1 \in 0..MaxPurges
      BY <2>2, PurgeBoundIsNatural DEF Ends
    <3>2. NoJob \in Jobs
      BY AbsentIsNothing
    <3>3. job'[p] = [NoJob EXCEPT !.step = "survey", !.purge = purges + 1]
      BY <2>2
    <3>4. job'[p] \in Jobs
      BY <3>1, <3>2, <3>3 DEF Jobs, Steps, Within
    <3> QED
      BY <1>1, <1>3, <3>4 DEF Alters
  <2> QED
    BY <1>8, <2>1, <2>2 DEF RenameTemporary, Saved
<1>13. CASE Buried(p)
  <2>1. job'[p] = [NoJob EXCEPT !.step = "finish", !.plan = job[p].plan]
    BY <1>13 DEF Buried
  <2>2. NoJob \in Jobs
    BY AbsentIsNothing
  <2>3. job'[p] \in Jobs
    BY <1>4, <2>1, <2>2 DEF Jobs, Steps, Within
  <2> QED
    BY <1>1, <1>3, <2>3 DEF Alters
<1>9. CASE Survey(p)
  BY <1>1, <1>3, <1>4, <1>9 DEF Survey, Files, Alters, Jobs, Steps, Within
<1>10. CASE Bury(p)
  <2>1. PICK file \in job[p].cand, new \in SUBSET Tombstones :
          job' = [job EXCEPT ![p].cand = @ \ {file}, ![p].plan = @ \cup new,
                             ![p].renamed = @ \cup new]
    BY <1>10 DEF Bury
  <2> QED
    BY <1>1, <1>3, <1>4, <2>1 DEF Alters, Jobs
<1>11. CASE Unlink(p)
  BY <1>1, <1>3, <1>4, <1>11 DEF Unlink, Alters, Jobs
<1>12. CASE RemoveDirectory(p) \/ FinishFails(p)
  <2>1. job'[p] = NoJob
    BY <1>12 DEF RemoveDirectory, FinishFails
  <2> QED
    BY <1>1, <1>3, <2>1, AbsentIsNothing DEF Alters
<1> QED
  BY <1>6, <1>7, <1>8, <1>9, <1>10, <1>11, <1>12, <1>13 DEF Inside

\* The tombstone of a file, if the file is there.
TombOf(p, file) ==
  {t \in Tombstones : t.purge = job[p].purge /\ t.of = file /\ file \in Files
                      /\ t.hosts = IF file = NoPid THEN desired.hosts ELSE {}}
Buries(p, file) ==
  /\ job' = [job EXCEPT ![p].cand = @ \ {file}, ![p].plan = @ \cup TombOf(p, file),
                        ![p].renamed = @ \cup TombOf(p, file)]
  /\ tombs' = tombs \cup TombOf(p, file)
  /\ desired' = IF file = NoPid THEN Absent ELSE desired
  /\ temps' = temps \ {file}
  /\ UNCHANGED <<vars, dir, purges, installed>>
PutsBack(p, back) ==
  /\ tombs' = tombs \ back
  /\ temps' = temps \cup {t.of : t \in {b \in back : b.of # NoPid}}
  /\ \/ UNCHANGED desired
     \/ \E t \in back : t.of = NoPid /\ desired' = [there |-> TRUE, hosts |-> t.hosts]
  /\ UNCHANGED <<vars, dir, purges, installed>>

\* Burying takes one of the files the job chose.
LEMMA BuryStep ==
  ASSUME NEW p \in Procs, Bury(p)
  PROVE  \E file \in job[p].cand : Buries(p, file)
BY DEF Bury, Buries, TombOf

\* A failed preparation puts back some of what the job renamed.
LEMMA PutBackStep ==
  ASSUME NEW p \in Procs, PrepareFails(p)
  PROVE  \E back \in SUBSET (job[p].renamed \cap tombs) : PutsBack(p, back)
BY DEF PrepareFails, PutsBack

\* The types of the directory, and nothing is in it once it is gone.
LEMMA DirectoryNext ==
  ASSUME SDInv, NEW p \in Procs, Inside(p), shared' \in BOOLEAN
  PROVE  DataTyped' /\ (~dir' => Empty')
<1> USE DEF Empty, Files
<1>1. DataTyped /\ (~dir => Empty) /\ lock' = lock
  BY InsideLeavesLock DEF SDInv, vars
<1>2. job' \in [Procs -> Jobs]
  BY <1>1, InsideAlters DEF Alters, DataTyped
<1> DEFINE Kept == /\ dir' \in BOOLEAN
                   /\ desired' \in [there : BOOLEAN, hosts : SUBSET Hosts]
                   /\ temps' \subseteq Procs
                   /\ tombs' \subseteq Tombstones
                   /\ purges' \in 0..MaxPurges
                   /\ installed' \subseteq Hosts
                   /\ ~dir' => ~desired'.there /\ temps' = {} /\ tombs' = {} /\ ~lock.exists
<1>3. ~dir => ~desired.there /\ temps = {} /\ tombs = {} /\ ~lock.exists
  BY <1>1
<1>4. job[p] \in Jobs
  BY <1>1 DEF DataTyped
<1>5. CASE ReadDesired(p) \/ Work(p) \/ WorkFails(p) \/ Survey(p) \/ Buried(p) \/ FinishFails(p)
  <2>1. UNCHANGED dirVars
    BY <1>5 DEF ReadDesired, Work, WorkFails, Survey, Buried, FinishFails
  <2>2. Kept
    BY <1>1, <1>3, <2>1 DEF dirVars, DataTyped
  <2> QED
    BY <1>1, <1>2, <2>2 DEF DataTyped
<1>6. CASE OpenTemporary(p)
  <2>1. Kept
    BY <1>1, <1>6 DEF OpenTemporary, DataTyped
  <2> QED
    BY <1>1, <1>2, <2>1 DEF DataTyped
<1>7. CASE RenameTemporary(p)
  <2>1. purges' \in 0..MaxPurges
    BY <1>1, <1>7, PurgeBoundIsNatural DEF RenameTemporary, Saved, Ends, DataTyped
  <2>2. NextHosts(p) \subseteq Hosts /\ installed' \subseteq Hosts
    BY <1>1, <1>4, <1>7 DEF RenameTemporary, NextHosts, Jobs, DataTyped
  <2>3. dir
    BY <1>3, <1>7 DEF RenameTemporary
  <2>4. Kept
    BY <1>1, <1>7, <2>1, <2>2, <2>3 DEF RenameTemporary, DataTyped
  <2> QED
    BY <1>1, <1>2, <2>4 DEF DataTyped
<1>8. CASE SaveFails(p) \/ Unlink(p)
  <2>1. Kept
    BY <1>1, <1>3, <1>8 DEF SaveFails, Unlink, DataTyped
  <2> QED
    BY <1>1, <1>2, <2>1 DEF DataTyped
<1>9. CASE Bury(p)
  <2>1. PICK file \in job[p].cand : Buries(p, file)
    BY <1>9, BuryStep
  <2>2. TombOf(p, file) \subseteq Tombstones /\ (~dir => TombOf(p, file) = {})
    <3>1. ~dir => Files = {}
      BY <1>3
    <3> QED
      BY <3>1 DEF TombOf
  <2>3. Kept
    BY <1>1, <1>3, <2>1, <2>2, AbsentIsNothing DEF Buries, DataTyped, Absent
  <2> QED
    BY <1>1, <1>2, <2>3 DEF DataTyped
<1>10. CASE PrepareFails(p)
  <2>1. PICK back \in SUBSET (job[p].renamed \cap tombs) : PutsBack(p, back)
    BY <1>10, PutBackStep
  <2>2. \A t \in back : t \in Tombstones /\ t.of \in Procs \cup {NoPid} /\ t.hosts \subseteq Hosts
    BY <1>1 DEF DataTyped, Tombstones
  <2>3. desired' \in [there : BOOLEAN, hosts : SUBSET Hosts]
    <3>1. CASE UNCHANGED desired
      BY <1>1, <3>1 DEF DataTyped
    <3>2. ASSUME NEW t \in back, desired' = [there |-> TRUE, hosts |-> t.hosts]
          PROVE  desired' \in [there : BOOLEAN, hosts : SUBSET Hosts]
      BY <2>2, <3>2
    <3> QED
      BY <2>1, <3>1, <3>2 DEF PutsBack
  <2>4. temps' \subseteq Procs
    BY <1>1, <2>1, <2>2 DEF PutsBack, DataTyped
  <2>5. ~dir => back = {}
    BY <1>3
  <2>6. Kept
    BY <1>1, <1>3, <2>1, <2>3, <2>4, <2>5 DEF PutsBack, DataTyped
  <2> QED
    BY <1>1, <1>2, <2>6 DEF DataTyped
<1>11. CASE RemoveDirectory(p)
  <2>1. /\ dir' = (dir /\ ~(~lock.exists /\ Files = {} /\ tombs = {}))
        /\ UNCHANGED <<desired, temps, tombs, purges, installed>>
    BY <1>11 DEF RemoveDirectory
  <2>2. ~dir' => ~desired.there /\ temps = {} /\ tombs = {} /\ ~lock.exists
    BY <1>3, <2>1
  <2>3. Kept
    BY <1>1, <2>1, <2>2 DEF DataTyped
  <2> QED
    BY <1>1, <1>2, <2>3 DEF DataTyped
<1> QED
  BY <1>5, <1>6, <1>7, <1>8, <1>9, <1>10, <1>11 DEF Inside

\* Inside an operation the desired state and what its process knows go together.
LEMMA RecordNext ==
  ASSUME SDInv, ~shared, NEW p \in Procs, Inside(p)
  PROVE  desired'.hosts = installed' /\ \A q \in Procs : Informed(q)'
<1>1. /\ DataTyped /\ Alone /\ job[p] \in Jobs
      /\ desired.hosts = installed /\ \A q \in Procs : Informed(q)
  BY DEF SDInv, RecordInv, DataTyped
<1>2. /\ UNCHANGED vars /\ pc' = pc /\ \A q \in Procs \ {p} : job'[q] = job[q]
  BY <1>1, InsideAlters DEF Alters, DataTyped, vars
<1>3. CASE Unlink(p) \/ RemoveDirectory(p) \/ FinishFails(p)
  <2>1. UNCHANGED <<desired, installed>> /\ pc[p] = "exit"
    BY <1>3 DEF Unlink, RemoveDirectory, FinishFails, Finishing, dirVars
  <2>2. job'[p].renamed \subseteq job[p].renamed
    <3>1. CASE Unlink(p)
      <4>1. PICK tomb \in job[p].plan : job' = [job EXCEPT ![p].plan = @ \ {tomb}]
        BY <3>1 DEF Unlink
      <4> QED
        BY <1>1, <4>1 DEF DataTyped, Jobs
    <3>2. CASE RemoveDirectory(p) \/ FinishFails(p)
      <4>1. job'[p] = NoJob
        BY <1>1, <3>2 DEF RemoveDirectory, FinishFails, DataTyped
      <4> QED
        BY <4>1, AbsentIsNothing
    <3> QED
      BY <1>3, <3>1, <3>2
  <2>3. ASSUME NEW q \in Procs
        PROVE  Informed(q)'
    BY <1>1, <1>2, <2>1, <2>2 DEF Informed, At
  <2> QED
    BY <1>1, <2>1, <2>3
<1>4. ASSUME pc[p] = "run", desired'.hosts = installed', Informed(p)'
      PROVE  \A q \in Procs : Informed(q)'
  <2>1. \A q \in Procs \ {p} : pc[q] # "run"
    BY <1>1, <1>4 DEF Alone, Holders
  <2> QED
    BY <1>1, <1>2, <1>4, <2>1 DEF Informed, At
<1>5. CASE ReadDesired(p) \/ Work(p) \/ WorkFails(p) \/ OpenTemporary(p) \/ SaveFails(p)
           \/ Survey(p) \/ Buried(p)
  <2>1. UNCHANGED <<desired, installed>> /\ pc[p] = "run"
    BY <1>5 DEF ReadDesired, Work, WorkFails, OpenTemporary, SaveFails, Survey, Buried, At, dirVars
  <2>2. Informed(p)'
    <3>1. CASE ReadDesired(p)
      <4>1. /\ job'[p].step = "work" /\ job'[p].read = installed' /\ job'[p].renamed = {}
        BY <1>1, <2>1, <3>1 DEF ReadDesired, DataTyped, NoJob
      <4> QED
        BY <4>1 DEF Informed, At
    <3>2. CASE (Work(p) /\ GoOn(p, "open")) \/ OpenTemporary(p)
      <4>1. /\ job'[p].step \in {"open", "rename"} /\ job'[p].read = job[p].read
            /\ job[p].read = installed /\ job'[p].renamed = job[p].renamed
        BY <1>1, <3>2 DEF Work, OpenTemporary, GoOn, DataTyped, Jobs, Informed
      <4> QED
        BY <1>1, <2>1, <4>1 DEF Informed, At
    <3>3. CASE Leave(p)
      <4>1. job'[p].step = "leave" /\ job'[p].renamed = {}
        BY <1>1, <3>3, AbsentIsNothing DEF Leave, DataTyped, NoJob
      <4> QED
        BY <4>1 DEF Informed, At
    <3>4. CASE Buried(p)
      <4>1. job'[p].step = "finish" /\ job'[p].renamed = {}
        BY <1>1, <3>4 DEF Buried, DataTyped, NoJob
      <4> QED
        BY <4>1 DEF Informed, At
    <3>5. CASE Survey(p)
      <4>1. job'[p].step = "bury" /\ installed' = {} /\ job'[p].renamed = job[p].renamed
        BY <1>1, <2>1, <3>5 DEF Survey, DataTyped, Jobs, Informed
      <4> QED
        BY <1>1, <4>1 DEF Informed, At
    <3> QED
      BY <1>5, <3>1, <3>2, <3>3, <3>4, <3>5 DEF Work, WorkFails, SaveFails
  <2> QED
    BY <1>1, <1>4, <2>1, <2>2
<1>6. CASE RenameTemporary(p)
  <2>1. pc[p] = "run" /\ job[p].read = installed
    BY <1>1, <1>6 DEF RenameTemporary, At, Informed
  <2>2. desired'.hosts = NextHosts(p) /\ installed' = NextHosts(p)
    BY <1>6, <2>1 DEF RenameTemporary, NextHosts
  <2>3. /\ job'[p].renamed = {}
        /\ job'[p].step = "leave" \/ (job'[p].step = "survey" /\ NextHosts(p) = {})
    <3>1. CASE Leave(p)
      BY <1>1, <3>1 DEF Leave, DataTyped, NoJob
    <3>2. CASE Ends(p) /\ job' = [job EXCEPT ![p] = [NoJob EXCEPT !.step = "survey", !.purge = purges + 1]]
      <4>1. PICK n : n = purges + 1
        OBVIOUS
      <4> QED
        BY <1>1, <3>2, <4>1 DEF Ends, DataTyped, NoJob
    <3> QED
      BY <1>6, <3>1, <3>2 DEF RenameTemporary, Saved
  <2>4. Informed(p)'
    BY <1>1, <2>2, <2>3 DEF Informed, At
  <2> QED
    BY <1>4, <2>1, <2>2, <2>4
<1>7. CASE Bury(p)
  <2>1. PICK file \in job[p].cand : Buries(p, file)
    BY <1>7, BuryStep
  <2>2. pc[p] = "run" /\ job[p].step = "bury" /\ installed = {} /\ desired.hosts = {}
    BY <1>1, <1>7 DEF Bury, At, Informed
  <2>3. desired'.hosts = {} /\ installed' = {}
    BY <2>1, <2>2, AbsentIsNothing DEF Buries
  <2>4. job'[p].step = "bury" /\ job'[p].renamed = job[p].renamed \cup TombOf(p, file)
    BY <1>1, <2>1, <2>2 DEF Buries, DataTyped, Jobs
  <2>5. \A t \in TombOf(p, file) : t.hosts = {}
    BY <2>2 DEF TombOf
  <2>6. Informed(p)'
    BY <1>1, <2>3, <2>4, <2>5 DEF Informed, At
  <2> QED
    BY <1>4, <2>2, <2>3, <2>6
<1>8. CASE PrepareFails(p)
  <2>1. PICK back \in SUBSET (job[p].renamed \cap tombs) : PutsBack(p, back)
    BY <1>8, PutBackStep
  <2>2. /\ pc[p] = "run" /\ installed = {} /\ desired.hosts = {}
        /\ \A t \in job[p].renamed : t.of = NoPid => t.hosts = {}
    BY <1>1, <1>8 DEF PrepareFails, At, Informed
  <2>3. desired'.hosts = {} /\ installed' = {}
    BY <2>1, <2>2 DEF PutsBack
  <2>4. job'[p].step = "leave" /\ job'[p].renamed = {}
    BY <1>1, <1>8 DEF PrepareFails, Leave, DataTyped, NoJob
  <2>5. Informed(p)'
    BY <2>4 DEF Informed, At
  <2> QED
    BY <1>4, <2>2, <2>3, <2>5
<1> QED
  BY <1>3, <1>5, <1>6, <1>7, <1>8 DEF Inside

-----------------------------------------------------------------------------
\* The whole invariant is kept.
LEMMA InvInit == SDInit => SDInv
<1> SUFFICES ASSUME SDInit PROVE SDInv
  OBVIOUS
<1>1. /\ Init /\ dir = FALSE /\ desired = Absent /\ temps = {} /\ tombs = {} /\ purges = 0
      /\ job = [p \in Procs |-> NoJob] /\ installed = {} /\ shared = FALSE
  BY DEF SDInit
<1>2. TypeOK /\ Holders = {} /\ lock = NoLock
  BY <1>1, TypesInit DEF Init, Holders
<1>3. DataTyped
  <2>1. 0 \in 0..MaxPurges
    BY PurgeBoundIsNatural
  <2> QED
    BY <1>1, <2>1, AbsentIsNothing DEF DataTyped
<1>4. Empty
  BY <1>1, <1>2 DEF Empty, Files, Absent, NoLock
<1>5. Behind
  BY <1>1 DEF Behind
<1>6. Alone
  BY <1>2, FS_EmptySet DEF Alone
<1>7. RecordInv
  BY <1>1, AbsentIsNothing DEF RecordInv, Informed, At
<1> QED
  BY <1>2, <1>3, <1>4, <1>5, <1>6, <1>7 DEF SDInv

\* A step keeps the invariant.
LEMMA InvNext == SDInv /\ [SDNext]_sdVars => SDInv'
<1> SUFFICES ASSUME SDInv, [SDNext]_sdVars PROVE SDInv'
  OBVIOUS
<1>1. TypeOK /\ DataTyped /\ (~dir => Empty) /\ Behind /\ Alone /\ RecordInv
  BY DEF SDInv
<1>2. TypeOK'
  BY <1>1, StepOfTheLock, TypeParts, FileNext, ProcsNext DEF TypeOK, FileOK, ProcsOK, Locks
<1>3. Alone' /\ (~shared' => ~shared) /\ shared' \in BOOLEAN
  BY <1>1, AloneNext
<1>4. ASSUME NEW p \in Procs, Inside(p)
      PROVE  SDInv'
  <2>1. DataTyped' /\ (~dir' => Empty')
    BY <1>3, <1>4, DirectoryNext
  <2>2. RecordInv'
    BY <1>3, <1>4, RecordNext DEF RecordInv
  <2>3. Behind'
    <3>1. pc[p] \in {"run", "exit"}
      BY <1>4 DEF Inside, ReadDesired, Work, WorkFails, OpenTemporary, RenameTemporary, SaveFails,
         Survey, Bury, PrepareFails, Buried, Unlink, RemoveDirectory, FinishFails, At, Finishing
    <3>2. pc' = pc /\ \A q \in Procs \ {p} : job'[q] = job[q]
      BY <1>1, <1>4, InsideAlters DEF Alters, DataTyped, vars
    <3> QED
      BY <1>1, <3>1, <3>2 DEF Behind
  <2> QED
    BY <1>2, <1>3, <2>1, <2>2, <2>3 DEF SDInv
<1>5. ASSUME NEW p \in Procs, BeginJob(p) \/ LockStep(p)
      PROVE  SDInv'
  <2>1. job' \in [Procs -> Jobs] /\ Behind' /\ RecordInv'
    BY <1>2, <1>3, <1>5, AroundNext
  <2>2. /\ dir' = TRUE \/ dir' = dir
        /\ UNCHANGED <<desired, temps, tombs, purges, installed>>
    BY <1>5 DEF BeginJob, LockStep, dirVars
  <2>3. DataTyped'
    BY <1>1, <1>3, <2>1, <2>2 DEF DataTyped
  <2>4. ~dir' => Empty'
    <3>1. SUFFICES ASSUME ~dir' PROVE ~lock'.exists
      BY <1>1, <2>2 DEF Empty, Files
    <3>2. LockStep(p) /\ ~dir /\ ~lock.exists
      <4>1. ~BeginJob(p)
        BY <3>1 DEF BeginJob
      <4>2. LockStep(p) /\ dir' = dir
        BY <1>5, <4>1 DEF LockStep, dirVars
      <4> QED
        BY <1>1, <3>1, <4>2 DEF Empty
    <3>3. lock = NoLock
      BY <1>1, <3>2 DEF TypeOK
    <3>4. lock' = lock \/ lock' = NoLock
      <4>1. \A q \in Procs : [lock EXCEPT !.pid = Named(@, q)] = lock
        BY <3>3, NoPidIsNotAProcess DEF Named, NoLock
      <4> QED
        BY <3>2, <3>3, <4>1, NoPidIsNotAProcess DEF LockStep, TryCreate, GiveUp, ReleaseJob, KeepLock,
           ExitJob, CreateFails, ProbeMissing, Refuse, WriteFails, RemoveFails, Crash, Write, Read,
           Probe, Remove, Release, ReleaseFails, Exit, Dies, Unlock, NoLock
    <3> QED
      BY <3>3, <3>4 DEF NoLock
  <2> QED
    BY <1>2, <1>3, <2>1, <2>3, <2>4 DEF SDInv
<1>6. CASE Grow
  <2>1. lock.exists /\ lock'.exists /\ UNCHANGED <<pc, job, dirVars>>
    BY <1>1, <1>6 DEF Grow, Age, TypeOK
  <2>2. DataTyped' /\ (~dir' => Empty')
    BY <1>1, <1>3, <2>1 DEF DataTyped, dirVars, Empty
  <2>3. Behind' /\ RecordInv'
    BY <1>1, <1>3, <2>1 DEF Behind, RecordInv, Informed, At, dirVars
  <2> QED
    BY <1>2, <1>3, <2>2, <2>3 DEF SDInv
<1>7. CASE UNCHANGED sdVars
  <2>1. UNCHANGED <<lock, pc, job, dirVars, shared>>
    BY <1>7 DEF sdVars, vars
  <2>2. DataTyped' /\ (~dir' => Empty')
    BY <1>1, <2>1 DEF DataTyped, dirVars, Empty, Files
  <2>3. Behind' /\ RecordInv'
    BY <1>1, <2>1 DEF Behind, RecordInv, Informed, At, dirVars
  <2> QED
    BY <1>2, <1>3, <2>2, <2>3 DEF SDInv
<1> QED
  BY <1>4, <1>5, <1>6, <1>7 DEF SDNext

\* The invariant of the state directory, for any number of processes and hosts.
THEOREM DirectoryInvariance == SDSpec => []SDInv
BY InvInit, InvNext, PTL DEF SDSpec

\* The types of the directory, and that it is never removed with anything in it: a lock,
\* a desired state, a temporary file or another purge's tombstone.
THEOREM DirectoryTypes == SDSpec => []SDTypeOK
<1>1. SDInv => SDTypeOK
  BY DEF SDInv, DataTyped, SDTypeOK
<1> QED
  BY <1>1, DirectoryInvariance, PTL

\* As long as no two installers ever held the lock at once, the desired state names the
\* hosts that were installed and not removed since, however many installers and purges
\* there are and wherever they fail: the end of a purge, which runs beside the next
\* operation, and the rollback of its tombstones cost nobody an update.
THEOREM RecordIsKept == SDSpec => []RecordKept
<1>1. SDInv => RecordKept
  BY DEF SDInv, RecordInv, RecordKept
<1> QED
  BY <1>1, DirectoryInvariance, PTL
=============================================================================

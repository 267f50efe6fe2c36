------------------------ MODULE EvaluationLabProofs ------------------------
(***************************************************************************)
(* What is proved of the evaluation lab, for any number of labs, groups,   *)
(* arms, answers and versions of the host, and any bounds.  The argument:  *)
(* an action is made of a ledger that is Sound, and makes another that is; *)
(* the lock lets one action at a time be in hand, so the ledger an action  *)
(* saves was made of the one it replaces (AtWork), and what a failed save  *)
(* leaves is the Sound ledger of before, beside files it does not speak    *)
(* of.  An answer on disk is replaced only while its run is running, so    *)
(* no ledger that says the run is completed loses the answer (Answered).   *)
(***************************************************************************)
EXTENDS EvaluationLab, FiniteSetTheorems, SequenceTheorems, TLAPS

Ledgers == [runs : Seq(Run), complete : [Groups -> BOOLEAN],
            judged : [Groups -> Arms \cup {None}], criteria : BOOLEAN, started : 0..Budget]

-----------------------------------------------------------------------------
(***************************************************************************)
(* A ledger that is sound, part by part.                                   *)
(***************************************************************************)
LedgerTyped(w) ==
  /\ w \in Ledgers
  /\ Len(w.runs) <= MaxRuns
  /\ \A r \in Runs(w) : w.runs[r].attempt <= r

\* The attempts at a condition are numbered from one, without a gap.
Numbered(w) ==
  \A g \in Groups, a \in Arms :
    \E n \in Nat \ {0} : {w.runs[o].attempt : o \in Attempts(w, g, a)} = 1..n

\* A group has one first attempt for each condition.
FirstAttempts(w) ==
  \A g \in Groups, a \in Arms :
    \E r \in Primaries(w, g) :
      w.runs[r].arm = a /\ \A o \in Primaries(w, g) : w.runs[o].arm = a => o = r

RunsValidate(w) == \A r \in Runs(w) : RunValidates(w.runs[r])

GroupsValidate(w) ==
  \A g \in Groups : /\ w.complete[g] <=> GroupComplete(w, g)
                    /\ w.judged[g] # None => w.complete[g]

Comparable(w) ==
  \A g \in Groups : \A r, o \in Primaries(w, g) :
    w.runs[r].started /\ w.runs[o].started => w.runs[r].preflight = w.runs[o].preflight

OneAtATime(w) == \A r, o \in Running(w) : r = o

StartedRuns(w) == {r \in Runs(w) : w.runs[r].started}
Counted(w) == w.started = Cardinality(StartedRuns(w))

Sound(w) ==
  /\ LedgerTyped(w)
  /\ Numbered(w)
  /\ FirstAttempts(w)
  /\ RunsValidate(w)
  /\ GroupsValidate(w)
  /\ Comparable(w)
  /\ OneAtATime(w)
  /\ Counted(w)

\* A run the ledger calls completed has its answer on disk; one that was taken from
\* the outbox is one the operator was shown.
Answered(w) ==
  \A r \in Runs(w) : w.runs[r].status = "completed" =>
    /\ approved[r] # None
    /\ w.runs[r].intake = "file" => approved[r] \in seen[r]

-----------------------------------------------------------------------------
FilesTyped ==
  /\ actors \subseteq Ids
  /\ outbox \in [Ids -> Texts \cup {None}]
  /\ approved \in [Ids -> Texts \cup {None}]
  /\ approvals \in [Labs -> [Ids -> Texts \cup {None}]]
  /\ seen \in [Ids -> SUBSET Texts]
  /\ writes \in 0..MaxWrites
  /\ faults \in 0..MaxFaults

LabsTyped ==
  /\ lock \in BOOLEAN
  /\ pc \in [Labs -> {"idle", "fill", "save"}]
  /\ call \in [Labs -> Ids \cup {None}]
  /\ work \in [Labs -> Ledgers \cup {None}]

\* One action at a time is in hand, under the lock; what it will save is sound.
AtWork ==
  \A l \in Labs :
    /\ pc[l] = "idle" => work[l] = None
    /\ pc[l] # "idle" => lock /\ \A k \in Labs : pc[k] # "idle" => k = l
    /\ pc[l] = "fill" => /\ call[l] \in Runs(ledger)
                         /\ ledger.runs[call[l]].status = "planned"
                         /\ work[l] = ledger
    /\ pc[l] = "save" => Sound(work[l]) /\ Answered(work[l])

\* A lab remembers answers the operator was shown.
Shown == \A l \in Labs, r \in Ids : approvals[l][r] \in seen[r] \cup {None}

LabInv == FilesTyped /\ LabsTyped /\ Sound(ledger) /\ Answered(ledger) /\ AtWork /\ Shown

-----------------------------------------------------------------------------
(***************************************************************************)
(* What follows from a sound ledger.                                       *)
(***************************************************************************)
\* The runs of a ledger have the numbers 1 to the last one's.
LEMMA RunsOf ==
  ASSUME NEW w, LedgerTyped(w)
  PROVE  /\ Runs(w) = 1..Len(w.runs)
         /\ Runs(w) \subseteq Ids
         /\ IsFiniteSet(Runs(w))
         /\ Len(w.runs) \in Nat
         /\ \A r \in Runs(w) : w.runs[r] \in Run
<1>1. w.runs \in Seq(Run) /\ Len(w.runs) <= MaxRuns
  BY DEF LedgerTyped, Ledgers
<1>2. Runs(w) = 1..Len(w.runs) /\ Len(w.runs) \in Nat /\ \A r \in Runs(w) : w.runs[r] \in Run
  BY <1>1, LenProperties, ElementOfSeq DEF Runs
<1>3. Runs(w) \subseteq Ids
  BY <1>1, <1>2, LabAssumption DEF Ids
<1>4. IsFiniteSet(Runs(w))
  BY <1>2, FS_Interval
<1>5. QED  BY <1>2, <1>3, <1>4

\* A set of at most one element is counted as such.
LEMMA AtMostOne ==
  ASSUME NEW S, \A x, y \in S : x = y
  PROVE  Cardinality(S) <= 1
<1>1. CASE S = {}
  BY <1>1, FS_EmptySet
<1>2. CASE S # {}
  <2>1. PICK x : S = {x}  BY <1>2
  <2>2. QED  BY <2>1, FS_Singleton
<1>3. QED  BY <1>1, <1>2

\* As many first attempts as conditions.
LEMMA PrimariesCounted ==
  ASSUME NEW w, Sound(w), NEW g \in Groups
  PROVE  Cardinality(Primaries(w, g)) = Cardinality(Arms)
<1>1. LedgerTyped(w) /\ FirstAttempts(w)
  BY DEF Sound
<1>2. \A r \in Primaries(w, g) : w.runs[r].arm \in Arms
  BY <1>1, RunsOf DEF Primaries, Run
<1>3. IsFiniteSet(Primaries(w, g))
  BY <1>1, RunsOf, FS_Subset DEF Primaries
<1>. DEFINE f == [r \in Primaries(w, g) |-> w.runs[r].arm]
<1>4. f \in [Primaries(w, g) -> Arms]
  BY <1>2
<1>5. \A r, o \in Primaries(w, g) : f[r] = f[o] => r = o
  BY <1>1, <1>2 DEF FirstAttempts
<1>6. \A a \in Arms : \E r \in Primaries(w, g) : f[r] = a
  BY <1>1 DEF FirstAttempts
<1>7. f \in Bijection(Primaries(w, g), Arms)
  BY <1>4, <1>5, <1>6 DEF Bijection, Injection, Surjection, IsInjective
<1>8. ExistsBijection(Primaries(w, g), Arms)
  BY <1>7 DEF ExistsBijection
<1>9. QED  BY <1>3, <1>8, FS_Bijection

-----------------------------------------------------------------------------
(***************************************************************************)
(* What a change of one run keeps of a ledger.                             *)
(***************************************************************************)
\* v is w with another record of run r, whose place in the study stays.
Replaces(v, w, r, run) ==
  /\ v \in Ledgers
  /\ r \in Runs(w)
  /\ run \in Run
  /\ v.runs = [w.runs EXCEPT ![r] = run]
  /\ run.group = w.runs[r].group
  /\ run.arm = w.runs[r].arm
  /\ run.attempt = w.runs[r].attempt

\* The plan of the study is the same: runs, their groups, conditions and attempts.
SamePlan(v, w) ==
  /\ Runs(v) = Runs(w)
  /\ \A g : Primaries(v, g) = Primaries(w, g)
  /\ \A g, a : Attempts(v, g, a) = Attempts(w, g, a)
  /\ \A r \in Runs(w) : /\ v.runs[r].group = w.runs[r].group
                        /\ v.runs[r].arm = w.runs[r].arm
                        /\ v.runs[r].attempt = w.runs[r].attempt

\* The run replaced is the only one that is another.
LEMMA ReplacedRuns ==
  ASSUME NEW w, LedgerTyped(w), NEW v, NEW r, NEW run, Replaces(v, w, r, run)
  PROVE  /\ Runs(v) = Runs(w)
         /\ Len(v.runs) = Len(w.runs)
         /\ v.runs[r] = run
         /\ \A o \in Runs(w) : o # r => v.runs[o] = w.runs[o]
<1>1. w.runs \in Seq(Run) /\ run \in Run /\ v.runs = [w.runs EXCEPT ![r] = run]
  BY DEF LedgerTyped, Ledgers, Replaces
<1>2. r \in 1..Len(w.runs) /\ Runs(w) = 1..Len(w.runs)
  BY RunsOf DEF Replaces
<1>3. QED  BY <1>1, <1>2, ExceptSeq, LenProperties DEF Runs

\* So the plan of the study is the same.
LEMMA ReplacedPlan ==
  ASSUME NEW w, LedgerTyped(w), NEW v, NEW r, NEW run, Replaces(v, w, r, run)
  PROVE  SamePlan(v, w) /\ LedgerTyped(v)
<1>1. /\ Runs(v) = Runs(w) /\ Len(v.runs) = Len(w.runs)
      /\ v.runs[r] = run /\ \A o \in Runs(w) : o # r => v.runs[o] = w.runs[o]
  BY ReplacedRuns
<1>2. \A o \in Runs(w) : /\ v.runs[o].group = w.runs[o].group
                         /\ v.runs[o].arm = w.runs[o].arm
                         /\ v.runs[o].attempt = w.runs[o].attempt
  BY <1>1 DEF Replaces
<1>3. \A g : Primaries(v, g) = Primaries(w, g)
  BY <1>1, <1>2 DEF Primaries
<1>4. \A g, a : Attempts(v, g, a) = Attempts(w, g, a)
  BY <1>1, <1>2 DEF Attempts
<1>5. LedgerTyped(v)
  BY <1>1, <1>2 DEF LedgerTyped, Replaces
<1>6. QED  BY <1>1, <1>2, <1>3, <1>4, <1>5 DEF SamePlan

\* The attempts keep their numbers, and the groups their first attempts.
LEMMA PlanKept ==
  ASSUME NEW w, NEW v, SamePlan(v, w), Numbered(w), FirstAttempts(w)
  PROVE  Numbered(v) /\ FirstAttempts(v)
<1>1. \A g, a : {v.runs[o].attempt : o \in Attempts(v, g, a)} = {w.runs[o].attempt : o \in Attempts(w, g, a)}
  <2>. SUFFICES ASSUME NEW g, NEW a
                PROVE  {v.runs[o].attempt : o \in Attempts(v, g, a)} = {w.runs[o].attempt : o \in Attempts(w, g, a)}
    OBVIOUS
  <2>1. Attempts(v, g, a) = Attempts(w, g, a)
    BY DEF SamePlan
  <2>2. \A o \in Attempts(w, g, a) : v.runs[o].attempt = w.runs[o].attempt
    BY DEF SamePlan, Attempts
  <2>3. QED  BY <2>1, <2>2
<1>2. Numbered(v)
  BY <1>1 DEF Numbered
<1>3. \A g : \A r \in Primaries(w, g) : v.runs[r].arm = w.runs[r].arm
  BY DEF SamePlan, Primaries
<1>4. FirstAttempts(v)
  BY <1>3 DEF FirstAttempts, SamePlan
<1>5. QED  BY <1>2, <1>4

\* What a run says stays valid, if the new record of the run replaced is.
LEMMA ReplacedValidate ==
  ASSUME NEW w, LedgerTyped(w), RunsValidate(w), NEW v, NEW r, NEW run,
         Replaces(v, w, r, run), RunValidates(run)
  PROVE  RunsValidate(v)
BY ReplacedRuns DEF RunsValidate

-----------------------------------------------------------------------------
(***************************************************************************)
(* The changes the handlers make of one run.                               *)
(***************************************************************************)
\* A run that was not started yet, prepared or looked at by a preflight.
LEMMA UnstartedSound ==
  ASSUME NEW w, Sound(w), NEW v, NEW r, NEW run, Replaces(v, w, r, run), RunValidates(run),
         w.runs[r].status \in {"planned", "prepared"}, run.status = "prepared",
         v.complete = w.complete, v.judged = w.judged, v.started = w.started
  PROVE  Sound(v)
<1>1. /\ LedgerTyped(w) /\ Numbered(w) /\ FirstAttempts(w) /\ RunsValidate(w)
      /\ GroupsValidate(w) /\ Comparable(w) /\ OneAtATime(w) /\ Counted(w)
  BY DEF Sound
<1>2. /\ Runs(v) = Runs(w) /\ v.runs[r] = run
      /\ \A o \in Runs(w) : o # r => v.runs[o] = w.runs[o]
  BY <1>1, ReplacedRuns
<1>3. SamePlan(v, w) /\ LedgerTyped(v)
  BY <1>1, ReplacedPlan
<1>4. Numbered(v) /\ FirstAttempts(v)
  BY <1>1, <1>3, PlanKept
<1>5. RunsValidate(v)
  BY <1>1, ReplacedValidate
<1>6. ~w.runs[r].started /\ ~run.started /\ r \in Runs(w)
  BY <1>1 DEF RunsValidate, RunValidates, Replaces
<1>7. GroupsValidate(v)
  <2>1. \A g : Primaries(v, g) = Primaries(w, g) /\ Primaries(w, g) \subseteq Runs(w)
    BY <1>3 DEF SamePlan, Primaries
  <2>2. \A o \in Runs(w) : v.runs[o].status = "completed" <=> w.runs[o].status = "completed"
    BY <1>2
  <2>3. \A g \in Groups : GroupComplete(v, g) <=> GroupComplete(w, g)
    BY <2>1, <2>2 DEF GroupComplete
  <2>4. QED  BY <1>1, <2>3 DEF GroupsValidate
<1>8. Comparable(v)
  <2>1. \A g : Primaries(v, g) = Primaries(w, g) /\ Primaries(w, g) \subseteq Runs(w)
    BY <1>3 DEF SamePlan, Primaries
  <2>2. QED  BY <1>1, <1>2, <1>6, <2>1 DEF Comparable
<1>9. OneAtATime(v)
  <2>1. Running(v) \subseteq Running(w)
    BY <1>2 DEF Running
  <2>2. QED  BY <1>1, <2>1 DEF OneAtATime
<1>10. Counted(v)
  <2>1. \A o \in Runs(w) : v.runs[o].started <=> w.runs[o].started
    BY <1>2, <1>6
  <2>2. StartedRuns(v) = StartedRuns(w)
    BY <1>2, <2>1 DEF StartedRuns
  <2>3. QED  BY <1>1, <2>2 DEF Counted
<1>11. QED  BY <1>3, <1>4, <1>5, <1>7, <1>8, <1>9, <1>10 DEF Sound

\* A run that is started, when none is running and no first attempt of its group
\* was started under another version of the host.
LEMMA StartedSound ==
  ASSUME NEW w, Sound(w), NEW v, NEW r, NEW run, Replaces(v, w, r, run), RunValidates(run),
         w.runs[r].status = "prepared", ~Mismatch(w, r), Running(w) = {},
         run.preflight = w.runs[r].preflight, run.started, run.status = "running",
         v.complete = w.complete, v.judged = w.judged, v.started = w.started + 1
  PROVE  Sound(v)
<1>1. /\ LedgerTyped(w) /\ Numbered(w) /\ FirstAttempts(w) /\ RunsValidate(w)
      /\ GroupsValidate(w) /\ Comparable(w) /\ Counted(w)
  BY DEF Sound
<1>2. /\ Runs(v) = Runs(w) /\ v.runs[r] = run
      /\ \A o \in Runs(w) : o # r => v.runs[o] = w.runs[o]
  BY <1>1, ReplacedRuns
<1>3. SamePlan(v, w) /\ LedgerTyped(v)
  BY <1>1, ReplacedPlan
<1>4. Numbered(v) /\ FirstAttempts(v)
  BY <1>1, <1>3, PlanKept
<1>5. RunsValidate(v)
  BY <1>1, ReplacedValidate
<1>6. ~w.runs[r].started /\ r \in Runs(w)
  BY <1>1 DEF RunsValidate, RunValidates, Replaces
<1>7. \A g : Primaries(v, g) = Primaries(w, g) /\ Primaries(w, g) \subseteq Runs(w)
  BY <1>3 DEF SamePlan, Primaries
<1>8. GroupsValidate(v)
  <2>1. \A o \in Runs(w) : v.runs[o].status = "completed" <=> w.runs[o].status = "completed"
    BY <1>2
  <2>2. \A g \in Groups : GroupComplete(v, g) <=> GroupComplete(w, g)
    BY <1>7, <2>1 DEF GroupComplete
  <2>3. QED  BY <1>1, <2>2 DEF GroupsValidate
<1>9. Comparable(v)
  <2>. SUFFICES ASSUME NEW g \in Groups, NEW x \in Primaries(w, g), NEW y \in Primaries(w, g),
                       v.runs[x].started, v.runs[y].started
                PROVE  v.runs[x].preflight = v.runs[y].preflight
    BY <1>7 DEF Comparable
  <2>1. \A o \in Primaries(w, g) : r \in Primaries(w, g) /\ w.runs[o].started =>
          w.runs[o].preflight = w.runs[r].preflight
    BY DEF Mismatch, Primaries
  <2>2. v.runs[r].preflight = w.runs[r].preflight
    BY <1>2
  <2>3. x \in Runs(w) /\ y \in Runs(w)
    BY <1>7
  <2>4. CASE x = r /\ y = r
    BY <2>4
  <2>5. CASE x = r /\ y # r
    BY <1>2, <2>1, <2>2, <2>3, <2>5
  <2>6. CASE x # r /\ y = r
    BY <1>2, <2>1, <2>2, <2>3, <2>6
  <2>7. CASE x # r /\ y # r
    BY <1>1, <1>2, <2>3, <2>7 DEF Comparable
  <2>8. QED  BY <2>4, <2>5, <2>6, <2>7
<1>10. OneAtATime(v)
  <2>1. Running(v) \subseteq {r}
    BY <1>2 DEF Running
  <2>2. QED  BY <2>1 DEF OneAtATime
<1>11. Counted(v)
  <2>1. StartedRuns(v) = StartedRuns(w) \cup {r} /\ r \notin StartedRuns(w)
    BY <1>2, <1>6 DEF StartedRuns
  <2>2. IsFiniteSet(StartedRuns(w))
    BY <1>1, RunsOf, FS_Subset DEF StartedRuns
  <2>3. Cardinality(StartedRuns(v)) = Cardinality(StartedRuns(w)) + 1
    BY <2>1, <2>2, FS_AddElement
  <2>4. QED  BY <1>1, <2>3 DEF Counted
<1>12. QED  BY <1>3, <1>4, <1>5, <1>8, <1>9, <1>10, <1>11 DEF Sound

\* A run that ends, completed or not: a group that was judged was complete already,
\* so none of its first attempts ends.
LEMMA EndedSound ==
  ASSUME NEW w, Sound(w), NEW v, NEW r, NEW run, Replaces(v, w, r, run), RunValidates(run),
         w.runs[r].status \notin Terminal, run.status \in Terminal,
         run.preflight = w.runs[r].preflight, run.started = w.runs[r].started,
         v.complete = [w.complete EXCEPT ![w.runs[r].group] = GroupComplete(v, w.runs[r].group)],
         v.judged = w.judged, v.started = w.started
  PROVE  Sound(v)
<1>1. /\ LedgerTyped(w) /\ Numbered(w) /\ FirstAttempts(w) /\ RunsValidate(w)
      /\ GroupsValidate(w) /\ Comparable(w) /\ OneAtATime(w) /\ Counted(w)
  BY DEF Sound
<1>2. /\ Runs(v) = Runs(w) /\ v.runs[r] = run
      /\ \A o \in Runs(w) : o # r => v.runs[o] = w.runs[o]
  BY <1>1, ReplacedRuns
<1>3. SamePlan(v, w) /\ LedgerTyped(v)
  BY <1>1, ReplacedPlan
<1>4. Numbered(v) /\ FirstAttempts(v)
  BY <1>1, <1>3, PlanKept
<1>5. RunsValidate(v)
  BY <1>1, ReplacedValidate
<1>6. r \in Runs(w) /\ w.complete \in [Groups -> BOOLEAN]
  BY <1>1 DEF Replaces, LedgerTyped, Ledgers
<1>7. \A g : Primaries(v, g) = Primaries(w, g) /\ Primaries(w, g) \subseteq Runs(w)
  BY <1>3 DEF SamePlan, Primaries
<1>8. GroupsValidate(v)
  <2>. SUFFICES ASSUME NEW g \in Groups
                PROVE  /\ v.complete[g] <=> GroupComplete(v, g)
                       /\ v.judged[g] # None => v.complete[g]
    BY DEF GroupsValidate
  <2>1. (w.complete[g] <=> GroupComplete(w, g)) /\ (w.judged[g] # None => w.complete[g])
    BY <1>1 DEF GroupsValidate
  <2>2. CASE g = w.runs[r].group
    <3>1. v.complete[g] <=> GroupComplete(v, g)
      BY <1>6, <2>2
    <3>2. ASSUME GroupComplete(w, g)  PROVE GroupComplete(v, g)
      BY <1>2, <1>7, <3>2 DEF GroupComplete, Terminal
    <3>3. QED  BY <2>1, <3>1, <3>2
  <2>3. CASE g # w.runs[r].group
    <3>1. v.complete[g] = w.complete[g]
      BY <1>6, <2>3
    <3>2. r \notin Primaries(w, g)
      BY <2>3 DEF Primaries
    <3>3. \A o \in Primaries(w, g) : v.runs[o] = w.runs[o]
      BY <1>2, <1>7, <3>2
    <3>4. GroupComplete(v, g) <=> GroupComplete(w, g)
      BY <1>7, <3>3 DEF GroupComplete
    <3>5. QED  BY <2>1, <3>1, <3>4
  <2>4. QED  BY <2>2, <2>3
<1>9. \A o \in Runs(w) : /\ v.runs[o].started = w.runs[o].started
                         /\ v.runs[o].preflight = w.runs[o].preflight
  BY <1>2
<1>10. Comparable(v)
  BY <1>1, <1>7, <1>9 DEF Comparable
<1>11. OneAtATime(v)
  <2>1. Running(v) \subseteq Running(w)
    BY <1>2 DEF Running, Terminal
  <2>2. QED  BY <1>1, <2>1 DEF OneAtATime
<1>12. Counted(v)
  <2>1. StartedRuns(v) = StartedRuns(w)
    BY <1>2, <1>9 DEF StartedRuns
  <2>2. QED  BY <1>1, <2>1 DEF Counted
<1>13. QED  BY <1>3, <1>4, <1>5, <1>8, <1>10, <1>11, <1>12 DEF Sound

\* What is said of the groups and of the criteria is beside the runs.
LEMMA SameRunsSound ==
  ASSUME NEW w, Sound(w), NEW v \in Ledgers, v.runs = w.runs, v.started = w.started,
         v.complete = w.complete, \A g \in Groups : v.judged[g] # None => v.complete[g]
  PROVE  Sound(v)
<1>1. /\ LedgerTyped(w) /\ Numbered(w) /\ FirstAttempts(w) /\ RunsValidate(w)
      /\ GroupsValidate(w) /\ Comparable(w) /\ OneAtATime(w) /\ Counted(w)
  BY DEF Sound
<1>2. Runs(v) = Runs(w) /\ Running(v) = Running(w) /\ StartedRuns(v) = StartedRuns(w)
  BY DEF Runs, Running, StartedRuns
<1>3. \A g : Primaries(v, g) = Primaries(w, g) /\ (GroupComplete(v, g) <=> GroupComplete(w, g))
  BY <1>2 DEF Primaries, GroupComplete
<1>4. \A g, a : Attempts(v, g, a) = Attempts(w, g, a)
  BY <1>2 DEF Attempts
<1>5. LedgerTyped(v) /\ Numbered(v) /\ FirstAttempts(v)
  BY <1>1, <1>2, <1>3, <1>4 DEF LedgerTyped, Numbered, FirstAttempts
<1>6. RunsValidate(v) /\ GroupsValidate(v) /\ Comparable(v) /\ OneAtATime(v) /\ Counted(v)
  BY <1>1, <1>2, <1>3 DEF RunsValidate, GroupsValidate, Comparable, OneAtATime, Counted
<1>7. QED  BY <1>5, <1>6 DEF Sound

\* The last attempt at a condition is the greatest number its attempts have.
LEMMA LastAttempt ==
  ASSUME NEW w, LedgerTyped(w), Numbered(w), NEW g \in Groups, NEW a \in Arms
  PROVE  \E n \in Nat \ {0} : /\ {w.runs[o].attempt : o \in Attempts(w, g, a)} = 1..n
                              /\ Max({w.runs[o].attempt : o \in Attempts(w, g, a)}) = n
                              /\ n <= Len(w.runs)
<1>1. PICK n \in Nat \ {0} : {w.runs[o].attempt : o \in Attempts(w, g, a)} = 1..n
  BY DEF Numbered
<1>2. Max(1..n) = n
  <2>1. n \in 1..n /\ \A y \in 1..n : n >= y
    OBVIOUS
  <2>2. \A x \in 1..n : (\A y \in 1..n : x >= y) => x = n
    BY <2>1
  <2>3. QED  BY <2>1, <2>2 DEF Max
<1>3. PICK o \in Attempts(w, g, a) : w.runs[o].attempt = n
  <2>1. n \in 1..n
    OBVIOUS
  <2>2. QED  BY <1>1, <2>1
<1>4. n <= Len(w.runs)
  <2>1. o \in 1..Len(w.runs) /\ Len(w.runs) \in Nat
    BY RunsOf DEF Attempts
  <2>2. w.runs[o].attempt <= o
    BY DEF Attempts, LedgerTyped
  <2>3. QED  BY <1>3, <2>1, <2>2
<1>5. QED  BY <1>1, <1>2, <1>4

\* v is w and one more run, planned for another attempt at a condition.
Adds(v, w, g, a, n) ==
  /\ g \in Groups /\ a \in Arms /\ n \in Nat \ {0}
  /\ {w.runs[o].attempt : o \in Attempts(w, g, a)} = 1..n
  /\ v.complete = w.complete /\ v.judged = w.judged /\ v.started = w.started
  /\ Runs(v) = Runs(w) \cup {Len(v.runs)} /\ Len(v.runs) \notin Runs(w)
  /\ v.runs[Len(v.runs)] = NewRun(g, a, n + 1)
  /\ \A o \in Runs(w) : v.runs[o] = w.runs[o]

\* The attempts stay numbered without a gap, and what is said of the others true.
LEMMA AddedSound ==
  ASSUME NEW w, Sound(w), NEW v, NEW g, NEW a, NEW n, Adds(v, w, g, a, n), LedgerTyped(v)
  PROVE  Sound(v)
<1>1. /\ Numbered(w) /\ FirstAttempts(w) /\ RunsValidate(w)
      /\ GroupsValidate(w) /\ Comparable(w) /\ OneAtATime(w) /\ Counted(w)
  BY DEF Sound
<1>2. PICK last : last = Len(v.runs)
  OBVIOUS
<1>3. PICK run : run = NewRun(g, a, n + 1)
  OBVIOUS
<1>4. /\ Runs(v) = Runs(w) \cup {last} /\ last \notin Runs(w) /\ v.runs[last] = run
      /\ \A o \in Runs(w) : v.runs[o] = w.runs[o]
  BY <1>2, <1>3 DEF Adds
<1>5. /\ run.group = g /\ run.arm = a /\ run.attempt = n + 1 /\ run.status = "planned"
      /\ run.started = FALSE /\ run.preflight = None /\ run.intake = None
  BY <1>3 DEF NewRun
<1>6. n \in Nat \ {0}
  BY DEF Adds
<1>7. \A h : Primaries(v, h) = Primaries(w, h) /\ Primaries(w, h) \subseteq Runs(w)
  BY <1>4, <1>5, <1>6 DEF Primaries
<1>8. Numbered(v)
  <2>. SUFFICES ASSUME NEW h \in Groups, NEW b \in Arms
                PROVE  \E m \in Nat \ {0} : {v.runs[o].attempt : o \in Attempts(v, h, b)} = 1..m
    BY DEF Numbered
  <2>1. CASE h = g /\ b = a
    <3>1. Attempts(v, g, a) = Attempts(w, g, a) \cup {last}
      BY <1>4, <1>5 DEF Attempts
    <3>2. \A o \in Attempts(w, g, a) : v.runs[o] = w.runs[o]
      BY <1>4 DEF Attempts
    <3>3. v.runs[last].attempt = n + 1
      BY <1>4, <1>5
    <3>4. {v.runs[o].attempt : o \in Attempts(v, g, a)}
            = {w.runs[o].attempt : o \in Attempts(w, g, a)} \cup {n + 1}
      BY <3>1, <3>2, <3>3
    <3>5. (1..n) \cup {n + 1} = 1..(n + 1) /\ n + 1 \in Nat \ {0}
      BY <1>6
    <3>6. {w.runs[o].attempt : o \in Attempts(w, g, a)} = 1..n
      BY DEF Adds
    <3>7. QED  BY <2>1, <3>4, <3>5, <3>6
  <2>2. CASE h # g \/ b # a
    <3>1. Attempts(v, h, b) = Attempts(w, h, b)
      BY <1>4, <1>5, <2>2 DEF Attempts
    <3>2. \A o \in Attempts(w, h, b) : v.runs[o] = w.runs[o]
      BY <1>4 DEF Attempts
    <3>3. {v.runs[o].attempt : o \in Attempts(v, h, b)} = {w.runs[o].attempt : o \in Attempts(w, h, b)}
      BY <3>1, <3>2
    <3>4. QED  BY <1>1, <3>3 DEF Numbered
  <2>3. QED  BY <2>1, <2>2
<1>9. \A h : \A r \in Primaries(w, h) : v.runs[r] = w.runs[r]
  BY <1>4, <1>7
<1>10. FirstAttempts(v)
  BY <1>1, <1>7, <1>9 DEF FirstAttempts
<1>11. RunsValidate(v)
  <2>1. RunValidates(run)
    BY <1>5 DEF RunValidates, Terminal
  <2>2. QED  BY <1>1, <1>4, <2>1 DEF RunsValidate
<1>12. GroupsValidate(v)
  <2>1. \A h : GroupComplete(v, h) <=> GroupComplete(w, h)
    BY <1>7, <1>9 DEF GroupComplete
  <2>2. v.complete = w.complete /\ v.judged = w.judged
    BY DEF Adds
  <2>3. QED  BY <1>1, <2>1, <2>2 DEF GroupsValidate
<1>13. Comparable(v)
  BY <1>1, <1>7, <1>9 DEF Comparable
<1>14. Running(v) = Running(w)
  BY <1>4, <1>5 DEF Running
<1>15. StartedRuns(v) = StartedRuns(w)
  BY <1>4, <1>5 DEF StartedRuns
<1>16. OneAtATime(v) /\ Counted(v)
  BY <1>1, <1>14, <1>15 DEF OneAtATime, Counted, Adds
<1>17. QED  BY <1>8, <1>10, <1>11, <1>12, <1>13, <1>16 DEF Sound

\* A retry: one more attempt at a condition, after its last.
Retried(v, w, g, a) ==
  v = [w EXCEPT !.runs = Append(@, NewRun(g, a,
         Max({w.runs[o].attempt : o \in Attempts(w, g, a)}) + 1))]

\* A retried run leaves a sound ledger and every completed run as it was.
LEMMA RetriedSound ==
  ASSUME NEW w, Sound(w), Len(w.runs) < MaxRuns, NEW g \in Groups, NEW a \in Arms,
         NEW v, Retried(v, w, g, a)
  PROVE  /\ Sound(v)
         /\ \A o \in Runs(v) : v.runs[o].status = "completed" => o \in Runs(w) /\ v.runs[o] = w.runs[o]
<1>1. LedgerTyped(w) /\ Numbered(w)
  BY DEF Sound
<1>2. Runs(w) = 1..Len(w.runs) /\ Len(w.runs) \in Nat
  BY <1>1, RunsOf
<1>3. PICK n \in Nat \ {0} : /\ {w.runs[o].attempt : o \in Attempts(w, g, a)} = 1..n
                             /\ Max({w.runs[o].attempt : o \in Attempts(w, g, a)}) = n
                             /\ n <= Len(w.runs)
  BY <1>1, LastAttempt
<1>4. PICK run : run = NewRun(g, a, n + 1)
  OBVIOUS
<1>5. v = [w EXCEPT !.runs = Append(@, run)]
  BY <1>3, <1>4 DEF Retried
<1>6. run \in Run /\ run.attempt = n + 1 /\ run.status = "planned"
  BY <1>2, <1>3, <1>4, LabAssumption DEF NewRun, Run
<1>7. w \in Ledgers /\ w.runs \in Seq(Run)
  BY <1>1 DEF LedgerTyped, Ledgers
<1>8. Append(w.runs, run) \in Seq(Run)
  BY <1>6, <1>7
<1>9. /\ v \in Ledgers /\ v.runs = Append(w.runs, run) /\ v.complete = w.complete
      /\ v.judged = w.judged /\ v.started = w.started
  BY <1>5, <1>7, <1>8 DEF Ledgers
<1>10. /\ Len(v.runs) = Len(w.runs) + 1
       /\ Runs(v) = 1..Len(w.runs) + 1
       /\ v.runs[Len(w.runs) + 1] = run
       /\ \A o \in 1..Len(w.runs) : v.runs[o] = w.runs[o]
  BY <1>2, <1>6, <1>7, <1>9 DEF Runs
<1>11. PICK last : last = Len(w.runs) + 1
  OBVIOUS
<1>12. /\ Len(v.runs) = last /\ v.runs[last] = run
       /\ \A o \in Runs(w) : v.runs[o] = w.runs[o]
  BY <1>2, <1>10, <1>11
<1>13. Runs(v) = Runs(w) \cup {last} /\ last \notin Runs(w)
  <2>1. 1..last = (1..Len(w.runs)) \cup {last} /\ last \notin 1..Len(w.runs)
    BY <1>2, <1>11
  <2>2. QED  BY <1>2, <1>10, <1>11, <2>1
<1>14. LedgerTyped(v)
  <2>1. Len(v.runs) <= MaxRuns
    BY <1>2, <1>11, <1>12, LabAssumption
  <2>2. run.attempt <= last
    BY <1>2, <1>3, <1>6, <1>11
  <2>3. \A o \in Runs(v) : v.runs[o].attempt <= o
    BY <1>1, <1>12, <1>13, <2>2 DEF LedgerTyped
  <2>4. QED  BY <1>9, <2>1, <2>3 DEF LedgerTyped
<1>15. Adds(v, w, g, a, n)
  BY <1>3, <1>4, <1>9, <1>12, <1>13 DEF Adds
<1>16. \A o \in Runs(v) : v.runs[o].status = "completed" => o \in Runs(w) /\ v.runs[o] = w.runs[o]
  BY <1>6, <1>12, <1>13
<1>17. QED  BY <1>14, <1>15, <1>16, AddedSound

-----------------------------------------------------------------------------
(***************************************************************************)
(* The study as it was created: one run planned for each group and arm.    *)
(***************************************************************************)
Planned == {NewRun(g, a, 1) : g \in Groups, a \in Arms}

\* They are as many as there may be runs.
LEMMA PlannedFits ==
  IsFiniteSet(Planned) /\ Cardinality(Planned) \in Nat /\ Cardinality(Planned) <= MaxRuns
<1>. DEFINE f == [ga \in Groups \X Arms |-> NewRun(ga[1], ga[2], 1)]
<1>1. IsFiniteSet(Groups \X Arms) /\ Cardinality(Groups \X Arms) = Cardinality(Groups) * Cardinality(Arms)
  BY LabAssumption, FS_Product
<1>2. f \in Surjection(Groups \X Arms, Planned)
  <2>1. f \in [Groups \X Arms -> Planned]
    BY DEF Planned
  <2>2. \A t \in Planned : \E s \in Groups \X Arms : f[s] = t
    <3>. SUFFICES ASSUME NEW g \in Groups, NEW a \in Arms
                  PROVE  \E s \in Groups \X Arms : f[s] = NewRun(g, a, 1)
      BY DEF Planned
    <3>1. <<g, a>> \in Groups \X Arms /\ f[<<g, a>>] = NewRun(g, a, 1)
      OBVIOUS
    <3>2. QED  BY <3>1
  <2>3. QED  BY <2>1, <2>2 DEF Surjection
<1>3. IsFiniteSet(Planned) /\ Cardinality(Planned) <= Cardinality(Groups \X Arms)
  BY <1>1, <1>2, FS_Surjection
<1>4. Cardinality(Planned) \in Nat
  BY <1>3, FS_CardinalityType
<1>5. Cardinality(Groups \X Arms) <= MaxRuns
  BY <1>1, LabAssumption
<1>6. Cardinality(Groups \X Arms) \in Nat /\ MaxRuns \in Nat
  BY <1>1, FS_CardinalityType, LabAssumption
<1>7. QED
  BY <1>3, <1>4, <1>5, <1>6

\* SetToSeq enumerates a finite set, each of its elements once.
LEMMA Enumerated ==
  ASSUME NEW S, IsFiniteSet(S)
  PROVE  /\ Cardinality(S) \in Nat
         /\ SetToSeq(S) \in [1..Cardinality(S) -> S]
         /\ \A i, j \in 1..Cardinality(S) : SetToSeq(S)[i] = SetToSeq(S)[j] => i = j
         /\ \A x \in S : \E i \in 1..Cardinality(S) : SetToSeq(S)[i] = x
<1>1. Cardinality(S) \in Nat /\ ExistsBijection(1..Cardinality(S), S)
  BY FS_CardinalityType
<1>2. \E f \in [1..Cardinality(S) -> S] : IsInjective(f)
  BY <1>1 DEF ExistsBijection, Bijection, Injection
<1>3. SetToSeq(S) \in [1..Cardinality(S) -> S] /\ IsInjective(SetToSeq(S))
  BY <1>2 DEF SetToSeq
<1>4. SetToSeq(S) \in Injection(1..Cardinality(S), S)
  BY <1>3 DEF Injection
<1>5. Cardinality(1..Cardinality(S)) = Cardinality(S)
  BY <1>1, FS_Interval
<1>6. SetToSeq(S) \in Surjection(1..Cardinality(S), S)
  BY <1>4, <1>5, FS_Injection
<1>7. QED
  BY <1>1, <1>3, <1>6 DEF IsInjective, Surjection

\* w is a study just created, of n planned runs.
JustCreated(w, n) ==
  /\ n \in Nat /\ n <= MaxRuns
  /\ w \in Ledgers
  /\ Runs(w) = 1..n /\ Len(w.runs) = n
  /\ \A i \in 1..n : w.runs[i] \in Planned
  /\ \A i, j \in 1..n : w.runs[i] = w.runs[j] => i = j
  /\ \A x \in Planned : \E i \in 1..n : w.runs[i] = x
  /\ \A g \in Groups : w.complete[g] = FALSE /\ w.judged[g] = None
  /\ w.started = 0

\* Each of the runs is the one of its group and condition.
LEMMA CreatedSound ==
  ASSUME NEW w, NEW n, JustCreated(w, n)
  PROVE  Sound(w) /\ \A r \in Runs(w) : w.runs[r].status = "planned"
<1>1. Runs(w) = 1..n
  BY DEF JustCreated
<1>2. \A i \in Runs(w) : \E g \in Groups, a \in Arms : w.runs[i] = NewRun(g, a, 1)
  <2>1. \A i \in Runs(w) : w.runs[i] \in Planned
    BY DEF JustCreated
  <2>2. QED  BY <2>1 DEF Planned
<1>3. \A i \in Runs(w) :
        /\ w.runs[i].attempt = 1 /\ w.runs[i].status = "planned" /\ w.runs[i].started = FALSE
        /\ w.runs[i].preflight = None /\ w.runs[i].intake = None
        /\ w.runs[i] = NewRun(w.runs[i].group, w.runs[i].arm, 1)
  <2>. SUFFICES ASSUME NEW i \in Runs(w), NEW run, run = w.runs[i]
                PROVE  /\ run.attempt = 1 /\ run.status = "planned" /\ run.started = FALSE
                       /\ run.preflight = None /\ run.intake = None
                       /\ run = NewRun(run.group, run.arm, 1)
    OBVIOUS
  <2>1. PICK g \in Groups, a \in Arms : run = NewRun(g, a, 1)
    BY <1>2
  <2>2. QED  BY <2>1 DEF NewRun
<1>4. LedgerTyped(w)
  <2>1. \A i \in 1..n : w.runs[i].attempt <= i
    BY <1>1, <1>3
  <2>2. QED  BY <1>1, <2>1 DEF LedgerTyped, JustCreated
<1>5. \A g \in Groups, a \in Arms : \E r \in Runs(w) :
        /\ w.runs[r].group = g /\ w.runs[r].arm = a
        /\ \A o \in Runs(w) : w.runs[o].group = g /\ w.runs[o].arm = a => o = r
  <2>. SUFFICES ASSUME NEW g \in Groups, NEW a \in Arms
                PROVE  \E r \in Runs(w) :
                         /\ w.runs[r].group = g /\ w.runs[r].arm = a
                         /\ \A o \in Runs(w) : w.runs[o].group = g /\ w.runs[o].arm = a => o = r
    OBVIOUS
  <2>1. NewRun(g, a, 1) \in Planned
    BY DEF Planned
  <2>2. PICK r \in Runs(w) : w.runs[r] = NewRun(g, a, 1)
    BY <2>1 DEF JustCreated
  <2>3. w.runs[r].group = g /\ w.runs[r].arm = a
    BY <2>2 DEF NewRun
  <2>4. \A o \in Runs(w) : w.runs[o].group = g /\ w.runs[o].arm = a => w.runs[o] = w.runs[r]
    BY <1>3, <2>2
  <2>5. \A o \in Runs(w) : w.runs[o] = w.runs[r] => o = r
    BY DEF JustCreated
  <2>6. QED  BY <2>3, <2>4, <2>5
<1>6. \A g \in Groups, a \in Arms : \E r \in Primaries(w, g) :
        w.runs[r].arm = a /\ Attempts(w, g, a) = {r}
  BY <1>3, <1>5 DEF Primaries, Attempts
<1>7. Numbered(w)
  <2>. SUFFICES ASSUME NEW g \in Groups, NEW a \in Arms
                PROVE  {w.runs[o].attempt : o \in Attempts(w, g, a)} = 1..1
    <3>1. 1 \in Nat \ {0}
      OBVIOUS
    <3>2. QED  BY <3>1 DEF Numbered
  <2>1. PICK r \in Primaries(w, g) : Attempts(w, g, a) = {r}
    BY <1>6
  <2>2. w.runs[r].attempt = 1
    BY DEF Primaries
  <2>3. {w.runs[o].attempt : o \in Attempts(w, g, a)} = {1}
    BY <2>1, <2>2
  <2>4. QED  BY <2>3
<1>8. FirstAttempts(w)
  <2>1. \A g, a : \A o \in Primaries(w, g) : w.runs[o].arm = a => o \in Attempts(w, g, a)
    BY DEF Primaries, Attempts
  <2>. SUFFICES ASSUME NEW g \in Groups, NEW a \in Arms
                PROVE  \E r \in Primaries(w, g) :
                         w.runs[r].arm = a /\ \A o \in Primaries(w, g) : w.runs[o].arm = a => o = r
    BY DEF FirstAttempts
  <2>2. PICK r \in Primaries(w, g) : w.runs[r].arm = a /\ Attempts(w, g, a) = {r}
    BY <1>6
  <2>3. QED  BY <2>1, <2>2
<1>9. RunsValidate(w)
  BY <1>3 DEF RunsValidate, RunValidates, Terminal
<1>10. GroupsValidate(w)
  <2>1. \A g \in Groups : ~GroupComplete(w, g)
    <3>. SUFFICES ASSUME NEW g \in Groups
                  PROVE  \E r \in Primaries(w, g) : w.runs[r].status # "completed"
      BY DEF GroupComplete
    <3>1. PICK a : a \in Arms
      BY LabAssumption
    <3>2. PICK r \in Primaries(w, g) : w.runs[r].arm = a
      BY <1>6, <3>1
    <3>3. w.runs[r].status = "planned"
      BY <1>3 DEF Primaries
    <3>4. QED  BY <3>3
  <2>2. QED  BY <2>1 DEF GroupsValidate, JustCreated
<1>11. Comparable(w)
  BY <1>3 DEF Comparable, Primaries
<1>12. Running(w) = {} /\ StartedRuns(w) = {}
  BY <1>3 DEF Running, StartedRuns
<1>13. OneAtATime(w) /\ Counted(w)
  BY <1>12, FS_EmptySet DEF OneAtATime, Counted, JustCreated
<1>14. QED
  BY <1>3, <1>4, <1>7, <1>8, <1>9, <1>10, <1>11, <1>13 DEF Sound

\* The ledger of Init is that of a study just created.
LEMMA InitCreated ==
  ASSUME NEW w,
         w = [runs |-> SetToSeq(Planned), complete |-> [g \in Groups |-> FALSE],
              judged |-> [g \in Groups |-> None], criteria |-> FALSE, started |-> 0]
  PROVE  \E n : JustCreated(w, n)
<1>1. PICK runs, n : runs = SetToSeq(Planned) /\ n = Cardinality(Planned)
  OBVIOUS
<1>2. /\ n \in Nat /\ n <= MaxRuns /\ runs \in [1..n -> Planned]
      /\ \A i, j \in 1..n : runs[i] = runs[j] => i = j
      /\ \A x \in Planned : \E i \in 1..n : runs[i] = x
  BY <1>1, PlannedFits, Enumerated
<1>3. \A i \in 1..n : runs[i] \in Run
  <2>. SUFFICES ASSUME NEW i \in 1..n
                PROVE  runs[i] \in Run
    OBVIOUS
  <2>1. 1 \in 1..MaxRuns
    BY <1>2, LabAssumption
  <2>2. runs[i] \in Planned
    BY <1>2
  <2>3. PICK g \in Groups, a \in Arms : runs[i] = NewRun(g, a, 1)
    BY <2>2 DEF Planned
  <2>4. QED  BY <2>1, <2>3 DEF NewRun, Run
<1>4. runs \in Seq(Run) /\ Len(runs) = n /\ DOMAIN runs = 1..n
  <2>1. runs \in [1..n -> Run]
    BY <1>2, <1>3
  <2>2. QED  BY <1>2, <2>1
<1>5. /\ w.runs = runs /\ w.complete = [g \in Groups |-> FALSE]
      /\ w.judged = [g \in Groups |-> None] /\ w.started = 0
  BY <1>1
<1>6. w \in Ledgers
  BY <1>1, <1>4, LabAssumption DEF Ledgers
<1>7. JustCreated(w, n)
  BY <1>2, <1>4, <1>5, <1>6 DEF JustCreated, Runs
<1>8. QED  BY <1>7

\* The study created and the labs idle.
LEMMA InitInv ==
  Init => LabInv
<1>. SUFFICES ASSUME Init  PROVE LabInv
  OBVIOUS
<1>1. PICK w : w = ledger
  OBVIOUS
<1>2. \E n : JustCreated(w, n)
  <2>1. w = [runs |-> SetToSeq(Planned), complete |-> [g \in Groups |-> FALSE],
             judged |-> [g \in Groups |-> None], criteria |-> FALSE, started |-> 0]
    BY <1>1 DEF Init, Planned
  <2>2. QED  BY <2>1, InitCreated
<1>3. Sound(ledger) /\ Answered(ledger)
  <2>1. Sound(w) /\ \A r \in Runs(w) : w.runs[r].status = "planned"
    BY <1>2, CreatedSound
  <2>2. QED  BY <1>1, <2>1 DEF Answered
<1>4. FilesTyped /\ LabsTyped
  <2>1. 0 \in 0..MaxWrites /\ 0 \in 0..MaxFaults
    BY LabAssumption
  <2>2. FilesTyped
    BY <2>1 DEF Init, FilesTyped
  <2>3. LabsTyped
    BY DEF Init, LabsTyped
  <2>4. QED  BY <2>2, <2>3
<1>5. AtWork /\ Shown
  BY DEF Init, AtWork, Shown
<1>6. QED  BY <1>3, <1>4, <1>5 DEF LabInv

-----------------------------------------------------------------------------
(***************************************************************************)
(* The ways an action goes on, whichever it is.                            *)
(***************************************************************************)
\* The lab that finds no lock, and the one that is at work, is alone.
LEMMA Alone ==
  ASSUME LabInv, NEW l \in Labs, pc[l] # "idle" \/ ~lock, NEW k \in Labs, k # l
  PROVE  pc[k] = "idle" /\ work[k] = None
BY DEF LabInv, AtWork, LabsTyped

\* The handler returns with a ledger that is sound.
LEMMA ReturnsInv ==
  ASSUME LabInv, NEW l \in Labs, NEW w, pc[l] # "idle" \/ ~lock, Returns(l, w), UNCHANGED ledger,
         Sound(w), Answered(w)', Answered(ledger)', Shown', FilesTyped'
  PROVE  LabInv'
<1>1. /\ lock' = TRUE /\ pc' = [pc EXCEPT ![l] = "save"] /\ work' = [work EXCEPT ![l] = w] /\ call' = call
  BY DEF Returns, Goto
<1>2. w \in Ledgers
  BY DEF Sound, LedgerTyped
<1>3. LabsTyped'
  BY <1>1, <1>2 DEF LabInv, LabsTyped
<1>4. pc'[l] = "save" /\ work'[l] = w /\ \A k \in Labs : k # l => pc'[k] = "idle" /\ work'[k] = None
  BY <1>1, Alone DEF LabInv, LabsTyped
<1>5. AtWork'
  BY <1>1, <1>4 DEF AtWork
<1>6. Sound(ledger)'
  <2>1. PICK u : u = ledger
    OBVIOUS
  <2>2. Sound(u) /\ ledger' = u
    BY <2>1 DEF LabInv
  <2>3. QED  BY <2>2
<1>7. QED  BY <1>3, <1>5, <1>6 DEF LabInv

\* It leaves, having saved the ledger or not.
LEMMA LeavesInv ==
  ASSUME LabInv, NEW l \in Labs, NEW w, pc[l] # "idle", Leaves(l),
         ledger' = w, Sound(w), Answered(w)', Shown', FilesTyped'
  PROVE  LabInv'
<1>1. /\ lock' = FALSE /\ pc' = [pc EXCEPT ![l] = "idle"]
      /\ work' = [work EXCEPT ![l] = None] /\ call' = [call EXCEPT ![l] = None]
  BY DEF Leaves, Goto
<1>2. LabsTyped'
  BY <1>1 DEF LabInv, LabsTyped
<1>3. \A k \in Labs : pc'[k] = "idle" /\ work'[k] = None
  BY <1>1, Alone DEF LabInv, LabsTyped
<1>4. AtWork'
  BY <1>3 DEF AtWork
<1>5. Sound(ledger)' /\ Answered(ledger)'
  OBVIOUS
<1>6. QED  BY <1>2, <1>4, <1>5 DEF LabInv

\* It stays out, or raises.
LEMMA RaisesInv ==
  ASSUME LabInv, UNCHANGED <<ledger, pc, call, work>>, lock' = lock \/ \A l \in Labs : pc[l] = "idle",
         lock' \in BOOLEAN, \A w : Answered(w) => Answered(w)', Shown', FilesTyped'
  PROVE  LabInv'
<1>1. LabsTyped'
  BY DEF LabInv, LabsTyped
<1>2. PICK u : u = ledger
  OBVIOUS
<1>3. Sound(u) /\ ledger' = u /\ Answered(u)
  BY <1>2 DEF LabInv
<1>4. Sound(ledger)' /\ Answered(ledger)'
  BY <1>3
<1>5. AtWork'
  <2>. SUFFICES ASSUME NEW l \in Labs, NEW s, s = work[l]
                PROVE  /\ pc[l] = "idle" => s = None
                       /\ pc[l] # "idle" => lock' /\ \A k \in Labs : pc[k] # "idle" => k = l
                       /\ pc[l] = "fill" => /\ call[l] \in Runs(ledger)
                                            /\ ledger.runs[call[l]].status = "planned"
                                            /\ s = ledger
                       /\ pc[l] = "save" => Sound(s) /\ Answered(s)'
    BY DEF AtWork, Runs
  <2>1. QED  BY DEF LabInv, AtWork
<1>6. QED  BY <1>1, <1>4, <1>5 DEF LabInv

-----------------------------------------------------------------------------
(***************************************************************************)
(* The actions.                                                            *)
(***************************************************************************)
\* While the files and what was shown stay, so does what is said of them.
LEMMA SameFiles ==
  ASSUME LabInv, UNCHANGED <<files, approvals, seen>>, writes' \in 0..MaxWrites, faults' \in 0..MaxFaults
  PROVE  /\ FilesTyped' /\ Shown' /\ \A w : Answered(w) => Answered(w)'
         /\ Answered(ledger) /\ \A u : u = ledger => Answered(u)'
<1>1. \A w : Answered(w) => Answered(w)'
  BY DEF Answered, files, Runs
<1>2. FilesTyped' /\ Shown'
  BY DEF LabInv, FilesTyped, Shown, files
<1>3. Answered(ledger)
  BY DEF LabInv
<1>4. QED  BY <1>1, <1>2, <1>3

\* The counters of a step that works, or fails.
LEMMA Counters ==
  ASSUME LabInv, Works \/ Fails
  PROVE  faults' \in 0..MaxFaults /\ writes \in 0..MaxWrites
BY LabAssumption DEF LabInv, FilesTyped, Works, Fails

\* Writing the study file keeps the invariant.
LEMMA SaveInv ==
  ASSUME LabInv, NEW l \in Labs, Save(l)
  PROVE  LabInv'
<1>1. /\ pc[l] = "save" /\ Leaves(l) /\ UNCHANGED <<files, approvals, seen, writes>>
      /\ ledger' = work[l] \/ ledger' = ledger
      /\ Works \/ Fails
  BY DEF Save, Same
<1>2. PICK w : w = ledger'
  OBVIOUS
<1>3. Sound(w) /\ Answered(w)
  BY <1>1, <1>2 DEF LabInv, AtWork
<1>4. FilesTyped' /\ Shown' /\ Answered(w)'
  BY <1>1, <1>3, SameFiles, Counters
<1>5. QED  BY <1>1, <1>2, <1>3, <1>4, LeavesInv

\* Preparing a run keeps the invariant.
LEMMA PrepareInv ==
  ASSUME LabInv, NEW l \in Labs, NEW r \in Runs(ledger), Prepare(l, r)
  PROVE  LabInv'
<1>1. /\ pc[l] = "idle" /\ ~lock /\ UNCHANGED <<ledger, writes>>
      /\ ledger.runs[r].status = "planned"
      /\ actors' = actors \cup {r} /\ UNCHANGED <<outbox, approved, approvals, seen, faults>>
      /\ lock' = TRUE /\ pc' = [pc EXCEPT ![l] = "fill"] /\ call' = [call EXCEPT ![l] = r]
      /\ work' = [work EXCEPT ![l] = ledger]
  BY DEF Prepare, Enters, Goto, Works
<1>2. PICK w : w = ledger
  OBVIOUS
<1>3. ledger' = w /\ Sound(w) /\ Answered(w) /\ w \in Ledgers
  BY <1>1, <1>2 DEF LabInv, Sound, LedgerTyped
<1>4. r \in Ids
  BY <1>2, <1>3, RunsOf DEF Sound
<1>5. FilesTyped'
  BY <1>1, <1>4 DEF LabInv, FilesTyped
<1>6. LabsTyped'
  BY <1>1, <1>2, <1>3, <1>4 DEF LabInv, LabsTyped
<1>7. Sound(ledger)' /\ Answered(ledger)'
  <2>1. Answered(w)'
    BY <1>1, <1>3 DEF Answered, Runs
  <2>2. QED  BY <1>3, <2>1
<1>8. /\ pc'[l] = "fill" /\ call'[l] = r /\ work'[l] = ledger
      /\ \A k \in Labs : k # l => pc'[k] = "idle" /\ work'[k] = None
  BY <1>1, Alone DEF LabInv, LabsTyped
<1>9. AtWork'
  BY <1>1, <1>8 DEF AtWork, Runs
<1>10. Shown'
  BY <1>1 DEF LabInv, Shown
<1>11. QED  BY <1>5, <1>6, <1>7, <1>9, <1>10 DEF LabInv

\* A run prepared, or looked at by a preflight.
LEMMA UnstartedReplaced ==
  ASSUME NEW w, Sound(w), Answered(w), NEW r \in Runs(w), NEW run, NEW v,
         w.runs[r].status \in {"planned", "prepared"}, run.status = "prepared",
         run \in Run, run.group = w.runs[r].group, run.arm = w.runs[r].arm,
         run.attempt = w.runs[r].attempt, RunValidates(run),
         v = [w EXCEPT !.runs[r] = run]
  PROVE  Sound(v) /\ Answered(v)
<1>1. LedgerTyped(w) /\ w \in Ledgers
  BY DEF Sound, LedgerTyped
<1>2. w.runs \in Seq(Run) /\ r \in 1..Len(w.runs)
  BY <1>1, RunsOf DEF Ledgers
<1>3. [w.runs EXCEPT ![r] = run] \in Seq(Run)
  BY <1>2, ExceptSeq
<1>4. /\ v \in Ledgers /\ v.runs = [w.runs EXCEPT ![r] = run]
      /\ v.complete = w.complete /\ v.judged = w.judged /\ v.started = w.started
  BY <1>1, <1>3 DEF Ledgers
<1>5. Replaces(v, w, r, run)
  BY <1>4 DEF Replaces
<1>6. Sound(v)
  BY <1>4, <1>5, UnstartedSound
<1>7. Answered(v)
  BY <1>1, <1>5, ReplacedRuns DEF Answered
<1>8. QED  BY <1>6, <1>7

\* An agent that writes its outbox keeps the invariant.
LEMMA FillInv ==
  ASSUME LabInv, NEW l \in Labs, Fill(l)
  PROVE  LabInv'
<1>1. pc[l] = "fill" /\ UNCHANGED <<ledger, approvals, seen, writes>>
  BY DEF Fill
<1>2. PICK r, w : r = call[l] /\ w = ledger
  OBVIOUS
<1>3. /\ r \in Runs(w) /\ w.runs[r].status = "planned"
      /\ Sound(w) /\ Answered(w) /\ ledger' = w
  BY <1>1, <1>2 DEF LabInv, AtWork
<1>4. CASE RunBecomes(l, r, [ledger.runs[r] EXCEPT !.status = "prepared"]) /\ Works /\ UNCHANGED files
  <2>1. PICK run : run = [w.runs[r] EXCEPT !.status = "prepared"]
    OBVIOUS
  <2>2. PICK v : v = [w EXCEPT !.runs[r] = run]
    OBVIOUS
  <2>3. w.runs[r] \in Run /\ RunValidates(w.runs[r])
    BY <1>3, RunsOf DEF Sound, RunsValidate
  <2>4. /\ run \in Run /\ run.status = "prepared" /\ run.group = w.runs[r].group
        /\ run.arm = w.runs[r].arm /\ run.attempt = w.runs[r].attempt
        /\ run.started = w.runs[r].started /\ run.preflight = w.runs[r].preflight
        /\ run.intake = w.runs[r].intake
    BY <2>1, <2>3 DEF Run
  <2>5. RunValidates(run)
    BY <1>3, <2>3, <2>4 DEF RunValidates, Terminal
  <2>6. Sound(v) /\ Answered(v)
    BY <1>3, <2>2, <2>4, <2>5, UnstartedReplaced
  <2>7. Returns(l, v)
    BY <1>2, <1>4, <2>1, <2>2 DEF RunBecomes
  <2>8. FilesTyped' /\ Shown' /\ Answered(v)' /\ Answered(w)'
    BY <1>1, <1>3, <1>4, <2>6, SameFiles, Counters
  <2>9. Answered(ledger)'
    BY <1>3, <2>8
  <2>10. QED  BY <1>1, <2>6, <2>7, <2>8, <2>9, ReturnsInv
<1>5. CASE /\ Leaves(l) /\ Fails
           /\ actors' = actors \ {r} /\ outbox' = [outbox EXCEPT ![r] = None] /\ UNCHANGED approved
  <2>1. faults' \in 0..MaxFaults
    BY <1>5, Counters
  <2>2. FilesTyped'
    BY <1>1, <1>5, <2>1 DEF LabInv, FilesTyped
  <2>3. Answered(w)'
    BY <1>1, <1>3, <1>5 DEF Answered, Runs
  <2>4. Shown'
    BY <1>1 DEF LabInv, Shown
  <2>5. QED  BY <1>1, <1>3, <1>5, <2>2, <2>3, <2>4, LeavesInv
<1>6. QED  BY <1>1, <1>2, <1>4, <1>5 DEF Fill

\* An action that starts, and works, changing the ledger alone.
LEMMA LedgerActionInv ==
  ASSUME LabInv, NEW l \in Labs, Enters(l), NEW v, Returns(l, v), Sound(v), Answered(v),
         UNCHANGED files, UNCHANGED seen, Shown', FilesTyped'
  PROVE  LabInv'
<1>1. pc[l] = "idle" /\ ~lock /\ UNCHANGED ledger
  BY DEF Enters
<1>2. \A w : Answered(w) => Answered(w)'
  BY DEF Answered, files, Runs
<1>3. PICK w : w = ledger
  OBVIOUS
<1>4. Answered(w)' /\ ledger' = w
  BY <1>1, <1>2, <1>3 DEF LabInv
<1>5. Answered(v)' /\ Answered(ledger)'
  BY <1>2, <1>4
<1>6. QED  BY <1>1, <1>5, ReturnsInv

\* The preflight of a run keeps the invariant.
LEMMA PreflightInv ==
  ASSUME LabInv, NEW l \in Labs, NEW r \in Runs(ledger), NEW version \in HostVersions,
         Preflight(l, r, version)
  PROVE  LabInv'
<1>1. /\ Enters(l) /\ UNCHANGED <<ledger, writes>>
      /\ ledger.runs[r].status = "prepared"
      /\ RunBecomes(l, r, [ledger.runs[r] EXCEPT !.preflight = version])
      /\ UNCHANGED <<files, approvals, seen>> /\ Works
  BY DEF Preflight, Enters, Same
<1>2. PICK w : w = ledger
  OBVIOUS
<1>3. r \in Runs(w) /\ w.runs[r].status = "prepared" /\ Sound(w) /\ Answered(w)
  BY <1>1, <1>2 DEF LabInv
<1>4. PICK run : run = [w.runs[r] EXCEPT !.preflight = version]
  OBVIOUS
<1>5. PICK v : v = [w EXCEPT !.runs[r] = run]
  OBVIOUS
<1>6. w.runs[r] \in Run /\ RunValidates(w.runs[r])
  BY <1>3, RunsOf DEF Sound, RunsValidate
<1>7. /\ run \in Run /\ run.status = "prepared" /\ run.group = w.runs[r].group
      /\ run.arm = w.runs[r].arm /\ run.attempt = w.runs[r].attempt
      /\ run.started = w.runs[r].started /\ run.preflight = version
      /\ run.intake = w.runs[r].intake
  BY <1>3, <1>4, <1>6 DEF Run
<1>8. version # None
  BY LabAssumption
<1>9. RunValidates(run)
  BY <1>3, <1>6, <1>7, <1>8 DEF RunValidates, Terminal
<1>10. Sound(v) /\ Answered(v)
  BY <1>3, <1>5, <1>7, <1>9, UnstartedReplaced
<1>11. Returns(l, v)
  BY <1>1, <1>2, <1>4, <1>5 DEF RunBecomes
<1>12. FilesTyped' /\ Shown'
  BY <1>1, SameFiles, Counters
<1>13. QED  BY <1>1, <1>10, <1>11, <1>12, LedgerActionInv

\* Starting a run keeps the invariant.
LEMMA StartInv ==
  ASSUME LabInv, NEW l \in Labs, NEW r \in Runs(ledger), Start(l, r)
  PROVE  LabInv'
<1>1. /\ Enters(l) /\ UNCHANGED <<ledger, writes>>
      /\ ledger.runs[r].status = "prepared"
      /\ ledger.runs[r].preflight # None /\ ~Mismatch(ledger, r)
      /\ Running(ledger) = {}
      /\ ledger.started < Budget
      /\ Returns(l, Started(ledger, r))
      /\ UNCHANGED <<files, approvals, seen>> /\ Works
  BY DEF Start, Enters, Same
<1>2. PICK w : w = ledger
  OBVIOUS
<1>3. /\ r \in Runs(w) /\ w.runs[r].status = "prepared" /\ w.runs[r].preflight # None
      /\ ~Mismatch(w, r) /\ Running(w) = {} /\ w.started < Budget /\ Sound(w) /\ Answered(w)
  BY <1>1, <1>2 DEF LabInv
<1>4. PICK run : run = [w.runs[r] EXCEPT !.status = "running", !.started = TRUE]
  OBVIOUS
<1>5. PICK v : v = Started(w, r)
  OBVIOUS
<1>6. w.runs[r] \in Run /\ RunValidates(w.runs[r]) /\ LedgerTyped(w)
  BY <1>3, RunsOf DEF Sound, RunsValidate
<1>7. /\ run \in Run /\ run.status = "running" /\ run.group = w.runs[r].group
      /\ run.arm = w.runs[r].arm /\ run.attempt = w.runs[r].attempt
      /\ run.started = TRUE /\ run.preflight = w.runs[r].preflight
      /\ run.intake = w.runs[r].intake
  BY <1>4, <1>6 DEF Run
<1>8. RunValidates(run)
  BY <1>3, <1>6, <1>7 DEF RunValidates, Terminal
<1>9. /\ w \in Ledgers /\ w.runs \in Seq(Run) /\ r \in 1..Len(w.runs)
      /\ w.started + 1 \in 0..Budget
  BY <1>3, <1>6, RunsOf, LabAssumption DEF LedgerTyped, Ledgers
<1>10. [w.runs EXCEPT ![r] = run] \in Seq(Run)
  BY <1>7, <1>9, ExceptSeq
<1>11. v = [w EXCEPT !.started = w.started + 1, !.runs = [w.runs EXCEPT ![r] = run]]
  <2>1. PICK ran : ran = [w.runs[r] EXCEPT !.status = "running"]
    OBVIOUS
  <2>2. run = [ran EXCEPT !.started = TRUE]
    BY <1>4, <2>1
  <2>3. v = [w EXCEPT !.started = @ + 1, !.runs[r].status = "running", !.runs[r].started = TRUE]
    BY <1>5 DEF Started
  <2>4. PICK x : x = [w EXCEPT !.started = w.started + 1, !.runs[r].status = "running"]
    OBVIOUS
  <2>5. x.runs = [w.runs EXCEPT ![r] = ran] /\ x = [w EXCEPT !.started = w.started + 1, !.runs = [w.runs EXCEPT ![r] = ran]]
    BY <1>9, <2>1, <2>4 DEF Ledgers
  <2>6. v = [x EXCEPT !.runs[r].started = TRUE]
    BY <2>3, <2>4
  <2>7. x.runs[r] = ran /\ [x.runs EXCEPT ![r] = run] = [w.runs EXCEPT ![r] = run]
    BY <1>9, <2>5
  <2>8. v = [x EXCEPT !.runs = [x.runs EXCEPT ![r] = run]]
    BY <2>2, <2>6, <2>7
  <2>9. QED  BY <1>9, <2>5, <2>7, <2>8 DEF Ledgers
<1>12. /\ v \in Ledgers /\ v.runs = [w.runs EXCEPT ![r] = run]
       /\ v.complete = w.complete /\ v.judged = w.judged /\ v.started = w.started + 1
  BY <1>9, <1>10, <1>11 DEF Ledgers
<1>13. Replaces(v, w, r, run)
  BY <1>3, <1>7, <1>12 DEF Replaces
<1>14. Sound(v)
  BY <1>3, <1>7, <1>8, <1>12, <1>13, StartedSound
<1>15. Answered(v)
  BY <1>3, <1>6, <1>7, <1>13, ReplacedRuns DEF Answered
<1>16. Returns(l, v)
  BY <1>1, <1>2, <1>5
<1>17. FilesTyped' /\ Shown'
  BY <1>1, SameFiles, Counters
<1>18. QED  BY <1>1, <1>14, <1>15, <1>16, <1>17, LedgerActionInv

\* Previewing an answer keeps the invariant.
LEMMA PreviewInv ==
  ASSUME LabInv, NEW l \in Labs, NEW r \in Runs(ledger), Preview(l, r)
  PROVE  LabInv'
<1>1. /\ UNCHANGED <<ledger, writes, pc, call, work, lock, actors, outbox, approved, faults>>
      /\ outbox[r] # None
      /\ approvals' = [approvals EXCEPT ![l][r] = outbox[r]]
      /\ seen' = [seen EXCEPT ![r] = @ \cup {outbox[r]}]
  BY DEF Preview, Enters, Raises, files, Works
<1>2. r \in Ids
  BY RunsOf DEF LabInv, Sound
<1>3. outbox[r] \in Texts
  BY <1>1, <1>2 DEF LabInv, FilesTyped
<1>4. FilesTyped'
  BY <1>1, <1>2, <1>3 DEF LabInv, FilesTyped
<1>5. \A o \in Ids : seen[o] \subseteq seen'[o]
  BY <1>1, <1>2 DEF LabInv, FilesTyped
<1>6. \A w : Answered(w) => Answered(w)'
  <2>1. \A o : o \in seen[r] => o \in seen'[r]
    BY <1>2, <1>5
  <2>2. \A o : o # r => seen'[o] = seen[o]
    BY <1>1, <1>2 DEF LabInv, FilesTyped
  <2>3. QED  BY <1>1, <2>1, <2>2 DEF Answered, Runs
<1>7. Shown'
  <2>. SUFFICES ASSUME NEW k \in Labs, NEW o \in Ids
                PROVE  approvals'[k][o] \in seen'[o] \cup {None}
    BY DEF Shown
  <2>1. CASE k = l /\ o = r
    BY <1>1, <1>2, <2>1 DEF LabInv, FilesTyped
  <2>2. CASE k # l \/ o # r
    <3>1. approvals'[k][o] = approvals[k][o]
      BY <1>1, <1>2, <2>2 DEF LabInv, FilesTyped
    <3>2. QED  BY <1>5, <3>1 DEF LabInv, Shown
  <2>3. QED  BY <2>1, <2>2
<1>8. lock' \in BOOLEAN
  BY <1>1 DEF LabInv, LabsTyped
<1>9. QED  BY <1>1, <1>4, <1>6, <1>7, <1>8, RaisesInv

\* What Ended makes of the ledger: the run has ended, and its group is looked at again.
LEMMA EndedLedger ==
  ASSUME NEW w, w = ledger, Sound(w), NEW r \in Runs(w), w.runs[r].status \notin Terminal,
         NEW status \in Terminal, NEW intake \in {"file", "manual"}, NEW v, v = Ended(r, status, intake),
         status = "completed" => w.runs[r].status = "running"
  PROVE  /\ Sound(v) /\ Runs(v) = Runs(w)
         /\ v.runs[r].status = status /\ v.runs[r].intake = intake
         /\ \A o \in Runs(w) : o # r => v.runs[o] = w.runs[o]
<1>1. /\ LedgerTyped(w) /\ w \in Ledgers /\ w.runs \in Seq(Run) /\ r \in 1..Len(w.runs)
      /\ w.runs[r] \in Run /\ RunValidates(w.runs[r])
  BY RunsOf DEF Sound, LedgerTyped, Ledgers, RunsValidate
<1>2. PICK ran : ran = [w.runs[r] EXCEPT !.status = status]
  OBVIOUS
<1>3. PICK run : run = [ran EXCEPT !.intake = intake]
  OBVIOUS
<1>4. /\ run \in Run /\ run.status = status /\ run.intake = intake /\ run.group = w.runs[r].group
      /\ run.arm = w.runs[r].arm /\ run.attempt = w.runs[r].attempt
      /\ run.started = w.runs[r].started /\ run.preflight = w.runs[r].preflight
  BY <1>1, <1>2, <1>3 DEF Run, Terminal
<1>5. PICK x : x = [w EXCEPT !.runs[r].status = status]
  OBVIOUS
<1>6. PICK y : y = [x EXCEPT !.runs[r].intake = intake]
  OBVIOUS
<1>7. x \in Ledgers /\ x = [w EXCEPT !.runs = [w.runs EXCEPT ![r] = ran]]
  <2>1. ran \in Run
    BY <1>1, <1>2 DEF Run, Terminal
  <2>2. [w.runs EXCEPT ![r] = ran] \in Seq(Run)
    BY <1>1, <2>1, ExceptSeq
  <2>3. QED  BY <1>1, <1>2, <1>5, <2>2 DEF Ledgers
<1>8. x.runs[r] = ran /\ [x.runs EXCEPT ![r] = run] = [w.runs EXCEPT ![r] = run]
  BY <1>1, <1>7 DEF Ledgers
<1>9. y = [x EXCEPT !.runs = [x.runs EXCEPT ![r] = run]]
  BY <1>3, <1>6, <1>7, <1>8 DEF Ledgers
<1>10. [w.runs EXCEPT ![r] = run] \in Seq(Run)
  BY <1>1, <1>4, ExceptSeq
<1>11. /\ y \in Ledgers /\ y.runs = [w.runs EXCEPT ![r] = run]
       /\ y.complete = w.complete /\ y.judged = w.judged /\ y.started = w.started
  BY <1>1, <1>7, <1>8, <1>9, <1>10 DEF Ledgers
<1>12. PICK g : g = w.runs[r].group
  OBVIOUS
<1>13. g \in Groups /\ y.runs[r].group = g
  BY <1>1, <1>4, <1>11, <1>12 DEF Run
<1>14. v = [y EXCEPT !.complete[g] = GroupComplete(y, g)]
  <2>1. y = [ledger EXCEPT !.runs[r].status = status, !.runs[r].intake = intake]
    BY <1>5, <1>6
  <2>2. v = [y EXCEPT !.complete[y.runs[r].group] = GroupComplete(y, y.runs[r].group)]
    BY <2>1 DEF Ended
  <2>3. QED  BY <1>13, <2>2
<1>15. PICK b \in BOOLEAN : b = GroupComplete(y, g)
  BY DEF GroupComplete
<1>16. /\ v \in Ledgers /\ v.runs = y.runs /\ v.judged = w.judged /\ v.started = w.started
       /\ v.complete = [w.complete EXCEPT ![g] = GroupComplete(y, g)]
  <2>1. v = [y EXCEPT !.complete[g] = b]
    BY <1>14, <1>15
  <2>2. PICK c : c = [w.complete EXCEPT ![g] = b]
    OBVIOUS
  <2>3. c \in [Groups -> BOOLEAN]
    BY <1>1, <1>15, <2>2 DEF Ledgers
  <2>4. v = [y EXCEPT !.complete = c]
    BY <1>11, <2>1, <2>2
  <2>5. /\ v \in Ledgers /\ v.runs = y.runs /\ v.judged = y.judged /\ v.started = y.started
        /\ v.complete = c
    BY <1>11, <2>3, <2>4 DEF Ledgers
  <2>6. QED  BY <1>11, <1>15, <2>2, <2>5
<1>17. GroupComplete(v, g) = GroupComplete(y, g)
  BY <1>16 DEF GroupComplete, Primaries, Runs
<1>18. Replaces(v, w, r, run)
  BY <1>4, <1>11, <1>16 DEF Replaces
<1>19. RunValidates(run)
  <2>1. intake # None
    BY LabAssumption
  <2>2. QED  BY <1>1, <1>4, <2>1 DEF RunValidates, Terminal
<1>20. v.complete = [w.complete EXCEPT ![w.runs[r].group] = GroupComplete(v, w.runs[r].group)]
  BY <1>12, <1>16, <1>17
<1>21. Sound(v)
  BY <1>4, <1>16, <1>18, <1>19, <1>20, EndedSound
<1>22. QED  BY <1>1, <1>4, <1>18, <1>21, ReplacedRuns

\* A run completed: its answer is on disk before the ledger says so.
LEMMA CompleteInv ==
  ASSUME LabInv, NEW l \in Labs, NEW r \in Runs(ledger), NEW intake \in {"file", "manual"},
         NEW text \in Texts, intake = "file" => text \in seen[r],
         Complete(l, r, intake, text), UNCHANGED writes
  PROVE  LabInv'
<1>1. /\ pc[l] = "idle" /\ ~lock /\ UNCHANGED <<ledger, actors, outbox, seen>>
      /\ ledger.runs[r].status = "running"
  BY DEF Complete, Enters
<1>2. PICK w : w = ledger
  OBVIOUS
<1>3. ledger' = w /\ r \in Runs(w) /\ w.runs[r].status = "running" /\ Sound(w) /\ Answered(w)
  BY <1>1, <1>2 DEF LabInv
<1>4. r \in Ids /\ LedgerTyped(w)
  BY <1>3, RunsOf DEF Sound
<1>5. CASE /\ approved' = [approved EXCEPT ![r] = text] /\ Works
           /\ Returns(l, Ended(r, "completed", intake)) /\ Forgotten(l, r)
  <2>1. PICK v : v = Ended(r, "completed", intake)
    OBVIOUS
  <2>2. /\ Sound(v) /\ Runs(v) = Runs(w) /\ v.runs[r].status = "completed" /\ v.runs[r].intake = intake
        /\ \A o \in Runs(w) : o # r => v.runs[o] = w.runs[o]
    BY <1>2, <1>3, <2>1, EndedLedger DEF Terminal
  <2>3. /\ approved'[r] = text /\ text # None
        /\ \A o : o # r => approved'[o] = approved[o]
    BY <1>4, <1>5, LabAssumption DEF LabInv, FilesTyped
  <2>4. Answered(v)'
    BY <1>1, <1>3, <2>2, <2>3 DEF Answered, Runs
  <2>5. Answered(w)'
    BY <1>1, <1>3, <2>3 DEF Answered, Runs
  <2>6. approvals' = [approvals EXCEPT ![l][r] = None] /\ faults' = faults
    BY <1>5 DEF Forgotten, Works
  <2>7. FilesTyped'
    BY <1>1, <1>4, <1>5, <2>6 DEF LabInv, FilesTyped
  <2>8. Shown'
    BY <1>1, <1>4, <2>6 DEF LabInv, Shown, FilesTyped
  <2>9. Returns(l, v) /\ Answered(ledger)'
    BY <1>3, <1>5, <2>1, <2>5
  <2>10. QED  BY <1>1, <2>2, <2>4, <2>7, <2>8, <2>9, ReturnsInv
<1>6. CASE UNCHANGED <<approved, approvals>> /\ Fails /\ Raises
  <2>1. /\ FilesTyped' /\ Shown' /\ \A u : Answered(u) => Answered(u)'
    <3>1. UNCHANGED <<files, approvals, seen>>
      BY <1>1, <1>6 DEF files
    <3>2. QED  BY <1>6, <3>1, SameFiles, Counters
  <2>2. UNCHANGED <<ledger, pc, call, work>> /\ lock' = lock /\ lock' \in BOOLEAN
    BY <1>1, <1>6 DEF Raises, LabInv, LabsTyped
  <2>3. QED  BY <2>1, <2>2, RaisesInv
<1>7. QED  BY <1>5, <1>6 DEF Complete

\* Finishing from the outbox keeps the invariant.
LEMMA FinishFromOutboxInv ==
  ASSUME LabInv, NEW l \in Labs, NEW r \in Runs(ledger), FinishFromOutbox(l, r)
  PROVE  LabInv'
<1>1. PICK text : text = outbox[r]
  OBVIOUS
<1>2. r \in Ids
  BY RunsOf DEF LabInv, Sound
<1>3. text \in Texts /\ text \in seen[r]
  BY <1>1, <1>2 DEF FinishFromOutbox, StillAsShown, LabInv, FilesTyped, Shown
<1>4. Complete(l, r, "file", text) /\ UNCHANGED writes
  BY <1>1 DEF FinishFromOutbox, Complete, Enters
<1>5. QED  BY <1>3, <1>4, CompleteInv

\* Finishing by hand keeps the invariant.
LEMMA FinishManuallyInv ==
  ASSUME LabInv, NEW l \in Labs, NEW r \in Runs(ledger), NEW text \in Texts, FinishManually(l, r, text)
  PROVE  LabInv'
<1>1. Complete(l, r, "manual", text) /\ UNCHANGED writes
  BY DEF FinishManually, Complete, Enters
<1>2. QED  BY <1>1, CompleteInv

\* Forgetting an approval is no harm.
LEMMA ForgottenInv ==
  ASSUME LabInv, NEW l \in Labs, NEW r \in Ids, Forgotten(l, r), UNCHANGED <<files, seen, writes, faults>>
  PROVE  FilesTyped' /\ Shown' /\ \A w : Answered(w) => Answered(w)'
<1>1. approvals' = [approvals EXCEPT ![l][r] = None]
  BY DEF Forgotten
<1>2. FilesTyped'
  BY <1>1 DEF LabInv, FilesTyped, files
<1>3. Shown'
  BY <1>1 DEF LabInv, Shown, FilesTyped
<1>4. \A w : Answered(w) => Answered(w)'
  BY DEF Answered, files, Runs
<1>5. QED  BY <1>2, <1>3, <1>4

\* Refusing an answer that changed since its preview keeps the invariant.
LEMMA PreviewChangedInv ==
  ASSUME LabInv, NEW l \in Labs, NEW r \in Runs(ledger), PreviewChanged(l, r)
  PROVE  LabInv'
<1>1. r \in Ids
  BY RunsOf DEF LabInv, Sound
<1>2. /\ Forgotten(l, r) /\ UNCHANGED <<files, seen, writes, faults>>
      /\ UNCHANGED <<ledger, lock, pc, call, work>>
  BY DEF PreviewChanged, Enters, Raises, Works
<1>3. FilesTyped' /\ Shown' /\ \A w : Answered(w) => Answered(w)'
  BY <1>1, <1>2, ForgottenInv
<1>4. lock' \in BOOLEAN
  BY <1>2 DEF LabInv, LabsTyped
<1>5. QED  BY <1>2, <1>3, <1>4, RaisesInv

\* Finishing a run as failed keeps the invariant.
LEMMA FinishFailedInv ==
  ASSUME LabInv, NEW l \in Labs, NEW r \in Runs(ledger), FinishFailed(l, r)
  PROVE  LabInv'
<1>1. r \in Ids
  BY RunsOf DEF LabInv, Sound
<1>2. /\ Enters(l) /\ ledger.runs[r].status \notin Terminal
      /\ Returns(l, Ended(r, "failed", "file")) /\ Forgotten(l, r)
      /\ UNCHANGED <<files, seen, writes, faults>>
  BY DEF FinishFailed, Enters, Works
<1>3. PICK w : w = ledger
  OBVIOUS
<1>4. PICK v : v = Ended(r, "failed", "file")
  OBVIOUS
<1>5. r \in Runs(w) /\ w.runs[r].status \notin Terminal /\ Sound(w) /\ Answered(w)
  BY <1>2, <1>3 DEF LabInv
<1>6. /\ Sound(v) /\ Runs(v) = Runs(w) /\ v.runs[r].status = "failed"
      /\ \A o \in Runs(w) : o # r => v.runs[o] = w.runs[o]
  BY <1>3, <1>4, <1>5, EndedLedger DEF Terminal
<1>7. Answered(v)
  BY <1>5, <1>6 DEF Answered
<1>8. FilesTyped' /\ Shown'
  BY <1>1, <1>2, ForgottenInv
<1>9. Returns(l, v)
  BY <1>2, <1>4
<1>10. QED  BY <1>2, <1>6, <1>7, <1>8, <1>9, LedgerActionInv

\* Retrying a run keeps the invariant.
LEMMA RetryInv ==
  ASSUME LabInv, NEW l \in Labs, NEW r \in Runs(ledger), Retry(l, r)
  PROVE  LabInv'
<1>1. /\ Enters(l) /\ UNCHANGED <<ledger, writes, files, approvals, seen>> /\ Works
  BY DEF Retry, Enters, Same
<1>2. PICK w, g, a : w = ledger /\ g = ledger.runs[r].group /\ a = ledger.runs[r].arm
  OBVIOUS
<1>3. PICK v : Retried(v, w, g, a)
  BY DEF Retried
<1>4. Len(w.runs) < MaxRuns /\ Returns(l, v)
  BY <1>2, <1>3 DEF Retry, Retried
<1>5. Sound(w) /\ Answered(w) /\ r \in Runs(w)
  BY <1>2 DEF LabInv
<1>6. w.runs[r] \in Run
  BY <1>5, RunsOf DEF Sound
<1>7. g \in Groups /\ a \in Arms
  <2>1. w.runs[r].group \in Groups /\ w.runs[r].arm \in Arms
    BY <1>6 DEF Run
  <2>2. QED  BY <1>2, <2>1
<1>8. /\ Sound(v)
      /\ \A o \in Runs(v) : v.runs[o].status = "completed" => o \in Runs(w) /\ v.runs[o] = w.runs[o]
  BY <1>3, <1>4, <1>5, <1>7, RetriedSound
<1>9. Answered(v)
  BY <1>5, <1>8 DEF Answered
<1>10. FilesTyped' /\ Shown'
  BY <1>1, SameFiles, Counters
<1>11. QED  BY <1>1, <1>4, <1>8, <1>9, <1>10, LedgerActionInv

\* A judgment keeps the invariant.
LEMMA JudgeInv ==
  ASSUME LabInv, NEW l \in Labs, NEW g \in Groups, NEW choice \in Arms, Judge(l, g, choice)
  PROVE  LabInv'
<1>1. /\ Enters(l) /\ UNCHANGED <<ledger, writes, files, approvals, seen>> /\ Works
      /\ ledger.complete[g] /\ Returns(l, [ledger EXCEPT !.judged[g] = choice])
  BY DEF Judge, Enters, Same
<1>2. PICK w : w = ledger
  OBVIOUS
<1>3. PICK v : v = [w EXCEPT !.judged[g] = choice]
  OBVIOUS
<1>4. Sound(w) /\ Answered(w) /\ w.complete[g] /\ w \in Ledgers /\ GroupsValidate(w)
  BY <1>1, <1>2 DEF LabInv, Sound, LedgerTyped
<1>5. /\ v \in Ledgers /\ v.runs = w.runs /\ v.complete = w.complete /\ v.started = w.started
      /\ v.judged = [w.judged EXCEPT ![g] = choice]
  BY <1>3, <1>4 DEF Ledgers
<1>6. \A h \in Groups : v.judged[h] # None => v.complete[h]
  <2>1. \A h \in Groups : h # g => v.judged[h] = w.judged[h]
    BY <1>4, <1>5 DEF Ledgers
  <2>2. QED  BY <1>4, <1>5, <2>1 DEF GroupsValidate
<1>7. Sound(v)
  BY <1>4, <1>5, <1>6, SameRunsSound
<1>8. Answered(v)
  BY <1>4, <1>5 DEF Answered, Runs
<1>9. FilesTyped' /\ Shown'
  BY <1>1, SameFiles, Counters
<1>10. Returns(l, v)
  BY <1>1, <1>2, <1>3
<1>11. QED  BY <1>1, <1>7, <1>8, <1>9, <1>10, LedgerActionInv

\* Freezing and exporting keeps the invariant.
LEMMA FreezeInv ==
  ASSUME LabInv, NEW l \in Labs, Freeze(l)
  PROVE  LabInv'
<1>1. /\ Enters(l) /\ UNCHANGED <<ledger, writes, files, approvals, seen>> /\ Works
      /\ Returns(l, [ledger EXCEPT !.criteria = TRUE])
  BY DEF Freeze, Enters, Same
<1>2. PICK w : w = ledger
  OBVIOUS
<1>3. PICK v : v = [w EXCEPT !.criteria = TRUE]
  OBVIOUS
<1>4. Sound(w) /\ Answered(w) /\ w \in Ledgers /\ GroupsValidate(w)
  BY <1>1, <1>2 DEF LabInv, Sound, LedgerTyped
<1>5. /\ v \in Ledgers /\ v.runs = w.runs /\ v.complete = w.complete /\ v.started = w.started
      /\ v.judged = w.judged
  BY <1>3, <1>4 DEF Ledgers
<1>6. Sound(v)
  BY <1>4, <1>5, SameRunsSound DEF GroupsValidate
<1>7. Answered(v)
  BY <1>4, <1>5 DEF Answered, Runs
<1>8. FilesTyped' /\ Shown'
  BY <1>1, SameFiles, Counters
<1>9. Returns(l, v)
  BY <1>1, <1>2, <1>3
<1>10. QED  BY <1>1, <1>6, <1>7, <1>8, <1>9, LedgerActionInv

\* A lab closed leaves its lock, and what it saved.
LEMMA CloseInv ==
  ASSUME LabInv, NEW l \in Labs, Close(l)
  PROVE  LabInv'
<1>1. /\ Fails /\ UNCHANGED <<files, seen, writes>>
      /\ pc' = [pc EXCEPT ![l] = "idle"]
      /\ call' = [call EXCEPT ![l] = None] /\ work' = [work EXCEPT ![l] = None]
      /\ approvals' = [approvals EXCEPT ![l] = [r \in Ids |-> None]]
  BY DEF Close, Goto
<1>2. /\ lock' \in {lock, TRUE}
      /\ \/ ledger' = ledger
         \/ pc[l] = "save" /\ ledger' = work[l]
  BY DEF Close
<1>3. PICK w : w = ledger'
  OBVIOUS
<1>4. Sound(w) /\ Answered(w)
  BY <1>2, <1>3 DEF LabInv, AtWork
<1>5. \A u : Answered(u) => Answered(u)'
  BY <1>1 DEF Answered, files, Runs
<1>6. Sound(ledger)' /\ Answered(ledger)'
  BY <1>3, <1>4, <1>5
<1>7. faults' \in 0..MaxFaults
  BY <1>1, Counters
<1>8. FilesTyped'
  BY <1>1, <1>7 DEF LabInv, FilesTyped, files
<1>9. Shown'
  BY <1>1 DEF LabInv, Shown, FilesTyped
<1>10. LabsTyped'
  BY <1>1, <1>2 DEF LabInv, LabsTyped
<1>11. AtWork'
  <2>. SUFFICES ASSUME NEW k \in Labs, NEW s, s = work'[k]
                PROVE  /\ pc'[k] = "idle" => s = None
                       /\ pc'[k] # "idle" => lock' /\ \A j \in Labs : pc'[j] # "idle" => j = k
                       /\ pc'[k] = "fill" => /\ call'[k] \in Runs(ledger')
                                             /\ ledger'.runs[call'[k]].status = "planned"
                                             /\ s = ledger'
                       /\ pc'[k] = "save" => Sound(s) /\ Answered(s)'
    BY DEF AtWork, Runs
  <2>1. CASE k = l
    BY <1>1, <2>1 DEF LabInv, LabsTyped
  <2>2. CASE k # l
    <3>1. pc'[k] = pc[k] /\ work'[k] = work[k] /\ call'[k] = call[k]
      BY <1>1, <2>2 DEF LabInv, LabsTyped
    <3>2. pc[k] = "idle" => s = None
      BY <3>1 DEF LabInv, AtWork
    <3>3. CASE pc[k] = "idle"
      BY <3>1, <3>2, <3>3
    <3>4. CASE pc[k] # "idle"
      <4>1. lock /\ pc[l] = "idle" /\ \A j \in Labs : pc[j] # "idle" => j = k
        BY <2>2, <3>4 DEF LabInv, AtWork
      <4>2. ledger' = ledger /\ lock'
        BY <1>2, <4>1
      <4>3. \A j \in Labs : pc'[j] # "idle" => j = k
        BY <1>1, <4>1 DEF LabInv, LabsTyped
      <4>4. pc[k] = "save" => Sound(s) /\ Answered(s)'
        BY <1>5, <3>1 DEF LabInv, AtWork
      <4>5. pc[k] = "fill" => /\ call[k] \in Runs(ledger)
                              /\ ledger.runs[call[k]].status = "planned"
                              /\ s = ledger
        BY <3>1 DEF LabInv, AtWork
      <4>6. QED  BY <3>1, <3>4, <4>2, <4>3, <4>4, <4>5
    <3>5. QED  BY <3>3, <3>4
  <2>3. QED  BY <2>1, <2>2
<1>12. QED  BY <1>6, <1>8, <1>9, <1>10, <1>11 DEF LabInv

\* Removing a lock file by hand keeps the invariant.
LEMMA RemoveLockInv ==
  ASSUME LabInv, RemoveLock
  PROVE  LabInv'
<1>1. /\ \A l \in Labs : pc[l] = "idle"
      /\ lock' = FALSE
      /\ UNCHANGED <<ledger, files, pc, call, work, approvals, seen, writes, faults>>
  BY DEF RemoveLock
<1>2. writes \in 0..MaxWrites /\ faults \in 0..MaxFaults
  BY DEF LabInv, FilesTyped
<1>3. FilesTyped' /\ Shown' /\ \A w : Answered(w) => Answered(w)'
  BY <1>1, <1>2, SameFiles
<1>4. QED  BY <1>1, <1>3, RaisesInv

\* What a host writes is in its outbox, and nowhere else.
LEMMA HostWritesInv ==
  ASSUME LabInv, NEW r \in Ids, NEW text \in Texts, HostWrites(r, text)
  PROVE  LabInv'
<1>1. /\ writes < MaxWrites /\ writes' = writes + 1
      /\ outbox' = [outbox EXCEPT ![r] = text]
      /\ UNCHANGED <<ledger, lock, actors, approved, pc, call, work, approvals, seen, faults>>
  BY DEF HostWrites
<1>2. writes' \in 0..MaxWrites
  BY <1>1, LabAssumption DEF LabInv, FilesTyped
<1>3. FilesTyped'
  BY <1>1, <1>2 DEF LabInv, FilesTyped
<1>4. Shown' /\ \A w : Answered(w) => Answered(w)'
  BY <1>1 DEF LabInv, Shown, Answered, Runs
<1>5. lock' \in BOOLEAN
  BY <1>1 DEF LabInv, LabsTyped
<1>6. QED  BY <1>1, <1>3, <1>4, <1>5, RaisesInv

\* A step that changes nothing keeps the invariant.
LEMMA StutterInv ==
  ASSUME LabInv, UNCHANGED vars
  PROVE  LabInv'
<1>1. UNCHANGED <<ledger, lock, files, pc, call, work, approvals, seen, writes, faults>>
  BY DEF vars
<1>2. writes' \in 0..MaxWrites /\ faults' \in 0..MaxFaults /\ lock' \in BOOLEAN
  BY <1>1 DEF LabInv, FilesTyped, LabsTyped
<1>3. FilesTyped' /\ Shown' /\ \A w : Answered(w) => Answered(w)'
  BY <1>1, <1>2, SameFiles
<1>4. QED  BY <1>1, <1>2, <1>3, RaisesInv

-----------------------------------------------------------------------------
(***************************************************************************)
(* The theorems.                                                           *)
(***************************************************************************)
\* The ledger, and the one an action will save, are always sound; their completed
\* answers are on disk, and one action at a time is in hand.
THEOREM Invariance == Spec => []LabInv
<1>1. LabInv /\ [Next]_vars => LabInv'
  <2>. SUFFICES ASSUME LabInv, [Next]_vars  PROVE LabInv'
    OBVIOUS
  <2>1. ASSUME NEW l \in Labs, Save(l) \/ Fill(l) \/ Close(l) \/ Freeze(l)
        PROVE  LabInv'
    BY <2>1, SaveInv, FillInv, CloseInv, FreezeInv
  <2>2. ASSUME NEW l \in Labs, NEW r \in Runs(ledger),
               \/ Prepare(l, r) \/ Start(l, r) \/ Preview(l, r) \/ Retry(l, r)
               \/ FinishFromOutbox(l, r) \/ PreviewChanged(l, r) \/ FinishFailed(l, r)
        PROVE  LabInv'
    BY <2>2, PrepareInv, StartInv, PreviewInv, RetryInv, FinishFromOutboxInv, PreviewChangedInv,
       FinishFailedInv
  <2>3. ASSUME NEW l \in Labs, NEW r \in Runs(ledger), NEW version \in HostVersions,
               Preflight(l, r, version)
        PROVE  LabInv'
    BY <2>3, PreflightInv
  <2>4. ASSUME NEW l \in Labs, NEW r \in Runs(ledger), NEW text \in Texts, FinishManually(l, r, text)
        PROVE  LabInv'
    BY <2>4, FinishManuallyInv
  <2>5. ASSUME NEW l \in Labs, NEW g \in Groups, NEW choice \in Arms, Judge(l, g, choice)
        PROVE  LabInv'
    BY <2>5, JudgeInv
  <2>6. CASE RemoveLock
    BY <2>6, RemoveLockInv
  <2>7. ASSUME NEW r \in Ids, NEW text \in Texts, HostWrites(r, text)
        PROVE  LabInv'
    BY <2>7, HostWritesInv
  <2>8. CASE UNCHANGED vars
    BY <2>8, StutterInv
  <2>9. QED
    BY <2>1, <2>2, <2>3, <2>4, <2>5, <2>6, <2>7, <2>8, ZenonT(60) DEF Next
<1>2. QED  BY <1>1, InitInv, PTL DEF Spec

\* Every variable has its type, and a lab has a ledger to save exactly while it is in an
\* action, under the lock, one lab at a time.
THEOREM Types_OK == Spec => []TypeOK
<1>1. LabInv => TypeOK
  <2>. SUFFICES ASSUME LabInv  PROVE TypeOK
    OBVIOUS
  <2>1. \A w : Sound(w) => IsLedger(w)
    <3>. SUFFICES ASSUME NEW w, Sound(w)  PROVE IsLedger(w)
      OBVIOUS
    <3>1. Runs(w) \subseteq Ids /\ \A r \in Runs(w) : w.runs[r] \in Run
      BY RunsOf DEF Sound
    <3>2. w \in Ledgers
      BY DEF Sound, LedgerTyped
    <3>3. QED  BY <3>1, <3>2 DEF IsLedger, Ledgers
  <2>2. IsLedger(ledger)
    BY <2>1 DEF LabInv
  <2>3. \A l \in Labs : IF pc[l] = "idle" THEN work[l] = None ELSE IsLedger(work[l]) /\ lock
    <3>. SUFFICES ASSUME NEW l \in Labs
                  PROVE  /\ pc[l] = "idle" => work[l] = None
                         /\ pc[l] # "idle" => IsLedger(work[l]) /\ lock
      OBVIOUS
    <3>1. pc[l] \in {"idle", "fill", "save"}
      BY DEF LabInv, LabsTyped
    <3>2. pc[l] = "save" => Sound(work[l])
      BY DEF LabInv, AtWork
    <3>3. pc[l] = "fill" => work[l] = ledger
      BY DEF LabInv, AtWork
    <3>4. /\ pc[l] = "idle" => work[l] = None
          /\ pc[l] # "idle" => lock
      BY DEF LabInv, AtWork
    <3>5. QED  BY <2>1, <2>2, <3>1, <3>2, <3>3, <3>4
  <2>4. Cardinality({l \in Labs : pc[l] # "idle"}) <= 1
    <3>1. \A x, y \in {l \in Labs : pc[l] # "idle"} : x = y
      BY DEF LabInv, AtWork
    <3>2. QED  BY <3>1, AtMostOne
  <2>5. QED  BY <2>2, <2>3, <2>4 DEF TypeOK, LabInv, FilesTyped, LabsTyped
<1>2. QED  BY <1>1, Invariance, PTL

\* One run at a time is running, and the budget counts every attempt that was ever
\* started, through failed saves and labs killed in the middle of an action.
THEOREM One_Running == Spec => []OneRunning
<1>1. LabInv => OneRunning
  <2>. SUFFICES ASSUME LabInv  PROVE OneRunning
    OBVIOUS
  <2>1. OneAtATime(ledger) /\ Counted(ledger)
    BY DEF LabInv, Sound
  <2>2. Cardinality(Running(ledger)) <= 1
    BY <2>1, AtMostOne DEF OneAtATime
  <2>3. QED  BY <2>1, <2>2 DEF OneRunning, Counted, StartedRuns
<1>2. QED  BY <1>1, Invariance, PTL

\* Whatever happened, the study could be exported: every run's record is consistent, a
\* completed run has its answer on disk, a group has one first attempt for each
\* condition, is complete exactly when they are, and judged only then.
THEOREM Exports_Validate == Spec => []ExportsValidate
<1>1. LabInv => ExportsValidate
  <2>. SUFFICES ASSUME LabInv  PROVE ExportsValidate
    OBVIOUS
  <2>1. Sound(ledger) /\ Answered(ledger)
    BY DEF LabInv
  <2>2. \A r \in Runs(ledger) : /\ RunValidates(ledger.runs[r])
                                /\ ledger.runs[r].status = "completed" => approved[r] # None
    BY <2>1 DEF Sound, RunsValidate, Answered
  <2>3. \A g \in Groups : Cardinality(Primaries(ledger, g)) = Cardinality(Arms)
    BY <2>1, PrimariesCounted
  <2>4. \A g \in Groups :
          /\ ledger.complete[g] <=> \A r \in Primaries(ledger, g) : ledger.runs[r].status = "completed"
          /\ ledger.judged[g] # None => ledger.complete[g]
    BY <2>1 DEF Sound, GroupsValidate, GroupComplete
  <2>5. QED  BY <2>2, <2>3, <2>4 DEF ExportsValidate
<1>2. QED  BY <1>1, Invariance, PTL

\* An answer that was taken from the outbox is one the operator was shown, whatever the
\* host wrote since, and however often the lab was closed.
THEOREM Approved_Was_Seen == Spec => []ApprovedWasSeen
<1>1. LabInv => ApprovedWasSeen
  BY DEF LabInv, Answered, ApprovedWasSeen
<1>2. QED  BY <1>1, Invariance, PTL

\* The first attempts of a group that were started, at whatever time, were started under
\* one version of the host.
THEOREM Same_Conditions == Spec => []SameConditions
<1>1. LabInv => SameConditions
  BY DEF LabInv, Sound, Comparable, SameConditions
<1>2. QED  BY <1>1, Invariance, PTL

=============================================================================

--------------------------- MODULE EvaluationLab ---------------------------
(***************************************************************************)
(* The office evaluation lab (src/opensocrates/evaluation): a study whose  *)
(* ledger, state.json, is changed by one action at a time, under .lock,    *)
(* while hosts write answers into the folders of their runs, labs are      *)
(* closed and reopened, and writes fail.                                   *)
(*                                                                         *)
(* An action loads the ledger, changes files of its own (a run's folder,   *)
(* an approved answer, an export), and last of all saves the ledger, so a  *)
(* failed save leaves files the ledger does not speak of.                  *)
(*                                                                         *)
(* The study has been created.  Left out: the actions that leave the       *)
(* ledger alone (monitor, packet, reveal, snapshot, export), what a        *)
(* preflight records besides the host's version, and a start its own       *)
(* preflight blocks.  "failed" stands for every way of ending without an   *)
(* answer.                                                                 *)
(***************************************************************************)
EXTENDS Naturals, FiniteSets, SequencesExt

CONSTANTS Labs,         \* processes that opened the study
          Groups,       \* its groups, one for a cell and a case
          Arms,         \* the conditions compared in a group
          Texts,        \* final answers
          HostVersions, \* what a preflight may observe
          Confirmation, \* is this the confirmation phase?
          Budget,       \* attempts that may be started
          MaxRuns,      \* runs of the study (360)
          MaxWrites,    \* bound on writes of the hosts
          MaxFaults,    \* bound on failed writes and on labs that are closed
          None

ASSUME LabAssumption ==
  /\ Confirmation \in BOOLEAN
  /\ {Budget, MaxRuns, MaxWrites, MaxFaults} \subseteq Nat
  /\ None \notin Texts \cup HostVersions \cup {"file", "manual"}
  /\ IsFiniteSet(Groups) /\ IsFiniteSet(Arms) /\ Arms # {}
  /\ Cardinality(Groups) * Cardinality(Arms) <= MaxRuns  \* a run is planned for each

VARIABLES
  ledger,    \* state.json
  lock,      \* is there a .lock?
  actors,    \* runs that have a folder
  outbox,    \* out/final.md of every run's folder
  approved,  \* the approved answers on disk
  pc, call, work, \* what each lab is doing: to which run, and the ledger it will save
  approvals, \* previews each lab remembers
  seen,      \* texts the operator was shown of each run (history)
  writes, faults

files == <<actors, outbox, approved>>
vars == <<ledger, lock, files, pc, call, work, approvals, seen, writes, faults>>

-----------------------------------------------------------------------------
Ids == 1..MaxRuns
Terminal == {"completed", "failed"}
NewRun(g, a, n) == [group |-> g, arm |-> a, attempt |-> n, status |-> "planned",
                    preflight |-> None, started |-> FALSE, intake |-> None]
Runs(w) == DOMAIN w.runs
Attempts(w, g, a) == {r \in Runs(w) : w.runs[r].group = g /\ w.runs[r].arm = a}
Primaries(w, g) == {r \in Runs(w) : w.runs[r].group = g /\ w.runs[r].attempt = 1}
Running(w) == {r \in Runs(w) : w.runs[r].status = "running"}

\* Mutant: a retry that was completed stands in for the first attempt.
GroupCompleteByRetry(w, g) ==
  \A a \in Arms : \E r \in Attempts(w, g, a) : w.runs[r].status = "completed"

GroupComplete(w, g) == \A r \in Primaries(w, g) : w.runs[r].status = "completed"

Init ==
  /\ ledger = [runs |-> SetToSeq({NewRun(g, a, 1) : g \in Groups, a \in Arms}),
               complete |-> [g \in Groups |-> FALSE], judged |-> [g \in Groups |-> None],
               criteria |-> FALSE, started |-> 0]
  /\ lock = FALSE
  /\ actors = {}
  /\ outbox = [r \in Ids |-> None] /\ approved = [r \in Ids |-> None]
  /\ pc = [l \in Labs |-> "idle"]
  /\ call = [l \in Labs |-> None] /\ work = [l \in Labs |-> None]
  /\ approvals = [l \in Labs |-> [r \in Ids |-> None]]
  /\ seen = [r \in Ids |-> {}]
  /\ writes = 0 /\ faults = 0

-----------------------------------------------------------------------------
(***************************************************************************)
(* Lab.action: take the lock, load, handle, save, release.  Only hosts act *)
(* beside an action, and what it reads of theirs it reads once, so an      *)
(* action is one step up to its return, from which the ledger it has made  *)
(* waits to be saved.  A request that is refused changes nothing.          *)
(***************************************************************************)
\* storage.locked: a lab that finds the lock taken does nothing ("study_locked").
Enters(l) == pc[l] = "idle" /\ ~lock /\ UNCHANGED <<ledger, writes>>
Goto(l, s) == pc' = [pc EXCEPT ![l] = s]
Fails == faults < MaxFaults /\ faults' = faults + 1
Works == UNCHANGED faults
Same == UNCHANGED <<files, approvals, seen>>

\* The handler returns with this ledger; or it raised, and the lock goes.
Returns(l, w) == /\ work' = [work EXCEPT ![l] = w]
                 /\ lock' = TRUE /\ Goto(l, "save") /\ UNCHANGED call
RunBecomes(l, r, run) == Returns(l, [ledger EXCEPT !.runs[r] = run])
Raises == UNCHANGED <<lock, pc, call, work>>
Leaves(l) == /\ lock' = FALSE /\ Goto(l, "idle")
             /\ call' = [call EXCEPT ![l] = None] /\ work' = [work EXCEPT ![l] = None]

Save(l) ==
  /\ pc[l] = "save"
  /\ \/ ledger' = work[l] /\ Works
     \/ UNCHANGED ledger /\ Fails
  /\ Leaves(l)
  /\ Same /\ UNCHANGED writes

-----------------------------------------------------------------------------
(***************************************************************************)
(* The handlers.                                                           *)
(***************************************************************************)
\* _prepare: the folder is made first, and is in the way if it is there already.
Prepare(l, r) ==
  /\ Enters(l)
  /\ ledger.runs[r].status = "planned" /\ (Confirmation => ledger.criteria)
  /\ r \notin actors
  /\ actors' = actors \cup {r}
  /\ lock' = TRUE /\ Goto(l, "fill") /\ call' = [call EXCEPT ![l] = r]
  /\ work' = [work EXCEPT ![l] = ledger]
  /\ UNCHANGED <<outbox, approved, approvals, seen>> /\ Works

\* _prepare_actor; the folder goes again if a file of it cannot be written.
Fill(l) ==
  /\ pc[l] = "fill"
  /\ LET r == call[l]
     IN  \/ RunBecomes(l, r, [ledger.runs[r] EXCEPT !.status = "prepared"]) /\ Works
            /\ UNCHANGED files
         \/ Leaves(l) /\ Fails
            /\ actors' = actors \ {r} /\ outbox' = [outbox EXCEPT ![r] = None] /\ UNCHANGED approved
  /\ UNCHANGED <<ledger, approvals, seen, writes>>

Preflight(l, r, version) ==
  /\ Enters(l)
  /\ ledger.runs[r].status = "prepared"
  /\ RunBecomes(l, r, [ledger.runs[r] EXCEPT !.preflight = version])
  /\ Same /\ Works

\* Mutant: only a run that is still running is compared with.
MismatchWithRunning(w, r) ==
  \E o \in Primaries(w, w.runs[r].group) :
    w.runs[o].status = "running" /\ w.runs[o].preflight # w.runs[r].preflight

\* _group_blockers: the first attempts of a group run under one version of the host.
Mismatch(w, r) ==
  \E o \in Primaries(w, w.runs[r].group) :
    w.runs[o].started /\ w.runs[o].preflight # w.runs[r].preflight

Started(w, r) == [w EXCEPT !.started = @ + 1, !.runs[r].status = "running", !.runs[r].started = TRUE]

\* Mutant: another run may be running.
StartBeside(l, r) ==
  /\ Enters(l)
  /\ ledger.runs[r].status = "prepared"
  /\ ledger.runs[r].preflight # None /\ ~Mismatch(ledger, r)
  /\ ledger.started < Budget
  /\ Returns(l, Started(ledger, r))
  /\ Same /\ Works

Start(l, r) ==
  /\ Enters(l)
  /\ ledger.runs[r].status = "prepared"
  /\ ledger.runs[r].preflight # None /\ ~Mismatch(ledger, r)
  /\ Running(ledger) = {}
  /\ ledger.started < Budget
  /\ Returns(l, Started(ledger, r))
  /\ Same /\ Works

\* The operator is shown the answer; the lab remembers its digest.  Nothing is saved.
Preview(l, r) ==
  /\ Enters(l)
  /\ ledger.runs[r].status = "running" /\ outbox[r] # None
  /\ approvals' = [approvals EXCEPT ![l][r] = outbox[r]]
  /\ seen' = [seen EXCEPT ![r] = @ \cup {outbox[r]}]
  /\ Raises /\ UNCHANGED files /\ Works

Ended(r, status, intake) ==
  LET w == [ledger EXCEPT !.runs[r].status = status, !.runs[r].intake = intake]
      g == w.runs[r].group
  IN  [w EXCEPT !.complete[g] = GroupComplete(w, g)]
Forgotten(l, r) == approvals' = [approvals EXCEPT ![l][r] = None]

\* Mutant: a token is enough, whatever is in the outbox by now.
StillAsShownOrNot(l, r) == approvals[l][r] # None

\* _approved_final: the lab showed the answer, and it is still the same.
StillAsShown(l, r) == approvals[l][r] # None /\ approvals[l][r] = outbox[r]

\* A completed run's answer is written before the ledger says so.
Complete(l, r, intake, text) ==
  /\ Enters(l)
  /\ ledger.runs[r].status = "running"
  /\ \/ /\ approved' = [approved EXCEPT ![r] = text] /\ Works
        /\ Returns(l, Ended(r, "completed", intake)) /\ Forgotten(l, r)
     \/ UNCHANGED <<approved, approvals>> /\ Fails /\ Raises
  /\ UNCHANGED <<actors, outbox, seen>>

FinishFromOutbox(l, r) == StillAsShown(l, r) /\ Complete(l, r, "file", outbox[r])
FinishManually(l, r, text) == Complete(l, r, "manual", text)

\* "preview_changed": the token is used up.
PreviewChanged(l, r) ==
  /\ Enters(l)
  /\ ledger.runs[r].status = "running"
  /\ approvals[l][r] # None /\ ~StillAsShown(l, r)
  /\ Forgotten(l, r)
  /\ Raises /\ UNCHANGED <<files, seen>> /\ Works

FinishFailed(l, r) ==
  /\ Enters(l)
  /\ ledger.runs[r].status \notin Terminal
  /\ Returns(l, Ended(r, "failed", "file")) /\ Forgotten(l, r)
  /\ UNCHANGED <<files, seen>> /\ Works

Retry(l, r) ==
  /\ Enters(l)
  /\ LET g == ledger.runs[r].group
         a == ledger.runs[r].arm
         related == Attempts(ledger, g, a)
     IN  /\ \A o \in related : ledger.runs[o].status \in Terminal
         /\ ledger.started < Budget /\ Len(ledger.runs) < MaxRuns
         /\ Returns(l, [ledger EXCEPT !.runs = Append(@,
              NewRun(g, a, Max({ledger.runs[o].attempt : o \in related}) + 1))])
  /\ Same /\ Works

Judge(l, g, choice) ==
  /\ Enters(l)
  /\ ledger.judged[g] = None /\ ledger.complete[g]
  /\ Returns(l, [ledger EXCEPT !.judged[g] = choice])
  /\ Same /\ Works

Freeze(l) ==
  /\ Enters(l)
  /\ ~ledger.criteria
  /\ Returns(l, [ledger EXCEPT !.criteria = TRUE])
  /\ Same /\ Works

-----------------------------------------------------------------------------
\* A lab is closed, or killed in the middle of an action, even before it did anything
\* or after it saved: the lock stays.
Close(l) ==
  /\ Fails
  /\ \/ pc[l] = "idle" /\ lock' \in {lock, TRUE} /\ UNCHANGED ledger
     \/ pc[l] # "idle" /\ UNCHANGED <<lock, ledger>>
     \/ pc[l] = "save" /\ ledger' = work[l] /\ UNCHANGED lock
  /\ Goto(l, "idle")
  /\ call' = [call EXCEPT ![l] = None] /\ work' = [work EXCEPT ![l] = None]
  /\ approvals' = [approvals EXCEPT ![l] = [r \in Ids |-> None]]
  /\ UNCHANGED <<files, seen, writes>>

\* No lock is removed automatically; the operator does when no lab is at work.
RemoveLock ==
  /\ lock /\ \A l \in Labs : pc[l] = "idle"
  /\ lock' = FALSE
  /\ UNCHANGED <<ledger, files, pc, call, work, approvals, seen, writes, faults>>

\* A host writes an answer, at any time, asked or not.
HostWrites(r, text) ==
  /\ r \in actors /\ outbox[r] # text /\ writes < MaxWrites
  /\ outbox' = [outbox EXCEPT ![r] = text]
  /\ writes' = writes + 1
  /\ UNCHANGED <<ledger, lock, actors, approved, pc, call, work, approvals, seen, faults>>

Next ==
  \/ \E l \in Labs :
       \/ Save(l) \/ Fill(l) \/ Close(l) \/ Freeze(l)
       \/ \E r \in Runs(ledger) :
            \/ Prepare(l, r) \/ Start(l, r) \/ Preview(l, r) \/ Retry(l, r)
            \/ FinishFromOutbox(l, r) \/ PreviewChanged(l, r) \/ FinishFailed(l, r)
            \/ \E version \in HostVersions : Preflight(l, r, version)
            \/ \E text \in Texts : FinishManually(l, r, text)
       \/ \E g \in Groups, choice \in Arms : Judge(l, g, choice)
  \/ RemoveLock
  \/ \E r \in Ids, text \in Texts : HostWrites(r, text)

Spec == Init /\ [][Next]_vars

-----------------------------------------------------------------------------
(***************************************************************************)
(* Properties.                                                             *)
(***************************************************************************)
Run == [group : Groups, arm : Arms, attempt : 1..MaxRuns,
        status : {"planned", "prepared", "running"} \cup Terminal,
        preflight : HostVersions \cup {None}, started : BOOLEAN, intake : {"file", "manual", None}]
IsLedger(w) ==
  /\ Runs(w) \subseteq Ids /\ \A r \in Runs(w) : w.runs[r] \in Run
  /\ w.complete \in [Groups -> BOOLEAN] /\ w.judged \in [Groups -> Arms \cup {None}]
  /\ w.criteria \in BOOLEAN /\ w.started \in 0..Budget

\* Types; a lab has a ledger to save exactly while it is in an action, and one is at a time.
TypeOK ==
  /\ IsLedger(ledger) /\ lock \in BOOLEAN
  /\ actors \subseteq Ids
  /\ outbox \in [Ids -> Texts \cup {None}] /\ approved \in [Ids -> Texts \cup {None}]
  /\ \A l \in Labs : IF pc[l] = "idle" THEN work[l] = None ELSE IsLedger(work[l]) /\ lock
  /\ Cardinality({l \in Labs : pc[l] # "idle"}) <= 1
  /\ approvals \in [Labs -> [Ids -> Texts \cup {None}]]
  /\ writes \in 0..MaxWrites /\ faults \in 0..MaxFaults

\* "One running run at a time per data directory", and "increments durable attempt
\* reservation" (docs/evaluation-lab-contract.md): the count is that of the attempts
\* that were ever started, retries and failures included.
OneRunning ==
  /\ Cardinality(Running(ledger)) <= 1
  /\ ledger.started = Cardinality({r \in Runs(ledger) : ledger.runs[r].started})

\* Whatever happened, validate_export takes what make_export would write: what a run
\* has says what it did, a group is complete when its first attempts are, and only a
\* complete group is judged; and the answers it reads are there.
RunValidates(run) ==
  /\ run.started => run.preflight # None
  /\ (run.status \in Terminal) = (run.intake # None)
  /\ run.status = "planned" => run.preflight = None
  /\ run.status \in {"planned", "prepared"} => ~run.started
  /\ run.status \in {"running", "completed"} => run.started
ExportsValidate ==
  /\ \A r \in Runs(ledger) : /\ RunValidates(ledger.runs[r])
                             /\ ledger.runs[r].status = "completed" => approved[r] # None
  /\ \A g \in Groups :
       /\ Cardinality(Primaries(ledger, g)) = Cardinality(Arms)
       /\ ledger.complete[g] <=> \A r \in Primaries(ledger, g) : ledger.runs[r].status = "completed"
       /\ ledger.judged[g] # None => ledger.complete[g]

\* "Finish cannot approve unseen replacement" (docs/evaluation-lab-design.md): an answer
\* taken from the outbox is one the operator was shown.
ApprovedWasSeen ==
  \A r \in Runs(ledger) : ledger.runs[r].status = "completed" /\ ledger.runs[r].intake = "file" =>
    approved[r] \in seen[r]

\* The answers of a group are comparable: first attempts that were started, at whatever
\* time, ran under one version of the host.
SameConditions ==
  \A g \in Groups : \A r, o \in Primaries(ledger, g) :
    ledger.runs[r].started /\ ledger.runs[o].started => ledger.runs[r].preflight = ledger.runs[o].preflight

\* "Resumable human-operated study engine" (engine.py): when nobody has the lock, a run
\* that is planned can be prepared.
PlannedCanBePrepared ==
  ~lock => \A r \in Runs(ledger) : ledger.runs[r].status = "planned" => r \notin actors
=============================================================================

# OpenSocrates in TLA+

OpenSocrates coaches a coding agent through one judgment at a time. Short-lived
processes, started by the host's hooks or by the command line, share files under one
data root: there is no server, no transaction over two files, and nothing that runs
between two calls. Most of what can go wrong is therefore what can go wrong between two
of these processes, or when one of them is killed. The specifications here model that
part, as the code under `src/` does it.

- [Inventory](#inventory): the parts, their state, how they meet, what is hard in them
- [Modules](#modules): what each module models and how it corresponds to the code
- [Runs](#runs): what is checked, with which bounds and which fairness
- [Proofs](#proofs): what is proved, and how
- [Findings](#findings): where the code and its words disagree
- [Plan](#plan): what is modelled next; [what is left out](#not-modelled)

Paths without a directory below are under `src/src/opensocrates/`.

## Inventory

| Component | State | Operations | Hard behaviour |
|---|---|---|---|
| Task record store (`persistence/jsonl_store.py`, `task_store.py`, `quarantine.py`, `locks.py`, `atomic.py`) | one append-only JSONL file per task, a quarantine directory, one lock file per task | `load`, `append`, recovery of a torn tail, quarantine of a damaged record | preflight outside the lock of the write, kills between a rename and the restore after it, short writes, lock deadlines |
| Reducer (`domain/task_state.py`, `domain/reducer.py`) | none: a fold over the events | legal transitions, projection | every copy of the log must replay |
| Turn control plane (`application/apply_control.py`, `start_task.py`, `domain/host_control.py`) | per turn: phase, task, accepted controls, the one repair | ten control messages | events are appended before the turn is swapped; retries under one message id; capacity |
| Stop hook (`application/handle_stop.py`) | the same turn | verify, reserve the repair, clean up | two Stops at once, a Stop beside a control |
| Turn store (`persistence/turn_store.py`) | one file per turn, the installation key | issue, load, compare-and-swap, invalidate, sweep | deletion while somebody holds what was read |
| Settings, retention, deletion (`change_settings.py`, `settings_store.py`, `prune_records.py`, `delete_records.py`) | settings file; the record tree | revisioned mutation; prune; delete | deciding on what was read earlier |
| Installer lock and state directory (`installer/opensocrates.mjs`, `acquireOperationLock`, `readDesiredState`, `runPurge`) | `lifecycle.lock`, `desired-state.json`, tombstones | take, judge stale, remove, release; read and rewrite the desired state; finish a purge | nothing ties a removal to the file that was read, and its owner may end before it is asked for; a purge ends after the lock is gone |
| Installer, one host (`installer/opensocrates.mjs`) | managed directory, registration in the host's CLI, desired-state file, LaunchAgent | install, update, remove, purge, auto-update | four stores, no transaction; rollback whose steps fail too |
| Installer, managed hosts (`installer/managed-hosts.mjs`) | a managed root and the host CLI's registration, or three directories of targets; a lock file; backups | install, update, enable, disable, remove | renames one after the other, commands that time out after they took effect, removals cut short, cleaning up that fails and hides the result, a user who edits meanwhile |
| Evaluation lab (`evaluation/`) | `state.json`, folders of runs, approved answers; per process: approvals | prepare, preflight, start, preview, finish, retry, judge, freeze, export | hosts write beside it; files change before the ledger is saved |
| Selector call (`selector/sdk.py`, `sdk_worker.py`) | the active workers; per call a worker process with a watchdog thread, a helper process and three pipes | select, cancel, close | answer, deadline, cancellation and crash at once, on three threads and three processes |
| Decision points (`selector/decision.py`) | per process: the scope (context and epoch) and what was delivered and reported held in it | reset, route, deliver or withhold, report | an agent that forgets, hands over or dies between a report and the answer that relies on it |
| Routing (`domain/routing.py`) | none | score, rank, complement, fall back | every way to a method must exclude a contraindicated one |
| Selector application (`selector/artifacts.py`, `context.py`, `application.py`) | a temporary directory | select, write artifacts | - |
| Policies (`domain/risk.py`, `rigor.py`, `evidence.py`, `completion.py`, ..., `verification/`) | none | pure functions | combinations nobody wrote a test for |
| Host adapters, hooks, CLI, prompts, rendering, content, permissions, tools | none of their own | translation, text, wiring | - |

How they meet. A hook event goes through a host adapter to the dispatcher
(`hooks/dispatcher.py`), which calls the control plane or the Stop handler. These read
and swap the turn through the turn store and append events through the task repository,
which validates them with the reducer and writes through the record store. The settings
decide at a turn's start whether anything is recorded. Retention and deletion walk the
same record tree. The installer shares nothing with these but the state directory. The
evaluation lab is a program of its own.

What makes each correct:

- *Record store*: one history; every copy of it replays; an acknowledged line is never
  destroyed; a lost record is not started over; locks are dropped and calls return.
- *Control plane*: what a turn says was accepted is in the log (or in the settings), once,
  whole; retries get the first answer; the turn does not overtake its log; nothing reserved
  is forgotten; a deleted turn does not come back; one repair per turn.
- *Installer*: one operation at a time, unless a lock is removed that was not the one read;
  no dead lock stays; success means done in every store, failure means put back in every
  store; the files of the recorded version exist; no file of the user's goes with a removal;
  the desired state names what is installed, whenever a purge finishes.
- *Managed hosts*: until the change is committed, what was there before is in place or in a
  backup, whole; no tree with an edit that a check can find is deleted; an error, whichever
  is reported, means that everything is as it was, unless the rollback was incomplete or the
  change committed; success means done in every part.
- *Evaluation lab*: the operator has seen what is approved; one run at a time, within the
  budget; first attempts of a group ran under the same conditions; what an export would hold
  validates.
- *Selector call*: it ends by its deadline whatever the worker does, leaves no process
  behind but the helper of a worker that crashed, started it too late or failed to close it,
  and returns no answer that a cancellation preceded; a closed selector has overlooked no
  worker.
- *Decision points*: instructions are left out only for an agent that still holds them; no
  contraindicated method is named; a rejected request changes nothing.

## Modules

| Module | Models | Read |
|---|---|---|
| `TaskState` | the event types, where each is legal and where it leads, the reducer's projection | `task_state.py`, `reducer.py`, `record_event.py` |
| `TaskLog` | the promise of the record store to its callers: an abstract log | - |
| `RecordStore` | one task record and the processes that append to it | `jsonl_store.py`, `task_store.py`, `quarantine.py`, `atomic.py`, `locks.py` |
| `ControlPlane` | one turn, its task's logs, and the controls and Stops on it | `apply_control.py`, `handle_stop.py`, `start_task.py`, `turn_state.py` |
| `LifecycleLock` | `lifecycle.lock` | `acquireOperationLock`, `withOperationLock` |
| `StateDirectory` | the lock, the desired state and the end of a purge | `readDesiredState`, `atomicWritePrivateFile`, `updatePurgeDesiredState`, `prepare...` and `completePurgeStateFinalization` |
| `HostLifecycle` | the installer's operations on one host | `runStandardInstall...`, `activateInstallation`, `rollback...`, `runStandardRemove`, `runPurge`, `enableAutoUpdate` |
| `ManagedHost` | what the managed hosts have in common: operations, faults, what an end means | `managed-hosts.mjs`, `runManagedHost` |
| `ModularHost` | Antigravity: three targets moved in one transaction | `antiSwap`, `antiAction` |
| `NativeHost` | Claude: the root and the registration its CLI keeps | `nativeInstall`, `nativeAction` |
| `ManagedHosts` | either of the two | - |
| `EvaluationLab` | a study, its labs and its hosts | `engine.py`, `storage.py` |
| `SelectorSupervisor` | calls of the selector, their workers, the threads that cancel | `sdk.py`, `sdk_worker.py` |
| `Routing` | which method a request is routed to | `routing.py` |
| `DecisionSession` | a decision-point process and the agents at its other end | `decision.py` |
| `RecordStoreProofs`, `ControlPlaneProofs`, `StateDirectoryProofs`, `HostLifecycleProofs`, `ManagedHostsProofs`, `EvaluationLabProofs`, `SelectorSupervisorProofs`, `DecisionSessionProofs` | theorems | - |
| `MC...` | instances for TLC | - |

`PROJECT.json` maps every definition to the lines it stands for.

**RecordStore.** A call of a process is a chain of steps: `Look` (does the file exist?),
`Acquire` or `Timeout`, then under the lock the read, with `SetAside` (the rename into
quarantine) and `Restore` (the validated prefix written back) as steps of their own,
`AppendRecovery`, and `AppendEvent`. `TaskStore.append` runs the whole read before it
takes the lock again to write, so `Returned` leads from the preflight to `Gate`. A torn
line is `file.torn`; a complete line that does not validate is `file.damaged`. `vault` is
the quarantine directory. `log` and `acked` are history: what was ever durable, what a
receipt was returned for. Faults (short write, failed fsync, failed rename, kill) and
damage come from budgets.

**ControlPlane.** A control is `Load`, `Drop` or `Sweep`, a decision (`Replay`, `Refuse`,
`Mutate`), one `Record` per event, and `Accept`, `Conflict` or `Close`; a Stop is `Stop`,
then `StopEnds`, `Reserve` or `ReserveConflict`. Operations of the turn store are one
step each, as its lock spans them. A task's log behaves as `TaskLog` promises, which
`RecordStore` is shown to keep. `logs` has one log per task id, since a begin whose swap
is lost leaves the log it opened behind. Records are filed by month, and no caller names
one: a read looks in the current month, an append in that of its event. `NewMonth` ends a
month at any moment of a turn; `Filed` is what is found then.

**LifecycleLock.** One step per system call: create exclusively, write the pid, read the
pid, ask for the process (`Probe`: `kill(pid, 0)`, or `lstat` if there was no pid), remove
or refuse, release. Writes and removals may fail. An installer exits after its operation
(`Exit`), and from then on its pid names nobody: `Dies` turns it into `Ended` wherever it
was written or read. Every installer has a pid of its own, so the reuse of a pid by another
process, which would make a dead lock look alive, is left out. `creator` stands for the open
file handle, so that a write goes into the file that was opened even if another one has the
name by then. `current` is history, the processes that have read the lock as it is now;
`overtaken` says that a lock was removed by one that had not. `Age` lets two hours pass over
a lock without a pid. Two stretches are assumed never to take that long: writing the pid
into a file just opened, and getting from a read of nothing to the `lstat`.

**StateDirectory** extends `LifecycleLock`: `LockStep` holds its steps, everything else
leaves the lock alone. Under the lock an operation reads the desired state, deals with its
hosts (which succeeds or fails here; `HostLifecycle` says how), and replaces the file by way
of a temporary one. A purge that leaves no host renames what it finds to tombstones
(`Survey`, `Bury`, `PrepareFails`), releases the lock (`ReleaseJob`), and then deletes the
tombstones and the directory (`Unlink`, `RemoveDirectory`), which another installer may have
taken again. `shared` says that two installers once held the lock at the same time. A
temporary file is known by its writer, a tombstone by its purge. `installed` is history:
what the writes so far amount to.

**HostLifecycle.** Trees are reduced to the version they hold and whether they are whole,
altered by the user, broken (files gone) or bare (the marker gone too). `step` walks
through the operation; `tx` holds its flags (`rootActivated`, `backupCreated`, ...), which
decide what the rollback does. Every call of the host's CLI may fail with or without
effect; every recovery step may fail in turn; a kill may leave a half-deleted tree.
`excused` and `hostFailed` are history: what the code cannot know when a purge has been
deleting files, or when the only witness of a version is a CLI that has failed before. An
installation whose record could not be written, whose rollback failed to unregister and was
killed while it deleted the new root leaves a broken root with its marker and a
registration; enabling the updater (`preflightHost` asks for the marker only) then records
that version as installed, and a scheduled run that finds it current does not look at the
files. `DesiredHasFiles` and `InstallDone` except just that. A removal moves the root aside,
verifies it there and deletes it: a file the user adds to the moved tree between that last
verification (`opensocrates.mjs`, 3503) and the `rm` (3512) goes with it, which is not
modelled.

**ManagedHost, ModularHost, NativeHost.** `op` is the one operation that runs, or none, with
the step it is at; each rename, comparison, command and recovery step is an action, with its
failing form, and `Kill` may come between any two. `ModularHost` moves three targets aside
and three staged ones in, compares the backups with what was verified, and deletes them.
`NativeHost` moves one root and then drives marketplace and plugin commands; a command that
fails may have taken effect. The user edits files at any time, and enables, disables or
unregisters the plugin between operations. He may also save a file where nothing is, a
target that was just moved away included: a tree without a version. A rule is one file,
which a renaming puts over whatever has its name by then; a directory is not renamed over
another. A recursive removal that fails, or is killed, in the middle leaves a `part` of the
tree, and a rewriting of the marker that is killed a file `more`, its temporary one. An
operation ends in two steps, `End` and `Leave`, in each of which cleaning up (the scratch
directory, the lock) may fail and replace the result, a success or `rollback_incomplete`, by
an error of its own: `masked`. `tx.committed` is set when everything has been confirmed and
the removal of the backups may begin. Each host has a directory and a lock of its own, so a
behaviour of `ManagedHosts` is that of either.

**EvaluationLab.** `Lab.action` takes `.lock`, loads, handles, saves, releases. What an
action does up to its return is one step; then `Save` writes the ledger or fails. A
`Prepare` is two, as it removes its folder again when filling it fails. `HostWrites`
changes an outbox at any moment. `Close` drops a lab, with `.lock` left behind if it was
in an action, and `RemoveLock` is the operator's hand: no lock is removed automatically.

**SelectorSupervisor.** `call` is the thread that supervises, `worker` the process with
its two threads and the helper the SDK starts, `closer` a thread in `cancel()` or
`close()`. `Start` is one step because `_start_worker` checks, spawns and registers under
one lock. The supervisor looks at the cancellation, then at the answer, then at the end
of the worker, as the code does; a dying worker closes its pipe and its sentinel in either
order (`Ends`). SIGTERM reaches the process group once it was announced, else the bare
process, which has no handler yet; the helper may ignore it. Time is three phases of a
call: before `cancel_at`, before `kill_at`, after. `retain_codex` and `client.start()` are
two steps, and so are taking the client and closing it: a watchdog that does both of its
steps in between leaves a helper nobody holds (`late`), which `NothingLeft` therefore has
to except. SIGKILL ends a process at once: the join that follows it has a quarter of a
second. Between the worker's look at the cancellation (`Load`) and `retain_codex`
(`Retain`) lies the import of the SDK. `close_codex` swallows what `codex.close()` raises,
and the worker goes on as if it had closed it: such a helper is `unclosed`, and `NothingLeft`
and `AnswerMeansQuiet` except it too. A message is sent whole or not at all: a worker that
stalls in the middle of a send, which would keep `recv` from returning, is not modelled. A
signal sent to a process that was reaped a moment ago is left out, as the
model has no other process to hit.

**Routing, DecisionSession.** `Routing` is operators only: a method is suitable unless the
request has one of its contraindications, and every way to one (rank, complement, fallback,
explicit request, reuse) goes through `Suitable`. A `DecisionSession` handles one request
at a time; the answer is on its way while the agent may compact its memory, hand over to
another context or die, so that what the session believes an agent holds and what it holds
(`held`) drift apart. `Scoped` is the rule that forgets what was reported when context
or epoch change.

## Runs

| Run | Instance | Shows |
|---|---|---|
| `record_store` | 2 processes, 3 event kinds, sequences to 3, 2 faults, 1 damage | `OneHistory`, `AckedPreserved`, `GoneForever`; refinement of `TaskLog` (`Implements`); `LockReleased`, `CallsReturn` |
| `record_store_loss` | the same | the finding `AckedLive` |
| `control_plane` | 2 processes, 8 controls under 6 message ids, 3 accepted, 4 calls, 2 months, 1 fault | `TypeOK` (with the limit on accepted controls), `AcceptedIsRecorded`, `OrphansStayOrphans`, `LogLeads`, `AcceptedOnce`, `AnswersAgree`, `OneContinuation`, `NeverReissued`, `NothingForgotten` |
| `control_plane_retry` | the same in one month without faults | the finding `RecordedOnce` |
| `lifecycle_lock` | 2 installers, 1 host, 1 purge, 1 kill | `ExclusiveUnlessOvertaken`, `RecordKept`, `JobsEnd`, `DeadLockGoes` |
| `lifecycle_lock_stale` | 3 installers and the lock alone, no kill | the finding `MutualExclusion` |
| `host_lifecycle` | 2 versions, 4 operations, 3 faults, 1 file of the user's | `DesiredHasFiles`, `SuccessMeans`, `FailureRestores`, `RegisteredRootExists`, `UserFileKept` |
| `evaluation_lab` | 2 labs, one group of 2 arms, 2 texts, 2 versions, 3 runs, budget 2, 2 writes, 1 fault | `OneRunning`, `ExportsValidate`, `ApprovedWasSeen`, `SameConditions` |
| `evaluation_lab_resume` | the same | the finding `PlannedCanBePrepared` |
| `selector_call` | 1 call, 2 threads that cancel or close | `NothingLeft`, `AnswerMeansQuiet`, `CancelOverrules`, `CloseReachesAll`, `EveryCallReturns` |
| `decision_session` | 2 contexts, 2 locales, 4 methods, 8 judgments, 2 entries, epochs to 1, 5 requests, 1 in flight | `WithheldIsHeld`, `NothingContraindicated`, `RejectedChangesNothing` |
| `managed_hosts` | 2 versions, 3 operations, 3 faults, 1 edit | `PreimageHeld`, `EditsHeld`, `FailureRestores`, `SuccessMeans` |

Every property has a mutant in
`PROJECT.json`: a definition next to the one it stands for (their comments start with
`Mutant:`) that changes it as a plausible bug would, and that TLC refutes the property
with.

*Why these bounds.* Two processes suffice for every race between a read and a write that
relies on it. Of installers a third shows the case of `lifecycle_lock_stale` as it would
happen: one that reads, an owner that ends, and the next one, none of which comes twice. Two
meet all of it as well, since one that ended may begin again. One host, one purge and one
kill let an installation, a kill in it and the end of a purge overlap; `RecordKept` and
`ExclusiveUnlessOvertaken` are proved for any number of each. `FollowSharing` stops that run
where an operation would begin after two installers held the lock at once; those under way
are followed to their end. Behind that point `RecordKept` claims nothing, and `JobsEnd` and
`DeadLockGoes` are checked up to there only. Two months suffice, as a turn lives six hours.
Two faults let a recovery fail after the failure that caused it; three, in `host_lifecycle`
and `managed_hosts`, let the operation be killed, or its cleaning up fail, on top of that,
and another one start from a registration and a tree that are both half taken back. Three
lines let a stale writer be refused by its sequence, by the transition rules, and lose a
prefix of which some was acknowledged. Four calls let a control, its retry, a competitor and
a Stop meet. Four operations of the installer let an update fail, its recovery fail, and two
others start from what is left; three of a managed host let one be interrupted, one start
from what that left, and one be refused. Five requests of a decision session let a method be
delivered, reported held, left out, forgotten and asked for again; its methods differ in
what makes them unsuitable. In the lab, three runs are the two arms of a group and one
retry. Calls of the selector share only the flag and the set of active workers, so one call
meets every interleaving with two closers; the theorems are for any number.

*Fairness.* `RecordStore` and `StateDirectory` assume weak fairness of each process's own
steps: the operating system runs a process that was started, and the code nowhere waits
except for a lock, under a deadline which is itself a step (`Timeout`). Nobody is obliged
to issue another call, except in `StateDirectory`, where the scheduled update begins
again and again, which is what makes the removal of a dead lock eventual; there time
passes too (`Age`), no failure is owed (`Progress`), and an installer that comes to remove
the lock again and again is not refused by the file system every time (strong fairness of
`Remove`). In `SelectorSupervisor` the supervising thread runs and time passes,
but the worker, its watchdog and the SDK may hang anywhere: that the call returns is the
deadline's doing alone. The other modules state safety only.

`CHECK_DEADLOCK FALSE` stands where the bounds on calls, operations or writes let the
system stop.

## Proofs

TLC checks small instances; the proof modules prove the following for every set of
processes, event kinds or calls and every bound. They
rest on the assumptions the modules name: `NoProc` and `NoPid` are no processes, the kinds
are events other than the recovery marker, bounds are natural numbers, there is a month,
`None` is no text or version, a study is finite and has no more first attempts than runs
(`report.py` and `engine.py` refuse another one).

**RecordStoreProofs.** None of the invariants is inductive as it stands: that a log
replays says nothing of an append that was admitted by a replay some time ago. `IInv`
adds

- `Owner`: a process is in a locked step exactly if it owns the lock;
- `CallOK`: what its step says of its call;
- `FileOK`: who restores holds the whole history in memory and the file is gone; who is
  about to write has a clean file of the length its sequence says;
- `LogOK`: the live record, if it has lines, *is* the history; quarantined ones are
  prefixes; the history replays;
- `PendingOK`: an admitted append follows the line it was admitted after, which is still
  there. Lines are never removed from the history, so a later line can only make the
  sequence not fit, never the transition;
- `StartOK`: a log is started by one process.

From `IInv`: `TypeCorrect`, `HistoryIsOne` (`OneHistory`), `AlwaysReplayable`
(`LogReplayable`), `AckedIsKept` (`AckedPreserved`), `NeverResurrected` (`GoneForever`), and
`KeepsPromise` (`Implements`): every step maps to a step of `TaskLog` or stutters, where
`sealed` is `Gone`.

**ControlPlaneProofs.** A control relies, from its load to its swap, on what it saw of the
turn and of the log, without holding any lock. `IInv` says what is still true of it then:

- `Recalled`: what it saw of the turn is still there, up to what was added since;
- `Admitted`, `Placed`, `Written`, `Advanced`: it was admitted by that turn; so many of its
  events stand in the log of its task, in order and in one piece; and once the first does,
  the log is as far as the control takes the turn. Logs only grow (`LogsGrow`), so what
  others append leaves all of it standing (`StandingStill`);
- `TurnOK`: the turn is of a task whose log is there; it remembers a control for each id, no
  more than the limit, and none that would have ended it;
- `AcceptedIsRecorded`, `OrphansStayOrphans` and `LogLeads` themselves, which need no more
  than the above to be inductive;
- `Ended`, `Kept`, `Sent`: a task is ended by one control; every other answer is one the turn
  remembers; every answer is one to a control that was sent.

From it: `Types_OK` (`TypeOK`), `Accepted_Is_Recorded`, `Orphans_Stay_Orphans`, `Log_Leads`,
`One_Continuation`, and the action properties `Never_Reissued` and `Nothing_Forgotten`.
`Accepted_Once` and `Answers_Agree` assume `DistinctEnds` besides: no message id is used both
for a control that ends the turn (hold, cancel) and for one that does not. Without it TLC
finds a counterexample to `AcceptedOnce`: a control that ends a turn deletes it and its
memory of ids with it, so that nothing compares the two. The instance of the run is one
where the assumption holds, and reuses ids among controls of the same sort.

**StateDirectoryProofs.** First the lock alone: `LockTypeCorrect` and `OneOperation`
(`ExclusiveUnlessOvertaken`), of the specification of `LifecycleLock`. Releases and removals
do not check whose lock they delete, and kills and failed removals leave locks behind. What
is inductive, as long as no lock was overtaken: the lock was created by its one holder, if
anybody holds it (`OneOwner`); it names that holder, or is young and about to (`Written`);
and who read the lock that is there now has read what it says, so that whoever of these
judges it stale knows that nobody holds it (`Knows`). Exits are the steps to look at: the pid
of one that ends turns into `Ended` in the lock and in what others read of it alike.

Then the directory. `ImplementsLock`: every step of `StateDirectory` is a step of
`LifecycleLock` or leaves the lock alone, so `OneOperationBesidePurges` follows from
`OneOperation`. The removal of the directory is the step to look at: it takes only an empty
one, so never a lock. `RecordIsKept` (`RecordKept`) needs
`SDInv`. As long as no lock was shared there is one holder at most (`Alone`), and nobody has
read the desired state before it holds the lock (`Behind`); only the holder writes it, so what
it has read is what is installed (`Informed`); it buries the record only when nothing is
installed, so that a rollback of the burial brings back a record that names no host.
`DirectoryTypes` adds that the directory is not removed with anything in it.

**HostLifecycleProofs.** An operation is a sequence of steps, each of which may fail or be
killed, so the invariant goes along the steps. Each action is first shown to do what a
predicate of its own says field by field (`StepDoes`), and each layer of `IInv` then reads
only the fields it is about:

- `Fits`, `Layout`: an operation goes through the steps of its kind; at each of them it is
  known which of root, staging and backup is there, and whether it is the tree the operation
  found, up to an edit of the user's, or the one it brought;
- `RecordIs`, `Obeyed`: what is recorded and registered; as long as no command of the CLI has
  failed, nothing is registered while the root is exchanged, and what is registered is in it;
- `FilesKept`: the files of the recorded version are somewhere a rollback will not delete
  them. A root that has just been promoted does not count before the record names it
  (`RootCounts`). An operation that may still write the old record back keeps the files of
  that one too, but for a removal that has seen it cannot restore them (`GivenUp`), which
  does not write it back;
- `Underway`, `SucceededIs`: what each step has achieved, and what is so at a success;
- `Reversible`, `Undone`, `FailedIs`: what has not been touched yet, what has been taken back,
  and what is so at a failure if nothing failed on the way.

The only assumptions are those of `HostLifecycle`: `Nothing` is no version and the bounds are
natural numbers. Theorems: `Desired_Has_Files`, `Registered_Root_Exists`, `Success_Means`,
`Failure_Restores`, `User_File_Kept`, `Types_OK`.

**ManagedHostsProofs.** `host` never changes, so `ManagedInv` is an invariant of each host:
`MInv` of Antigravity's, `NInv` of Claude's. As above, each action is first shown to do what
a predicate of its own says of every field (`MStepDoes`, `NStepDoes`), and the layers then
read only theirs.

Of Antigravity, whose three targets are moved one by one and taken back one by one:

- `MStages`, `MPrior`: an operation goes through the steps of its kind, and the enabled
  state it keeps is that of the marker it found;
- `MCopies`: every tree that was found is in its place or in the backup, a target that was
  not touched is as it was found, and one filled without a backup was empty;
- `MReached`, `MUndo`: on the way there only the targets before the present one are changed,
  and their backups are what was found; on the way back those after it are as they were
  found, unless the rollback already counts as incomplete, and the others still have theirs;
- `MEdits`: an edit that a check can find is in nothing that the next step takes as seen or
  deletes;
- `MAimed`: what was put is what the operation aims at;
- `MLeft`: an operation that is over without being committed or incomplete has left every
  target as it found it, whatever its result is and whatever hides it.

Of Claude, whose one root is moved and whose CLI keeps a registration:

- `NStages`, `NPrior`: the same, where the enabled state is the CLI's or else the marker's;
- `NFlagged`: which of the flags that decide what the rollback does can be set at which step;
- `NFiles`, `NRoot`: the tree that was found is in the backup when it was moved and in the
  root when not, with fewer files only once the removal of the backup has begun (`NStill`);
  and which tree is in the root on the way there;
- `NForth`, `NBack`: what the CLI lists at each step on the way there, and as much of it as
  is known on the way back, where any command may have failed with or without effect;
- `NEdits`, `NLeft`: as for Antigravity, the registration included.

`PreimageHeld`, `FailureRestores` and `SuccessMeans` are conjuncts of both: they are of the
last operation, so the layers are used for them at each step that may end one, and an edit,
which leaves the version and the enabled state of a tree as they are, keeps them. `MLeft` and
`NLeft` are why a result that is replaced in `Leave` needs no argument of its own. All layers
were model-checked on the bounds of the run before they were proved.
The only assumptions are those of `ManagedHosts`: `Nothing` is no version and the bounds are
natural numbers. Theorems: `Preimage_Held`, `Edits_Held`, `Failure_Restores`,
`Success_Means`, `Managed_Types`.

**EvaluationLabProofs.** `Sound` says of a ledger what the export checks, that the attempts
that were started had one host version in a group (`Comparable`), that one run at a time is
running, and that the budget counts what was started. `LabInv` says it of the saved ledger and
of every one an action is about to save (`AtWork`), so that a save that fails and one that
succeeds both keep it. `AtWork` also says that one lab at a time is in an action, under the
lock. `Answered`: the answers of the runs a ledger calls completed are on disk, and were shown
if they came from the outbox; `Shown`: what a lab remembers of a preview was. Theorems:
`One_Running`, `Exports_Validate`, `Approved_Was_Seen`, `Same_Conditions`, `Types_OK`.

**SelectorSupervisorProofs.** Calls meet only in `closed` and `active`, so the invariant is
one of a call (`CallInv`), of its worker (`WorkerInv`) and of a closer (`CloserInv`).
`AnswerMeansQuiet` is the hard one: nothing but the order of the watchdog's steps keeps an
answer from being sent beside it. `WorkerInv` says that a watchdog that took the client has
set the cancellation first, so the main thread's last look drops the answer; an answer that
passes that look therefore belongs to a client the main thread closed itself, and the
watchdog, joined before the send, finds the call completed. Signals are lemmas on one worker
(`TerminatedWorker`, `KilledWorker`): they never revive it and keep `WorkerInv`. A close
that raises leaves the helper `unclosed` instead of gone, and no step makes it anything else
but gone. `CloserInv` holds because the snapshot and the flag are one step. Theorems:
`SupervisorTypeCorrect`, `NothingIsLeft`, `AnswersAreQuiet`, `CancellationWins`,
`CloseIsComplete`.

**DecisionSessionProofs.** `SessionOK`: what a session counts as available is held by the
agent of its scope if the scope is of that agent's current epoch; `InboxOK` says it of a
report on its way, `OutboxOK` of an answer. A compaction takes everything from the agent, but
no scope is ahead of its agent's epoch (`NotAhead`), so the new one is spoken of by nothing
yet: what was true of the old epoch is not claimed any more (`Survives`), and a report that
arrives after the compaction is harmless. For `NothingContraindicated` every way to a method is
a lemma on routes (`RouteSuits`). The score is a sum over a set, defined by recursion; that it
is an integer, and that the best of a nonempty set exists, is proved without induction over
an operator, from a smallest set that would refute it (`SmallestSet`). Theorems:
`Withheld_Is_Held`, `Nothing_Contraindicated`, `Rejected_Changes_Nothing`, `Types_OK`.

Out of the prover's reach: liveness (`LockReleased`, `CallsReturn`, `JobsEnd`,
`DeadLockGoes`, `EveryCallReturns`), since it needs `ENABLED`; anything by induction over
data; modules with `RECURSIVE` operators. Every invariant and every other action property
that a passing run checks is proved. Type correctness, `AlwaysReplayable`, `DirectoryTypes`
and the inductive invariants are proved without a run of their own, but for `TypeOK` of
`ControlPlane`.

## Findings

- `record_store_loss`: recovery renames the torn record away before it writes the prefix
  back. Killed between the two, it leaves no live record; acknowledged lines survive in
  quarantine only, where no reader looks.
- `control_plane_retry`: a control that loses the compare-and-swap is told it was
  rejected, though its events are in the log. Sent again under the same idempotency key,
  it records them a second time, where the transition rules allow it.
- `lifecycle_lock_stale`: an installer reads the lock of one that runs; that one finishes,
  removes its lock and exits; a third creates its own. The first finds nobody under the pid
  it read, removes the third's lock and creates one: two hold the lock, and nobody was
  killed.
- `evaluation_lab_resume`: if the ledger cannot be saved after a run's folder was made,
  the run stays planned and can never be prepared.

What the models also show, and no line of the repository promises otherwise:

- *The month's end.* A recorded turn that lives over the end of a month finds no record in
  the new month's directory. Nothing is split or lost, but every control that would record
  something is refused from then on, a cancel included, until the turn expires.
- *Decision points.* `EXPECTED["epoch"]` asks for an epoch "never lower than the previous
  epoch for this context", but only the last scope is remembered: an agent that goes to
  another context and comes back with a lower epoch is accepted, with nothing withheld.
- *Managed hosts.* Deleting the backup may fail half way, and Claude's rollback then
  restores what is left of it; a kill there leaves half a backup (`tx.committed`). What the
  user edits after the last comparison is deleted with the backup (`late`). A file he saves
  where a rule was moved away is overwritten when the rollback puts the rule back
  (`managed-hosts.mjs`, 580), also when that file is what the check had found. A scratch
  directory or a lock that cannot be removed replaces the result by an error of its own, a
  success after the commit as well as `rollback_incomplete` (`masked`): from the error alone
  one cannot tell whether anything was restored. A removal whose
  first command failed without effect ends as `rollback_incomplete`, since the marketplace
  it wants to add again is still there. A killed operation, and one whose last `unlink`
  failed, leaves its lock for ever. After
  an incomplete rollback the registered version may differ from the root's, and enable and
  disable do not look. `PreimageHeld`, `EditsHeld`, `FailureRestores` and `SuccessMeans`
  name these cases and hold but for them.
- *Selector call.* If `codex.close()` raises, the worker answers and ends normally, and its
  helper runs on: nothing kills the group of a worker that ended by itself.

## Plan

1. *Record store and control plane* (done): the core, with the abstract log between them
   and the months.
2. *Installer* (lock, state directory, one host, managed hosts: done). Left: hook trust,
   several hosts in one operation.
3. *Evaluation lab* (done). Left: the creation of a study.
4. *Selector call, decision points, routing* (done).
5. *Proofs*: every invariant and action property of the passing runs (done).

## Not modelled

Host adapters, the command line, prompts, rendering and content turn validated data into
other data and keep no state. Parsing of cards and messages is assumed to have succeeded.
Permissions and Windows security are access control of the operating system. Pruning and
deletion drive a store and a journal that are only protocols here: what a deletion meets on
disk is not in the code. Risk, rigor, evidence and completion rules are pure functions of
closed enumerations. The turn store's installation key, the installer's downloads and
signatures, and the tools are left out. `PROJECT.json` lists each component with its reason,
and each hazard of the code with the property that covers it or the reason none does.

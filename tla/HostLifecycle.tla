--------------------------- MODULE HostLifecycle ---------------------------
(***************************************************************************)
(* What the installer does to one host (installer/opensocrates.mjs):       *)
(* install and update, ordinary removal, purge, the automatic updater.     *)
(* Each is a transaction over things no transaction spans: the managed     *)
(* directory, renamed aside and back; the host's registration, changed by  *)
(* running the host's CLI; the desired-state file, replaced atomically;    *)
(* and the LaunchAgent.                                                    *)
(*                                                                         *)
(* Operations run one at a time (LifecycleLock).  Any of their steps may   *)
(* fail, any recovery step may fail too, and the installer may be killed   *)
(* between any two; the next operation starts from what is left.           *)
(*                                                                         *)
(* Left out: the registration of a foreign marketplace (every operation    *)
(* refuses it), caches and hook trust of a purge, and the finalization of  *)
(* the state directory, which only removes what already says nothing.      *)
(***************************************************************************)
EXTENDS Naturals

CONSTANTS Versions,  \* the product versions of the installers that are run
          Nothing,   \* no version
          MaxOps,    \* bound on operations
          MaxFaults, \* bound on failures and kills
          MaxDrift   \* bound on files the user puts into the managed directory

ASSUME NothingIsNoVersion == Nothing \notin Versions
ASSUME LifecycleBoundsAreNaturals == MaxOps \in Nat /\ MaxFaults \in Nat /\ MaxDrift \in Nat

VARIABLES
  files,    \* the managed directory, and this operation's staging tree and backup
  residue,  \* trees earlier operations left beside it
  host,     \* what the host's CLI answers: marketplace, version of the plugin
  desired,  \* the desired-state file
  agent,    \* the LaunchAgent: absent, a file that is not loaded, loaded
  step, op, \* the running operation
  before,   \* what its preflight found
  tx,       \* its flags
  excused,  \* since the last install, has a purge been deleting files, or a version been
            \* recorded that only a CLI that has failed told of? (history)
  hostFailed, \* has a command of the host's CLI ever failed? (history)
  faults, drifts, ops

disk == <<files, residue, host, desired, agent>>
vars == <<files, residue, host, desired, agent, step, op, before, tx, excused, hostFailed,
          faults, drifts, ops>>

-----------------------------------------------------------------------------
(***************************************************************************)
(* A tree is the files of a version: whole, with a file of the user's in   *)
(* it, with some files gone, or with the ownership marker gone too.        *)
(***************************************************************************)
NoTree == [version |-> Nothing, kind |-> "none"]
Whole(v) == [version |-> v, kind |-> "whole"]
Trees == {NoTree} \cup [version : Versions, kind : {"whole", "altered", "broken", "bare"}]
Exists(t) == t # NoTree

\* requireOwnedRoot looks at the marker, verifyManagedTreeForPurge at every file.
Owned(t) == t.kind \in {"whole", "altered", "broken"}
Verified(t) == t.kind = "whole"

\* What a recursive removal leaves when it stops half way.
Rest(t) == {NoTree} \cup IF t = NoTree THEN {}
                        ELSE {t} \cup {[t EXCEPT !.kind = k] : k \in {"broken", "bare"}}

NotInstalled == [installed |-> FALSE, version |-> Nothing, auto |-> FALSE]
Kinds == {"install", "scheduled", "remove", "purge", "enable", "disable"}
Installs == {"install", "scheduled"}
NoOp == [kind |-> "none", version |-> Nothing, ok |-> FALSE]
NoTx == [removed |-> FALSE, backed |-> FALSE, active |-> FALSE, restored |-> FALSE,
         touched |-> FALSE, written |-> FALSE, agentOK |-> TRUE, complete |-> TRUE, clean |-> TRUE]
Now == [root |-> files.root, host |-> host, desired |-> desired, agent |-> agent]
NoHost == [market |-> FALSE, plugin |-> Nothing]
NotBegun == [root |-> NoTree, host |-> NoHost, desired |-> NotInstalled, agent |-> "absent"]

Init ==
  /\ files = [root |-> NoTree, staging |-> NoTree, backup |-> NoTree]
  /\ residue = {}
  /\ host = NoHost
  /\ desired = NotInstalled
  /\ agent = "absent"
  /\ step = "idle" /\ op = NoOp /\ before = NotBegun /\ tx = NoTx
  /\ excused = FALSE /\ hostFailed = FALSE
  /\ faults = 0 /\ drifts = 0 /\ ops = 0

\* pluginState as preflightHost asks for it: only of a registered marketplace.
Installed(h) == IF h.market THEN h.plugin ELSE Nothing

FilesBecome(f) == files' = f /\ UNCHANGED <<residue, host, desired, agent>>
HostBecomes(h) == host' = h /\ UNCHANGED <<files, residue, desired, agent>>
DesiredBecomes(d) == desired' = d /\ UNCHANGED <<files, residue, host, agent>>
AgentBecomes(a) == agent' = a /\ UNCHANGED <<files, residue, host, desired>>

At(s) == step = s /\ UNCHANGED <<op, before, drifts, ops>>
Goto(s) == step' = s
Works == UNCHANGED <<faults, hostFailed>>
Fails == faults < MaxFaults /\ faults' = faults + 1 /\ UNCHANGED hostFailed
HostFails == faults < MaxFaults /\ faults' = faults + 1 /\ hostFailed' = TRUE

\* Where an operation goes when one of its steps throws.
Failure == CASE op.kind \in Installs -> "forget plugin"
             [] op.kind = "remove" -> "recover files"
             [] op.kind = "purge" -> "purge root"
             [] OTHER -> "failed"

\* A rename, or a file replaced by rename: done, or failed without effect.
AtomicStep(effect, s) == \/ effect /\ Works /\ Goto(s)
                         \/ UNCHANGED disk /\ Fails /\ Goto(Failure)

\* A command of the host's CLI: it may have had its effect and failed all the same.
HostStep(effect, s) == \/ effect /\ Works /\ Goto(s)
                       \/ (effect \/ UNCHANGED disk) /\ HostFails /\ Goto(Failure)

\* A step there is nothing to do for.
Skip(s) == UNCHANGED disk /\ Works /\ Goto(s)

-----------------------------------------------------------------------------
(***************************************************************************)
(* Beginning and ending.                                                   *)
(***************************************************************************)
\* (A scheduled run that finds the updater off, or is not due, returns at once.)
Begin(k, v) ==
  /\ step = "idle" /\ ops < MaxOps
  /\ k = "scheduled" => desired.auto
  /\ ops' = ops + 1
  /\ op' = [kind |-> k, version |-> v, ok |-> FALSE]
  /\ before' = Now
  /\ tx' = NoTx
  /\ Goto(CASE k = "purge" -> "unplug" [] k = "disable" -> "disable agent" [] OTHER -> "preflight")
  /\ UNCHANGED <<disk, excused, hostFailed, faults, drifts>>

\* preflightHost, and what an operation checks before it changes anything.
Refused ==
  \/ host.market /\ ~Exists(files.root)
  \/ Exists(files.root) /\ ~Owned(files.root)
  \/ op.kind = "remove" /\ Exists(files.root) /\ ~Verified(files.root)
  \/ op.kind = "enable" /\ Installed(host) = Nothing

AlreadyCurrent == op.kind = "scheduled" /\ desired.version = op.version
                  /\ Installed(host) = op.version

Preflight ==
  /\ At("preflight")
  /\ \/ ~Refused /\ Works
        /\ Goto(CASE AlreadyCurrent -> "note check" [] op.kind = "remove" -> "unplug"
                  [] op.kind = "enable" -> "enable record" [] OTHER -> "stage")
     \/ Refused /\ Works /\ Goto("failed")
     \/ (Fails \/ HostFails) /\ Goto("failed")
  /\ UNCHANGED <<disk, tx, excused>>

\* The operation returns or throws; what it leaves beside the root is residue.
Report(s, ok) ==
  /\ step = s
  /\ Goto("done")
  /\ op' = [op EXCEPT !.ok = ok]
  /\ files' = [files EXCEPT !.staging = NoTree, !.backup = NoTree]
  /\ residue' = (residue \cup {files.staging, files.backup}) \ {NoTree}
  /\ UNCHANGED <<host, desired, agent, before, tx, excused, hostFailed, faults, drifts, ops>>

End == Report("succeeded", TRUE) \/ Report("failed", FALSE)

Return ==
  /\ step = "done"
  /\ Goto("idle")
  /\ op' = NoOp /\ before' = NotBegun /\ tx' = NoTx
  /\ UNCHANGED <<disk, excused, hostFailed, faults, drifts, ops>>

-----------------------------------------------------------------------------
(***************************************************************************)
(* Install and update: stage beside the root, unregister, move the old     *)
(* root aside and the new one in, register, and write the desired state.   *)
(***************************************************************************)
\* Nothing is rolled back when staging fails: the transaction is not begun.
Stage ==
  /\ At("stage")
  /\ \/ FilesBecome([files EXCEPT !.staging = Whole(op.version)]) /\ Works /\ Goto("unplug")
     \/ UNCHANGED disk /\ Fails /\ Goto("failed")
  /\ UNCHANGED <<tx, excused>>

\* removeRegistration.  A purge removes a plugin of no marketplace too, and goes on
\* to the files if the CLI fails or cannot be run.
PluginToRemove == IF op.kind = "purge" THEN host.plugin ELSE Installed(before.host)

\* A purge notes what it could not do; the others roll back.
Noted(fine) == tx' = [tx EXCEPT !.removed = before.host.market,
                                !.complete = fine \/ op.kind # "purge",
                                !.clean = fine \/ op.kind # "purge"]

Unplug ==
  /\ At("unplug")
  /\ \/ PluginToRemove = Nothing /\ Skip("unlist")
     \/ PluginToRemove # Nothing /\ HostStep(HostBecomes([host EXCEPT !.plugin = Nothing]), "unlist")
     \/ op.kind = "purge" /\ UNCHANGED disk /\ HostFails /\ Goto(Failure)
  /\ Noted(step' = "unlist")
  /\ UNCHANGED excused

AfterUnlist == IF op.kind = "purge" THEN "purge root" ELSE "aside"

\* A command that failed with effect is taken for one that did nothing.
Unlist ==
  /\ At("unlist")
  /\ IF before.host.market THEN HostStep(HostBecomes([host EXCEPT !.market = FALSE]), AfterUnlist)
                           ELSE Skip(AfterUnlist)
  /\ Noted(faults' = faults)
  /\ UNCHANGED excused

\* rename(root, backup)
Aside ==
  /\ At("aside")
  /\ LET s == IF op.kind = "remove" THEN "remove agent" ELSE "promote"
     IN  IF ~Exists(files.root) THEN Skip(s) /\ UNCHANGED tx
         ELSE /\ AtomicStep(FilesBecome([files EXCEPT !.root = NoTree, !.backup = files.root]), s)
              /\ tx' = [tx EXCEPT !.backed = files' # files]
  /\ UNCHANGED excused

\* Mutant: the old root is given up as soon as the new one is in place.
PromoteDropsBackup ==
  /\ At("promote")
  /\ AtomicStep(FilesBecome([root |-> files.staging, staging |-> NoTree, backup |-> NoTree]), "list")
  /\ tx' = [tx EXCEPT !.active = files' # files]
  /\ UNCHANGED excused

\* rename(staging, root)
Promote ==
  /\ At("promote")
  /\ AtomicStep(FilesBecome([files EXCEPT !.root = files.staging, !.staging = NoTree]), "list")
  /\ tx' = [tx EXCEPT !.active = files' # files]
  /\ UNCHANGED excused

\* addRegistration: the marketplace, then the plugin of the version in the root.
List ==
  /\ At("list")
  /\ HostStep(HostBecomes([host EXCEPT !.market = TRUE]), "plug")
  /\ UNCHANGED <<tx, excused>>

Plug ==
  /\ At("plug")
  /\ HostStep(HostBecomes([host EXCEPT !.plugin = files.root.version]), "record")
  /\ UNCHANGED <<tx, excused>>

Record ==
  /\ At("record")
  /\ AtomicStep(DesiredBecomes([desired EXCEPT !.installed = TRUE, !.version = op.version]), "commit")
  /\ excused' = (excused /\ step' # "commit")
  /\ UNCHANGED tx

\* The backup is removed; if that fails the update succeeded all the same.
Commit ==
  /\ At("commit")
  /\ \/ FilesBecome([files EXCEPT !.backup = NoTree]) /\ Works
     \/ \E t \in Rest(files.backup) : FilesBecome([files EXCEPT !.backup = t]) /\ Fails
  /\ Goto(IF op.kind = "scheduled" THEN "note check" ELSE "succeeded")
  /\ UNCHANGED <<tx, excused>>

\* A scheduled update writes when it checked; it fails if that fails.
NoteCheck ==
  /\ At("note check")
  /\ \/ Skip("succeeded")
     \/ UNCHANGED disk /\ Fails /\ Goto("failed")
  /\ UNCHANGED <<tx, excused>>

-----------------------------------------------------------------------------
(***************************************************************************)
(* rollbackInstallation.  Every step goes on to the next, failed or not.   *)
(***************************************************************************)
Unclean(s) == tx' = [tx EXCEPT !.clean = FALSE] /\ Goto(s)

\* removeRegistrationBestEffort: nothing to do, or not, if the CLI cannot say.
ForgetPlugin ==
  /\ At("forget plugin")
  /\ \/ ~host.market /\ Skip("discard") /\ UNCHANGED tx
     \/ host.market /\ HostBecomes([host EXCEPT !.plugin = Nothing]) /\ Works
        /\ Goto("forget market") /\ UNCHANGED tx
     \/ host.market /\ UNCHANGED disk /\ HostFails /\ (Unclean("discard") \/ Unclean("forget market"))
  /\ UNCHANGED excused

\* Mutant: only the plugin is taken back.
ForgetMarketNever == At("forget market") /\ Skip("discard") /\ UNCHANGED <<tx, excused>>

ForgetMarket ==
  /\ At("forget market")
  /\ \/ HostBecomes([host EXCEPT !.market = FALSE]) /\ Works /\ Goto("discard") /\ UNCHANGED tx
     \/ UNCHANGED disk /\ HostFails /\ Unclean("discard")
  /\ UNCHANGED excused

\* The new root is removed.
Discard ==
  /\ At("discard")
  /\ IF ~tx.active THEN Skip("restore") /\ UNCHANGED tx
     ELSE \/ FilesBecome([files EXCEPT !.root = NoTree]) /\ Works /\ Goto("restore") /\ UNCHANGED tx
          \/ /\ \E t \in Rest(files.root) : FilesBecome([files EXCEPT !.root = t])
             /\ Fails /\ Unclean("restore")
  /\ UNCHANGED excused

\* The old one comes back, unless something is still in its place.
Restore ==
  /\ At("restore")
  /\ \/ ~tx.backed /\ Skip("reregister") /\ UNCHANGED tx
     \/ tx.backed /\ ~Exists(files.root) /\ Works /\ Goto("reregister")
        /\ FilesBecome([files EXCEPT !.root = files.backup, !.backup = NoTree])
        /\ tx' = [tx EXCEPT !.restored = TRUE]
     \/ tx.backed /\ Exists(files.root) /\ UNCHANGED disk /\ Works /\ Unclean("reregister")
     \/ tx.backed /\ UNCHANGED disk /\ Fails /\ Unclean("reregister")
  /\ UNCHANGED excused

\* The registration that was there before, plugin and all.
Registered == [market |-> TRUE,
               plugin |-> IF Installed(before.host) = Nothing THEN host.plugin ELSE files.root.version]

\* Mutant: only a root that was moved is registered again.
ReregisterIfRestored ==
  /\ At("reregister")
  /\ IF ~(tx.removed /\ tx.restored) THEN Skip("clean up") /\ UNCHANGED tx
     ELSE HostBecomes(Registered) /\ Works /\ Goto("clean up") /\ UNCHANGED tx
  /\ UNCHANGED excused

Reregister ==
  /\ At("reregister")
  /\ IF ~(tx.removed /\ (tx.restored \/ ~tx.backed)) THEN Skip("clean up") /\ UNCHANGED tx
     ELSE \/ HostBecomes(Registered) /\ Works /\ Goto("clean up") /\ UNCHANGED tx
          \/ /\ \/ UNCHANGED disk
                \/ HostBecomes([host EXCEPT !.market = TRUE])
                \/ HostBecomes(Registered)
             /\ HostFails /\ Unclean("clean up")
  /\ UNCHANGED excused

\* cleanupInstallationTransaction
CleanUp ==
  /\ At("clean up")
  /\ \/ FilesBecome([files EXCEPT !.staging = NoTree]) /\ Works
     \/ \E t \in Rest(files.staging) : FilesBecome([files EXCEPT !.staging = t]) /\ Fails
  /\ Goto("failed")
  /\ UNCHANGED <<tx, excused>>

-----------------------------------------------------------------------------
(***************************************************************************)
(* Ordinary removal: unregister, move the root aside (as above), disable   *)
(* the updater, write the desired state, and only then delete the backup.  *)
(* Both ways of changing the LaunchAgent can stop half way.                *)
(***************************************************************************)
Disabled == agent' = "absent"
DisableFails == agent' \in {agent, IF agent = "absent" THEN "absent" ELSE "idle"}
Enabled == agent' = "loaded"
EnableFails == agent' \in {agent, IF agent = "absent" THEN "absent" ELSE "idle"}
Agent(change) == change /\ UNCHANGED <<files, residue, host, desired>>

RemoveAgent ==
  /\ At("remove agent")
  /\ \/ Agent(Disabled) /\ Works /\ Goto("remove record")
     \/ Agent(DisableFails) /\ Fails /\ Goto(Failure)
  /\ tx' = [tx EXCEPT !.touched = TRUE]
  /\ UNCHANGED excused

RemoveRecord ==
  /\ At("remove record")
  /\ AtomicStep(DesiredBecomes(NotInstalled), "remove files")
  /\ tx' = [tx EXCEPT !.written = step' = "remove files"]
  /\ UNCHANGED excused

\* Mutant: the marker is enough, as it is for the backup of an update.
RemoveFilesOwned ==
  /\ At("remove files")
  /\ FilesBecome([files EXCEPT !.backup = NoTree]) /\ Works /\ Goto("succeeded")
  /\ UNCHANGED <<tx, excused>>

\* validateRemovalCommit and commitRemoval: every file is checked again first.
RemoveFiles ==
  /\ At("remove files")
  /\ \/ ~tx.backed /\ Skip("succeeded")
     \/ tx.backed /\ Verified(files.backup) /\ Works /\ Goto("succeeded")
        /\ FilesBecome([files EXCEPT !.backup = NoTree])
     \/ tx.backed /\ ~Verified(files.backup) /\ UNCHANGED disk /\ Works /\ Goto(Failure)
     \/ /\ tx.backed /\ Verified(files.backup) /\ Fails /\ Goto(Failure)
        /\ \E t \in Rest(files.backup) : FilesBecome([files EXCEPT !.backup = t])
  /\ UNCHANGED <<tx, excused>>

(***************************************************************************)
(* rollbackRemoval, and the rest of runStandardRemove's catch block.       *)
(***************************************************************************)
\* The files come back if every one of them is still right.
RecoverFiles ==
  /\ At("recover files")
  /\ LET gone == tx.backed
         tree == IF gone THEN files.backup ELSE files.root
         was  == Exists(before.root)
     IN  \/ /\ ~was \/ (~gone /\ Verified(tree))
            /\ Skip("recover registration") /\ tx' = [tx EXCEPT !.restored = TRUE]
         \/ /\ was /\ gone /\ Verified(tree) /\ Works /\ Goto("recover registration")
            /\ FilesBecome([files EXCEPT !.root = tree, !.backup = NoTree])
            /\ tx' = [tx EXCEPT !.restored = TRUE, !.backed = FALSE]
         \/ /\ was /\ ~Verified(tree)
            /\ Skip("recover registration") /\ tx' = [tx EXCEPT !.complete = FALSE]
         \/ /\ was /\ UNCHANGED disk /\ Fails
            /\ Goto("recover registration") /\ tx' = [tx EXCEPT !.complete = FALSE]
  /\ UNCHANGED excused

RecoverRegistration ==
  /\ At("recover registration")
  /\ \/ ~tx.removed /\ Skip("recover agent") /\ UNCHANGED tx
     \/ tx.removed /\ tx.restored /\ HostBecomes(Registered) /\ Works
        /\ Goto("recover agent") /\ UNCHANGED tx
     \/ /\ tx.removed /\ tx.restored /\ HostFails
        /\ UNCHANGED disk \/ HostBecomes([host EXCEPT !.market = TRUE]) \/ HostBecomes(Registered)
        /\ Goto("recover agent") /\ tx' = [tx EXCEPT !.complete = FALSE]
     \/ tx.removed /\ ~tx.restored /\ Skip("recover agent") /\ tx' = [tx EXCEPT !.complete = FALSE]
  /\ UNCHANGED excused

\* What the desired state says of a host that was restored, or was not.
Recovered == IF ~tx.complete THEN NotInstalled
             ELSE [before.desired EXCEPT !.auto = @ /\ tx.agentOK]

\* The updater is reconciled if it was touched.
RecoverAgent ==
  /\ At("recover agent")
  /\ Goto("recover record")
  /\ IF ~tx.touched THEN Skip("recover record") /\ UNCHANGED tx
     ELSE IF Recovered.auto
     THEN \/ Agent(Enabled) /\ Works /\ UNCHANGED tx
          \/ Agent(EnableFails) /\ Fails /\ tx' = [tx EXCEPT !.agentOK = FALSE]
     ELSE \/ Agent(Disabled) /\ Works /\ UNCHANGED tx
          \/ Agent(DisableFails) /\ Fails /\ tx' = [tx EXCEPT !.agentOK = FALSE]
  /\ UNCHANGED excused

RecoverRecord ==
  /\ At("recover record")
  /\ Goto("failed")
  /\ LET clean == tx.complete /\ tx.agentOK
     IN  IF ~(tx.written \/ ~clean) THEN Skip("failed") /\ UNCHANGED tx
         ELSE \/ DesiredBecomes(Recovered) /\ Works /\ tx' = [tx EXCEPT !.clean = clean]
              \/ UNCHANGED disk /\ Fails /\ tx' = [tx EXCEPT !.clean = FALSE]
  /\ UNCHANGED excused

-----------------------------------------------------------------------------
(***************************************************************************)
(* Purge: unregister (as above), the root, the residue, the updater and    *)
(* the desired state.  Each part is tried whatever became of the others.   *)
(***************************************************************************)
\* removeOwnedManagedRoot.  A root that cannot be verified, or a backup that can
\* no longer be, is left where it is; an intact one goes back.
PurgeRoot ==
  /\ At("purge root")
  /\ Goto("purge residue")
  /\ \/ ~Exists(files.root) /\ Skip("purge residue") /\ UNCHANGED <<tx, excused>>
     \/ /\ Verified(files.root) /\ Works
        /\ FilesBecome([files EXCEPT !.root = NoTree])
        /\ excused' = TRUE /\ UNCHANGED tx
     \/ /\ Exists(files.root)
        /\ \/ ~Verified(files.root) /\ UNCHANGED disk /\ Works
           \/ UNCHANGED disk /\ Fails
           \/ /\ Verified(files.root) /\ Fails
              /\ \E t \in Rest(files.root) :
                   FilesBecome([files EXCEPT !.root = NoTree, !.backup = t])
        /\ excused' = TRUE
        /\ tx' = [tx EXCEPT !.complete = FALSE, !.clean = FALSE]

\* Mutant: residue that cannot be verified is passed over.
PurgeResidueLenient ==
  /\ At("purge residue")
  /\ residue' = {t \in residue : ~Verified(t)}
  /\ files' = [files EXCEPT !.backup = NoTree]
  /\ UNCHANGED <<host, desired, agent, tx>> /\ Works /\ Goto("purge agent")
  /\ excused' = TRUE

\* cleanupTransientRootResidue stops at the first tree it cannot verify or remove.
PurgeResidue ==
  /\ At("purge residue")
  /\ excused' = (excused \/ residue # {})
  /\ LET left == (residue \cup {files.backup}) \ {NoTree}
         good == {t \in left : Verified(t)}
     IN  /\ files' = [files EXCEPT !.backup = NoTree]
         /\ \/ /\ good = left
               /\ residue' = {} /\ Works /\ UNCHANGED tx
            \/ /\ good # left /\ Works
               /\ \E r \in SUBSET good : residue' = left \ r
               /\ tx' = [tx EXCEPT !.clean = FALSE]
            \/ /\ good # {} /\ Fails
               /\ \E r \in SUBSET good : \E t \in good : \E u \in Rest(t) :
                    residue' = ((left \ (r \cup {t})) \cup {u}) \ {NoTree}
               /\ tx' = [tx EXCEPT !.clean = FALSE]
  /\ UNCHANGED <<host, desired, agent>>
  /\ Goto("purge agent")

\* updatePurgeDesiredState: a host that is not wholly deactivated stays installed.
PurgeAgent ==
  /\ At("purge agent")
  /\ \/ ~tx.complete /\ Skip("purged") /\ UNCHANGED tx
     \/ tx.complete /\ Agent(Disabled) /\ Works /\ Goto("purge record") /\ UNCHANGED tx
     \/ tx.complete /\ Agent(DisableFails) /\ Fails /\ Unclean("purged")
  /\ UNCHANGED excused

PurgeRecord ==
  /\ At("purge record")
  /\ Goto("purged")
  /\ \/ DesiredBecomes(NotInstalled) /\ Works /\ UNCHANGED tx
     \/ UNCHANGED disk /\ Fails /\ tx' = [tx EXCEPT !.clean = FALSE]
  /\ UNCHANGED excused

\* "purge remains pending or failed for one or more components"
PurgeEnds ==
  /\ At("purged")
  /\ Skip(IF tx.clean THEN "succeeded" ELSE "failed")
  /\ UNCHANGED <<tx, excused>>

-----------------------------------------------------------------------------
(***************************************************************************)
(* The automatic updater is switched on and off.  (Its runs are updates.)  *)
(***************************************************************************)
EnableRecord ==
  /\ At("enable record")
  /\ AtomicStep(DesiredBecomes([installed |-> TRUE, auto |-> TRUE,
                                version |-> IF desired.version = Nothing THEN Installed(before.host)
                                            ELSE desired.version]), "enable agent")
  /\ excused' = (excused \/ (desired.version = Nothing /\ hostFailed /\ step' = "enable agent"))
  /\ UNCHANGED tx

EnableAgent ==
  /\ At("enable agent")
  /\ \/ Agent(Enabled) /\ Works /\ Goto("succeeded")
     \/ Agent(EnableFails) /\ Fails /\ Goto("enable undo")
  /\ UNCHANGED <<tx, excused>>

EnableUndo ==
  /\ At("enable undo")
  /\ \/ DesiredBecomes(before.desired) /\ Works /\ UNCHANGED tx
     \/ UNCHANGED disk /\ Fails /\ tx' = [tx EXCEPT !.clean = FALSE]
  /\ Goto("failed")
  /\ UNCHANGED excused

DisableAgent ==
  /\ At("disable agent")
  /\ \/ Agent(Disabled) /\ Works /\ Goto("disable record")
     \/ Agent(DisableFails) /\ Fails /\ Goto("failed")
  /\ UNCHANGED <<tx, excused>>

DisableRecord ==
  /\ At("disable record")
  /\ AtomicStep(DesiredBecomes([desired EXCEPT !.auto = FALSE]), "succeeded")
  /\ UNCHANGED <<tx, excused>>

-----------------------------------------------------------------------------
(***************************************************************************)
(* The installer is killed: between two steps, or in the middle of copying *)
(* or deleting a tree, or of changing the LaunchAgent.                     *)
(***************************************************************************)
Enabling == step = "enable agent" \/ (step = "recover agent" /\ tx.touched /\ Recovered.auto)
Scheduling == Enabling \/ (agent # "absent" /\ step \in {"remove agent", "recover agent", "purge agent",
                                                          "disable agent"})

\* What is left in the root and beside it.
Left(root, trees) ==
  /\ files' = [root |-> root, staging |-> NoTree, backup |-> NoTree]
  /\ residue' = (residue \cup trees) \ {NoTree}

HalfDone ==
  \/ /\ step = "stage"
     /\ \E k \in {"whole", "broken", "bare"} : Left(files.root, {[version |-> op.version, kind |-> k]})
  \/ /\ step = "discard" /\ tx.active
     /\ \E t \in Rest(files.root) : Left(t, {files.staging, files.backup})
  \/ /\ step = "commit" \/ (step = "remove files" /\ Verified(files.backup))
     /\ \E t \in Rest(files.backup) : Left(files.root, {t})
  \/ /\ step = "purge root" /\ Verified(files.root)
     /\ \E t \in Rest(files.root) : Left(NoTree, {t})
  \/ /\ step = "purge residue"
     /\ \E t \in residue \cup {files.backup} : \E u \in Rest(t) :
          /\ Verified(t)
          /\ files' = [files EXCEPT !.backup = NoTree]
          /\ residue' = (((residue \cup {files.backup}) \ {t}) \cup {u}) \ {NoTree}

Crash ==
  /\ step \notin {"idle", "done"}
  /\ Fails
  /\ Goto("idle") /\ op' = NoOp /\ before' = NotBegun /\ tx' = NoTx
  /\ HalfDone \/ Left(files.root, {files.staging, files.backup})
  /\ agent' \in {agent} \cup (IF Scheduling THEN {"idle"} ELSE {})
  /\ excused' = (excused \/ step \in {"purge root", "purge residue"})
  /\ UNCHANGED <<host, desired, drifts, ops>>

\* The user puts a file of his own into the managed directory.
Drift ==
  /\ drifts < MaxDrift
  /\ files.root.kind = "whole"
  /\ drifts' = drifts + 1
  /\ files' = [files EXCEPT !.root.kind = "altered"]
  /\ UNCHANGED <<residue, host, desired, agent, step, op, before, tx, excused, hostFailed, faults, ops>>

Install == Stage \/ Promote \/ List \/ Plug \/ Record \/ Commit \/ NoteCheck
Rollback == ForgetPlugin \/ ForgetMarket \/ Discard \/ Restore \/ Reregister \/ CleanUp
Remove == RemoveAgent \/ RemoveRecord \/ RemoveFiles
Recover == RecoverFiles \/ RecoverRegistration \/ RecoverAgent \/ RecoverRecord
Purge == PurgeRoot \/ PurgeResidue \/ PurgeAgent \/ PurgeRecord \/ PurgeEnds
AutoUpdate == EnableRecord \/ EnableAgent \/ EnableUndo \/ DisableAgent \/ DisableRecord

Next ==
  \/ \E k \in Kinds, v \in Versions : Begin(k, v)
  \/ Preflight \/ Unplug \/ Unlist \/ Aside
  \/ Install \/ Rollback \/ Remove \/ Recover \/ Purge \/ AutoUpdate
  \/ End \/ Return \/ Crash \/ Drift

Spec == Init /\ [][Next]_vars

-----------------------------------------------------------------------------
(***************************************************************************)
(* Properties.                                                             *)
(***************************************************************************)
Beside == residue \cup {files.root, files.staging, files.backup}

\* Types; the desired state is one normalizeDesiredState accepts; between operations
\* nothing is staged or backed up.
TypeOK ==
  /\ files \in [root : Trees, staging : Trees, backup : Trees]
  /\ residue \subseteq Trees \ {NoTree}
  /\ host \in [market : BOOLEAN, plugin : Versions \cup {Nothing}]
  /\ desired \in [installed : BOOLEAN, version : Versions \cup {Nothing}, auto : BOOLEAN]
  /\ desired.auto => desired.installed
  /\ ~desired.installed <=> desired.version = Nothing
  /\ agent \in {"absent", "idle", "loaded"}
  /\ step \in {"idle", "done"} => files.staging = NoTree /\ files.backup = NoTree
  /\ faults \in 0..MaxFaults /\ drifts \in 0..MaxDrift /\ ops \in 0..MaxOps

\* "A failed restoration preserves recovery bytes" (docs/advanced-usage.md): unless
\* a purge has been deleting them, the files of the version that is recorded as
\* installed are all there, in the root or beside it, whatever failed or was killed.
\* (Enabling the updater records the version the host's CLI tells of; if a command of
\* the CLI has failed that may be one whose rollback was half done.)
DesiredHasFiles ==
  desired.installed /\ ~excused =>
    \E t \in Beside : t.version = desired.version /\ t.kind \in {"whole", "altered"}

\* What an operation that reports success has brought about, in every part at once.
\* (A scheduled run that finds the version current does not look at the files.)
InstallDone == /\ tx.active \/ ~hostFailed =>
                    files.root.version = op.version /\ files.root.kind \in {"whole", "altered"}
               /\ host = [market |-> TRUE, plugin |-> op.version]
               /\ desired.installed /\ desired.version = op.version
RemoveDone == ~Exists(files.root) /\ Installed(host) = Nothing /\ desired = NotInstalled /\ agent = "absent"
PurgeDone == RemoveDone /\ residue = {} /\ host = NoHost
SuccessMeans ==
  step = "done" /\ op.ok =>
    CASE op.kind \in Installs -> InstallDone
      [] op.kind = "remove"   -> RemoveDone
      [] op.kind = "purge"    -> PurgeDone
      [] op.kind = "enable"   -> desired.auto /\ agent = "loaded"
      [] OTHER                -> ~desired.auto /\ agent = "absent"

\* "Activation is transactional" (docs/advanced-usage.md): an install, an update or
\* a removal that fails leaves the root, the registration, the desired state and the
\* updater as they were, unless a step of its recovery failed too.  A scheduled update
\* that cannot note its check fails with everything done.
AsBefore ==
  /\ files.root.version = before.root.version
  /\ host.market = before.host.market
  /\ Installed(host) = Nothing <=> Installed(before.host) = Nothing
  /\ desired = before.desired
  /\ desired.auto /\ before.agent = "loaded" => agent = "loaded"
FailureRestores ==
  step = "done" /\ ~op.ok /\ tx.clean /\ op.kind \in Installs \cup {"remove"} =>
    AsBefore \/ (op.kind = "scheduled" /\ InstallDone)

\* As long as no command of the host's CLI failed, the host never has a marketplace
\* whose directory is gone: every later install, update and removal would refuse it.
RegisteredRootExists == host.market /\ ~hostFailed => Exists(files.root)

\* Removal and purge never delete a tree with a file in it that is not theirs.
Altered == \E t \in Beside : t.kind = "altered"
UserFileKept == [][op.kind \in {"remove", "purge"} /\ Altered => Altered']_vars
=============================================================================

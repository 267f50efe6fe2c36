----------------------------- MODULE NativeHost -----------------------------
(***************************************************************************)
(* Claude (installer/managed-hosts.mjs, native...): one managed root with  *)
(* its marker, and a registration that only the host's CLI can change: the *)
(* marketplace, which names the root, and the plugin installed from it.    *)
(*                                                                         *)
(* The CLI is external.  Its commands do what they say, fail, or fail      *)
(* after they have done it (a timeout); what adds a marketplace that is    *)
(* there, or needs one that is not, fails.                                 *)
(***************************************************************************)
EXTENDS ManagedHost

VARIABLE cli \* what the CLI would list

NoPlugin == [v |-> Nothing, on |-> FALSE]
Unregistered == [market |-> FALSE, plugin |-> NoPlugin]
Root == "root"
Here(t) == [x \in {Root} |-> t]
root == place[Root]

NoChange == [touched |-> FALSE, moved |-> FALSE, active |-> FALSE, committed |-> FALSE,
             broken |-> FALSE]

Init ==
  /\ place = Here(NoTree) /\ backup = Here(NoTree) /\ lock = FALSE
  /\ step = "idle" /\ op = NoOp /\ prior = NotOwned
  /\ before = [place |-> Here(NoTree), cli |-> Unregistered]
  /\ tx = NoChange /\ outcome = "none" /\ lost = {}
  /\ ops = 0 /\ faults = 0 /\ edits = 0
  /\ cli = Unregistered

Start == Begin([place |-> place, cli |-> cli], NoChange) /\ UNCHANGED cli

still == <<ops, edits>>
held == <<op, prior, before, outcome, lock>>

\* nativeOwned passes: a whole tree, or nothing at all.
Owned == Whole(root)
Absent == ~Exists(root)
MarkerSays == IF Owned THEN [v |-> root.v, on |-> root.on] ELSE NotOwned

\* nativeState: a plugin without its marketplace is somebody else's.
StateKnown == cli.plugin # NoPlugin => cli.market

Fails == Goto("undo registration") /\ UNCHANGED <<place, backup, tx, cli>>

\* One command: it works, fails, or fails after it worked.
Command(able, effect, next) ==
  \/ able /\ Works /\ cli' = effect /\ Goto(next)
  \/ /\ IF able THEN Fault ELSE Works
     /\ cli' \in IF able THEN {cli, effect} ELSE {cli}
     /\ Goto("undo registration")

Uninstalled == [cli EXCEPT !.plugin = NoPlugin]
Removed == [cli EXCEPT !.market = FALSE]
Added == [cli EXCEPT !.market = TRUE]
Installed == [cli EXCEPT !.plugin = [v |-> root.v, on |-> TRUE]]
Switched(on) == [cli EXCEPT !.plugin.on = on]

-----------------------------------------------------------------------------
(* nativeInstall and nativeAction *)

Toggles == op.kind \in {"enable", "disable"}

\* The enabled state an installation keeps: the CLI's, or else the marker's.
Check ==
  /\ At("check") /\ Works
  /\ prior' = IF cli.plugin # NoPlugin /\ MarkerSays # NotOwned
              THEN [MarkerSays EXCEPT !.on = cli.plugin.on] ELSE MarkerSays
  /\ IF ~(Owned \/ Absent) \/ ~StateKnown \/ (cli.market /\ Absent)
     THEN outcome' = "failed" /\ Goto("leave")
     ELSE IF op.kind = "install" THEN Goto("stage") /\ UNCHANGED outcome
     ELSE IF Absent THEN outcome' = "missing" /\ Goto("leave")
     ELSE IF op.kind = "remove" THEN Goto("uninstall") /\ UNCHANGED outcome
     ELSE IF cli.plugin = NoPlugin THEN outcome' = "failed" /\ Goto("leave")
     ELSE Goto("switch") /\ UNCHANGED outcome
  /\ UNCHANGED <<place, backup, lock, op, before, tx, lost, cli, still>>

Stage ==
  /\ At("stage")
  /\ \/ Works /\ Goto("recheck") /\ UNCHANGED <<place, backup, tx, cli>>
     \/ Fault /\ Fails
  /\ UNCHANGED <<lost, held, still>>

\* Again, immediately before anything is changed.
Recheck ==
  /\ At("recheck") /\ Works
  /\ IF (IF prior = NotOwned THEN Absent ELSE Owned)
     THEN Goto("uninstall") /\ tx' = [tx EXCEPT !.touched = TRUE]
     ELSE Goto("undo registration") /\ UNCHANGED tx
  /\ UNCHANGED <<place, backup, cli, lost, held, still>>

\* unregisterNative: what nativeState had found.
Uninstall ==
  /\ At("uninstall")
  /\ IF before.cli.plugin # NoPlugin THEN Command(TRUE, Uninstalled, "unmarket")
     ELSE Works /\ Goto("unmarket") /\ UNCHANGED cli
  /\ UNCHANGED <<place, backup, tx, lost, held, still>>

Unmarket ==
  /\ At("unmarket")
  /\ IF before.cli.market THEN Command(TRUE, Removed, "move")
     ELSE Works /\ Goto("move") /\ UNCHANGED cli
  /\ UNCHANGED <<place, backup, tx, lost, held, still>>

\* The old root becomes the backup.  A removal looks at it once more before, and
\* compares it after.
Move ==
  /\ At("move")
  /\ \/ /\ prior # NotOwned /\ (op.kind = "remove" => Owned) /\ Works
        /\ place' = Here(NoTree) /\ backup' = place /\ tx' = [tx EXCEPT !.moved = TRUE]
        /\ Goto(IF op.kind = "remove" THEN "confirm" ELSE "activate")
     \/ /\ prior = NotOwned /\ Works
        /\ Goto("activate") /\ UNCHANGED <<place, backup, tx>>
     \/ /\ prior # NotOwned /\ (IF op.kind = "remove" /\ ~Owned THEN Works ELSE Fault)
        /\ Goto("undo registration") /\ UNCHANGED <<place, backup, tx>>
  /\ UNCHANGED <<cli, lost, held, still>>

\* No renaming replaces a directory that the user has made there.
Activate ==
  /\ At("activate")
  /\ \/ /\ Absent /\ Works
        /\ place' = Here(Tree(Aim.v, Aim.on)) /\ tx' = [tx EXCEPT !.active = TRUE]
        /\ Goto("market") /\ UNCHANGED <<backup, cli>>
     \/ (IF Absent THEN Fault ELSE Works) /\ Fails
  /\ UNCHANGED <<lost, held, still>>

\* registerNative
Market ==
  /\ At("market") /\ Command(~cli.market, Added, "install")
  /\ UNCHANGED <<place, backup, tx, lost, held, still>>
Install ==
  /\ At("install") /\ Command(cli.market, Installed, IF Aim.on THEN "confirm" ELSE "turn off")
  /\ UNCHANGED <<place, backup, tx, lost, held, still>>
TurnOff ==
  /\ At("turn off") /\ Command(cli.plugin # NoPlugin, Switched(FALSE), "confirm")
  /\ UNCHANGED <<place, backup, tx, lost, held, still>>

\* The CLI confirms, root and backup are as they should be.
BackupUnchanged == tx.moved => Whole(backup[Root])
Confirmed == /\ op.kind = "install" => Owned /\ cli.market /\ cli.plugin = Aim
             /\ BackupUnchanged
Confirm ==
  /\ At("confirm")
  /\ \/ /\ Confirmed /\ Works /\ UNCHANGED <<place, backup, cli>>
        /\ Goto(IF tx.moved THEN "drop" ELSE "clean") /\ tx' = [tx EXCEPT !.committed = TRUE]
     \/ (IF Confirmed THEN Fault ELSE Works) /\ Fails
  /\ UNCHANGED <<lost, held, still>>

\* The backup is removed, one file after the other; when that fails what is left of it
\* is rolled back to.
Drop ==
  /\ At("drop")
  /\ \/ /\ Works /\ Goto("clean") /\ Deleted({backup[Root]})
        /\ backup' = Here(NoTree) /\ tx' = [tx EXCEPT !.moved = FALSE]
     \/ /\ Works /\ UNCHANGED <<step, tx>> /\ Deleted({backup[Root]})
        /\ backup' = Here(Begun(backup[Root]))
     \/ Fault /\ Goto("undo registration") /\ UNCHANGED <<backup, tx, lost>>
  /\ UNCHANGED <<place, cli, held, still>>

\* An installation's scratch directory, empty by now.
Clean ==
  /\ At("clean")
  /\ \/ Works /\ End(IF op.kind = "remove" THEN "missing" ELSE "ok")
     \/ op.kind = "install" /\ Fault /\ End("masked")
  /\ UNCHANGED <<place, tx, cli, lost, still>>

\* enable and disable: the CLI first; when it has confirmed, a new marker is written
\* beside the old one and renamed over it.
Switch ==
  /\ At("switch") /\ Command(TRUE, Switched(Aim.on), "mark")
  /\ UNCHANGED <<place, backup, tx, lost, held, still>>
Mark ==
  /\ At("mark")
  /\ \/ /\ Owned /\ Works /\ Goto("rename")
        /\ place' = [place EXCEPT ![Root].files = "more"] /\ UNCHANGED <<backup, tx, cli>>
     \/ (IF Owned THEN Fault ELSE Works) /\ Fails
  /\ UNCHANGED <<lost, held, still>>
Rename ==
  /\ At("rename")
  /\ \/ /\ Works /\ End("ok") /\ tx' = [tx EXCEPT !.committed = TRUE]
        /\ place' = [place EXCEPT ![Root].on = Aim.on, ![Root].files = "whole"]
     \/ /\ Fault /\ Goto("undo registration") /\ UNCHANGED <<backup, tx, held>>
        /\ \E rest \in {"whole", "more"} : place' = [place EXCEPT ![Root].files = rest]
  /\ UNCHANGED <<cli, lost, still>>

-----------------------------------------------------------------------------
(* The rollbacks.  Each part is tried, whatever became of the one before;  *)
(* one that fails makes the outcome incomplete.                            *)

Broken == tx' = [tx EXCEPT !.broken = TRUE]
Try(able, effect, next) ==
  \/ able /\ Works /\ cli' = effect /\ Goto(next) /\ UNCHANGED tx
  \/ /\ IF able THEN Fault ELSE Works
     /\ cli' \in IF able THEN {cli, effect} ELSE {cli}
     /\ Broken /\ Goto("end")

\* An installation unregisters whatever is there now; enable and disable switch back.
UndoRegistration ==
  /\ At("undo registration")
  /\ IF Toggles
     THEN Try(cli.plugin # NoPlugin, Switched(before.cli.plugin.on), "end")
     ELSE IF op.kind = "install" /\ tx.touched
     THEN \/ /\ Works /\ cli' = Unregistered /\ Goto("undo files") /\ UNCHANGED tx
          \/ /\ Fault /\ cli' \in {cli, Uninstalled, Unregistered} /\ Broken
             /\ Goto("undo files")
     ELSE Works /\ Goto("undo files") /\ UNCHANGED <<cli, tx>>
  /\ UNCHANGED <<place, backup, lost, held, still>>

UndoFiles ==
  /\ At("undo files") /\ Works
  /\ IF ~tx.active THEN Goto("put back") /\ UNCHANGED tx
     ELSE IF Owned THEN Goto("discard") /\ UNCHANGED tx
     ELSE Broken /\ Goto("end")
  /\ UNCHANGED <<place, backup, cli, lost, held, still>>

Discard ==
  /\ At("discard")
  /\ \/ /\ Works /\ Goto("put back") /\ UNCHANGED tx
        /\ Deleted({root}) /\ place' = Here(NoTree)
     \/ /\ Works /\ UNCHANGED <<step, tx>>
        /\ Deleted({root}) /\ place' = Here(Begun(root))
     \/ Fault /\ Broken /\ Goto("end") /\ UNCHANGED <<place, lost>>
  /\ UNCHANGED <<backup, cli, held, still>>

PutBack ==
  /\ At("put back")
  /\ IF ~tx.moved THEN Works /\ Goto("add back") /\ UNCHANGED <<place, backup, tx>>
     ELSE \/ /\ Absent /\ Works /\ Goto("add back")
             /\ place' = backup /\ backup' = Here(NoTree) /\ tx' = [tx EXCEPT !.moved = FALSE]
          \/ /\ (IF Absent THEN Fault ELSE Works)
             /\ Broken /\ Goto("end") /\ UNCHANGED <<place, backup>>
  /\ UNCHANGED <<cli, lost, held, still>>

Registers == before.cli.market /\ (op.kind = "remove" \/ tx.touched)
AddBack ==
  /\ At("add back")
  /\ IF Registers THEN Try(~cli.market, Added, "install back")
     ELSE Works /\ Goto("end") /\ UNCHANGED <<cli, tx>>
  /\ UNCHANGED <<place, backup, lost, held, still>>
InstallBack ==
  /\ At("install back")
  /\ IF before.cli.plugin = NoPlugin THEN Works /\ Goto("end") /\ UNCHANGED <<cli, tx>>
     ELSE Try(Exists(root), Installed, IF before.cli.plugin.on THEN "end" ELSE "off again")
  /\ UNCHANGED <<place, backup, lost, held, still>>
OffAgain ==
  /\ At("off again") /\ Try(TRUE, Switched(FALSE), "end")
  /\ UNCHANGED <<place, backup, lost, held, still>>

\* An installation removes its scratch directory unless the old root is still in it.
\* When that fails, its error takes the place of any other.
RolledBack ==
  /\ At("end")
  /\ \/ Works /\ End(IF tx.broken THEN "incomplete" ELSE "failed")
     \/ op.kind = "install" /\ ~tx.moved /\ Fault /\ End("masked")
  /\ UNCHANGED <<place, tx, cli, lost, still>>

\* In the root, between the recheck of an installation and the move, an edit is found
\* in the backup; in the backup, after the confirmation, and in the new root, while it
\* is removed again, by nobody.
UserEdits == Edit(IF At("discard") THEN {Root} ELSE {}, At("drop")) /\ UNCHANGED cli

\* The user enables or disables the plugin himself, or removes the marketplace: the
\* marker does not learn of it, and what the last operation left is no longer there.
UserSwitches ==
  /\ ~Working /\ edits < MaxEdits /\ edits' = edits + 1
  /\ cli.plugin # NoPlugin /\ cli' \in {Switched(~cli.plugin.on), Removed}
  /\ outcome' = "none"
  /\ UNCHANGED <<place, backup, lock, step, op, prior, before, tx, lost, ops, faults>>

Next ==
  \/ Start \/ Check \/ Stage \/ Recheck \/ Uninstall \/ Unmarket \/ Move \/ Activate
  \/ Market \/ Install \/ TurnOff \/ Confirm \/ Drop \/ Clean \/ Switch \/ Mark \/ Rename
  \/ UndoRegistration \/ UndoFiles \/ Discard \/ PutBack \/ AddBack \/ InstallBack \/ OffAgain
  \/ RolledBack \/ (Leave /\ UNCHANGED cli)
  \/ (Kill /\ UNCHANGED cli) \/ (ClearLock /\ UNCHANGED cli)
  \/ UserEdits \/ UserSwitches

vars == <<managed, cli>>
Spec == Init /\ [][Next]_vars

-----------------------------------------------------------------------------
\* An operation that fails, whatever error it reports, has left files, registration and
\* enabled state as it found them ("failed native update restores prior files,
\* registration and disabled state"), unless the rollback was incomplete or the change
\* was already committed: then it may have failed while it was removing the backup,
\* which it restores as far as it is left.  A plugin that was not of the root's version,
\* as an incomplete rollback may leave it, becomes so.
FailureRestores ==
  (outcome = "failed" \/ (outcome = "masked" /\ ~tx.broken)) /\ ~tx.committed =>
    /\ Same(root, before.place[Root])
    /\ cli.market = before.cli.market /\ cli.plugin.on = before.cli.plugin.on
    /\ cli.plugin.v \in {before.cli.plugin.v} \cup
                       (IF before.cli.plugin = NoPlugin THEN {} ELSE {root.v})

\* One that succeeded did what it was asked for, in the root and in the registration: an
\* installation installed its version and kept the enabled state it found; enable and
\* disable changed nothing but that, and look at no version; a removal left nothing.
SuccessMeans ==
  /\ outcome = "ok" /\ op.kind = "install" =>
       /\ root.v = op.v /\ cli.market /\ cli.plugin = [v |-> op.v, on |-> root.on]
       /\ root.on = IF before.cli.plugin # NoPlugin THEN before.cli.plugin.on
                    ELSE before.place[Root].v # Nothing => before.place[Root].on
  /\ outcome = "ok" /\ op.kind \in {"enable", "disable"} =>
       /\ root.v = before.place[Root].v /\ cli.plugin.v = before.cli.plugin.v
       /\ cli.plugin.on = (op.kind = "enable") /\ root.on = (op.kind = "enable")
  /\ outcome = "missing" => root.v = Nothing /\ cli = Unregistered
=============================================================================

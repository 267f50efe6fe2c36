---------------------------- MODULE ManagedHost ----------------------------
(***************************************************************************)
(* What the two managed hosts have in common (installer/managed-hosts.mjs):*)
(* an operation takes the host's lock, checks what is installed against    *)
(* its marker, prepares trees in a scratch directory and swaps them in     *)
(* against backups.  Any step may fail and the installer may be killed at  *)
(* any time, while the user edits files where he likes.  ModularHost and   *)
(* NativeHost add the steps.                                               *)
(*                                                                         *)
(* The lock file is never judged stale: after a kill every operation is    *)
(* refused until the user removes it.  Packages are verified before the    *)
(* lock is taken and arrive whole.                                         *)
(***************************************************************************)
EXTENDS Naturals

CONSTANTS
  Versions,  \* of the packages
  Nothing,   \* no version
  MaxOps,    \* bound on operations
  MaxFaults, \* bound on failures and kills
  MaxEdits   \* bound on the user's edits

VARIABLES
  place,   \* for each target, what is there
  backup,  \* in the scratch directory of the last operation: what was there
  lock,    \* is there a lock file?
  step, op,
  prior,   \* what the marker said: version and enabled, or nothing
  before,  \* what the operation found (history)
  tx,      \* the transaction's flags
  outcome, \* of the last operation
  lost,    \* what it deleted or overwrote: pairs of a way and a tree (history)
  ops, faults, edits

managed == <<place, backup, lock, step, op, prior, before, tx, outcome, lost, ops, faults, edits>>

(***************************************************************************)
(* A tree is the files of a version, with the enabled flag of its marker.  *)
(* A removal that is cut short leaves a part of it, a rewriting of the     *)
(* marker that is cut short leaves a file more.  The user may have edited  *)
(* it: at a time when a check will find it, or too late for every check.   *)
(* What he saves where nothing is has no version.                          *)
(***************************************************************************)
NoTree == [v |-> Nothing, on |-> FALSE, files |-> "whole", edit |-> "none"]
Tree(v, on) == [v |-> v, on |-> on, files |-> "whole", edit |-> "none"]
Exists(t) == t # NoTree
Whole(t) == t.v # Nothing /\ t.files = "whole" /\ t.edit = "none"
Trees == [v : Versions \cup {Nothing}, on : BOOLEAN, files : {"whole", "part", "more"},
          edit : {"none", "found", "late"}]

\* The files of u, whatever the user did to them, and as many of them.
Same(t, u) == t.v = u.v /\ t.on = u.on /\ (t.files = "part" => u.files = "part")

NotOwned == [v |-> Nothing, on |-> FALSE]
NoOp == [kind |-> "none", v |-> Nothing]
Operations == [kind : {"install"}, v : Versions]
                \cup [kind : {"enable", "disable", "remove"}, v : {Nothing}]

At(s) == step = s
Goto(s) == step' = s
Working == step # "idle"
Works == UNCHANGED faults
Fault == faults < MaxFaults /\ faults' = faults + 1

\* Mutant: an update enables what was disabled.
AimEnabled ==
  CASE op.kind = "install" -> [v |-> op.v, on |-> TRUE]
    [] op.kind = "remove" -> NotOwned
    [] OTHER -> [v |-> prior.v, on |-> op.kind = "enable"]

\* What the operation is to put in place: an update keeps the enabled state.
Aim ==
  CASE op.kind = "install" -> [v |-> op.v, on |-> prior = NotOwned \/ prior.on]
    [] op.kind = "remove" -> NotOwned
    [] OTHER -> [v |-> prior.v, on |-> op.kind = "enable"]

-----------------------------------------------------------------------------
(* withLock *)

Emptied == backup' = [t \in DOMAIN backup |-> NoTree]

\* A new operation has a scratch directory of its own: nobody touches that of an
\* earlier one any more.
Begin(found, flags) ==
  /\ ~Working /\ ops < MaxOps
  /\ ops' = ops + 1
  /\ \E o \in Operations :
       IF lock THEN /\ outcome' = "locked"
                    /\ UNCHANGED <<backup, lock, step, op, prior, before, tx, lost>>
       ELSE /\ lock' = TRUE /\ Goto("check") /\ op' = o /\ outcome' = "running"
            /\ prior' = NotOwned /\ before' = found /\ tx' = flags /\ Emptied /\ lost' = {}
  /\ UNCHANGED <<place, faults, edits>>

\* Mutant: the scratch directory is removed however the operation ends.
EndClean(result) ==
  /\ Goto("leave") /\ outcome' = result
  /\ Emptied /\ UNCHANGED <<lock, op, prior, before>>

\* The operation is over, with the lock still to be removed.  Its result is "masked" if
\* a cleaning up that failed has replaced it by an error of its own.
End(result) ==
  /\ Goto("leave") /\ outcome' = result
  /\ UNCHANGED <<backup, lock, op, prior, before>>

\* The lock goes.  When that fails the lock stays, and this error is what is reported.
Leave ==
  /\ At("leave") /\ Goto("idle")
  /\ \/ Works /\ lock' = FALSE /\ UNCHANGED outcome
     \/ Fault /\ outcome' = "masked" /\ UNCHANGED lock
  /\ UNCHANGED <<place, backup, op, prior, before, tx, lost, ops, edits>>

\* The installer dies: everything stays as it is, the lock too.
Kill ==
  /\ Working /\ Fault
  /\ Goto("idle") /\ outcome' = "killed"
  /\ UNCHANGED <<place, backup, lock, op, prior, before, tx, lost, ops, edits>>

\* The user removes the lock that an installer has left.
ClearLock ==
  /\ ~Working /\ lock
  /\ lock' = FALSE
  /\ UNCHANGED <<place, backup, step, op, prior, before, tx, outcome, lost, ops, faults, edits>>

\* What is deleted, or beginning to be, and what a renaming overwrites.  A removal that
\* has begun has left a part of the tree, and may fail or be cut short there.
Deleted(trees) == lost' = lost \cup {<<"deleted", t>> : t \in trees}
Overwritten(t) == lost' = lost \cup ({<<"overwritten", t>>} \ {<<"overwritten", NoTree>>})
Begun(t) == [t EXCEPT !.files = "part"]

-----------------------------------------------------------------------------
(* The user saves a file: in a target, where there may be nothing at all,  *)
(* or in a backup.  In unguarded targets, or in an unguarded backup, no    *)
(* check will look at it again before it is deleted.                       *)

Edited(t, late) == [t EXCEPT !.edit = IF late /\ @ # "found" THEN "late" ELSE "found"]
Edit(unguardedTargets, unguardedBackup) ==
  /\ edits < MaxEdits /\ edits' = edits + 1
  /\ \E t \in DOMAIN place :
       \/ /\ place' = [place EXCEPT ![t] = Edited(@, t \in unguardedTargets)]
          /\ UNCHANGED backup
       \/ /\ Exists(backup[t])
          /\ backup' = [backup EXCEPT ![t] = Edited(@, unguardedBackup)]
          /\ UNCHANGED place
  /\ UNCHANGED <<lock, step, op, prior, before, tx, outcome, lost, ops, faults>>

-----------------------------------------------------------------------------
(* Properties of both. *)

\* What was installed in each target is there, or in the scratch directory, as many of
\* its files as there were: a failure or a kill between two renames destroys nothing,
\* until the change is committed and the removal of the backups may begin.
PreimageHeld ==
  ~tx.committed =>
    \A t \in DOMAIN place : before.place[t].v # Nothing =>
      Same(place[t], before.place[t]) \/ Same(backup[t], before.place[t])

\* A tree with an edit that a check could still find is never deleted; and nothing with
\* such an edit is overwritten, but for a file that the user has saved where a rule was
\* taken away: the rule, being one file, is put back over it by a renaming, also when a
\* check has just found it.
EditsHeld == \A x \in lost : x[2].edit = "found" => x[1] = "overwritten" /\ x[2].v = Nothing
=============================================================================

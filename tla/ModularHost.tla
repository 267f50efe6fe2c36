---------------------------- MODULE ModularHost ----------------------------
(***************************************************************************)
(* Antigravity (installer/managed-hosts.mjs, anti...): a rule, a skill and *)
(* a store with the marker, swapped one after the other against backups,   *)
(* in one transaction.  A disabled installation keeps rule and skill in    *)
(* its store.  The leases that hold the parent directories on Windows are  *)
(* left out.                                                               *)
(***************************************************************************)
EXTENDS ManagedHost

Targets == {"rule", "skill", "store"}
Order == <<"rule", "skill", "store">>
None == [t \in Targets |-> NoTree]

\* What is in the targets of an installation.
Layout(state) ==
  [t \in Targets |->
     IF state = NotOwned \/ (t # "store" /\ ~state.on) THEN NoTree
     ELSE Tree(state.v, t # "store" \/ state.on)]

\* antiOwned: nothing at all, or exactly what the marker lists.
MarkerSays == [v |-> place["store"].v, on |-> place["store"].on]
Sound == place = Layout(MarkerSays)

NoChange == [i |-> 1, seen |-> None, backed |-> {}, placed |-> {}, incomplete |-> FALSE,
             committed |-> FALSE]

Init ==
  /\ place = None /\ backup = None /\ lock = FALSE
  /\ step = "idle" /\ op = NoOp /\ prior = NotOwned /\ before = [place |-> None]
  /\ tx = NoChange /\ outcome = "none" /\ lost = {}
  /\ ops = 0 /\ faults = 0 /\ edits = 0

Start == Begin([place |-> place], NoChange)

still == <<ops, edits>>
held == <<op, prior, before, outcome, lock>>

Toggles == op.kind \in {"enable", "disable"}

\* antiAction: what there is to do, if anything.
Check ==
  /\ At("check") /\ Works
  /\ prior' = MarkerSays
  /\ IF ~Sound \/ (Toggles /\ MarkerSays = NotOwned) THEN outcome' = "failed" /\ Goto("leave")
     ELSE IF op.kind = "remove" /\ MarkerSays = NotOwned
          THEN outcome' = "missing" /\ Goto("leave")
     ELSE IF Toggles /\ MarkerSays.on = (op.kind = "enable") THEN outcome' = "ok" /\ Goto("leave")
     ELSE Goto("stage") /\ UNCHANGED outcome
  /\ UNCHANGED <<place, backup, lock, op, before, tx, lost, still>>

\* antiStage: a failure removes the scratch directory and nothing was touched.
Stage ==
  /\ At("stage")
  /\ \/ Works /\ Goto("recheck") /\ UNCHANGED <<held, backup>>
     \/ Fault /\ End("failed")
     \/ Fault /\ End("masked")
  /\ UNCHANGED <<place, tx, lost, still>>

\* antiSwapHeld
Fails == Goto("rollback") /\ UNCHANGED <<place, backup, tx, lost>>
Step == UNCHANGED <<held, still>>

Recheck ==
  /\ At("recheck") /\ Works
  /\ IF Sound /\ MarkerSays = prior THEN Goto("look") /\ UNCHANGED tx
     ELSE Goto("rollback") /\ tx' = [tx EXCEPT !.i = 0]
  /\ UNCHANGED <<place, backup, lost>> /\ Step

Target == Order[tx.i]

Look ==
  /\ At("look")
  /\ \/ Works /\ Goto("back") /\ tx' = [tx EXCEPT !.seen[Target] = place[Target]]
     \/ Fault /\ Goto("rollback") /\ tx' = [tx EXCEPT !.i = @ - 1]
  /\ UNCHANGED <<place, backup, lost>> /\ Step

Back ==
  /\ At("back")
  /\ \/ /\ Works /\ Goto("put")
        /\ IF Exists(place[Target])
           THEN /\ place' = [place EXCEPT ![Target] = NoTree]
                /\ backup' = [backup EXCEPT ![Target] = place[Target]]
                /\ tx' = [tx EXCEPT !.backed = @ \cup {Target}]
           ELSE UNCHANGED <<place, backup, tx>>
        /\ UNCHANGED lost
     \/ Exists(place[Target]) /\ Fault /\ Fails
  /\ Step

\* A renaming replaces a file that is there, but no directory.
Renames == Target = "rule" \/ ~Exists(place[Target])

Put ==
  /\ At("put")
  /\ LET new == Layout(Aim)[Target]
     IN  \/ /\ Exists(new) => Renames
            /\ Works
            /\ place' = IF Exists(new) THEN [place EXCEPT ![Target] = new] ELSE place
            /\ IF Exists(new) THEN Overwritten(place[Target]) ELSE UNCHANGED lost
            /\ tx' = [tx EXCEPT !.placed = IF Exists(new) THEN @ \cup {Target} ELSE @,
                                !.i = IF @ = 3 THEN 3 ELSE @ + 1]
            /\ Goto(IF tx.i = 3 THEN "confirm" ELSE "look")
            /\ UNCHANGED backup
         \/ Exists(new) /\ (IF Renames THEN Fault ELSE Works) /\ Fails
  /\ Step

\* Mutant: the backups are not compared before they are discarded.
BackupsIgnored == TRUE

\* All targets as they should be, and all backups as they were.
BackupsUnchanged == \A t \in tx.backed : backup[t] = tx.seen[t]
Confirm ==
  /\ At("confirm") /\ Works
  /\ IF place = Layout(Aim) /\ BackupsUnchanged
     THEN Goto("clean") /\ tx' = [tx EXCEPT !.committed = TRUE]
     ELSE Goto("rollback") /\ UNCHANGED tx
  /\ UNCHANGED <<place, backup, lost>> /\ Step

\* The scratch directory goes, with the backups in it: all, or one file after the other
\* until it fails (or the installer is killed).
Clean ==
  /\ At("clean")
  /\ \/ /\ Works /\ Goto("leave") /\ outcome' = "ok" /\ UNCHANGED <<lock, op, prior, before>>
        /\ Deleted({backup[t] : t \in tx.backed}) /\ backup' = None
     \/ /\ Works /\ UNCHANGED <<step, held>>
        /\ \E t \in tx.backed : \E rest \in {NoTree, Begun(backup[t])} :
             /\ Exists(backup[t]) /\ (t = "rule" => rest = NoTree) /\ Deleted({backup[t]})
             /\ backup' = [backup EXCEPT ![t] = rest]
     \/ Fault /\ End("masked") /\ UNCHANGED lost
  /\ UNCHANGED <<place, tx, still>>

\* Mutant: what is restored is only what was replaced, so what a removal or a disabling
\* only took away stays away.
RestoreReplaced ==
  /\ At("restore") /\ Goto("rollback")
  /\ Works /\ tx' = [tx EXCEPT !.i = @ - 1]
  /\ IF Target \in tx.backed \cap tx.placed
     THEN /\ place' = [place EXCEPT ![Target] = backup[Target]]
          /\ backup' = [backup EXCEPT ![Target] = NoTree]
     ELSE UNCHANGED <<place, backup>>
  /\ UNCHANGED lost /\ Step

GivenUp == tx' = [tx EXCEPT !.i = @ - 1, !.incomplete = TRUE]

\* The changes are undone last first: the new tree is removed if nobody has changed
\* it, and the backup renamed back.  A change that cannot be undone is left alone.
Rollback ==
  /\ At("rollback") /\ tx.i > 0 /\ Works
  /\ IF Target \notin tx.placed THEN Goto("restore") /\ UNCHANGED tx
     ELSE IF place[Target] = Layout(Aim)[Target] THEN Goto("discard") /\ UNCHANGED tx
     ELSE UNCHANGED step /\ GivenUp
  /\ UNCHANGED <<place, backup, lost>> /\ Step

Discard ==
  /\ At("discard")
  /\ \/ /\ Works /\ Goto("restore") /\ UNCHANGED tx
        /\ Deleted({place[Target]}) /\ place' = [place EXCEPT ![Target] = NoTree]
     \/ /\ Target # "rule" /\ Works /\ UNCHANGED <<step, tx>>
        /\ Deleted({place[Target]}) /\ place' = [place EXCEPT ![Target] = Begun(@)]
     \/ Fault /\ Goto("rollback") /\ GivenUp /\ UNCHANGED <<place, lost>>
  /\ UNCHANGED backup /\ Step

Restore ==
  /\ At("restore") /\ Goto("rollback")
  /\ IF Target \notin tx.backed
     THEN Works /\ tx' = [tx EXCEPT !.i = @ - 1] /\ UNCHANGED <<place, backup, lost>>
     ELSE \/ /\ Renames /\ Works /\ tx' = [tx EXCEPT !.i = @ - 1]
             /\ Overwritten(place[Target])
             /\ place' = [place EXCEPT ![Target] = backup[Target]]
             /\ backup' = [backup EXCEPT ![Target] = NoTree]
          \/ (IF Renames THEN Fault ELSE Works) /\ GivenUp /\ UNCHANGED <<place, backup, lost>>
  /\ Step

\* The scratch directory is left alone if the rollback was incomplete.  If it is removed,
\* or the one that enable and disable copy from, that may fail.
RolledBack ==
  /\ At("rollback") /\ tx.i = 0
  /\ \/ Works /\ End(IF tx.incomplete THEN "incomplete" ELSE "failed")
     \/ (~tx.incomplete \/ Toggles) /\ Fault /\ End("masked")
  /\ UNCHANGED <<place, tx, lost, still>>

\* The windows no check covers: in a target between the recheck and the look at it, or
\* while it is removed again; in a backup after the confirmation.
Unlooked ==
  IF At("discard") THEN {Target}
  ELSE IF step \in {"look", "back", "put"}
  THEN {Order[i] : i \in {j \in 1 .. 3 : j > tx.i \/ (j = tx.i /\ At("look"))}} ELSE {}
UserEdits == Edit(Unlooked, At("clean"))

Next ==
  \/ Start \/ Check \/ Stage \/ Recheck \/ Look \/ Back \/ Put \/ Confirm \/ Clean
  \/ Rollback \/ Discard \/ Restore \/ RolledBack \/ Leave
  \/ Kill \/ ClearLock \/ UserEdits

Spec == Init /\ [][Next]_managed

-----------------------------------------------------------------------------
\* An operation that fails, whatever error it reports, has left every target as it found
\* it ("... restores the full previous state"), unless the rollback was incomplete or
\* the change was already committed.
FailureRestores ==
  outcome = "failed" \/ (outcome = "masked" /\ ~tx.incomplete /\ ~tx.committed) =>
    \A t \in Targets : Same(place[t], before.place[t])

\* One that succeeded did what it was asked for: every target is as it should be for
\* the version and the enabled state the marker had, but for what was to change; and
\* nothing is left in its scratch directory.
SuccessMeans ==
  LET store == before.place["store"]
      on == CASE op.kind = "install" -> store.v # Nothing => store.on
              [] OTHER -> op.kind = "enable"
      wanted == [v |-> IF op.kind = "install" THEN op.v ELSE store.v, on |-> on]
  IN  /\ outcome = "ok" /\ op.kind # "remove" =>
           \A t \in Targets : Same(place[t], Layout(wanted)[t]) /\ backup[t] = NoTree
      /\ outcome = "missing" \/ (outcome = "ok" /\ op.kind = "remove") =>
           \A t \in Targets : place[t].v = Nothing /\ backup[t] = NoTree
=============================================================================

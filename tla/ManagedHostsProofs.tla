----------------------- MODULE ManagedHostsProofs -----------------------
(***************************************************************************)
(* What is proved of the managed hosts.  A definition or lemma whose name  *)
(* begins with M is about the modular host, one whose name begins with N   *)
(* about the native one.                                                   *)
(***************************************************************************)
EXTENDS ManagedHosts, TLAPS

Outcomes == {"none", "locked", "running", "ok", "missing", "failed", "incomplete", "masked", "killed"}

\* The results with which an operation ends.
Results == {"ok", "missing", "failed", "incomplete", "masked"}

\* A tree the user has edited.
Touched(t, s) == [t EXCEPT !.edit = s]

\* What a marker can say.
Marks == {m \in [v : Versions \cup {Nothing}, on : BOOLEAN] : m.v = Nothing => ~m.on}
MarkOf(t) == [v |-> t.v, on |-> t.on]

-----------------------------------------------------------------------------
(***************************************************************************)
(* The modular host: what holds in all its states.                         *)
(***************************************************************************)
\* The trees in the backups, and those in the targets, where nothing the user has saved
\* is ever removed in parts.
MKept == {t \in M!Trees : t.files # "more" /\ (t.v = Nothing => ~t.on)}
MTrees == {t \in MKept : t.v = Nothing => t.files = "whole"}

MSteps == {"idle", "check", "stage", "recheck", "look", "back", "put", "confirm", "clean", "rollback",
           "discard", "restore", "leave"}
MChanges == [i : 0 .. 3, seen : [M!Targets -> MTrees], backed : SUBSET M!Targets, placed : SUBSET M!Targets,
             incomplete : BOOLEAN, committed : BOOLEAN]
MTyped ==
  /\ place \in [M!Targets -> MTrees] /\ backup \in [M!Targets -> MKept]
  /\ lock \in BOOLEAN /\ step \in MSteps /\ op \in M!Operations \cup {M!NoOp} /\ prior \in Marks
  /\ before \in [place : [M!Targets -> MTrees]] /\ tx \in MChanges /\ outcome \in Outcomes
  /\ lost \subseteq {"deleted", "overwritten"} \X M!Trees
  /\ ops \in 0 .. MaxOps /\ faults \in 0 .. MaxFaults /\ edits \in 0 .. MaxEdits

\* The targets are exchanged in this order.
MRank == [t \in M!Targets |-> CASE t = "rule" -> 1 [] t = "skill" -> 2 [] OTHER -> 3]

\* What the operation found in a target.
MFound(t) == before.place[t]

MForward == {"check", "stage", "recheck", "look", "back", "put", "confirm"}
MUndoing == {"rollback", "discard", "restore"}
MWorking == MForward \cup MUndoing \cup {"clean"}
MChanged == tx.backed \cup tx.placed

\* Where the operation is, against its outcome and its place in the order.
MStages ==
  /\ step \in MWorking <=> outcome = "running"
  /\ step = "leave" => outcome \in Results
  /\ step # "idle" => op \in M!Operations
  /\ step \in {"check", "stage", "recheck"} => tx = M!NoChange
  /\ step \in {"look", "back", "put", "confirm", "clean", "discard", "restore"} => tx.i # 0
  /\ step \in {"confirm", "clean"} => tx.i = 3
  /\ step \in MForward \cup {"clean"} => ~tx.incomplete
  /\ step \in MForward \cup MUndoing => ~tx.committed
  /\ step = "clean" => tx.committed

\* Once the check is over, the marker's version and enabled state are those found, and
\* what was found is what the marker lists.
MPrior ==
  /\ step = "check" => \A t \in M!Targets : place[t].edit = "none" => place[t] = MFound(t)
  /\ step \in MWorking \ {"check"} =>
       /\ prior = MarkOf(MFound("store")) /\ before.place = M!Layout(prior)
       /\ op.kind # "install" => prior # M!NotOwned

\* Every tree that was found is in its place or in the backup: a target that was not
\* touched is as it was found, and a target without a backup that was filled was empty.
MCopies ==
  step \in MForward \cup MUndoing =>
  \A t \in M!Targets :
    /\ M!Exists(backup[t]) => t \in tx.backed
    /\ t \notin MChanged => M!Same(place[t], MFound(t))
    /\ t \in tx.backed => M!Same(backup[t], MFound(t)) \/ M!Same(place[t], MFound(t))
    /\ t \in tx.placed \ tx.backed => MFound(t).v = Nothing

\* On the way there only the targets before this one are changed, their backups are
\* what was found, and nothing of a version is where nothing was put.
MReached ==
  /\ step \in {"look", "back"} => \A t \in MChanged : MRank[t] < tx.i
  /\ step = "put" => /\ \A t \in tx.backed : MRank[t] <= tx.i
                     /\ \A t \in tx.placed : MRank[t] < tx.i
                     /\ place[M!Target].v = Nothing
  /\ step \in MForward => \A t \in tx.backed : /\ M!Same(backup[t], MFound(t))
                                               /\ t \notin tx.placed => place[t].v = Nothing

\* On the way back the targets after this one are as they were found, unless a step of
\* the rollback failed, and those before have what was found in their backups.
MUndo ==
  step \in MUndoing =>
  /\ \A t \in M!Targets :
       /\ MRank[t] > tx.i /\ ~tx.incomplete => M!Same(place[t], MFound(t))
       /\ MRank[t] <= tx.i /\ t \in tx.backed =>
            M!Same(backup[t], MFound(t)) /\ (t \notin tx.placed => place[t].v = Nothing)
  /\ step = "discard" => M!Target \in tx.placed /\ place[M!Target].v # Nothing
  /\ step = "restore" /\ M!Target \in tx.placed => place[M!Target].v = Nothing

\* No edit that a check could find is in a tree that the next step takes as seen or
\* deletes.
MEdits ==
  /\ step = "look" => \A t \in M!Targets : MRank[t] >= tx.i => place[t].edit # "found"
  /\ step \in {"back", "put"} => \A t \in M!Targets : MRank[t] > tx.i => place[t].edit # "found"
  /\ \A t \in M!Targets : tx.seen[t].edit # "found"
  /\ step = "clean" => \A t \in tx.backed : backup[t].edit # "found"
  /\ step = "discard" => place[M!Target].edit # "found"
  /\ M!EditsHeld

\* What was put is what the operation aims at.
MAimed ==
  /\ step \in MWorking => \A t \in tx.placed : M!Exists(M!Layout(M!Aim)[t])
  /\ step = "clean" => \A t \in M!Targets : M!Same(place[t], M!Layout(M!Aim)[t])

\* An operation that is over without having changed anything has left everything as it
\* was found, whatever it reports, unless its rollback was incomplete.
MLeft ==
  step = "leave" =>
    /\ outcome = "failed" => ~tx.incomplete /\ ~tx.committed
    /\ ~tx.incomplete /\ ~tx.committed => \A t \in M!Targets : M!Same(place[t], MFound(t))

MInv == MTyped /\ MStages /\ MPrior /\ MCopies /\ MReached /\ MUndo /\ MEdits /\ MAimed
        /\ MLeft /\ M!PreimageHeld /\ M!FailureRestores /\ M!SuccessMeans

\* The place of a target in the order of the swap.
LEMMA MRanks ==
  /\ \A t \in M!Targets : MRank[t] \in 1 .. 3
  /\ \A i \in 1 .. 3 : M!Order[i] \in M!Targets
  /\ \A i \in 1 .. 3, t \in M!Targets : MRank[t] = i <=> t = M!Order[i]
  /\ "store" \in M!Targets
BY DEF MRank, M!Order, M!Targets

\* Which records are trees, and what an edit or a removal that has begun makes of one.
LEMMA MTreesAre ==
  /\ M!NoTree \in MTrees /\ MTrees \subseteq MKept /\ MKept \subseteq M!Trees
  /\ \A v \in Versions, on \in BOOLEAN :
       /\ M!Tree(v, on) \in MTrees /\ M!Exists(M!Tree(v, on)) /\ M!Tree(v, on).v = v
       /\ M!Tree(v, on).on = on /\ M!Tree(v, on).files = "whole" /\ M!Tree(v, on).edit = "none"
  /\ M!NoTree.v = Nothing /\ M!NoTree.on = FALSE /\ M!NoTree.files = "whole" /\ M!NoTree.edit = "none"
  /\ \A t \in MKept, s \in {"found", "late"} :
       /\ Touched(t, s) \in MKept /\ (t \in MTrees => Touched(t, s) \in MTrees)
       /\ Touched(t, s).v = t.v /\ Touched(t, s).on = t.on /\ Touched(t, s).files = t.files
       /\ Touched(t, s).edit = s
  /\ \A t \in MKept :
       /\ M!Begun(t) \in MKept /\ (t \in MTrees /\ t.v # Nothing => M!Begun(t) \in MTrees)
       /\ M!Begun(t).v = t.v /\ M!Begun(t).edit = t.edit
  /\ \A t \in MTrees : MarkOf(t) \in Marks
<1>. USE ManagedAssumption DEF M!Trees, M!NoTree, M!Exists, MKept, MTrees
<1>1. /\ M!NoTree \in MTrees /\ MTrees \subseteq MKept /\ MKept \subseteq M!Trees
      /\ M!NoTree.v = Nothing /\ M!NoTree.on = FALSE /\ M!NoTree.files = "whole" /\ M!NoTree.edit = "none"
  OBVIOUS
<1>2. \A v \in Versions, on \in BOOLEAN :
       /\ M!Tree(v, on) \in MTrees /\ M!Exists(M!Tree(v, on)) /\ M!Tree(v, on).v = v
       /\ M!Tree(v, on).on = on /\ M!Tree(v, on).files = "whole" /\ M!Tree(v, on).edit = "none"
  BY DEF M!Tree
<1>3. ASSUME NEW t \in MKept, NEW s \in {"found", "late"}
      PROVE  /\ Touched(t, s) \in MKept /\ (t \in MTrees => Touched(t, s) \in MTrees)
             /\ Touched(t, s).v = t.v /\ Touched(t, s).on = t.on /\ Touched(t, s).files = t.files
             /\ Touched(t, s).edit = s
  BY DEF Touched
<1>4. ASSUME NEW t \in MKept
      PROVE  /\ M!Begun(t) \in MKept /\ (t \in MTrees /\ t.v # Nothing => M!Begun(t) \in MTrees)
             /\ M!Begun(t).v = t.v /\ M!Begun(t).edit = t.edit
  BY DEF M!Begun
<1>5. \A t \in MTrees : MarkOf(t) \in Marks
  BY DEF Marks, MarkOf
<1>6. QED  BY <1>1, <1>2, <1>3, <1>4, <1>5

\* What an installation looks like.
LEMMA MLayoutIs ==
  /\ Marks \subseteq [v : Versions \cup {Nothing}, on : BOOLEAN] /\ M!NotOwned \in Marks
  /\ \A m \in Marks : m # M!NotOwned => m.v \in Versions
  /\ \A m \in Marks : M!Layout(m) \in [M!Targets -> MTrees]
  /\ \A m \in Marks : \A t \in M!Targets : M!Layout(m)[t].edit = "none" /\ M!Layout(m)[t].files = "whole"
  /\ \A m \in Marks : \A t \in M!Targets : M!Exists(M!Layout(m)[t]) => M!Layout(m)[t].v \in Versions
  /\ \A m \in Marks : MarkOf(M!Layout(m)["store"]) = m
  /\ M!Layout(M!NotOwned) = M!None /\ M!None \in [M!Targets -> MTrees]
<1>. USE ManagedAssumption
<1>1. Marks \subseteq [v : Versions \cup {Nothing}, on : BOOLEAN] /\ M!NotOwned \in Marks
  BY DEF Marks, M!NotOwned
<1>2. \A m \in Marks : m # M!NotOwned => m.v \in Versions
  BY DEF Marks, M!NotOwned
<1>3. M!Layout(M!NotOwned) = M!None /\ M!None \in [M!Targets -> MTrees]
  BY MTreesAre DEF M!Layout, M!None
<1>4. ASSUME NEW m \in Marks
      PROVE  /\ M!Layout(m) \in [M!Targets -> MTrees]
             /\ \A t \in M!Targets : M!Layout(m)[t].edit = "none" /\ M!Layout(m)[t].files = "whole"
             /\ \A t \in M!Targets : M!Exists(M!Layout(m)[t]) => M!Layout(m)[t].v \in Versions
             /\ MarkOf(M!Layout(m)["store"]) = m
  <2>1. CASE m = M!NotOwned
    <3>1. MarkOf(M!None["store"]) = M!NotOwned
      BY MRanks, MTreesAre DEF M!None, MarkOf, M!NotOwned
    <3>2. \A t \in M!Targets : M!None[t] = M!NoTree
      BY DEF M!None
    <3>3. QED  BY <1>3, <2>1, <3>1, <3>2, MTreesAre DEF M!Exists
  <2>2. CASE m # M!NotOwned
    <3>1. m.v \in Versions /\ m.on \in BOOLEAN /\ m = [v |-> m.v, on |-> m.on]
      BY <1>1, <1>2, <2>2
    <3>2. \A t \in M!Targets : M!Layout(m)[t] = M!NoTree \/ \E on \in BOOLEAN : M!Layout(m)[t] = M!Tree(m.v, on)
      <4>1. \A t \in M!Targets : M!Layout(m)[t] = M!NoTree \/ M!Layout(m)[t] = M!Tree(m.v, t # "store" \/ m.on)
        BY <2>2 DEF M!Layout
      <4>2. \A t : (t # "store" \/ m.on) \in BOOLEAN
        OBVIOUS
      <4>3. QED  BY <4>1, <4>2
    <3>3. M!Layout(m)["store"] = M!Tree(m.v, m.on)
      <4>1. M!Layout(m)["store"] = M!Tree(m.v, "store" # "store" \/ m.on)
        BY <2>2, MRanks DEF M!Layout
      <4>2. ("store" # "store" \/ m.on) = m.on
        BY <3>1
      <4>3. QED  BY <4>1, <4>2
    <3>4. M!Layout(m) \in [M!Targets -> MTrees]
      <4>1. M!Layout(m) = [t \in M!Targets |-> M!Layout(m)[t]]
        BY DEF M!Layout
      <4>2. \A t \in M!Targets : M!Layout(m)[t] \in MTrees
        BY <3>1, <3>2, MTreesAre
      <4>3. QED  BY <4>1, <4>2
    <3>5. MarkOf(M!Layout(m)["store"]) = m
      BY <3>1, <3>3, MTreesAre DEF MarkOf
    <3>6. \A t \in M!Targets :
            /\ M!Layout(m)[t].edit = "none" /\ M!Layout(m)[t].files = "whole"
            /\ M!Exists(M!Layout(m)[t]) => M!Layout(m)[t].v \in Versions
      BY <3>1, <3>2, MTreesAre DEF M!Exists
    <3>7. QED  BY <3>4, <3>5, <3>6
  <2>3. QED  BY <2>1, <2>2
<1>5. QED  BY <1>1, <1>2, <1>3, <1>4

\* What an operation aims at is an installation or nothing.
LEMMA MAimTyped ==
  ASSUME MTyped, MStages, MPrior, step \in MWorking \ {"check"}
  PROVE  M!Aim \in Marks
<1>1. op \in M!Operations /\ prior \in Marks /\ (op.kind # "install" => prior # M!NotOwned)
  BY DEF MTyped, MStages, MPrior, MWorking, MForward, MUndoing
<1>2. prior.v \in Versions \cup {Nothing} /\ prior.on \in BOOLEAN /\ (prior # M!NotOwned => prior.v \in Versions)
  BY <1>1, MLayoutIs
<1>3. op.kind = "install" => op.v \in Versions
  BY <1>1 DEF M!Operations
<1>4. QED  BY <1>1, <1>2, <1>3, MLayoutIs, ManagedAssumption DEF M!Aim, Marks, M!Operations

-----------------------------------------------------------------------------
(* The modular host. What each step does. *)

MTxIs(i, seen, backed, placed, incomplete, committed) ==
  tx' = [i |-> i, seen |-> seen, backed |-> backed, placed |-> placed, incomplete |-> incomplete,
         committed |-> committed]

MStartDoes ==
  /\ step = "idle" /\ UNCHANGED place
  /\ \/ outcome' = "locked" /\ UNCHANGED <<backup, lock, step, op, prior, before, tx, lost>>
     \/ /\ lock' = TRUE /\ step' = "check" /\ op' \in M!Operations /\ outcome' = "running"
        /\ prior' = M!NotOwned /\ before' = [place |-> place] /\ tx' = M!NoChange /\ backup' = M!None
        /\ lost' = {}
MCheckDoes ==
  /\ step = "check" /\ UNCHANGED <<place, backup, lock, op, before, tx, lost>>
  /\ prior' = MarkOf(place["store"])
  /\ \/ step' = "leave" /\ outcome' = "failed"
     \/ step' = "leave" /\ outcome' = "missing" /\ op.kind = "remove" /\ place = M!None
     \/ /\ step' = "leave" /\ outcome' = "ok" /\ op.kind \in {"enable", "disable"}
        /\ place = M!Layout(prior') /\ prior' # M!NotOwned /\ prior'.on = (op.kind = "enable")
     \/ /\ step' = "stage" /\ UNCHANGED outcome /\ place = M!Layout(prior')
        /\ op.kind # "install" => prior' # M!NotOwned
MEndDoes(results) ==
  step' = "leave" /\ outcome' \in results /\ UNCHANGED <<lock, op, prior, before>>
MStageDoes ==
  /\ step = "stage" /\ UNCHANGED <<place, backup, tx, lost, lock, op, prior, before>>
  /\ \/ step' = "recheck" /\ UNCHANGED outcome
     \/ MEndDoes({"failed", "masked"})
\* What no step but the check and the ends changes.
MKeeps == UNCHANGED <<op, prior, before, outcome, lock>>
MRecheckDoes ==
  /\ step = "recheck" /\ UNCHANGED <<place, backup, lost>> /\ MKeeps
  /\ \/ step' = "look" /\ UNCHANGED tx /\ place = M!Layout(prior)
     \/ step' = "rollback" /\ MTxIs(0, tx.seen, tx.backed, tx.placed, tx.incomplete, tx.committed)
MLookDoes ==
  /\ step = "look" /\ tx.i \in 1 .. 3 /\ M!Target \in M!Targets /\ UNCHANGED <<place, backup, lost>> /\ MKeeps
  /\ \/ /\ step' = "back"
        /\ MTxIs(tx.i, [tx.seen EXCEPT ![M!Target] = place[M!Target]], tx.backed, tx.placed, tx.incomplete,
                 tx.committed)
     \/ step' = "rollback" /\ MTxIs(tx.i - 1, tx.seen, tx.backed, tx.placed, tx.incomplete, tx.committed)
MBackDoes ==
  /\ step = "back" /\ tx.i \in 1 .. 3 /\ M!Target \in M!Targets /\ UNCHANGED lost /\ MKeeps
  /\ \/ /\ step' = "put" /\ M!Exists(place[M!Target])
        /\ place' = [place EXCEPT ![M!Target] = M!NoTree] /\ backup' = [backup EXCEPT ![M!Target] = place[M!Target]]
        /\ MTxIs(tx.i, tx.seen, tx.backed \cup {M!Target}, tx.placed, tx.incomplete, tx.committed)
     \/ step' = "put" /\ place[M!Target] = M!NoTree /\ UNCHANGED <<place, backup, tx>>
     \/ step' = "rollback" /\ UNCHANGED <<place, backup, tx>>
MPutDoes ==
  LET new == M!Layout(M!Aim)[M!Target]
      next == IF tx.i = 3 THEN 3 ELSE tx.i + 1
  IN  /\ step = "put" /\ tx.i \in 1 .. 3 /\ M!Target \in M!Targets /\ UNCHANGED backup /\ MKeeps
      /\ \/ /\ step' = (IF tx.i = 3 THEN "confirm" ELSE "look") /\ M!Exists(new)
            /\ place' = [place EXCEPT ![M!Target] = new]
            /\ lost' \subseteq lost \cup {<<"overwritten", place[M!Target]>>}
            /\ MTxIs(next, tx.seen, tx.backed, tx.placed \cup {M!Target}, tx.incomplete, tx.committed)
         \/ /\ step' = (IF tx.i = 3 THEN "confirm" ELSE "look") /\ ~M!Exists(new)
            /\ UNCHANGED <<place, lost>>
            /\ MTxIs(next, tx.seen, tx.backed, tx.placed, tx.incomplete, tx.committed)
         \/ step' = "rollback" /\ UNCHANGED <<place, tx, lost>>
MConfirmDoes ==
  /\ step = "confirm" /\ UNCHANGED <<place, backup, lost>> /\ MKeeps
  /\ \/ /\ step' = "clean" /\ place = M!Layout(M!Aim) /\ M!BackupsUnchanged
        /\ MTxIs(tx.i, tx.seen, tx.backed, tx.placed, tx.incomplete, TRUE)
     \/ step' = "rollback" /\ UNCHANGED tx
MCleanDoes ==
  /\ step = "clean" /\ UNCHANGED <<place, tx, op, prior, before, lock>>
  /\ lost' \subseteq lost \cup {<<"deleted", backup[t]>> : t \in tx.backed}
  /\ \/ MEndDoes({"ok"}) /\ backup' = M!None
     \/ /\ UNCHANGED <<step, outcome>>
        /\ \E t \in tx.backed : \E rest \in {M!NoTree, M!Begun(backup[t])} : backup' = [backup EXCEPT ![t] = rest]
     \/ MEndDoes({"masked"}) /\ UNCHANGED backup
MGivenUp == MTxIs(tx.i - 1, tx.seen, tx.backed, tx.placed, TRUE, tx.committed)
MRollbackDoes ==
  /\ step = "rollback" /\ tx.i \in 1 .. 3 /\ M!Target \in M!Targets /\ UNCHANGED <<place, backup, lost>> /\ MKeeps
  /\ \/ step' = "restore" /\ M!Target \notin tx.placed /\ UNCHANGED tx
     \/ /\ step' = "discard" /\ M!Target \in tx.placed /\ UNCHANGED tx
        /\ place[M!Target] = M!Layout(M!Aim)[M!Target]
     \/ step' = "rollback" /\ MGivenUp
MDiscardDoes ==
  /\ step = "discard" /\ tx.i \in 1 .. 3 /\ M!Target \in M!Targets /\ UNCHANGED backup /\ MKeeps
  /\ lost' \subseteq lost \cup {<<"deleted", place[M!Target]>>}
  /\ \/ step' = "restore" /\ UNCHANGED tx /\ place' = [place EXCEPT ![M!Target] = M!NoTree]
     \/ step' = "discard" /\ UNCHANGED tx /\ place' = [place EXCEPT ![M!Target] = M!Begun(place[M!Target])]
     \/ step' = "rollback" /\ UNCHANGED place /\ MGivenUp
MRestoreDoes ==
  /\ step = "restore" /\ step' = "rollback" /\ tx.i \in 1 .. 3 /\ M!Target \in M!Targets /\ MKeeps
  /\ \/ /\ M!Target \in tx.backed
        /\ lost' \subseteq lost \cup {<<"overwritten", place[M!Target]>>}
        /\ place' = [place EXCEPT ![M!Target] = backup[M!Target]] /\ backup' = [backup EXCEPT ![M!Target] = M!NoTree]
        /\ MTxIs(tx.i - 1, tx.seen, tx.backed, tx.placed, tx.incomplete, tx.committed)
     \/ /\ M!Target \notin tx.backed /\ UNCHANGED <<place, backup, lost>>
        /\ MTxIs(tx.i - 1, tx.seen, tx.backed, tx.placed, tx.incomplete, tx.committed)
     \/ UNCHANGED <<place, backup, lost>> /\ MGivenUp
MRolledBackDoes ==
  /\ step = "rollback" /\ tx.i = 0 /\ UNCHANGED <<place, backup, tx, lost>>
  /\ MEndDoes({IF tx.incomplete THEN "incomplete" ELSE "failed", "masked"})
MLeaveDoes ==
  /\ step = "leave" /\ step' = "idle" /\ lock' \in {lock, FALSE} /\ outcome' \in {outcome, "masked"}
  /\ UNCHANGED <<place, backup, op, prior, before, tx, lost>>
MKillDoes ==
  /\ step # "idle" /\ step' = "idle" /\ outcome' = "killed"
  /\ UNCHANGED <<place, backup, lock, op, prior, before, tx, lost>>
MClearDoes ==
  step = "idle" /\ lock' = FALSE /\ UNCHANGED <<place, backup, step, op, prior, before, tx, outcome, lost>>
MEditOf(t, s) ==
  \/ /\ backup' = backup /\ place' = [place EXCEPT ![t] = Touched(place[t], s)]
     /\ t \in M!Unlooked /\ place[t].edit # "found" => s = "late"
  \/ /\ M!Exists(backup[t])
     /\ place' = place /\ backup' = [backup EXCEPT ![t] = Touched(backup[t], s)]
     /\ step = "clean" /\ backup[t].edit # "found" => s = "late"
MEditDoes ==
  /\ UNCHANGED <<lock, step, op, prior, before, tx, outcome, lost>>
  /\ \E t \in M!Targets, s \in {"found", "late"} : MEditOf(t, s)

MDoes ==
  \/ MStartDoes \/ MCheckDoes \/ MStageDoes \/ MRecheckDoes \/ MLookDoes \/ MBackDoes \/ MPutDoes \/ MConfirmDoes
  \/ MCleanDoes \/ MRollbackDoes \/ MDiscardDoes \/ MRestoreDoes \/ MRolledBackDoes \/ MLeaveDoes \/ MKillDoes
  \/ MClearDoes \/ MEditDoes

-----------------------------------------------------------------------------
(* The modular host. Every step does what is said of it. *)

\* The transaction, field by field.
LEMMA MTxWritten ==
  ASSUME MTyped
  PROVE  /\ \A i \in 0 .. 3 :
              /\ tx' = [tx EXCEPT !.i = i] =>
                   MTxIs(i, tx.seen, tx.backed, tx.placed, tx.incomplete, tx.committed)
              /\ tx' = [tx EXCEPT !.i = i, !.incomplete = TRUE] =>
                   MTxIs(i, tx.seen, tx.backed, tx.placed, TRUE, tx.committed)
              /\ \A b : tx' = [tx EXCEPT !.placed = b, !.i = i] =>
                   MTxIs(i, tx.seen, tx.backed, b, tx.incomplete, tx.committed)
         /\ \A t, u : tx' = [tx EXCEPT !.seen[t] = u] =>
              MTxIs(tx.i, [tx.seen EXCEPT ![t] = u], tx.backed, tx.placed, tx.incomplete, tx.committed)
         /\ \A b : tx' = [tx EXCEPT !.backed = b] =>
              MTxIs(tx.i, tx.seen, b, tx.placed, tx.incomplete, tx.committed)
         /\ tx' = [tx EXCEPT !.committed = TRUE] =>
              MTxIs(tx.i, tx.seen, tx.backed, tx.placed, tx.incomplete, TRUE)
BY DEF MTyped, MChanges, MTxIs

\* The index in bounds, at the steps that use it.
LEMMA MTargetIs ==
  ASSUME MTyped, MStages, step \in {"look", "back", "put", "discard", "restore"} \/ tx.i > 0
  PROVE  tx.i \in 1 .. 3 /\ M!Target \in M!Targets
<1>1. tx.i \in 0 .. 3
  BY DEF MTyped, MChanges
<1>2. tx.i \in 1 .. 3
  BY <1>1 DEF MStages
<1>3. QED  BY <1>2, MRanks DEF M!Target

\* Every step does what is said of it above.
LEMMA MStepDoes ==
  ASSUME MTyped, MStages, MPrior, M!Next
  PROVE  MDoes
<1>. USE DEF M!At, M!Goto, M!Works
<1>1. CASE M!Start
  <2>1. MStartDoes
    <3>1. M!Emptied => backup' = M!None
      BY DEF M!Emptied, M!None, MTyped
    <3>2. QED  BY <1>1, <3>1 DEF M!Start, M!Begin, MStartDoes, M!Working
  <2>2. QED  BY <2>1 DEF MDoes
<1>2. CASE M!Check
  <2>1. prior' = MarkOf(place["store"]) /\ M!MarkerSays = prior'
    BY <1>2 DEF M!Check, M!MarkerSays, MarkOf
  <2>2. M!Layout(M!NotOwned) = M!None
    BY MLayoutIs
  <2>3. op.kind \in {"install", "enable", "disable", "remove"}
    BY <1>2 DEF M!Check, MStages, M!Operations
  <2>4. MCheckDoes
    BY <1>2, <2>1, <2>2, <2>3 DEF M!Check, MCheckDoes, M!Sound, M!Toggles
  <2>5. QED  BY <2>4 DEF MDoes
<1>3. CASE M!Stage
  <2>1. MStageDoes
    BY <1>3 DEF M!Stage, M!End, MEndDoes, M!held, M!still, MStageDoes
  <2>2. QED  BY <2>1 DEF MDoes
<1>4. CASE M!Recheck
  <2>1. M!Sound /\ M!MarkerSays = prior => place = M!Layout(prior)
    BY DEF M!Sound
  <2>2. tx' = [tx EXCEPT !.i = 0] => MTxIs(0, tx.seen, tx.backed, tx.placed, tx.incomplete, tx.committed)
    <3>1. 0 \in 0 .. 3
      OBVIOUS
    <3>2. QED  BY <3>1, MTxWritten
  <2>3. MRecheckDoes
    BY <1>4, <2>1, <2>2 DEF M!Recheck, MRecheckDoes, M!Step, M!held, MKeeps
  <2>4. QED  BY <2>3 DEF MDoes
<1>5. CASE M!Look
  <2>1. step = "look" /\ tx.i \in 1 .. 3 /\ M!Target \in M!Targets
    BY <1>5, MTargetIs DEF M!Look
  <2>2. CASE M!Goto("back") /\ tx' = [tx EXCEPT !.seen[M!Target] = place[M!Target]]
    <3>1. MTxIs(tx.i, [tx.seen EXCEPT ![M!Target] = place[M!Target]], tx.backed, tx.placed, tx.incomplete,
                tx.committed)
      BY <2>2, MTxWritten
    <3>2. QED  BY <1>5, <2>1, <2>2, <3>1 DEF M!Look, MLookDoes, M!Step, M!held, MKeeps, MDoes
  <2>3. CASE M!Goto("rollback") /\ tx' = [tx EXCEPT !.i = @ - 1]
    <3>1. tx.i - 1 \in 0 .. 3
      BY <2>1
    <3>2. MTxIs(tx.i - 1, tx.seen, tx.backed, tx.placed, tx.incomplete, tx.committed)
      BY <2>3, <3>1, MTxWritten
    <3>3. QED  BY <1>5, <2>1, <2>3, <3>2 DEF M!Look, MLookDoes, M!Step, M!held, MKeeps, MDoes
  <2>4. QED  BY <1>5, <2>2, <2>3 DEF M!Look
<1>6. CASE M!Back
  <2>1. step = "back" /\ tx.i \in 1 .. 3 /\ M!Target \in M!Targets /\ UNCHANGED lost /\ MKeeps
    BY <1>6, MTargetIs DEF M!Back, M!Step, M!held, MKeeps, M!Fails
  <2>2. CASE M!Goto("put") /\ M!Exists(place[M!Target])
    <3>1. /\ place' = [place EXCEPT ![M!Target] = M!NoTree] /\ backup' = [backup EXCEPT ![M!Target] = place[M!Target]]
          /\ tx' = [tx EXCEPT !.backed = @ \cup {M!Target}]
      BY <1>6, <2>2 DEF M!Back, M!Fails
    <3>2. MTxIs(tx.i, tx.seen, tx.backed \cup {M!Target}, tx.placed, tx.incomplete, tx.committed)
      BY <3>1, MTxWritten
    <3>3. QED  BY <2>1, <2>2, <3>1, <3>2 DEF MBackDoes, MDoes
  <2>3. CASE ~(M!Goto("put") /\ M!Exists(place[M!Target]))
    BY <1>6, <2>1, <2>3 DEF M!Back, M!Fails, MBackDoes, MDoes, M!Exists
  <2>4. QED  BY <2>2, <2>3
<1>7. CASE M!Put
  <2>. DEFINE new == M!Layout(M!Aim)[M!Target]
              next == IF tx.i = 3 THEN 3 ELSE tx.i + 1
  <2>1. step = "put" /\ tx.i \in 1 .. 3 /\ M!Target \in M!Targets /\ UNCHANGED backup /\ MKeeps
    BY <1>7, MTargetIs DEF M!Put, M!Step, M!held, MKeeps, M!Fails
  <2>2. next \in 0 .. 3
    BY <2>1
  <2>3. CASE M!Fails
    BY <1>7, <2>1, <2>3 DEF M!Fails, MPutDoes, MDoes
  <2>4. CASE ~M!Fails /\ M!Exists(new)
    <3>1. /\ place' = [place EXCEPT ![M!Target] = new] /\ step' = (IF tx.i = 3 THEN "confirm" ELSE "look")
          /\ M!Overwritten(place[M!Target])
          /\ tx' = [tx EXCEPT !.placed = tx.placed \cup {M!Target}, !.i = next]
      BY <1>7, <2>4 DEF M!Put
    <3>2. MTxIs(next, tx.seen, tx.backed, tx.placed \cup {M!Target}, tx.incomplete, tx.committed)
      BY <2>2, <3>1, MTxWritten
    <3>3. lost' \subseteq lost \cup {<<"overwritten", place[M!Target]>>}
      BY <3>1 DEF M!Overwritten
    <3>4. QED  BY <2>1, <2>4, <3>1, <3>2, <3>3 DEF MPutDoes, MDoes
  <2>5. CASE ~M!Fails /\ ~M!Exists(new)
    <3>1. /\ UNCHANGED <<place, lost>> /\ step' = (IF tx.i = 3 THEN "confirm" ELSE "look")
          /\ tx' = [tx EXCEPT !.placed = tx.placed, !.i = next]
      BY <1>7, <2>5 DEF M!Put
    <3>2. MTxIs(next, tx.seen, tx.backed, tx.placed, tx.incomplete, tx.committed)
      BY <2>2, <3>1, MTxWritten
    <3>3. QED  BY <2>1, <2>5, <3>1, <3>2 DEF MPutDoes, MDoes
  <2>6. QED  BY <2>3, <2>4, <2>5
<1>8. CASE M!Confirm
  <2>1. MConfirmDoes
    BY <1>8, MTxWritten DEF M!Confirm, MConfirmDoes, M!Step, M!held, MKeeps
  <2>2. QED  BY <2>1 DEF MDoes
<1>9. CASE M!Clean
  <2>1. step = "clean" /\ UNCHANGED <<place, tx>>
    BY <1>9 DEF M!Clean
  <2>2. ASSUME NEW trees, trees \subseteq {backup[t] : t \in tx.backed}, M!Deleted(trees)
        PROVE  lost' \subseteq lost \cup {<<"deleted", backup[t]>> : t \in tx.backed}
    BY <2>2 DEF M!Deleted
  <2>3. CASE M!End("masked") /\ UNCHANGED lost
    BY <2>1, <2>3 DEF M!End, MEndDoes, MCleanDoes, MDoes
  <2>4. CASE /\ step' = "leave" /\ outcome' = "ok" /\ UNCHANGED <<lock, op, prior, before>>
             /\ M!Deleted({backup[t] : t \in tx.backed}) /\ backup' = M!None
    <3>1. lost' \subseteq lost \cup {<<"deleted", backup[t]>> : t \in tx.backed}
      BY <2>2, <2>4
    <3>2. QED  BY <2>1, <2>4, <3>1 DEF MEndDoes, MCleanDoes, MDoes
  <2>5. CASE /\ UNCHANGED <<step, op, prior, before, outcome, lock>>
             /\ \E t \in tx.backed : \E rest \in {M!NoTree, M!Begun(backup[t])} :
                  M!Deleted({backup[t]}) /\ backup' = [backup EXCEPT ![t] = rest]
    <3>1. PICK t \in tx.backed : \E rest \in {M!NoTree, M!Begun(backup[t])} :
                  M!Deleted({backup[t]}) /\ backup' = [backup EXCEPT ![t] = rest]
      BY <2>5
    <3>2. lost' \subseteq lost \cup {<<"deleted", backup[x]>> : x \in tx.backed}
      BY <2>2, <3>1
    <3>3. QED  BY <2>1, <2>5, <3>1, <3>2 DEF MCleanDoes, MDoes
  <2>6. QED  BY <1>9, <2>3, <2>4, <2>5 DEF M!Clean, M!held
<1>10. CASE M!Rollback
  <2>1. /\ step = "rollback" /\ tx.i \in 1 .. 3 /\ M!Target \in M!Targets /\ UNCHANGED <<place, backup, lost>>
        /\ MKeeps
    BY <1>10, MTargetIs DEF M!Rollback, M!Step, M!held, MKeeps
  <2>2. M!GivenUp => MGivenUp
    <3>1. tx.i - 1 \in 0 .. 3
      BY <2>1
    <3>2. QED  BY <3>1, MTxWritten DEF M!GivenUp, MGivenUp
  <2>3. MRollbackDoes
    BY <1>10, <2>1, <2>2 DEF M!Rollback, MRollbackDoes
  <2>4. QED  BY <2>3 DEF MDoes
<1>11. CASE M!Discard
  <2>1. step = "discard" /\ tx.i \in 1 .. 3 /\ M!Target \in M!Targets /\ UNCHANGED backup /\ MKeeps
    BY <1>11, MTargetIs DEF M!Discard, M!Step, M!held, MKeeps
  <2>2. M!GivenUp => MGivenUp
    <3>1. tx.i - 1 \in 0 .. 3
      BY <2>1
    <3>2. QED  BY <3>1, MTxWritten DEF M!GivenUp, MGivenUp
  <2>3. M!Deleted({place[M!Target]}) \/ UNCHANGED lost => lost' \subseteq lost \cup {<<"deleted", place[M!Target]>>}
    BY DEF M!Deleted
  <2>4. MDiscardDoes
    BY <1>11, <2>1, <2>2, <2>3 DEF M!Discard, MDiscardDoes
  <2>5. QED  BY <2>4 DEF MDoes
<1>12. CASE M!Restore
  <2>1. step = "restore" /\ step' = "rollback" /\ tx.i \in 1 .. 3 /\ M!Target \in M!Targets /\ MKeeps
    BY <1>12, MTargetIs DEF M!Restore, M!Step, M!held, MKeeps
  <2>2. tx.i - 1 \in 0 .. 3
    BY <2>1
  <2>3. /\ M!GivenUp => MGivenUp
        /\ tx' = [tx EXCEPT !.i = @ - 1] =>
             MTxIs(tx.i - 1, tx.seen, tx.backed, tx.placed, tx.incomplete, tx.committed)
    BY <2>2, MTxWritten DEF M!GivenUp, MGivenUp
  <2>4. M!Overwritten(place[M!Target]) => lost' \subseteq lost \cup {<<"overwritten", place[M!Target]>>}
    BY DEF M!Overwritten
  <2>5. MRestoreDoes
    BY <1>12, <2>1, <2>3, <2>4 DEF M!Restore, MRestoreDoes
  <2>6. QED  BY <2>5 DEF MDoes
<1>13. CASE M!RolledBack
  <2>1. MRolledBackDoes
    BY <1>13 DEF M!RolledBack, MRolledBackDoes, M!End, MEndDoes
  <2>2. QED  BY <2>1 DEF MDoes
<1>14. CASE M!Leave \/ M!Kill
  <2>1. MLeaveDoes \/ MKillDoes
    BY <1>14 DEF M!Leave, MLeaveDoes, M!Kill, MKillDoes, M!Working
  <2>2. QED  BY <2>1 DEF MDoes
<1>15. CASE M!ClearLock
  BY <1>15 DEF M!ClearLock, MClearDoes, MDoes, M!Working
<1>16. CASE M!UserEdits
  <2>1. DOMAIN place = M!Targets
    BY DEF MTyped
  <2>2. PICK t \in M!Targets :
          \/ /\ backup' = backup
             /\ place' = [place EXCEPT ![t] = M!Edited(place[t], t \in M!Unlooked)]
          \/ /\ M!Exists(backup[t]) /\ place' = place
             /\ backup' = [backup EXCEPT ![t] = M!Edited(backup[t], step = "clean")]
    BY <1>16, <2>1 DEF M!UserEdits, M!Edit
  <2>3. UNCHANGED <<lock, step, op, prior, before, tx, outcome, lost>>
    BY <1>16 DEF M!UserEdits, M!Edit
  <2>4. \A u : \A late \in BOOLEAN :
          M!Edited(u, late) = Touched(u, IF late /\ u.edit # "found" THEN "late" ELSE "found")
    BY DEF M!Edited, Touched
  <2>5. MEditDoes
    <3>1. CASE backup' = backup /\ place' = [place EXCEPT ![t] = M!Edited(place[t], t \in M!Unlooked)]
      <4>1. PICK s \in {"found", "late"} :
               /\ place' = [place EXCEPT ![t] = Touched(place[t], s)]
               /\ t \in M!Unlooked /\ place[t].edit # "found" => s = "late"
        <5>1. (t \in M!Unlooked) \in BOOLEAN
          OBVIOUS
        <5>2. QED  BY <2>4, <3>1, <5>1
      <4>2. MEditOf(t, s)
        <5>1. backup' = backup /\ place' = [place EXCEPT ![t] = Touched(place[t], s)]
          BY <3>1, <4>1
        <5>2. t \in M!Unlooked /\ place[t].edit # "found" => s = "late"
          BY <4>1
        <5>3. QED  BY <5>1, <5>2 DEF MEditOf
      <4>3. QED  BY <2>3, <4>2 DEF MEditDoes
    <3>2. CASE /\ M!Exists(backup[t]) /\ place' = place
               /\ backup' = [backup EXCEPT ![t] = M!Edited(backup[t], step = "clean")]
      <4>1. PICK s \in {"found", "late"} :
               /\ backup' = [backup EXCEPT ![t] = Touched(backup[t], s)]
               /\ step = "clean" /\ backup[t].edit # "found" => s = "late"
        <5>1. (step = "clean") \in BOOLEAN
          OBVIOUS
        <5>2. QED  BY <2>4, <3>2, <5>1
      <4>2. MEditOf(t, s)
        <5>1. /\ M!Exists(backup[t]) /\ place' = place
              /\ backup' = [backup EXCEPT ![t] = Touched(backup[t], s)]
          BY <3>2, <4>1
        <5>2. step = "clean" /\ backup[t].edit # "found" => s = "late"
          BY <4>1
        <5>3. QED  BY <5>1, <5>2 DEF MEditOf
      <4>3. QED  BY <2>3, <4>2 DEF MEditDoes
    <3>3. QED  BY <2>2, <3>1, <3>2
  <2>6. QED  BY <2>5 DEF MDoes
<1>17. QED
  BY <1>1, <1>2, <1>3, <1>4, <1>5, <1>6, <1>7, <1>8, <1>9, <1>10, <1>11, <1>12, <1>13, <1>14, <1>15, <1>16
     DEF M!Next

\* The counters stay within their bounds.
LEMMA MCounted ==
  ASSUME MTyped, M!Next
  PROVE  ops' \in 0 .. MaxOps /\ faults' \in 0 .. MaxFaults /\ edits' \in 0 .. MaxEdits
<1>1. ops \in 0 .. MaxOps /\ faults \in 0 .. MaxFaults /\ edits \in 0 .. MaxEdits
  BY DEF MTyped
<1>2. (UNCHANGED faults \/ M!Fault) => faults' \in 0 .. MaxFaults
  BY <1>1, ManagedAssumption DEF M!Fault
<1>3. UNCHANGED faults \/ M!Fault
  BY DEF M!Next, M!Start, M!Begin, M!Check, M!Stage, M!Recheck, M!Look, M!Back, M!Put, M!Confirm, M!Clean,
     M!Rollback, M!Discard, M!Restore, M!RolledBack, M!Leave, M!Kill, M!ClearLock, M!UserEdits, M!Edit, M!Works
<1>4. \/ UNCHANGED <<ops, edits>>
      \/ ops < MaxOps /\ ops' = ops + 1 /\ UNCHANGED edits
      \/ edits < MaxEdits /\ edits' = edits + 1 /\ UNCHANGED ops
  BY DEF M!Next, M!Start, M!Begin, M!Check, M!Stage, M!Recheck, M!Look, M!Back, M!Put, M!Confirm, M!Clean,
     M!Rollback, M!Discard, M!Restore, M!RolledBack, M!Leave, M!Kill, M!ClearLock, M!UserEdits, M!Edit, M!Step,
     M!still
<1>5. QED  BY <1>1, <1>2, <1>3, <1>4, ManagedAssumption

\* The transaction's fields, and those of the next.
LEMMA MTxTyped ==
  ASSUME MTyped
  PROVE  /\ tx.i \in 0 .. 3 /\ tx.seen \in [M!Targets -> MTrees] /\ tx.backed \subseteq M!Targets
         /\ tx.placed \subseteq M!Targets /\ tx.incomplete \in BOOLEAN /\ tx.committed \in BOOLEAN
         /\ M!NoChange \in MChanges
         /\ \A i \in 0 .. 3, s \in [M!Targets -> MTrees], b, p \in SUBSET M!Targets, x, c \in BOOLEAN :
              MTxIs(i, s, b, p, x, c) => tx' \in MChanges
<1>1. /\ tx.i \in 0 .. 3 /\ tx.seen \in [M!Targets -> MTrees] /\ tx.backed \subseteq M!Targets
      /\ tx.placed \subseteq M!Targets /\ tx.incomplete \in BOOLEAN /\ tx.committed \in BOOLEAN
  BY DEF MTyped, MChanges
<1>2. M!NoChange \in MChanges
  BY MLayoutIs DEF M!NoChange, MChanges
<1>3. QED  BY <1>1, <1>2 DEF MTxIs, MChanges

\* The next transaction, field by field.
LEMMA MTxFields ==
  ASSUME NEW i, NEW s, NEW b, NEW p, NEW x, NEW c, MTxIs(i, s, b, p, x, c)
  PROVE  tx'.i = i /\ tx'.seen = s /\ tx'.backed = b /\ tx'.placed = p /\ tx'.incomplete = x /\ tx'.committed = c
BY DEF MTxIs

\* A step that gives up on a target.
LEMMA MGivenUpIs ==
  ASSUME MGivenUp
  PROVE  /\ tx'.i = tx.i - 1 /\ tx'.seen = tx.seen /\ tx'.backed = tx.backed /\ tx'.placed = tx.placed
         /\ tx'.incomplete /\ tx'.committed = tx.committed
BY MTxFields DEF MGivenUp

\* What is in the targets and in the backups.
LEMMA MPlaces ==
  ASSUME MTyped
  PROVE  /\ DOMAIN place = M!Targets /\ DOMAIN backup = M!Targets
         /\ \A t \in M!Targets : /\ place[t] \in MTrees /\ backup[t] \in MKept /\ MFound(t) \in MTrees
                                 /\ place[t] \in MKept /\ place[t] \in M!Trees /\ backup[t] \in M!Trees
BY MTreesAre DEF MTyped, MFound

\* The same files.
LEMMA MSames ==
  /\ \A t : M!Same(t, t)
  /\ \A t, u, w : M!Same(t, w) /\ u.v = t.v /\ u.on = t.on /\ u.files = t.files => M!Same(u, w)
  /\ \A t \in MTrees, u \in MTrees : t.v = Nothing /\ u.v = Nothing => M!Same(t, u)
  /\ \A t : M!Exists(t) <=> t # M!NoTree
  /\ \A t, u : M!Same(t, u) => t.v = u.v /\ t.on = u.on
<1>1. /\ \A t : M!Same(t, t)
      /\ \A t, u, w : M!Same(t, w) /\ u.v = t.v /\ u.on = t.on /\ u.files = t.files => M!Same(u, w)
      /\ \A t : M!Exists(t) <=> t # M!NoTree
      /\ \A t, u : M!Same(t, u) => t.v = u.v /\ t.on = u.on
  BY DEF M!Same, M!Exists
<1>2. \A t \in MTrees, u \in MTrees : t.v = Nothing /\ u.v = Nothing => M!Same(t, u)
  BY DEF M!Same, MTrees, MKept, M!Trees
<1>3. QED  BY <1>1, <1>2

\* An edit leaves a tree the same as what was found there.
LEMMA MEditSame ==
  ASSUME MTyped, MEditDoes
  PROVE  /\ UNCHANGED <<lock, step, op, prior, before, tx, outcome, lost>>
         /\ \A t \in M!Targets : /\ place'[t].v = place[t].v /\ place'[t].on = place[t].on
                                 /\ place'[t].files = place[t].files
                                 /\ place'[t].edit = "none" => place'[t] = place[t]
                                 /\ \A u : M!Same(place[t], u) => M!Same(place'[t], u)
         /\ \A t \in M!Targets : /\ backup'[t].v = backup[t].v
                                 /\ \A u : M!Same(backup[t], u) => M!Same(backup'[t], u)
                                 /\ backup[t] = M!NoTree => backup'[t] = M!NoTree
         /\ place' \in [M!Targets -> MTrees] /\ backup' \in [M!Targets -> MKept]
<1>1. PICK t \in M!Targets, s \in {"found", "late"} : MEditOf(t, s)
  BY DEF MEditDoes
<1>2. UNCHANGED <<lock, step, op, prior, before, tx, outcome, lost>>
  BY DEF MEditDoes
<1>3. CASE backup' = backup /\ place' = [place EXCEPT ![t] = Touched(place[t], s)]
  <2>1. /\ Touched(place[t], s) \in MTrees /\ Touched(place[t], s).v = place[t].v
        /\ Touched(place[t], s).on = place[t].on /\ Touched(place[t], s).files = place[t].files
        /\ Touched(place[t], s).edit # "none"
    BY MPlaces, MTreesAre
  <2>2. place' \in [M!Targets -> MTrees] /\ backup' \in [M!Targets -> MKept]
    BY <1>3, <2>1 DEF MTyped
  <2>3. \A x \in M!Targets : place'[x] = IF x = t THEN Touched(place[t], s) ELSE place[x]
    BY <1>3, MPlaces
  <2>4. \A x \in M!Targets : /\ place'[x].v = place[x].v /\ place'[x].on = place[x].on
                             /\ place'[x].files = place[x].files
                             /\ place'[x].edit = "none" => place'[x] = place[x]
    BY <2>1, <2>3
  <2>5. QED  BY <1>2, <1>3, <2>2, <2>4, MSames
<1>4. CASE /\ M!Exists(backup[t]) /\ place' = place /\ backup' = [backup EXCEPT ![t] = Touched(backup[t], s)]
  <2>1. /\ Touched(backup[t], s) \in MKept /\ Touched(backup[t], s).v = backup[t].v
        /\ Touched(backup[t], s).on = backup[t].on /\ Touched(backup[t], s).files = backup[t].files
    BY MPlaces, MTreesAre
  <2>2. place' \in [M!Targets -> MTrees] /\ backup' \in [M!Targets -> MKept]
    BY <1>4, <2>1 DEF MTyped
  <2>3. \A x \in M!Targets : backup'[x] = IF x = t THEN Touched(backup[t], s) ELSE backup[x]
    BY <1>4, MPlaces
  <2>4. \A x \in M!Targets : /\ backup'[x].v = backup[x].v /\ backup'[x].on = backup[x].on
                             /\ backup'[x].files = backup[x].files
                             /\ backup[x] = M!NoTree => backup'[x] = M!NoTree
    BY <1>4, <2>1, <2>3, MSames
  <2>5. QED  BY <1>2, <1>4, <2>2, <2>4, MSames
<1>5. QED  BY <1>1, <1>3, <1>4 DEF MEditOf

-----------------------------------------------------------------------------
(* The modular host. The parts of the invariant, one by one. *)

\* The types are kept.
LEMMA MTypedNext ==
  ASSUME MTyped, MStages, MPrior, MReached, MUndo, MDoes, MCopies, ops' \in 0 .. MaxOps, faults' \in 0 .. MaxFaults,
         edits' \in 0 .. MaxEdits
  PROVE  MTyped'
<1>1. /\ place \in [M!Targets -> MTrees] /\ backup \in [M!Targets -> MKept]
      /\ lock \in BOOLEAN /\ step \in MSteps /\ op \in M!Operations \cup {M!NoOp} /\ prior \in Marks
      /\ before \in [place : [M!Targets -> MTrees]] /\ tx \in MChanges /\ outcome \in Outcomes
      /\ lost \subseteq {"deleted", "overwritten"} \X M!Trees
  BY DEF MTyped
<1>2. M!None \in [M!Targets -> MTrees] /\ M!None \in [M!Targets -> MKept]
  <2>1. M!None \in [M!Targets -> MTrees]
    BY MLayoutIs
  <2>2. QED  BY <2>1, MTreesAre
<1>3. place' \in [M!Targets -> MTrees] /\ backup' \in [M!Targets -> MKept]
  <2>1. CASE MEditDoes
    BY <2>1, MEditSame
  <2>2. CASE MPutDoes
    <3>1. M!Layout(M!Aim)[M!Target] \in MTrees
      <4>1. M!Aim \in Marks /\ M!Target \in M!Targets
        BY <2>2, MAimTyped DEF MPutDoes, MWorking, MForward
      <4>2. QED  BY <4>1, MLayoutIs
    <3>2. QED  BY <1>1, <2>2, <3>1 DEF MPutDoes
  <2>3. CASE MBackDoes
    <3>1. M!Target \in M!Targets /\ place[M!Target] \in MKept
      BY <2>3, MPlaces DEF MBackDoes
    <3>2. QED  BY <1>1, <2>3, <3>1, MTreesAre DEF MBackDoes
  <2>4. CASE MDiscardDoes
    <3>1. M!Target \in M!Targets /\ M!Begun(place[M!Target]) \in MTrees
      <4>1. M!Target \in M!Targets /\ place[M!Target].v # Nothing
        BY <2>4 DEF MDiscardDoes, MUndo, MUndoing
      <4>2. QED  BY <4>1, MPlaces, MTreesAre
    <3>2. QED  BY <1>1, <2>4, <3>1, MTreesAre DEF MDiscardDoes
  <2>5. CASE MRestoreDoes
    <3>1. M!Target \in tx.backed => backup[M!Target] \in MTrees
      <4>1. SUFFICES ASSUME M!Target \in tx.backed
                     PROVE  backup[M!Target] \in MTrees
        OBVIOUS
      <4>2. M!Target \in M!Targets /\ tx.i \in 1 .. 3 /\ step = "restore"
        BY <2>5 DEF MRestoreDoes
      <4>3. MRank[M!Target] = tx.i
        BY <4>2, MRanks DEF M!Target
      <4>4. M!Same(backup[M!Target], MFound(M!Target))
        BY <4>1, <4>2, <4>3 DEF MUndo, MUndoing
      <4>5. backup[M!Target] \in MKept /\ MFound(M!Target) \in MTrees
        BY <4>2, MPlaces
      <4>6. QED  BY <4>4, <4>5 DEF M!Same, MTrees, MKept, M!Trees
    <3>2. M!Target \in M!Targets /\ (UNCHANGED <<place, backup>> \/
             (/\ M!Target \in tx.backed /\ place' = [place EXCEPT ![M!Target] = backup[M!Target]]
              /\ backup' = [backup EXCEPT ![M!Target] = M!NoTree]))
      BY <2>5 DEF MRestoreDoes
    <3>3. QED  BY <1>1, <3>1, <3>2, MTreesAre
  <2>6. CASE MCleanDoes
    <3>1. \A t \in M!Targets : M!Begun(backup[t]) \in MKept /\ M!NoTree \in MKept
      BY MPlaces, MTreesAre
    <3>2. QED  BY <1>1, <1>2, <2>6, <3>1, MTxTyped DEF MCleanDoes
  <2>7. CASE ~(MEditDoes \/ MPutDoes \/ MBackDoes \/ MDiscardDoes \/ MRestoreDoes \/ MCleanDoes)
    BY <1>1, <1>2, <2>7 DEF MDoes, MStartDoes, MCheckDoes, MStageDoes, MRecheckDoes, MLookDoes, MConfirmDoes,
       MRollbackDoes, MRolledBackDoes, MLeaveDoes, MKillDoes, MClearDoes
  <2>8. QED  BY <2>1, <2>2, <2>3, <2>4, <2>5, <2>6, <2>7
<1>4. tx' \in MChanges
  <2>1. \/ UNCHANGED tx \/ tx' = M!NoChange \/ MRecheckDoes \/ MLookDoes \/ MBackDoes \/ MPutDoes
        \/ MConfirmDoes \/ MRollbackDoes \/ MDiscardDoes \/ MRestoreDoes
    BY DEF MDoes, MStartDoes, MCheckDoes, MStageDoes, MCleanDoes, MRolledBackDoes, MLeaveDoes, MKillDoes,
       MClearDoes, MEditDoes
  <2>2. CASE MRecheckDoes
    BY <1>1, <2>2, MTxTyped DEF MRecheckDoes
  <2>3. CASE MLookDoes
    <3>1. tx.i - 1 \in 0 .. 3 /\ [tx.seen EXCEPT ![M!Target] = place[M!Target]] \in [M!Targets -> MTrees]
      BY <1>1, <2>3, MTxTyped DEF MLookDoes
    <3>2. QED  BY <1>1, <2>3, <3>1, MTxTyped DEF MLookDoes
  <2>4. CASE MBackDoes
    <3>1. tx.backed \cup {M!Target} \in SUBSET M!Targets
      BY <2>4, MTxTyped DEF MBackDoes
    <3>2. QED  BY <1>1, <2>4, <3>1, MTxTyped DEF MBackDoes
  <2>5. CASE MPutDoes
    <3>1. tx.placed \cup {M!Target} \in SUBSET M!Targets /\ (IF tx.i = 3 THEN 3 ELSE tx.i + 1) \in 0 .. 3
      BY <2>5, MTxTyped DEF MPutDoes
    <3>2. QED  BY <1>1, <2>5, <3>1, MTxTyped DEF MPutDoes
  <2>6. CASE MConfirmDoes
    <3>1. UNCHANGED tx \/ MTxIs(tx.i, tx.seen, tx.backed, tx.placed, tx.incomplete, TRUE)
      BY <2>6 DEF MConfirmDoes
    <3>2. CASE MTxIs(tx.i, tx.seen, tx.backed, tx.placed, tx.incomplete, TRUE)
      BY <3>2, MTxTyped
    <3>3. QED  BY <1>1, <3>1, <3>2
  <2>7. CASE MRollbackDoes \/ MDiscardDoes \/ MRestoreDoes
    <3>1. /\ tx.i \in 1 .. 3
          /\ \/ UNCHANGED tx \/ MGivenUp
             \/ MTxIs(tx.i - 1, tx.seen, tx.backed, tx.placed, tx.incomplete, tx.committed)
      BY <2>7 DEF MRollbackDoes, MDiscardDoes, MRestoreDoes
    <3>2. tx.i - 1 \in 0 .. 3
      BY <3>1
    <3>3. MGivenUp => tx' \in MChanges
      BY <3>2, MTxTyped DEF MGivenUp
    <3>4. QED  BY <1>1, <3>1, <3>2, <3>3, MTxTyped
  <2>8. QED  BY <1>1, <2>1, <2>2, <2>3, <2>4, <2>5, <2>6, <2>7, MTxTyped
<1>5. lost' \subseteq {"deleted", "overwritten"} \X M!Trees
  <2>1. CASE MCleanDoes
    <3>1. \A t \in tx.backed : backup[t] \in M!Trees
      BY MTxTyped, MPlaces
    <3>2. lost' \subseteq lost \cup {<<"deleted", backup[t]>> : t \in tx.backed}
      BY <2>1 DEF MCleanDoes
    <3>3. QED  BY <1>1, <3>1, <3>2
  <2>2. CASE MPutDoes \/ MDiscardDoes \/ MRestoreDoes
    <3>1. M!Target \in M!Targets /\ place[M!Target] \in M!Trees
      BY <2>2, MPlaces DEF MPutDoes, MDiscardDoes, MRestoreDoes
    <3>2. lost' \subseteq lost \cup {<<"overwritten", place[M!Target]>>, <<"deleted", place[M!Target]>>}
      BY <2>2 DEF MPutDoes, MDiscardDoes, MRestoreDoes
    <3>3. QED  BY <1>1, <3>1, <3>2
  <2>3. CASE ~(MCleanDoes \/ MPutDoes \/ MDiscardDoes \/ MRestoreDoes)
    <3>1. lost' = lost \/ lost' = {}
      BY <2>3 DEF MDoes, MStartDoes, MCheckDoes, MStageDoes, MRecheckDoes, MLookDoes, MBackDoes, MConfirmDoes,
         MRollbackDoes, MRolledBackDoes, MLeaveDoes, MKillDoes, MClearDoes, MEditDoes
    <3>2. QED  BY <1>1, <3>1
  <2>4. QED  BY <2>1, <2>2, <2>3
<1>6. /\ lock' \in BOOLEAN /\ step' \in MSteps /\ op' \in M!Operations \cup {M!NoOp}
      /\ before' \in [place : [M!Targets -> MTrees]] /\ outcome' \in Outcomes
  <2>1. CASE MStartDoes
    <3>1. [place |-> place] \in [place : [M!Targets -> MTrees]]
      BY <1>1
    <3>2. QED  BY <1>1, <2>1, <3>1 DEF MStartDoes, MSteps, Outcomes
  <2>2. CASE MCheckDoes \/ MStageDoes \/ MCleanDoes \/ MRolledBackDoes \/ MLeaveDoes \/ MKillDoes \/ MClearDoes
             \/ MEditDoes
    BY <1>1, <2>2 DEF MCheckDoes, MStageDoes, MCleanDoes, MRolledBackDoes, MLeaveDoes, MKillDoes, MClearDoes,
       MEditDoes, MEndDoes, MSteps, Outcomes
  <2>3. CASE MRecheckDoes \/ MLookDoes \/ MBackDoes \/ MConfirmDoes \/ MRollbackDoes \/ MDiscardDoes
             \/ MRestoreDoes
    BY <1>1, <2>3 DEF MRecheckDoes, MLookDoes, MBackDoes, MConfirmDoes, MRollbackDoes, MDiscardDoes,
       MRestoreDoes, MKeeps, MSteps, Outcomes
  <2>4. CASE MPutDoes
    BY <1>1, <2>4 DEF MPutDoes, MKeeps, MSteps, Outcomes
  <2>5. QED  BY <2>1, <2>2, <2>3, <2>4 DEF MDoes
<1>7. prior' \in Marks
  <2>1. UNCHANGED prior \/ prior' = M!NotOwned \/ prior' = MarkOf(place["store"])
    BY DEF MDoes, MStartDoes, MCheckDoes, MStageDoes, MRecheckDoes, MLookDoes, MBackDoes, MPutDoes,
       MConfirmDoes, MCleanDoes, MRollbackDoes, MDiscardDoes, MRestoreDoes, MRolledBackDoes, MLeaveDoes,
       MKillDoes, MClearDoes, MEditDoes, MEndDoes, MKeeps
  <2>2. place["store"] \in MTrees
    BY <1>1, MRanks
  <2>3. QED  BY <1>1, <2>1, <2>2, MTreesAre, MLayoutIs
<1>8. QED  BY <1>3, <1>4, <1>5, <1>6, <1>7 DEF MTyped

\* The steps of an operation.
LEMMA MStagesNext ==
  ASSUME MTyped, MStages, MDoes
  PROVE  MStages'
<1>. USE DEF MStages, MWorking, MForward, MUndoing, Results
<1>1. M!NoChange.i = 1 /\ ~M!NoChange.incomplete /\ ~M!NoChange.committed
  BY DEF M!NoChange
<1>2. CASE MStartDoes
  BY <1>1, <1>2 DEF MStartDoes
<1>3. CASE MCheckDoes \/ MStageDoes
  BY <1>1, <1>3 DEF MCheckDoes, MStageDoes, MEndDoes
<1>4. CASE MRolledBackDoes
  BY <1>4 DEF MRolledBackDoes, MEndDoes
<1>5. CASE MCleanDoes
  BY <1>5 DEF MCleanDoes, MEndDoes
<1>6. CASE MLeaveDoes \/ MKillDoes \/ MClearDoes
  BY <1>6 DEF MLeaveDoes, MKillDoes, MClearDoes
<1>7. CASE MEditDoes
  BY <1>7 DEF MEditDoes
<1>8. CASE MRecheckDoes
  BY <1>1, <1>8, MTxFields DEF MRecheckDoes, MKeeps
<1>9. CASE MLookDoes
  <2>1. tx'.incomplete = tx.incomplete /\ tx'.committed = tx.committed /\ (step' = "back" => tx'.i = tx.i)
    BY <1>9, MTxFields DEF MLookDoes
  <2>2. QED  BY <1>9, <2>1 DEF MLookDoes, MKeeps
<1>10. CASE MBackDoes
  <2>1. tx'.incomplete = tx.incomplete /\ tx'.committed = tx.committed /\ tx'.i = tx.i
    BY <1>10, MTxFields DEF MBackDoes
  <2>2. QED  BY <1>10, <2>1 DEF MBackDoes, MKeeps
<1>11. CASE MPutDoes
  <2>1. /\ tx'.incomplete = tx.incomplete /\ tx'.committed = tx.committed
        /\ step' # "rollback" => tx'.i = IF tx.i = 3 THEN 3 ELSE tx.i + 1
    BY <1>11, MTxFields DEF MPutDoes
  <2>2. QED  BY <1>11, <2>1 DEF MPutDoes, MKeeps
<1>12. CASE MConfirmDoes
  <2>1. /\ tx'.incomplete = tx.incomplete /\ tx'.i = tx.i
        /\ step' = "clean" => tx'.committed
        /\ step' = "rollback" => tx'.committed = tx.committed
    BY <1>12, MTxFields DEF MConfirmDoes
  <2>2. QED  BY <1>12, <2>1 DEF MConfirmDoes, MKeeps
<1>13. CASE MRollbackDoes \/ MDiscardDoes \/ MRestoreDoes
  <2>1. /\ tx'.committed = tx.committed
        /\ step' \in {"discard", "restore"} => tx' = tx
        /\ step \in {"rollback", "discard", "restore"} /\ tx.i \in 1 .. 3 /\ MKeeps
        /\ step' \in {"rollback", "discard", "restore"}
    <3>1. CASE MGivenUp
      BY <1>13, <3>1, MGivenUpIs DEF MRollbackDoes, MDiscardDoes, MRestoreDoes
    <3>2. CASE ~MGivenUp
      BY <1>13, <3>2, MTxFields DEF MRollbackDoes, MDiscardDoes, MRestoreDoes
    <3>3. QED  BY <3>1, <3>2
  <2>2. tx.i # 0
    BY <2>1
  <2>3. QED  BY <2>1, <2>2 DEF MKeeps
<1>14. QED
  BY <1>2, <1>3, <1>4, <1>5, <1>6, <1>7, <1>8, <1>9, <1>10, <1>11, <1>12, <1>13 DEF MDoes

\* What the marker said is what the operation found.
LEMMA MPriorNext ==
  ASSUME MTyped, MStages, MPrior, MCopies, MDoes
  PROVE  MPrior'
<1>. USE DEF MPrior, MFound
<1>1. CASE MCheckDoes
  <2>1. CASE step' = "leave"
    BY <2>1 DEF MWorking, MForward, MUndoing
  <2>2. CASE step' = "stage"
    <3>1. /\ step = "check" /\ UNCHANGED <<place, before, op>> /\ prior' = MarkOf(place["store"])
          /\ place = M!Layout(prior') /\ (op.kind # "install" => prior' # M!NotOwned)
      BY <1>1, <2>2 DEF MCheckDoes
    <3>2. prior' \in Marks
      BY <3>1, MPlaces, MRanks, MTreesAre
    <3>3. \A t \in M!Targets : place[t] = before.place[t]
      BY <3>1, <3>2, MLayoutIs
    <3>4. before.place = place
      <4>1. before.place \in [M!Targets -> MTrees] /\ place \in [M!Targets -> MTrees]
        BY DEF MTyped
      <4>2. QED  BY <3>3, <4>1
    <3>5. QED  BY <2>2, <3>1, <3>4
  <2>3. QED  BY <1>1, <2>1, <2>2 DEF MCheckDoes
<1>2. CASE MStartDoes
  BY <1>2 DEF MStartDoes, MWorking, MForward, MUndoing
<1>3. CASE MEditDoes
  <2>1. UNCHANGED <<step, op, prior, before>>
    BY <1>3, MEditSame
  <2>2. \A t \in M!Targets : place'[t].edit = "none" => place'[t] = place[t]
    BY <1>3, MEditSame
  <2>3. QED  BY <2>1, <2>2
<1>4. CASE ~(MCheckDoes \/ MStartDoes \/ MEditDoes)
  <2>1. step' \in {"idle", "leave"} \/ (UNCHANGED <<op, prior, before>> /\ step \in MWorking \ {"check"} /\ step' # "check")
    BY <1>4 DEF MDoes, MStageDoes, MRecheckDoes, MLookDoes, MBackDoes, MPutDoes, MConfirmDoes, MCleanDoes,
       MRollbackDoes, MDiscardDoes, MRestoreDoes, MRolledBackDoes, MLeaveDoes, MKillDoes, MClearDoes,
       MEndDoes, MKeeps, MWorking, MForward, MUndoing
  <2>2. QED  BY <2>1 DEF MWorking, MForward, MUndoing
<1>5. QED  BY <1>1, <1>2, <1>3, <1>4

\* Nothing but the swap and its undoing moves a tree.
LEMMA MCopiesNext ==
  ASSUME MTyped, MStages, MCopies, MReached, MUndo, MDoes
  PROVE  MCopies'
<1>. USE DEF MCopies, MChanged, MFound
<1>1. /\ DOMAIN place = M!Targets /\ DOMAIN backup = M!Targets
      /\ \A t \in M!Targets : place[t] \in MTrees /\ before.place[t] \in MTrees
  BY MPlaces
<1>2. CASE MStartDoes
  <2>1. M!NoChange.backed = {} /\ M!NoChange.placed = {} /\ \A t \in M!Targets : ~M!Exists(M!None[t])
    BY DEF M!NoChange, M!None, M!Exists
  <2>2. CASE step' = "check"
    BY <1>2, <2>1, <2>2, MSames DEF MStartDoes
  <2>3. CASE step' # "check"
    BY <1>2, <2>3 DEF MStartDoes, MForward, MUndoing
  <2>4. QED  BY <2>2, <2>3
<1>3. CASE MCheckDoes \/ MStageDoes \/ MRolledBackDoes \/ MLeaveDoes \/ MKillDoes \/ MClearDoes \/ MCleanDoes
  <2>1. \/ step' \in {"idle", "leave", "clean"}
        \/ step \in {"check", "stage"} /\ UNCHANGED <<place, backup, before, tx>>
    BY <1>3 DEF MCheckDoes, MStageDoes, MRolledBackDoes, MLeaveDoes, MKillDoes, MClearDoes, MCleanDoes, MEndDoes
  <2>2. QED  BY <2>1 DEF MForward, MUndoing
<1>4. CASE MRecheckDoes \/ MLookDoes \/ MConfirmDoes
  <2>1. tx'.backed = tx.backed /\ tx'.placed = tx.placed
    <3>1. CASE MRecheckDoes
      BY <3>1, MTxFields DEF MRecheckDoes
    <3>2. CASE MLookDoes
      BY <3>2, MTxFields DEF MLookDoes
    <3>3. CASE MConfirmDoes
      BY <3>3, MTxFields DEF MConfirmDoes
    <3>4. QED  BY <1>4, <3>1, <3>2, <3>3
  <2>2. UNCHANGED <<place, backup, before>> /\ step \in MForward
    BY <1>4 DEF MRecheckDoes, MLookDoes, MConfirmDoes, MKeeps, MForward
  <2>3. QED  BY <2>1, <2>2
<1>5. CASE MRollbackDoes
  <2>1. tx'.backed = tx.backed /\ tx'.placed = tx.placed
    BY <1>5, MGivenUpIs DEF MRollbackDoes
  <2>2. UNCHANGED <<place, backup, before>> /\ step \in MUndoing
    BY <1>5 DEF MRollbackDoes, MKeeps, MUndoing
  <2>3. QED  BY <2>1, <2>2
<1>6. CASE MBackDoes
  <2>1. CASE UNCHANGED <<place, backup, tx>>
    BY <1>6, <2>1 DEF MBackDoes, MKeeps, MForward
  <2>2. CASE ~UNCHANGED <<place, backup, tx>>
    <3>1. /\ place' = [place EXCEPT ![M!Target] = M!NoTree] /\ backup' = [backup EXCEPT ![M!Target] = place[M!Target]]
          /\ tx'.backed = tx.backed \cup {M!Target} /\ tx'.placed = tx.placed
          /\ step = "back" /\ tx.i \in 1 .. 3 /\ M!Target \in M!Targets /\ before' = before
      BY <1>6, <2>2, MTxFields DEF MBackDoes, MKeeps
    <3>2. M!Same(place[M!Target], before.place[M!Target]) /\ M!Target \notin tx.placed
      <4>1. MRank[M!Target] = tx.i
        BY <3>1, MRanks DEF M!Target
      <4>2. M!Target \notin MChanged
        BY <3>1, <4>1 DEF MReached
      <4>3. QED  BY <3>1, <4>2 DEF MForward
    <3>3. step \in MForward
      BY <3>1 DEF MForward
    <3>4. ASSUME NEW t \in M!Targets
          PROVE  /\ M!Exists(backup'[t]) => t \in tx'.backed
                 /\ t \notin tx'.backed \cup tx'.placed => M!Same(place'[t], before.place[t])
                 /\ t \in tx'.backed => M!Same(backup'[t], before.place[t]) \/ M!Same(place'[t], before.place[t])
                 /\ t \in tx'.placed \ tx'.backed => before.place[t].v = Nothing
      <4>1. CASE t = M!Target
        <5>1. backup'[t] = place[t] /\ t \in tx'.backed
          BY <1>1, <3>1, <4>1
        <5>2. QED  BY <3>2, <4>1, <5>1
      <4>2. CASE t # M!Target
        <5>1. place'[t] = place[t] /\ backup'[t] = backup[t] /\ (t \in tx'.backed <=> t \in tx.backed)
          BY <1>1, <3>1, <4>2
        <5>2. QED  BY <3>1, <3>3, <5>1
      <4>3. QED  BY <4>1, <4>2
    <3>5. QED  BY <3>1, <3>4
  <2>3. QED  BY <2>1, <2>2
<1>7. CASE MPutDoes
  <2>1. step = "put" /\ step \in MForward /\ tx.i \in 1 .. 3 /\ M!Target \in M!Targets /\ UNCHANGED <<backup, before>>
    BY <1>7 DEF MPutDoes, MKeeps, MForward
  <2>2. CASE tx'.backed = tx.backed /\ tx'.placed = tx.placed /\ place' = place
    BY <2>1, <2>2
  <2>3. CASE ~(tx'.backed = tx.backed /\ tx'.placed = tx.placed /\ place' = place)
    <3>1. tx'.backed = tx.backed /\ tx'.placed = tx.placed \cup {M!Target}
      BY <1>7, <2>3, MTxFields DEF MPutDoes
    <3>2. \A t \in M!Targets \ {M!Target} : place'[t] = place[t]
      BY <1>1, <1>7, <2>3 DEF MPutDoes
    <3>3. M!Target \in tx.backed => M!Same(backup[M!Target], before.place[M!Target])
      BY <2>1 DEF MReached
    <3>4. M!Target \notin tx.backed => before.place[M!Target].v = Nothing
      <4>1. MRank[M!Target] = tx.i /\ place[M!Target].v = Nothing
        BY <2>1, MRanks DEF M!Target, MReached
      <4>2. M!Target \notin tx.placed
        BY <2>1, <4>1, MRanks DEF MReached
      <4>3. QED  BY <2>1, <4>1, <4>2, MSames
    <3>5. QED  BY <2>1, <3>1, <3>2, <3>3, <3>4
  <2>4. QED  BY <2>2, <2>3
<1>8. CASE MDiscardDoes
  <2>1. /\ step = "discard" /\ step \in MUndoing /\ tx.i \in 1 .. 3 /\ M!Target \in M!Targets
        /\ UNCHANGED <<backup, before>> /\ tx'.backed = tx.backed /\ tx'.placed = tx.placed
    BY <1>8, MGivenUpIs DEF MDiscardDoes, MKeeps, MUndoing
  <2>2. M!Target \in tx.placed /\ \A t \in M!Targets \ {M!Target} : place'[t] = place[t]
    BY <1>1, <1>8, <2>1 DEF MDiscardDoes, MUndo
  <2>3. M!Target \in tx.backed => M!Same(backup[M!Target], before.place[M!Target])
    <3>1. MRank[M!Target] = tx.i
      BY <2>1, MRanks DEF M!Target
    <3>2. QED  BY <2>1, <3>1 DEF MUndo
  <2>4. QED  BY <2>1, <2>2, <2>3
<1>9. CASE MRestoreDoes
  <2>1. /\ step = "restore" /\ step \in MUndoing /\ tx.i \in 1 .. 3 /\ M!Target \in M!Targets /\ before' = before
        /\ tx'.backed = tx.backed /\ tx'.placed = tx.placed
        /\ \/ UNCHANGED <<place, backup>>
           \/ /\ M!Target \in tx.backed
              /\ place' = [place EXCEPT ![M!Target] = backup[M!Target]] /\ backup' = [backup EXCEPT ![M!Target] = M!NoTree]
    BY <1>9, MTxFields, MGivenUpIs DEF MRestoreDoes, MKeeps, MUndoing
  <2>2. CASE UNCHANGED <<place, backup>>
    BY <2>1, <2>2
  <2>3. CASE ~UNCHANGED <<place, backup>>
    <3>1. M!Same(backup[M!Target], before.place[M!Target])
      <4>1. MRank[M!Target] = tx.i
        BY <2>1, MRanks DEF M!Target
      <4>2. QED  BY <2>1, <2>3, <4>1 DEF MUndo
    <3>2. /\ place'[M!Target] = backup[M!Target] /\ backup'[M!Target] = M!NoTree
          /\ \A t \in M!Targets \ {M!Target} : place'[t] = place[t] /\ backup'[t] = backup[t]
      BY <1>1, <2>1, <2>3
    <3>3. ~M!Exists(M!NoTree)
      BY DEF M!Exists
    <3>4. QED  BY <2>1, <2>3, <3>1, <3>2, <3>3
  <2>4. QED  BY <2>2, <2>3
<1>10. CASE MEditDoes
  <2>1. UNCHANGED <<step, tx, before>>
    BY <1>10, MEditSame
  <2>2. \A t \in M!Targets :
          /\ M!Same(place[t], before.place[t]) => M!Same(place'[t], before.place[t])
          /\ M!Same(backup[t], before.place[t]) => M!Same(backup'[t], before.place[t])
          /\ M!Exists(backup'[t]) => M!Exists(backup[t])
    BY <1>10, MEditSame, MSames
  <2>3. QED  BY <2>1, <2>2
<1>11. QED
  BY <1>2, <1>3, <1>4, <1>5, <1>6, <1>7, <1>8, <1>9, <1>10 DEF MDoes

\* How far the swap has come.
LEMMA MReachedNext ==
  ASSUME MTyped, MStages, MCopies, MReached, MDoes
  PROVE  MReached'
<1>. USE DEF MReached, MForward
<1>1. /\ DOMAIN place = M!Targets /\ DOMAIN backup = M!Targets
      /\ \A t \in M!Targets : place[t] \in MTrees /\ MFound(t) \in MTrees
  BY MPlaces
<1>2. tx.i \in 0 .. 3 /\ tx.backed \subseteq M!Targets /\ tx.placed \subseteq M!Targets
  BY MTxTyped
<1>3. M!NoChange.backed = {} /\ M!NoChange.placed = {} /\ MChanged = tx.backed \cup tx.placed
  BY DEF M!NoChange, MChanged
<1>4. CASE MStartDoes
  BY <1>3, <1>4 DEF MStartDoes
<1>5. CASE MCheckDoes \/ MStageDoes
  BY <1>3, <1>5 DEF MCheckDoes, MStageDoes, MEndDoes, MStages
<1>6. CASE MRecheckDoes
  BY <1>3, <1>6 DEF MRecheckDoes, MStages, MChanged
<1>7. CASE MRollbackDoes \/ MDiscardDoes \/ MRestoreDoes \/ MRolledBackDoes \/ MCleanDoes \/ MLeaveDoes
           \/ MKillDoes \/ MClearDoes
  <2>1. step' \in {"idle", "leave", "clean", "rollback", "discard", "restore"}
    BY <1>7 DEF MRollbackDoes, MDiscardDoes, MRestoreDoes, MRolledBackDoes, MCleanDoes, MLeaveDoes, MKillDoes,
       MClearDoes, MEndDoes
  <2>2. QED  BY <2>1
<1>8. CASE MConfirmDoes
  BY <1>8 DEF MConfirmDoes
<1>9. CASE MLookDoes
  <2>1. CASE step' = "rollback"
    BY <2>1
  <2>2. CASE step' = "back"
    <3>1. /\ step = "look" /\ UNCHANGED <<place, backup, before>>
          /\ tx'.i = tx.i /\ tx'.backed = tx.backed /\ tx'.placed = tx.placed
      BY <1>9, <2>2, MTxFields DEF MLookDoes, MKeeps
    <3>2. QED  BY <2>2, <3>1 DEF MChanged, MFound
  <2>3. QED  BY <1>9, <2>1, <2>2 DEF MLookDoes
<1>10. CASE MBackDoes
  <2>1. CASE step' = "rollback"
    BY <2>1
  <2>2. CASE step' = "put" /\ UNCHANGED <<place, backup, tx>>
    <3>1. place[M!Target].v = Nothing /\ step = "back" /\ before' = before
      <4>1. place[M!Target] = M!NoTree \/ place' = [place EXCEPT ![M!Target] = M!NoTree]
        BY <1>10, <2>2 DEF MBackDoes
      <4>2. M!Target \in M!Targets /\ step = "back" /\ before' = before /\ place' = place
        BY <1>10, <2>2 DEF MBackDoes, MKeeps
      <4>3. place[M!Target] = M!NoTree
        BY <1>1, <4>1, <4>2
      <4>4. QED  BY <4>2, <4>3, MTreesAre
    <3>2. M!Target' = M!Target
      BY <2>2 DEF M!Target
    <3>3. \A t \in MChanged : MRank[t] < tx.i /\ MRank[t] <= tx.i
      BY <1>2, <1>3, <3>1, MRanks
    <3>4. QED  BY <1>3, <2>2, <3>1, <3>2, <3>3 DEF MFound
  <2>3. CASE step' = "put" /\ ~UNCHANGED <<place, backup, tx>>
    <3>1. /\ place' = [place EXCEPT ![M!Target] = M!NoTree] /\ backup' = [backup EXCEPT ![M!Target] = place[M!Target]]
          /\ tx'.backed = tx.backed \cup {M!Target} /\ tx'.placed = tx.placed /\ tx'.i = tx.i
          /\ step = "back" /\ tx.i \in 1 .. 3 /\ M!Target \in M!Targets /\ before' = before
      BY <1>10, <2>3, MTxFields DEF MBackDoes, MKeeps
    <3>2. M!Target' = M!Target
      BY <3>1 DEF M!Target
    <3>3. MRank[M!Target] = tx.i
      BY <3>1, MRanks DEF M!Target
    <3>4. M!Target \notin MChanged
      BY <3>1, <3>3
    <3>5. M!Same(place[M!Target], MFound(M!Target))
      BY <3>1, <3>4 DEF MCopies
    <3>6. \A t \in tx'.backed : MRank[t] <= tx'.i
      BY <1>2, <1>3, <3>1, <3>3, MRanks
    <3>7. \A t \in tx'.backed : M!Same(backup'[t], MFound(t)) /\ (t \notin tx'.placed => place'[t].v = Nothing)
      BY <1>1, <1>2, <3>1, <3>5, MTreesAre
    <3>8. \A t \in tx'.placed : MRank[t] < tx'.i
      BY <1>2, <1>3, <3>1
    <3>9. place'[M!Target].v = Nothing
      BY <1>1, <3>1, MTreesAre
    <3>10. QED  BY <2>3, <3>1, <3>2, <3>6, <3>7, <3>8, <3>9 DEF MFound
  <2>4. QED  BY <1>10, <2>1, <2>2, <2>3 DEF MBackDoes
<1>11. CASE MPutDoes
  <2>1. CASE step' = "rollback"
    BY <2>1
  <2>2. CASE step' # "rollback"
    <3>1. /\ step = "put" /\ tx.i \in 1 .. 3 /\ M!Target \in M!Targets /\ UNCHANGED <<backup, before>>
          /\ step' = (IF tx.i = 3 THEN "confirm" ELSE "look") /\ tx'.backed = tx.backed
          /\ tx'.i = IF tx.i = 3 THEN 3 ELSE tx.i + 1
      BY <1>11, <2>2, MTxFields DEF MPutDoes, MKeeps
    <3>2. \/ tx'.placed = tx.placed /\ place' = place
          \/ tx'.placed = tx.placed \cup {M!Target} /\ \A t \in M!Targets \ {M!Target} : place'[t] = place[t]
      BY <1>1, <1>11, <2>2, MTxFields DEF MPutDoes
    <3>3. MRank[M!Target] = tx.i
      BY <3>1, MRanks DEF M!Target
    <3>4. step' = "look" => \A t \in MChanged' : MRank[t] < tx'.i
      BY <1>2, <1>3, <3>1, <3>2, <3>3, MRanks DEF MChanged
    <3>5. \A t \in tx.backed : t \notin tx'.placed => place'[t].v = Nothing
      BY <1>2, <3>1, <3>2
    <3>6. QED  BY <3>1, <3>4, <3>5 DEF MFound
  <2>3. QED  BY <2>1, <2>2
<1>12. CASE MEditDoes
  <2>1. UNCHANGED <<step, tx, before>>
    BY <1>12, MEditSame
  <2>2. M!Target' = M!Target /\ MChanged' = MChanged
    BY <2>1 DEF M!Target, MChanged
  <2>3. step = "put" => M!Target \in M!Targets
    BY MTargetIs
  <2>4. /\ \A t \in M!Targets : place'[t].v = place[t].v
        /\ \A t \in tx.backed : M!Same(backup[t], MFound(t)) => M!Same(backup'[t], MFound(t))
    BY <1>2, <1>12, MEditSame
  <2>5. QED  BY <1>2, <2>1, <2>2, <2>3, <2>4 DEF MFound
<1>13. QED
  BY <1>4, <1>5, <1>6, <1>7, <1>8, <1>9, <1>10, <1>11, <1>12 DEF MDoes

\* How far it has been undone.
LEMMA MUndoNext ==
  ASSUME MTyped, MStages, MPrior, MAimed, MCopies, MReached, MUndo, MDoes
  PROVE  MUndo'
<1>. USE DEF MUndo, MUndoing
<1>1. /\ DOMAIN place = M!Targets /\ DOMAIN backup = M!Targets
      /\ \A t \in M!Targets : place[t] \in MTrees /\ MFound(t) \in MTrees
  BY MPlaces
<1>2. /\ tx.i \in 0 .. 3 /\ tx.backed \subseteq M!Targets /\ tx.placed \subseteq M!Targets
      /\ \A t \in M!Targets : MRank[t] \in 1 .. 3
  BY MTxTyped, MRanks
<1>3. CASE MStartDoes \/ MCheckDoes \/ MStageDoes \/ MRolledBackDoes \/ MCleanDoes \/ MLeaveDoes \/ MKillDoes
           \/ MClearDoes
  <2>1. step' \notin {"rollback", "discard", "restore"}
    BY <1>3 DEF MStartDoes, MCheckDoes, MStageDoes, MRolledBackDoes, MCleanDoes, MLeaveDoes, MKillDoes,
       MClearDoes, MEndDoes
  <2>2. QED  BY <2>1
\* Whatever was not changed is what was found, and every backup too.
<1>4. ASSUME step \in MForward, step' = "rollback", UNCHANGED <<place, backup, before>>,
             tx'.backed = tx.backed, tx'.placed = tx.placed, tx'.i \in 0 .. 3,
             \A t \in MChanged : MRank[t] <= tx'.i
      PROVE  MUndo'
  <2>1. \A t \in M!Targets : MRank[t] > tx'.i => M!Same(place[t], MFound(t))
    <3>1. SUFFICES ASSUME NEW t \in M!Targets, MRank[t] > tx'.i
                   PROVE  M!Same(place[t], MFound(t))
      OBVIOUS
    <3>2. t \notin MChanged
      <4>1. ~(MRank[t] <= tx'.i)
        BY <1>2, <1>4, <3>1
      <4>2. QED  BY <1>4, <4>1
    <3>3. QED  BY <1>4, <3>1, <3>2 DEF MCopies, MForward
  <2>2. QED  BY <1>4, <2>1 DEF MReached, MFound
<1>5. CASE step' # "rollback" /\ (MRecheckDoes \/ MLookDoes \/ MBackDoes \/ MPutDoes \/ MConfirmDoes)
  <2>1. step' \notin {"rollback", "discard", "restore"}
    BY <1>5 DEF MRecheckDoes, MLookDoes, MBackDoes, MPutDoes, MConfirmDoes
  <2>2. QED  BY <2>1
<1>6. CASE step' = "rollback" /\ MRecheckDoes
  <2>1. MChanged = {}
    BY <1>6 DEF MRecheckDoes, MStages, M!NoChange, MChanged
  <2>2. tx'.i = 0 /\ tx'.backed = tx.backed /\ tx'.placed = tx.placed
    BY <1>6, MTxFields DEF MRecheckDoes
  <2>3. QED  BY <1>4, <1>6, <2>1, <2>2 DEF MRecheckDoes, MKeeps, MForward
<1>7. CASE step' = "rollback" /\ MLookDoes
  <2>1. /\ tx'.i = tx.i - 1 /\ tx'.backed = tx.backed /\ tx'.placed = tx.placed
        /\ step = "look" /\ tx.i \in 1 .. 3
    BY <1>7, MTxFields DEF MLookDoes
  <2>2. \A t \in MChanged : MRank[t] <= tx'.i
    <3>1. MChanged \subseteq M!Targets
      BY <1>2 DEF MChanged
    <3>2. QED  BY <1>2, <2>1, <3>1 DEF MReached
  <2>3. tx'.i \in 0 .. 3
    BY <2>1
  <2>4. QED  BY <1>4, <1>7, <2>1, <2>2, <2>3 DEF MLookDoes, MKeeps, MForward
<1>8. CASE step' = "rollback" /\ (MBackDoes \/ MPutDoes \/ MConfirmDoes)
  <2>1. tx' = tx /\ UNCHANGED <<place, backup, before>> /\ step \in {"back", "put", "confirm"}
    BY <1>8 DEF MBackDoes, MPutDoes, MConfirmDoes, MKeeps
  <2>2. \A t \in MChanged : MRank[t] <= tx.i
    <3>1. MChanged \subseteq M!Targets
      BY <1>2 DEF MChanged
    <3>2. step = "confirm" => tx.i = 3
      BY DEF MStages
    <3>3. QED  BY <1>2, <2>1, <3>1, <3>2 DEF MReached, MChanged
  <2>3. QED  BY <1>2, <1>4, <1>8, <2>1, <2>2 DEF MForward
\* A change that cannot be undone is left alone.
<1>9. ASSUME step \in MUndoing, tx.i \in 1 .. 3, MGivenUp, step' = "rollback", UNCHANGED <<place, backup, before>>
      PROVE  MUndo'
  <2>1. tx'.i = tx.i - 1 /\ tx'.incomplete /\ tx'.backed = tx.backed /\ tx'.placed = tx.placed
    BY <1>9, MGivenUpIs
  <2>2. \A t \in M!Targets : MRank[t] <= tx'.i => MRank[t] <= tx.i
    BY <1>2, <1>9, <2>1
  <2>3. QED  BY <1>9, <2>1, <2>2 DEF MFound
<1>10. CASE MRollbackDoes
  <2>1. /\ step = "rollback" /\ tx.i \in 1 .. 3 /\ M!Target \in M!Targets /\ UNCHANGED <<place, backup, before>>
    BY <1>10 DEF MRollbackDoes, MKeeps
  <2>2. CASE step' = "rollback" /\ MGivenUp
    BY <1>9, <2>1, <2>2
  <2>3. CASE ~(step' = "rollback" /\ MGivenUp)
    <3>1. /\ tx' = tx
          /\ \/ step' = "restore" /\ M!Target \notin tx.placed
             \/ step' = "discard" /\ M!Target \in tx.placed /\ place[M!Target] = M!Layout(M!Aim)[M!Target]
      BY <1>10, <2>3 DEF MRollbackDoes
    <3>2. M!Target' = M!Target
      BY <3>1 DEF M!Target
    <3>3. step' = "discard" => place[M!Target].v # Nothing
      <4>1. M!Aim \in Marks /\ (M!Target \in tx.placed => M!Exists(M!Layout(M!Aim)[M!Target]))
        BY <2>1, MAimTyped DEF MAimed, MWorking
      <4>2. QED  BY <2>1, <3>1, <4>1, MLayoutIs, ManagedAssumption
    <3>4. QED  BY <2>1, <3>1, <3>2, <3>3 DEF MFound
  <2>4. QED  BY <2>2, <2>3
<1>11. CASE MDiscardDoes
  <2>1. step = "discard" /\ tx.i \in 1 .. 3 /\ M!Target \in M!Targets /\ UNCHANGED <<backup, before>>
    BY <1>11 DEF MDiscardDoes, MKeeps
  <2>2. CASE step' = "rollback"
    BY <1>9, <1>11, <2>1, <2>2 DEF MDiscardDoes
  <2>3. CASE step' # "rollback"
    <3>1. /\ tx' = tx /\ step' \in {"discard", "restore"}
          /\ \A t \in M!Targets \ {M!Target} : place'[t] = place[t]
          /\ step' = "restore" => place'[M!Target].v = Nothing
          /\ step' = "discard" => place'[M!Target].v # Nothing
      <4>1. \A t \in M!Targets : M!Begun(place[t]).v = place[t].v
        BY MPlaces, MTreesAre
      <4>2. QED  BY <1>1, <1>11, <2>1, <2>3, <4>1, MTreesAre DEF MDiscardDoes
    <3>2. M!Target' = M!Target /\ MRank[M!Target] = tx.i
      BY <2>1, <3>1, MRanks DEF M!Target
    <3>3. \A t \in M!Targets : MRank[t] > tx.i => t # M!Target
      BY <1>2, <3>2
    <3>4. M!Target \in tx.placed
      BY <2>1
    <3>5. \A t \in M!Targets : t \notin tx.placed => place'[t] = place[t]
      BY <3>1, <3>4
    <3>6. /\ \A t \in M!Targets : MRank[t] > tx.i /\ ~tx.incomplete => M!Same(place'[t], MFound(t))
          /\ \A t \in M!Targets : MRank[t] <= tx.i /\ t \in tx.backed =>
               M!Same(backup[t], MFound(t)) /\ (t \notin tx.placed => place'[t].v = Nothing)
      BY <2>1, <3>1, <3>3, <3>5
    <3>7. QED  BY <2>1, <3>1, <3>2, <3>4, <3>6 DEF MFound
  <2>4. QED  BY <2>2, <2>3
<1>12. CASE MRestoreDoes
  <2>1. /\ step = "restore" /\ step' = "rollback" /\ tx.i \in 1 .. 3 /\ M!Target \in M!Targets /\ before' = before
    BY <1>12 DEF MRestoreDoes, MKeeps
  <2>2. CASE MGivenUp /\ UNCHANGED <<place, backup>>
    BY <1>9, <2>1, <2>2
  <2>3. CASE ~(MGivenUp /\ UNCHANGED <<place, backup>>)
    <3>1. /\ tx'.i = tx.i - 1 /\ tx'.backed = tx.backed /\ tx'.placed = tx.placed /\ tx'.incomplete = tx.incomplete
          /\ \/ /\ M!Target \in tx.backed
                /\ place' = [place EXCEPT ![M!Target] = backup[M!Target]]
                /\ backup' = [backup EXCEPT ![M!Target] = M!NoTree]
             \/ M!Target \notin tx.backed /\ UNCHANGED <<place, backup>>
      BY <1>12, <2>3, MTxFields DEF MRestoreDoes
    <3>2. MRank[M!Target] = tx.i /\ \A t \in M!Targets \ {M!Target} : MRank[t] # tx.i
      BY <2>1, MRanks DEF M!Target
    <3>3. \A t \in M!Targets \ {M!Target} : place'[t] = place[t] /\ backup'[t] = backup[t]
      BY <1>1, <3>1
    <3>4. M!Same(place'[M!Target], MFound(M!Target))
      <4>1. CASE M!Target \in tx.backed
        <5>1. M!Same(backup[M!Target], MFound(M!Target))
          BY <1>2, <2>1, <3>2, <4>1
        <5>2. place'[M!Target] = backup[M!Target]
          BY <1>1, <2>1, <3>1, <4>1
        <5>3. QED  BY <5>1, <5>2
      <4>2. CASE M!Target \notin tx.backed /\ M!Target \in tx.placed
        <5>1. place[M!Target].v = Nothing /\ MFound(M!Target).v = Nothing /\ place' = place
          BY <2>1, <3>1, <4>2 DEF MCopies
        <5>2. QED  BY <1>1, <2>1, <5>1, MSames
      <4>3. CASE M!Target \notin tx.backed /\ M!Target \notin tx.placed
        BY <2>1, <3>1, <4>3 DEF MCopies, MChanged
      <4>4. QED  BY <4>1, <4>2, <4>3
    <3>5. ASSUME NEW t \in M!Targets, MRank[t] > tx'.i, ~tx'.incomplete
          PROVE  M!Same(place'[t], MFound(t))
      <4>1. CASE t = M!Target
        BY <3>4, <4>1
      <4>2. CASE t # M!Target
        <5>1. MRank[t] > tx.i /\ ~tx.incomplete
          BY <1>2, <2>1, <3>1, <3>2, <3>5, <4>2
        <5>2. QED  BY <2>1, <3>3, <4>2, <5>1
      <4>3. QED  BY <4>1, <4>2
    <3>6. ASSUME NEW t \in M!Targets, MRank[t] <= tx'.i, t \in tx.backed
          PROVE  M!Same(backup'[t], MFound(t)) /\ (t \notin tx.placed => place'[t].v = Nothing)
      <4>1. MRank[t] <= tx.i /\ t # M!Target
        BY <1>2, <2>1, <3>1, <3>2, <3>6
      <4>2. QED  BY <2>1, <3>3, <3>6, <4>1
    <3>7. QED  BY <2>1, <3>1, <3>5, <3>6 DEF MFound
  <2>4. QED  BY <2>2, <2>3
<1>13. CASE MEditDoes
  <2>1. UNCHANGED <<step, tx, before>>
    BY <1>13, MEditSame
  <2>2. M!Target' = M!Target
    BY <2>1 DEF M!Target
  <2>3. step \in {"discard", "restore"} => M!Target \in M!Targets
    BY MTargetIs
  <2>4. \A t \in M!Targets : /\ M!Same(backup[t], MFound(t)) => M!Same(backup'[t], MFound(t))
                             /\ M!Same(place[t], MFound(t)) => M!Same(place'[t], MFound(t))
                             /\ place'[t].v = place[t].v
    BY <1>13, MEditSame
  <2>5. QED  BY <2>1, <2>2, <2>3, <2>4 DEF MFound
<1>14. QED
  BY <1>3, <1>5, <1>6, <1>7, <1>8, <1>10, <1>11, <1>12, <1>13 DEF MDoes

\* The edits no check has found.
LEMMA MEditsNext ==
  ASSUME MTyped, MStages, MPrior, MAimed, MCopies, MReached, MUndo, MEdits, MDoes
  PROVE  MEdits'
<1>. USE DEF MEdits, M!EditsHeld
<1>1. /\ DOMAIN place = M!Targets /\ DOMAIN backup = M!Targets
      /\ \A t \in M!Targets : place[t] \in MKept /\ backup[t] \in MKept
  BY MPlaces
<1>2. /\ tx.i \in 0 .. 3 /\ tx.backed \subseteq M!Targets /\ DOMAIN tx.seen = M!Targets
      /\ \A t \in M!Targets : MRank[t] \in 1 .. 3
  BY MTxTyped, MRanks
<1>3. CASE MStartDoes
  <2>1. \A t \in M!Targets : M!NoChange.seen[t].edit # "found"
    BY MTreesAre DEF M!NoChange, M!None
  <2>2. QED  BY <1>3, <2>1 DEF MStartDoes
<1>4. CASE MCheckDoes \/ MStageDoes \/ MRolledBackDoes \/ MLeaveDoes \/ MKillDoes \/ MClearDoes
  <2>1. step' \in {"idle", "leave", "stage", "recheck"} /\ UNCHANGED <<tx, lost>>
    BY <1>4 DEF MCheckDoes, MStageDoes, MRolledBackDoes, MLeaveDoes, MKillDoes, MClearDoes, MEndDoes
  <2>2. QED  BY <2>1
<1>5. CASE MRecheckDoes
  <2>1. lost' = lost /\ place' = place /\ tx'.seen = tx.seen
    BY <1>5, MTxFields DEF MRecheckDoes
  <2>2. CASE step' = "look"
    <3>1. place = M!Layout(prior) /\ prior \in Marks
      BY <1>5, <2>2 DEF MRecheckDoes, MTyped
    <3>2. \A t \in M!Targets : place[t].edit = "none"
      BY <3>1, MLayoutIs
    <3>3. QED  BY <2>1, <2>2, <3>2
  <2>3. CASE step' = "rollback"
    BY <2>1, <2>3
  <2>4. QED  BY <1>5, <2>2, <2>3 DEF MRecheckDoes
<1>6. CASE MLookDoes
  <2>1. lost' = lost /\ place' = place /\ step = "look" /\ tx.i \in 1 .. 3 /\ M!Target \in M!Targets
    BY <1>6 DEF MLookDoes
  <2>2. CASE step' = "back"
    <3>1. tx'.i = tx.i /\ tx'.seen = [tx.seen EXCEPT ![M!Target] = place[M!Target]]
      BY <1>6, <2>2, MTxFields DEF MLookDoes
    <3>2. place[M!Target].edit # "found"
      BY <1>2, <2>1, MRanks DEF M!Target
    <3>3. \A t \in M!Targets : tx'.seen[t].edit # "found"
      BY <1>2, <3>1, <3>2
    <3>4. \A t \in M!Targets : MRank[t] > tx.i => MRank[t] >= tx.i
      BY <1>2, <2>1
    <3>5. QED  BY <2>1, <2>2, <3>1, <3>3, <3>4
  <2>3. CASE step' = "rollback"
    <3>1. tx'.seen = tx.seen
      BY <1>6, <2>3, MTxFields DEF MLookDoes
    <3>2. QED  BY <2>1, <2>3, <3>1
  <2>4. QED  BY <1>6, <2>2, <2>3 DEF MLookDoes
<1>7. CASE MBackDoes
  <2>1. /\ lost' = lost /\ step = "back" /\ tx.i \in 1 .. 3 /\ M!Target \in M!Targets /\ step' \in {"put", "rollback"}
        /\ tx'.seen = tx.seen /\ tx'.i = tx.i
    BY <1>7, MTxFields DEF MBackDoes
  <2>2. \A t \in M!Targets : place'[t] = place[t] \/ place'[t] = M!NoTree
    BY <1>1, <1>7 DEF MBackDoes
  <2>3. QED  BY <2>1, <2>2, MTreesAre
<1>8. CASE MPutDoes
  <2>1. /\ step = "put" /\ tx.i \in 1 .. 3 /\ M!Target \in M!Targets /\ tx'.seen = tx.seen
        /\ lost' \subseteq lost \cup {<<"overwritten", place[M!Target]>>}
    BY <1>8, MTxFields DEF MPutDoes
  <2>2. place[M!Target].v = Nothing
    BY <2>1 DEF MReached
  <2>3. \A x \in lost' : x[2].edit = "found" => x[1] = "overwritten" /\ x[2].v = Nothing
    BY <2>1, <2>2
  <2>4. CASE step' = "look"
    <3>1. tx'.i = tx.i + 1 /\ \A t \in M!Targets \ {M!Target} : place'[t] = place[t]
      BY <1>1, <1>8, <2>4, MTxFields DEF MPutDoes
    <3>2. MRank[M!Target] = tx.i
      BY <2>1, MRanks DEF M!Target
    <3>3. \A t \in M!Targets : MRank[t] >= tx'.i => t # M!Target /\ MRank[t] > tx.i
      BY <1>2, <2>1, <3>1, <3>2
    <3>4. QED  BY <2>1, <2>3, <2>4, <3>1, <3>3
  <2>5. CASE step' \in {"confirm", "rollback"}
    BY <2>1, <2>3, <2>5
  <2>6. QED  BY <1>8, <2>4, <2>5 DEF MPutDoes
<1>9. CASE MConfirmDoes
  <2>1. lost' = lost /\ step' \in {"clean", "rollback"} /\ backup' = backup /\ tx'.seen = tx.seen /\ tx'.backed = tx.backed
    BY <1>9, MTxFields DEF MConfirmDoes
  <2>2. step' = "clean" => \A t \in tx.backed : backup[t] = tx.seen[t]
    BY <1>9 DEF MConfirmDoes, M!BackupsUnchanged
  <2>3. QED  BY <1>2, <2>1, <2>2
<1>10. CASE MCleanDoes
  <2>1. /\ step = "clean" /\ UNCHANGED tx /\ step' \in {"leave", "clean"}
        /\ lost' \subseteq lost \cup {<<"deleted", backup[t]>> : t \in tx.backed}
    BY <1>10 DEF MCleanDoes, MEndDoes
  <2>2. \A x \in lost' : x[2].edit = "found" => x[1] = "overwritten" /\ x[2].v = Nothing
    BY <1>2, <2>1
  <2>3. step' = "clean" => \A t \in tx.backed : backup'[t].edit # "found"
    <3>1. SUFFICES ASSUME step' = "clean", NEW x \in tx.backed
                   PROVE  backup'[x].edit # "found"
      OBVIOUS
    <3>2. PICK t \in tx.backed : \E rest \in {M!NoTree, M!Begun(backup[t])} : backup' = [backup EXCEPT ![t] = rest]
      BY <1>10, <3>1 DEF MCleanDoes, MEndDoes
    <3>3. backup'[x] \in {backup[x], M!NoTree, M!Begun(backup[x])}
      BY <1>1, <1>2, <3>2
    <3>4. M!NoTree.edit = "none" /\ M!Begun(backup[x]).edit = backup[x].edit
      BY <1>1, <1>2, MTreesAre
    <3>5. QED  BY <2>1, <3>3, <3>4
  <2>4. QED  BY <2>1, <2>2, <2>3
<1>11. CASE MRollbackDoes
  <2>1. /\ step' \in {"rollback", "discard", "restore"} /\ tx'.seen = tx.seen /\ lost' = lost /\ place' = place
        /\ step = "rollback" /\ M!Target \in M!Targets
    BY <1>11, MGivenUpIs DEF MRollbackDoes
  <2>2. step' = "discard" => place'[M!Target'].edit # "found"
    <3>1. SUFFICES ASSUME step' = "discard"
                   PROVE  place'[M!Target'].edit # "found"
      OBVIOUS
    <3>2. tx' = tx /\ place[M!Target] = M!Layout(M!Aim)[M!Target]
      BY <1>11, <3>1 DEF MRollbackDoes
    <3>3. M!Target' = M!Target
      BY <3>2 DEF M!Target
    <3>4. M!Aim \in Marks
      BY <2>1, MAimTyped DEF MWorking, MUndoing
    <3>5. QED  BY <2>1, <3>2, <3>3, <3>4, MLayoutIs
  <2>3. QED  BY <2>1, <2>2
<1>12. CASE MDiscardDoes
  <2>1. /\ step' \in {"rollback", "discard", "restore"} /\ tx'.seen = tx.seen
        /\ step = "discard" /\ M!Target \in M!Targets
        /\ lost' \subseteq lost \cup {<<"deleted", place[M!Target]>>}
    BY <1>12, MGivenUpIs DEF MDiscardDoes
  <2>2. step' = "discard" => place'[M!Target'].edit # "found"
    <3>1. SUFFICES ASSUME step' = "discard"
                   PROVE  place'[M!Target'].edit # "found"
      OBVIOUS
    <3>2. tx' = tx /\ place' = [place EXCEPT ![M!Target] = M!Begun(place[M!Target])]
      BY <1>12, <3>1 DEF MDiscardDoes
    <3>3. M!Target' = M!Target
      BY <3>2 DEF M!Target
    <3>4. M!Begun(place[M!Target]).edit = place[M!Target].edit
      BY <1>1, <2>1, MTreesAre
    <3>5. QED  BY <1>1, <2>1, <3>2, <3>3, <3>4
  <2>3. QED  BY <2>1, <2>2
<1>13. CASE MRestoreDoes
  <2>1. step = "restore" /\ step' = "rollback" /\ tx'.seen = tx.seen /\ tx.i \in 1 .. 3 /\ M!Target \in M!Targets
    BY <1>13, MTxFields, MGivenUpIs DEF MRestoreDoes
  <2>2. lost' = lost \/ (M!Target \in tx.backed /\ lost' \subseteq lost \cup {<<"overwritten", place[M!Target]>>})
    BY <1>13 DEF MRestoreDoes
  <2>3. M!Target \in tx.backed => place[M!Target].v = Nothing
    <3>1. MRank[M!Target] = tx.i
      BY <2>1, MRanks DEF M!Target
    <3>2. QED  BY <2>1, <3>1 DEF MUndo, MUndoing
  <2>4. QED  BY <2>1, <2>2, <2>3
<1>14. CASE MEditDoes
  <2>1. UNCHANGED <<step, tx, lost>>
    BY <1>14 DEF MEditDoes
  <2>2. PICK t \in M!Targets, s \in {"found", "late"} : MEditOf(t, s)
    BY <1>14 DEF MEditDoes
  <2>3. /\ step = "look" /\ MRank[t] >= tx.i => t \in M!Unlooked
        /\ step \in {"back", "put"} /\ MRank[t] > tx.i => t \in M!Unlooked
        /\ step = "discard" /\ t = M!Target => t \in M!Unlooked
    <3>1. MRank[t] \in 1 .. 3 /\ M!Order[MRank[t]] = t
      BY MRanks
    <3>2. QED  BY <1>2, <3>1 DEF M!Unlooked, M!At
  <2>4. M!Target' = M!Target /\ (step = "discard" => M!Target \in M!Targets)
    BY <2>1, MTargetIs DEF M!Target
  <2>5. CASE /\ backup' = backup /\ place' = [place EXCEPT ![t] = Touched(place[t], s)]
             /\ t \in M!Unlooked /\ place[t].edit # "found" => s = "late"
    <3>1. /\ \A x \in M!Targets \ {t} : place'[x] = place[x]
          /\ place'[t].edit = s
      BY <1>1, <2>5, MTreesAre
    <3>2. /\ step = "look" => \A x \in M!Targets : MRank[x] >= tx.i => place'[x].edit # "found"
          /\ step \in {"back", "put"} => \A x \in M!Targets : MRank[x] > tx.i => place'[x].edit # "found"
          /\ step = "discard" => place'[M!Target].edit # "found"
      BY <2>3, <2>4, <2>5, <3>1
    <3>3. QED  BY <2>1, <2>4, <2>5, <3>2
  <2>6. CASE /\ place' = place /\ backup' = [backup EXCEPT ![t] = Touched(backup[t], s)]
             /\ step = "clean" /\ backup[t].edit # "found" => s = "late"
    <3>1. /\ \A x \in M!Targets \ {t} : backup'[x] = backup[x]
          /\ backup'[t].edit = s
      BY <1>1, <2>6, MTreesAre
    <3>2. step = "clean" => \A x \in tx.backed : backup'[x].edit # "found"
      BY <1>2, <2>6, <3>1
    <3>3. QED  BY <2>1, <2>4, <2>6, <3>2
  <2>7. QED  BY <2>2, <2>5, <2>6 DEF MEditOf
<1>15. QED
  BY <1>3, <1>4, <1>5, <1>6, <1>7, <1>8, <1>9, <1>10, <1>11, <1>12, <1>13, <1>14 DEF MDoes

\* What was put in place is what the operation aims at.
LEMMA MAimedNext ==
  ASSUME MTyped, MStages, MPrior, MAimed, MDoes
  PROVE  MAimed'
<1>. USE DEF MAimed
<1>1. CASE MStartDoes \/ MCheckDoes \/ MStageDoes \/ MRolledBackDoes \/ MLeaveDoes \/ MKillDoes \/ MClearDoes
  <2>1. \/ step' \in {"idle", "leave"}
        \/ step' \in {"check", "stage", "recheck"} /\ tx'.placed = {}
    <3>1. M!NoChange.placed = {}
      BY DEF M!NoChange
    <3>2. CASE MStartDoes
      BY <3>1, <3>2 DEF MStartDoes
    <3>3. CASE MCheckDoes \/ MStageDoes
      BY <3>1, <3>3 DEF MCheckDoes, MStageDoes, MEndDoes, MStages
    <3>4. CASE MRolledBackDoes \/ MLeaveDoes \/ MKillDoes \/ MClearDoes
      BY <3>4 DEF MRolledBackDoes, MLeaveDoes, MKillDoes, MClearDoes, MEndDoes
    <3>5. QED  BY <1>1, <3>2, <3>3, <3>4
  <2>2. QED  BY <2>1 DEF MWorking, MForward, MUndoing
\* The others aim at what was aimed at.
<1>2. ASSUME MKeeps \/ UNCHANGED <<op, prior>>
      PROVE  M!Aim' = M!Aim /\ M!Layout(M!Aim)' = M!Layout(M!Aim)
  BY <1>2 DEF MKeeps, M!Aim, M!Layout
<1>3. CASE MPutDoes
  <2>1. step = "put" /\ MKeeps /\ step' # "clean"
    BY <1>3 DEF MPutDoes
  <2>2. \A t \in tx'.placed : t \in tx.placed \/ (t = M!Target /\ M!Exists(M!Layout(M!Aim)[t]))
    BY <1>3, MTxFields DEF MPutDoes
  <2>3. QED  BY <1>2, <2>1, <2>2 DEF MWorking, MForward
<1>4. CASE MRecheckDoes \/ MLookDoes \/ MBackDoes \/ MRollbackDoes \/ MDiscardDoes \/ MRestoreDoes
  <2>1. MKeeps /\ step' # "clean" /\ step \in MWorking
    BY <1>4 DEF MRecheckDoes, MLookDoes, MBackDoes, MRollbackDoes, MDiscardDoes, MRestoreDoes, MWorking, MForward,
       MUndoing
  <2>2. tx'.placed = tx.placed
    <3>1. CASE MRecheckDoes \/ MLookDoes
      BY <3>1, MTxFields DEF MRecheckDoes, MLookDoes
    <3>2. CASE MBackDoes
      BY <3>2, MTxFields DEF MBackDoes
    <3>3. CASE MRollbackDoes \/ MDiscardDoes
      BY <3>3, MGivenUpIs DEF MRollbackDoes, MDiscardDoes
    <3>4. CASE MRestoreDoes
      BY <3>4, MTxFields, MGivenUpIs DEF MRestoreDoes
    <3>5. QED  BY <1>4, <3>1, <3>2, <3>3, <3>4
  <2>3. QED  BY <1>2, <2>1, <2>2
<1>5. CASE MConfirmDoes
  <2>1. MKeeps /\ tx'.placed = tx.placed /\ place' = place /\ step = "confirm"
    BY <1>5, MTxFields DEF MConfirmDoes
  <2>2. step' = "clean" => place = M!Layout(M!Aim)
    BY <1>5 DEF MConfirmDoes
  <2>3. QED  BY <1>2, <2>1, <2>2, MSames DEF MWorking, MForward
<1>6. CASE MCleanDoes
  <2>1. UNCHANGED <<place, tx, op, prior>> /\ step = "clean"
    BY <1>6 DEF MCleanDoes
  <2>2. QED  BY <1>2, <2>1 DEF MWorking
<1>7. CASE MEditDoes
  <2>1. UNCHANGED <<step, tx, op, prior>>
    BY <1>7, MEditSame
  <2>2. \A t \in M!Targets : M!Same(place[t], M!Layout(M!Aim)[t]) => M!Same(place'[t], M!Layout(M!Aim)[t])
    BY <1>7, MEditSame
  <2>3. QED  BY <1>2, <2>1, <2>2
<1>8. QED
  BY <1>1, <1>3, <1>4, <1>5, <1>6, <1>7 DEF MDoes

\* What an operation leaves that is over.
LEMMA MLeftNext ==
  ASSUME MTyped, MStages, MCopies, MUndo, MLeft, MDoes
  PROVE  MLeft'
<1>. USE DEF MLeft, MFound
<1>1. CASE MCheckDoes \/ MStageDoes
  <2>1. step' = "leave" => UNCHANGED <<place, before, tx>> /\ step \in {"check", "stage"}
    BY <1>1 DEF MCheckDoes, MStageDoes, MEndDoes
  <2>2. step \in {"check", "stage"} => /\ \A t \in M!Targets : M!Same(place[t], before.place[t])
                                       /\ ~tx.incomplete /\ ~tx.committed
    BY DEF MStages, M!NoChange, MCopies, MChanged, MForward
  <2>3. QED  BY <2>1, <2>2
<1>2. CASE MCleanDoes
  <2>1. step' = "leave" => tx' = tx /\ outcome' # "failed" /\ step = "clean"
    BY <1>2 DEF MCleanDoes, MEndDoes
  <2>2. QED  BY <2>1 DEF MStages
<1>3. CASE MRolledBackDoes
  <2>1. /\ step = "rollback" /\ tx.i = 0 /\ UNCHANGED <<place, before, tx>> /\ ~tx.committed
        /\ outcome' = "failed" => ~tx.incomplete
    BY <1>3 DEF MRolledBackDoes, MEndDoes, MStages, MUndoing
  <2>2. ~tx.incomplete => \A t \in M!Targets : M!Same(place[t], before.place[t])
    BY <2>1, MRanks DEF MUndo, MUndoing
  <2>3. QED  BY <2>1, <2>2
<1>4. CASE MEditDoes
  <2>1. UNCHANGED <<step, outcome, tx, before>>
    BY <1>4, MEditSame
  <2>2. \A t \in M!Targets : M!Same(place[t], before.place[t]) => M!Same(place'[t], before.place[t])
    BY <1>4, MEditSame
  <2>3. QED  BY <2>1, <2>2
<1>5. CASE ~(MCheckDoes \/ MStageDoes \/ MCleanDoes \/ MRolledBackDoes \/ MEditDoes)
  <2>1. step' # "leave"
    BY <1>5 DEF MDoes, MStartDoes, MRecheckDoes, MLookDoes, MBackDoes, MPutDoes, MConfirmDoes, MRollbackDoes,
       MDiscardDoes, MRestoreDoes, MLeaveDoes, MKillDoes, MClearDoes
  <2>2. QED  BY <2>1
<1>6. QED  BY <1>1, <1>2, <1>3, <1>4, <1>5

\* What was found is in its place or in a backup.
LEMMA MPreimageNext ==
  ASSUME MTyped, MStages, MStages', MCopies', M!PreimageHeld, MDoes, MTyped'
  PROVE  M!PreimageHeld'
<1>. USE DEF M!PreimageHeld, MFound
<1>1. DOMAIN place = M!Targets /\ DOMAIN place' = M!Targets
  BY DEF MTyped
<1>2. CASE step' \in MForward \cup MUndoing
  BY <1>1, <1>2 DEF MCopies, MChanged
<1>3. CASE step' = "clean"
  BY <1>3 DEF MStages
<1>4. CASE step' \in {"idle", "leave"}
  <2>1. CASE MEditDoes
    <3>1. UNCHANGED <<tx, before>>
      BY <2>1, MEditSame
    <3>2. \A t \in M!Targets : /\ M!Same(place[t], before.place[t]) => M!Same(place'[t], before.place[t])
                               /\ M!Same(backup[t], before.place[t]) => M!Same(backup'[t], before.place[t])
      BY <2>1, MEditSame
    <3>3. QED  BY <1>1, <3>1, <3>2
  <2>2. CASE MCleanDoes
    <3>1. tx' = tx /\ step = "clean"
      BY <2>2 DEF MCleanDoes
    <3>2. QED  BY <3>1 DEF MStages
  <2>3. CASE ~(MEditDoes \/ MCleanDoes)
    <3>1. UNCHANGED <<place, backup, before, tx>>
      BY <1>4, <2>3 DEF MDoes, MStartDoes, MCheckDoes, MStageDoes, MRecheckDoes, MLookDoes, MBackDoes, MPutDoes,
         MConfirmDoes, MRollbackDoes, MDiscardDoes, MRestoreDoes, MRolledBackDoes, MLeaveDoes, MKillDoes,
         MClearDoes, MEndDoes
    <3>2. QED  BY <1>1, <3>1
  <2>4. QED  BY <2>1, <2>2, <2>3
<1>5. step' \in MForward \cup MUndoing \cup {"clean", "idle", "leave"}
  BY DEF MTyped, MSteps, MForward, MUndoing
<1>6. QED  BY <1>2, <1>3, <1>4, <1>5

\* An operation that failed changed nothing.
LEMMA MFailureNext ==
  ASSUME MTyped, MStages, MStages', MLeft, MLeft', M!FailureRestores, MDoes, MTyped'
  PROVE  M!FailureRestores'
<1>. USE DEF M!FailureRestores, MFound
<1>1. CASE step' \in MWorking
  BY <1>1 DEF MStages
<1>2. CASE step' = "leave"
  BY <1>2 DEF MLeft
<1>3. CASE step' = "idle"
  <2>1. CASE MLeaveDoes
    <3>1. step = "leave" /\ UNCHANGED <<place, before, tx>> /\ outcome' \in {outcome, "masked"}
      BY <2>1 DEF MLeaveDoes
    <3>2. QED  BY <3>1 DEF MLeft
  <2>2. CASE MKillDoes
    BY <2>2 DEF MKillDoes
  <2>3. CASE MEditDoes
    <3>1. UNCHANGED <<outcome, tx, before>>
      BY <2>3, MEditSame
    <3>2. \A t \in M!Targets : M!Same(place[t], before.place[t]) => M!Same(place'[t], before.place[t])
      BY <2>3, MEditSame
    <3>3. QED  BY <3>1, <3>2
  <2>4. CASE ~(MLeaveDoes \/ MKillDoes \/ MEditDoes)
    <3>1. UNCHANGED <<place, before, tx>> /\ outcome' \in {outcome, "locked"}
      BY <1>3, <2>4 DEF MDoes, MStartDoes, MCheckDoes, MStageDoes, MRecheckDoes, MLookDoes, MBackDoes, MPutDoes,
         MConfirmDoes, MCleanDoes, MRollbackDoes, MDiscardDoes, MRestoreDoes, MRolledBackDoes, MClearDoes, MEndDoes
    <3>2. QED  BY <3>1
  <2>5. QED  BY <2>1, <2>2, <2>3, <2>4
<1>4. step' \in MWorking \cup {"leave", "idle"}
  BY DEF MTyped, MSteps, MWorking, MForward, MUndoing
<1>5. QED  BY <1>1, <1>2, <1>3, <1>4

\* What an operation should put in place, told by what it found.
MWanted ==
  [v |-> IF op.kind = "install" THEN op.v ELSE MFound("store").v,
   on |-> CASE op.kind = "install" -> MFound("store").v # Nothing => MFound("store").on
            [] OTHER -> op.kind = "enable"]
MDone ==
  /\ outcome = "ok" /\ op.kind # "remove" =>
       \A t \in M!Targets : M!Same(place[t], M!Layout(MWanted)[t]) /\ backup[t] = M!NoTree
  /\ outcome = "missing" \/ (outcome = "ok" /\ op.kind = "remove") =>
       \A t \in M!Targets : place[t].v = Nothing /\ backup[t] = M!NoTree

\* The same as the property of the host says.
LEMMA MDoneIs == M!SuccessMeans <=> MDone
BY DEF M!SuccessMeans, MDone, MWanted, MFound

\* Told by the marker it is what the operation aims at.
LEMMA MWantedIs ==
  ASSUME MTyped, MStages, op \in M!Operations, op.kind # "remove", prior = MarkOf(MFound("store")),
         op.kind # "install" => prior # M!NotOwned
  PROVE  MWanted = M!Aim
<1>1. MFound("store") \in MTrees
  BY MPlaces, MRanks
<1>2. CASE MFound("store").v # Nothing
  <2>1. /\ prior.v = MFound("store").v /\ prior.on = MFound("store").on /\ prior # M!NotOwned
        /\ MFound("store").on \in BOOLEAN
    BY <1>1, <1>2 DEF MarkOf, M!NotOwned, MTrees, MKept, M!Trees
  <2>2. QED  BY <1>2, <2>1 DEF MWanted, M!Aim, M!Operations
<1>3. CASE MFound("store").v = Nothing
  <2>1. prior = M!NotOwned /\ op.kind = "install"
    BY <1>1, <1>3 DEF MarkOf, M!NotOwned, MTrees, MKept, M!Trees
  <2>2. QED  BY <1>3, <2>1 DEF MWanted, M!Aim
<1>4. QED  BY <1>2, <1>3

\* What an operation that succeeded did.
LEMMA MSuccessNext ==
  ASSUME MTyped, MStages, MPrior, MCopies, MAimed, M!SuccessMeans, MDoes
  PROVE  M!SuccessMeans'
<1>. USE DEF MDone
<1>0. SUFFICES ASSUME MDone
               PROVE  MDone'
  <2>1. M!SuccessMeans' <=> MDone'
    BY DEF M!SuccessMeans, MDone, MWanted, MFound
  <2>2. QED  BY <2>1, MDoneIs
<1>1. CASE MStartDoes
  BY <1>1 DEF MStartDoes
<1>2. CASE MCheckDoes
  <2>1. /\ step = "check" /\ UNCHANGED <<place, backup, op, before>> /\ outcome = "running"
        /\ prior' = MarkOf(place["store"]) /\ prior' \in Marks
    <3>1. step = "check" /\ UNCHANGED <<place, backup, op, before>> /\ prior' = MarkOf(place["store"])
      BY <1>2 DEF MCheckDoes
    <3>2. place["store"] \in MTrees
      BY MPlaces, MRanks
    <3>3. QED  BY <3>1, <3>2, MTreesAre DEF MStages, MWorking, MForward
  <2>2. \A t \in M!Targets : backup[t] = M!NoTree
    BY <2>1, MSames DEF MCopies, MStages, M!NoChange, MForward
  <2>3. CASE outcome' = "ok" /\ op.kind \in {"enable", "disable"} /\ place = M!Layout(prior')
             /\ prior' # M!NotOwned /\ prior'.on = (op.kind = "enable")
    <3>1. MFound("store") = place["store"]
      BY <2>1, <2>3, MRanks, MLayoutIs DEF MPrior
    <3>2. MWanted' = prior'
      BY <2>1, <2>3, <3>1 DEF MWanted, MFound, MarkOf
    <3>3. \A t \in M!Targets : M!Same(place'[t], M!Layout(MWanted')[t]) /\ backup'[t] = M!NoTree
      BY <2>1, <2>2, <2>3, <3>2, MSames
    <3>4. QED  BY <2>1, <2>3, <3>3 DEF M!Layout
  <2>4. CASE outcome' = "missing" /\ op.kind = "remove" /\ place = M!None
    BY <2>1, <2>2, <2>4, MTreesAre DEF M!None
  <2>5. CASE outcome' \notin {"ok", "missing"}
    BY <2>5
  <2>6. QED  BY <1>2, <2>1, <2>3, <2>4, <2>5 DEF MCheckDoes
<1>3. CASE MCleanDoes
  <2>1. CASE outcome' \in {"masked", "running"}
    BY <2>1
  <2>2. CASE outcome' = "ok" /\ backup' = M!None
    <3>1. /\ step = "clean" /\ op \in M!Operations /\ prior = MarkOf(MFound("store"))
          /\ op.kind # "install" => prior # M!NotOwned
          /\ \A t \in M!Targets : M!Same(place[t], M!Layout(M!Aim)[t])
          /\ UNCHANGED <<op, prior, before, place>>
      BY <1>3 DEF MCleanDoes, MStages, MPrior, MAimed, MWorking
    <3>2. \A t \in M!Targets : backup'[t] = M!NoTree
      BY <2>2 DEF M!None
    <3>3. CASE op.kind # "remove"
      <4>1. MWanted' = M!Aim
        <5>1. MWanted' = MWanted
          BY <3>1 DEF MWanted, MFound
        <5>2. QED  BY <3>1, <3>3, <5>1, MWantedIs
      <4>2. QED  BY <2>2, <3>1, <3>2, <3>3, <4>1 DEF M!Layout
    <3>4. CASE op.kind = "remove"
      <4>1. \A t \in M!Targets : M!Layout(M!Aim)[t] = M!NoTree
        BY <3>4 DEF M!Aim, M!Layout
      <4>2. \A t \in M!Targets : place[t].v = Nothing
        BY <3>1, <4>1, MSames, MTreesAre
      <4>3. QED  BY <2>2, <3>1, <3>2, <3>4, <4>2
    <3>5. QED  BY <3>3, <3>4
  <2>3. step = "clean" => outcome = "running"
    BY DEF MStages, MWorking
  <2>4. QED  BY <1>3, <2>1, <2>2, <2>3 DEF MCleanDoes, MEndDoes
<1>4. CASE MStageDoes \/ MRolledBackDoes \/ MKillDoes
  <2>1. outcome' \notin {"ok", "missing"}
    BY <1>4 DEF MStageDoes, MRolledBackDoes, MKillDoes, MEndDoes, MStages, MWorking, MForward
  <2>2. QED  BY <2>1
<1>5. CASE MClearDoes \/ MLeaveDoes
  <2>1. /\ UNCHANGED <<op, before, place, backup>> /\ outcome' \in {outcome, "masked"} /\ MWanted' = MWanted
    BY <1>5 DEF MClearDoes, MLeaveDoes, MWanted, MFound
  <2>2. M!Layout(MWanted)' = M!Layout(MWanted)
    BY <2>1 DEF M!Layout
  <2>3. QED  BY <1>0, <2>1, <2>2
<1>6. CASE MEditDoes
  <2>1. UNCHANGED <<op, before, outcome>> /\ MWanted' = MWanted
    BY <1>6, MEditSame DEF MWanted, MFound
  <2>2. \A t \in M!Targets : /\ backup[t] = M!NoTree => backup'[t] = M!NoTree
                             /\ place'[t].v = place[t].v
                             /\ \A u : M!Same(place[t], u) => M!Same(place'[t], u)
    BY <1>6, MEditSame
  <2>3. M!Layout(MWanted)' = M!Layout(MWanted)
    BY <2>1 DEF M!Layout
  <2>4. QED  BY <1>0, <2>1, <2>2, <2>3
<1>7. CASE MRecheckDoes \/ MLookDoes \/ MBackDoes \/ MPutDoes \/ MConfirmDoes \/ MRollbackDoes \/ MDiscardDoes
           \/ MRestoreDoes
  <2>1. step \in MWorking /\ outcome' = outcome
    BY <1>7 DEF MRecheckDoes, MLookDoes, MBackDoes, MPutDoes, MConfirmDoes, MRollbackDoes, MDiscardDoes,
       MRestoreDoes, MKeeps, MWorking, MForward, MUndoing
  <2>2. QED  BY <2>1 DEF MStages
<1>8. QED
  BY <1>1, <1>2, <1>3, <1>4, <1>5, <1>6, <1>7 DEF MDoes

-----------------------------------------------------------------------------
(* The modular host. The invariant. *)

\* What holds of the modular host at first.
LEMMA MInitially == M!Init => MInv
<1>1. SUFFICES ASSUME M!Init
               PROVE  MInv
  OBVIOUS
<1>. USE <1>1, ManagedAssumption DEF M!Init
<1>2. M!None \in [M!Targets -> MTrees] /\ M!None \in [M!Targets -> MKept] /\ M!NotOwned \in Marks
  <2>1. M!None \in [M!Targets -> MTrees] /\ M!NotOwned \in Marks
    BY MLayoutIs
  <2>2. QED  BY <2>1, MTreesAre
<1>3. MTyped
  <2>1. [place |-> M!None] \in [place : [M!Targets -> MTrees]]
    BY <1>2
  <2>2. M!NoChange \in MChanges
    BY <1>2 DEF M!NoChange, MChanges
  <2>3. 0 \in 0 .. MaxOps /\ 0 \in 0 .. MaxFaults /\ 0 \in 0 .. MaxEdits
    OBVIOUS
  <2>4. QED  BY <1>2, <2>1, <2>2, <2>3 DEF MTyped, MSteps, Outcomes
<1>4. MStages /\ MPrior /\ MCopies /\ MReached /\ MUndo /\ MAimed /\ MLeft
  BY DEF MStages, MPrior, MCopies, MReached, MUndo, MAimed, MLeft, MWorking, MForward, MUndoing
<1>5. MEdits
  BY MTreesAre DEF MEdits, M!EditsHeld, M!NoChange, M!None
<1>6. M!PreimageHeld
  BY MSames DEF M!PreimageHeld, M!None
<1>7. M!FailureRestores /\ M!SuccessMeans
  BY DEF M!FailureRestores, M!SuccessMeans
<1>8. QED  BY <1>3, <1>4, <1>5, <1>6, <1>7 DEF MInv

\* Every step of the modular host keeps it.
LEMMA MInvNext ==
  ASSUME MInv, M!Next
  PROVE  MInv'
<1>. USE DEF MInv
<1>1. MDoes
  BY MStepDoes
<1>2. MTyped'
  BY <1>1, MCounted, MTypedNext
<1>3. MStages'
  BY <1>1, MStagesNext
<1>4. MPrior'
  BY <1>1, MPriorNext
<1>5. MCopies'
  BY <1>1, MCopiesNext
<1>6. MReached' /\ MUndo'
  BY <1>1, MReachedNext, MUndoNext
<1>7. MEdits' /\ MAimed'
  BY <1>1, MEditsNext, MAimedNext
<1>8. MLeft'
  BY <1>1, MLeftNext
<1>9. M!PreimageHeld'
  BY <1>1, <1>2, <1>3, <1>5, MPreimageNext
<1>10. M!FailureRestores' /\ M!SuccessMeans'
  BY <1>1, <1>2, <1>3, <1>8, MFailureNext, MSuccessNext
<1>11. QED  BY <1>2, <1>3, <1>4, <1>5, <1>6, <1>7, <1>8, <1>9, <1>10

\* And so does a step that changes nothing of it.
LEMMA MStutters ==
  ASSUME MInv, UNCHANGED M!managed
  PROVE  MInv'
<1>. USE DEF M!managed
<1>1. MTyped' /\ MStages'
  BY DEF MInv, MTyped, MStages
<1>2. MPrior' /\ MLeft'
  BY DEF MInv, MPrior, MLeft, MFound
<1>3. M!Aim' = M!Aim
  BY DEF M!Aim
<1>4. MAimed'
  BY <1>3 DEF MInv, MAimed, M!Layout
<1>5. MCopies' /\ MReached' /\ MUndo'
  BY DEF MInv, MCopies, MReached, MUndo, MFound, MChanged, M!Target
<1>6. MEdits' /\ M!PreimageHeld'
  BY DEF MInv, MEdits, M!EditsHeld, M!PreimageHeld, M!Target
<1>7. M!FailureRestores' /\ M!SuccessMeans'
  BY DEF MInv, M!FailureRestores, M!SuccessMeans, M!Layout
<1>8. QED  BY <1>1, <1>2, <1>4, <1>5, <1>6, <1>7 DEF MInv

-----------------------------------------------------------------------------
(***************************************************************************)
(* The native host: what holds in all its states.                          *)
(***************************************************************************)
NTrees == {t \in N!Trees : t.v = Nothing => ~t.on /\ t.files = "whole"}
NPlugins == {N!NoPlugin} \cup [v : Versions, on : BOOLEAN]
NRegistrations == [market : BOOLEAN, plugin : NPlugins]
NRooted == [{N!Root} -> NTrees]
NFlags == [touched : BOOLEAN, moved : BOOLEAN, active : BOOLEAN, committed : BOOLEAN, broken : BOOLEAN]

\* The steps of an installation alone, of the exchange of the root that it shares with a
\* removal, of enable and disable, and of the rollback.
NInstalling == {"stage", "recheck", "activate", "market", "install", "turn off"}
NExchanging == {"uninstall", "unmarket", "move", "confirm", "drop", "clean"}
NSwitching == {"switch", "mark", "rename"}
NRebuilding == {"add back", "install back", "off again"}
NRestoring == {"undo files", "discard", "put back"} \cup NRebuilding
NWorking == NInstalling \cup NExchanging \cup NSwitching \cup NRestoring \cup {"check", "undo registration", "end"}
NSteps == NWorking \cup {"idle", "leave"}

NTyped ==
  /\ place \in NRooted /\ backup \in NRooted
  /\ lock \in BOOLEAN /\ step \in NSteps /\ op \in N!Operations \cup {N!NoOp} /\ prior \in Marks
  /\ before \in [place : NRooted, cli : NRegistrations] /\ tx \in NFlags /\ outcome \in Outcomes
  /\ lost \subseteq {"deleted", "overwritten"} \X N!Trees /\ cli \in NRegistrations
  /\ ops \in 0 .. MaxOps /\ faults \in 0 .. MaxFaults /\ edits \in 0 .. MaxEdits

\* What the operation found in the root, and what there is of a backup of it.
NFound == before.place[N!Root]
NBackup == backup[N!Root]
NMoves == {"install", "remove"}
NToggles == {"enable", "disable"}

\* Where the operation is, against its outcome and its kind.
NStages ==
  /\ step \in NWorking <=> outcome = "running"
  /\ step = "leave" => outcome \in Results
  /\ step # "idle" => op \in N!Operations
  /\ step \in NInstalling => op.kind = "install"
  /\ step \in NExchanging \cup NRestoring => op.kind \in NMoves
  /\ step \in NSwitching => op.kind \in NToggles

\* Once the check is over: what it made sure of, and the enabled state it keeps, the
\* CLI's or else the marker's.
NPrior ==
  /\ step = "check" => (N!root.edit = "none" => N!root = NFound)
  /\ step \in NWorking \ {"check"} =>
       /\ before.cli.plugin # N!NoPlugin => before.cli.market
       /\ before.cli.market => NFound.v # Nothing
       /\ NFound.files = "whole"
       /\ prior = [v |-> NFound.v,
                   on |-> IF before.cli.plugin # N!NoPlugin THEN before.cli.plugin.on ELSE NFound.on]
       /\ op.kind # "install" => NFound.v # Nothing
       /\ op.kind \in NToggles => before.cli.plugin # N!NoPlugin

\* The flags, against the step: before the recheck, and through enable and disable, none is
\* set; on the way there none is broken, and nothing is committed before the backup is
\* removed.
NFlagged ==
  step \in NWorking =>
  /\ step \in {"check", "stage", "recheck"} \cup NSwitching => tx = N!NoChange
  /\ tx.touched => op.kind = "install"
  /\ op.kind = "install" /\ step \in (NInstalling \cup NExchanging) \ {"stage", "recheck"} => tx.touched
  /\ tx.active => tx.touched
  /\ tx.moved \/ tx.committed => op.kind \in NMoves /\ (op.kind = "install" => tx.touched)
  /\ step \in {"uninstall", "unmarket", "move"} => ~tx.moved /\ ~tx.active
  /\ step \in NInstalling \cup NExchanging => ~tx.broken
  /\ step \in (NInstalling \cup NExchanging) \ {"drop", "clean"} => ~tx.committed
  /\ step = "drop" => tx.moved
  /\ step \in {"drop", "clean"} => tx.committed
  /\ step = "discard" => tx.active

\* A tree is that which was found, or, when the change was committed and the removal of
\* the backup begun, what is left of it.
NStill(t) == t.v = NFound.v /\ t.on = NFound.on /\ (t.files = "part" => NFound.files = "part" \/ tx.committed)

\* The tree that was found is in the backup when it was moved and in the root when not,
\* or there was none and the root has the new one.
NFiles ==
  step \in NWorking \ {"clean"} =>
  /\ tx.moved => NStill(NBackup) /\ NFound.v # Nothing
  /\ ~tx.moved => NStill(N!root) \/ (tx.active /\ NFound.v = Nothing)
  /\ tx.active /\ ~tx.moved /\ step \notin NRebuilding \cup {"end"} => NFound.v = Nothing
  /\ step = "put back" /\ tx.active => N!root.v = Nothing
  /\ step \in NRebuilding \/ (step = "end" /\ ~tx.broken) => NStill(N!root)

\* On the way there the root is what the operation aims at, once that is in place.
NRoot ==
  /\ op.kind = "install" /\ step \in {"market", "install", "turn off", "confirm", "drop", "clean"} =>
       N!root.v = N!Aim.v /\ N!root.on = N!Aim.on
  /\ op.kind = "remove" /\ step \in {"confirm", "drop", "clean"} => N!root.v = Nothing
  /\ step = "activate" => N!root.v = Nothing
  /\ step = "discard" => N!root.v # Nothing

\* No edit that a check could find is in what is about to be deleted.
NEdits ==
  /\ step = "drop" => NBackup.edit # "found"
  /\ step = "discard" => N!root.edit # "found"
  /\ \A x \in lost : x[2].edit # "found"

\* What the CLI lists on the way there: each command that succeeded has done its part.
NForth ==
  /\ step \in {"check", "stage", "recheck", "uninstall", "switch"} => cli = before.cli
  /\ step = "unmarket" => cli.market = before.cli.market /\ cli.plugin = N!NoPlugin
  /\ step \in {"move", "activate", "market"} => cli = N!Unregistered
  /\ step = "install" => cli = [market |-> TRUE, plugin |-> N!NoPlugin]
  /\ step = "turn off" => cli = [market |-> TRUE, plugin |-> [v |-> N!root.v, on |-> TRUE]]
  /\ step \in {"drop", "clean"} /\ op.kind = "install" => cli = [market |-> TRUE, plugin |-> N!Aim]
  /\ step \in {"confirm", "drop", "clean"} /\ op.kind = "remove" => cli = N!Unregistered
  /\ step \in {"mark", "rename"} => cli.plugin.on = N!Aim.on
  /\ step \in NWorking /\ op.kind \in NToggles =>
       cli.market = before.cli.market /\ cli.plugin.v = before.cli.plugin.v

\* The registration is that which was found, but for a plugin that was not of the root's
\* version.
NRegistered ==
  /\ cli.market = before.cli.market /\ cli.plugin.on = before.cli.plugin.on
  /\ cli.plugin.v = before.cli.plugin.v \/ (before.cli.plugin # N!NoPlugin /\ cli.plugin.v = N!root.v)

\* On the way back: nothing is left of the new registration before the files are put back,
\* unless a command of the rollback failed, and then the old one is built up again.
NBack ==
  /\ step \in {"undo registration", "undo files", "discard", "put back", "add back"} =>
       /\ op.kind = "remove" =>
            /\ ~before.cli.market => cli = before.cli
            /\ before.cli.plugin = N!NoPlugin \/ ~cli.market => cli.plugin = N!NoPlugin
       /\ op.kind = "install" /\ ~tx.touched => cli = before.cli
  /\ step \in {"undo files", "discard", "put back", "add back"} /\ op.kind = "install" /\ tx.touched /\ ~tx.broken =>
       cli = N!Unregistered
  /\ step \in {"install back", "off again"} => N!Registers
  /\ step = "install back" /\ ~tx.broken => cli = [market |-> TRUE, plugin |-> N!NoPlugin]
  /\ step = "off again" =>
       /\ before.cli.plugin # N!NoPlugin /\ ~before.cli.plugin.on
       /\ ~tx.broken => cli = [market |-> TRUE, plugin |-> [v |-> N!root.v, on |-> TRUE]]
  /\ step = "end" /\ ~tx.broken => NRegistered

\* An operation that is over without having committed anything has left everything as it
\* was found, whatever it reports, unless its rollback was incomplete.
NLeft ==
  step = "leave" =>
    /\ outcome = "failed" => ~tx.broken
    /\ outcome = "incomplete" => tx.broken
    /\ ~tx.broken /\ ~tx.committed => N!Same(N!root, NFound) /\ NRegistered

NInv == NTyped /\ NStages /\ NPrior /\ NFlagged /\ NFiles /\ NRoot /\ NEdits /\ NForth /\ NBack
        /\ NLeft /\ N!PreimageHeld /\ N!FailureRestores /\ N!SuccessMeans

-----------------------------------------------------------------------------
(* The native host. Trees and registrations. *)

NOf(m, p) == [market |-> m, plugin |-> p]
NVersion(v, on) == [v |-> v, on |-> on]

\* What the writing of a marker makes of a tree.
NFilled(t, files) == [t EXCEPT !.files = files]
NMarked(t, on) == [t EXCEPT !.on = on, !.files = "whole"]

\* Which records are trees, and what an edit, the writing of a marker or a removal that
\* has begun makes of one.
LEMMA NTreesAre ==
  /\ N!NoTree \in NTrees /\ NTrees \subseteq N!Trees
  /\ N!NoTree.v = Nothing /\ N!NoTree.on = FALSE /\ N!NoTree.files = "whole" /\ N!NoTree.edit = "none"
  /\ \A v \in Versions, on \in BOOLEAN :
       N!Tree(v, on) \in NTrees /\ N!Tree(v, on).v = v /\ N!Tree(v, on).on = on /\ v # Nothing
  /\ \A t \in NTrees : /\ t.v \in Versions \cup {Nothing} /\ t.on \in BOOLEAN
                       /\ t.v = Nothing => ~t.on /\ t.on = FALSE /\ t.files = "whole"
                       /\ t.edit = "none" /\ t.v = Nothing => t = N!NoTree
                       /\ N!Whole(t) => t.v \in Versions /\ t.files = "whole" /\ t.edit = "none"
                       /\ t.v # Nothing => t.v \in Versions
  /\ \A t \in NTrees, s \in {"found", "late"} :
       /\ Touched(t, s) \in NTrees /\ Touched(t, s).v = t.v /\ Touched(t, s).on = t.on
       /\ Touched(t, s).files = t.files /\ Touched(t, s).edit = s
  /\ \A t \in NTrees : t.v # Nothing =>
       /\ N!Begun(t) \in NTrees /\ N!Begun(t).v = t.v /\ N!Begun(t).on = t.on /\ N!Begun(t).edit = t.edit
       /\ \A f \in {"whole", "more"} :
            /\ NFilled(t, f) \in NTrees /\ NFilled(t, f).v = t.v /\ NFilled(t, f).on = t.on
            /\ NFilled(t, f).files = f
       /\ \A on \in BOOLEAN : NMarked(t, on) \in NTrees /\ NMarked(t, on).v = t.v /\ NMarked(t, on).on = on
<1>. USE ManagedAssumption DEF N!Trees, N!NoTree, NTrees
<1>1. /\ N!NoTree \in NTrees /\ NTrees \subseteq N!Trees
      /\ N!NoTree.v = Nothing /\ N!NoTree.on = FALSE /\ N!NoTree.files = "whole" /\ N!NoTree.edit = "none"
  OBVIOUS
<1>2. \A v \in Versions, on \in BOOLEAN :
       N!Tree(v, on) \in NTrees /\ N!Tree(v, on).v = v /\ N!Tree(v, on).on = on /\ v # Nothing
  BY DEF N!Tree
<1>3. \A t \in NTrees : /\ t.v \in Versions \cup {Nothing} /\ t.on \in BOOLEAN
                        /\ t.v = Nothing => ~t.on /\ t.on = FALSE /\ t.files = "whole"
                        /\ t.edit = "none" /\ t.v = Nothing => t = N!NoTree
                        /\ N!Whole(t) => t.v \in Versions /\ t.files = "whole" /\ t.edit = "none"
                        /\ t.v # Nothing => t.v \in Versions
  <2>1. TAKE t \in NTrees
  <2>2. t.v \in Versions \cup {Nothing} /\ t.on \in BOOLEAN
    OBVIOUS
  <2>3. t.v = Nothing => ~t.on /\ t.on = FALSE /\ t.files = "whole"
    BY <2>2
  <2>4. t.edit = "none" /\ t.v = Nothing => t = N!NoTree
    BY <2>3
  <2>5. N!Whole(t) => t.v \in Versions /\ t.files = "whole" /\ t.edit = "none"
    BY <2>2 DEF N!Whole
  <2>6. QED  BY <2>2, <2>3, <2>4, <2>5
<1>4. ASSUME NEW t \in NTrees, NEW s \in {"found", "late"}
      PROVE  /\ Touched(t, s) \in NTrees /\ Touched(t, s).v = t.v /\ Touched(t, s).on = t.on
             /\ Touched(t, s).files = t.files /\ Touched(t, s).edit = s
  BY DEF Touched
<1>5. ASSUME NEW t \in NTrees, t.v # Nothing
      PROVE  N!Begun(t) \in NTrees /\ N!Begun(t).v = t.v /\ N!Begun(t).on = t.on /\ N!Begun(t).edit = t.edit
  BY <1>5 DEF N!Begun
<1>6. ASSUME NEW t \in NTrees, t.v # Nothing, NEW f \in {"whole", "more"}
      PROVE  /\ NFilled(t, f) \in NTrees /\ NFilled(t, f).v = t.v /\ NFilled(t, f).on = t.on
             /\ NFilled(t, f).files = f
  BY <1>6 DEF NFilled
<1>7. ASSUME NEW t \in NTrees, t.v # Nothing, NEW on \in BOOLEAN
      PROVE  NMarked(t, on) \in NTrees /\ NMarked(t, on).v = t.v /\ NMarked(t, on).on = on
  BY <1>7 DEF NMarked
<1>8. QED  BY <1>1, <1>2, <1>3, <1>4, <1>5, <1>6, <1>7

\* The same files.
LEMMA NSames ==
  /\ \A t : N!Same(t, t)
  /\ \A t, u, w : N!Same(t, w) /\ u.v = t.v /\ u.on = t.on /\ u.files = t.files => N!Same(u, w)
  /\ \A t \in NTrees, u \in NTrees : t.v = Nothing /\ u.v = Nothing => N!Same(t, u)
  /\ \A t, u : N!Same(t, u) => t.v = u.v /\ t.on = u.on
<1>1. /\ \A t : N!Same(t, t)
      /\ \A t, u, w : N!Same(t, w) /\ u.v = t.v /\ u.on = t.on /\ u.files = t.files => N!Same(u, w)
      /\ \A t, u : N!Same(t, u) => t.v = u.v /\ t.on = u.on
  BY DEF N!Same
<1>2. \A t \in NTrees, u \in NTrees : t.v = Nothing /\ u.v = Nothing => N!Same(t, u)
  BY NTreesAre DEF N!Same
<1>3. QED  BY <1>1, <1>2

\* There is one target.
LEMMA NRootedIs ==
  /\ \A t : N!Here(t)[N!Root] = t
  /\ \A t \in NTrees : N!Here(t) \in NRooted
  /\ \A p \in NRooted : p[N!Root] \in NTrees /\ p = N!Here(p[N!Root]) /\ DOMAIN p = {N!Root}
  /\ \A p \in NRooted : \A u : [p EXCEPT ![N!Root] = u] = N!Here(u)
BY DEF N!Here, NRooted

\* What is in the root, in the backup and in what was found.
LEMMA NPlaces ==
  ASSUME NTyped
  PROVE  /\ place \in NRooted /\ backup \in NRooted /\ N!root \in NTrees /\ NBackup \in NTrees /\ NFound \in NTrees
         /\ place = N!Here(N!root) /\ backup = N!Here(NBackup)
         /\ \A t : place' = N!Here(t) => N!root' = t
         /\ \A t : backup' = N!Here(t) => NBackup' = t
         /\ place' = place => N!root' = N!root
         /\ backup' = backup => NBackup' = NBackup
BY NRootedIs DEF NTyped, NFound, NBackup, N!root

\* The registration, and what the commands of the CLI make of it.
LEMMA NCliIs ==
  ASSUME NTyped
  PROVE  /\ cli.market \in BOOLEAN /\ cli.plugin \in NPlugins /\ cli = NOf(cli.market, cli.plugin)
         /\ before.cli.market \in BOOLEAN /\ before.cli.plugin \in NPlugins
         /\ before.cli = NOf(before.cli.market, before.cli.plugin)
         /\ N!Uninstalled = NOf(cli.market, N!NoPlugin)
         /\ N!Removed = NOf(FALSE, cli.plugin)
         /\ N!Added = NOf(TRUE, cli.plugin)
         /\ N!Installed = NOf(cli.market, NVersion(N!root.v, TRUE))
         /\ \A on : N!Switched(on) = NOf(cli.market, NVersion(cli.plugin.v, on))
         /\ N!Unregistered = NOf(FALSE, N!NoPlugin)
<1>1. cli \in NRegistrations /\ before.cli \in NRegistrations
  BY DEF NTyped
<1>2. cli.plugin = [v |-> cli.plugin.v, on |-> cli.plugin.on]
  BY <1>1 DEF NRegistrations, NPlugins, N!NoPlugin
<1>3. /\ cli.market \in BOOLEAN /\ cli.plugin \in NPlugins /\ cli = [market |-> cli.market, plugin |-> cli.plugin]
      /\ before.cli.market \in BOOLEAN /\ before.cli.plugin \in NPlugins
      /\ before.cli = [market |-> before.cli.market, plugin |-> before.cli.plugin]
  BY <1>1 DEF NRegistrations
<1>4. /\ N!Uninstalled = NOf(cli.market, N!NoPlugin) /\ N!Removed = NOf(FALSE, cli.plugin)
      /\ N!Added = NOf(TRUE, cli.plugin) /\ N!Installed = NOf(cli.market, NVersion(N!root.v, TRUE))
  <2>1. ASSUME NEW r \in NRegistrations, NEW u
        PROVE  /\ [r EXCEPT !.plugin = u] = [market |-> r.market, plugin |-> u]
               /\ [r EXCEPT !.market = u] = [market |-> u, plugin |-> r.plugin]
    BY DEF NRegistrations
  <2>2. QED  BY <1>1, <2>1 DEF N!Uninstalled, N!Removed, N!Added, N!Installed, NOf, NVersion
<1>5. \A on : N!Switched(on) = NOf(cli.market, NVersion(cli.plugin.v, on))
  <2>1. TAKE on
  <2>2. [cli.plugin EXCEPT !.on = on] = [v |-> cli.plugin.v, on |-> on]
    BY <1>2
  <2>3. N!Switched(on) = [cli EXCEPT !.plugin = [cli.plugin EXCEPT !.on = on]]
    BY <1>3 DEF N!Switched
  <2>4. QED  BY <1>3, <2>2, <2>3 DEF NOf, NVersion
<1>6. QED  BY <1>3, <1>4, <1>5 DEF N!Unregistered, NOf

\* Which registrations there are.
LEMMA NRegistrationsAre ==
  /\ \A m \in BOOLEAN, p \in NPlugins : NOf(m, p) \in NRegistrations
  /\ \A v \in Versions, on \in BOOLEAN : NVersion(v, on) \in NPlugins /\ NVersion(v, on) # N!NoPlugin
  /\ N!NoPlugin \in NPlugins /\ N!NoPlugin.v = Nothing /\ N!NoPlugin.on = FALSE
  /\ \A p \in NPlugins : p # N!NoPlugin => p.v \in Versions /\ p.on \in BOOLEAN /\ p = NVersion(p.v, p.on)
  /\ \A p \in NPlugins : p.on \in BOOLEAN /\ (p = N!NoPlugin <=> p.v = Nothing)
  /\ \A m, p : NOf(m, p).market = m /\ NOf(m, p).plugin = p
  /\ \A v, on : NVersion(v, on).v = v /\ NVersion(v, on).on = on
<1>. USE ManagedAssumption DEF NPlugins, NVersion, N!NoPlugin
<1>1. \A m \in BOOLEAN, p \in NPlugins : NOf(m, p) \in NRegistrations
  BY DEF NRegistrations, NOf
<1>2. \A v \in Versions, on \in BOOLEAN : NVersion(v, on) \in NPlugins /\ NVersion(v, on) # N!NoPlugin
  OBVIOUS
<1>3. N!NoPlugin \in NPlugins /\ N!NoPlugin.v = Nothing /\ N!NoPlugin.on = FALSE
  OBVIOUS
<1>4. \A p \in NPlugins : p # N!NoPlugin => p.v \in Versions /\ p.on \in BOOLEAN /\ p = NVersion(p.v, p.on)
  OBVIOUS
<1>5. ASSUME NEW p \in NPlugins
      PROVE  p.on \in BOOLEAN /\ (p = N!NoPlugin <=> p.v = Nothing)
  <2>1. CASE p = N!NoPlugin
    BY <2>1
  <2>2. CASE p \in [v : Versions, on : BOOLEAN]
    <3>1. p.v \in Versions /\ p.on \in BOOLEAN
      BY <2>2
    <3>2. QED  BY <3>1
  <2>3. QED  BY <2>1, <2>2
<1>6. \A m, p : NOf(m, p).market = m /\ NOf(m, p).plugin = p
  BY DEF NOf
<1>7. \A v, on : NVersion(v, on).v = v /\ NVersion(v, on).on = on
  OBVIOUS
<1>8. QED  BY <1>1, <1>2, <1>3, <1>4, <1>5, <1>6, <1>7

\* What an operation aims at.
LEMMA NAim ==
  ASSUME NTyped, NStages, step # "idle"
  PROVE  /\ op.kind = "install" => N!Aim.v = op.v /\ N!Aim.v \in Versions /\ N!Aim.on \in BOOLEAN
                                   /\ N!Aim.on = (prior = N!NotOwned \/ prior.on)
         /\ op.kind \in NToggles => N!Aim.on = (op.kind = "enable") /\ N!Aim.on \in BOOLEAN /\ N!Aim.v = prior.v
         /\ op.kind \in {"install", "enable", "disable", "remove"}
BY DEF NTyped, NStages, N!Aim, Marks, N!Operations, N!NotOwned, NToggles

\* What was found in the root, from the marker's version.
LEMMA NPriorIs ==
  ASSUME NTyped, NPrior, step \in NWorking \ {"check"}
  PROVE  prior = N!NotOwned <=> NFound.v = Nothing
<1>1. /\ before.cli.plugin # N!NoPlugin => before.cli.market
      /\ before.cli.market => NFound.v # Nothing
      /\ prior = [v |-> NFound.v,
                  on |-> IF before.cli.plugin # N!NoPlugin THEN before.cli.plugin.on ELSE NFound.on]
  BY DEF NPrior
<1>2. NFound.v = Nothing => NFound.on = FALSE
  BY NPlaces, NTreesAre
<1>3. QED  BY <1>1, <1>2 DEF N!NotOwned

-----------------------------------------------------------------------------
(* The native host. What each step does. *)

NFlagsAre(touched, moved, active, committed, broken) ==
  tx' = [touched |-> touched, moved |-> moved, active |-> active, committed |-> committed, broken |-> broken]

\* The flags of the transaction, one by one.
LEMMA NFlagsWritten ==
  ASSUME NTyped
  PROVE  /\ tx' = [tx EXCEPT !.touched = TRUE] => NFlagsAre(TRUE, tx.moved, tx.active, tx.committed, tx.broken)
         /\ tx' = [tx EXCEPT !.moved = TRUE] => NFlagsAre(tx.touched, TRUE, tx.active, tx.committed, tx.broken)
         /\ tx' = [tx EXCEPT !.moved = FALSE] => NFlagsAre(tx.touched, FALSE, tx.active, tx.committed, tx.broken)
         /\ tx' = [tx EXCEPT !.active = TRUE] => NFlagsAre(tx.touched, tx.moved, TRUE, tx.committed, tx.broken)
         /\ tx' = [tx EXCEPT !.committed = TRUE] => NFlagsAre(tx.touched, tx.moved, tx.active, TRUE, tx.broken)
         /\ N!Broken => NFlagsAre(tx.touched, tx.moved, tx.active, tx.committed, TRUE)
         /\ tx.touched \in BOOLEAN /\ tx.moved \in BOOLEAN /\ tx.active \in BOOLEAN /\ tx.committed \in BOOLEAN
         /\ tx.broken \in BOOLEAN
BY DEF NTyped, NFlags, NFlagsAre, N!Broken

\* The flags after a step, one by one.
LEMMA NFlagsOf ==
  ASSUME NEW a, NEW b, NEW c, NEW d, NEW e, NFlagsAre(a, b, c, d, e)
  PROVE  tx'.touched = a /\ tx'.moved = b /\ tx'.active = c /\ tx'.committed = d /\ tx'.broken = e
BY DEF NFlagsAre

NBrokenNow == NFlagsAre(tx.touched, tx.moved, tx.active, tx.committed, TRUE)
NFilesStay == UNCHANGED <<place, backup, lost>>
\* What no step but the check and the ends changes.
NKeeps == UNCHANGED <<op, prior, before, outcome, lock>>

NStartDoes ==
  /\ step = "idle" /\ UNCHANGED <<place, cli>>
  /\ \/ outcome' = "locked" /\ UNCHANGED <<backup, lock, step, op, prior, before, tx, lost>>
     \/ /\ lock' = TRUE /\ step' = "check" /\ op' \in N!Operations /\ outcome' = "running"
        /\ prior' = N!NotOwned /\ before' = [place |-> place, cli |-> cli] /\ tx' = N!NoChange
        /\ backup' = N!Here(N!NoTree) /\ lost' = {}
NCheckDoes ==
  /\ step = "check" /\ UNCHANGED <<place, backup, lock, op, before, tx, lost, cli>> /\ prior' \in Marks
  /\ \/ step' = "leave" /\ outcome' = "failed"
     \/ step' = "leave" /\ outcome' = "missing" /\ N!root.v = Nothing /\ cli = N!Unregistered
     \/ /\ outcome' = outcome /\ N!root.edit = "none" /\ N!root.files = "whole"
        /\ prior' = [v |-> N!root.v, on |-> IF cli.plugin # N!NoPlugin THEN cli.plugin.on ELSE N!root.on]
        /\ cli.plugin # N!NoPlugin => cli.market
        /\ cli.market => N!root.v # Nothing
        /\ \/ step' = "stage" /\ op.kind = "install"
           \/ step' = "uninstall" /\ op.kind = "remove" /\ N!root.v # Nothing
           \/ step' = "switch" /\ op.kind \in NToggles /\ N!root.v # Nothing /\ cli.plugin # N!NoPlugin
NEndDoes(results) ==
  step' = "leave" /\ outcome' \in results /\ UNCHANGED <<lock, op, prior, before, backup>>
NStageDoes ==
  /\ step = "stage" /\ step' \in {"recheck", "undo registration"} /\ NFilesStay /\ NKeeps /\ UNCHANGED <<tx, cli>>
NRecheckDoes ==
  /\ step = "recheck" /\ NFilesStay /\ NKeeps /\ UNCHANGED cli
  /\ \/ step' = "uninstall" /\ NFlagsAre(TRUE, tx.moved, tx.active, tx.committed, tx.broken)
     \/ step' = "undo registration" /\ UNCHANGED tx
NUninstallDoes ==
  /\ step = "uninstall" /\ NFilesStay /\ NKeeps /\ UNCHANGED tx
  /\ \/ step' = "unmarket" /\ cli' = NOf(cli.market, N!NoPlugin) /\ before.cli.plugin # N!NoPlugin
     \/ step' = "unmarket" /\ cli' = cli /\ before.cli.plugin = N!NoPlugin
     \/ /\ step' = "undo registration" /\ before.cli.plugin # N!NoPlugin
        /\ cli' \in {cli, NOf(cli.market, N!NoPlugin)}
NUnmarketDoes ==
  /\ step = "unmarket" /\ NFilesStay /\ NKeeps /\ UNCHANGED tx
  /\ \/ step' = "move" /\ cli' = NOf(FALSE, cli.plugin) /\ before.cli.market
     \/ step' = "move" /\ cli' = cli /\ ~before.cli.market
     \/ /\ step' = "undo registration" /\ before.cli.market
        /\ cli' \in {cli, NOf(FALSE, cli.plugin)}
NMoveDoes ==
  /\ step = "move" /\ NKeeps /\ UNCHANGED <<lost, cli>>
  /\ \/ /\ step' = (IF op.kind = "remove" THEN "confirm" ELSE "activate") /\ prior # N!NotOwned
        /\ place' = N!Here(N!NoTree) /\ backup' = place
        /\ NFlagsAre(tx.touched, TRUE, tx.active, tx.committed, tx.broken)
     \/ step' = "activate" /\ prior = N!NotOwned /\ UNCHANGED <<place, backup, tx>>
     \/ step' = "undo registration" /\ UNCHANGED <<place, backup, tx>>
NActivateDoes ==
  /\ step = "activate" /\ NKeeps /\ UNCHANGED <<backup, lost, cli>>
  /\ \/ /\ step' = "market" /\ place' = N!Here(N!Tree(N!Aim.v, N!Aim.on))
        /\ NFlagsAre(tx.touched, tx.moved, TRUE, tx.committed, tx.broken)
     \/ step' = "undo registration" /\ UNCHANGED <<place, tx>>
NMarketDoes ==
  /\ step = "market" /\ NFilesStay /\ NKeeps /\ UNCHANGED tx /\ cli' \in NRegistrations
  /\ \/ step' = "install" /\ cli' = NOf(TRUE, cli.plugin)
     \/ step' = "undo registration"
NInstallDoes ==
  /\ step = "install" /\ NFilesStay /\ NKeeps /\ UNCHANGED tx /\ cli' \in NRegistrations
  /\ \/ /\ step' = (IF N!Aim.on THEN "confirm" ELSE "turn off")
        /\ cli' = NOf(cli.market, NVersion(N!root.v, TRUE))
     \/ step' = "undo registration"
NTurnOffDoes ==
  /\ step = "turn off" /\ step' \in {"confirm", "undo registration"} /\ NFilesStay /\ NKeeps /\ UNCHANGED tx
  /\ cli' \in NRegistrations
NConfirmDoes ==
  /\ step = "confirm" /\ NFilesStay /\ NKeeps /\ UNCHANGED cli
  /\ \/ /\ step' = (IF tx.moved THEN "drop" ELSE "clean") /\ N!Confirmed
        /\ NFlagsAre(tx.touched, tx.moved, tx.active, TRUE, tx.broken)
     \/ step' = "undo registration" /\ UNCHANGED tx
NDropDoes ==
  /\ step = "drop" /\ NKeeps /\ UNCHANGED <<place, cli>>
  /\ lost' \subseteq lost \cup {<<"deleted", NBackup>>}
  /\ \/ /\ step' = "clean" /\ backup' = N!Here(N!NoTree)
        /\ NFlagsAre(tx.touched, FALSE, tx.active, tx.committed, tx.broken)
     \/ step' = "drop" /\ backup' = N!Here(N!Begun(NBackup)) /\ UNCHANGED tx
     \/ step' = "undo registration" /\ UNCHANGED <<backup, tx>>
NCleanDoes ==
  /\ step = "clean" /\ UNCHANGED <<place, tx, cli, lost>>
  /\ NEndDoes({IF op.kind = "remove" THEN "missing" ELSE "ok", "masked"})
NSwitchDoes ==
  /\ step = "switch" /\ NFilesStay /\ NKeeps /\ UNCHANGED tx
  /\ \/ step' = "mark" /\ cli' = NOf(cli.market, NVersion(cli.plugin.v, N!Aim.on))
     \/ step' = "undo registration" /\ cli' \in {cli, NOf(cli.market, NVersion(cli.plugin.v, N!Aim.on))}
NMarkDoes ==
  /\ step = "mark" /\ NKeeps /\ UNCHANGED <<backup, tx, cli, lost>>
  /\ \/ step' = "rename" /\ place' = N!Here(NFilled(N!root, "more"))
     \/ step' = "undo registration" /\ UNCHANGED place
NRenameDoes ==
  /\ step = "rename" /\ UNCHANGED <<cli, lost>>
  /\ \/ /\ NEndDoes({"ok"}) /\ place' = N!Here(NMarked(N!root, N!Aim.on))
        /\ NFlagsAre(tx.touched, tx.moved, tx.active, TRUE, tx.broken)
     \/ /\ step' = "undo registration" /\ NKeeps /\ UNCHANGED <<backup, tx>>
        /\ \E f \in {"whole", "more"} : place' = N!Here(NFilled(N!root, f))
NUndoRegistrationDoes ==
  /\ step = "undo registration" /\ NFilesStay /\ NKeeps
  /\ \/ /\ step' = "end" /\ op.kind \in NToggles /\ UNCHANGED tx /\ cli.plugin # N!NoPlugin
        /\ cli' = NOf(cli.market, NVersion(cli.plugin.v, before.cli.plugin.on))
     \/ /\ step' = "end" /\ op.kind \in NToggles /\ NBrokenNow
        /\ \/ cli' = cli
           \/ cli.plugin # N!NoPlugin /\ cli' = NOf(cli.market, NVersion(cli.plugin.v, before.cli.plugin.on))
     \/ /\ step' = "undo files" /\ op.kind = "install" /\ tx.touched /\ UNCHANGED tx
        /\ cli' = NOf(FALSE, N!NoPlugin)
     \/ /\ step' = "undo files" /\ op.kind = "install" /\ tx.touched /\ NBrokenNow
        /\ cli' \in NRegistrations
     \/ /\ step' = "undo files" /\ op.kind \notin NToggles /\ ~(op.kind = "install" /\ tx.touched)
        /\ UNCHANGED <<tx, cli>>
NUndoFilesDoes ==
  /\ step = "undo files" /\ NFilesStay /\ NKeeps /\ UNCHANGED cli
  /\ \/ step' = "put back" /\ ~tx.active /\ UNCHANGED tx
     \/ step' = "discard" /\ tx.active /\ UNCHANGED tx /\ N!Whole(N!root)
     \/ step' = "end" /\ tx.active /\ NBrokenNow
NDiscardDoes ==
  /\ step = "discard" /\ NKeeps /\ UNCHANGED <<backup, cli>>
  /\ lost' \subseteq lost \cup {<<"deleted", N!root>>}
  /\ \/ step' = "put back" /\ UNCHANGED tx /\ place' = N!Here(N!NoTree)
     \/ step' = "discard" /\ UNCHANGED tx /\ place' = N!Here(N!Begun(N!root))
     \/ step' = "end" /\ UNCHANGED place /\ NBrokenNow
NPutBackDoes ==
  /\ step = "put back" /\ NKeeps /\ UNCHANGED <<lost, cli>>
  /\ \/ step' = "add back" /\ ~tx.moved /\ UNCHANGED <<place, backup, tx>>
     \/ /\ step' = "add back" /\ tx.moved /\ place' = backup /\ backup' = N!Here(N!NoTree)
        /\ NFlagsAre(tx.touched, FALSE, tx.active, tx.committed, tx.broken)
     \/ step' = "end" /\ NBrokenNow /\ UNCHANGED <<place, backup>>
NAddBackDoes ==
  /\ step = "add back" /\ NFilesStay /\ NKeeps /\ cli' \in NRegistrations
  /\ \/ /\ step' = "install back" /\ N!Registers /\ ~cli.market /\ UNCHANGED tx
        /\ cli' = NOf(TRUE, cli.plugin)
     \/ step' = "end" /\ NBrokenNow
     \/ step' = "end" /\ ~N!Registers /\ UNCHANGED <<tx, cli>>
NInstallBackDoes ==
  /\ step = "install back" /\ NFilesStay /\ NKeeps /\ cli' \in NRegistrations
  /\ \/ step' = "end" /\ before.cli.plugin = N!NoPlugin /\ UNCHANGED <<tx, cli>>
     \/ /\ step' = (IF before.cli.plugin.on THEN "end" ELSE "off again")
        /\ before.cli.plugin # N!NoPlugin /\ UNCHANGED tx
        /\ cli' = NOf(cli.market, NVersion(N!root.v, TRUE))
     \/ step' = "end" /\ NBrokenNow
NOffAgainDoes ==
  /\ step = "off again" /\ step' = "end" /\ NFilesStay /\ NKeeps /\ cli' \in NRegistrations
  /\ \/ UNCHANGED tx /\ cli' = NOf(cli.market, NVersion(cli.plugin.v, FALSE))
     \/ NBrokenNow
NRolledBackDoes ==
  /\ step = "end" /\ UNCHANGED <<place, tx, cli, lost>>
  /\ NEndDoes({IF tx.broken THEN "incomplete" ELSE "failed", "masked"})
NLeaveDoes ==
  /\ step = "leave" /\ step' = "idle" /\ lock' \in {lock, FALSE} /\ outcome' \in {outcome, "masked"}
  /\ UNCHANGED <<place, backup, op, prior, before, tx, lost, cli>>
NKillDoes ==
  /\ step # "idle" /\ step' = "idle" /\ outcome' = "killed"
  /\ UNCHANGED <<place, backup, lock, op, prior, before, tx, lost, cli>>
NClearDoes ==
  step = "idle" /\ lock' = FALSE /\ UNCHANGED <<place, backup, step, op, prior, before, tx, outcome, lost, cli>>
NEditOf(s) ==
  \/ /\ backup' = backup /\ place' = N!Here(Touched(N!root, s))
     /\ step = "discard" /\ N!root.edit # "found" => s = "late"
  \/ /\ NBackup # N!NoTree /\ place' = place /\ backup' = N!Here(Touched(NBackup, s))
     /\ step = "drop" /\ NBackup.edit # "found" => s = "late"
NEditDoes ==
  /\ UNCHANGED <<lock, step, op, prior, before, tx, outcome, lost, cli>>
  /\ \E s \in {"found", "late"} : NEditOf(s)
NUserSwitchesDoes ==
  /\ step = "idle" /\ outcome' = "none" /\ cli' \in NRegistrations
  /\ UNCHANGED <<place, backup, lock, step, op, prior, before, tx, lost>>

NDoes ==
  \/ NStartDoes \/ NCheckDoes \/ NStageDoes \/ NRecheckDoes \/ NUninstallDoes \/ NUnmarketDoes \/ NMoveDoes
  \/ NActivateDoes \/ NMarketDoes \/ NInstallDoes \/ NTurnOffDoes \/ NConfirmDoes \/ NDropDoes \/ NCleanDoes
  \/ NSwitchDoes \/ NMarkDoes \/ NRenameDoes \/ NUndoRegistrationDoes \/ NUndoFilesDoes \/ NDiscardDoes
  \/ NPutBackDoes \/ NAddBackDoes \/ NInstallBackDoes \/ NOffAgainDoes \/ NRolledBackDoes \/ NLeaveDoes \/ NKillDoes
  \/ NClearDoes \/ NEditDoes \/ NUserSwitchesDoes

-----------------------------------------------------------------------------
(* The native host. Every step does what is said of it. *)

\* The registrations the commands of the CLI make.
LEMMA NCommands ==
  ASSUME NTyped
  PROVE  /\ \A m \in BOOLEAN : NOf(m, cli.plugin) \in NRegistrations
         /\ NOf(cli.market, N!NoPlugin) \in NRegistrations /\ NOf(FALSE, N!NoPlugin) \in NRegistrations
         /\ N!root.v # Nothing => NOf(cli.market, NVersion(N!root.v, TRUE)) \in NRegistrations
         /\ NOf(cli.market, NVersion(cli.plugin.v, FALSE)) \in NRegistrations
         /\ \A on \in BOOLEAN : cli.plugin # N!NoPlugin =>
              NOf(cli.market, NVersion(cli.plugin.v, on)) \in NRegistrations
         /\ cli \in NRegistrations
<1>1. cli.market \in BOOLEAN /\ cli.plugin \in NPlugins /\ cli \in NRegistrations
  BY NCliIs DEF NTyped
<1>2. N!root.v # Nothing => NVersion(N!root.v, TRUE) \in NPlugins
  BY NPlaces, NTreesAre, NRegistrationsAre
<1>3. NVersion(cli.plugin.v, FALSE) \in NPlugins
  <2>1. CASE cli.plugin = N!NoPlugin
    <3>1. NVersion(cli.plugin.v, FALSE) = N!NoPlugin
      BY <2>1 DEF NVersion, N!NoPlugin
    <3>2. QED  BY <3>1, NRegistrationsAre
  <2>2. CASE cli.plugin # N!NoPlugin
    BY <1>1, <2>2, NRegistrationsAre
  <2>3. QED  BY <2>1, <2>2
<1>4. \A on \in BOOLEAN : cli.plugin # N!NoPlugin => NVersion(cli.plugin.v, on) \in NPlugins
  BY <1>1, NRegistrationsAre
<1>5. QED  BY <1>1, <1>2, <1>3, <1>4, NRegistrationsAre

\* What the check does, when it finds nothing to stop at: what the marker says.
LEMMA NCheckIs ==
  ASSUME NTyped, NStages, N!Check
  PROVE  NCheckDoes
<1>1. /\ step = "check" /\ UNCHANGED <<place, backup, lock, op, before, tx, lost, cli>>
      /\ op.kind \in {"install", "enable", "disable", "remove"}
  BY NAim DEF N!Check, N!At
<1>2. N!root \in NTrees /\ cli.plugin \in NPlugins /\ cli = NOf(cli.market, cli.plugin)
  BY NPlaces, NCliIs
<1>3. /\ N!Owned => N!root.v \in Versions /\ N!root.on \in BOOLEAN /\ N!root.edit = "none" /\ N!root.files = "whole"
      /\ N!Absent => /\ N!root.v = Nothing /\ N!root.on = FALSE /\ N!root.edit = "none"
                     /\ N!root.files = "whole"
  BY <1>2, NTreesAre DEF N!Owned, N!Absent, N!Exists
<1>4. N!Owned => N!root.v # Nothing
  BY DEF N!Owned, N!Whole
<1>5. prior' \in Marks
  <2>1. N!MarkerSays \in Marks
    BY <1>3, ManagedAssumption DEF N!MarkerSays, Marks, N!NotOwned
  <2>2. N!MarkerSays # N!NotOwned /\ cli.plugin # N!NoPlugin => [N!MarkerSays EXCEPT !.on = cli.plugin.on] \in Marks
    <3>1. SUFFICES ASSUME N!MarkerSays # N!NotOwned, cli.plugin # N!NoPlugin
                   PROVE  [N!MarkerSays EXCEPT !.on = cli.plugin.on] \in Marks
      OBVIOUS
    <3>2. N!MarkerSays = [v |-> N!root.v, on |-> N!root.on] /\ N!root.v \in Versions /\ cli.plugin.on \in BOOLEAN
      BY <1>2, <1>3, <3>1, NRegistrationsAre DEF N!MarkerSays
    <3>3. QED  BY <3>2, ManagedAssumption DEF Marks
  <2>3. QED  BY <2>1, <2>2 DEF N!Check
<1>6. CASE ~(N!Owned \/ N!Absent) \/ ~N!StateKnown \/ (cli.market /\ N!Absent)
  BY <1>1, <1>5, <1>6 DEF N!Check, N!Goto, NCheckDoes
<1>7. CASE ~(~(N!Owned \/ N!Absent) \/ ~N!StateKnown \/ (cli.market /\ N!Absent))
  <2>1. prior' = [v |-> N!root.v, on |-> IF cli.plugin # N!NoPlugin THEN cli.plugin.on ELSE N!root.on]
    <3>1. CASE N!Owned
      <4>1. N!MarkerSays = [v |-> N!root.v, on |-> N!root.on] /\ N!MarkerSays # N!NotOwned
        BY <1>4, <3>1 DEF N!MarkerSays, N!NotOwned
      <4>2. QED  BY <4>1 DEF N!Check
    <3>2. CASE N!Absent
      <4>1. cli.plugin = N!NoPlugin
        BY <1>7, <3>2 DEF N!StateKnown
      <4>2. N!MarkerSays = N!NotOwned
        BY <1>3, <1>4, <3>2 DEF N!MarkerSays
      <4>3. QED  BY <1>3, <3>2, <4>1, <4>2 DEF N!Check, N!NotOwned
    <3>3. QED  BY <1>7, <3>1, <3>2
  <2>2. /\ cli.plugin # N!NoPlugin => cli.market
        /\ cli.market => N!root.v # Nothing
        /\ N!root.edit = "none" /\ N!root.files = "whole"
        /\ ~N!Absent => N!root.v # Nothing
    BY <1>3, <1>4, <1>7 DEF N!StateKnown
  <2>3. CASE op.kind = "install"
    BY <1>1, <1>5, <1>7, <2>1, <2>2, <2>3 DEF N!Check, N!Goto, NCheckDoes
  <2>4. CASE op.kind # "install" /\ N!Absent
    <3>1. cli = N!Unregistered
      <4>1. ~cli.market /\ cli.plugin = N!NoPlugin
        BY <1>7, <2>4 DEF N!StateKnown
      <4>2. cli.market \in BOOLEAN
        BY NCliIs
      <4>3. QED  BY <1>2, <4>1, <4>2, NCliIs
    <3>2. QED  BY <1>1, <1>3, <1>5, <1>7, <2>4, <3>1 DEF N!Check, N!Goto, NCheckDoes
  <2>5. CASE op.kind = "remove" /\ ~N!Absent
    BY <1>1, <1>5, <1>7, <2>1, <2>2, <2>5 DEF N!Check, N!Goto, NCheckDoes
  <2>6. CASE op.kind \in NToggles /\ ~N!Absent /\ cli.plugin = N!NoPlugin
    BY <1>1, <1>5, <1>7, <2>6 DEF N!Check, N!Goto, NCheckDoes, NToggles
  <2>7. CASE op.kind \in NToggles /\ ~N!Absent /\ cli.plugin # N!NoPlugin
    BY <1>1, <1>5, <1>7, <2>1, <2>2, <2>7 DEF N!Check, N!Goto, NCheckDoes, NToggles
  <2>8. QED  BY <1>1, <2>3, <2>4, <2>5, <2>6, <2>7 DEF NToggles
<1>8. QED  BY <1>6, <1>7

\* What the user's edit does.
LEMMA NEditIs ==
  ASSUME NTyped, N!UserEdits
  PROVE  NEditDoes
<1>1. DOMAIN place = {N!Root} /\ place \in NRooted /\ backup \in NRooted
  BY NPlaces, NRootedIs
<1>2. UNCHANGED <<lock, step, op, prior, before, tx, outcome, lost, cli>>
  BY DEF N!UserEdits, N!Edit
<1>3. \A u : \A late \in BOOLEAN :
        N!Edited(u, late) = Touched(u, IF late /\ u.edit # "found" THEN "late" ELSE "found")
  BY DEF N!Edited, Touched
<1>4. \/ /\ backup' = backup
         /\ place' = [place EXCEPT ![N!Root] = N!Edited(N!root, N!Root \in IF step = "discard" THEN {N!Root} ELSE {})]
      \/ /\ N!Exists(NBackup) /\ place' = place
         /\ backup' = [backup EXCEPT ![N!Root] = N!Edited(NBackup, step = "drop")]
  BY <1>1 DEF N!UserEdits, N!Edit, N!root, NBackup, N!At
<1>5. CASE /\ backup' = backup
           /\ place' = [place EXCEPT ![N!Root] = N!Edited(N!root, N!Root \in IF step = "discard" THEN {N!Root} ELSE {})]
  <2>1. (N!Root \in IF step = "discard" THEN {N!Root} ELSE {}) = (step = "discard")
    OBVIOUS
  <2>2. (step = "discard") \in BOOLEAN
    OBVIOUS
  <2>3. PICK s \in {"found", "late"} :
           /\ N!Edited(N!root, step = "discard") = Touched(N!root, s)
           /\ step = "discard" /\ N!root.edit # "found" => s = "late"
    BY <1>3, <2>2
  <2>4. place' = N!Here(Touched(N!root, s))
    BY <1>1, <1>5, <2>1, <2>3, NRootedIs
  <2>5. NEditOf(s)
    BY <1>5, <2>3, <2>4 DEF NEditOf
  <2>6. QED  BY <1>2, <2>5 DEF NEditDoes
<1>6. CASE /\ N!Exists(NBackup) /\ place' = place
           /\ backup' = [backup EXCEPT ![N!Root] = N!Edited(NBackup, step = "drop")]
  <2>1. (step = "drop") \in BOOLEAN
    OBVIOUS
  <2>2. PICK s \in {"found", "late"} :
           /\ N!Edited(NBackup, step = "drop") = Touched(NBackup, s)
           /\ step = "drop" /\ NBackup.edit # "found" => s = "late"
    BY <1>3, <2>1
  <2>3. backup' = N!Here(Touched(NBackup, s))
    BY <1>1, <1>6, <2>2, NRootedIs
  <2>4. NEditOf(s)
    BY <1>6, <2>2, <2>3 DEF NEditOf, N!Exists
  <2>5. QED  BY <1>2, <2>4 DEF NEditDoes
<1>7. QED  BY <1>4, <1>5, <1>6

\* Every step does what is said of it above.
LEMMA NStepDoes ==
  ASSUME NTyped, NStages, NPrior, NFiles, NRoot, NBack, N!Next
  PROVE  NDoes
<1>. USE DEF N!At, N!Goto, N!Works, N!held, N!still, NKeeps, NFilesStay
<1>1. CASE N!Start
  <2>1. place \in NRooted /\ backup \in NRooted
    BY NPlaces
  <2>2. N!Emptied => backup' = N!Here(N!NoTree)
    BY <2>1, NRootedIs DEF N!Emptied, N!Here
  <2>3. NStartDoes
    BY <1>1, <2>2 DEF N!Start, N!Begin, NStartDoes, N!Working
  <2>4. QED  BY <2>3 DEF NDoes
<1>2. CASE N!Check
  BY <1>2, NCheckIs DEF NDoes
<1>3. CASE N!Stage
  <2>1. NStageDoes
    BY <1>3 DEF N!Stage, NStageDoes, N!Fails
  <2>2. QED  BY <2>1 DEF NDoes
<1>4. CASE N!Recheck
  <2>1. NRecheckDoes
    BY <1>4, NFlagsWritten DEF N!Recheck, NRecheckDoes
  <2>2. QED  BY <2>1 DEF NDoes
<1>5. CASE N!Uninstall
  <2>1. NUninstallDoes
    BY <1>5, NCliIs DEF N!Uninstall, N!Command, NUninstallDoes
  <2>2. QED  BY <2>1 DEF NDoes
<1>6. CASE N!Unmarket
  <2>1. NUnmarketDoes
    BY <1>6, NCliIs DEF N!Unmarket, N!Command, NUnmarketDoes
  <2>2. QED  BY <2>1 DEF NDoes
<1>7. CASE N!Move
  <2>1. NMoveDoes
    BY <1>7, NFlagsWritten DEF N!Move, NMoveDoes
  <2>2. QED  BY <2>1 DEF NDoes
<1>8. CASE N!Activate
  <2>1. NActivateDoes
    BY <1>8, NFlagsWritten DEF N!Activate, NActivateDoes, N!Fails
  <2>2. QED  BY <2>1 DEF NDoes
<1>9. CASE N!Market
  <2>1. NMarketDoes
    BY <1>9, NCliIs, NCommands DEF N!Market, N!Command, NMarketDoes
  <2>2. QED  BY <2>1 DEF NDoes
<1>10. CASE N!Install
  <2>1. N!root.v # Nothing
    <3>1. step = "install" /\ op.kind = "install"
      BY <1>10 DEF N!Install, NStages, NInstalling
    <3>2. N!root.v = N!Aim.v /\ N!Aim.v \in Versions
      BY <3>1, NAim DEF NRoot
    <3>3. QED  BY <3>2, ManagedAssumption
  <2>2. NInstallDoes
    BY <1>10, <2>1, NCliIs, NCommands DEF N!Install, N!Command, NInstallDoes
  <2>3. QED  BY <2>2 DEF NDoes
<1>11. CASE N!TurnOff
  <2>1. cli' \in {cli, NOf(cli.market, NVersion(cli.plugin.v, FALSE))}
    BY <1>11, NCliIs DEF N!TurnOff, N!Command
  <2>2. NTurnOffDoes
    BY <1>11, <2>1, NCommands DEF N!TurnOff, N!Command, NTurnOffDoes
  <2>3. QED  BY <2>2 DEF NDoes
<1>12. CASE N!Confirm
  <2>1. NConfirmDoes
    BY <1>12, NFlagsWritten DEF N!Confirm, NConfirmDoes, N!Fails
  <2>2. QED  BY <2>1 DEF NDoes
<1>13. CASE N!Drop
  <2>1. N!Deleted({backup[N!Root]}) \/ UNCHANGED lost => lost' \subseteq lost \cup {<<"deleted", NBackup>>}
    BY DEF N!Deleted, NBackup
  <2>2. NDropDoes
    BY <1>13, <2>1, NFlagsWritten DEF N!Drop, NDropDoes, NBackup
  <2>3. QED  BY <2>2 DEF NDoes
<1>14. CASE N!Clean
  <2>1. NCleanDoes
    BY <1>14 DEF N!Clean, N!End, NCleanDoes, NEndDoes
  <2>2. QED  BY <2>1 DEF NDoes
<1>15. CASE N!Switch
  <2>1. NSwitchDoes
    BY <1>15, NCliIs DEF N!Switch, N!Command, NSwitchDoes
  <2>2. QED  BY <2>1 DEF NDoes
<1>16. CASE N!Mark
  <2>1. place \in NRooted
    BY NPlaces
  <2>2. [place EXCEPT ![N!Root].files = "more"] = N!Here(NFilled(N!root, "more"))
    <3>1. [place EXCEPT ![N!Root].files = "more"] = [place EXCEPT ![N!Root] = NFilled(N!root, "more")]
      BY DEF NFilled, N!root
    <3>2. QED  BY <2>1, <3>1, NRootedIs
  <2>3. NMarkDoes
    BY <1>16, <2>2 DEF N!Mark, NMarkDoes, N!Fails
  <2>4. QED  BY <2>3 DEF NDoes
<1>17. CASE N!Rename
  <2>1. place \in NRooted /\ DOMAIN place = {N!Root}
    BY NPlaces, NRootedIs
  <2>2. [place EXCEPT ![N!Root].on = N!Aim.on, ![N!Root].files = "whole"] = N!Here(NMarked(N!root, N!Aim.on))
    <3>1. [place EXCEPT ![N!Root].on = N!Aim.on, ![N!Root].files = "whole"]
            = [place EXCEPT ![N!Root] = NMarked(N!root, N!Aim.on)]
      BY <2>1 DEF NMarked, N!root
    <3>2. QED  BY <2>1, <3>1, NRootedIs
  <2>3. \A f : [place EXCEPT ![N!Root].files = f] = N!Here(NFilled(N!root, f))
    <3>1. \A f : [place EXCEPT ![N!Root].files = f] = [place EXCEPT ![N!Root] = NFilled(N!root, f)]
      BY DEF NFilled, N!root
    <3>2. QED  BY <2>1, <3>1, NRootedIs
  <2>4. NRenameDoes
    BY <1>17, <2>2, <2>3, NFlagsWritten DEF N!Rename, N!End, NRenameDoes, NEndDoes
  <2>5. QED  BY <2>4 DEF NDoes
<1>18. CASE N!UndoRegistration
  <2>1. /\ step = "undo registration" /\ UNCHANGED <<place, backup, lost, N!held>>
        /\ before.cli.plugin.on \in BOOLEAN
    BY <1>18, NCliIs, NRegistrationsAre DEF N!UndoRegistration
  <2>2. CASE op.kind \in NToggles
    <3>1. N!Try(cli.plugin # N!NoPlugin, N!Switched(before.cli.plugin.on), "end")
      BY <1>18, <2>2 DEF N!UndoRegistration, NToggles, N!Toggles
    <3>2. QED  BY <2>1, <2>2, <3>1, NCliIs, NFlagsWritten DEF N!Try, NBrokenNow, NUndoRegistrationDoes, NDoes
  <2>3. CASE op.kind = "install" /\ tx.touched
    <3>1. op.kind \notin NToggles
      BY <2>3 DEF NToggles
    <3>2. \/ cli' = N!Unregistered /\ step' = "undo files" /\ UNCHANGED tx
          \/ /\ cli' \in {cli, N!Uninstalled, N!Unregistered} /\ N!Broken
             /\ step' = "undo files"
      BY <1>18, <2>3, <3>1 DEF N!UndoRegistration, NToggles, N!Toggles
    <3>3. cli' \in NRegistrations
      BY <3>2, NCliIs, NCommands
    <3>4. QED
      BY <2>1, <2>3, <3>1, <3>2, <3>3, NCliIs, NFlagsWritten DEF NBrokenNow, NUndoRegistrationDoes, NDoes
  <2>4. CASE op.kind \notin NToggles /\ ~(op.kind = "install" /\ tx.touched)
    <3>1. step' = "undo files" /\ UNCHANGED <<cli, tx>>
      BY <1>18, <2>4 DEF N!UndoRegistration, NToggles, N!Toggles
    <3>2. QED  BY <2>1, <2>4, <3>1 DEF NUndoRegistrationDoes, NDoes
  <2>5. QED  BY <2>2, <2>3, <2>4
<1>19. CASE N!UndoFiles
  <2>1. NUndoFilesDoes
    BY <1>19, NFlagsWritten DEF N!UndoFiles, NUndoFilesDoes, NBrokenNow, N!Owned
  <2>2. QED  BY <2>1 DEF NDoes
<1>20. CASE N!Discard
  <2>1. N!Deleted({N!root}) \/ UNCHANGED lost => lost' \subseteq lost \cup {<<"deleted", N!root>>}
    BY DEF N!Deleted
  <2>2. NDiscardDoes
    BY <1>20, <2>1, NFlagsWritten DEF N!Discard, NDiscardDoes, NBrokenNow
  <2>3. QED  BY <2>2 DEF NDoes
<1>21. CASE N!PutBack
  <2>1. NPutBackDoes
    BY <1>21, NFlagsWritten DEF N!PutBack, NPutBackDoes, NBrokenNow
  <2>2. QED  BY <2>1 DEF NDoes
<1>22. CASE N!AddBack
  <2>1. NAddBackDoes
    BY <1>22, NFlagsWritten, NCliIs, NCommands DEF N!AddBack, N!Try, NAddBackDoes, NBrokenNow
  <2>2. QED  BY <2>1 DEF NDoes
<1>23. CASE N!InstallBack
  <2>1. step = "install back" /\ N!Registers /\ N!root.v = NFound.v
    BY <1>23 DEF N!InstallBack, NBack, NFiles, NStill, NRebuilding, NRestoring, NWorking
  <2>2. N!root.v # Nothing
    BY <2>1 DEF NPrior, N!Registers, NRebuilding, NRestoring, NWorking
  <2>3. NInstallBackDoes
    BY <1>23, <2>2, NFlagsWritten, NCliIs, NCommands DEF N!InstallBack, N!Try, NInstallBackDoes, NBrokenNow
  <2>4. QED  BY <2>3 DEF NDoes
<1>24. CASE N!OffAgain
  <2>1. cli' \in {cli, NOf(cli.market, NVersion(cli.plugin.v, FALSE))}
    BY <1>24, NCliIs DEF N!OffAgain, N!Try
  <2>2. NOffAgainDoes
    BY <1>24, <2>1, NFlagsWritten, NCliIs, NCommands DEF N!OffAgain, N!Try, NOffAgainDoes, NBrokenNow
  <2>3. QED  BY <2>2 DEF NDoes
<1>25. CASE N!RolledBack
  <2>1. NRolledBackDoes
    BY <1>25 DEF N!RolledBack, N!End, NRolledBackDoes, NEndDoes
  <2>2. QED  BY <2>1 DEF NDoes
<1>26. CASE (N!Leave /\ UNCHANGED cli) \/ (N!Kill /\ UNCHANGED cli)
  <2>1. NLeaveDoes \/ NKillDoes
    BY <1>26 DEF N!Leave, NLeaveDoes, N!Kill, NKillDoes, N!Working
  <2>2. QED  BY <2>1 DEF NDoes
<1>27. CASE N!ClearLock /\ UNCHANGED cli
  BY <1>27 DEF N!ClearLock, NClearDoes, NDoes, N!Working
<1>28. CASE N!UserEdits
  BY <1>28, NEditIs DEF NDoes
<1>29. CASE N!UserSwitches
  <2>1. /\ step = "idle" /\ outcome' = "none" /\ cli.plugin # N!NoPlugin
        /\ cli' \in {N!Switched(~cli.plugin.on), N!Removed}
        /\ UNCHANGED <<place, backup, lock, step, op, prior, before, tx, lost>>
    BY <1>29 DEF N!UserSwitches, N!Working
  <2>2. cli' \in NRegistrations
    <3>1. N!Removed \in NRegistrations
      BY NCliIs, NCommands
    <3>2. N!Switched(~cli.plugin.on) \in NRegistrations
      <4>1. (~cli.plugin.on) \in BOOLEAN
        OBVIOUS
      <4>2. NOf(cli.market, NVersion(cli.plugin.v, ~cli.plugin.on)) \in NRegistrations
        BY <2>1, <4>1, NCommands
      <4>3. QED  BY <4>2, NCliIs
    <3>3. QED  BY <2>1, <3>1, <3>2
  <2>3. QED  BY <2>1, <2>2 DEF NUserSwitchesDoes, NDoes
<1>30. QED
  BY <1>1, <1>2, <1>3, <1>4, <1>5, <1>6, <1>7, <1>8, <1>9, <1>10, <1>11, <1>12, <1>13, <1>14, <1>15, <1>16, <1>17,
     <1>18, <1>19, <1>20, <1>21, <1>22, <1>23, <1>24, <1>25, <1>26, <1>27, <1>28, <1>29 DEF N!Next

\* The counters stay within their bounds.
LEMMA NCounted ==
  ASSUME NTyped, N!Next
  PROVE  ops' \in 0 .. MaxOps /\ faults' \in 0 .. MaxFaults /\ edits' \in 0 .. MaxEdits
<1>1. ops \in 0 .. MaxOps /\ faults \in 0 .. MaxFaults /\ edits \in 0 .. MaxEdits
  BY DEF NTyped
<1>2. (UNCHANGED faults \/ N!Fault) => faults' \in 0 .. MaxFaults
  BY <1>1, ManagedAssumption DEF N!Fault
<1>3. UNCHANGED faults \/ N!Fault
  BY DEF N!Next, N!Start, N!Begin, N!Check, N!Stage, N!Recheck, N!Uninstall, N!Unmarket, N!Move, N!Activate,
     N!Market, N!Install, N!TurnOff, N!Confirm, N!Drop, N!Clean, N!Switch, N!Mark, N!Rename, N!UndoRegistration,
     N!UndoFiles, N!Discard, N!PutBack, N!AddBack, N!InstallBack, N!OffAgain, N!RolledBack, N!Leave, N!Kill,
     N!ClearLock, N!UserEdits, N!UserSwitches, N!Edit, N!Works, N!Fails, N!Command, N!Try
<1>4. \/ UNCHANGED <<ops, edits>>
      \/ ops < MaxOps /\ ops' = ops + 1 /\ UNCHANGED edits
      \/ edits < MaxEdits /\ edits' = edits + 1 /\ UNCHANGED ops
  BY DEF N!Next, N!Start, N!Begin, N!Check, N!Stage, N!Recheck, N!Uninstall, N!Unmarket, N!Move, N!Activate,
     N!Market, N!Install, N!TurnOff, N!Confirm, N!Drop, N!Clean, N!Switch, N!Mark, N!Rename, N!UndoRegistration,
     N!UndoFiles, N!Discard, N!PutBack, N!AddBack, N!InstallBack, N!OffAgain, N!RolledBack, N!Leave, N!Kill,
     N!ClearLock, N!UserEdits, N!UserSwitches, N!Edit, N!still
<1>5. QED  BY <1>1, <1>2, <1>3, <1>4, ManagedAssumption

-----------------------------------------------------------------------------
(* The native host. Types, stages, what the check found, and the flags. *)

\* A registration stays one.
LEMMA NRegisteredNext ==
  ASSUME NTyped, NStages, NPrior, NForth, NDoes
  PROVE  cli' \in NRegistrations
<1>1. /\ \A m \in BOOLEAN : NOf(m, cli.plugin) \in NRegistrations
      /\ NOf(cli.market, N!NoPlugin) \in NRegistrations /\ NOf(FALSE, N!NoPlugin) \in NRegistrations
      /\ \A on \in BOOLEAN : cli.plugin # N!NoPlugin =>
           NOf(cli.market, NVersion(cli.plugin.v, on)) \in NRegistrations
      /\ cli \in NRegistrations /\ before.cli.plugin.on \in BOOLEAN
  BY NCommands, NCliIs, NRegistrationsAre
<1>2. CASE cli' \in {cli, NOf(cli.market, N!NoPlugin), NOf(FALSE, cli.plugin)}
  BY <1>1, <1>2
<1>3. CASE NSwitchDoes
  <2>1. cli = before.cli /\ op.kind \in NToggles /\ N!Aim.on \in BOOLEAN /\ before.cli.plugin # N!NoPlugin
    BY <1>3, NAim DEF NSwitchDoes, NForth, NStages, NSwitching, NPrior, NWorking
  <2>2. QED  BY <1>1, <1>3, <2>1 DEF NSwitchDoes
<1>4. CASE NUndoRegistrationDoes
  BY <1>1, <1>4 DEF NUndoRegistrationDoes
<1>5. CASE cli' \in NRegistrations
  BY <1>5
<1>6. CASE NUninstallDoes \/ NUnmarketDoes
  BY <1>2, <1>6 DEF NUninstallDoes, NUnmarketDoes
<1>7. CASE NMarketDoes \/ NInstallDoes \/ NTurnOffDoes \/ NAddBackDoes \/ NInstallBackDoes \/ NOffAgainDoes
           \/ NUserSwitchesDoes
  BY <1>7 DEF NMarketDoes, NInstallDoes, NTurnOffDoes, NAddBackDoes, NInstallBackDoes, NOffAgainDoes,
     NUserSwitchesDoes
<1>8. CASE cli' = cli
  BY <1>1, <1>8
<1>9. QED
  BY <1>3, <1>4, <1>6, <1>7, <1>8 DEF NDoes, NStartDoes, NCheckDoes, NStageDoes, NRecheckDoes, NMoveDoes,
     NActivateDoes, NConfirmDoes, NDropDoes, NCleanDoes, NMarkDoes, NRenameDoes, NUndoFilesDoes, NDiscardDoes,
     NPutBackDoes, NRolledBackDoes, NLeaveDoes, NKillDoes, NClearDoes, NEditDoes

\* Enable and disable write the marker of the root that was found; what is removed in
\* parts is a tree.
LEMMA NThere ==
  ASSUME NTyped, NStages, NPrior, NFlagged, NFiles, NRoot
  PROVE  /\ step \in NSwitching => N!root.v # Nothing /\ ~tx.moved /\ ~tx.active /\ ~tx.committed /\ NStill(N!root)
         /\ step = "drop" => NBackup.v # Nothing
         /\ step = "discard" => N!root.v # Nothing
         /\ step \in NSwitching => op.kind \in NToggles
<1>1. ASSUME step \in NSwitching
      PROVE  /\ N!root.v # Nothing /\ ~tx.moved /\ ~tx.active /\ ~tx.committed /\ NStill(N!root)
             /\ op.kind \in NToggles
  <2>1. step \in NWorking /\ step \notin {"check", "clean"} /\ op.kind \in NToggles
    BY <1>1 DEF NWorking, NSwitching, NStages
  <2>2. tx = N!NoChange
    BY <1>1, <2>1 DEF NFlagged
  <2>3. ~tx.moved /\ ~tx.active /\ ~tx.committed
    BY <2>2 DEF N!NoChange
  <2>4. NStill(N!root)
    BY <2>1, <2>3 DEF NFiles
  <2>5. NFound.v # Nothing
    BY <2>1 DEF NPrior, NToggles
  <2>6. QED  BY <2>1, <2>3, <2>4, <2>5 DEF NStill
<1>2. step = "drop" => NBackup.v # Nothing
  BY DEF NFiles, NFlagged, NStill, NWorking, NExchanging
<1>3. step = "discard" => N!root.v # Nothing
  BY DEF NRoot
<1>4. QED  BY <1>1, <1>2, <1>3

\* The trees stay trees.
LEMMA NPlacesNext ==
  ASSUME NTyped, NStages, NPrior, NFlagged, NFiles, NRoot, NDoes
  PROVE  place' \in NRooted /\ backup' \in NRooted
<1>1. /\ place \in NRooted /\ backup \in NRooted /\ N!root \in NTrees /\ NBackup \in NTrees
      /\ N!Here(N!NoTree) \in NRooted /\ \A t \in NTrees : N!Here(t) \in NRooted
  BY NPlaces, NRootedIs, NTreesAre
<1>2. CASE NMoveDoes \/ NPutBackDoes
  BY <1>1, <1>2 DEF NMoveDoes, NPutBackDoes
<1>3. CASE NActivateDoes
  <2>1. N!Aim.v \in Versions /\ N!Aim.on \in BOOLEAN
    BY <1>3, NAim DEF NActivateDoes, NStages, NInstalling
  <2>2. N!Tree(N!Aim.v, N!Aim.on) \in NTrees
    BY <2>1, NTreesAre
  <2>3. QED  BY <1>1, <1>3, <2>2 DEF NActivateDoes
<1>4. CASE NMarkDoes
  <2>1. N!root.v # Nothing
    BY <1>4, NThere DEF NMarkDoes, NSwitching
  <2>2. NFilled(N!root, "more") \in NTrees
    BY <1>1, <2>1, NTreesAre
  <2>3. QED  BY <1>1, <1>4, <2>2 DEF NMarkDoes
<1>5. CASE NRenameDoes
  <2>1. N!root.v # Nothing /\ N!Aim.on \in BOOLEAN
    BY <1>5, NThere, NAim DEF NRenameDoes, NSwitching
  <2>2. NMarked(N!root, N!Aim.on) \in NTrees /\ \A f \in {"whole", "more"} : NFilled(N!root, f) \in NTrees
    BY <1>1, <2>1, NTreesAre
  <2>3. QED  BY <1>1, <1>5, <2>2 DEF NRenameDoes, NEndDoes
<1>6. CASE NDropDoes
  <2>1. N!Begun(NBackup) \in NTrees
    BY <1>1, <1>6, NThere, NTreesAre DEF NDropDoes
  <2>2. QED  BY <1>1, <1>6, <2>1 DEF NDropDoes
<1>7. CASE NDiscardDoes
  <2>1. N!Begun(N!root) \in NTrees
    BY <1>1, <1>7, NThere, NTreesAre DEF NDiscardDoes
  <2>2. QED  BY <1>1, <1>7, <2>1 DEF NDiscardDoes
<1>8. CASE NEditDoes
  <2>1. \A s \in {"found", "late"} : Touched(N!root, s) \in NTrees /\ Touched(NBackup, s) \in NTrees
    BY <1>1, NTreesAre
  <2>2. QED  BY <1>1, <1>8, <2>1 DEF NEditDoes, NEditOf
<1>9. CASE NCleanDoes \/ NRolledBackDoes \/ NKillDoes \/ NLeaveDoes \/ NStartDoes
  BY <1>1, <1>9 DEF NCleanDoes, NRolledBackDoes, NKillDoes, NEndDoes, NLeaveDoes, NStartDoes
<1>10. CASE UNCHANGED <<place, backup>>
  BY <1>1, <1>10
<1>11. QED
  BY <1>2, <1>3, <1>4, <1>5, <1>6, <1>7, <1>8, <1>9, <1>10 DEF NDoes, NCheckDoes, NStageDoes, NRecheckDoes,
     NUninstallDoes, NUnmarketDoes, NMarketDoes, NInstallDoes, NTurnOffDoes, NConfirmDoes, NSwitchDoes,
     NUndoRegistrationDoes, NUndoFilesDoes, NAddBackDoes, NInstallBackDoes, NOffAgainDoes, NClearDoes,
     NUserSwitchesDoes, NFilesStay

\* The types are kept.
LEMMA NTypedNext ==
  ASSUME NTyped, NStages, NPrior, NFlagged, NFiles, NRoot, NForth, NDoes, ops' \in 0 .. MaxOps,
         faults' \in 0 .. MaxFaults, edits' \in 0 .. MaxEdits
  PROVE  NTyped'
<1>1. /\ place \in NRooted /\ backup \in NRooted
      /\ lock \in BOOLEAN /\ step \in NSteps /\ op \in N!Operations \cup {N!NoOp} /\ prior \in Marks
      /\ before \in [place : NRooted, cli : NRegistrations] /\ tx \in NFlags /\ outcome \in Outcomes
      /\ lost \subseteq {"deleted", "overwritten"} \X N!Trees /\ cli \in NRegistrations
      /\ N!root \in N!Trees /\ NBackup \in N!Trees
  BY NPlaces, NTreesAre DEF NTyped
<1>2. lost' \subseteq {"deleted", "overwritten"} \X N!Trees
  <2>1. \/ lost' = lost \/ lost' = {}
        \/ lost' \subseteq lost \cup {<<"deleted", NBackup>>} \/ lost' \subseteq lost \cup {<<"deleted", N!root>>}
    BY DEF NDoes, NStartDoes, NCheckDoes, NStageDoes, NRecheckDoes, NUninstallDoes, NUnmarketDoes, NMoveDoes,
     NActivateDoes, NMarketDoes, NInstallDoes, NTurnOffDoes, NConfirmDoes, NDropDoes, NCleanDoes, NSwitchDoes,
     NMarkDoes, NRenameDoes, NUndoRegistrationDoes, NUndoFilesDoes, NDiscardDoes, NPutBackDoes, NAddBackDoes,
     NInstallBackDoes, NOffAgainDoes, NRolledBackDoes, NLeaveDoes, NKillDoes, NClearDoes, NEditDoes,
     NUserSwitchesDoes, NFilesStay
  <2>2. QED  BY <1>1, <2>1
<1>3. tx' \in NFlags
  <2>1. N!NoChange \in NFlags
    BY DEF N!NoChange, NFlags
  <2>2. \A a, b, c, d, e \in BOOLEAN : NFlagsAre(a, b, c, d, e) => tx' \in NFlags
    BY DEF NFlagsAre, NFlags
  <2>3. /\ tx.touched \in BOOLEAN /\ tx.moved \in BOOLEAN /\ tx.active \in BOOLEAN /\ tx.committed \in BOOLEAN
        /\ tx.broken \in BOOLEAN
    BY NFlagsWritten
  <2>4. /\ NFlagsAre(TRUE, tx.moved, tx.active, tx.committed, tx.broken) => tx' \in NFlags
        /\ NFlagsAre(tx.touched, TRUE, tx.active, tx.committed, tx.broken) => tx' \in NFlags
        /\ NFlagsAre(tx.touched, FALSE, tx.active, tx.committed, tx.broken) => tx' \in NFlags
        /\ NFlagsAre(tx.touched, tx.moved, TRUE, tx.committed, tx.broken) => tx' \in NFlags
        /\ NFlagsAre(tx.touched, tx.moved, tx.active, TRUE, tx.broken) => tx' \in NFlags
        /\ NBrokenNow => tx' \in NFlags
    BY <2>2, <2>3 DEF NBrokenNow
  <2>5. \/ tx' = tx \/ tx' = N!NoChange
        \/ NFlagsAre(TRUE, tx.moved, tx.active, tx.committed, tx.broken)
        \/ NFlagsAre(tx.touched, TRUE, tx.active, tx.committed, tx.broken)
        \/ NFlagsAre(tx.touched, FALSE, tx.active, tx.committed, tx.broken)
        \/ NFlagsAre(tx.touched, tx.moved, TRUE, tx.committed, tx.broken)
        \/ NFlagsAre(tx.touched, tx.moved, tx.active, TRUE, tx.broken)
        \/ NBrokenNow
    BY DEF NDoes, NStartDoes, NCheckDoes, NStageDoes, NRecheckDoes, NUninstallDoes, NUnmarketDoes, NMoveDoes,
     NActivateDoes, NMarketDoes, NInstallDoes, NTurnOffDoes, NConfirmDoes, NDropDoes, NCleanDoes, NSwitchDoes,
     NMarkDoes, NRenameDoes, NUndoRegistrationDoes, NUndoFilesDoes, NDiscardDoes, NPutBackDoes, NAddBackDoes,
     NInstallBackDoes, NOffAgainDoes, NRolledBackDoes, NLeaveDoes, NKillDoes, NClearDoes, NEditDoes,
     NUserSwitchesDoes
  <2>6. QED  BY <1>1, <2>1, <2>4, <2>5
<1>4. /\ lock' \in BOOLEAN /\ op' \in N!Operations \cup {N!NoOp} /\ before' \in [place : NRooted, cli : NRegistrations]
      /\ outcome' \in Outcomes /\ step' \in NSteps /\ prior' \in Marks
  <2>1. CASE NStartDoes
    <3>1. [place |-> place, cli |-> cli] \in [place : NRooted, cli : NRegistrations]
      BY <1>1
    <3>2. N!NotOwned \in Marks
      BY DEF N!NotOwned, Marks
    <3>3. QED  BY <1>1, <2>1, <3>1, <3>2 DEF NStartDoes, NSteps, NWorking, Outcomes
  <2>2. CASE NCheckDoes
    BY <1>1, <2>2 DEF NCheckDoes, NSteps, NWorking, Outcomes, NInstalling, NExchanging, NSwitching
  <2>3. CASE NCleanDoes \/ NRolledBackDoes \/ NKillDoes \/ NLeaveDoes
    BY <1>1, <2>3 DEF NCleanDoes, NRolledBackDoes, NKillDoes, NLeaveDoes, NEndDoes, NSteps, Outcomes
  <2>4. CASE NClearDoes \/ NEditDoes \/ NUserSwitchesDoes
    BY <1>1, <2>4 DEF NClearDoes, NEditDoes, NUserSwitchesDoes, Outcomes
  <2>5. CASE NRenameDoes
    BY <1>1, <2>5 DEF NRenameDoes, NEndDoes, NSteps, NWorking, Outcomes, NKeeps
  <2>6. CASE NKeeps /\ step' \in NSteps
    BY <1>1, <2>6 DEF NKeeps
  <2>7. CASE NStageDoes \/ NRecheckDoes \/ NUninstallDoes \/ NUnmarketDoes \/ NMoveDoes \/ NActivateDoes
             \/ NMarketDoes \/ NInstallDoes \/ NTurnOffDoes \/ NConfirmDoes \/ NDropDoes \/ NSwitchDoes \/ NMarkDoes
    BY <2>6, <2>7 DEF NStageDoes, NRecheckDoes, NUninstallDoes, NUnmarketDoes, NMoveDoes, NActivateDoes,
       NMarketDoes, NInstallDoes, NTurnOffDoes, NConfirmDoes, NDropDoes, NSwitchDoes, NMarkDoes, NSteps, NWorking,
       NInstalling, NExchanging, NSwitching
  <2>8. CASE NUndoRegistrationDoes \/ NUndoFilesDoes \/ NDiscardDoes \/ NPutBackDoes \/ NAddBackDoes
             \/ NInstallBackDoes \/ NOffAgainDoes
    BY <2>6, <2>8 DEF NUndoRegistrationDoes, NUndoFilesDoes, NDiscardDoes, NPutBackDoes, NAddBackDoes,
       NInstallBackDoes, NOffAgainDoes, NSteps, NWorking, NRestoring, NRebuilding
  <2>9. QED  BY <2>1, <2>2, <2>3, <2>4, <2>5, <2>7, <2>8 DEF NDoes
<1>5. cli' \in NRegistrations /\ place' \in NRooted /\ backup' \in NRooted
  BY NRegisteredNext, NPlacesNext
<1>6. QED  BY <1>2, <1>3, <1>4, <1>5 DEF NTyped

\* The steps of an operation.
LEMMA NStagesNext ==
  ASSUME NTyped, NStages, NPrior, NFlagged, NFiles, NDoes
  PROVE  NStages'
<1>. USE DEF NStages, NWorking, NInstalling, NExchanging, NSwitching, NRestoring, NRebuilding, NMoves, NToggles, Results
<1>1. step # "idle" => op.kind \in {"install", "enable", "disable", "remove"}
  BY NAim
<1>2. CASE NMoveDoes
  <2>1. op.kind = "remove" => prior # N!NotOwned
    <3>1. step \in NWorking \ {"check"}
      BY <1>2 DEF NMoveDoes
    <3>2. op.kind = "remove" => NFound.v # Nothing
      BY <3>1 DEF NPrior
    <3>3. QED  BY <3>1, <3>2, NPriorIs
  <2>2. QED  BY <1>1, <1>2, <2>1 DEF NMoveDoes, NKeeps
<1>3. CASE NStartDoes \/ NClearDoes \/ NEditDoes \/ NUserSwitchesDoes
  BY <1>3 DEF NStartDoes, NClearDoes, NEditDoes, NUserSwitchesDoes
<1>4. CASE NCheckDoes
  BY <1>4 DEF NCheckDoes
<1>5. CASE NCleanDoes \/ NRolledBackDoes \/ NKillDoes
  BY <1>5 DEF NCleanDoes, NRolledBackDoes, NKillDoes, NEndDoes
<1>6. CASE NLeaveDoes
  BY <1>6 DEF NLeaveDoes
<1>7. CASE NMarkDoes \/ NRenameDoes
  BY <1>7 DEF NMarkDoes, NRenameDoes, NEndDoes, NKeeps
<1>8. CASE NStageDoes \/ NRecheckDoes \/ NUninstallDoes \/ NUnmarketDoes \/ NActivateDoes \/ NMarketDoes
  BY <1>8 DEF NStageDoes, NRecheckDoes, NUninstallDoes, NUnmarketDoes, NActivateDoes, NMarketDoes, NKeeps
<1>9. CASE NInstallDoes \/ NTurnOffDoes \/ NConfirmDoes \/ NDropDoes \/ NSwitchDoes
  BY <1>9 DEF NInstallDoes, NTurnOffDoes, NConfirmDoes, NDropDoes, NSwitchDoes, NKeeps
<1>10. CASE NUndoRegistrationDoes \/ NUndoFilesDoes \/ NPutBackDoes \/ NDiscardDoes
  BY <1>1, <1>10 DEF NUndoRegistrationDoes, NUndoFilesDoes, NPutBackDoes, NDiscardDoes, NKeeps
<1>11. CASE NAddBackDoes \/ NInstallBackDoes \/ NOffAgainDoes
  BY <1>11 DEF NAddBackDoes, NInstallBackDoes, NOffAgainDoes, NKeeps
<1>12. QED
  BY <1>2, <1>3, <1>4, <1>5, <1>6, <1>7, <1>8, <1>9, <1>10, <1>11 DEF NDoes

\* What the check established, told by what the operation found.
LEMMA NPriorNext ==
  ASSUME NTyped, NStages, NPrior, NFlagged, NFiles, NForth, NDoes
  PROVE  NPrior'
<1>. USE DEF NPrior, NFound
<1>0. NWorking \subseteq NSteps /\ "idle" \notin NWorking /\ "leave" \notin NWorking /\ "check" \in NWorking
  BY DEF NSteps, NWorking, NInstalling, NExchanging, NSwitching, NRestoring, NRebuilding
<1>1. CASE NStartDoes
  <2>1. CASE step' = "idle"
    BY <1>0, <2>1
  <2>2. CASE step' # "idle"
    <3>1. step' = "check" /\ before'.place = place /\ place' = place
      BY <1>1, <2>2 DEF NStartDoes
    <3>2. N!root' = before'.place[N!Root]
      BY <3>1 DEF N!root
    <3>3. QED  BY <3>1, <3>2
  <2>3. QED  BY <2>1, <2>2
<1>2. CASE NCheckDoes
  <2>1. CASE step' = "leave"
    BY <1>0, <2>1
  <2>2. CASE step' # "leave"
    <3>1. /\ step = "check" /\ UNCHANGED <<op, before>> /\ cli = before.cli /\ step' # "check"
          /\ N!root.edit = "none" /\ N!root = before.place[N!Root]
      BY <1>2, <2>2 DEF NCheckDoes, NForth
    <3>2. QED  BY <1>2, <2>2, <3>1 DEF NCheckDoes, NToggles
  <2>3. QED  BY <2>1, <2>2
<1>3. CASE step' \in {"idle", "leave"}
  BY <1>0, <1>3
<1>4. CASE step \in NWorking \ {"check"} /\ step' # "check" /\ UNCHANGED <<op, prior, before>>
  BY <1>4
<1>5. CASE NCleanDoes \/ NRolledBackDoes \/ NKillDoes \/ NLeaveDoes
  BY <1>3, <1>5 DEF NCleanDoes, NRolledBackDoes, NKillDoes, NLeaveDoes, NEndDoes
<1>6. CASE NClearDoes \/ NUserSwitchesDoes
  BY <1>3, <1>6 DEF NClearDoes, NUserSwitchesDoes
<1>7. CASE NEditDoes
  <2>1. UNCHANGED <<step, op, prior, before>>
    BY <1>7 DEF NEditDoes
  <2>2. N!root' = N!root \/ N!root'.edit # "none"
    <3>1. \A s \in {"found", "late"} : NEditOf(s) => N!root' = N!root \/ N!root'.edit = s
      BY NPlaces, NTreesAre DEF NEditOf
    <3>2. QED  BY <1>7, <3>1 DEF NEditDoes
  <2>3. QED  BY <2>1, <2>2
<1>8. CASE NStageDoes \/ NRecheckDoes \/ NUninstallDoes \/ NUnmarketDoes \/ NActivateDoes \/ NMarketDoes
           \/ NMoveDoes
  <2>1. step \in NWorking \ {"check"} /\ step' # "check" /\ UNCHANGED <<op, prior, before>>
    BY <1>8 DEF NStageDoes, NRecheckDoes, NUninstallDoes, NUnmarketDoes, NActivateDoes, NMarketDoes, NMoveDoes,
       NKeeps, NWorking, NInstalling, NExchanging
  <2>2. QED  BY <1>4, <2>1
<1>9. CASE NInstallDoes \/ NTurnOffDoes \/ NConfirmDoes \/ NDropDoes \/ NSwitchDoes \/ NMarkDoes
  <2>1. step \in NWorking \ {"check"} /\ step' # "check" /\ UNCHANGED <<op, prior, before>>
    BY <1>9 DEF NInstallDoes, NTurnOffDoes, NConfirmDoes, NDropDoes, NSwitchDoes, NMarkDoes,
       NKeeps, NWorking, NInstalling, NExchanging, NSwitching
  <2>2. QED  BY <1>4, <2>1
<1>10. CASE NRenameDoes
  <2>1. step' = "leave" \/ (step \in NWorking \ {"check"} /\ step' # "check" /\ UNCHANGED <<op, prior, before>>)
    BY <1>10 DEF NRenameDoes, NEndDoes, NKeeps, NWorking, NSwitching
  <2>2. QED  BY <1>3, <1>4, <2>1
<1>11. CASE NUndoRegistrationDoes \/ NUndoFilesDoes \/ NDiscardDoes \/ NPutBackDoes \/ NAddBackDoes
           \/ NInstallBackDoes \/ NOffAgainDoes
  <2>1. step \in NWorking \ {"check"} /\ step' # "check" /\ UNCHANGED <<op, prior, before>>
    BY <1>11 DEF NUndoRegistrationDoes, NUndoFilesDoes, NDiscardDoes, NPutBackDoes, NAddBackDoes, NInstallBackDoes,
       NOffAgainDoes, NKeeps, NWorking, NRestoring, NRebuilding
  <2>2. QED  BY <1>4, <2>1
<1>12. QED
  BY <1>1, <1>2, <1>5, <1>6, <1>7, <1>8, <1>9, <1>10, <1>11 DEF NDoes

\* The flags of the transaction.
LEMMA NFlaggedNext ==
  ASSUME NTyped, NStages, NFlagged, NDoes
  PROVE  NFlagged'
<1>. USE DEF NFlagged, NStages, NWorking, NInstalling, NExchanging, NSwitching, NRestoring, NRebuilding, NMoves, NToggles
<1>0. /\ N!NoChange.touched = FALSE /\ N!NoChange.moved = FALSE /\ N!NoChange.active = FALSE
      /\ N!NoChange.committed = FALSE /\ N!NoChange.broken = FALSE
  BY DEF N!NoChange
<1>1. step # "idle" => op.kind \in {"install", "enable", "disable", "remove"}
  BY NAim
<1>2. CASE NStartDoes
  BY <1>0, <1>2 DEF NStartDoes
<1>3. CASE NCheckDoes
  BY <1>0, <1>3 DEF NCheckDoes
<1>4. CASE NCleanDoes \/ NRolledBackDoes \/ NKillDoes \/ NLeaveDoes \/ NClearDoes \/ NUserSwitchesDoes \/ NEditDoes
  <2>1. CASE NEditDoes
    <3>1. UNCHANGED <<step, op, tx>>
      BY <2>1 DEF NEditDoes
    <3>2. QED  BY <3>1
  <2>2. CASE step' \in {"idle", "leave"}
    BY <2>2
  <2>3. QED
    BY <1>4, <2>1, <2>2 DEF NCleanDoes, NRolledBackDoes, NKillDoes, NLeaveDoes, NClearDoes, NUserSwitchesDoes, NEndDoes
<1>5. CASE NMarkDoes \/ NSwitchDoes \/ NRenameDoes
  BY <1>0, <1>5 DEF NMarkDoes, NEndDoes, NSwitchDoes, NRenameDoes, NKeeps
<1>6. CASE NStageDoes
  BY <1>0, <1>6 DEF NStageDoes, NKeeps
<1>7. CASE NRecheckDoes
  BY <1>0, <1>7, NFlagsOf DEF NRecheckDoes, NKeeps
<1>8. CASE NUninstallDoes \/ NUnmarketDoes
  BY <1>8 DEF NUninstallDoes, NUnmarketDoes, NKeeps
<1>9. CASE NMoveDoes
  <2>1. /\ step = "move" /\ op' = op /\ outcome' = outcome /\ ~tx.moved /\ ~tx.active /\ ~tx.broken /\ ~tx.committed
        /\ op.kind = "install" => tx.touched
        /\ tx.touched => op.kind = "install"
    BY <1>9 DEF NMoveDoes, NKeeps
  <2>2. CASE tx' = tx /\ step' \in {"activate", "undo registration"}
    <3>1. op.kind \in {"install", "remove"}
      BY <2>1
    <3>2. QED  BY <2>1, <2>2, <3>1
  <2>3. CASE NFlagsAre(tx.touched, TRUE, tx.active, tx.committed, tx.broken)
    <3>1. /\ tx'.touched = tx.touched /\ tx'.moved = TRUE /\ tx'.active = tx.active
          /\ tx'.committed = tx.committed /\ tx'.broken = tx.broken
      BY <2>3, NFlagsOf
    <3>2. step' \in {"confirm", "activate", "undo registration"} /\ op.kind \in {"install", "remove"}
      BY <1>9, <2>1 DEF NMoveDoes
    <3>3. QED  BY <2>1, <3>1, <3>2
  <2>4. QED  BY <1>9, <2>2, <2>3 DEF NMoveDoes
<1>10. CASE NActivateDoes
  <2>1. /\ step = "activate" /\ op' = op /\ outcome' = outcome /\ ~tx.broken /\ ~tx.committed
        /\ op.kind = "install" /\ tx.touched
    BY <1>10 DEF NActivateDoes, NKeeps
  <2>2. CASE tx' = tx /\ step' = "undo registration"
    BY <2>1, <2>2
  <2>3. CASE NFlagsAre(tx.touched, tx.moved, TRUE, tx.committed, tx.broken) /\ step' = "market"
    <3>1. /\ tx'.touched = tx.touched /\ tx'.moved = tx.moved /\ tx'.active = TRUE
          /\ tx'.committed = tx.committed /\ tx'.broken = tx.broken
      BY <2>3, NFlagsOf
    <3>2. QED  BY <2>1, <2>3, <3>1
  <2>4. QED  BY <1>10, <2>2, <2>3 DEF NActivateDoes
<1>11. CASE NMarketDoes \/ NInstallDoes \/ NTurnOffDoes
  BY <1>11 DEF NMarketDoes, NInstallDoes, NTurnOffDoes, NKeeps
<1>12. CASE NConfirmDoes
  <2>1. /\ step = "confirm" /\ op' = op /\ outcome' = outcome /\ ~tx.broken
        /\ op.kind \in {"install", "remove"} /\ (op.kind = "install" => tx.touched)
        /\ tx.touched => op.kind = "install"
        /\ tx.active => tx.touched
    BY <1>12 DEF NConfirmDoes, NKeeps
  <2>2. CASE tx' = tx /\ step' = "undo registration"
    BY <2>1, <2>2
  <2>3. CASE /\ NFlagsAre(tx.touched, tx.moved, tx.active, TRUE, tx.broken)
             /\ step' = (IF tx.moved THEN "drop" ELSE "clean")
    <3>0. NFlagsAre(tx.touched, tx.moved, tx.active, TRUE, tx.broken)
      BY <2>3
    <3>1. /\ tx'.touched = tx.touched /\ tx'.moved = tx.moved /\ tx'.active = tx.active
          /\ tx'.committed = TRUE /\ tx'.broken = tx.broken
      BY ONLY <3>0, NFlagsOf
    <3>2. step' \in {"drop", "clean"} /\ (step' = "drop" => tx.moved)
      BY <2>3, NFlagsWritten
    <3>3. QED  BY <2>1, <3>1, <3>2
  <2>4. QED  BY <1>12, <2>2, <2>3 DEF NConfirmDoes
<1>13. CASE NDropDoes
  <2>1. /\ step = "drop" /\ op' = op /\ outcome' = outcome /\ ~tx.broken /\ tx.moved /\ tx.committed
        /\ op.kind \in {"install", "remove"} /\ (op.kind = "install" => tx.touched)
        /\ tx.touched => op.kind = "install"
        /\ tx.active => tx.touched
    BY <1>13 DEF NDropDoes, NKeeps
  <2>2. CASE NFlagsAre(tx.touched, FALSE, tx.active, tx.committed, tx.broken) /\ step' = "clean"
    <3>1. /\ tx'.touched = tx.touched /\ tx'.moved = FALSE /\ tx'.active = tx.active
          /\ tx'.committed = tx.committed /\ tx'.broken = tx.broken
      BY <2>2, NFlagsOf
    <3>2. QED  BY <2>1, <2>2, <3>1
  <2>3. CASE tx' = tx /\ step' \in {"drop", "undo registration"}
    BY <2>1, <2>3
  <2>4. QED  BY <1>13, <2>2, <2>3 DEF NDropDoes
<1>14. CASE NUndoRegistrationDoes
  BY <1>0, <1>14, NFlagsOf DEF NUndoRegistrationDoes, NBrokenNow, NKeeps
<1>15. CASE NUndoFilesDoes
  BY <1>0, <1>15, NFlagsOf DEF NUndoFilesDoes, NBrokenNow, NKeeps
<1>16. CASE NDiscardDoes
  BY <1>0, <1>16, NFlagsOf DEF NDiscardDoes, NBrokenNow, NKeeps
<1>17. CASE NPutBackDoes
  BY <1>0, <1>17, NFlagsOf DEF NPutBackDoes, NBrokenNow, NKeeps
<1>18. CASE NAddBackDoes \/ NInstallBackDoes \/ NOffAgainDoes
  BY <1>0, <1>18, NFlagsOf DEF NAddBackDoes, NInstallBackDoes, NOffAgainDoes, NBrokenNow, NKeeps
<1>19. QED
  BY <1>2, <1>3, <1>4, <1>5, <1>6, <1>7, <1>8, <1>9, <1>10, <1>11, <1>12, <1>13, <1>14, <1>15, <1>16, <1>17, <1>18
     DEF NDoes

\* An edit leaves the version, the enabled flag and the number of files of a tree.
LEMMA NEditSame ==
  ASSUME NTyped, NEditDoes
  PROVE  /\ UNCHANGED <<lock, step, op, prior, before, tx, outcome, lost, cli>>
         /\ N!root'.v = N!root.v /\ N!root'.on = N!root.on /\ N!root'.files = N!root.files
         /\ NBackup'.v = NBackup.v /\ NBackup'.on = NBackup.on /\ NBackup'.files = NBackup.files
         /\ N!root'.edit = "none" => N!root' = N!root
         /\ step = "drop" /\ NBackup.edit # "found" => NBackup'.edit # "found"
         /\ step = "discard" /\ N!root.edit # "found" => N!root'.edit # "found"
<1>1. PICK s \in {"found", "late"} : NEditOf(s)
  BY DEF NEditDoes
<1>2. UNCHANGED <<lock, step, op, prior, before, tx, outcome, lost, cli>>
  BY DEF NEditDoes
<1>3. /\ Touched(N!root, s).v = N!root.v /\ Touched(N!root, s).on = N!root.on
      /\ Touched(N!root, s).files = N!root.files /\ Touched(N!root, s).edit = s
      /\ Touched(NBackup, s).v = NBackup.v /\ Touched(NBackup, s).on = NBackup.on
      /\ Touched(NBackup, s).files = NBackup.files /\ Touched(NBackup, s).edit = s
  BY NPlaces, NTreesAre
<1>4. CASE /\ backup' = backup /\ place' = N!Here(Touched(N!root, s))
           /\ step = "discard" /\ N!root.edit # "found" => s = "late"
  <2>1. N!root' = Touched(N!root, s) /\ NBackup' = NBackup
    BY <1>4, NPlaces
  <2>2. QED  BY <1>2, <1>3, <1>4, <2>1
<1>5. CASE /\ NBackup # N!NoTree /\ place' = place /\ backup' = N!Here(Touched(NBackup, s))
           /\ step = "drop" /\ NBackup.edit # "found" => s = "late"
  <2>1. NBackup' = Touched(NBackup, s) /\ N!root' = N!root
    BY <1>5, NPlaces
  <2>2. QED  BY <1>2, <1>3, <1>5, <2>1
<1>6. QED  BY <1>1, <1>4, <1>5 DEF NEditOf

-----------------------------------------------------------------------------
(* The native host. The files. *)

\* A tree that has kept its version, its enabled flag and its files is still what was found.
LEMMA NStillNext ==
  ASSUME NTyped, before' = before, tx'.committed = tx.committed \/ tx'.committed = TRUE
  PROVE  /\ N!root'.v = N!root.v /\ N!root'.on = N!root.on
              /\ (N!root'.files = "part" => N!root.files = "part") /\ NStill(N!root) => NStill(N!root)'
         /\ NBackup'.v = NBackup.v /\ NBackup'.on = NBackup.on
              /\ (NBackup'.files = "part" => NBackup.files = "part") /\ NStill(NBackup) => NStill(NBackup)'
         /\ N!root' = NBackup /\ NStill(NBackup) => NStill(N!root)'
         /\ NBackup' = N!root /\ NStill(N!root) => NStill(NBackup)'
         /\ NFound' = NFound
BY NFlagsWritten DEF NStill, NFound

\* Nothing but the exchange of the root and its undoing moves a tree.
LEMMA NFilesNext ==
  ASSUME NTyped, NStages, NPrior, NFlagged, NFiles, NRoot, NDoes
  PROVE  NFiles'
<1>. USE DEF NFiles
<1>0. /\ N!root \in NTrees /\ NBackup \in NTrees /\ NFound \in NTrees
      /\ "idle" \notin NWorking /\ "leave" \notin NWorking
  BY NPlaces DEF NWorking, NInstalling, NExchanging, NSwitching, NRestoring, NRebuilding
<1>1. CASE NStartDoes
  <2>1. CASE step' = "idle"
    BY <1>0, <2>1
  <2>2. CASE step' # "idle"
    <3>1. step' = "check" /\ before'.place = place /\ place' = place /\ tx' = N!NoChange
      BY <1>1, <2>2 DEF NStartDoes
    <3>2. N!root' = N!root /\ NFound' = N!root
      BY <3>1 DEF N!root, NFound
    <3>3. NStill(N!root)'
      BY <3>2 DEF NStill
    <3>4. ~tx'.moved /\ ~tx'.active /\ step' \notin NRebuilding \cup {"end"} /\ step' # "put back"
      BY <3>1 DEF N!NoChange, NRebuilding
    <3>5. QED  BY <3>3, <3>4
  <2>3. QED  BY <2>1, <2>2
<1>2. CASE step' \in {"idle", "leave", "clean"}
  BY <1>0, <1>2
<1>3. CASE /\ UNCHANGED <<place, backup, before>> /\ tx'.moved = tx.moved /\ tx'.active = tx.active
           /\ tx'.committed = tx.committed \/ tx'.committed = TRUE
           /\ step \in NWorking \ {"clean"} /\ step \notin NRebuilding \cup {"end"}
           /\ step' \notin {"put back", "end"} \cup NRebuilding
  <2>1. N!root' = N!root /\ NBackup' = NBackup
    BY <1>3, NPlaces
  <2>2. QED  BY <1>3, <2>1, NStillNext
<1>4. CASE NCheckDoes \/ NStageDoes \/ NUninstallDoes \/ NUnmarketDoes \/ NMarketDoes \/ NInstallDoes \/ NTurnOffDoes
  <2>1. CASE step' = "leave"
    BY <1>2, <2>1
  <2>2. CASE step' # "leave"
    <3>1. /\ UNCHANGED <<place, backup, before, tx>>
          /\ step \in NWorking \ {"clean"} /\ step \notin NRebuilding \cup {"end"}
          /\ step' \notin {"put back", "end"} \cup NRebuilding
      BY <1>4, <2>2 DEF NCheckDoes, NStageDoes, NUninstallDoes, NUnmarketDoes, NMarketDoes, NInstallDoes,
         NTurnOffDoes, NFilesStay, NKeeps, NWorking, NInstalling, NExchanging, NRebuilding
    <3>2. QED  BY <1>3, <3>1
  <2>3. QED  BY <2>1, <2>2
<1>5. CASE NSwitchDoes \/ (NMarkDoes /\ place' = place)
  <2>1. /\ UNCHANGED <<place, backup, before, tx>>
        /\ step \in NWorking \ {"clean"} /\ step \notin NRebuilding \cup {"end"}
        /\ step' \notin {"put back", "end"} \cup NRebuilding
    BY <1>5 DEF NSwitchDoes, NMarkDoes, NFilesStay, NKeeps, NWorking, NSwitching, NRebuilding
  <2>2. QED  BY <1>3, <2>1
<1>6. CASE NRecheckDoes
  <2>1. UNCHANGED <<place, backup, before>> /\ tx'.moved = tx.moved /\ tx'.active = tx.active
        /\ tx'.committed = tx.committed
    BY <1>6, NFlagsOf DEF NRecheckDoes, NFilesStay, NKeeps
  <2>2. step = "recheck" /\ step' \in {"uninstall", "undo registration"}
    BY <1>6 DEF NRecheckDoes
  <2>3. QED  BY <1>3, <2>1, <2>2 DEF NWorking, NInstalling, NRebuilding
<1>7. CASE NMoveDoes
  <2>1. /\ step = "move" /\ before' = before /\ ~tx.moved /\ ~tx.active
        /\ step' \in {"confirm", "activate", "undo registration"} /\ step \in NWorking \ {"check", "clean"}
    BY <1>7 DEF NMoveDoes, NFlagged, NKeeps, NExchanging, NWorking
  <2>2. NStill(N!root)
    BY <2>1
  <2>3. CASE UNCHANGED <<place, backup, tx>>
    BY <1>3, <2>1, <2>3 DEF NRebuilding
  <2>4. CASE backup' = place /\ prior # N!NotOwned /\ NFlagsAre(tx.touched, TRUE, tx.active, tx.committed, tx.broken)
    <3>1. tx'.moved = TRUE /\ NBackup' = N!root /\ tx'.committed = tx.committed /\ tx'.active = tx.active
      BY <2>4, NFlagsOf DEF N!root, NBackup
    <3>2. NStill(NBackup)' /\ NFound' = NFound
      BY <2>1, <2>2, <3>1, NStillNext
    <3>3. NFound.v # Nothing
      BY <2>1, <2>4, NPriorIs
    <3>4. QED  BY <2>1, <3>1, <3>2, <3>3 DEF NRebuilding
  <2>5. QED  BY <1>7, <2>3, <2>4 DEF NMoveDoes
<1>8. CASE NActivateDoes
  <2>1. /\ step = "activate" /\ UNCHANGED <<backup, before>> /\ step' \in {"market", "undo registration"}
        /\ N!root.v = Nothing /\ step \in NWorking \ {"check", "clean"}
    BY <1>8 DEF NActivateDoes, NRoot, NKeeps, NInstalling, NWorking
  <2>2. CASE UNCHANGED <<place, tx>>
    BY <1>3, <2>1, <2>2 DEF NRebuilding
  <2>3. CASE NFlagsAre(tx.touched, tx.moved, TRUE, tx.committed, tx.broken)
    <3>1. tx'.moved = tx.moved /\ tx'.active = TRUE /\ tx'.committed = tx.committed
      BY <2>3, NFlagsOf
    <3>2. ~tx.moved => NFound.v = Nothing
      BY <2>1 DEF NStill
    <3>3. NBackup' = NBackup
      BY <2>1, NPlaces
    <3>4. (NStill(NBackup) => NStill(NBackup)') /\ NFound' = NFound
      BY <2>1, <3>1, <3>3, NStillNext
    <3>5. QED  BY <2>1, <3>1, <3>2, <3>4 DEF NRebuilding
  <2>4. QED  BY <1>8, <2>2, <2>3 DEF NActivateDoes
<1>9. CASE NConfirmDoes
  <2>1. /\ step = "confirm" /\ UNCHANGED <<place, backup, before>> /\ tx'.moved = tx.moved /\ tx'.active = tx.active
        /\ tx'.committed = tx.committed \/ tx'.committed = TRUE
        /\ step' \in {"drop", "clean", "undo registration"}
    BY <1>9, NFlagsOf DEF NConfirmDoes, NFilesStay, NKeeps
  <2>2. QED  BY <1>3, <2>1 DEF NWorking, NExchanging, NRebuilding
<1>10. CASE NDropDoes
  <2>1. /\ step = "drop" /\ UNCHANGED <<place, before>> /\ step \in NWorking \ {"clean"} /\ tx.moved /\ tx.committed
    BY <1>10 DEF NDropDoes, NKeeps, NFlagged, NWorking, NExchanging
  <2>2. CASE step' = "undo registration" /\ UNCHANGED <<backup, tx>>
    BY <1>3, <2>1, <2>2 DEF NRebuilding
  <2>3. CASE step' = "drop" /\ backup' = N!Here(N!Begun(NBackup)) /\ UNCHANGED tx
    <3>1. NStill(NBackup) /\ NFound.v # Nothing /\ NBackup' = N!Begun(NBackup)
      BY <2>1, <2>3, NPlaces
    <3>2. NBackup.v # Nothing
      BY <3>1 DEF NStill
    <3>3. NBackup'.v = NBackup.v /\ NBackup'.on = NBackup.on
      BY <1>0, <3>1, <3>2, NTreesAre
    <3>4. NStill(NBackup)' /\ NFound' = NFound
      BY <2>1, <2>3, <3>1, <3>3 DEF NStill, NFound
    <3>5. QED  BY <2>1, <2>3, <3>1, <3>4 DEF NRebuilding
  <2>4. QED  BY <1>2, <1>10, <2>2, <2>3 DEF NDropDoes
<1>11. CASE (NMarkDoes \/ NRenameDoes) /\ step' \in {"rename", "undo registration"}
  <2>1. /\ step \in NSwitching /\ UNCHANGED <<backup, before, tx>>
        /\ (\E f \in {"whole", "more"} : place' = N!Here(NFilled(N!root, f))) \/ place' = place
    BY <1>11 DEF NMarkDoes, NRenameDoes, NEndDoes, NKeeps, NSwitching
  <2>2. ~tx.moved /\ ~tx.active /\ NStill(N!root) /\ N!root.v # Nothing
    BY <2>1, NThere
  <2>3. N!root'.v = N!root.v /\ N!root'.on = N!root.on /\ (N!root'.files = "part" => N!root.files = "part")
    <3>1. \A f \in {"whole", "more"} : place' = N!Here(NFilled(N!root, f)) =>
            N!root'.v = N!root.v /\ N!root'.on = N!root.on /\ N!root'.files # "part"
      <4>1. TAKE f \in {"whole", "more"}
      <4>2. NFilled(N!root, f).v = N!root.v /\ NFilled(N!root, f).on = N!root.on /\ NFilled(N!root, f).files = f
        <5>1. \A t \in NTrees : t.v # Nothing =>
                NFilled(t, f).v = t.v /\ NFilled(t, f).on = t.on /\ NFilled(t, f).files = f
          BY ONLY f \in {"whole", "more"} DEF NTrees, N!Trees, NFilled
        <5>2. QED  BY <1>0, <2>2, <5>1
      <4>3. place' = N!Here(NFilled(N!root, f)) => N!root' = NFilled(N!root, f)
        BY NPlaces
      <4>4. QED  BY <4>2, <4>3
    <3>2. QED  BY <2>1, <3>1, NPlaces
  <2>4. NStill(N!root)'
    BY <2>1, <2>2, <2>3, NStillNext
  <2>5. QED  BY <1>11, <2>1, <2>2, <2>4 DEF NRebuilding
<1>12. CASE NUndoRegistrationDoes
  <2>1. /\ step = "undo registration" /\ UNCHANGED <<place, backup, before>> /\ step' \in {"end", "undo files"}
        /\ tx'.moved = tx.moved /\ tx'.active = tx.active /\ tx'.committed = tx.committed
        /\ step' = "end" => op.kind \in NToggles
    BY <1>12, NFlagsOf DEF NUndoRegistrationDoes, NFilesStay, NKeeps, NBrokenNow
  <2>2. CASE step' = "undo files"
    BY <1>3, <2>1, <2>2 DEF NRebuilding, NWorking
  <2>3. CASE step' = "end"
    <3>1. ~tx.moved /\ ~tx.active
      BY <2>1, <2>3 DEF NFlagged, NToggles, NMoves, NWorking
    <3>2. NStill(N!root) /\ N!root' = N!root
      BY <2>1, <3>1, NPlaces DEF NWorking
    <3>3. NStill(N!root)'
      BY <2>1, <3>2, NStillNext
    <3>4. QED  BY <2>1, <2>3, <3>1, <3>3
  <2>4. QED  BY <2>1, <2>2, <2>3
<1>13. CASE NUndoFilesDoes
  <2>1. /\ step = "undo files" /\ UNCHANGED <<place, backup, before>> /\ step \in NWorking \ {"clean"}
        /\ N!root' = N!root /\ NBackup' = NBackup /\ step \notin NRebuilding \cup {"end"}
    BY <1>13, NPlaces DEF NUndoFilesDoes, NKeeps, NFilesStay, NWorking, NRestoring, NRebuilding
  <2>2. tx'.moved = tx.moved /\ tx'.active = tx.active /\ tx'.committed = tx.committed
    BY <1>13, NFlagsOf DEF NUndoFilesDoes, NBrokenNow
  <2>3. /\ NStill(N!root) => NStill(N!root)'
        /\ NStill(NBackup) => NStill(NBackup)'
        /\ NFound' = NFound
    BY <2>1, <2>2, NStillNext
  <2>4. \/ step' = "put back" /\ ~tx.active
        \/ step' = "discard"
        \/ step' = "end" /\ tx'.broken = TRUE
    BY <1>13, NFlagsOf DEF NUndoFilesDoes, NBrokenNow
  <2>5. QED  BY <2>1, <2>2, <2>3, <2>4 DEF NRebuilding
<1>14. CASE NDiscardDoes
  <2>1. /\ step = "discard" /\ UNCHANGED <<backup, before>> /\ step \in NWorking \ {"clean"} /\ tx.active
        /\ NBackup' = NBackup /\ step \notin NRebuilding \cup {"end"}
    BY <1>14, NPlaces DEF NDiscardDoes, NKeeps, NFlagged, NWorking, NRestoring, NRebuilding
  <2>2. tx'.moved = tx.moved /\ tx'.active = tx.active /\ tx'.committed = tx.committed
    BY <1>14, NFlagsOf DEF NDiscardDoes, NBrokenNow
  <2>3. /\ NStill(NBackup) => NStill(NBackup)'
        /\ NFound' = NFound
    BY <2>1, <2>2, NStillNext
  <2>4. ~tx.moved => NFound.v = Nothing
    BY <2>1
  <2>5. \/ step' = "put back" /\ N!root'.v = Nothing
        \/ step' = "discard"
        \/ step' = "end" /\ tx'.broken = TRUE
    <3>1. NBrokenNow => tx'.broken = TRUE
      BY NFlagsOf DEF NBrokenNow
    <3>2. place' = N!Here(N!NoTree) => N!root'.v = Nothing
      BY NPlaces, NTreesAre
    <3>3. QED  BY <1>14, <3>1, <3>2 DEF NDiscardDoes
  <2>6. QED  BY <2>1, <2>2, <2>3, <2>4, <2>5 DEF NRebuilding
<1>15. CASE NPutBackDoes
  <2>1. step = "put back" /\ before' = before /\ step \in NWorking \ {"clean"} /\ step \notin NRebuilding \cup {"end"}
    BY <1>15 DEF NPutBackDoes, NKeeps, NWorking, NRestoring, NRebuilding
  <2>2. CASE step' = "add back" /\ ~tx.moved /\ UNCHANGED <<place, backup, tx>>
    <3>1. NStill(N!root)
      <4>1. CASE tx.active
        <5>1. N!root.v = Nothing /\ NFound.v = Nothing
          BY <2>1, <2>2, <4>1
        <5>2. QED  BY <1>0, <5>1, NTreesAre DEF NStill
      <4>2. CASE ~tx.active
        BY <2>1, <2>2, <4>2
      <4>3. QED  BY <4>1, <4>2
    <3>2. NStill(N!root)'
      BY <2>1, <2>2, <3>1, NPlaces, NStillNext
    <3>3. QED  BY <2>1, <2>2, <3>2 DEF NRebuilding
  <2>3. CASE /\ step' = "add back" /\ tx.moved /\ place' = backup
             /\ NFlagsAre(tx.touched, FALSE, tx.active, tx.committed, tx.broken)
    <3>1. N!root' = NBackup /\ tx'.moved = FALSE /\ tx'.committed = tx.committed
      BY <2>3, NFlagsOf DEF N!root, NBackup
    <3>2. NStill(N!root)'
      BY <2>1, <2>3, <3>1, NStillNext
    <3>3. QED  BY <2>1, <2>3, <3>1, <3>2 DEF NRebuilding
  <2>4. CASE step' = "end" /\ NBrokenNow /\ UNCHANGED <<place, backup>>
    <3>1. tx'.moved = tx.moved /\ tx'.active = tx.active /\ tx'.committed = tx.committed /\ tx'.broken = TRUE
      BY ONLY <2>4 DEF NBrokenNow, NFlagsAre
    <3>2. N!root' = N!root /\ NBackup' = NBackup
      BY <2>4, NPlaces
    <3>3. /\ NStill(N!root) => NStill(N!root)'
          /\ NStill(NBackup) => NStill(NBackup)'
          /\ NFound' = NFound
      BY <2>1, <3>1, <3>2, NStillNext
    <3>4. QED  BY <2>1, <2>4, <3>1, <3>3 DEF NRebuilding
  <2>5. QED  BY <1>15, <2>2, <2>3, <2>4 DEF NPutBackDoes
<1>16. CASE NAddBackDoes \/ NInstallBackDoes \/ NOffAgainDoes
  <2>1. /\ step \in NRebuilding /\ step' \in {"install back", "off again", "end"}
        /\ UNCHANGED <<place, backup, before>> /\ step \in NWorking \ {"clean"}
        /\ tx'.moved = tx.moved /\ tx'.active = tx.active /\ tx'.committed = tx.committed
    BY <1>16, NFlagsOf DEF NAddBackDoes, NInstallBackDoes, NOffAgainDoes, NBrokenNow, NFilesStay, NKeeps,
       NRebuilding, NRestoring, NWorking
  <2>2. NStill(N!root) /\ N!root' = N!root /\ NBackup' = NBackup
    BY <2>1, NPlaces
  <2>3. /\ NStill(N!root)'
        /\ NStill(NBackup) => NStill(NBackup)'
        /\ NFound' = NFound
    BY <2>1, <2>2, NStillNext
  <2>4. QED  BY <2>1, <2>3 DEF NRebuilding
<1>17. CASE NEditDoes
  <2>1. /\ UNCHANGED <<step, tx, before>>
        /\ N!root'.v = N!root.v /\ N!root'.on = N!root.on /\ N!root'.files = N!root.files
        /\ NBackup'.v = NBackup.v /\ NBackup'.on = NBackup.on /\ NBackup'.files = NBackup.files
    BY <1>17, NEditSame
  <2>2. /\ NStill(N!root) => NStill(N!root)'
        /\ NStill(NBackup) => NStill(NBackup)'
        /\ NFound' = NFound
    BY <2>1, NStillNext
  <2>3. QED  BY <2>1, <2>2
<1>18. CASE NCleanDoes \/ NRolledBackDoes \/ NLeaveDoes \/ NKillDoes \/ NClearDoes \/ NUserSwitchesDoes
            \/ (NRenameDoes /\ step' = "leave")
  <2>1. step' \in {"idle", "leave"}
    BY <1>18 DEF NCleanDoes, NRolledBackDoes, NLeaveDoes, NKillDoes, NClearDoes, NUserSwitchesDoes, NEndDoes
  <2>2. QED  BY <1>2, <2>1
<1>19. (NMarkDoes => place' = place \/ step' = "rename") /\ (NRenameDoes => step' \in {"leave", "undo registration"})
  BY DEF NMarkDoes, NRenameDoes, NEndDoes
<1>20. QED
  BY <1>1, <1>4, <1>5, <1>6, <1>7, <1>8, <1>9, <1>10, <1>11, <1>12, <1>13, <1>14, <1>15, <1>16, <1>17, <1>18, <1>19
     DEF NDoes

\* The root of an operation that has exchanged it.
LEMMA NRootNext ==
  ASSUME NTyped, NStages, NPrior, NFlagged, NFiles, NRoot, NDoes
  PROVE  NRoot'
<1>. USE DEF NRoot
<1>0. /\ UNCHANGED <<op, prior>> => N!Aim' = N!Aim
      /\ step # "idle" => op.kind \in {"install", "enable", "disable", "remove"}
  BY NAim DEF N!Aim
<1>1. CASE step' \notin {"market", "install", "turn off", "confirm", "drop", "clean", "activate", "discard"}
  BY <1>1
<1>2. CASE NStartDoes \/ NCheckDoes \/ NCleanDoes \/ NRolledBackDoes \/ NLeaveDoes \/ NKillDoes
           \/ NUserSwitchesDoes \/ NClearDoes
  <2>1. step' \in {"idle", "check", "stage", "uninstall", "switch", "leave"}
    BY <1>2 DEF NStartDoes, NCheckDoes, NCleanDoes, NRolledBackDoes, NLeaveDoes, NKillDoes, NUserSwitchesDoes,
       NClearDoes, NEndDoes
  <2>2. QED  BY <1>1, <2>1
<1>3. CASE NStageDoes \/ NRecheckDoes \/ NUninstallDoes \/ NUnmarketDoes \/ NSwitchDoes \/ NMarkDoes \/ NRenameDoes
  <2>1. step' \in {"recheck", "uninstall", "unmarket", "move", "mark", "rename", "leave", "undo registration"}
    BY <1>3 DEF NStageDoes, NRecheckDoes, NUninstallDoes, NUnmarketDoes, NSwitchDoes, NMarkDoes, NRenameDoes, NEndDoes
  <2>2. QED  BY <1>1, <2>1
<1>4. CASE NUndoRegistrationDoes \/ NPutBackDoes \/ NAddBackDoes \/ NInstallBackDoes \/ NOffAgainDoes
  <2>1. step' \in {"undo files", "add back", "install back", "off again", "end"}
    BY <1>4 DEF NUndoRegistrationDoes, NPutBackDoes, NAddBackDoes, NInstallBackDoes, NOffAgainDoes
  <2>2. QED  BY <1>1, <2>1
<1>5. CASE NUndoFilesDoes
  <2>1. CASE step' # "discard"
    BY <1>1, <1>5, <2>1 DEF NUndoFilesDoes
  <2>2. CASE step' = "discard"
    <3>1. N!Whole(N!root) /\ place' = place
      BY <1>5, <2>2 DEF NUndoFilesDoes, NFilesStay
    <3>2. N!root' = N!root /\ N!root.v # Nothing
      BY <3>1, NPlaces DEF N!Whole
    <3>3. QED  BY <2>2, <3>2
  <2>3. QED  BY <2>1, <2>2
<1>6. CASE NDiscardDoes
  <2>1. CASE step' # "discard"
    BY <1>1, <1>6, <2>1 DEF NDiscardDoes
  <2>2. CASE step' = "discard"
    <3>1. step = "discard" /\ N!root.v # Nothing /\ place' = N!Here(N!Begun(N!root))
      BY <1>6, <2>2 DEF NDiscardDoes
    <3>2. N!Begun(N!root).v = N!root.v
      BY <3>1, NPlaces, NTreesAre
    <3>3. N!root'.v # Nothing
      BY <3>1, <3>2, NPlaces
    <3>4. QED  BY <2>2, <3>3
  <2>3. QED  BY <2>1, <2>2
<1>7. CASE NMoveDoes
  <2>1. op' = op /\ step = "move" /\ ~tx.moved /\ ~tx.active /\ step \in NWorking \ {"check", "clean"}
    BY <1>7 DEF NMoveDoes, NKeeps, NFlagged, NWorking, NExchanging
  <2>2. CASE step' = "undo registration"
    BY <1>1, <2>2
  <2>3. CASE step' = "activate" /\ prior = N!NotOwned /\ place' = place
    <3>1. N!root.v = Nothing
      BY <2>1, <2>3, NPriorIs DEF NFiles, NStill
    <3>2. N!root' = N!root
      BY <2>3, NPlaces
    <3>3. QED  BY <2>3, <3>1, <3>2
  <2>4. CASE place' = N!Here(N!NoTree) /\ step' = IF op.kind = "remove" THEN "confirm" ELSE "activate"
    <3>1. N!root'.v = Nothing
      BY <2>4, NPlaces, NTreesAre
    <3>2. op.kind = "remove" => step' = "confirm"
      BY <2>4
    <3>3. op.kind # "remove" => step' = "activate"
      BY <2>4
    <3>4. QED  BY <2>1, <3>1, <3>2, <3>3
  <2>5. QED  BY <1>7, <2>2, <2>3, <2>4 DEF NMoveDoes
<1>8. CASE NActivateDoes
  <2>1. UNCHANGED <<op, prior>> /\ op.kind = "install" /\ N!Aim' = N!Aim
    BY <1>0, <1>8 DEF NActivateDoes, NKeeps, NStages, NInstalling
  <2>2. CASE step' = "market" /\ place' = N!Here(N!Tree(N!Aim.v, N!Aim.on))
    <3>1. N!Aim.v \in Versions /\ N!Aim.on \in BOOLEAN
      BY <1>8, <2>1, NAim DEF NActivateDoes
    <3>2. N!root' = N!Tree(N!Aim.v, N!Aim.on)
      BY <2>2, NPlaces
    <3>3. N!root'.v = N!Aim.v /\ N!root'.on = N!Aim.on
      BY <3>2 DEF N!Tree
    <3>4. QED  BY <2>1, <2>2, <3>3
  <2>3. CASE step' = "undo registration"
    BY <1>1, <2>3
  <2>4. QED  BY <1>8, <2>2, <2>3 DEF NActivateDoes
<1>9. CASE NMarketDoes \/ NInstallDoes \/ NTurnOffDoes \/ NConfirmDoes
  <2>1. /\ UNCHANGED <<op, prior, place>> /\ step \in {"market", "install", "turn off", "confirm"}
        /\ step' \in {"install", "turn off", "confirm", "drop", "clean", "undo registration"}
        /\ step \in {"market", "install", "turn off"} => op.kind = "install"
    BY <1>9 DEF NMarketDoes, NInstallDoes, NTurnOffDoes, NConfirmDoes, NFilesStay, NKeeps, NStages, NInstalling
  <2>2. N!root' = N!root
    BY <2>1, NPlaces
  <2>3. QED  BY <1>0, <2>1, <2>2
<1>10. CASE NDropDoes
  <2>1. UNCHANGED <<op, prior, place>> /\ step = "drop" /\ step' \in {"drop", "clean", "undo registration"}
    BY <1>10 DEF NDropDoes, NKeeps
  <2>2. N!root' = N!root
    BY <2>1, NPlaces
  <2>3. QED  BY <1>0, <2>1, <2>2
<1>11. CASE NEditDoes
  <2>1. UNCHANGED <<op, prior, step>> /\ N!root'.v = N!root.v /\ N!root'.on = N!root.on
    BY <1>11, NEditSame
  <2>2. QED  BY <1>0, <2>1
<1>12. QED
  BY <1>2, <1>3, <1>4, <1>5, <1>6, <1>7, <1>8, <1>9, <1>10, <1>11 DEF NDoes

\* What is about to be deleted, and what was.
LEMMA NEditsNext ==
  ASSUME NTyped, NFlagged, NRoot, NFiles, NEdits, NDoes
  PROVE  NEdits'
<1>. USE DEF NEdits
<1>0. N!root \in NTrees /\ NBackup \in NTrees
  BY NPlaces
<1>1. CASE lost' = lost /\ step' \notin {"drop", "discard"}
  BY <1>1
<1>2. CASE NConfirmDoes
  <2>1. lost' = lost /\ step' # "discard" /\ backup' = backup
    BY <1>2 DEF NConfirmDoes, NFilesStay
  <2>2. step' = "drop" => NBackup.edit # "found"
    <3>1. step' = "drop" => tx.moved /\ N!Confirmed
      BY <1>2, NFlagsWritten DEF NConfirmDoes
    <3>2. QED  BY <3>1 DEF N!Confirmed, N!BackupUnchanged, N!Whole, NBackup
  <2>3. NBackup' = NBackup
    BY <2>1, NPlaces
  <2>4. QED  BY <2>1, <2>2, <2>3
<1>3. CASE NDropDoes
  <2>1. step = "drop" /\ step' # "discard" /\ lost' \subseteq lost \cup {<<"deleted", NBackup>>}
    BY <1>3 DEF NDropDoes
  <2>2. \A x \in lost' : x[2].edit # "found"
    BY <2>1
  <2>3. step' = "drop" => NBackup'.edit # "found"
    <3>1. SUFFICES ASSUME step' = "drop"
                   PROVE  NBackup'.edit # "found"
      OBVIOUS
    <3>2. NBackup' = N!Begun(NBackup)
      BY <1>3, <3>1, NPlaces DEF NDropDoes
    <3>3. N!Begun(NBackup).edit = NBackup.edit
      BY <1>0 DEF NTrees, N!Trees, N!Begun
    <3>4. QED  BY <2>1, <3>2, <3>3
  <2>4. QED  BY <2>1, <2>2, <2>3
<1>4. CASE NUndoFilesDoes
  <2>1. lost' = lost /\ step' # "drop" /\ place' = place /\ (step' = "discard" => N!Whole(N!root))
    BY <1>4 DEF NUndoFilesDoes, NFilesStay
  <2>2. N!root' = N!root
    BY <2>1, NPlaces
  <2>3. QED  BY <2>1, <2>2 DEF N!Whole
<1>5. CASE NDiscardDoes
  <2>1. step = "discard" /\ step' # "drop" /\ lost' \subseteq lost \cup {<<"deleted", N!root>>}
    BY <1>5 DEF NDiscardDoes
  <2>2. \A x \in lost' : x[2].edit # "found"
    BY <2>1
  <2>3. step' = "discard" => N!root'.edit # "found"
    <3>1. SUFFICES ASSUME step' = "discard"
                   PROVE  N!root'.edit # "found"
      OBVIOUS
    <3>2. N!root' = N!Begun(N!root)
      BY <1>5, <3>1, NPlaces DEF NDiscardDoes
    <3>3. N!Begun(N!root).edit = N!root.edit
      BY <1>0 DEF NTrees, N!Trees, N!Begun
    <3>4. QED  BY <2>1, <3>2, <3>3
  <2>4. QED  BY <2>1, <2>2, <2>3
<1>6. CASE NEditDoes
  <2>1. lost' = lost /\ step' = step
    BY <1>6 DEF NEditDoes
  <2>2. QED  BY <1>6, <2>1, NEditSame
<1>7. CASE NStartDoes
  BY <1>7 DEF NStartDoes
<1>8. CASE NCheckDoes \/ NCleanDoes \/ NRolledBackDoes \/ NLeaveDoes \/ NKillDoes \/ NMarkDoes \/ NRenameDoes
           \/ NUserSwitchesDoes \/ NClearDoes
  <2>1. lost' = lost /\ step' \notin {"drop", "discard"}
    BY <1>8 DEF NCheckDoes, NCleanDoes, NRolledBackDoes, NLeaveDoes, NKillDoes, NMarkDoes, NRenameDoes,
       NUserSwitchesDoes, NClearDoes, NEndDoes
  <2>2. QED  BY <1>1, <2>1
<1>9. CASE NStageDoes \/ NRecheckDoes \/ NUninstallDoes \/ NUnmarketDoes \/ NMoveDoes \/ NActivateDoes
           \/ NMarketDoes \/ NInstallDoes \/ NTurnOffDoes
  <2>1. lost' = lost /\ step' \notin {"drop", "discard"}
    BY <1>9 DEF NStageDoes, NRecheckDoes, NUninstallDoes, NUnmarketDoes, NMoveDoes, NActivateDoes, NMarketDoes,
       NInstallDoes, NTurnOffDoes, NFilesStay
  <2>2. QED  BY <1>1, <2>1
<1>10. CASE NSwitchDoes \/ NUndoRegistrationDoes \/ NPutBackDoes \/ NAddBackDoes \/ NInstallBackDoes \/ NOffAgainDoes
  <2>1. lost' = lost /\ step' \notin {"drop", "discard"}
    BY <1>10 DEF NSwitchDoes, NUndoRegistrationDoes, NPutBackDoes, NAddBackDoes, NInstallBackDoes, NOffAgainDoes,
       NFilesStay
  <2>2. QED  BY <1>1, <2>1
<1>11. QED
  BY <1>2, <1>3, <1>4, <1>5, <1>6, <1>7, <1>8, <1>9, <1>10 DEF NDoes

-----------------------------------------------------------------------------
(* The native host. The parts about the registration. *)

\* Where an operation neither registers nor unregisters any more.
NUndoings == {"undo registration", "undo files", "discard", "put back", "add back", "install back", "off again", "end"}

\* Enable and disable change no marketplace and no version.
NToggled ==
  step \in NWorking /\ op.kind \in NToggles =>
    cli.market = before.cli.market /\ cli.plugin.v = before.cli.plugin.v

\* They keep to that in every step.
LEMMA NToggledNext ==
  ASSUME NTyped, NStages, NForth, NDoes
  PROVE  NToggled'
<1>. USE DEF NToggled
<1>0. /\ step \in NWorking /\ op.kind \in NToggles =>
           cli.market = before.cli.market /\ cli.plugin.v = before.cli.plugin.v
      /\ \A m, p : NOf(m, p).market = m /\ NOf(m, p).plugin = p
      /\ \A v, on : NVersion(v, on).v = v
      /\ "idle" \notin NWorking /\ "leave" \notin NWorking
  <2>1. step \in NWorking /\ op.kind \in NToggles =>
           cli.market = before.cli.market /\ cli.plugin.v = before.cli.plugin.v
    BY DEF NForth
  <2>2. "idle" \notin NWorking /\ "leave" \notin NWorking
    BY DEF NWorking, NInstalling, NExchanging, NSwitching, NRestoring, NRebuilding
  <2>3. QED  BY <2>1, <2>2, NRegistrationsAre
<1>1. CASE step' \in {"idle", "leave"}
  BY <1>0, <1>1
<1>2. CASE step \in NWorking /\ op' = op /\ op.kind \notin NToggles
  BY <1>2
<1>3. CASE step \in NWorking /\ UNCHANGED <<op, before, cli>>
  BY <1>0, <1>3
<1>4. CASE NStartDoes
  <2>1. step' = "idle" \/ (before'.cli = cli /\ cli' = cli)
    BY <1>4 DEF NStartDoes
  <2>2. QED  BY <1>0, <2>1
<1>5. CASE NUninstallDoes \/ NUnmarketDoes \/ NMarketDoes \/ NInstallDoes \/ NTurnOffDoes
  <2>1. step \in NWorking /\ op' = op /\ op.kind \notin NToggles
    BY <1>5 DEF NUninstallDoes, NUnmarketDoes, NMarketDoes, NInstallDoes, NTurnOffDoes, NKeeps, NStages,
       NInstalling, NExchanging, NWorking, NMoves, NToggles
  <2>2. QED  BY <1>2, <2>1
<1>6. CASE NAddBackDoes \/ NInstallBackDoes \/ NOffAgainDoes
  <2>1. step \in NWorking /\ op' = op /\ op.kind \notin NToggles
    BY <1>6 DEF NAddBackDoes, NInstallBackDoes, NOffAgainDoes, NKeeps, NStages, NRestoring, NRebuilding, NWorking,
       NMoves, NToggles
  <2>2. QED  BY <1>2, <2>1
<1>7. CASE NSwitchDoes
  <2>1. step \in NWorking /\ UNCHANGED <<op, before>>
    BY <1>7 DEF NSwitchDoes, NKeeps, NWorking, NSwitching
  <2>2. CASE cli' = cli
    BY <1>3, <2>1, <2>2
  <2>3. CASE cli' = NOf(cli.market, NVersion(cli.plugin.v, N!Aim.on))
    <3>1. cli'.market = cli.market /\ cli'.plugin.v = cli.plugin.v
      BY <1>0, <2>3
    <3>2. QED  BY <1>0, <2>1, <3>1
  <2>4. QED  BY <1>7, <2>2, <2>3 DEF NSwitchDoes
<1>8. CASE NUndoRegistrationDoes
  <2>1. step \in NWorking /\ UNCHANGED <<op, before>>
    BY <1>8 DEF NUndoRegistrationDoes, NKeeps, NWorking
  <2>2. CASE cli' = cli
    BY <1>3, <2>1, <2>2
  <2>3. CASE cli' = NOf(cli.market, NVersion(cli.plugin.v, before.cli.plugin.on))
    <3>1. cli'.market = cli.market /\ cli'.plugin.v = cli.plugin.v
      BY <1>0, <2>3
    <3>2. QED  BY <1>0, <2>1, <3>1
  <2>4. CASE op.kind \notin NToggles
    BY <1>2, <2>1, <2>4
  <2>5. QED
    BY <1>8, <2>2, <2>3, <2>4 DEF NUndoRegistrationDoes, NToggles
<1>9. CASE NCheckDoes \/ NStageDoes \/ NRecheckDoes \/ NMoveDoes \/ NActivateDoes \/ NConfirmDoes \/ NDropDoes
  <2>1. step \in NWorking /\ UNCHANGED <<op, before, cli>>
    BY <1>9 DEF NCheckDoes, NStageDoes, NRecheckDoes, NMoveDoes, NActivateDoes, NConfirmDoes, NDropDoes, NKeeps,
       NWorking, NInstalling, NExchanging
  <2>2. QED  BY <1>3, <2>1
<1>10. CASE NUndoFilesDoes \/ NDiscardDoes \/ NPutBackDoes \/ NMarkDoes
  <2>1. step \in NWorking /\ UNCHANGED <<op, before, cli>>
    BY <1>10 DEF NUndoFilesDoes, NDiscardDoes, NPutBackDoes, NMarkDoes, NKeeps, NWorking, NRestoring, NSwitching
  <2>2. QED  BY <1>3, <2>1
<1>11. CASE NRenameDoes
  <2>1. step \in NWorking /\ UNCHANGED <<op, before, cli>>
    BY <1>11 DEF NRenameDoes, NEndDoes, NKeeps, NWorking, NSwitching
  <2>2. QED  BY <1>3, <2>1
<1>12. CASE NCleanDoes \/ NRolledBackDoes \/ NLeaveDoes \/ NKillDoes \/ NClearDoes \/ NUserSwitchesDoes
  <2>1. step' \in {"idle", "leave"}
    BY <1>12 DEF NCleanDoes, NRolledBackDoes, NLeaveDoes, NKillDoes, NClearDoes, NUserSwitchesDoes, NEndDoes
  <2>2. QED  BY <1>1, <2>1
<1>13. CASE NEditDoes
  <2>1. UNCHANGED <<step, op, before, cli>>
    BY <1>13 DEF NEditDoes
  <2>2. QED  BY <1>0, <2>1
<1>14. QED
  BY <1>4, <1>5, <1>6, <1>7, <1>8, <1>9, <1>10, <1>11, <1>12, <1>13 DEF NDoes

\* What the CLI would list on the way there.
LEMMA NForthNext ==
  ASSUME NTyped, NStages, NPrior, NFlagged, NRoot, NForth, NDoes
  PROVE  NForth'
<1>0. NToggled'
  BY NToggledNext
<1>. USE DEF NForth
<1>1. /\ cli = NOf(cli.market, cli.plugin) /\ cli.market \in BOOLEAN
      /\ N!Unregistered = NOf(FALSE, N!NoPlugin)
      /\ \A m, p : NOf(m, p) = [market |-> m, plugin |-> p]
      /\ \A v, on : NVersion(v, on) = [v |-> v, on |-> on]
      /\ \A m, p : NOf(m, p).market = m /\ NOf(m, p).plugin = p
      /\ \A v, on : NVersion(v, on).v = v /\ NVersion(v, on).on = on
      /\ step # "idle" => op.kind \in {"install", "enable", "disable", "remove"}
  BY NCliIs, NRegistrationsAre, NAim DEF NOf, NVersion
<1>2. CASE step' \in NUndoings \cup {"idle", "leave"}
  BY <1>0, <1>2 DEF NUndoings, NToggled
<1>3. CASE NStartDoes
  <2>1. step' = "idle" \/ (step' = "check" /\ before'.cli = cli /\ cli' = cli)
    BY <1>3 DEF NStartDoes
  <2>2. QED  BY <1>0, <2>1 DEF NToggled
<1>4. CASE NCheckDoes \/ NStageDoes \/ NRecheckDoes
  <2>1. /\ step \in {"check", "stage", "recheck"} /\ UNCHANGED <<cli, before>>
        /\ step' \in {"leave", "stage", "uninstall", "switch", "recheck", "undo registration"}
    BY <1>4 DEF NCheckDoes, NStageDoes, NRecheckDoes, NKeeps
  <2>2. QED  BY <1>0, <2>1 DEF NToggled
<1>5. CASE NUninstallDoes
  <2>1. step = "uninstall" /\ UNCHANGED before /\ cli = before.cli
    BY <1>5 DEF NUninstallDoes, NKeeps
  <2>2. CASE step' = "unmarket"
    <3>1. cli'.market = before.cli.market /\ cli'.plugin = N!NoPlugin
      BY <1>1, <1>5, <2>1, <2>2 DEF NUninstallDoes
    <3>2. QED  BY <1>0, <2>1, <2>2, <3>1 DEF NToggled
  <2>3. QED  BY <1>2, <1>5, <2>2 DEF NUninstallDoes, NUndoings
<1>6. CASE NUnmarketDoes
  <2>1. step = "unmarket" /\ UNCHANGED before /\ cli.market = before.cli.market /\ cli.plugin = N!NoPlugin
    BY <1>6 DEF NUnmarketDoes, NKeeps
  <2>2. CASE step' = "move"
    <3>1. cli' = N!Unregistered
      <4>1. CASE cli' = NOf(FALSE, cli.plugin)
        BY <1>1, <2>1, <4>1
      <4>2. CASE cli' = cli /\ ~before.cli.market
        <5>1. cli.market = FALSE
          BY <1>1, <2>1, <4>2
        <5>2. QED  BY <1>1, <2>1, <4>2, <5>1
      <4>3. QED  BY <1>6, <2>2, <4>1, <4>2 DEF NUnmarketDoes
    <3>2. QED  BY <1>0, <2>2, <3>1 DEF NToggled
  <2>3. QED  BY <1>2, <1>6, <2>2 DEF NUnmarketDoes, NUndoings
<1>7. CASE NMoveDoes
  <2>1. step = "move" /\ UNCHANGED <<before, cli, op>> /\ cli = N!Unregistered
    BY <1>7 DEF NMoveDoes, NKeeps
  <2>2. \/ step' = "activate" \/ (step' = "confirm" /\ op.kind = "remove") \/ step' = "undo registration"
    BY <1>7 DEF NMoveDoes
  <2>3. QED  BY <1>0, <2>1, <2>2 DEF NToggled
<1>8. CASE NActivateDoes
  <2>1. step = "activate" /\ cli' = cli /\ step' \in {"market", "undo registration"}
    BY <1>8 DEF NActivateDoes
  <2>2. QED  BY <1>0, <2>1 DEF NToggled
<1>9. CASE NMarketDoes
  <2>1. step = "market" /\ cli = N!Unregistered
    BY <1>9 DEF NMarketDoes
  <2>2. CASE step' = "install"
    <3>1. cli' = [market |-> TRUE, plugin |-> N!NoPlugin]
      BY <1>1, <1>9, <2>1, <2>2 DEF NMarketDoes
    <3>2. QED  BY <1>0, <2>2, <3>1 DEF NToggled
  <2>3. QED  BY <1>2, <1>9, <2>2 DEF NMarketDoes, NUndoings
<1>10. CASE NInstallDoes
  <2>1. /\ step = "install" /\ cli = [market |-> TRUE, plugin |-> N!NoPlugin] /\ N!root' = N!root /\ op' = op
        /\ op.kind = "install"
    BY <1>10, NPlaces DEF NInstallDoes, NFilesStay, NKeeps, NStages, NInstalling
  <2>2. CASE step' = "turn off"
    <3>1. cli' = [market |-> TRUE, plugin |-> [v |-> N!root.v, on |-> TRUE]]
      <4>1. cli' = NOf(cli.market, NVersion(N!root.v, TRUE)) /\ cli.market = TRUE
        BY <1>10, <2>1, <2>2 DEF NInstallDoes
      <4>2. QED  BY <4>1 DEF NOf, NVersion
    <3>2. QED  BY <1>0, <2>1, <2>2, <3>1 DEF NToggled
  <2>3. CASE step' = "confirm"
    BY <1>0, <2>1, <2>3 DEF NToggled
  <2>4. QED  BY <1>2, <1>10, <2>2, <2>3 DEF NInstallDoes, NUndoings
<1>11. CASE NTurnOffDoes
  <2>1. step' \in {"confirm", "undo registration"} /\ op' = op /\ op.kind = "install"
    BY <1>11 DEF NTurnOffDoes, NKeeps, NStages, NInstalling
  <2>2. QED  BY <1>0, <2>1 DEF NToggled
<1>12. CASE NConfirmDoes
  <2>1. /\ step = "confirm" /\ UNCHANGED <<op, prior, before, cli>> /\ N!Aim' = N!Aim
        /\ step' \in {"drop", "clean", "undo registration"}
    BY <1>12 DEF NConfirmDoes, NKeeps, N!Aim
  <2>2. step' # "undo registration" /\ op.kind = "install" => cli = [market |-> TRUE, plugin |-> N!Aim]
    <3>1. SUFFICES ASSUME step' # "undo registration", op.kind = "install"
                   PROVE  cli = [market |-> TRUE, plugin |-> N!Aim]
      OBVIOUS
    <3>2. cli.market /\ cli.plugin = N!Aim
      BY <1>12, <3>1 DEF NConfirmDoes, N!Confirmed
    <3>3. cli.market = TRUE
      BY <1>1, <3>2
    <3>4. QED  BY <1>1, <3>2, <3>3
  <2>3. QED  BY <1>0, <2>1, <2>2 DEF NToggled
<1>13. CASE NDropDoes
  <2>1. /\ step = "drop" /\ UNCHANGED <<op, prior, before, cli>> /\ N!Aim' = N!Aim
        /\ step' \in {"drop", "clean", "undo registration"}
    BY <1>13 DEF NDropDoes, NKeeps, N!Aim
  <2>2. QED  BY <1>0, <2>1 DEF NToggled
<1>14. CASE NSwitchDoes
  <2>1. /\ step = "switch" /\ UNCHANGED <<op, prior, before>> /\ N!Aim' = N!Aim
    BY <1>14 DEF NSwitchDoes, NKeeps, N!Aim
  <2>2. CASE step' = "mark"
    <3>1. cli'.plugin.on = N!Aim.on
      BY <1>1, <1>14, <2>2 DEF NSwitchDoes
    <3>2. QED  BY <1>0, <2>1, <2>2, <3>1 DEF NToggled
  <2>3. QED  BY <1>2, <1>14, <2>2 DEF NSwitchDoes, NUndoings
<1>15. CASE NMarkDoes
  <2>1. /\ step = "mark" /\ UNCHANGED <<op, prior, before, cli>> /\ N!Aim' = N!Aim
        /\ step' \in {"rename", "undo registration"}
    BY <1>15 DEF NMarkDoes, NKeeps, N!Aim
  <2>2. QED  BY <1>0, <2>1 DEF NToggled
<1>16. CASE NUndoRegistrationDoes \/ NUndoFilesDoes \/ NDiscardDoes \/ NPutBackDoes \/ NAddBackDoes
            \/ NInstallBackDoes \/ NOffAgainDoes
  BY <1>2, <1>16 DEF NUndoRegistrationDoes, NUndoFilesDoes, NDiscardDoes, NPutBackDoes, NAddBackDoes,
     NInstallBackDoes, NOffAgainDoes, NUndoings
<1>17. CASE NRenameDoes \/ NCleanDoes \/ NRolledBackDoes \/ NLeaveDoes \/ NKillDoes
  BY <1>2, <1>17 DEF NRenameDoes, NCleanDoes, NRolledBackDoes, NLeaveDoes, NKillDoes, NEndDoes, NUndoings
<1>18. CASE NClearDoes \/ NUserSwitchesDoes
  BY <1>2, <1>18 DEF NClearDoes, NUserSwitchesDoes
<1>19. CASE NEditDoes
  <2>1. UNCHANGED <<step, op, prior, before, cli>> /\ N!root'.v = N!root.v /\ N!Aim' = N!Aim
    BY <1>19, NEditSame DEF N!Aim
  <2>2. QED  BY <2>1
<1>20. QED
  BY <1>3, <1>4, <1>5, <1>6, <1>7, <1>8, <1>9, <1>10, <1>11, <1>12, <1>13, <1>14, <1>15, <1>16, <1>17,
     <1>18, <1>19 DEF NDoes


\* What the CLI would list on the way back.
LEMMA NBackNext ==
  ASSUME NTyped, NStages, NPrior, NFlagged, NForth, NBack, NDoes
  PROVE  NBack'
<1>1. /\ cli = NOf(cli.market, cli.plugin) /\ cli.market \in BOOLEAN
      /\ before.cli = NOf(before.cli.market, before.cli.plugin) /\ before.cli.market \in BOOLEAN
      /\ before.cli.plugin.on \in BOOLEAN
      /\ N!Unregistered = NOf(FALSE, N!NoPlugin)
      /\ \A m, p : NOf(m, p).market = m /\ NOf(m, p).plugin = p
      /\ \A v, on : NVersion(v, on).v = v /\ NVersion(v, on).on = on
      /\ N!NoPlugin.on = FALSE
  BY NCliIs, NRegistrationsAre
<1>0. /\ \A m, p : NOf(m, p).market = m /\ NOf(m, p).plugin = p
      /\ \A v, on : NVersion(v, on).v = v /\ NVersion(v, on).on = on
      /\ N!Unregistered = NOf(FALSE, N!NoPlugin)
  BY <1>1
<1>2. step # "idle" => op.kind \in {"install", "enable", "disable", "remove"}
  BY NAim
<1>. USE DEF NBack, NRegistered
<1>3. CASE step' \notin NUndoings
  BY <1>3 DEF NUndoings
\* Where the undoing of a removal begins.
<1>4. ASSUME step' = "undo registration", UNCHANGED <<op, before>>,
             op.kind = "remove" => /\ ~before.cli.market => cli' = before.cli
                                   /\ before.cli.plugin = N!NoPlugin \/ ~cli'.market => cli'.plugin = N!NoPlugin,
             op.kind = "install" => (tx'.touched \/ cli' = before.cli)
      PROVE  NBack'
  BY <1>4
<1>5. CASE NStartDoes \/ NCheckDoes \/ NCleanDoes \/ NRolledBackDoes \/ NLeaveDoes \/ NKillDoes \/ NClearDoes
           \/ NUserSwitchesDoes
  <2>1. step' \in {"idle", "check", "stage", "uninstall", "switch", "leave"}
    BY <1>5 DEF NStartDoes, NCheckDoes, NCleanDoes, NRolledBackDoes, NLeaveDoes, NKillDoes, NClearDoes,
       NUserSwitchesDoes, NEndDoes
  <2>2. QED  BY <1>3, <2>1 DEF NUndoings
<1>6. CASE step' = "undo registration" /\ (NStageDoes \/ NRecheckDoes)
  <2>1. UNCHANGED <<op, before>> /\ op.kind = "install" /\ cli' = before.cli
    BY <1>6 DEF NStageDoes, NRecheckDoes, NKeeps, NStages, NInstalling, NForth
  <2>2. QED  BY <1>4, <1>6, <2>1
<1>7. CASE step' = "undo registration" /\ NUninstallDoes
  <2>1. /\ step = "uninstall" /\ UNCHANGED <<op, before, tx>> /\ before.cli.plugin # N!NoPlugin /\ before.cli.market
        /\ cli = before.cli /\ cli' \in {cli, NOf(cli.market, N!NoPlugin)}
        /\ op.kind = "install" => tx.touched
    BY <1>7 DEF NUninstallDoes, NKeeps, NPrior, NForth, NFlagged, NInstalling, NExchanging, NWorking
  <2>2. cli'.market = cli.market
    BY ONLY <1>0, <2>1
  <2>3. QED  BY <1>4, <1>7, <2>1, <2>2
<1>8. CASE step' = "undo registration" /\ NUnmarketDoes
  <2>1. /\ step = "unmarket" /\ UNCHANGED <<op, before, tx>> /\ before.cli.market
        /\ cli.plugin = N!NoPlugin /\ cli' \in {cli, NOf(FALSE, cli.plugin)}
        /\ op.kind = "install" => tx.touched
    BY <1>8 DEF NUnmarketDoes, NKeeps, NForth, NFlagged, NInstalling, NExchanging, NWorking
  <2>2. cli'.plugin = N!NoPlugin
    BY ONLY <2>1 DEF NOf
  <2>3. QED  BY <1>4, <1>8, <2>1, <2>2
\* From where nothing is registered.
<1>9. ASSUME step' = "undo registration", step \in NWorking \ {"check"}, UNCHANGED <<op, before>>, tx'.touched = tx.touched,
             op.kind = "install" => tx.touched, op.kind = "remove" => cli' = N!Unregistered
      PROVE  NBack'
  <2>1. ~before.cli.market => before.cli = N!Unregistered
    <3>1. ~before.cli.market => before.cli.plugin = N!NoPlugin /\ before.cli.market = FALSE
      BY <1>1, <1>9 DEF NPrior
    <3>2. QED  BY <1>1, <3>1
  <2>2. N!Unregistered.plugin = N!NoPlugin
    BY <1>0
  <2>3. QED  BY <1>4, <1>9, <2>1, <2>2
<1>10. CASE step' = "undo registration" /\ NMoveDoes
  <2>1. step = "move" /\ UNCHANGED <<op, before, tx, cli>> /\ cli = N!Unregistered /\ (op.kind = "install" => tx.touched)
    BY <1>10 DEF NMoveDoes, NKeeps, NForth, NFlagged, NInstalling, NExchanging, NWorking
  <2>2. QED  BY <1>9, <1>10, <2>1 DEF NWorking, NInstalling, NExchanging
<1>11. CASE step' = "undo registration" /\ (NActivateDoes \/ NMarketDoes \/ NInstallDoes \/ NTurnOffDoes)
  <2>1. /\ step \in {"activate", "market", "install", "turn off"} /\ UNCHANGED <<op, before, tx>>
        /\ op.kind = "install" /\ tx.touched
    BY <1>11 DEF NActivateDoes, NMarketDoes, NInstallDoes, NTurnOffDoes, NKeeps, NStages, NFlagged, NInstalling,
       NExchanging, NWorking
  <2>2. QED  BY <1>9, <1>11, <2>1 DEF NWorking, NInstalling, NExchanging
<1>12. CASE step' = "undo registration" /\ NConfirmDoes
  <2>1. /\ step = "confirm" /\ UNCHANGED <<op, before, tx, cli>> /\ (op.kind = "install" => tx.touched)
        /\ op.kind = "remove" => cli = N!Unregistered
    BY <1>12 DEF NConfirmDoes, NKeeps, NForth, NFlagged, NInstalling, NExchanging, NWorking
  <2>2. QED  BY <1>9, <1>12, <2>1 DEF NWorking, NInstalling, NExchanging
<1>13. CASE step' = "undo registration" /\ NDropDoes
  <2>1. /\ step = "drop" /\ UNCHANGED <<op, before, cli>> /\ (op.kind = "install" => tx.touched)
        /\ op.kind = "remove" => cli = N!Unregistered
    BY <1>13 DEF NDropDoes, NKeeps, NForth, NFlagged, NInstalling, NExchanging, NWorking
  <2>2. tx'.touched = tx.touched
    BY <1>13, NFlagsOf DEF NDropDoes
  <2>3. QED  BY <1>9, <1>13, <2>1, <2>2 DEF NWorking, NExchanging
<1>14. CASE step' = "undo registration" /\ (NSwitchDoes \/ NMarkDoes \/ NRenameDoes)
  <2>1. UNCHANGED <<op, before>> /\ op.kind \in NToggles
    BY <1>14 DEF NSwitchDoes, NMarkDoes, NRenameDoes, NEndDoes, NKeeps, NStages, NSwitching
  <2>2. op.kind \notin {"install", "remove"}
    BY <2>1 DEF NToggles
  <2>3. QED  BY <1>4, <1>14, <2>1, <2>2
<1>15. CASE step' # "undo registration" /\ (NStageDoes \/ NRecheckDoes \/ NUninstallDoes \/ NUnmarketDoes \/ NMoveDoes
            \/ NActivateDoes \/ NMarketDoes \/ NInstallDoes \/ NTurnOffDoes \/ NConfirmDoes \/ NDropDoes)
  BY <1>3, <1>15 DEF NStageDoes, NRecheckDoes, NUninstallDoes, NUnmarketDoes, NMoveDoes, NActivateDoes, NMarketDoes,
     NInstallDoes, NTurnOffDoes, NConfirmDoes, NDropDoes, NUndoings
<1>16. CASE step' # "undo registration" /\ (NSwitchDoes \/ NMarkDoes \/ NRenameDoes)
  BY <1>3, <1>16 DEF NSwitchDoes, NMarkDoes, NRenameDoes, NEndDoes, NUndoings
<1>17. CASE NUndoRegistrationDoes
  <2>1. step = "undo registration" /\ UNCHANGED <<op, before>>
    BY <1>17 DEF NUndoRegistrationDoes, NKeeps
  <2>2. CASE step' = "end" /\ NBrokenNow
    <3>1. tx'.broken = TRUE
      BY <2>2 DEF NBrokenNow, NFlagsAre
    <3>2. QED  BY <2>2, <3>1
  <2>3. CASE /\ step' = "end" /\ op.kind \in NToggles
             /\ cli' = NOf(cli.market, NVersion(cli.plugin.v, before.cli.plugin.on))
    <3>1. /\ cli'.market = cli.market /\ cli'.plugin.v = cli.plugin.v /\ cli'.plugin.on = before.cli.plugin.on
      BY ONLY <1>0, <2>3
    <3>2. cli.market = before.cli.market /\ cli.plugin.v = before.cli.plugin.v
      BY <2>1, <2>3 DEF NForth, NWorking
    <3>3. QED  BY <2>1, <2>3, <3>1, <3>2
  <2>4. CASE step' = "undo files" /\ op.kind = "install" /\ tx.touched /\ UNCHANGED tx /\ cli' = NOf(FALSE, N!NoPlugin)
    BY <1>1, <2>1, <2>4
  <2>5. CASE step' = "undo files" /\ op.kind = "install" /\ tx.touched /\ NBrokenNow
    <3>1. tx'.broken = TRUE /\ tx'.touched = tx.touched
      BY <2>5 DEF NBrokenNow, NFlagsAre
    <3>2. QED  BY <2>1, <2>5, <3>1
  <2>6. CASE step' = "undo files" /\ ~(op.kind = "install" /\ tx.touched) /\ UNCHANGED <<tx, cli>>
    BY <2>1, <2>6
  <2>7. QED  BY <1>17, <2>2, <2>3, <2>4, <2>5, <2>6 DEF NUndoRegistrationDoes
<1>18. CASE NUndoFilesDoes \/ NDiscardDoes \/ NPutBackDoes
  <2>1. /\ step \in {"undo files", "discard", "put back"} /\ UNCHANGED <<op, before, cli>>
        /\ step' \in {"discard", "put back", "add back", "end"}
    BY <1>18 DEF NUndoFilesDoes, NDiscardDoes, NPutBackDoes, NKeeps
  <2>2. CASE step' = "end"
    <3>1. NBrokenNow
      BY <1>18, <2>2 DEF NUndoFilesDoes, NDiscardDoes, NPutBackDoes
    <3>2. tx'.broken = TRUE
      BY <3>1 DEF NBrokenNow, NFlagsAre
    <3>3. QED  BY <2>2, <3>2
  <2>3. CASE step' # "end"
    <3>1. UNCHANGED tx \/ NFlagsAre(tx.touched, FALSE, tx.active, tx.committed, tx.broken)
      BY <1>18, <2>3 DEF NUndoFilesDoes, NDiscardDoes, NPutBackDoes
    <3>2. tx'.touched = tx.touched /\ tx'.broken = tx.broken
      BY ONLY <3>1 DEF NFlagsAre
    <3>3. QED  BY <2>1, <2>3, <3>2
  <2>4. QED  BY <2>2, <2>3
<1>19. CASE NAddBackDoes
  <2>1. step = "add back" /\ UNCHANGED <<op, before>> /\ op.kind \in {"install", "remove"}
    BY <1>19 DEF NAddBackDoes, NKeeps, NStages, NRestoring, NRebuilding, NMoves
  <2>2. CASE step' = "end" /\ NBrokenNow
    <3>1. tx'.broken = TRUE
      BY <2>2 DEF NBrokenNow, NFlagsAre
    <3>2. QED  BY <2>2, <3>1
  <2>3. CASE step' = "install back" /\ N!Registers /\ ~cli.market /\ UNCHANGED tx /\ cli' = NOf(TRUE, cli.plugin)
    <3>1. N!Registers'
      BY <2>1, <2>3 DEF N!Registers
    <3>2. ~tx.broken => cli.plugin = N!NoPlugin
      <4>1. CASE op.kind = "remove"
        BY <2>1, <2>3, <4>1
      <4>2. CASE op.kind = "install"
        <5>1. tx.touched
          BY <2>3, <4>2 DEF N!Registers
        <5>2. ~tx.broken => cli = NOf(FALSE, N!NoPlugin)
          BY <1>0, <2>1, <4>2, <5>1
        <5>3. QED  BY ONLY <5>2 DEF NOf
      <4>3. QED  BY <2>1, <4>1, <4>2
    <3>3. ~tx.broken => cli' = [market |-> TRUE, plugin |-> N!NoPlugin]
      BY <2>3, <3>2 DEF NOf
    <3>4. QED  BY <2>1, <2>3, <3>1, <3>3
  <2>4. CASE step' = "end" /\ ~N!Registers /\ UNCHANGED <<tx, cli>>
    <3>1. ~tx.broken => cli = before.cli
      <4>1. CASE op.kind = "remove"
        BY <2>1, <2>4, <4>1 DEF N!Registers
      <4>2. CASE op.kind = "install" /\ ~tx.touched
        BY <2>1, <4>2
      <4>3. CASE op.kind = "install" /\ tx.touched
        <5>1. ~before.cli.market
          BY <2>4, <4>3 DEF N!Registers
        <5>2. before.cli.plugin = N!NoPlugin /\ before.cli.market = FALSE
          BY <1>1, <2>1, <5>1 DEF NPrior, NWorking, NRestoring, NRebuilding
        <5>3. ~tx.broken => cli = N!Unregistered
          BY <2>1, <4>3
        <5>4. QED  BY <1>1, <5>2, <5>3
      <4>4. QED  BY <2>1, <4>1, <4>2, <4>3
    <3>2. QED  BY <2>1, <2>4, <3>1
  <2>5. QED  BY <1>19, <2>2, <2>3, <2>4 DEF NAddBackDoes
<1>20. CASE NInstallBackDoes
  <2>1. step = "install back" /\ UNCHANGED <<op, before>> /\ N!Registers /\ N!root' = N!root
    BY <1>20, NPlaces DEF NInstallBackDoes, NKeeps, NFilesStay
  <2>2. CASE step' = "end" /\ NBrokenNow
    <3>1. tx'.broken = TRUE
      BY <2>2 DEF NBrokenNow, NFlagsAre
    <3>2. QED  BY <2>2, <3>1
  <2>0. before.cli.market = TRUE
    BY <1>1, <2>1 DEF N!Registers
  <2>3. CASE step' = "end" /\ before.cli.plugin = N!NoPlugin /\ UNCHANGED <<tx, cli>>
    <3>1. ~tx.broken => cli = before.cli
      <4>1. ~tx.broken => cli = NOf(TRUE, N!NoPlugin)
        BY <2>1 DEF NOf
      <4>2. QED  BY <1>1, <2>0, <2>3, <4>1
    <3>2. QED  BY <2>1, <2>3, <3>1
  <2>4. CASE /\ step' = (IF before.cli.plugin.on THEN "end" ELSE "off again")
             /\ before.cli.plugin # N!NoPlugin /\ UNCHANGED tx
             /\ cli' = NOf(cli.market, NVersion(N!root.v, TRUE))
    <3>1. ~tx.broken => cli.market = TRUE
      <4>1. ~tx.broken => cli = NOf(TRUE, N!NoPlugin)
        BY <2>1 DEF NOf
      <4>2. QED  BY ONLY <1>0, <4>1
    <3>2. cli'.market = cli.market /\ cli'.plugin.v = N!root.v /\ cli'.plugin.on = TRUE
      BY ONLY <2>4 DEF NOf, NVersion
    <3>3. CASE before.cli.plugin.on
      <4>1. before.cli.plugin.on = TRUE
        BY <1>1, <3>3
      <4>2. QED  BY <2>0, <2>1, <2>4, <3>1, <3>2, <3>3, <4>1
    <3>4. CASE ~before.cli.plugin.on
      <4>1. N!Registers'
        BY <2>1, <2>4 DEF N!Registers
      <4>2. ~tx.broken => cli' = [market |-> TRUE, plugin |-> [v |-> N!root.v, on |-> TRUE]]
        BY <2>4, <3>1 DEF NOf, NVersion
      <4>3. QED  BY <2>1, <2>4, <3>4, <4>1, <4>2
    <3>5. QED  BY <3>3, <3>4
  <2>5. QED  BY <1>20, <2>2, <2>3, <2>4 DEF NInstallBackDoes
<1>21. CASE NOffAgainDoes
  <2>1. step = "off again" /\ step' = "end" /\ UNCHANGED <<op, before>> /\ N!Registers /\ N!root' = N!root
    BY <1>21, NPlaces DEF NOffAgainDoes, NKeeps, NFilesStay
  <2>2. CASE NBrokenNow
    <3>1. tx'.broken = TRUE
      BY <2>2 DEF NBrokenNow, NFlagsAre
    <3>2. QED  BY <2>1, <3>1
  <2>3. CASE UNCHANGED tx /\ cli' = NOf(cli.market, NVersion(cli.plugin.v, FALSE))
    <3>1. before.cli.market = TRUE /\ before.cli.plugin.on = FALSE /\ before.cli.plugin # N!NoPlugin
      BY <1>1, <2>1 DEF N!Registers
    <3>2. ~tx.broken => cli.market = TRUE /\ cli.plugin.v = N!root.v
      <4>1. ~tx.broken => cli = NOf(TRUE, NVersion(N!root.v, TRUE))
        BY <2>1 DEF NOf, NVersion
      <4>2. QED  BY ONLY <4>1 DEF NOf, NVersion
    <3>3. cli'.market = cli.market /\ cli'.plugin.v = cli.plugin.v /\ cli'.plugin.on = FALSE
      BY ONLY <2>3 DEF NOf, NVersion
    <3>4. QED  BY <2>1, <2>3, <3>1, <3>2, <3>3
  <2>4. QED  BY <1>21, <2>2, <2>3 DEF NOffAgainDoes
<1>22. CASE NEditDoes
  <2>1. UNCHANGED <<step, op, before, tx, cli>> /\ N!root'.v = N!root.v
    BY <1>22, NEditSame
  <2>2. N!Registers' = N!Registers
    BY <2>1 DEF N!Registers
  <2>3. QED  BY <2>1, <2>2
<1>23. QED
  BY <1>5, <1>6, <1>7, <1>8, <1>10, <1>11, <1>12, <1>13, <1>14, <1>15, <1>16, <1>17, <1>18, <1>19, <1>20,
     <1>21, <1>22 DEF NDoes

-----------------------------------------------------------------------------
(* The native host. What was found, and what an end leaves. *)

\* While nothing is committed, what is still what was found is the same.
LEMMA NStillSame ==
  ~tx.committed => \A t : NStill(t) => N!Same(t, NFound)
BY DEF NStill, N!Same

\* What an operation that is over left.
LEMMA NLeftNext ==
  ASSUME NTyped, NStages, NFlagged, NFiles, NForth, NBack, NLeft, NDoes
  PROVE  NLeft'
<1>. USE DEF NLeft
<1>1. CASE step' # "leave"
  BY <1>1
<1>2. CASE NCheckDoes
  <2>1. /\ step = "check" /\ tx = N!NoChange /\ UNCHANGED <<place, before, cli, tx>> /\ cli = before.cli
        /\ N!root' = N!root /\ NFound' = NFound
    BY <1>2, NPlaces DEF NCheckDoes, NForth, NFlagged, NWorking, NFound
  <2>2. ~tx.moved /\ ~tx.active /\ ~tx.broken /\ ~tx.committed
    BY <2>1 DEF N!NoChange
  <2>3. N!Same(N!root, NFound)
    BY <2>1, <2>2, NStillSame DEF NFiles, NWorking
  <2>4. NRegistered'
    BY <2>1 DEF NRegistered
  <2>5. step' = "leave" => outcome' # "incomplete"
    BY <1>2 DEF NCheckDoes, NStages, NWorking
  <2>6. tx'.broken = tx.broken
    BY <2>1
  <2>7. N!Same(N!root, NFound)'
    BY <2>1, <2>3
  <2>8. QED  BY <2>2, <2>4, <2>5, <2>6, <2>7
<1>3. CASE NCleanDoes
  <2>1. tx' = tx /\ outcome' \in {"ok", "missing", "masked"} /\ tx.committed
    BY <1>3 DEF NCleanDoes, NEndDoes, NFlagged, NWorking, NExchanging
  <2>2. QED  BY <2>1
<1>4. CASE NRenameDoes
  <2>1. step' = "leave" => outcome' = "ok" /\ tx'.committed
    BY <1>4, NFlagsOf DEF NRenameDoes, NEndDoes
  <2>2. QED  BY <2>1
<1>5. CASE NRolledBackDoes
  <2>1. /\ step = "end" /\ UNCHANGED <<place, before, cli, tx>> /\ N!root' = N!root /\ NFound' = NFound
        /\ outcome' = "failed" => ~tx.broken
        /\ outcome' = "incomplete" => tx.broken
    BY <1>5, NPlaces, NFlagsWritten DEF NRolledBackDoes, NEndDoes, NFound
  <2>2. ~tx.broken => NStill(N!root) /\ NRegistered
    BY <2>1 DEF NFiles, NBack, NWorking
  <2>3. NRegistered => NRegistered'
    BY <2>1 DEF NRegistered
  <2>4. ~tx.broken /\ ~tx.committed => N!Same(N!root, NFound)'
    BY <2>1, <2>2, NStillSame
  <2>5. QED  BY <2>1, <2>2, <2>3, <2>4
<1>6. CASE NEditDoes
  <2>1. /\ UNCHANGED <<step, before, cli, outcome, tx>> /\ N!root'.v = N!root.v /\ N!root'.on = N!root.on
        /\ N!root'.files = N!root.files /\ NFound' = NFound
    BY <1>6, NEditSame DEF NFound
  <2>2. N!Same(N!root, NFound) => N!Same(N!root, NFound)'
    BY <2>1 DEF N!Same
  <2>3. NRegistered => NRegistered'
    BY <2>1 DEF NRegistered
  <2>4. QED  BY <2>1, <2>2, <2>3
<1>7. CASE NStartDoes \/ NLeaveDoes \/ NKillDoes \/ NClearDoes \/ NUserSwitchesDoes
  <2>1. step' # "leave"
    BY <1>7 DEF NStartDoes, NLeaveDoes, NKillDoes, NClearDoes, NUserSwitchesDoes
  <2>2. QED  BY <1>1, <2>1
<1>8. CASE NStageDoes \/ NRecheckDoes \/ NUninstallDoes \/ NUnmarketDoes \/ NMoveDoes \/ NActivateDoes
           \/ NMarketDoes \/ NInstallDoes \/ NTurnOffDoes \/ NConfirmDoes \/ NDropDoes \/ NSwitchDoes \/ NMarkDoes
  <2>1. step' # "leave"
    BY <1>8 DEF NStageDoes, NRecheckDoes, NUninstallDoes, NUnmarketDoes, NMoveDoes, NActivateDoes,
       NMarketDoes, NInstallDoes, NTurnOffDoes, NConfirmDoes, NDropDoes, NSwitchDoes, NMarkDoes
  <2>2. QED  BY <1>1, <2>1
<1>9. CASE NUndoRegistrationDoes \/ NUndoFilesDoes \/ NDiscardDoes \/ NPutBackDoes \/ NAddBackDoes
           \/ NInstallBackDoes \/ NOffAgainDoes
  <2>1. step' # "leave"
    BY <1>9 DEF NUndoRegistrationDoes, NUndoFilesDoes, NDiscardDoes, NPutBackDoes, NAddBackDoes,
       NInstallBackDoes, NOffAgainDoes
  <2>2. QED  BY <1>1, <2>1
<1>10. QED
  BY <1>2, <1>3, <1>4, <1>5, <1>6, <1>7, <1>8, <1>9 DEF NDoes

\* The steps after which the operation goes on, and all the others.
LEMMA NRunsOn ==
  ASSUME NDoes
  PROVE  \/ step' \in NWorking
         \/ NStartDoes \/ NCheckDoes \/ NCleanDoes \/ NRolledBackDoes \/ NLeaveDoes \/ NKillDoes \/ NClearDoes
         \/ NEditDoes \/ NUserSwitchesDoes \/ (NRenameDoes /\ step' = "leave")
<1>. USE DEF NWorking
<1>1. CASE NStageDoes \/ NRecheckDoes \/ NUninstallDoes \/ NUnmarketDoes \/ NMoveDoes \/ NActivateDoes
           \/ NMarketDoes \/ NInstallDoes \/ NTurnOffDoes \/ NConfirmDoes \/ NDropDoes \/ NSwitchDoes \/ NMarkDoes
  BY <1>1 DEF NStageDoes, NRecheckDoes, NUninstallDoes, NUnmarketDoes, NMoveDoes, NActivateDoes, NMarketDoes,
     NInstallDoes, NTurnOffDoes, NConfirmDoes, NDropDoes, NSwitchDoes, NMarkDoes, NInstalling, NExchanging, NSwitching
<1>2. CASE NRenameDoes
  BY <1>2 DEF NRenameDoes, NEndDoes
<1>3. CASE NUndoRegistrationDoes \/ NUndoFilesDoes \/ NDiscardDoes \/ NPutBackDoes \/ NAddBackDoes
           \/ NInstallBackDoes \/ NOffAgainDoes
  BY <1>3 DEF NUndoRegistrationDoes, NUndoFilesDoes, NDiscardDoes, NPutBackDoes, NAddBackDoes, NInstallBackDoes,
     NOffAgainDoes, NRestoring, NRebuilding
<1>4. QED
  BY <1>1, <1>2, <1>3 DEF NDoes

\* Those that leave the files and the flags as they are are among the others.
LEMMA NGoesOn ==
  ASSUME NDoes
  PROVE  \/ step' \in NWorking
         \/ UNCHANGED <<place, backup, before, tx>>
         \/ NEditDoes
         \/ NRenameDoes /\ step' = "leave"
<1>1. CASE NStartDoes
  BY <1>1 DEF NStartDoes, NWorking
<1>2. CASE NCheckDoes \/ NCleanDoes \/ NRolledBackDoes \/ NLeaveDoes \/ NKillDoes \/ NClearDoes \/ NUserSwitchesDoes
  BY <1>2 DEF NCheckDoes, NCleanDoes, NRolledBackDoes, NLeaveDoes, NKillDoes, NClearDoes, NUserSwitchesDoes, NEndDoes
<1>3. QED
  BY <1>1, <1>2, NRunsOn

\* What was found is held, told of the one target there is.
NHeld == ~tx.committed /\ NFound.v # Nothing => N!Same(N!root, NFound) \/ N!Same(NBackup, NFound)

\* What was found is held, before a step and after it.
LEMMA NHeldIs ==
  /\ NTyped => (N!PreimageHeld <=> NHeld)
  /\ NTyped' => (N!PreimageHeld' <=> NHeld')
<1>1. NTyped => (N!PreimageHeld <=> NHeld)
  <2>1. SUFFICES ASSUME NTyped
                 PROVE  N!PreimageHeld <=> NHeld
    OBVIOUS
  <2>2. DOMAIN place = {N!Root}
    BY <2>1, NRootedIs DEF NTyped
  <2>3. QED  BY <2>2 DEF N!PreimageHeld, NHeld, NFound, NBackup, N!root
<1>2. NTyped' => (N!PreimageHeld' <=> NHeld')
  <2>1. SUFFICES ASSUME NTyped'
                 PROVE  N!PreimageHeld' <=> NHeld'
    OBVIOUS
  <2>2. DOMAIN place' = {N!Root}
    BY <2>1, NRootedIs DEF NTyped
  <2>3. QED  BY <2>2 DEF N!PreimageHeld, NHeld, NFound, NBackup, N!root
<1>3. QED  BY <1>1, <1>2

\* What an operation found is in the root or in the backup until it commits.
LEMMA NPreimageNext ==
  ASSUME NTyped, NTyped', NStages, NFlagged', NFiles', N!PreimageHeld, NDoes
  PROVE  N!PreimageHeld'
<1>0. SUFFICES NHeld'
  BY NHeldIs
<1>1. NHeld
  BY NHeldIs
<1>2. CASE step' \in NWorking
  <2>1. CASE step' = "clean"
    BY <1>2, <2>1 DEF NHeld, NFlagged
  <2>2. CASE step' # "clean"
    <3>1. SUFFICES ASSUME ~tx'.committed, NFound'.v # Nothing
                   PROVE  N!Same(N!root, NFound)' \/ N!Same(NBackup, NFound)'
      BY DEF NHeld
    <3>2. NStill(NBackup)' \/ NStill(N!root)'
      BY <1>2, <2>2, <3>1 DEF NFiles
    <3>3. QED  BY <3>1, <3>2 DEF NStill, N!Same
  <2>3. QED  BY <2>1, <2>2
<1>3. CASE UNCHANGED <<place, backup, before, tx>>
  BY <1>1, <1>3 DEF NHeld, NFound, NBackup, N!root
<1>4. CASE NEditDoes
  <2>1. /\ UNCHANGED <<before, tx>> /\ N!root'.v = N!root.v /\ N!root'.on = N!root.on /\ N!root'.files = N!root.files
        /\ NBackup'.v = NBackup.v /\ NBackup'.on = NBackup.on /\ NBackup'.files = NBackup.files /\ NFound' = NFound
    BY <1>4, NEditSame DEF NFound
  <2>2. /\ N!Same(N!root, NFound) => N!Same(N!root, NFound)'
        /\ N!Same(NBackup, NFound) => N!Same(NBackup, NFound)'
    BY <2>1 DEF N!Same
  <2>3. QED  BY <1>1, <2>1, <2>2 DEF NHeld
<1>5. CASE NRenameDoes /\ step' = "leave"
  <2>1. tx'.committed
    BY <1>5, NFlagsOf DEF NRenameDoes
  <2>2. QED  BY <2>1 DEF NHeld
<1>6. QED  BY <1>2, <1>3, <1>4, <1>5, NGoesOn

\* What an operation that failed left.
LEMMA NFailureNext ==
  ASSUME NTyped, NStages, NStages', NLeft, NLeft', N!FailureRestores, NDoes
  PROVE  N!FailureRestores'
<1>. USE DEF N!FailureRestores
<1>1. CASE step' \in NWorking
  BY <1>1 DEF NStages
<1>2. CASE step' = "leave"
  BY <1>2 DEF NLeft, NRegistered, NFound
<1>3. CASE step' \notin NWorking \cup {"leave"}
  <2>1. CASE NLeaveDoes
    <3>1. /\ step = "leave" /\ UNCHANGED <<place, before, tx, cli>> /\ outcome' \in {outcome, "masked"}
          /\ N!root' = N!root
      BY <2>1, NPlaces DEF NLeaveDoes
    <3>2. QED  BY <3>1 DEF NLeft, NRegistered, NFound
  <2>2. CASE NStartDoes \/ NKillDoes \/ NUserSwitchesDoes
    <3>1. outcome' \in {"locked", "running", "killed", "none"}
      BY <2>2 DEF NStartDoes, NKillDoes, NUserSwitchesDoes
    <3>2. QED  BY <3>1
  <2>3. CASE NClearDoes
    <3>1. UNCHANGED <<place, before, cli, outcome, tx>> /\ N!root' = N!root
      BY <2>3, NPlaces DEF NClearDoes
    <3>2. QED  BY <3>1
  <2>4. CASE NEditDoes
    <3>1. /\ UNCHANGED <<before, cli, outcome, tx>> /\ N!root'.v = N!root.v
          /\ N!Same(N!root, before.place[N!Root]) => N!Same(N!root', before.place[N!Root])
      BY <2>4, NEditSame DEF N!Same
    <3>2. QED  BY <3>1
  <2>5. CASE NCheckDoes \/ NCleanDoes \/ NRolledBackDoes \/ (NRenameDoes /\ step' = "leave")
    <3>1. step' \in NWorking \cup {"leave"}
      BY <2>5 DEF NCheckDoes, NCleanDoes, NRolledBackDoes, NEndDoes, NWorking, NInstalling, NExchanging, NSwitching
    <3>2. QED  BY <1>3, <3>1
  <2>6. QED  BY <1>3, <2>1, <2>2, <2>3, <2>4, <2>5, NRunsOn
<1>4. QED  BY <1>1, <1>2, <1>3

-----------------------------------------------------------------------------
(* The native host. What an operation that succeeded did. *)

\* The enabled state an installation is to keep.
LEMMA NEnabledKept ==
  ASSUME NTyped, NStages, NPrior, step = "clean", op.kind = "install"
  PROVE  /\ before.cli.plugin # N!NoPlugin => N!Aim.on = before.cli.plugin.on
         /\ before.cli.plugin = N!NoPlugin /\ NFound.v # Nothing => N!Aim.on = NFound.on
         /\ before.cli.plugin = N!NoPlugin /\ NFound.v = Nothing => N!Aim.on = TRUE
         /\ N!Aim = [v |-> op.v, on |-> N!Aim.on] /\ N!Aim.v = op.v
<1>1. /\ before.cli.plugin # N!NoPlugin => before.cli.market
      /\ before.cli.market => NFound.v # Nothing
      /\ prior = [v |-> NFound.v,
                  on |-> IF before.cli.plugin # N!NoPlugin THEN before.cli.plugin.on ELSE NFound.on]
  BY DEF NPrior, NWorking, NExchanging
<1>2. /\ before.cli.plugin.on \in BOOLEAN /\ NFound.on \in BOOLEAN
      /\ NFound.v = Nothing => NFound.on = FALSE
  BY NPlaces, NTreesAre, NCliIs, NRegistrationsAre
<1>3. N!Aim = [v |-> op.v, on |-> prior = N!NotOwned \/ prior.on]
  BY DEF N!Aim
<1>4. CASE before.cli.plugin # N!NoPlugin
  <2>1. prior.v # Nothing /\ prior.on = before.cli.plugin.on
    BY <1>1, <1>2, <1>4
  <2>2. prior # N!NotOwned
    BY <2>1 DEF N!NotOwned
  <2>3. N!Aim.on = before.cli.plugin.on
    BY <1>2, <1>3, <2>1, <2>2
  <2>4. QED  BY <1>3, <1>4, <2>3
<1>5. CASE before.cli.plugin = N!NoPlugin /\ NFound.v # Nothing
  <2>1. prior.v # Nothing /\ prior.on = NFound.on
    BY <1>1, <1>2, <1>5
  <2>2. prior # N!NotOwned
    BY <2>1 DEF N!NotOwned
  <2>3. N!Aim.on = NFound.on
    BY <1>2, <1>3, <1>5, <2>1, <2>2
  <2>4. QED  BY <1>3, <1>5, <2>3
<1>6. CASE before.cli.plugin = N!NoPlugin /\ NFound.v = Nothing
  <2>1. prior = N!NotOwned
    BY <1>1, <1>2, <1>6 DEF N!NotOwned
  <2>2. N!Aim.on = TRUE
    BY <1>3, <2>1
  <2>3. QED  BY <1>3, <1>6, <2>2
<1>7. QED  BY <1>4, <1>5, <1>6

\* What the property says of an installation and of enable and disable.
NInstallMeans ==
  /\ N!root.v = op.v /\ cli.market /\ cli.plugin = [v |-> op.v, on |-> N!root.on]
  /\ N!root.on = IF before.cli.plugin # N!NoPlugin THEN before.cli.plugin.on
                 ELSE before.place[N!Root].v # Nothing => before.place[N!Root].on
NSwitchMeans ==
  /\ N!root.v = before.place[N!Root].v /\ cli.plugin.v = before.cli.plugin.v
  /\ cli.plugin.on = (op.kind = "enable") /\ N!root.on = (op.kind = "enable")

\* The same as the property of the host says.
LEMMA NSuccessIs ==
  N!SuccessMeans <=> /\ outcome = "ok" /\ op.kind = "install" => NInstallMeans
                     /\ outcome = "ok" /\ op.kind \in NToggles => NSwitchMeans
                     /\ outcome = "missing" => N!root.v = Nothing /\ cli = N!Unregistered
BY DEF N!SuccessMeans, NInstallMeans, NSwitchMeans, NToggles

\* What an operation that succeeded did.
LEMMA NSuccessNext ==
  ASSUME NTyped, NStages, NStages', NPrior, NFlagged, NFiles, NRoot, NForth, N!SuccessMeans, NDoes
  PROVE  N!SuccessMeans'
<1>0. SUFFICES ASSUME outcome = "ok" /\ op.kind = "install" => NInstallMeans,
                      outcome = "ok" /\ op.kind \in NToggles => NSwitchMeans,
                      outcome = "missing" => N!root.v = Nothing /\ cli = N!Unregistered
               PROVE  /\ outcome' = "ok" /\ op'.kind = "install" => NInstallMeans'
                      /\ outcome' = "ok" /\ op'.kind \in NToggles => NSwitchMeans'
                      /\ outcome' = "missing" => N!root'.v = Nothing /\ cli' = N!Unregistered
  <2>1. N!SuccessMeans' <=> /\ outcome' = "ok" /\ op'.kind = "install" => NInstallMeans'
                            /\ outcome' = "ok" /\ op'.kind \in NToggles => NSwitchMeans'
                            /\ outcome' = "missing" => N!root'.v = Nothing /\ cli' = N!Unregistered
    BY DEF N!SuccessMeans, NInstallMeans, NSwitchMeans, NToggles
  <2>2. QED  BY <2>1, NSuccessIs
<1>1. CASE NCleanDoes
  <2>1. /\ step = "clean" /\ UNCHANGED <<place, op, before, cli>> /\ N!root' = N!root
        /\ op.kind = "install" \/ op.kind = "remove"
        /\ outcome' = "ok" => op.kind = "install"
        /\ outcome' = "missing" => op.kind = "remove"
    BY <1>1, NPlaces DEF NCleanDoes, NEndDoes, NStages, NExchanging, NMoves
  <2>2. op.kind = "install" => NInstallMeans'
    <3>1. SUFFICES ASSUME op.kind = "install"
                   PROVE  NInstallMeans
      BY <2>1 DEF NInstallMeans
    <3>2. N!root.v = op.v /\ N!root.on = N!Aim.on /\ cli = [market |-> TRUE, plugin |-> [v |-> op.v, on |-> N!root.on]]
      BY <2>1, <3>1, NEnabledKept DEF NRoot, NForth
    <3>3. cli.market /\ cli.plugin = [v |-> op.v, on |-> N!root.on]
      BY ONLY <3>2
    <3>4. N!root.on = IF before.cli.plugin # N!NoPlugin THEN before.cli.plugin.on
                      ELSE before.place[N!Root].v # Nothing => before.place[N!Root].on
      <4>1. CASE before.cli.plugin # N!NoPlugin
        BY <2>1, <3>1, <3>2, <4>1, NEnabledKept
      <4>2. CASE before.cli.plugin = N!NoPlugin /\ NFound.v # Nothing
        <5>1. N!root.on = before.place[N!Root].on /\ before.place[N!Root].v # Nothing
          BY <2>1, <3>1, <3>2, <4>2, NEnabledKept DEF NFound
        <5>2. before.place[N!Root].on \in BOOLEAN
          BY NPlaces, NTreesAre DEF NFound
        <5>3. QED  BY ONLY <4>2, <5>1, <5>2
      <4>3. CASE before.cli.plugin = N!NoPlugin /\ NFound.v = Nothing
        <5>1. N!root.on = TRUE /\ before.place[N!Root].v = Nothing
          BY <2>1, <3>1, <3>2, <4>3, NEnabledKept DEF NFound
        <5>2. QED  BY ONLY <4>3, <5>1
      <4>4. QED  BY <4>1, <4>2, <4>3
    <3>5. QED  BY <3>2, <3>3, <3>4 DEF NInstallMeans
  <2>3. op.kind = "remove" => N!root'.v = Nothing /\ cli' = N!Unregistered
    BY <2>1 DEF NRoot, NForth
  <2>4. QED  BY <2>1, <2>2, <2>3 DEF NToggles
<1>2. CASE NRenameDoes /\ step' = "leave"
  <2>1. /\ step = "rename" /\ outcome' = "ok" /\ UNCHANGED <<op, before, cli>>
        /\ place' = N!Here(NMarked(N!root, N!Aim.on))
    BY <1>2 DEF NRenameDoes, NEndDoes
  <2>2. /\ op.kind \in NToggles /\ N!root.v # Nothing /\ N!root.v = NFound.v
        /\ N!Aim.on = (op.kind = "enable") /\ N!Aim.on \in BOOLEAN /\ N!root \in NTrees
    BY <2>1, NThere, NAim, NPlaces DEF NSwitching, NStill
  <2>3. N!root'.v = N!root.v /\ N!root'.on = N!Aim.on
    <3>1. N!root' = NMarked(N!root, N!Aim.on)
      BY <2>1, NPlaces
    <3>2. \A on \in BOOLEAN : NMarked(N!root, on).v = N!root.v /\ NMarked(N!root, on).on = on
      BY <2>2, NTreesAre
    <3>3. NMarked(N!root, N!Aim.on).v = N!root.v /\ NMarked(N!root, N!Aim.on).on = N!Aim.on
      BY ONLY <2>2, <3>2
    <3>4. QED  BY ONLY <3>1, <3>3
  <2>4. cli.plugin.on = N!Aim.on /\ cli.plugin.v = before.cli.plugin.v
    BY <2>1, <2>2 DEF NForth, NWorking, NSwitching
  <2>5. /\ N!root'.v = before'.place[N!Root].v /\ cli'.plugin.v = before'.cli.plugin.v
        /\ cli'.plugin.on = (op'.kind = "enable") /\ N!root'.on = (op'.kind = "enable")
    BY <2>1, <2>2, <2>3, <2>4 DEF NFound
  <2>6. NSwitchMeans' /\ op'.kind # "install"
    BY <2>1, <2>2, <2>5 DEF NSwitchMeans, NToggles
  <2>7. QED  BY <2>1, <2>6
<1>3. CASE NCheckDoes
  <2>1. step = "check" /\ outcome = "running"
    BY <1>3 DEF NCheckDoes, NStages, NWorking
  <2>2. /\ outcome' # "ok" /\ UNCHANGED <<place, cli>> /\ N!root' = N!root
        /\ outcome' = "missing" => N!root.v = Nothing /\ cli = N!Unregistered
    BY <1>3, <2>1, NPlaces DEF NCheckDoes
  <2>3. QED  BY <2>2
<1>4. CASE NStartDoes \/ NRolledBackDoes \/ NKillDoes \/ NUserSwitchesDoes
  <2>1. outcome' \notin {"ok", "missing"}
    BY <1>4 DEF NStartDoes, NRolledBackDoes, NEndDoes, NKillDoes, NUserSwitchesDoes
  <2>2. QED  BY <2>1
<1>5. CASE NClearDoes \/ NLeaveDoes
  <2>1. UNCHANGED <<op, before, place, cli>> /\ N!root' = N!root /\ outcome' \in {outcome, "masked"}
    BY <1>5, NPlaces DEF NClearDoes, NLeaveDoes
  <2>2. (NInstallMeans => NInstallMeans') /\ (NSwitchMeans => NSwitchMeans')
    BY <2>1 DEF NInstallMeans, NSwitchMeans
  <2>3. QED  BY <1>0, <2>1, <2>2
<1>6. CASE NEditDoes
  <2>1. UNCHANGED <<op, before, outcome, cli>> /\ N!root'.v = N!root.v /\ N!root'.on = N!root.on
    BY <1>6, NEditSame
  <2>2. (NInstallMeans => NInstallMeans') /\ (NSwitchMeans => NSwitchMeans')
    BY <2>1 DEF NInstallMeans, NSwitchMeans
  <2>3. QED  BY <1>0, <2>1, <2>2
<1>7. CASE step' \in NWorking
  <2>1. outcome' = "running"
    BY <1>7 DEF NStages
  <2>2. QED  BY <2>1
<1>8. QED
  BY <1>1, <1>2, <1>3, <1>4, <1>5, <1>6, <1>7, NRunsOn

-----------------------------------------------------------------------------
(* The native host. The invariant. *)

\* What holds of the native host at first.
LEMMA NInitially == N!Init => NInv
<1>1. SUFFICES ASSUME N!Init
               PROVE  NInv
  OBVIOUS
<1>. USE <1>1, ManagedAssumption DEF N!Init
<1>2. N!Here(N!NoTree) \in NRooted /\ N!NoTree.v = Nothing /\ N!Here(N!NoTree)[N!Root] = N!NoTree
  BY NRootedIs, NTreesAre
<1>3. N!Unregistered \in NRegistrations
  BY NRegistrationsAre DEF N!Unregistered, NRegistrations
<1>4. NTyped
  <2>1. [place |-> N!Here(N!NoTree), cli |-> N!Unregistered] \in [place : NRooted, cli : NRegistrations]
    BY <1>2, <1>3
  <2>2. N!NoChange \in NFlags
    BY DEF N!NoChange, NFlags
  <2>3. 0 \in 0 .. MaxOps /\ 0 \in 0 .. MaxFaults /\ 0 \in 0 .. MaxEdits
    OBVIOUS
  <2>4. N!NotOwned \in Marks
    BY DEF N!NotOwned, Marks
  <2>5. QED  BY <1>2, <1>3, <2>1, <2>2, <2>3, <2>4 DEF NTyped, NSteps, Outcomes
<1>5. NStages /\ NPrior /\ NFlagged /\ NFiles
  BY DEF NStages, NPrior, NFlagged, NFiles, NWorking, NInstalling, NExchanging, NSwitching, NRestoring, NRebuilding
<1>6. NRoot /\ NForth /\ NBack
  BY DEF NRoot, NForth, NBack, NWorking, NInstalling, NExchanging, NSwitching, NRestoring, NRebuilding
<1>7. NEdits /\ NLeft
  BY DEF NEdits, NLeft
<1>8. N!PreimageHeld
  <2>1. NHeld
    BY <1>2 DEF NHeld, NFound
  <2>2. QED  BY <1>4, <2>1, NHeldIs
<1>9. N!FailureRestores /\ N!SuccessMeans
  BY DEF N!FailureRestores, N!SuccessMeans
<1>10. QED  BY <1>4, <1>5, <1>6, <1>7, <1>8, <1>9 DEF NInv

\* Every step of the native host keeps it.
LEMMA NInvNext ==
  ASSUME NInv, N!Next
  PROVE  NInv'
<1>. USE DEF NInv
<1>1. NDoes
  BY NStepDoes
<1>2. NTyped'
  BY <1>1, NCounted, NTypedNext
<1>3. NStages' /\ NPrior'
  BY <1>1, NStagesNext, NPriorNext
<1>4. NFlagged' /\ NFiles'
  BY <1>1, NFlaggedNext, NFilesNext
<1>5. NRoot' /\ NEdits'
  BY <1>1, NRootNext, NEditsNext
<1>6. NForth' /\ NBack'
  BY <1>1, NForthNext, NBackNext
<1>7. NLeft'
  BY <1>1, NLeftNext
<1>8. N!PreimageHeld'
  BY <1>1, <1>2, <1>4, NPreimageNext
<1>9. N!FailureRestores' /\ N!SuccessMeans'
  BY <1>1, <1>3, <1>7, NFailureNext, NSuccessNext
<1>10. QED  BY <1>2, <1>3, <1>4, <1>5, <1>6, <1>7, <1>8, <1>9

\* And so does a step that changes nothing of it.
LEMMA NStutters ==
  ASSUME NInv, UNCHANGED N!vars
  PROVE  NInv'
<1>. USE DEF N!vars, N!managed
<1>1. UNCHANGED <<place, backup, lock, step, op, prior, before, tx, outcome, lost, cli, ops, faults, edits>>
  OBVIOUS
<1>2. /\ N!root' = N!root /\ NFound' = NFound /\ NBackup' = NBackup /\ N!Aim' = N!Aim /\ N!Registers' = N!Registers
      /\ NRegistered' = NRegistered /\ (NStill(N!root) <=> NStill(N!root)') /\ (NStill(NBackup) <=> NStill(NBackup)')
  BY <1>1 DEF N!root, NFound, NBackup, N!Aim, N!Registers, NRegistered, NStill
<1>3. NTyped' /\ NStages' /\ NPrior' /\ NFlagged'
  BY <1>1, <1>2 DEF NInv, NTyped, NStages, NPrior, NFlagged
<1>4. NFiles' /\ NRoot' /\ NEdits'
  BY <1>1, <1>2 DEF NInv, NFiles, NRoot, NEdits
<1>5. NForth'
  BY <1>1, <1>2 DEF NInv, NForth
<1>6. NBack' /\ NLeft'
  BY <1>1, <1>2 DEF NInv, NBack, NLeft
<1>7. N!PreimageHeld' /\ N!FailureRestores' /\ N!SuccessMeans'
  BY <1>1, <1>2 DEF NInv, N!PreimageHeld, N!FailureRestores, N!SuccessMeans
<1>8. QED  BY <1>3, <1>4, <1>5, <1>6, <1>7 DEF NInv

-----------------------------------------------------------------------------
(***************************************************************************)
(* Both.                                                                   *)
(***************************************************************************)
\* What holds in every state: of each host, what is said of it above.
ManagedInv ==
  \/ host = "claude" /\ NInv
  \/ host = "antigravity" /\ MInv

\* The types: of the native host, whose registration is one the CLI could list, and of
\* the modular host.
ManagedTyped ==
  \/ host = "claude" /\ NTyped
  \/ host = "antigravity" /\ MTyped

\* It holds at first and every step keeps it, whatever fails, dies or is edited.
THEOREM Invariance == Spec => []ManagedInv
<1>1. Init => ManagedInv
  BY NInitially, MInitially DEF Init, ManagedInv
<1>2. ManagedInv /\ [Next]_<<host, N!vars>> => ManagedInv'
  <2>1. SUFFICES ASSUME ManagedInv, [Next]_<<host, N!vars>>
                 PROVE  ManagedInv'
    OBVIOUS
  <2>2. CASE Next /\ host = "claude"
    <3>1. NInv /\ N!Next /\ host' = host
      BY <2>1, <2>2 DEF ManagedInv, Next
    <3>2. NInv'
      BY <3>1, NInvNext
    <3>3. QED  BY <2>2, <3>1, <3>2 DEF ManagedInv
  <2>3. CASE Next /\ host # "claude"
    <3>1. MInv /\ M!Next /\ host' = host /\ host = "antigravity"
      BY <2>1, <2>3 DEF ManagedInv, Next
    <3>2. MInv'
      BY <3>1, MInvNext
    <3>3. QED  BY <3>1, <3>2 DEF ManagedInv
  <2>4. CASE UNCHANGED <<host, N!vars>>
    <3>1. CASE host = "claude"
      <4>1. NInv'
        BY <2>1, <2>4, <3>1, NStutters DEF ManagedInv
      <4>2. QED  BY <2>4, <3>1, <4>1 DEF ManagedInv
    <3>2. CASE host = "antigravity"
      <4>1. UNCHANGED M!managed
        BY <2>4 DEF N!vars, N!managed, M!managed
      <4>2. MInv'
        BY <2>1, <3>2, <4>1, MStutters DEF ManagedInv
      <4>3. QED  BY <2>4, <3>2, <4>2 DEF ManagedInv
    <3>3. QED  BY <2>1, <3>1, <3>2 DEF ManagedInv
  <2>5. QED  BY <2>1, <2>2, <2>3, <2>4
<1>3. QED  BY <1>1, <1>2, PTL DEF Spec

\* The variables of the host that is managed keep to their types.
THEOREM Managed_Types == Spec => []ManagedTyped
<1>1. ManagedInv => ManagedTyped
  BY DEF ManagedInv, ManagedTyped, NInv, MInv
<1>2. QED  BY <1>1, Invariance, PTL

\* What an operation found is in its place or in a backup, as many of its files as there
\* were, until it has committed its change: no failure, no kill, wherever it strikes, and
\* no edit destroys it.
THEOREM Preimage_Held == Spec => []PreimageHeld
<1>1. ManagedInv => PreimageHeld
  BY DEF ManagedInv, PreimageHeld, NInv, MInv
<1>2. QED  BY <1>1, Invariance, PTL

\* No update, removal or rollback deletes a tree with an edit that a check could find, and
\* nothing with one is overwritten but a file the user saved where a rule had been moved.
THEOREM Edits_Held == Spec => []EditsHeld
<1>1. NInv => N!EditsHeld
  BY DEF NInv, NEdits, N!EditsHeld
<1>2. MInv => M!EditsHeld
  BY DEF MInv, MEdits
<1>3. ManagedInv => EditsHeld
  BY <1>1, <1>2 DEF ManagedInv, EditsHeld
<1>4. QED  BY <1>3, Invariance, PTL

\* An operation that failed, with whatever error, has left files, registration and enabled
\* state as it found them, unless its rollback was incomplete or its change committed.
THEOREM Failure_Restores == Spec => []FailureRestores
<1>1. ManagedInv => FailureRestores
  BY DEF ManagedInv, FailureRestores, NInv, MInv
<1>2. QED  BY <1>1, Invariance, PTL

\* One that succeeded has done what it was asked for, in the files and in the
\* registration, and an update has kept the enabled state.
THEOREM Success_Means == Spec => []SuccessMeans
<1>1. ManagedInv => SuccessMeans
  BY DEF ManagedInv, SuccessMeans, NInv, MInv
<1>2. QED  BY <1>1, Invariance, PTL

=============================================================================

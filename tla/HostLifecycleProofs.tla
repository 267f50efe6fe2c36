----------------------- MODULE HostLifecycleProofs -----------------------
(***************************************************************************)
(* What is proved of the installer's operations on one host.               *)
(***************************************************************************)
EXTENDS HostLifecycle, TLAPS

-----------------------------------------------------------------------------
(***************************************************************************)
(* The types, and the steps an operation may be at.                        *)
(***************************************************************************)
Hosts == [market : BOOLEAN, plugin : Versions \cup {Nothing}]
Desires == [installed : BOOLEAN, version : Versions \cup {Nothing}, auto : BOOLEAN]
Agents == {"absent", "idle", "loaded"}
Flags == [removed : BOOLEAN, backed : BOOLEAN, active : BOOLEAN, restored : BOOLEAN, touched : BOOLEAN,
          written : BOOLEAN, agentOK : BOOLEAN, complete : BOOLEAN, clean : BOOLEAN]

Consistent(d) == (d.auto => d.installed) /\ (d.installed <=> d.version # Nothing)

Places == [root : Trees, staging : Trees, backup : Trees]
Ops == [kind : Kinds \cup {"none"}, version : Versions \cup {Nothing}, ok : BOOLEAN]
Befores == [root : Trees, host : Hosts, desired : Desires, agent : Agents]

Shaped ==
  /\ files \in Places /\ residue \subseteq Trees \ {NoTree}
  /\ host \in Hosts /\ desired \in Desires /\ agent \in Agents
  /\ op \in Ops /\ before \in Befores /\ tx \in Flags
  /\ excused \in BOOLEAN /\ hostFailed \in BOOLEAN

Numbered == faults \in 0..MaxFaults /\ drifts \in 0..MaxDrift /\ ops \in 0..MaxOps

Registering == {"preflight", "unplug", "unlist", "aside"}
Activating == {"promote", "list", "plug", "record"}
RollingBack == {"forget plugin", "forget market", "discard", "restore", "reregister", "clean up"}
Removing == {"remove agent", "remove record", "remove files"}
Recovering == {"recover files", "recover registration", "recover agent", "recover record"}
Purging == {"purge root", "purge residue", "purge agent", "purge record", "purged"}
Ending == {"succeeded", "failed", "done"}

\* An operation goes through the steps of its kind.
Fits ==
  /\ op.kind \in Installs =>
       step \in Registering \cup Activating \cup RollingBack \cup Ending \cup {"stage", "commit", "note check"}
  /\ op.kind = "remove" => step \in Registering \cup Removing \cup Recovering \cup Ending
  /\ op.kind = "purge" => step \in {"unplug", "unlist"} \cup Purging \cup Ending
  /\ op.kind = "enable" => step \in {"preflight", "enable record", "enable agent", "enable undo"} \cup Ending
  /\ op.kind = "disable" => step \in {"disable agent", "disable record"} \cup Ending
  /\ op.kind = "none" => step = "idle"
  /\ step = "note check" => op.kind = "scheduled"

-----------------------------------------------------------------------------
(***************************************************************************)
(* What each step does, field by field.                                    *)
(***************************************************************************)
KeepFlags == /\ tx'.removed = tx.removed /\ tx'.backed = tx.backed /\ tx'.active = tx.active
             /\ tx'.restored = tx.restored /\ tx'.touched = tx.touched /\ tx'.written = tx.written
             /\ tx'.agentOK = tx.agentOK
KeepEnd == tx'.complete = tx.complete /\ tx'.clean = tx.clean
ClearFlags == /\ ~tx'.removed /\ ~tx'.backed /\ ~tx'.active /\ ~tx'.restored /\ ~tx'.touched /\ ~tx'.written
              /\ tx'.agentOK /\ tx'.complete /\ tx'.clean
NotClean == KeepFlags /\ tx'.complete = tx.complete /\ ~tx'.clean

BeginDoes(k, v) ==
  /\ step = "idle"
  /\ k = "scheduled" => desired.auto
  /\ op'.kind = k /\ op'.version = v /\ ~op'.ok
  /\ before'.root = files.root /\ before'.host = host /\ before'.desired = desired /\ before'.agent = agent
  /\ ClearFlags
  /\ k = "purge" => step' = "unplug"
  /\ k = "disable" => step' = "disable agent"
  /\ k \notin {"purge", "disable"} => step' = "preflight"
  /\ UNCHANGED <<files, residue, host, desired, agent, excused, hostFailed>>

PreflightDoes ==
  /\ step = "preflight"
  /\ UNCHANGED <<op, before, files, residue, host, desired, agent, tx, excused>>
  /\ hostFailed => hostFailed'
  /\ \/ step' = "failed"
     \/ /\ ~Refused
        /\ AlreadyCurrent => step' = "note check"
        /\ ~AlreadyCurrent /\ op.kind = "remove" => step' = "unplug"
        /\ ~AlreadyCurrent /\ op.kind = "enable" => step' = "enable record"
        /\ ~AlreadyCurrent /\ op.kind \notin {"remove", "enable"} => step' = "stage"

StageDoes ==
  /\ step = "stage"
  /\ UNCHANGED <<op, before, residue, host, desired, agent, tx, excused, hostFailed>>
  /\ files'.root = files.root /\ files'.backup = files.backup
  /\ \/ step' = "unplug" /\ files'.staging = Whole(op.version)
     \/ step' = "failed" /\ UNCHANGED files

UnplugDoes ==
  /\ step = "unplug"
  /\ UNCHANGED <<op, before, files, residue, desired, agent, excused>>
  /\ tx'.removed = before.host.market
  /\ tx'.backed = tx.backed /\ tx'.active = tx.active /\ tx'.restored = tx.restored
  /\ tx'.touched = tx.touched /\ tx'.written = tx.written /\ tx'.agentOK = tx.agentOK
  /\ host'.market = host.market
  /\ \/ /\ step' = "unlist" /\ UNCHANGED hostFailed /\ tx'.complete /\ tx'.clean
        /\ \/ PluginToRemove = Nothing /\ UNCHANGED host
           \/ PluginToRemove # Nothing /\ host'.plugin = Nothing
     \/ /\ step' = Failure /\ hostFailed'
        /\ tx'.complete <=> op.kind # "purge"
        /\ tx'.clean <=> op.kind # "purge"
        /\ host'.plugin = host.plugin \/ host'.plugin = Nothing

UnlistDoes ==
  /\ step = "unlist"
  /\ UNCHANGED <<op, before, files, residue, desired, agent, excused>>
  /\ tx'.removed = before.host.market
  /\ tx'.backed = tx.backed /\ tx'.active = tx.active /\ tx'.restored = tx.restored
  /\ tx'.touched = tx.touched /\ tx'.written = tx.written /\ tx'.agentOK = tx.agentOK
  /\ host'.plugin = host.plugin
  /\ \/ /\ op.kind = "purge" => step' = "purge root"
        /\ op.kind # "purge" => step' = "aside"
        /\ UNCHANGED hostFailed /\ tx'.complete /\ tx'.clean
        /\ \/ before.host.market /\ ~host'.market
           \/ ~before.host.market /\ UNCHANGED host
     \/ /\ before.host.market /\ step' = Failure /\ hostFailed'
        /\ tx'.complete <=> op.kind # "purge"
        /\ tx'.clean <=> op.kind # "purge"
        /\ host'.market = host.market \/ ~host'.market

AsideDoes ==
  /\ step = "aside"
  /\ UNCHANGED <<op, before, residue, host, desired, agent, excused, hostFailed>>
  /\ tx'.removed = tx.removed /\ tx'.active = tx.active /\ tx'.restored = tx.restored
  /\ tx'.touched = tx.touched /\ tx'.written = tx.written /\ tx'.agentOK = tx.agentOK
  /\ KeepEnd
  /\ files'.staging = files.staging
  /\ \/ /\ op.kind = "remove" => step' = "remove agent"
        /\ op.kind # "remove" => step' = "promote"
        /\ \/ files.root = NoTree /\ UNCHANGED files /\ tx'.backed = tx.backed
           \/ files.root # NoTree /\ files'.root = NoTree /\ files'.backup = files.root /\ tx'.backed
     \/ step' = Failure /\ files.root # NoTree /\ UNCHANGED files /\ ~tx'.backed

PromoteDoes ==
  /\ step = "promote"
  /\ UNCHANGED <<op, before, residue, host, desired, agent, excused, hostFailed>>
  /\ tx'.removed = tx.removed /\ tx'.backed = tx.backed /\ tx'.restored = tx.restored
  /\ tx'.touched = tx.touched /\ tx'.written = tx.written /\ tx'.agentOK = tx.agentOK
  /\ KeepEnd
  /\ files'.backup = files.backup
  /\ \/ step' = "list" /\ files'.root = files.staging /\ files'.staging = NoTree
        /\ (files.staging # NoTree => tx'.active)
     \/ step' = Failure /\ UNCHANGED files /\ ~tx'.active

ListDoes ==
  /\ step = "list"
  /\ UNCHANGED <<op, before, files, residue, desired, agent, tx, excused>>
  /\ host'.plugin = host.plugin
  /\ \/ step' = "plug" /\ host'.market /\ UNCHANGED hostFailed
     \/ step' = Failure /\ hostFailed' /\ (host'.market \/ UNCHANGED host)

PlugDoes ==
  /\ step = "plug"
  /\ UNCHANGED <<op, before, files, residue, desired, agent, tx, excused>>
  /\ host'.market = host.market
  /\ \/ step' = "record" /\ host'.plugin = files.root.version /\ UNCHANGED hostFailed
     \/ step' = Failure /\ hostFailed' /\ (host'.plugin = files.root.version \/ UNCHANGED host)

RecordDoes ==
  /\ step = "record"
  /\ UNCHANGED <<op, before, files, residue, host, agent, tx, hostFailed>>
  /\ \/ /\ step' = "commit" /\ ~excused'
        /\ desired'.installed /\ desired'.version = op.version /\ desired'.auto = desired.auto
     \/ step' = Failure /\ UNCHANGED <<desired, excused>>

CommitDoes ==
  /\ step = "commit"
  /\ UNCHANGED <<op, before, residue, host, desired, agent, tx, excused, hostFailed>>
  /\ files'.root = files.root /\ files'.staging = files.staging
  /\ files'.backup \in Rest(files.backup)
  /\ op.kind = "scheduled" => step' = "note check"
  /\ op.kind # "scheduled" => step' = "succeeded"

NoteCheckDoes ==
  /\ step = "note check" /\ step' \in {"succeeded", "failed"}
  /\ UNCHANGED <<op, before, files, residue, host, desired, agent, tx, excused, hostFailed>>

ForgetPluginDoes ==
  /\ step = "forget plugin"
  /\ UNCHANGED <<op, before, files, residue, desired, agent, excused>>
  /\ host'.market = host.market
  /\ \/ ~host.market /\ step' = "discard" /\ UNCHANGED <<host, tx, hostFailed>>
     \/ host.market /\ step' = "forget market" /\ host'.plugin = Nothing /\ UNCHANGED <<tx, hostFailed>>
     \/ /\ host.market /\ step' \in {"discard", "forget market"} /\ UNCHANGED host
        /\ hostFailed' /\ NotClean

ForgetMarketDoes ==
  /\ step = "forget market" /\ step' = "discard"
  /\ UNCHANGED <<op, before, files, residue, desired, agent, excused>>
  /\ host'.plugin = host.plugin
  /\ \/ ~host'.market /\ UNCHANGED <<tx, hostFailed>>
     \/ UNCHANGED host /\ hostFailed' /\ NotClean

DiscardDoes ==
  /\ step = "discard" /\ step' = "restore"
  /\ UNCHANGED <<op, before, residue, host, desired, agent, excused, hostFailed>>
  /\ files'.staging = files.staging /\ files'.backup = files.backup
  /\ \/ ~tx.active /\ UNCHANGED <<files, tx>>
     \/ tx.active /\ files'.root = NoTree /\ UNCHANGED tx
     \/ tx.active /\ files'.root \in Rest(files.root) /\ NotClean

RestoreDoes ==
  /\ step = "restore" /\ step' = "reregister"
  /\ UNCHANGED <<op, before, residue, host, desired, agent, excused, hostFailed>>
  /\ files'.staging = files.staging
  /\ \/ ~tx.backed /\ UNCHANGED <<files, tx>>
     \/ /\ tx.backed /\ files.root = NoTree /\ files'.root = files.backup /\ files'.backup = NoTree
        /\ tx'.removed = tx.removed /\ tx'.backed = tx.backed /\ tx'.active = tx.active /\ tx'.restored
        /\ tx'.touched = tx.touched /\ tx'.written = tx.written /\ tx'.agentOK = tx.agentOK /\ KeepEnd
     \/ tx.backed /\ UNCHANGED files /\ NotClean

ReregisterDoes ==
  /\ step = "reregister" /\ step' = "clean up"
  /\ UNCHANGED <<op, before, files, residue, desired, agent, excused>>
  /\ \/ ~(tx.removed /\ (tx.restored \/ ~tx.backed)) /\ UNCHANGED <<host, tx, hostFailed>>
     \/ tx.removed /\ (tx.restored \/ ~tx.backed) /\ host' = Registered /\ UNCHANGED <<tx, hostFailed>>
     \/ /\ tx.removed /\ (tx.restored \/ ~tx.backed) /\ hostFailed' /\ NotClean
        /\ \/ UNCHANGED host
           \/ host'.market /\ host'.plugin = host.plugin
           \/ host' = Registered

CleanUpDoes ==
  /\ step = "clean up" /\ step' = "failed"
  /\ UNCHANGED <<op, before, residue, host, desired, agent, tx, excused, hostFailed>>
  /\ files'.root = files.root /\ files'.backup = files.backup
  /\ files'.staging \in Rest(files.staging)

RemoveAgentDoes ==
  /\ step = "remove agent"
  /\ UNCHANGED <<op, before, files, residue, host, desired, excused, hostFailed>>
  /\ tx'.removed = tx.removed /\ tx'.backed = tx.backed /\ tx'.active = tx.active /\ tx'.restored = tx.restored
  /\ tx'.touched /\ tx'.written = tx.written /\ tx'.agentOK = tx.agentOK /\ KeepEnd
  /\ \/ step' = "remove record" /\ agent' = "absent"
     \/ step' = Failure /\ agent' \in {agent, "absent", "idle"}

RemoveRecordDoes ==
  /\ step = "remove record"
  /\ UNCHANGED <<op, before, files, residue, host, agent, excused, hostFailed>>
  /\ tx'.removed = tx.removed /\ tx'.backed = tx.backed /\ tx'.active = tx.active /\ tx'.restored = tx.restored
  /\ tx'.touched = tx.touched /\ tx'.agentOK = tx.agentOK /\ KeepEnd
  /\ \/ step' = "remove files" /\ desired' = NotInstalled /\ tx'.written
     \/ step' = Failure /\ UNCHANGED desired /\ ~tx'.written

RemoveFilesDoes ==
  /\ step = "remove files"
  /\ UNCHANGED <<op, before, residue, host, desired, agent, tx, excused, hostFailed>>
  /\ files'.root = files.root /\ files'.staging = files.staging
  /\ \/ ~tx.backed /\ UNCHANGED files /\ step' = "succeeded"
     \/ tx.backed /\ Verified(files.backup) /\ files'.backup = NoTree /\ step' = "succeeded"
     \/ tx.backed /\ ~Verified(files.backup) /\ UNCHANGED files /\ step' = Failure
     \/ tx.backed /\ Verified(files.backup) /\ files'.backup \in Rest(files.backup) /\ step' = Failure

RecoverFilesDoes ==
  /\ step = "recover files" /\ step' = "recover registration"
  /\ UNCHANGED <<op, before, residue, host, desired, agent, excused, hostFailed>>
  /\ files'.staging = files.staging
  /\ tx'.removed = tx.removed /\ tx'.active = tx.active
  /\ tx'.touched = tx.touched /\ tx'.written = tx.written /\ tx'.agentOK = tx.agentOK /\ tx'.clean = tx.clean
  /\ \/ /\ before.root = NoTree \/ (~tx.backed /\ Verified(files.root))
        /\ UNCHANGED files /\ tx'.restored /\ tx'.backed = tx.backed /\ tx'.complete = tx.complete
     \/ /\ before.root # NoTree /\ tx.backed /\ Verified(files.backup)
        /\ files'.root = files.backup /\ files'.backup = NoTree
        /\ tx'.restored /\ ~tx'.backed /\ tx'.complete = tx.complete
     \/ /\ before.root # NoTree /\ UNCHANGED files
        /\ ~tx'.complete /\ tx'.backed = tx.backed /\ tx'.restored = tx.restored

RecoverRegistrationDoes ==
  /\ step = "recover registration" /\ step' = "recover agent"
  /\ UNCHANGED <<op, before, files, residue, desired, agent, excused>>
  /\ KeepFlags /\ tx'.clean = tx.clean
  /\ \/ ~tx.removed /\ UNCHANGED <<host, hostFailed>> /\ KeepEnd
     \/ tx.removed /\ tx.restored /\ host' = Registered /\ UNCHANGED hostFailed /\ KeepEnd
     \/ /\ tx.removed /\ tx.restored /\ hostFailed' /\ ~tx'.complete
        /\ \/ UNCHANGED host
           \/ host'.market /\ host'.plugin = host.plugin
           \/ host' = Registered
     \/ tx.removed /\ ~tx.restored /\ ~tx'.complete /\ UNCHANGED <<host, hostFailed>>

RecoverAgentDoes ==
  /\ step = "recover agent" /\ step' = "recover record"
  /\ UNCHANGED <<op, before, files, residue, host, desired, excused, hostFailed>>
  /\ tx'.removed = tx.removed /\ tx'.backed = tx.backed /\ tx'.active = tx.active /\ tx'.restored = tx.restored
  /\ tx'.touched = tx.touched /\ tx'.written = tx.written /\ KeepEnd
  /\ \/ ~tx.touched /\ UNCHANGED agent /\ tx'.agentOK = tx.agentOK
     \/ tx.touched /\ Recovered.auto /\ agent' = "loaded" /\ tx'.agentOK = tx.agentOK
     \/ tx.touched /\ ~Recovered.auto /\ agent' = "absent" /\ tx'.agentOK = tx.agentOK
     \/ tx.touched /\ agent' \in {agent, "absent", "idle"} /\ ~tx'.agentOK

RecoverRecordDoes ==
  /\ step = "recover record" /\ step' = "failed"
  /\ UNCHANGED <<op, before, files, residue, host, agent, excused, hostFailed>>
  /\ KeepFlags /\ tx'.complete = tx.complete
  /\ \/ ~tx.written /\ tx.complete /\ tx.agentOK /\ UNCHANGED desired /\ tx'.clean = tx.clean
     \/ desired' = Recovered /\ tx'.clean = (tx.complete /\ tx.agentOK)
     \/ UNCHANGED desired /\ ~tx'.clean

PurgeRootDoes ==
  /\ step = "purge root" /\ step' = "purge residue"
  /\ UNCHANGED <<op, before, residue, host, desired, agent, hostFailed>>
  /\ files'.staging = files.staging
  /\ \/ files.root = NoTree /\ UNCHANGED <<files, tx, excused>>
     \/ /\ Verified(files.root) /\ files'.root = NoTree /\ files'.backup = files.backup
        /\ excused' /\ UNCHANGED tx
     \/ UNCHANGED files /\ excused' /\ KeepFlags /\ ~tx'.complete /\ ~tx'.clean
     \/ /\ Verified(files.root) /\ files'.root = NoTree /\ files'.backup \in Rest(files.root)
        /\ excused' /\ KeepFlags /\ ~tx'.complete /\ ~tx'.clean

PurgeResidueDoes ==
  /\ step = "purge residue" /\ step' = "purge agent"
  /\ UNCHANGED <<op, before, host, desired, agent, hostFailed>>
  /\ files'.root = files.root /\ files'.staging = files.staging /\ files'.backup = NoTree
  /\ residue' \subseteq Trees \ {NoTree}
  /\ \A t \in residue \cup {files.backup} : Verified(t) \/ t = NoTree \/ t \in residue'
  /\ excused' <=> excused \/ residue # {}
  /\ \/ residue' = {} /\ UNCHANGED tx
     \/ NotClean

PurgeAgentDoes ==
  /\ step = "purge agent"
  /\ UNCHANGED <<op, before, files, residue, host, desired, excused, hostFailed>>
  /\ \/ ~tx.complete /\ step' = "purged" /\ UNCHANGED <<agent, tx>>
     \/ tx.complete /\ step' = "purge record" /\ agent' = "absent" /\ UNCHANGED tx
     \/ tx.complete /\ step' = "purged" /\ agent' \in {agent, "absent", "idle"} /\ NotClean

PurgeRecordDoes ==
  /\ step = "purge record" /\ step' = "purged"
  /\ UNCHANGED <<op, before, files, residue, host, agent, excused, hostFailed>>
  /\ \/ desired' = NotInstalled /\ UNCHANGED tx
     \/ UNCHANGED desired /\ NotClean

PurgeEndsDoes ==
  /\ step = "purged"
  /\ tx.clean => step' = "succeeded"
  /\ ~tx.clean => step' = "failed"
  /\ UNCHANGED <<op, before, files, residue, host, desired, agent, tx, excused, hostFailed>>

EnableRecordDoes ==
  /\ step = "enable record"
  /\ UNCHANGED <<op, before, files, residue, host, agent, tx, hostFailed>>
  /\ \/ /\ step' = "enable agent" /\ desired'.installed /\ desired'.auto
        /\ desired.version = Nothing => desired'.version = Installed(before.host)
        /\ desired.version # Nothing => desired'.version = desired.version
        /\ excused' <=> excused \/ (desired.version = Nothing /\ hostFailed)
     \/ step' = Failure /\ UNCHANGED <<desired, excused>>

EnableAgentDoes ==
  /\ step = "enable agent"
  /\ UNCHANGED <<op, before, files, residue, host, desired, tx, excused, hostFailed>>
  /\ \/ step' = "succeeded" /\ agent' = "loaded"
     \/ step' = "enable undo" /\ agent' \in {agent, "absent", "idle"}

EnableUndoDoes ==
  /\ step = "enable undo" /\ step' = "failed"
  /\ UNCHANGED <<op, before, files, residue, host, agent, excused, hostFailed>>
  /\ \/ desired' = before.desired /\ UNCHANGED tx
     \/ UNCHANGED desired /\ NotClean

DisableAgentDoes ==
  /\ step = "disable agent"
  /\ UNCHANGED <<op, before, files, residue, host, desired, tx, excused, hostFailed>>
  /\ \/ step' = "disable record" /\ agent' = "absent"
     \/ step' = "failed" /\ agent' \in {agent, "absent", "idle"}

DisableRecordDoes ==
  /\ step = "disable record"
  /\ UNCHANGED <<op, before, files, residue, host, agent, tx, excused, hostFailed>>
  /\ \/ /\ step' = "succeeded" /\ ~desired'.auto
        /\ desired'.installed = desired.installed /\ desired'.version = desired.version
     \/ step' = Failure /\ UNCHANGED desired

EndDoes ==
  /\ step \in {"succeeded", "failed"} /\ step' = "done"
  /\ op'.kind = op.kind /\ op'.version = op.version /\ (op'.ok <=> step = "succeeded")
  /\ files'.root = files.root /\ files'.staging = NoTree /\ files'.backup = NoTree
  /\ residue' = (residue \cup {files.staging, files.backup}) \ {NoTree}
  /\ UNCHANGED <<before, host, desired, agent, tx, excused, hostFailed>>

ReturnDoes ==
  /\ step = "done" /\ step' = "idle"
  /\ op'.kind = "none" /\ ClearFlags /\ op' = NoOp /\ before' = NotBegun
  /\ UNCHANGED <<files, residue, host, desired, agent, excused, hostFailed>>

CrashDoes ==
  /\ step \notin {"idle", "done"} /\ step' = "idle"
  /\ op'.kind = "none" /\ ClearFlags /\ op' = NoOp /\ before' = NotBegun
  /\ HalfDone \/ Left(files.root, {files.staging, files.backup})
  /\ agent' \in {agent, "idle"}
  /\ excused' <=> excused \/ step \in {"purge root", "purge residue"}
  /\ UNCHANGED <<host, desired, hostFailed>>

DriftDoes ==
  /\ files.root.kind = "whole" /\ files'.root.kind = "altered" /\ files'.root.version = files.root.version
  /\ files'.staging = files.staging /\ files'.backup = files.backup
  /\ UNCHANGED <<residue, host, desired, agent, step, op, before, tx, excused, hostFailed>>

-----------------------------------------------------------------------------
\* What is left of a tree is of the same version.
LEMMA RestTyped ==
  ASSUME NEW t \in Trees, NEW u \in Rest(t)
  PROVE  /\ u \in Trees
         /\ u = NoTree \/ (t # NoTree /\ u.version = t.version /\ u.kind \in {t.kind, "broken", "bare"})
<1>1. CASE u = NoTree \/ u = t
  BY <1>1 DEF Rest, Trees, NoTree
<1>2. CASE t # NoTree /\ u \in {[t EXCEPT !.kind = k] : k \in {"broken", "bare"}}
  <2>1. PICK k \in {"broken", "bare"} : u = [t EXCEPT !.kind = k]
    BY <1>2
  <2>2. t \in [version : Versions, kind : {"whole", "altered", "broken", "bare"}]
    BY <1>2 DEF Trees
  <2>3. QED  BY <1>2, <2>1, <2>2 DEF Trees
<1>3. QED  BY <1>1, <1>2 DEF Rest

\* Nothing may be left of it.
LEMMA NothingLeft ==
  \A t : NoTree \in Rest(t)
BY DEF Rest

\* Where the failure of a step leads.
LEMMA FailureIs ==
  ASSUME op.kind \in Kinds \cup {"none"}
  PROVE  /\ op.kind \in Installs => Failure = "forget plugin"
         /\ op.kind = "remove" => Failure = "recover files"
         /\ op.kind = "purge" => Failure = "purge root"
         /\ op.kind \in {"enable", "disable", "none"} => Failure = "failed"
<1>1. ASSUME op.kind \in Installs
      PROVE  Failure = "forget plugin"
  BY <1>1 DEF Failure, Installs
<1>2. ASSUME op.kind = "remove"
      PROVE  Failure = "recover files"
  BY <1>2 DEF Failure, Installs
<1>3. ASSUME op.kind = "purge"
      PROVE  Failure = "purge root"
  BY <1>3 DEF Failure, Installs
<1>4. ASSUME op.kind \in {"enable", "disable", "none"}
      PROVE  Failure = "failed"
  BY <1>4 DEF Failure, Installs
<1>5. QED  BY <1>1, <1>2, <1>3, <1>4

\* It never leads on.
LEMMA FailureElsewhere ==
  ASSUME Shaped
  PROVE  Failure \in {"forget plugin", "recover files", "purge root", "failed"}
<1>1. op.kind \in Kinds \cup {"none"}
  BY DEF Shaped, Ops
<1>2. QED  BY <1>1, FailureIs DEF Kinds, Installs

\* Beginning and ending, the user, and a kill.
LEMMA BeginsDoes ==
  ASSUME Shaped, Numbered
  PROVE  /\ Preflight => PreflightDoes
         /\ End => EndDoes
         /\ Return => ReturnDoes
         /\ Crash => CrashDoes
         /\ Drift => DriftDoes
<1> USE DEF At, Skip, HostStep, AtomicStep, FilesBecome, HostBecomes, DesiredBecomes, AgentBecomes,
   Agent, Works,
            Fails, HostFails, Goto, Unclean, disk
<1>1. ASSUME Preflight
      PROVE  PreflightDoes
  <2>1. PICK refused \in BOOLEAN, current \in BOOLEAN : refused = Refused /\ current = AlreadyCurrent
    BY DEF Refused, AlreadyCurrent
  <2>2. step = "preflight" /\ UNCHANGED <<op, before, files, residue, host, desired, agent, tx, excused>>
    BY <1>1 DEF Preflight, At, disk
  <2>3. hostFailed => hostFailed'
    BY <1>1 DEF Preflight, At, Works, Fails, HostFails
  <2>4. ASSUME ~Refused, AlreadyCurrent
        PROVE  step' \in {"note check", "failed"}
    <3>1. op.kind = "scheduled"
      BY <2>4 DEF AlreadyCurrent
    <3>2. (CASE AlreadyCurrent -> "note check" [] op.kind = "remove" -> "unplug"
             [] op.kind = "enable" -> "enable record" [] OTHER -> "stage") = "note check"
      BY <2>4, <3>1, Zenon
    <3>3. QED  BY <1>1, <2>4, <3>2, Zenon DEF Preflight, Goto
  <2>5. ~Refused /\ ~AlreadyCurrent /\ op.kind = "remove" => step' \in {"unplug", "failed"}
    BY <1>1, Zenon DEF Preflight, Goto
  <2>6. ~Refused /\ ~AlreadyCurrent /\ op.kind = "enable" => step' \in {"enable record", "failed"}
    BY <1>1, Zenon DEF Preflight, Goto
  <2>7. ASSUME ~Refused, ~AlreadyCurrent, op.kind # "remove", op.kind # "enable"
        PROVE  step' \in {"stage", "failed"}
    <3>1. (CASE AlreadyCurrent -> "note check" [] op.kind = "remove" -> "unplug"
             [] op.kind = "enable" -> "enable record" [] OTHER -> "stage") = "stage"
      BY <2>7, Zenon
    <3>2. QED  BY <1>1, <2>7, <3>1, Zenon DEF Preflight, Goto
  <2>8. Refused => step' = "failed"
    BY <1>1, Zenon DEF Preflight, Goto
  <2> QED BY <2>1, <2>2, <2>3, <2>4, <2>5, <2>6, <2>7, <2>8 DEF PreflightDoes
<1>2. ASSUME End
      PROVE  EndDoes
  <2>1. files \in Places /\ op \in Ops
    BY DEF Shaped
  <2>2. PICK s \in {"succeeded", "failed"}, b \in BOOLEAN : Report(s, b) /\ (b <=> s = "succeeded")
    BY <1>2 DEF End
  <2>3. op' = [op EXCEPT !.ok = b] /\ files' = [files EXCEPT !.staging = NoTree, !.backup = NoTree]
    BY <2>2 DEF Report
  <2>4. op'.kind = op.kind /\ op'.version = op.version /\ op'.ok = b
    BY <2>1, <2>3 DEF Ops
  <2>5. files'.root = files.root /\ files'.staging = NoTree /\ files'.backup = NoTree
    BY <2>1, <2>3 DEF Places
  <2> QED BY <2>2, <2>4, <2>5 DEF Report, EndDoes, Goto
<1>3. ASSUME Return
      PROVE  ReturnDoes
  <2> QED
    BY <1>3, FailureElsewhere DEF Return, ReturnDoes, Shaped, Places, Hosts, Desires, Flags, KeepFlags,
       KeepEnd, ClearFlags, NotClean, Noted, Disabled, Enabled, DisableFails, EnableFails, NoOp,
       NotBegun, NoTx
<1>4. ASSUME Crash
      PROVE  CrashDoes
  <2> QED
    BY <1>4, FailureElsewhere DEF Crash, CrashDoes, Shaped, Places, Hosts, Desires, Flags, KeepFlags,
       KeepEnd, ClearFlags, NotClean, Noted, Disabled, Enabled, DisableFails, EnableFails, NoOp,
       NotBegun, NoTx, Scheduling, Enabling
<1>5. ASSUME Drift
      PROVE  DriftDoes
  <2>1. files \in Places /\ files.root \in Trees
    BY DEF Shaped, Places
  <2>2. files' = [files EXCEPT !.root = [files.root EXCEPT !.kind = "altered"]] /\ files.root.kind = "whole"
    BY <1>5 DEF Drift
  <2>3. files.root \in [version : Versions, kind : {"whole", "altered", "broken", "bare"}]
    BY <2>1, <2>2 DEF Trees, NoTree
  <2>4. PICK t : t = [files.root EXCEPT !.kind = "altered"]
    OBVIOUS
  <2>5. t.kind = "altered" /\ t.version = files.root.version
    BY <2>3, <2>4
  <2>6. files'.root = t /\ files'.staging = files.staging /\ files'.backup = files.backup
    BY <2>1, <2>2, <2>4 DEF Places
  <2> QED BY <1>5, <2>2, <2>5, <2>6 DEF Drift, DriftDoes
<1> QED  BY <1>1, <1>2, <1>3, <1>4, <1>5

\* Install and update, and what removals and purges share with them.
LEMMA InstallsDoes ==
  ASSUME Shaped, Numbered
  PROVE  /\ Stage => StageDoes
         /\ Unplug => UnplugDoes
         /\ Unlist => UnlistDoes
         /\ Aside => AsideDoes
         /\ Promote => PromoteDoes
         /\ List => ListDoes
         /\ Plug => PlugDoes
         /\ Record => RecordDoes
         /\ Commit => CommitDoes
         /\ NoteCheck => NoteCheckDoes
<1> USE DEF At, Skip, HostStep, AtomicStep, FilesBecome, HostBecomes, DesiredBecomes, AgentBecomes,
   Agent, Works,
            Fails, HostFails, Goto, Unclean, disk
<1>1. ASSUME Stage
      PROVE  StageDoes
  <2> QED
    BY <1>1, FailureElsewhere DEF Stage, StageDoes, Shaped, Places, Hosts, Desires, Flags, KeepFlags,
       KeepEnd, ClearFlags, NotClean, Noted, Disabled, Enabled, DisableFails, EnableFails
<1>2. ASSUME Unplug
      PROVE  UnplugDoes
  <2> QED
    BY <1>2, FailureElsewhere DEF Unplug, UnplugDoes, Shaped, Places, Hosts, Desires, Flags, KeepFlags,
       KeepEnd, ClearFlags, NotClean, Noted, Disabled, Enabled, DisableFails, EnableFails
<1>3. ASSUME Unlist
      PROVE  UnlistDoes
  <2>1. files \in Places /\ host \in Hosts /\ tx \in Flags /\ faults \in Nat /\ faults + 1 # faults
    BY LifecycleBoundsAreNaturals DEF Shaped, Numbered
  <2>2. /\ step = "unlist" /\ UNCHANGED <<op, before, files, residue, desired, agent, excused>>
        /\ host' = [host EXCEPT !.market = FALSE] \/ UNCHANGED host
        /\ tx' = [tx EXCEPT !.removed = before.host.market,
                           !.complete = (faults' = faults) \/ op.kind # "purge",
                           !.clean = (faults' = faults) \/ op.kind # "purge"]
    BY <1>3 DEF Unlist, Noted, At, HostStep, HostBecomes, Skip, disk
  <2>3. /\ tx'.removed = before.host.market
        /\ tx'.backed = tx.backed /\ tx'.active = tx.active /\ tx'.restored = tx.restored
        /\ tx'.touched = tx.touched /\ tx'.written = tx.written /\ tx'.agentOK = tx.agentOK
        /\ tx'.complete = (faults' = faults \/ op.kind # "purge")
        /\ tx'.clean = (faults' = faults \/ op.kind # "purge")
    BY <2>1, <2>2 DEF Flags
  <2>4. host'.plugin = host.plugin /\ (host'.market = FALSE \/ UNCHANGED host)
    BY <2>1, <2>2 DEF Hosts
  <2>5. \/ /\ step' = AfterUnlist /\ faults' = faults /\ UNCHANGED hostFailed
           /\ \/ before.host.market /\ host' = [host EXCEPT !.market = FALSE]
              \/ ~before.host.market /\ UNCHANGED host
        \/ before.host.market /\ step' = Failure /\ hostFailed' /\ faults' # faults
    BY <1>3, <2>1 DEF Unlist, HostStep, HostBecomes, Skip, Works, HostFails, Goto, disk
  <2>6. host' = [host EXCEPT !.market = FALSE] => ~host'.market
    BY <2>1 DEF Hosts
  <2> QED BY <2>2, <2>3, <2>4, <2>5, <2>6 DEF UnlistDoes, KeepEnd, AfterUnlist
<1>4. ASSUME Aside
      PROVE  AsideDoes
  <2>. USE DEF Goto
  <2>1. files \in Places /\ tx \in Flags /\ files.root \in Trees
    BY DEF Shaped, Places
  <2>2. PICK s : s = IF op.kind = "remove" THEN "remove agent" ELSE "promote"
    OBVIOUS
  <2>3. step = "aside" /\ UNCHANGED <<op, before, residue, host, desired, agent, excused, hostFailed>>
    BY <1>4 DEF Aside, At, AtomicStep, Skip, FilesBecome, Works, Fails, Exists, disk
  <2>4. CASE files.root = NoTree /\ UNCHANGED <<files, tx>> /\ step' = s
    BY <2>2, <2>3, <2>4 DEF AsideDoes, KeepEnd
  <2>5. CASE /\ files.root # NoTree /\ files' = [files EXCEPT !.root = NoTree, !.backup = files.root]
             /\ step' = s /\ tx' = [tx EXCEPT !.backed = files' # files]
    <3>1. files'.root = NoTree /\ files'.backup = files.root /\ files'.staging = files.staging
      BY <2>1, <2>5 DEF Places
    <3>2. files' # files
      BY <2>5, <3>1
    <3>3. /\ tx'.removed = tx.removed /\ tx'.active = tx.active /\ tx'.restored = tx.restored /\ tx'.backed
          /\ tx'.touched = tx.touched /\ tx'.written = tx.written /\ tx'.agentOK = tx.agentOK /\ KeepEnd
      BY <2>1, <2>5, <3>2 DEF Flags, KeepEnd
    <3>4. QED  BY <2>2, <2>3, <2>5, <3>1, <3>3 DEF AsideDoes
  <2>6. CASE /\ files.root # NoTree /\ UNCHANGED files /\ step' = Failure
             /\ tx' = [tx EXCEPT !.backed = files' # files]
    BY <2>1, <2>3, <2>6 DEF AsideDoes, Flags, KeepEnd
  <2> QED BY <1>4, <2>2, <2>4, <2>5, <2>6 DEF Aside, AtomicStep, Skip, FilesBecome, Exists, disk
<1>5. ASSUME Promote
      PROVE  PromoteDoes
  <2> QED
    BY <1>5, FailureElsewhere DEF Promote, PromoteDoes, Shaped, Places, Hosts, Desires, Flags, KeepFlags,
       KeepEnd, ClearFlags, NotClean, Noted, Disabled, Enabled, DisableFails, EnableFails
<1>6. ASSUME List
      PROVE  ListDoes
  <2> QED
    BY <1>6, FailureElsewhere DEF List, ListDoes, Shaped, Places, Hosts, Desires, Flags, KeepFlags,
       KeepEnd, ClearFlags, NotClean, Noted, Disabled, Enabled, DisableFails, EnableFails
<1>7. ASSUME Plug
      PROVE  PlugDoes
  <2> QED
    BY <1>7, FailureElsewhere DEF Plug, PlugDoes, Shaped, Places, Hosts, Desires, Flags, KeepFlags,
       KeepEnd, ClearFlags, NotClean, Noted, Disabled, Enabled, DisableFails, EnableFails
<1>8. ASSUME Record
      PROVE  RecordDoes
  <2> QED
    BY <1>8, FailureElsewhere DEF Record, RecordDoes, Shaped, Places, Hosts, Desires, Flags, KeepFlags,
       KeepEnd, ClearFlags, NotClean, Noted, Disabled, Enabled, DisableFails, EnableFails
<1>9. ASSUME Commit
      PROVE  CommitDoes
  <2>1. files \in Places
    BY DEF Shaped
  <2>2. PICK t \in Rest(files.backup) : files' = [files EXCEPT !.backup = t]
    BY <1>9, NothingLeft DEF Commit, FilesBecome
  <2>3. files'.root = files.root /\ files'.backup = t /\ files'.staging = files.staging
    BY <2>1, <2>2 DEF Places
  <2> QED BY <1>9, <2>2, <2>3 DEF Commit, CommitDoes, At, FilesBecome, Works, Fails, Goto
<1>10. ASSUME NoteCheck
      PROVE  NoteCheckDoes
  <2> QED
    BY <1>10, FailureElsewhere DEF NoteCheck, NoteCheckDoes, Shaped, Places, Hosts, Desires, Flags,
       KeepFlags,
       KeepEnd, ClearFlags, NotClean, Noted, Disabled, Enabled, DisableFails, EnableFails
<1> QED  BY <1>1, <1>2, <1>3, <1>4, <1>5, <1>6, <1>7, <1>8, <1>9, <1>10

\* The rollback of an installation.
LEMMA RollsBackDoes ==
  ASSUME Shaped, Numbered
  PROVE  /\ ForgetPlugin => ForgetPluginDoes
         /\ ForgetMarket => ForgetMarketDoes
         /\ Discard => DiscardDoes
         /\ Restore => RestoreDoes
         /\ Reregister => ReregisterDoes
         /\ CleanUp => CleanUpDoes
<1> USE DEF At, Skip, HostStep, AtomicStep, FilesBecome, HostBecomes, DesiredBecomes, AgentBecomes,
   Agent, Works,
            Fails, HostFails, Goto, Unclean, disk
<1>1. ASSUME ForgetPlugin
      PROVE  ForgetPluginDoes
  <2> QED
    BY <1>1, FailureElsewhere DEF ForgetPlugin, ForgetPluginDoes, Shaped, Places, Hosts, Desires, Flags,
       KeepFlags,
       KeepEnd, ClearFlags, NotClean, Noted, Disabled, Enabled, DisableFails, EnableFails
<1>2. ASSUME ForgetMarket
      PROVE  ForgetMarketDoes
  <2> QED
    BY <1>2, FailureElsewhere DEF ForgetMarket, ForgetMarketDoes, Shaped, Places, Hosts, Desires, Flags,
       KeepFlags,
       KeepEnd, ClearFlags, NotClean, Noted, Disabled, Enabled, DisableFails, EnableFails
<1>3. ASSUME Discard
      PROVE  DiscardDoes
  <2> QED
    BY <1>3, FailureElsewhere DEF Discard, DiscardDoes, Shaped, Places, Hosts, Desires, Flags, KeepFlags,
       KeepEnd, ClearFlags, NotClean, Noted, Disabled, Enabled, DisableFails, EnableFails
<1>4. ASSUME Restore
      PROVE  RestoreDoes
  <2>. USE DEF Goto
  <2>1. files \in Places /\ tx \in Flags
    BY DEF Shaped
  <2>2. step = "restore" /\ step' = "reregister"
        /\ UNCHANGED <<op, before, residue, host, desired, agent, excused, hostFailed>>
    BY <1>4 DEF Restore, At, Skip, FilesBecome, Works, Fails, Unclean, disk
  <2>3. CASE ~tx.backed /\ UNCHANGED <<files, tx>>
    BY <2>2, <2>3 DEF RestoreDoes
  <2>4. CASE /\ tx.backed /\ files.root = NoTree
             /\ files' = [files EXCEPT !.root = files.backup, !.backup = NoTree]
             /\ tx' = [tx EXCEPT !.restored = TRUE]
    <3>1. files'.root = files.backup /\ files'.backup = NoTree /\ files'.staging = files.staging
      BY <2>1, <2>4 DEF Places
    <3>2. /\ tx'.removed = tx.removed /\ tx'.backed = tx.backed /\ tx'.active = tx.active /\ tx'.restored
          /\ tx'.touched = tx.touched /\ tx'.written = tx.written /\ tx'.agentOK = tx.agentOK /\ KeepEnd
      BY <2>1, <2>4 DEF Flags, KeepEnd
    <3>3. QED  BY <2>2, <2>4, <3>1, <3>2 DEF RestoreDoes
  <2>5. CASE tx.backed /\ UNCHANGED files /\ tx' = [tx EXCEPT !.clean = FALSE]
    BY <2>1, <2>2, <2>5 DEF RestoreDoes, Flags, NotClean, KeepFlags
  <2> QED BY <1>4, <2>3, <2>4, <2>5 DEF Restore, Exists, Skip, FilesBecome, Unclean, disk
<1>5. ASSUME Reregister
      PROVE  ReregisterDoes
  <2> QED
    BY <1>5, FailureElsewhere DEF Reregister, ReregisterDoes, Shaped, Places, Hosts, Desires, Flags,
       KeepFlags,
       KeepEnd, ClearFlags, NotClean, Noted, Disabled, Enabled, DisableFails, EnableFails
<1>6. ASSUME CleanUp
      PROVE  CleanUpDoes
  <2>1. files \in Places
    BY DEF Shaped
  <2>2. PICK t \in Rest(files.staging) : files' = [files EXCEPT !.staging = t]
    BY <1>6, NothingLeft DEF CleanUp, FilesBecome
  <2>3. files'.root = files.root /\ files'.backup = files.backup /\ files'.staging = t
    BY <2>1, <2>2 DEF Places
  <2> QED BY <1>6, <2>2, <2>3 DEF CleanUp, CleanUpDoes, At, FilesBecome, Works, Fails, Goto
<1> QED  BY <1>1, <1>2, <1>3, <1>4, <1>5, <1>6

\* Removal and its recovery.
LEMMA RemovesDoes ==
  ASSUME Shaped, Numbered
  PROVE  /\ RemoveAgent => RemoveAgentDoes
         /\ RemoveRecord => RemoveRecordDoes
         /\ RemoveFiles => RemoveFilesDoes
         /\ RecoverFiles => RecoverFilesDoes
         /\ RecoverRegistration => RecoverRegistrationDoes
         /\ RecoverAgent => RecoverAgentDoes
         /\ RecoverRecord => RecoverRecordDoes
<1> USE DEF At, Skip, HostStep, AtomicStep, FilesBecome, HostBecomes, DesiredBecomes, AgentBecomes,
   Agent, Works,
            Fails, HostFails, Goto, Unclean, disk
<1>1. ASSUME RemoveAgent
      PROVE  RemoveAgentDoes
  <2> QED
    BY <1>1, FailureElsewhere DEF RemoveAgent, RemoveAgentDoes, Shaped, Places, Hosts, Desires, Flags,
       KeepFlags,
       KeepEnd, ClearFlags, NotClean, Noted, Disabled, Enabled, DisableFails, EnableFails
<1>2. ASSUME RemoveRecord
      PROVE  RemoveRecordDoes
  <2> QED
    BY <1>2, FailureElsewhere DEF RemoveRecord, RemoveRecordDoes, Shaped, Places, Hosts, Desires, Flags,
       KeepFlags,
       KeepEnd, ClearFlags, NotClean, Noted, Disabled, Enabled, DisableFails, EnableFails
<1>3. ASSUME RemoveFiles
      PROVE  RemoveFilesDoes
  <2> QED
    BY <1>3, FailureElsewhere DEF RemoveFiles, RemoveFilesDoes, Shaped, Places, Hosts, Desires, Flags,
       KeepFlags,
       KeepEnd, ClearFlags, NotClean, Noted, Disabled, Enabled, DisableFails, EnableFails
<1>4. ASSUME RecoverFiles
      PROVE  RecoverFilesDoes
  <2>. USE DEF Goto
  <2>1. files \in Places /\ tx \in Flags
    BY DEF Shaped
  <2>2. step = "recover files" /\ step' = "recover registration"
        /\ UNCHANGED <<op, before, residue, host, desired, agent, excused, hostFailed>>
    BY <1>4 DEF RecoverFiles, At, Skip, FilesBecome, Works, Fails, disk
  <2>3. CASE /\ before.root = NoTree \/ (~tx.backed /\ Verified(files.root))
             /\ UNCHANGED files /\ tx' = [tx EXCEPT !.restored = TRUE]
    BY <2>1, <2>2, <2>3 DEF RecoverFilesDoes, Flags
  <2>4. CASE /\ before.root # NoTree /\ tx.backed /\ Verified(files.backup)
             /\ files' = [files EXCEPT !.root = files.backup, !.backup = NoTree]
             /\ tx' = [tx EXCEPT !.restored = TRUE, !.backed = FALSE]
    <3>1. files'.root = files.backup /\ files'.backup = NoTree /\ files'.staging = files.staging
      BY <2>1, <2>4 DEF Places
    <3>2. /\ tx'.restored /\ ~tx'.backed /\ tx'.complete = tx.complete
          /\ tx'.removed = tx.removed /\ tx'.active = tx.active /\ tx'.clean = tx.clean
          /\ tx'.touched = tx.touched /\ tx'.written = tx.written /\ tx'.agentOK = tx.agentOK
      BY <2>1, <2>4 DEF Flags
    <3>3. QED  BY <2>2, <2>4, <3>1, <3>2 DEF RecoverFilesDoes
  <2>5. CASE before.root # NoTree /\ UNCHANGED files /\ tx' = [tx EXCEPT !.complete = FALSE]
    BY <2>1, <2>2, <2>5 DEF RecoverFilesDoes, Flags
  <2> QED BY <1>4, <2>3, <2>4, <2>5 DEF RecoverFiles, Exists, Skip, FilesBecome, disk
<1>5. ASSUME RecoverRegistration
      PROVE  RecoverRegistrationDoes
  <2> QED
    BY <1>5, FailureElsewhere DEF RecoverRegistration, RecoverRegistrationDoes, Shaped, Places, Hosts,
       Desires, Flags, KeepFlags,
       KeepEnd, ClearFlags, NotClean, Noted, Disabled, Enabled, DisableFails, EnableFails
<1>6. ASSUME RecoverAgent
      PROVE  RecoverAgentDoes
  <2> QED
    BY <1>6, FailureElsewhere DEF RecoverAgent, RecoverAgentDoes, Shaped, Places, Hosts, Desires, Flags,
       KeepFlags,
       KeepEnd, ClearFlags, NotClean, Noted, Disabled, Enabled, DisableFails, EnableFails
<1>7. ASSUME RecoverRecord
      PROVE  RecoverRecordDoes
  <2> QED
    BY <1>7, FailureElsewhere DEF RecoverRecord, RecoverRecordDoes, Shaped, Places, Hosts, Desires,
       Flags, KeepFlags,
       KeepEnd, ClearFlags, NotClean, Noted, Disabled, Enabled, DisableFails, EnableFails
<1> QED  BY <1>1, <1>2, <1>3, <1>4, <1>5, <1>6, <1>7

\* Purge.
LEMMA PurgesDoes ==
  ASSUME Shaped, Numbered
  PROVE  /\ PurgeRoot => PurgeRootDoes
         /\ PurgeResidue => PurgeResidueDoes
         /\ PurgeAgent => PurgeAgentDoes
         /\ PurgeRecord => PurgeRecordDoes
         /\ PurgeEnds => PurgeEndsDoes
<1> USE DEF At, Skip, HostStep, AtomicStep, FilesBecome, HostBecomes, DesiredBecomes, AgentBecomes,
   Agent, Works,
            Fails, HostFails, Goto, Unclean, disk
<1>1. ASSUME PurgeRoot
      PROVE  PurgeRootDoes
  <2>. USE DEF Goto
  <2>1. files \in Places /\ tx \in Flags
    BY DEF Shaped
  <2>2. step = "purge root" /\ step' = "purge residue"
        /\ UNCHANGED <<op, before, residue, host, desired, agent, hostFailed>>
    BY <1>1 DEF PurgeRoot, At, Skip, FilesBecome, Works, Fails, disk
  <2>3. CASE files.root = NoTree /\ UNCHANGED <<files, tx, excused>>
    BY <2>2, <2>3 DEF PurgeRootDoes
  <2>4. CASE Verified(files.root) /\ files' = [files EXCEPT !.root = NoTree] /\ excused' = TRUE /\ UNCHANGED tx
    BY <2>1, <2>2, <2>4 DEF PurgeRootDoes, Places
  <2>5. CASE UNCHANGED files /\ excused' = TRUE /\ tx' = [tx EXCEPT !.complete = FALSE, !.clean = FALSE]
    BY <2>1, <2>2, <2>5 DEF PurgeRootDoes, Flags, KeepFlags
  <2>6. CASE /\ Verified(files.root) /\ \E t \in Rest(files.root) : files' = [files EXCEPT !.root = NoTree, !.backup = t]
             /\ excused' = TRUE /\ tx' = [tx EXCEPT !.complete = FALSE, !.clean = FALSE]
    <3>1. PICK t \in Rest(files.root) : files' = [files EXCEPT !.root = NoTree, !.backup = t]
      BY <2>6
    <3>2. files'.root = NoTree /\ files'.backup = t /\ files'.staging = files.staging
      BY <2>1, <3>1 DEF Places
    <3>3. KeepFlags /\ ~tx'.complete /\ ~tx'.clean
      BY <2>1, <2>6 DEF Flags, KeepFlags
    <3>4. QED  BY <2>2, <2>6, <3>1, <3>2, <3>3 DEF PurgeRootDoes
  <2> QED BY <1>1, <2>3, <2>4, <2>5, <2>6 DEF PurgeRoot, Exists, Skip, FilesBecome, disk
<1>2. ASSUME PurgeResidue
      PROVE  PurgeResidueDoes
  <2>. USE DEF Goto
  <2>1. files \in Places /\ tx \in Flags /\ files.backup \in Trees /\ residue \subseteq Trees \ {NoTree}
        /\ excused \in BOOLEAN
    BY DEF Shaped, Places
  <2>2. /\ step = "purge residue" /\ step' = "purge agent"
        /\ UNCHANGED <<op, before, host, desired, agent, hostFailed>>
        /\ files' = [files EXCEPT !.backup = NoTree]
        /\ excused' = (excused \/ residue # {})
    BY <1>2 DEF PurgeResidue, At, Works, Fails
  <2>3. files'.root = files.root /\ files'.staging = files.staging /\ files'.backup = NoTree
    BY <2>1, <2>2 DEF Places
  <2>4. PICK left : left = (residue \cup {files.backup}) \ {NoTree}
    OBVIOUS
  <2>5. PICK good : good = {t \in left : Verified(t)}
    OBVIOUS
  <2>6. left \subseteq Trees \ {NoTree} /\ good \subseteq left
    BY <2>1, <2>4, <2>5
  <2>7. \A t \in residue \cup {files.backup} : Verified(t) \/ t = NoTree \/ t \in left \ good
    BY <2>4, <2>5
  <2>8. CASE good = left /\ residue' = {} /\ UNCHANGED tx
    BY <2>2, <2>3, <2>8, <2>7 DEF PurgeResidueDoes
  <2>9. CASE (\E r \in SUBSET good : residue' = left \ r) /\ tx' = [tx EXCEPT !.clean = FALSE]
    <3>1. residue' \subseteq Trees \ {NoTree}
      BY <2>6, <2>9
    <3>2. NotClean
      BY <2>1, <2>9 DEF Flags, NotClean, KeepFlags
    <3>3. left \ good \subseteq residue'
      BY <2>9
    <3>4. QED  BY <2>2, <2>3, <2>7, <3>1, <3>2, <3>3 DEF PurgeResidueDoes
  <2>10. CASE /\ \E r \in SUBSET good : \E t \in good : \E u \in Rest(t) :
                  residue' = ((left \ (r \cup {t})) \cup {u}) \ {NoTree}
             /\ tx' = [tx EXCEPT !.clean = FALSE]
    <3>1. PICK r \in SUBSET good, t \in good :
                 \E u \in Rest(t) : residue' = ((left \ (r \cup {t})) \cup {u}) \ {NoTree}
      BY <2>10
    <3>2. PICK u \in Rest(t) : residue' = ((left \ (r \cup {t})) \cup {u}) \ {NoTree}
      BY <3>1
    <3>3. u \in Trees
      BY <2>6, <3>1, <3>2, RestTyped
    <3>4. residue' \subseteq Trees \ {NoTree}
      BY <2>6, <3>2, <3>3
    <3>5. NotClean
      BY <2>1, <2>10 DEF Flags, NotClean, KeepFlags
    <3>6. left \ good \subseteq residue'
      BY <2>6, <3>1, <3>2
    <3>7. QED  BY <2>2, <2>3, <2>7, <3>4, <3>5, <3>6 DEF PurgeResidueDoes
  <2> QED BY <1>2, <2>4, <2>5, <2>8, <2>9, <2>10 DEF PurgeResidue
<1>3. ASSUME PurgeAgent
      PROVE  PurgeAgentDoes
  <2> QED
    BY <1>3, FailureElsewhere DEF PurgeAgent, PurgeAgentDoes, Shaped, Places, Hosts, Desires, Flags,
       KeepFlags,
       KeepEnd, ClearFlags, NotClean, Noted, Disabled, Enabled, DisableFails, EnableFails
<1>4. ASSUME PurgeRecord
      PROVE  PurgeRecordDoes
  <2> QED
    BY <1>4, FailureElsewhere DEF PurgeRecord, PurgeRecordDoes, Shaped, Places, Hosts, Desires, Flags,
       KeepFlags,
       KeepEnd, ClearFlags, NotClean, Noted, Disabled, Enabled, DisableFails, EnableFails
<1>5. ASSUME PurgeEnds
      PROVE  PurgeEndsDoes
  <2> QED
    BY <1>5, FailureElsewhere DEF PurgeEnds, PurgeEndsDoes, Shaped, Places, Hosts, Desires, Flags,
       KeepFlags,
       KeepEnd, ClearFlags, NotClean, Noted, Disabled, Enabled, DisableFails, EnableFails
<1> QED  BY <1>1, <1>2, <1>3, <1>4, <1>5

\* The automatic updater.
LEMMA SwitchesDoes ==
  ASSUME Shaped, Numbered
  PROVE  /\ EnableRecord => EnableRecordDoes
         /\ EnableAgent => EnableAgentDoes
         /\ EnableUndo => EnableUndoDoes
         /\ DisableAgent => DisableAgentDoes
         /\ DisableRecord => DisableRecordDoes
<1> USE DEF At, Skip, HostStep, AtomicStep, FilesBecome, HostBecomes, DesiredBecomes, AgentBecomes,
   Agent, Works,
            Fails, HostFails, Goto, Unclean, disk
<1>1. ASSUME EnableRecord
      PROVE  EnableRecordDoes
  <2>1. Failure # "enable agent"
    BY FailureElsewhere
  <2>2. step = "enable record" /\ UNCHANGED <<op, before, files, residue, host, agent, tx, hostFailed>>
    BY <1>1 DEF EnableRecord, At, AtomicStep, DesiredBecomes, Works, Fails, disk
  <2>3. PICK v : v = IF desired.version = Nothing THEN Installed(before.host) ELSE desired.version
    OBVIOUS
  <2>4. \/ desired' = [installed |-> TRUE, auto |-> TRUE, version |-> v] /\ step' = "enable agent"
        \/ UNCHANGED desired /\ step' = Failure
    BY <1>1, <2>3 DEF EnableRecord, AtomicStep, DesiredBecomes, Goto, disk
  <2>5. excused' = (excused \/ (desired.version = Nothing /\ hostFailed /\ step' = "enable agent"))
    BY <1>1 DEF EnableRecord
  <2>6. excused \in BOOLEAN
    BY DEF Shaped
  <2>7. CASE step' = "enable agent"
    <3>1. desired' = [installed |-> TRUE, auto |-> TRUE, version |-> v]
      BY <2>1, <2>4, <2>7, Zenon
    <3>2. desired'.installed /\ desired'.auto /\ desired'.version = v
      BY <3>1
    <3>3. excused' <=> excused \/ (desired.version = Nothing /\ hostFailed)
      BY <2>5, <2>6, <2>7 DEF Shaped
    <3>4. QED  BY <2>2, <2>3, <2>7, <3>2, <3>3 DEF EnableRecordDoes
  <2>8. CASE step' = Failure
    BY <2>1, <2>2, <2>4, <2>5, <2>6, <2>8 DEF EnableRecordDoes
  <2> QED BY <2>4, <2>7, <2>8
<1>2. ASSUME EnableAgent
      PROVE  EnableAgentDoes
  <2> QED
    BY <1>2, FailureElsewhere DEF EnableAgent, EnableAgentDoes, Shaped, Places, Hosts, Desires, Flags,
       KeepFlags,
       KeepEnd, ClearFlags, NotClean, Noted, Disabled, Enabled, DisableFails, EnableFails
<1>3. ASSUME EnableUndo
      PROVE  EnableUndoDoes
  <2> QED
    BY <1>3, FailureElsewhere DEF EnableUndo, EnableUndoDoes, Shaped, Places, Hosts, Desires, Flags,
       KeepFlags,
       KeepEnd, ClearFlags, NotClean, Noted, Disabled, Enabled, DisableFails, EnableFails
<1>4. ASSUME DisableAgent
      PROVE  DisableAgentDoes
  <2> QED
    BY <1>4, FailureElsewhere DEF DisableAgent, DisableAgentDoes, Shaped, Places, Hosts, Desires, Flags,
       KeepFlags,
       KeepEnd, ClearFlags, NotClean, Noted, Disabled, Enabled, DisableFails, EnableFails
<1>5. ASSUME DisableRecord
      PROVE  DisableRecordDoes
  <2> QED
    BY <1>5, FailureElsewhere DEF DisableRecord, DisableRecordDoes, Shaped, Places, Hosts, Desires,
       Flags, KeepFlags,
       KeepEnd, ClearFlags, NotClean, Noted, Disabled, Enabled, DisableFails, EnableFails
<1> QED  BY <1>1, <1>2, <1>3, <1>4, <1>5

\* Every step is one of these.
Step ==
  \/ \E k \in Kinds, v \in Versions : BeginDoes(k, v)
  \/ PreflightDoes \/ EndDoes \/ ReturnDoes \/ CrashDoes \/ DriftDoes
  \/ StageDoes \/ UnplugDoes \/ UnlistDoes \/ AsideDoes \/ PromoteDoes
  \/ ListDoes \/ PlugDoes \/ RecordDoes \/ CommitDoes \/ NoteCheckDoes
  \/ ForgetPluginDoes \/ ForgetMarketDoes \/ DiscardDoes \/ RestoreDoes \/ ReregisterDoes
  \/ CleanUpDoes
  \/ RemoveAgentDoes \/ RemoveRecordDoes \/ RemoveFilesDoes \/ RecoverFilesDoes \/ RecoverRegistrationDoes
  \/ RecoverAgentDoes \/ RecoverRecordDoes
  \/ PurgeRootDoes \/ PurgeResidueDoes \/ PurgeAgentDoes \/ PurgeRecordDoes \/ PurgeEndsDoes
  \/ EnableRecordDoes \/ EnableAgentDoes \/ EnableUndoDoes \/ DisableAgentDoes \/ DisableRecordDoes

\* And so every step of the specification is.
LEMMA StepDoes ==
  ASSUME Shaped, Numbered, Next
  PROVE  Step
<1>1. ASSUME NEW k \in Kinds, NEW v \in Versions, Begin(k, v)
      PROVE  BeginDoes(k, v)
  <2>1. /\ k = "purge" => step' = "unplug"
        /\ k = "disable" => step' = "disable agent"
        /\ k # "purge" /\ k # "disable" => step' = "preflight"
    <3>1. step' = CASE k = "purge" -> "unplug" [] k = "disable" -> "disable agent" [] OTHER -> "preflight"
      BY <1>1, Zenon DEF Begin, Goto
    <3>2. k = "purge" => k # "disable"
      OBVIOUS
    <3>3. QED  BY <3>1, <3>2, Zenon
  <2>2. op' = [kind |-> k, version |-> v, ok |-> FALSE] /\ before' = Now /\ tx' = NoTx
    BY <1>1 DEF Begin
  <2>3. op'.kind = k /\ op'.version = v /\ ~op'.ok
    BY <2>2
  <2>4. before'.root = files.root /\ before'.host = host /\ before'.desired = desired /\ before'.agent = agent
    BY <2>2 DEF Now
  <2>5. ClearFlags
    BY <2>2 DEF NoTx, ClearFlags
  <2>6. step = "idle" /\ UNCHANGED <<files, residue, host, desired, agent, excused, hostFailed>>
    BY <1>1 DEF Begin, disk
  <2>7. k = "scheduled" => desired.auto
    BY <1>1 DEF Begin
  <2>8. QED  BY <2>1, <2>3, <2>4, <2>5, <2>6, <2>7 DEF BeginDoes
<1>2. QED
  BY <1>1, BeginsDoes, InstallsDoes, RollsBackDoes, RemovesDoes, PurgesDoes, SwitchesDoes, ZenonT(60)
     DEF Next, Install, Rollback, Remove, Recover, Purge, AutoUpdate, Step

-----------------------------------------------------------------------------
(***************************************************************************)
(* Types.                                                                  *)
(***************************************************************************)
\* Who writes what.
TreeSteps == Stage \/ Aside \/ Promote \/ Commit \/ Discard \/ Restore \/ CleanUp \/ RemoveFiles
             \/ RecoverFiles \/ PurgeRoot \/ PurgeResidue \/ End \/ Crash \/ Drift
HostSteps == Unplug \/ Unlist \/ List \/ Plug \/ ForgetPlugin \/ ForgetMarket \/ Reregister
             \/ RecoverRegistration
DesiredSteps == Record \/ RemoveRecord \/ RecoverRecord \/ PurgeRecord \/ EnableRecord \/ EnableUndo
                \/ DisableRecord
AgentSteps == RemoveAgent \/ RecoverAgent \/ PurgeAgent \/ EnableAgent \/ DisableAgent \/ Crash

Begins == \E k \in Kinds, v \in Versions : Begin(k, v)

\* The other steps leave the trees, the host, the desired state and the LaunchAgent alone.
LEMMA Writers ==
  ASSUME Next
  PROVE  /\ TreeSteps \/ UNCHANGED <<files, residue>>
         /\ HostSteps \/ UNCHANGED host
         /\ DesiredSteps \/ UNCHANGED desired
         /\ AgentSteps \/ UNCHANGED agent
<1>. USE DEF At, Skip, HostStep, AtomicStep, FilesBecome, HostBecomes, DesiredBecomes, AgentBecomes,
   Agent, disk
<1>1. CASE \E k \in Kinds, v \in Versions : Begin(k, v)
  BY <1>1 DEF Begin
<1>2. CASE Preflight
  BY <1>2, Zenon DEF Preflight
<1>3. CASE Unplug
  BY <1>3 DEF Unplug, HostSteps
<1>4. CASE Unlist
  BY <1>4 DEF Unlist, HostSteps
<1>5. CASE Aside
  BY <1>5 DEF Aside, TreeSteps
<1>6. CASE Install
  BY <1>6 DEF Install, TreeSteps, HostSteps, DesiredSteps, Stage, Promote, List, Plug, Record, Commit,
     NoteCheck
<1>7. CASE Rollback
  BY <1>7 DEF Rollback, TreeSteps, HostSteps, ForgetPlugin, ForgetMarket, Discard, Restore, Reregister,
     CleanUp
<1>8. CASE Remove
  BY <1>8 DEF Remove, TreeSteps, DesiredSteps, AgentSteps, RemoveAgent, RemoveRecord, RemoveFiles
<1>9. CASE Recover
  BY <1>9 DEF Recover, TreeSteps, HostSteps, DesiredSteps, AgentSteps, RecoverFiles, RecoverRegistration,
              RecoverAgent, RecoverRecord
<1>10. CASE Purge
  BY <1>10 DEF Purge, TreeSteps, DesiredSteps, AgentSteps, PurgeRoot, PurgeResidue, PurgeAgent, PurgeRecord,
               PurgeEnds
<1>11. CASE AutoUpdate
  BY <1>11 DEF AutoUpdate, DesiredSteps, AgentSteps, EnableRecord, EnableAgent, EnableUndo, DisableAgent,
               DisableRecord
<1>12. CASE End \/ Return
  BY <1>12 DEF End, Report, Return, TreeSteps
<1>13. CASE Crash
  BY <1>13 DEF Crash, TreeSteps, AgentSteps
<1>14. CASE Drift
  BY <1>14 DEF Drift, TreeSteps
<1>15. QED
  BY <1>1, <1>2, <1>3, <1>4, <1>5, <1>6, <1>7, <1>8, <1>9, <1>10, <1>11, <1>12, <1>13, <1>14,
     ZenonT(60) DEF Next

\* Putting a tree into a place.
LEMMA Placed ==
  ASSUME NEW f \in Places, NEW t \in Trees, NEW u \in Trees
  PROVE  /\ [f EXCEPT !.root = t] \in Places /\ [f EXCEPT !.staging = t] \in Places
         /\ [f EXCEPT !.backup = t] \in Places
         /\ [f EXCEPT !.root = t, !.backup = u] \in Places
         /\ [f EXCEPT !.root = t, !.staging = u] \in Places
         /\ [f EXCEPT !.staging = t, !.backup = u] \in Places
<1>. USE DEF Places
<1>1. /\ [f EXCEPT !.root = t] \in Places /\ [f EXCEPT !.staging = t] \in Places
      /\ [f EXCEPT !.backup = t] \in Places
  OBVIOUS
<1>2. PICK g, h : g = [f EXCEPT !.root = t] /\ h = [f EXCEPT !.staging = t]
  OBVIOUS
<1>3. /\ [g EXCEPT !.backup = u] \in Places /\ [g EXCEPT !.staging = u] \in Places
      /\ [h EXCEPT !.backup = u] \in Places
  BY <1>1, <1>2
<1>4. QED  BY <1>1, <1>2, <1>3

\* The trees stay trees.
TreesTyped == files \in Places /\ residue \subseteq Trees \ {NoTree}

\* Every step leaves trees where there were trees.
LEMMA TreesTypedNext ==
  ASSUME Shaped, Numbered, op.kind # "none" => op.version \in Versions, Fits, Next
  PROVE  TreesTyped'
<1>. USE DEF At, Skip, FilesBecome, AtomicStep
<1>1. files \in Places /\ residue \subseteq Trees \ {NoTree}
  BY DEF Shaped
<1>2. NoTree \in Trees /\ {files.root, files.staging, files.backup} \subseteq Trees
  BY <1>1 DEF Places, Trees
<1>3. op.kind # "none" => Whole(op.version) \in Trees
  BY DEF Whole, Trees
<1>4. ASSUME NEW f \in Places, files' = f, UNCHANGED residue
      PROVE  TreesTyped'
  BY <1>4, <1>1 DEF TreesTyped
<1>5. ASSUME UNCHANGED <<files, residue>>
      PROVE  TreesTyped'
  BY <1>5, <1>1 DEF TreesTyped
<1>6. CASE Stage
  <2>1. op.kind # "none"
    BY <1>6 DEF Stage, Fits
  <2>2. QED  BY <1>2, <1>3, <1>4, <1>5, <1>1, <1>6, <2>1, Placed DEF Stage, disk
<1>7. CASE Aside
  BY <1>2, <1>4, <1>5, <1>1, <1>7, Placed DEF Aside, disk
<1>8. CASE Promote
  BY <1>2, <1>4, <1>5, <1>1, <1>8, Placed DEF Promote, disk
<1>9. CASE Commit
  BY <1>2, <1>4, <1>5, <1>1, <1>9, Placed, RestTyped DEF Commit, disk
<1>10. CASE Discard
  BY <1>2, <1>4, <1>5, <1>1, <1>10, Placed, RestTyped DEF Discard, disk
<1>11. CASE Restore
  BY <1>2, <1>4, <1>5, <1>1, <1>11, Placed DEF Restore, disk
<1>12. CASE CleanUp
  BY <1>2, <1>4, <1>5, <1>1, <1>12, Placed, RestTyped DEF CleanUp, disk
<1>13. CASE RemoveFiles
  BY <1>2, <1>4, <1>5, <1>1, <1>13, Placed, RestTyped DEF RemoveFiles, disk
<1>14. CASE RecoverFiles
  BY <1>2, <1>4, <1>5, <1>1, <1>14, Placed DEF RecoverFiles, disk
<1>15. CASE PurgeRoot
  <2>1. CASE UNCHANGED <<files, residue>>
    BY <1>5, <2>1
  <2>2. CASE files' = [files EXCEPT !.root = NoTree] /\ UNCHANGED residue
    BY <1>2, <1>4, <1>1, <2>2, Placed
  <2>3. CASE (\E t \in Rest(files.root) : files' = [files EXCEPT !.root = NoTree, !.backup = t])
             /\ UNCHANGED residue
    BY <1>2, <1>4, <1>1, <2>3, Placed, RestTyped
  <2>4. QED  BY <1>15, <2>1, <2>2, <2>3 DEF PurgeRoot, disk
<1>16. CASE PurgeResidue
  <2>1. files' = [files EXCEPT !.backup = NoTree]
    BY <1>16 DEF PurgeResidue
  <2>2. files' \in Places
    BY <1>2, <1>1, <2>1, Placed
  <2>3. residue' \subseteq Trees \ {NoTree}
    BY <1>16, PurgesDoes DEF PurgeResidueDoes
  <2>4. QED  BY <2>2, <2>3 DEF TreesTyped
<1>17. CASE End
  <2>1. /\ files' = [files EXCEPT !.staging = NoTree, !.backup = NoTree]
        /\ residue' = (residue \cup {files.staging, files.backup}) \ {NoTree}
    BY <1>17 DEF End, Report
  <2>2. files' \in Places
    BY <1>2, <1>1, <2>1, Placed
  <2>3. QED  BY <1>2, <1>1, <2>1, <2>2 DEF TreesTyped
<1>18. ASSUME NEW t \in Trees, NEW S, S \subseteq Trees, Left(t, S)
      PROVE  TreesTyped'
  BY <1>2, <1>1, <1>18 DEF Left, TreesTyped, Places
<1>19. CASE Crash
  <2>1. CASE Left(files.root, {files.staging, files.backup})
    BY <1>2, <1>18, <2>1
  <2>2. CASE step = "stage" /\ \E k \in {"whole", "broken", "bare"} :
                                 Left(files.root, {[version |-> op.version, kind |-> k]})
    <3>1. PICK k \in {"whole", "broken", "bare"} : Left(files.root, {[version |-> op.version, kind |-> k]})
      BY <2>2
    <3>2. op.version \in Versions
      BY <2>2 DEF Fits
    <3>3. [version |-> op.version, kind |-> k] \in Trees
      BY <3>2 DEF Trees
    <3>4. QED  BY <1>2, <1>18, <3>1, <3>3
  <2>3. CASE \E t \in Rest(files.root) : Left(t, {files.staging, files.backup})
    BY <1>2, <1>18, <2>3, RestTyped
  <2>4. CASE \E t \in Rest(files.backup) : Left(files.root, {t})
    BY <1>2, <1>18, <2>4, RestTyped
  <2>5. CASE \E t \in Rest(files.root) : Left(NoTree, {t})
    BY <1>2, <1>18, <2>5, RestTyped
  <2>6. CASE \E t \in residue \cup {files.backup} : \E u \in Rest(t) :
               /\ files' = [files EXCEPT !.backup = NoTree]
               /\ residue' = (((residue \cup {files.backup}) \ {t}) \cup {u}) \ {NoTree}
    <3>1. PICK t \in residue \cup {files.backup} : \E u \in Rest(t) :
                 /\ files' = [files EXCEPT !.backup = NoTree]
                 /\ residue' = (((residue \cup {files.backup}) \ {t}) \cup {u}) \ {NoTree}
      BY <2>6
    <3>2. PICK u \in Rest(t) : /\ files' = [files EXCEPT !.backup = NoTree]
                               /\ residue' = (((residue \cup {files.backup}) \ {t}) \cup {u}) \ {NoTree}
      BY <3>1
    <3>3. t \in Trees
      BY <1>2, <1>1
    <3>4. u \in Trees
      BY <3>3, RestTyped
    <3>5. files' \in Places
      BY <1>2, <1>1, <3>2, Placed
    <3>6. residue' \subseteq Trees \ {NoTree}
      BY <1>2, <1>1, <3>2, <3>4
    <3>7. QED  BY <3>5, <3>6 DEF TreesTyped
  <2>7. QED  BY <1>19, <2>1, <2>2, <2>3, <2>4, <2>5, <2>6 DEF Crash, HalfDone
<1>20. CASE Drift
  <2>1. files' = [files EXCEPT !.root = [files.root EXCEPT !.kind = "altered"]] /\ files.root.kind = "whole"
        /\ UNCHANGED residue
    BY <1>20 DEF Drift
  <2>2. files.root \in [version : Versions, kind : {"whole", "altered", "broken", "bare"}]
    BY <1>2, <2>1 DEF Trees, NoTree
  <2>3. PICK t : t = [files.root EXCEPT !.kind = "altered"]
    OBVIOUS
  <2>4. t \in Trees
    BY <2>2, <2>3 DEF Trees
  <2>5. QED  BY <1>2, <1>4, <1>1, <2>1, <2>3, <2>4, Placed
<1>21. QED
  BY <1>5, <1>6, <1>7, <1>8, <1>9, <1>10, <1>11, <1>12, <1>13, <1>14, <1>15, <1>16, <1>17, <1>19, <1>20,
     Writers,
     ZenonT(60) DEF TreeSteps

\* Who sets a flag, and what the operation and its preflight are.
TxSteps == Unplug \/ Unlist \/ Aside \/ Promote \/ ForgetPlugin \/ ForgetMarket \/ Discard \/ Restore \/ Reregister
           \/ RemoveAgent \/ RemoveRecord \/ RecoverFiles \/ RecoverRegistration \/ RecoverAgent
           \/ RecoverRecord \/ PurgeRoot \/ PurgeResidue \/ PurgeAgent \/ PurgeRecord \/ EnableUndo
Resets == Begins \/ Return \/ Crash

\* The other steps leave the flags, the operation and what its preflight found alone.
LEMMA TxWriters ==
  ASSUME Next
  PROVE  /\ TxSteps \/ Resets \/ UNCHANGED tx
         /\ Resets \/ End \/ UNCHANGED op
         /\ Resets \/ UNCHANGED before
<1>. USE DEF At, TxSteps, Resets, Begins
<1>1. CASE \E k \in Kinds, v \in Versions : Begin(k, v)
  BY <1>1
<1>2. CASE Preflight \/ Unplug \/ Unlist \/ Aside
  BY <1>2, Zenon DEF Preflight, Unplug, Unlist, Aside
<1>3. CASE Install
  BY <1>3, Zenon DEF Install, Stage, Promote, List, Plug, Record, Commit, NoteCheck
<1>4. CASE Rollback
  BY <1>4, Zenon DEF Rollback, ForgetPlugin, ForgetMarket, Discard, Restore, Reregister, CleanUp
<1>5. CASE Remove
  BY <1>5, Zenon DEF Remove, RemoveAgent, RemoveRecord, RemoveFiles
<1>6. CASE Recover
  BY <1>6, Zenon DEF Recover, RecoverFiles, RecoverRegistration, RecoverAgent, RecoverRecord
<1>7. CASE Purge
  BY <1>7, Zenon DEF Purge, PurgeRoot, PurgeResidue, PurgeAgent, PurgeRecord, PurgeEnds
<1>8. CASE AutoUpdate
  BY <1>8, Zenon DEF AutoUpdate, EnableRecord, EnableAgent, EnableUndo, DisableAgent, DisableRecord
<1>9. CASE End
  BY <1>9, Zenon DEF End, Report
<1>10. CASE Return \/ Crash
  BY <1>10
<1>11. CASE Drift
  BY <1>11 DEF Drift
<1>12. QED
  BY <1>1, <1>2, <1>3, <1>4, <1>5, <1>6, <1>7, <1>8, <1>9, <1>10, <1>11, ZenonT(60) DEF Next

\* What becomes of the history.
ExcuseSteps == Record \/ PurgeRoot \/ PurgeResidue \/ EnableRecord \/ Crash

\* The history is written by these steps, and a failure of the CLI is not forgotten.
LEMMA HistoryWriters ==
  ASSUME Next
  PROVE  /\ hostFailed' \in {hostFailed, TRUE}
         /\ ExcuseSteps \/ UNCHANGED excused
<1>. USE DEF At, Skip, HostStep, AtomicStep, Works, Fails, HostFails, ExcuseSteps
<1>1. CASE \E k \in Kinds, v \in Versions : Begin(k, v)
  BY <1>1 DEF Begin
<1>2. CASE Preflight
  <2>1. UNCHANGED excused
    BY <1>2 DEF Preflight
  <2>2. hostFailed' \in {hostFailed, TRUE}
    BY <1>2, Zenon DEF Preflight
  <2>3. QED  BY <2>1, <2>2
<1>3. CASE Unplug \/ Unlist \/ Aside
  BY <1>3 DEF Unplug, Unlist, Aside
<1>4. CASE Install
  BY <1>4 DEF Install, Stage, Promote, List, Plug, Record, Commit, NoteCheck
<1>5. CASE Rollback
  BY <1>5 DEF Rollback, ForgetPlugin, ForgetMarket, Discard, Restore, Reregister, CleanUp
<1>6. CASE Remove
  BY <1>6 DEF Remove, RemoveAgent, RemoveRecord, RemoveFiles
<1>7. CASE Recover
  BY <1>7 DEF Recover, RecoverFiles, RecoverRegistration, RecoverAgent, RecoverRecord
<1>8. CASE Purge
  BY <1>8 DEF Purge, PurgeRoot, PurgeResidue, PurgeAgent, PurgeRecord, PurgeEnds
<1>9. CASE AutoUpdate
  BY <1>9 DEF AutoUpdate, EnableRecord, EnableAgent, EnableUndo, DisableAgent, DisableRecord
<1>10. CASE End \/ Return
  BY <1>10 DEF End, Report, Return
<1>11. CASE Crash
  BY <1>11 DEF Crash
<1>12. CASE Drift
  BY <1>12 DEF Drift
<1>13. QED
  BY <1>1, <1>2, <1>3, <1>4, <1>5, <1>6, <1>7, <1>8, <1>9, <1>10, <1>11, <1>12, ZenonT(60) DEF Next

\* The types are kept.
LEMMA ShapedNext ==
  ASSUME Shaped, Numbered, op.kind # "none" => op.version \in Versions, Fits, Next
  PROVE  Shaped'
<1>1. /\ files \in Places /\ host \in Hosts /\ desired \in Desires /\ agent \in Agents /\ op \in Ops
      /\ before \in Befores /\ tx \in Flags /\ files.root \in Trees
  BY DEF Shaped, Places
<1>2. TreesTyped'
  BY TreesTypedNext
<1>3. excused' \in BOOLEAN /\ hostFailed' \in BOOLEAN
  <2>1. excused \in BOOLEAN /\ hostFailed \in BOOLEAN
    BY DEF Shaped
  <2>2. CASE ExcuseSteps
    BY <2>1, <2>2, HistoryWriters
       DEF ExcuseSteps, Record, PurgeRoot, PurgeResidue, EnableRecord, Crash, Skip, disk
  <2>3. QED  BY <2>1, <2>2, HistoryWriters
<1>4. host' \in Hosts
  <2>1. files.root.version \in Versions \cup {Nothing}
    BY <1>1 DEF Trees, NoTree
  <2>2. \A m \in BOOLEAN : [host EXCEPT !.market = m] \in Hosts
    BY <1>1 DEF Hosts
  <2>3. \A v \in Versions \cup {Nothing} : [host EXCEPT !.plugin = v] \in Hosts
    BY <1>1 DEF Hosts
  <2>4. Registered \in Hosts
    BY <1>1, <2>1 DEF Registered, Hosts
  <2>5. QED
    BY <1>1, <2>1, <2>2, <2>3, <2>4, Writers
       DEF HostSteps, Unplug, Unlist, List, Plug, ForgetPlugin, ForgetMarket, Reregister, RecoverRegistration,
           HostStep, Skip, HostBecomes, disk
<1>5. desired' \in Desires
  <2>1. NotInstalled \in Desires /\ before.desired \in Desires /\ Installed(before.host) \in Versions \cup {Nothing}
    BY <1>1 DEF NotInstalled, Desires, Befores, Installed, Hosts
  <2>2. Recovered \in Desires
    BY <2>1, <1>1 DEF Recovered, Desires, Flags
  <2>3. [desired EXCEPT !.installed = TRUE, !.version = op.version] \in Desires
        /\ [desired EXCEPT !.auto = FALSE] \in Desires
    BY <1>1 DEF Desires, Ops
  <2>4. ASSUME NEW v \in Versions \cup {Nothing}
        PROVE  [installed |-> TRUE, auto |-> TRUE, version |-> v] \in Desires
    BY DEF Desires
  <2>5. CASE EnableRecord
    BY <1>1, <2>1, <2>4, <2>5 DEF EnableRecord, AtomicStep, DesiredBecomes, disk, Desires
  <2>6. QED
    BY <1>1, <2>1, <2>2, <2>3, <2>5, Writers
       DEF DesiredSteps, Record, RemoveRecord, RecoverRecord, PurgeRecord, EnableUndo, DisableRecord,
           AtomicStep, DesiredBecomes, Skip, disk
<1>6. agent' \in Agents
  BY <1>1, Writers DEF AgentSteps, RemoveAgent, RecoverAgent, PurgeAgent, EnableAgent, DisableAgent,
     Crash, Agent,
     Enabled, Disabled, EnableFails, DisableFails, Skip, disk, Agents
<1>7. op' \in Ops
  <2>1. CASE Resets
    <3>1. NoOp \in Ops
      BY DEF NoOp, Ops
    <3>2. \A k \in Kinds, v \in Versions : [kind |-> k, version |-> v, ok |-> FALSE] \in Ops
      BY DEF Ops
    <3>3. QED  BY <2>1, <3>1, <3>2 DEF Resets, Begins, Begin, Return, Crash
  <2>2. CASE End
    <3>1. PICK b \in BOOLEAN : op' = [op EXCEPT !.ok = b]
      BY <2>2 DEF End, Report
    <3>2. QED  BY <1>1, <3>1 DEF Ops
  <2>3. QED  BY <1>1, <2>1, <2>2, TxWriters
<1>8. before' \in Befores
  <2>1. Now \in Befores /\ NotBegun \in Befores
    BY <1>1 DEF Now, NotBegun, Befores, NoHost, Hosts, Desires, NotInstalled, Agents, Trees
  <2>2. QED  BY <1>1, <2>1, TxWriters DEF Resets, Begins, Begin, Return, Crash
<1>9. tx' \in Flags
  <2>1. NoTx \in Flags
    BY DEF NoTx, Flags
  <2>2. CASE Resets
    BY <2>1, <2>2 DEF Resets, Begins, Begin, Return, Crash
  <2>3. CASE UNCHANGED tx
    BY <1>1, <2>3
  <2>4. before.host.market \in BOOLEAN
    BY <1>1 DEF Befores, Hosts
  <2>5. CASE Unplug \/ Unlist
    BY <1>1, <2>4, <2>5 DEF Unplug, Unlist, Noted, Flags
  <2>6. CASE Aside
    BY <1>1, <2>6 DEF Aside, Flags
  <2>7. CASE Promote
    BY <1>1, <2>7 DEF Promote, Flags
  <2>8. \A b \in BOOLEAN : [tx EXCEPT !.clean = b] \in Flags /\ [tx EXCEPT !.complete = b] \in Flags
                           /\ [tx EXCEPT !.restored = b] \in Flags /\ [tx EXCEPT !.agentOK = b] \in Flags
                           /\ [tx EXCEPT !.touched = b] \in Flags /\ [tx EXCEPT !.written = b] \in Flags
    BY <1>1 DEF Flags
  <2>9. CASE ForgetPlugin \/ ForgetMarket \/ Discard \/ Restore \/ Reregister
    BY <1>1, <2>8, <2>9 DEF ForgetPlugin, ForgetMarket, Discard, Restore, Reregister, Unclean, Goto
  <2>10. CASE RemoveAgent \/ RemoveRecord
    BY <1>1, <2>8, <2>10 DEF RemoveAgent, RemoveRecord
  <2>11. [tx EXCEPT !.restored = TRUE, !.backed = FALSE] \in Flags
         /\ [tx EXCEPT !.complete = FALSE, !.clean = FALSE] \in Flags
    BY <1>1 DEF Flags
  <2>12. CASE RecoverFiles \/ RecoverRegistration \/ RecoverAgent
    BY <1>1, <2>8, <2>11, <2>12 DEF RecoverFiles, RecoverRegistration, RecoverAgent
  <2>13. CASE RecoverRecord
    <3>1. PICK clean \in BOOLEAN : clean = (tx.complete /\ tx.agentOK)
      OBVIOUS
    <3>2. tx' \in {tx, [tx EXCEPT !.clean = clean], [tx EXCEPT !.clean = FALSE]}
      BY <2>13, <3>1 DEF RecoverRecord
    <3>3. QED  BY <1>1, <2>8, <3>2
  <2>14. CASE PurgeRoot \/ PurgeResidue \/ PurgeAgent \/ PurgeRecord \/ EnableUndo
    BY <1>1, <2>8, <2>11, <2>14 DEF PurgeRoot, PurgeResidue, PurgeAgent, PurgeRecord, EnableUndo,
       Unclean, Goto
  <2>15. QED
    BY <2>2, <2>3, <2>5, <2>6, <2>7, <2>9, <2>10, <2>12, <2>13, <2>14, TxWriters DEF TxSteps
<1>10. QED  BY <1>2, <1>3, <1>4, <1>5, <1>6, <1>7, <1>8, <1>9 DEF Shaped, TreesTyped

-----------------------------------------------------------------------------
(***************************************************************************)
(* The steps of an operation.                                              *)
(***************************************************************************)
Versioned == op.kind # "none" => op.version \in Versions

\* Every operation goes through the steps of its kind, for a version.
LEMMA FitsNext ==
  ASSUME Shaped, Versioned, Fits, Step
  PROVE  Versioned' /\ Fits'
<1>. USE DEF Versioned, Fits, Installs, Kinds, Registering, Activating, RollingBack, Removing,
   Recovering, Purging,
             Ending
<1>1. /\ op \in Ops
      /\ op.kind \in Installs => Failure = "forget plugin"
      /\ op.kind = "remove" => Failure = "recover files"
      /\ op.kind = "purge" => Failure = "purge root"
      /\ op.kind \in {"enable", "disable", "none"} => Failure = "failed"
  BY FailureIs DEF Shaped, Ops
<1>2. CASE \E k \in Kinds, v \in Versions : BeginDoes(k, v)
  BY <1>2 DEF BeginDoes
<1>3. CASE PreflightDoes
  BY <1>3 DEF PreflightDoes, AlreadyCurrent
<1>4. CASE EndDoes \/ ReturnDoes \/ CrashDoes \/ DriftDoes
  BY <1>4 DEF EndDoes, ReturnDoes, CrashDoes, DriftDoes
<1>5. CASE StageDoes \/ UnplugDoes \/ UnlistDoes \/ AsideDoes \/ PromoteDoes
  BY <1>1, <1>5 DEF StageDoes, UnplugDoes, UnlistDoes, AsideDoes, PromoteDoes, Ops
<1>6. CASE ListDoes \/ PlugDoes \/ RecordDoes \/ CommitDoes \/ NoteCheckDoes
  BY <1>1, <1>6 DEF ListDoes, PlugDoes, RecordDoes, CommitDoes, NoteCheckDoes, Ops
<1>7. CASE ForgetPluginDoes \/ ForgetMarketDoes \/ DiscardDoes \/ RestoreDoes \/ ReregisterDoes \/ CleanUpDoes
  BY <1>1, <1>7 DEF ForgetPluginDoes, ForgetMarketDoes, DiscardDoes, RestoreDoes, ReregisterDoes,
     CleanUpDoes, Ops
<1>8. CASE RemoveAgentDoes \/ RemoveRecordDoes \/ RemoveFilesDoes
  BY <1>1, <1>8 DEF RemoveAgentDoes, RemoveRecordDoes, RemoveFilesDoes, Ops
<1>9. CASE RecoverFilesDoes \/ RecoverRegistrationDoes \/ RecoverAgentDoes \/ RecoverRecordDoes
  BY <1>1, <1>9 DEF RecoverFilesDoes, RecoverRegistrationDoes, RecoverAgentDoes, RecoverRecordDoes, Ops
<1>10. CASE PurgeRootDoes \/ PurgeResidueDoes \/ PurgeAgentDoes \/ PurgeRecordDoes \/ PurgeEndsDoes
  BY <1>1, <1>10 DEF PurgeRootDoes, PurgeResidueDoes, PurgeAgentDoes, PurgeRecordDoes, PurgeEndsDoes, Ops
<1>11. CASE EnableRecordDoes \/ EnableAgentDoes \/ EnableUndoDoes \/ DisableAgentDoes \/ DisableRecordDoes
  BY <1>1, <1>11 DEF EnableRecordDoes, EnableAgentDoes, EnableUndoDoes, DisableAgentDoes,
     DisableRecordDoes, Ops
<1>12. QED
  BY <1>2, <1>3, <1>4, <1>5, <1>6, <1>7, <1>8, <1>9, <1>10, <1>11, ZenonT(60) DEF Step

-----------------------------------------------------------------------------
(***************************************************************************)
(* Where the trees are.                                                    *)
(***************************************************************************)
Good(t, v) == t.version = v /\ t.kind \in {"whole", "altered"}

\* What was in the root when the operation began, perhaps with a file of the user's since.
Original(t) ==
  /\ t.version = before.root.version
  /\ t.kind = before.root.kind \/ (before.root.kind = "whole" /\ t.kind = "altered")

Moves == Installs \cup {"remove"}

StagingIs ==
  /\ Exists(files.staging) => op.kind \in Installs
  /\ Exists(files.staging) => step \in {"unplug", "unlist", "aside", "promote", "failed"} \cup RollingBack
  /\ op.kind \in Installs /\ step \in {"unplug", "unlist", "aside", "promote"} =>
       files.staging = Whole(op.version)

BackupIs ==
  /\ Exists(files.backup) => tx.backed \/ (step = "purge residue" /\ excused)
  /\ Exists(files.backup) => step # "done"
  /\ tx.backed => op.kind \in Moves /\ Exists(before.root)
  /\ tx.backed => step \notin Registering \cup {"stage"}
  /\ tx.backed /\ ~tx.restored /\ step \in Activating \cup RollingBack \cup Removing \cup {"commit"} =>
       Original(files.backup)
  /\ tx.backed /\ step = "recover files" =>
       Original(files.backup) \/ (tx.written /\ ~Verified(files.backup))
  /\ step = "remove files" => tx.written

RootIs ==
  /\ tx.active => op.kind \in Installs /\ step \notin Registering \cup {"stage", "promote"}
  /\ tx.active /\ ~tx.backed => ~Exists(before.root)
  /\ op.kind \in Moves /\ ~tx.backed /\ ~tx.active => Original(files.root)
  /\ tx.backed /\ ~tx.active /\ ~tx.restored => ~Exists(files.root)
  /\ step \in {"promote"} \cup Removing => ~Exists(files.root)
  /\ step \in {"list", "plug", "record", "commit"} => tx.active /\ Good(files.root, op.version)

RestoredIs ==
  /\ tx.restored => step \in {"reregister", "clean up", "failed", "done"} \cup Recovering
  /\ tx.restored /\ op.kind \in Installs => tx.backed /\ ~Exists(files.backup) /\ Original(files.root)
  /\ op.kind = "remove" /\ tx.restored => ~tx.backed
  /\ tx.complete /\ step \in {"recover registration", "recover agent", "recover record"} => tx.restored

Layout == StagingIs /\ BackupIs /\ RootIs /\ RestoredIs

\* A tree that is not there is of no kind.
LEMMA Absent ==
  /\ \A t \in Trees : t = NoTree <=> t.kind = "none"
  /\ NoTree.kind = "none" /\ NoTree.version = Nothing
  /\ \A v : Whole(v).version = v /\ Whole(v).kind = "whole" /\ Whole(v) # NoTree
<1>1. NoTree.kind = "none" /\ NoTree.version = Nothing
  BY DEF NoTree
<1>2. \A v : Whole(v).version = v /\ Whole(v).kind = "whole"
  BY DEF Whole
<1>3. QED  BY <1>1, <1>2 DEF Trees

\* What a kill leaves: nothing staged or backed up, and the root, or a part of it.
LEMMA CrashLeaves ==
  ASSUME Shaped, StagingIs, Fits, CrashDoes
  PROVE  files'.staging = NoTree /\ files'.backup = NoTree /\ files'.root \in Rest(files.root) \cup {files.root}
<1>. USE DEF StagingIs, Fits, Kinds, Installs, Registering, Activating, RollingBack, Removing,
   Recovering, Purging,
             Ending, Exists
<1>1. files \in Places /\ op \in Ops
  BY DEF Shaped
<1>2. ASSUME NEW r, NEW S, Left(r, S)
      PROVE  files'.root = r /\ files'.staging = NoTree /\ files'.backup = NoTree
  BY <1>2 DEF Left
<1>3. CASE Left(files.root, {files.staging, files.backup})
  BY <1>2, <1>3
<1>4. CASE HalfDone
  <2>1. CASE step = "purge residue" /\ files' = [files EXCEPT !.backup = NoTree]
    BY <1>1, <2>1 DEF Places, Ops
  <2>2. QED  BY <1>2, <1>4, <2>1, NothingLeft, Zenon DEF HalfDone
<1>5. QED  BY <1>3, <1>4 DEF CrashDoes

\* The tree of an installation is staged until it goes into the root.
LEMMA StagingIsNext ==
  ASSUME Shaped, Versioned, Fits, Layout, Step
  PROVE  StagingIs'
<1>. USE DEF Layout, StagingIs, BackupIs, RootIs, RestoredIs, Fits, Versioned, Kinds, Installs,
             Moves, Registering, Activating, RollingBack, Removing, Recovering, Purging, Ending,
             Exists, Original, Good, Verified
<1>1. /\ op \in Ops
      /\ op.kind \in Installs => Failure = "forget plugin"
      /\ op.kind = "remove" => Failure = "recover files"
      /\ op.kind = "purge" => Failure = "purge root"
      /\ op.kind \in {"enable", "disable", "none"} => Failure = "failed"
  BY FailureIs DEF Shaped, Ops
<1>2. CASE \E k \in Kinds, v \in Versions : BeginDoes(k, v)
  BY <1>1, <1>2 DEF BeginDoes, ClearFlags
<1>3. CASE PreflightDoes \/ EndDoes \/ ReturnDoes
  BY <1>1, <1>3
     DEF PreflightDoes, EndDoes, ReturnDoes, KeepFlags, KeepEnd, NotClean, ClearFlags, Ops
<1>4. CASE StageDoes \/ UnplugDoes \/ UnlistDoes
  BY <1>1, <1>4
     DEF StageDoes, UnplugDoes, UnlistDoes, KeepFlags, KeepEnd, NotClean, ClearFlags, Ops
<1>5. CASE AsideDoes \/ PromoteDoes \/ ListDoes \/ PlugDoes \/ RecordDoes
  BY <1>1, <1>5
     DEF AsideDoes, PromoteDoes, ListDoes, PlugDoes, RecordDoes, KeepFlags, KeepEnd, NotClean,
         ClearFlags, Ops
<1>6. CASE CommitDoes \/ NoteCheckDoes
  BY <1>1, <1>6
     DEF CommitDoes, NoteCheckDoes, KeepFlags, KeepEnd, NotClean, ClearFlags, Ops
<1>7. CASE ForgetPluginDoes \/ ForgetMarketDoes \/ DiscardDoes
  BY <1>1, <1>7
     DEF ForgetPluginDoes, ForgetMarketDoes, DiscardDoes, KeepFlags, KeepEnd, NotClean, ClearFlags,
         Ops
<1>8. CASE RestoreDoes \/ ReregisterDoes
  BY <1>1, <1>8
     DEF RestoreDoes, ReregisterDoes, KeepFlags, KeepEnd, NotClean, ClearFlags, Ops
<1>9. CASE CleanUpDoes
  BY <1>1, <1>9, RestTyped DEF CleanUpDoes, Shaped, Places
<1>10. CASE RemoveAgentDoes \/ RemoveRecordDoes \/ RemoveFilesDoes
  BY <1>1, <1>10
     DEF RemoveAgentDoes, RemoveRecordDoes, RemoveFilesDoes, KeepFlags, KeepEnd, NotClean,
         ClearFlags, Ops
<1>11. CASE RecoverFilesDoes \/ RecoverRegistrationDoes \/ RecoverAgentDoes \/ RecoverRecordDoes
  BY <1>1, <1>11
     DEF RecoverFilesDoes, RecoverRegistrationDoes, RecoverAgentDoes, RecoverRecordDoes, KeepFlags,
         KeepEnd, NotClean, ClearFlags, Ops
<1>12. CASE PurgeRootDoes \/ PurgeResidueDoes \/ PurgeAgentDoes \/ PurgeRecordDoes \/ PurgeEndsDoes
  BY <1>1, <1>12
     DEF PurgeRootDoes, PurgeResidueDoes, PurgeAgentDoes, PurgeRecordDoes, PurgeEndsDoes, KeepFlags,
         KeepEnd, NotClean, ClearFlags, Ops
<1>13. CASE EnableRecordDoes \/ EnableAgentDoes \/ EnableUndoDoes \/ DisableAgentDoes \/ DisableRecordDoes
  BY <1>1, <1>13
     DEF EnableRecordDoes, EnableAgentDoes, EnableUndoDoes, DisableAgentDoes, DisableRecordDoes,
         KeepFlags, KeepEnd, NotClean, ClearFlags, Ops
<1>14. CASE DriftDoes
  BY <1>1, <1>14
     DEF DriftDoes, KeepFlags, KeepEnd, NotClean, ClearFlags, Ops
<1>15. CASE CrashDoes
  BY <1>15, CrashLeaves DEF CrashDoes, ClearFlags
<1> QED
  BY <1>2, <1>3, <1>4, <1>5, <1>6, <1>7, <1>8, <1>9, <1>10, <1>11, <1>12, <1>13, <1>14, <1>15,
     ZenonT(60)
     DEF Step

\* What is renamed aside is what was in the root.
LEMMA BackupIsNext ==
  ASSUME Shaped, Versioned, Fits, Layout, Step
  PROVE  BackupIs'
<1>. USE DEF Layout, StagingIs, BackupIs, RootIs, RestoredIs, Fits, Versioned, Kinds, Installs,
             Moves, Registering, Activating, RollingBack, Removing, Recovering, Purging, Ending,
             Exists, Original, Good, Verified
<1>1. /\ op \in Ops
      /\ op.kind \in Installs => Failure = "forget plugin"
      /\ op.kind = "remove" => Failure = "recover files"
      /\ op.kind = "purge" => Failure = "purge root"
      /\ op.kind \in {"enable", "disable", "none"} => Failure = "failed"
  BY FailureIs DEF Shaped, Ops
<1>2. /\ files.root \in Trees /\ files.staging \in Trees /\ files.backup \in Trees /\ before.root \in Trees
      /\ NoTree \in Trees /\ tx \in Flags
  BY DEF Shaped, Places, Befores, Trees
<1>3. CASE \E k \in Kinds, v \in Versions : BeginDoes(k, v)
  BY <1>1, <1>2, <1>3 DEF BeginDoes, ClearFlags
<1>4. CASE PreflightDoes \/ EndDoes \/ ReturnDoes
  BY <1>1, <1>2, <1>4
     DEF PreflightDoes, EndDoes, ReturnDoes, KeepFlags, KeepEnd, NotClean, ClearFlags, Ops
<1>5. CASE StageDoes \/ UnplugDoes \/ UnlistDoes
  BY <1>1, <1>2, <1>5
     DEF StageDoes, UnplugDoes, UnlistDoes, KeepFlags, KeepEnd, NotClean, ClearFlags, Ops
<1>6. CASE PromoteDoes \/ ListDoes \/ PlugDoes \/ RecordDoes
  BY <1>1, <1>2, <1>6
     DEF PromoteDoes, ListDoes, PlugDoes, RecordDoes, KeepFlags, KeepEnd, NotClean, ClearFlags, Ops
<1>7. CASE AsideDoes
  <2>1. op.kind \in Moves /\ ~tx.active /\ ~tx.backed /\ ~tx.restored /\ Original(files.root)
    BY <1>1, <1>2, <1>7 DEF AsideDoes, Ops
  <2>2. files.root # NoTree => before.root # NoTree
    BY <1>2, <2>1, Absent
  <2>3. CASE step' = Failure /\ UNCHANGED files /\ ~tx'.backed
    BY <1>1, <1>2, <1>7, <2>1, <2>3 DEF AsideDoes, KeepEnd, Ops
  <2>4. CASE step' # Failure \/ tx'.backed
    BY <1>1, <1>2, <1>7, <2>1, <2>2, <2>4 DEF AsideDoes, KeepEnd, Ops
  <2>5. QED  BY <1>7, <2>3, <2>4 DEF AsideDoes
<1>8. CASE NoteCheckDoes
  BY <1>1, <1>2, <1>8
     DEF NoteCheckDoes, KeepFlags, KeepEnd, NotClean, ClearFlags, Ops
<1>9. CASE CommitDoes
  BY <1>1, <1>2, <1>9, RestTyped DEF CommitDoes
<1>10. CASE ForgetPluginDoes \/ ForgetMarketDoes \/ DiscardDoes
  BY <1>1, <1>2, <1>10
     DEF ForgetPluginDoes, ForgetMarketDoes, DiscardDoes, KeepFlags, KeepEnd, NotClean, ClearFlags,
         Ops
<1>11. CASE RestoreDoes \/ ReregisterDoes \/ CleanUpDoes
  BY <1>1, <1>2, <1>11
     DEF RestoreDoes, ReregisterDoes, CleanUpDoes, KeepFlags, KeepEnd, NotClean, ClearFlags, Ops
<1>12. CASE RemoveAgentDoes \/ RemoveRecordDoes
  BY <1>1, <1>2, <1>12
     DEF RemoveAgentDoes, RemoveRecordDoes, KeepFlags, KeepEnd, NotClean, ClearFlags, Ops
<1>13. CASE RemoveFilesDoes
  BY <1>1, <1>2, <1>13, RestTyped, Absent DEF RemoveFilesDoes
<1>14. CASE RecoverFilesDoes \/ RecoverRegistrationDoes \/ RecoverAgentDoes \/ RecoverRecordDoes
  BY <1>1, <1>2, <1>14
     DEF RecoverFilesDoes, RecoverRegistrationDoes, RecoverAgentDoes, RecoverRecordDoes, KeepFlags,
         KeepEnd, NotClean, ClearFlags, Ops
<1>15. CASE PurgeRootDoes \/ PurgeResidueDoes \/ PurgeAgentDoes \/ PurgeRecordDoes \/ PurgeEndsDoes
  BY <1>1, <1>2, <1>15
     DEF PurgeRootDoes, PurgeResidueDoes, PurgeAgentDoes, PurgeRecordDoes, PurgeEndsDoes, KeepFlags,
         KeepEnd, NotClean, ClearFlags, Ops
<1>16. CASE EnableRecordDoes \/ EnableAgentDoes \/ EnableUndoDoes \/ DisableAgentDoes \/ DisableRecordDoes
  BY <1>1, <1>2, <1>16
     DEF EnableRecordDoes, EnableAgentDoes, EnableUndoDoes, DisableAgentDoes, DisableRecordDoes,
         KeepFlags, KeepEnd, NotClean, ClearFlags, Ops
<1>17. CASE DriftDoes
  BY <1>1, <1>2, <1>17
     DEF DriftDoes, KeepFlags, KeepEnd, NotClean, ClearFlags, Ops
<1>18. CASE CrashDoes
  BY <1>18, CrashLeaves DEF CrashDoes, ClearFlags
<1> QED
  BY <1>3, <1>4, <1>5, <1>6, <1>7, <1>8, <1>9, <1>10, <1>11, <1>12, <1>13, <1>14, <1>15, <1>16,
     <1>17, <1>18, ZenonT(60)
     DEF Step

\* The root is the old one, the new one, or empty.
LEMMA RootIsNext ==
  ASSUME Shaped, Versioned, Fits, Layout, Step
  PROVE  RootIs'
<1>. USE DEF Layout, StagingIs, BackupIs, RootIs, RestoredIs, Fits, Versioned, Kinds, Installs,
             Moves, Registering, Activating, RollingBack, Removing, Recovering, Purging, Ending,
             Exists, Original, Good, Verified
<1>1. /\ op \in Ops
      /\ op.kind \in Installs => Failure = "forget plugin"
      /\ op.kind = "remove" => Failure = "recover files"
      /\ op.kind = "purge" => Failure = "purge root"
      /\ op.kind \in {"enable", "disable", "none"} => Failure = "failed"
  BY FailureIs DEF Shaped, Ops
<1>2. /\ files.root \in Trees /\ files.staging \in Trees /\ files.backup \in Trees /\ before.root \in Trees
      /\ NoTree \in Trees /\ tx \in Flags
  BY DEF Shaped, Places, Befores, Trees
<1>3. CASE \E k \in Kinds, v \in Versions : BeginDoes(k, v)
  BY <1>1, <1>2, <1>3 DEF BeginDoes, ClearFlags
<1>4. CASE PreflightDoes \/ EndDoes \/ ReturnDoes
  BY <1>1, <1>2, <1>4
     DEF PreflightDoes, EndDoes, ReturnDoes, KeepFlags, KeepEnd, NotClean, ClearFlags, Ops
<1>5. CASE StageDoes \/ UnplugDoes \/ UnlistDoes
  BY <1>1, <1>2, <1>5
     DEF StageDoes, UnplugDoes, UnlistDoes, KeepFlags, KeepEnd, NotClean, ClearFlags, Ops
<1>6. CASE AsideDoes \/ ListDoes \/ PlugDoes \/ RecordDoes
  BY <1>1, <1>2, <1>6
     DEF AsideDoes, ListDoes, PlugDoes, RecordDoes, KeepFlags, KeepEnd, NotClean, ClearFlags, Ops
<1>7. CASE PromoteDoes
  <2>1. op.kind \in Installs /\ ~tx.active /\ ~tx.restored /\ files.root = NoTree /\ files.staging = Whole(op.version)
    BY <1>1, <1>2, <1>7 DEF PromoteDoes, Ops
  <2>2. ~tx.backed => before.root = NoTree
    BY <1>2, <2>1, Absent
  <2>3. PICK t : t = Whole(op.version)
    OBVIOUS
  <2>4. t.version = op.version /\ t.kind = "whole" /\ t # NoTree
    BY <2>3, Absent, Zenon
  <2>5. CASE step' = Failure /\ UNCHANGED files /\ ~tx'.active
    BY <1>1, <1>2, <1>7, <2>1, <2>5 DEF PromoteDoes, KeepEnd, Ops
  <2>6. CASE step' = "list" /\ files'.root = Whole(op.version) /\ tx'.active
    BY <1>1, <1>2, <1>7, <2>1, <2>2, <2>6, <2>3, <2>4 DEF PromoteDoes, KeepEnd, Ops
  <2>7. QED  BY <1>7, <2>1, <2>5, <2>6, <2>3, <2>4 DEF PromoteDoes
<1>8. CASE CommitDoes \/ NoteCheckDoes
  BY <1>1, <1>2, <1>8
     DEF CommitDoes, NoteCheckDoes, KeepFlags, KeepEnd, NotClean, ClearFlags, Ops
<1>9. CASE ForgetPluginDoes \/ ForgetMarketDoes \/ DiscardDoes
  BY <1>1, <1>2, <1>9
     DEF ForgetPluginDoes, ForgetMarketDoes, DiscardDoes, KeepFlags, KeepEnd, NotClean, ClearFlags,
         Ops
<1>10. CASE RestoreDoes \/ ReregisterDoes \/ CleanUpDoes
  BY <1>1, <1>2, <1>10
     DEF RestoreDoes, ReregisterDoes, CleanUpDoes, KeepFlags, KeepEnd, NotClean, ClearFlags, Ops
<1>11. CASE RemoveAgentDoes \/ RemoveRecordDoes \/ RemoveFilesDoes
  BY <1>1, <1>2, <1>11
     DEF RemoveAgentDoes, RemoveRecordDoes, RemoveFilesDoes, KeepFlags, KeepEnd, NotClean,
         ClearFlags, Ops
<1>12. CASE RecoverFilesDoes \/ RecoverRegistrationDoes \/ RecoverAgentDoes \/ RecoverRecordDoes
  BY <1>1, <1>2, <1>12
     DEF RecoverFilesDoes, RecoverRegistrationDoes, RecoverAgentDoes, RecoverRecordDoes, KeepFlags,
         KeepEnd, NotClean, ClearFlags, Ops
<1>13. CASE PurgeRootDoes \/ PurgeResidueDoes \/ PurgeAgentDoes \/ PurgeRecordDoes \/ PurgeEndsDoes
  BY <1>1, <1>2, <1>13
     DEF PurgeRootDoes, PurgeResidueDoes, PurgeAgentDoes, PurgeRecordDoes, PurgeEndsDoes, KeepFlags,
         KeepEnd, NotClean, ClearFlags, Ops
<1>14. CASE EnableRecordDoes \/ EnableAgentDoes \/ EnableUndoDoes \/ DisableAgentDoes \/ DisableRecordDoes
  BY <1>1, <1>2, <1>14
     DEF EnableRecordDoes, EnableAgentDoes, EnableUndoDoes, DisableAgentDoes, DisableRecordDoes,
         KeepFlags, KeepEnd, NotClean, ClearFlags, Ops
<1>15. CASE CrashDoes
  BY <1>15, CrashLeaves DEF CrashDoes, ClearFlags
<1>16. CASE DriftDoes
  BY <1>1, <1>2, <1>16, Absent DEF DriftDoes
<1> QED
  BY <1>3, <1>4, <1>5, <1>6, <1>7, <1>8, <1>9, <1>10, <1>11, <1>12, <1>13, <1>14, <1>15, <1>16,
     ZenonT(60)
     DEF Step

\* A root that is reported restored is the old one.
LEMMA RestoredIsNext ==
  ASSUME Shaped, Versioned, Fits, Layout, Step
  PROVE  RestoredIs'
<1>. USE DEF Layout, StagingIs, BackupIs, RootIs, RestoredIs, Fits, Versioned, Kinds, Installs,
             Moves, Registering, Activating, RollingBack, Removing, Recovering, Purging, Ending,
             Exists, Original, Good, Verified
<1>1. /\ op \in Ops
      /\ op.kind \in Installs => Failure = "forget plugin"
      /\ op.kind = "remove" => Failure = "recover files"
      /\ op.kind = "purge" => Failure = "purge root"
      /\ op.kind \in {"enable", "disable", "none"} => Failure = "failed"
  BY FailureIs DEF Shaped, Ops
<1>2. CASE \E k \in Kinds, v \in Versions : BeginDoes(k, v)
  BY <1>1, <1>2 DEF BeginDoes, ClearFlags
<1>3. CASE PreflightDoes \/ EndDoes \/ ReturnDoes
  BY <1>1, <1>3
     DEF PreflightDoes, EndDoes, ReturnDoes, KeepFlags, KeepEnd, NotClean, ClearFlags, Ops
<1>4. CASE StageDoes \/ UnplugDoes \/ UnlistDoes
  BY <1>1, <1>4
     DEF StageDoes, UnplugDoes, UnlistDoes, KeepFlags, KeepEnd, NotClean, ClearFlags, Ops
<1>5. CASE AsideDoes \/ PromoteDoes \/ ListDoes \/ PlugDoes \/ RecordDoes
  BY <1>1, <1>5
     DEF AsideDoes, PromoteDoes, ListDoes, PlugDoes, RecordDoes, KeepFlags, KeepEnd, NotClean,
         ClearFlags, Ops
<1>6. CASE CommitDoes \/ NoteCheckDoes
  BY <1>1, <1>6
     DEF CommitDoes, NoteCheckDoes, KeepFlags, KeepEnd, NotClean, ClearFlags, Ops
<1>7. CASE ForgetPluginDoes \/ ForgetMarketDoes \/ DiscardDoes
  BY <1>1, <1>7
     DEF ForgetPluginDoes, ForgetMarketDoes, DiscardDoes, KeepFlags, KeepEnd, NotClean, ClearFlags,
         Ops
<1>8. CASE RestoreDoes \/ ReregisterDoes \/ CleanUpDoes
  BY <1>1, <1>8
     DEF RestoreDoes, ReregisterDoes, CleanUpDoes, KeepFlags, KeepEnd, NotClean, ClearFlags, Ops
<1>9. CASE RemoveAgentDoes \/ RemoveRecordDoes \/ RemoveFilesDoes
  BY <1>1, <1>9
     DEF RemoveAgentDoes, RemoveRecordDoes, RemoveFilesDoes, KeepFlags, KeepEnd, NotClean,
         ClearFlags, Ops
<1>10. CASE RecoverFilesDoes \/ RecoverRegistrationDoes \/ RecoverAgentDoes \/ RecoverRecordDoes
  BY <1>1, <1>10
     DEF RecoverFilesDoes, RecoverRegistrationDoes, RecoverAgentDoes, RecoverRecordDoes, KeepFlags,
         KeepEnd, NotClean, ClearFlags, Ops
<1>11. CASE PurgeRootDoes \/ PurgeResidueDoes \/ PurgeAgentDoes \/ PurgeRecordDoes \/ PurgeEndsDoes
  BY <1>1, <1>11
     DEF PurgeRootDoes, PurgeResidueDoes, PurgeAgentDoes, PurgeRecordDoes, PurgeEndsDoes, KeepFlags,
         KeepEnd, NotClean, ClearFlags, Ops
<1>12. CASE EnableRecordDoes \/ EnableAgentDoes \/ EnableUndoDoes \/ DisableAgentDoes \/ DisableRecordDoes
  BY <1>1, <1>12
     DEF EnableRecordDoes, EnableAgentDoes, EnableUndoDoes, DisableAgentDoes, DisableRecordDoes,
         KeepFlags, KeepEnd, NotClean, ClearFlags, Ops
<1>13. CASE DriftDoes
  BY <1>1, <1>13
     DEF DriftDoes, KeepFlags, KeepEnd, NotClean, ClearFlags, Ops
<1>14. CASE CrashDoes
  BY <1>14, CrashLeaves DEF CrashDoes, ClearFlags
<1> QED
  BY <1>2, <1>3, <1>4, <1>5, <1>6, <1>7, <1>8, <1>9, <1>10, <1>11, <1>12, <1>13, <1>14, ZenonT(60)
     DEF Step

-----------------------------------------------------------------------------
(***************************************************************************)
(* What is recorded, and what the host's CLI answers.                      *)
(***************************************************************************)
\* What is so whatever failed.
RecordIs ==
  /\ Consistent(desired) /\ Consistent(before.desired)
  /\ step = "commit" => desired.installed /\ desired.version = op.version
  /\ step = "remove files" => ~desired.installed
  /\ step \in {"preflight", "stage", "unplug", "enable record"} => host = before.host
  /\ step = "enable record" => Installed(before.host) # Nothing
  /\ step = "unlist" => host.market = before.host.market
  /\ step = "plug" => host.market
  /\ tx.removed => before.host.market

\* As long as no command of the CLI has failed, nothing is registered while the root changes,
Detached ==
  /\ step \in {"aside", "promote", "list", "discard", "restore", "reregister",
               "recover files", "recover registration"} \cup Removing \cup Purging => host = NoHost
  /\ step \in {"unlist", "plug", "forget market"} => host.plugin = Nothing
\* a plugin is the one in the root, and a marketplace has a root.
Matches(h, root) ==
  /\ h.plugin # Nothing => h.market /\ Good(root, h.plugin)
  /\ h.market => Exists(root)
Obeyed == ~hostFailed => Detached /\ Matches(host, files.root) /\ Matches(before.host, before.root)

\* What a kill leaves of the root.
LEMMA CrashSpares ==
  ASSUME Shaped, StagingIs, Fits, CrashDoes
  PROVE  files'.root = files.root \/ (step = "discard" /\ tx.active) \/ step = "purge root"
<1>1. files \in Places
  BY DEF Shaped
<1>2. ASSUME NEW r, NEW S, Left(r, S)
      PROVE  files'.root = r
  BY <1>2 DEF Left
<1>3. CASE Left(files.root, {files.staging, files.backup})
  BY <1>2, <1>3
<1>4. CASE HalfDone
  <2>1. CASE step = "purge residue" /\ files' = [files EXCEPT !.backup = NoTree]
    BY <1>1, <2>1 DEF Places
  <2>2. QED  BY <1>2, <1>4, <2>1, Zenon DEF HalfDone
<1>5. QED  BY <1>3, <1>4 DEF CrashDoes

\* The desired state is one that can be read, and the host is as the preflight found it.
LEMMA RecordIsNext ==
  ASSUME Shaped, Versioned, Fits, RecordIs, Step
  PROVE  RecordIs'
<1>. USE DEF Fits, Versioned, Kinds, Installs, Moves, Registering, Activating, RollingBack,
             Removing, Recovering, Purging, Ending, RecordIs, Consistent
<1>1. /\ op \in Ops
      /\ op.kind \in Installs => Failure = "forget plugin"
      /\ op.kind = "remove" => Failure = "recover files"
      /\ op.kind = "purge" => Failure = "purge root"
      /\ op.kind \in {"enable", "disable", "none"} => Failure = "failed"
  BY FailureIs DEF Shaped, Ops
<1>2. /\ host \in Hosts /\ before.host \in Hosts /\ desired \in Desires /\ before.desired \in Desires
      /\ tx \in Flags
  BY DEF Shaped, Befores
<1>3. /\ NotInstalled.version = Nothing /\ ~NotInstalled.installed /\ ~NotInstalled.auto
      /\ NotBegun.host = NoHost /\ NotBegun.desired = NotInstalled /\ ~NoHost.market /\ NoHost.plugin = Nothing
      /\ NotBegun.root = NoTree
  BY DEF NotInstalled, NotBegun, NoHost
<1>4. op.kind # "none" => op.version # Nothing
  BY NothingIsNoVersion
<1>5. CASE \E k \in Kinds, v \in Versions : BeginDoes(k, v)
  BY <1>1, <1>2, <1>3, <1>4, <1>5 DEF BeginDoes, ClearFlags
<1>6. CASE EndDoes \/ ReturnDoes
  BY <1>1, <1>2, <1>3, <1>4, <1>6
     DEF EndDoes, ReturnDoes, KeepFlags, KeepEnd, NotClean, ClearFlags, Ops
<1>7. CASE PreflightDoes
  BY <1>1, <1>2, <1>7 DEF PreflightDoes, Refused, AlreadyCurrent, Ops
<1>8. CASE StageDoes \/ UnplugDoes \/ UnlistDoes
  BY <1>1, <1>2, <1>3, <1>4, <1>8
     DEF StageDoes, UnplugDoes, UnlistDoes, KeepFlags, KeepEnd, NotClean, ClearFlags, Ops
<1>9. CASE AsideDoes \/ PromoteDoes \/ ListDoes \/ PlugDoes \/ RecordDoes
  BY <1>1, <1>2, <1>3, <1>4, <1>9
     DEF AsideDoes, PromoteDoes, ListDoes, PlugDoes, RecordDoes, KeepFlags, KeepEnd, NotClean,
         ClearFlags, Ops
<1>10. CASE CommitDoes \/ NoteCheckDoes
  BY <1>1, <1>2, <1>3, <1>4, <1>10
     DEF CommitDoes, NoteCheckDoes, KeepFlags, KeepEnd, NotClean, ClearFlags, Ops
<1>11. CASE ForgetPluginDoes \/ ForgetMarketDoes \/ DiscardDoes
  BY <1>1, <1>2, <1>3, <1>4, <1>11
     DEF ForgetPluginDoes, ForgetMarketDoes, DiscardDoes, KeepFlags, KeepEnd, NotClean, ClearFlags,
         Ops
<1>12. CASE RestoreDoes \/ ReregisterDoes \/ CleanUpDoes
  BY <1>1, <1>2, <1>3, <1>4, <1>12
     DEF RestoreDoes, ReregisterDoes, CleanUpDoes, KeepFlags, KeepEnd, NotClean, ClearFlags, Ops
<1>13. CASE RemoveAgentDoes \/ RemoveRecordDoes \/ RemoveFilesDoes
  BY <1>1, <1>2, <1>3, <1>4, <1>13
     DEF RemoveAgentDoes, RemoveRecordDoes, RemoveFilesDoes, KeepFlags, KeepEnd, NotClean,
         ClearFlags, Ops
<1>14. CASE RecoverFilesDoes \/ RecoverRegistrationDoes \/ RecoverAgentDoes
  BY <1>1, <1>2, <1>3, <1>4, <1>14
     DEF RecoverFilesDoes, RecoverRegistrationDoes, RecoverAgentDoes, KeepFlags, KeepEnd, NotClean,
         ClearFlags, Ops
<1>15. CASE RecoverRecordDoes
  <2>1. Consistent(Recovered)
    BY <1>2, <1>3 DEF Recovered, Desires
  <2>2. QED  BY <1>1, <1>2, <1>15, <2>1 DEF RecoverRecordDoes, KeepFlags
<1>16. CASE PurgeRootDoes \/ PurgeResidueDoes \/ PurgeAgentDoes \/ PurgeRecordDoes \/ PurgeEndsDoes
  BY <1>1, <1>2, <1>3, <1>4, <1>16
     DEF PurgeRootDoes, PurgeResidueDoes, PurgeAgentDoes, PurgeRecordDoes, PurgeEndsDoes, KeepFlags,
         KeepEnd, NotClean, ClearFlags, Ops
<1>17. CASE EnableRecordDoes \/ EnableAgentDoes \/ EnableUndoDoes \/ DisableAgentDoes \/ DisableRecordDoes
  BY <1>1, <1>2, <1>3, <1>4, <1>17
     DEF EnableRecordDoes, EnableAgentDoes, EnableUndoDoes, DisableAgentDoes, DisableRecordDoes,
         KeepFlags, KeepEnd, NotClean, ClearFlags, Ops
<1>18. CASE DriftDoes
  BY <1>1, <1>2, <1>3, <1>4, <1>18
     DEF DriftDoes, KeepFlags, KeepEnd, NotClean, ClearFlags, Ops
<1>19. CASE CrashDoes
  BY <1>2, <1>3, <1>19 DEF CrashDoes, ClearFlags
<1> QED
  BY <1>5, <1>6, <1>7, <1>8, <1>9, <1>10, <1>11, <1>12, <1>13, <1>14, <1>15, <1>16, <1>17, <1>18,
     <1>19, ZenonT(60)
     DEF Step

\* A host with no marketplace and no plugin.
LEMMA Unregistered ==
  ASSUME NEW h \in Hosts
  PROVE  h = NoHost <=> ~h.market /\ h.plugin = Nothing
<1>1. h = [market |-> h.market, plugin |-> h.plugin] /\ h.market \in BOOLEAN
  BY DEF Hosts
<1>2. h.market => h # NoHost
  BY DEF NoHost
<1>3. h.plugin # Nothing => h # NoHost
  BY DEF NoHost
<1>4. ~h.market /\ h.plugin = Nothing => h = NoHost
  BY <1>1 DEF NoHost
<1>5. QED  BY <1>1, <1>2, <1>3, <1>4

\* What is registered again is what was registered before, and its root is back.
LEMMA RegisteredMatches ==
  ASSUME Shaped, Fits, Layout, RecordIs, Obeyed, ~hostFailed, tx.removed,
         \/ step = "reregister" /\ (tx.restored \/ ~tx.backed)
         \/ step = "recover registration" /\ tx.restored
  PROVE  Matches(Registered, files.root)
<1>. USE DEF Layout, RootIs, RestoredIs, Exists, Original, Good, Fits, Kinds, Installs, Moves,
   Registering, Activating,
             RollingBack, Removing, Recovering, Purging, Ending
<1>1. /\ files.root \in Trees /\ before.root \in Trees /\ op \in Ops /\ tx \in Flags
      /\ host \in Hosts /\ before.host \in Hosts
  BY DEF Shaped, Places, Befores
<1>2. op.kind \in Moves
  BY <1>1 DEF Ops
<1>3. Matches(before.host, before.root) /\ before.host.market /\ host = NoHost
  BY DEF RecordIs, Obeyed, Detached
<1>4. before.root # NoTree
  BY <1>3 DEF Matches
<1>5. Original(files.root)
  BY <1>1, <1>2, <1>4 DEF Flags
<1>6. files.root # NoTree
  BY <1>1, <1>4, <1>5, Absent
<1>7. CASE Installed(before.host) = Nothing
  <2>1. Registered.market /\ Registered.plugin = Nothing
    BY <1>3, <1>7 DEF Registered, NoHost
  <2>2. QED  BY <1>6, <2>1 DEF Matches
<1>8. CASE Installed(before.host) # Nothing
  <2>1. Registered.market /\ Registered.plugin = files.root.version
    BY <1>8 DEF Registered
  <2>2. before.root.kind \in {"whole", "altered"}
    BY <1>3, <1>8 DEF Matches, Installed
  <2>3. files.root.kind \in {"whole", "altered"}
    BY <1>5, <2>2
  <2>4. QED  BY <1>6, <2>1, <2>3 DEF Matches
<1>9. QED  BY <1>7, <1>8

\* While the CLI obeys, what it answers agrees with the root.
LEMMA ObeyedNext ==
  ASSUME Shaped, Shaped', Versioned, Fits, Layout, RecordIs, Obeyed, Step
  PROVE  Obeyed'
<1>. USE DEF Fits, Versioned, Kinds, Installs, Moves, Registering, Activating, RollingBack,
             Removing, Recovering, Purging, Ending, RecordIs, Obeyed, Detached, Matches, Exists,
             Good
<1>1. /\ op \in Ops
      /\ op.kind \in Installs => Failure = "forget plugin"
      /\ op.kind = "remove" => Failure = "recover files"
      /\ op.kind = "purge" => Failure = "purge root"
      /\ op.kind \in {"enable", "disable", "none"} => Failure = "failed"
  BY FailureIs DEF Shaped, Ops
<1>2. /\ host \in Hosts /\ before.host \in Hosts /\ host' \in Hosts /\ tx \in Flags
      /\ files.root \in Trees /\ files'.root \in Trees /\ before.root \in Trees
  BY DEF Shaped, Befores, Places
<1>3. \A h \in Hosts : h = NoHost <=> ~h.market /\ h.plugin = Nothing
  BY Unregistered
<1>4. /\ NoTree.kind = "none" /\ \A t \in Trees : t = NoTree <=> t.kind = "none"
      /\ ~NoHost.market /\ NoHost.plugin = Nothing
  BY Absent DEF NoHost
<1>5. CASE \E k \in Kinds, v \in Versions : BeginDoes(k, v)
  <2>1. PICK k \in Kinds, v \in Versions : BeginDoes(k, v)
    BY <1>5
  <2>2. UNCHANGED <<files, host, hostFailed>> /\ before'.root = files.root /\ before'.host = host
        /\ step' \in {"preflight", "unplug", "disable agent"}
    BY <2>1 DEF BeginDoes
  <2>3. QED  BY <2>2
<1>6. CASE PreflightDoes \/ EndDoes
  BY <1>1, <1>2, <1>3, <1>4, <1>6
     DEF PreflightDoes, EndDoes, KeepFlags, KeepEnd, NotClean, ClearFlags, Ops
<1>7. CASE ReturnDoes
  BY <1>1, <1>2, <1>3, <1>4, <1>7 DEF ReturnDoes, NotBegun
<1>8. CASE StageDoes \/ UnlistDoes
  BY <1>1, <1>2, <1>3, <1>4, <1>8
     DEF StageDoes, UnlistDoes, KeepFlags, KeepEnd, NotClean, ClearFlags, Ops
<1>9. CASE UnplugDoes
  <2>1. CASE hostFailed'
    BY <2>1
  <2>2. CASE ~hostFailed'
    <3>1. UNCHANGED <<op, before, files>> /\ step' = "unlist" /\ host'.market = host.market /\ host = before.host
      BY <2>2, <1>9 DEF UnplugDoes
    <3>2. host'.plugin = Nothing
      BY <2>2, <1>9, <3>1 DEF UnplugDoes, PluginToRemove, Installed
    <3>3. QED  BY <1>1, <1>2, <1>3, <1>4, <2>2, <1>9, <3>1, <3>2 DEF UnplugDoes
  <2>3. QED  BY <2>1, <2>2
<1>10. CASE AsideDoes \/ PromoteDoes \/ RecordDoes
  BY <1>1, <1>2, <1>3, <1>4, <1>10
     DEF AsideDoes, PromoteDoes, RecordDoes, KeepFlags, KeepEnd, NotClean, ClearFlags, Ops
<1>11. CASE ListDoes
  BY <1>1, <1>2, <1>3, <1>4, <1>11 DEF ListDoes, Layout, RootIs, Ops
<1>12. CASE PlugDoes
  BY <1>1, <1>2, <1>3, <1>4, <1>12 DEF PlugDoes, Layout, RootIs, Ops
<1>13. CASE CommitDoes \/ NoteCheckDoes
  BY <1>1, <1>2, <1>3, <1>4, <1>13
     DEF CommitDoes, NoteCheckDoes, KeepFlags, KeepEnd, NotClean, ClearFlags, Ops
<1>14. CASE ForgetPluginDoes \/ ForgetMarketDoes
  BY <1>1, <1>2, <1>3, <1>4, <1>14
     DEF ForgetPluginDoes, ForgetMarketDoes, KeepFlags, KeepEnd, NotClean, ClearFlags, Ops
<1>15. CASE DiscardDoes
  BY <1>1, <1>2, <1>3, <1>4, <1>15 DEF DiscardDoes, Layout, RootIs, Ops
<1>16. CASE RestoreDoes \/ CleanUpDoes
  BY <1>1, <1>2, <1>3, <1>4, <1>16
     DEF RestoreDoes, CleanUpDoes, KeepFlags, KeepEnd, NotClean, ClearFlags, Ops
<1>17. CASE ReregisterDoes
  BY <1>1, <1>2, <1>3, <1>4, <1>17, RegisteredMatches DEF ReregisterDoes, NotClean, KeepFlags, Ops
<1>18. CASE RemoveAgentDoes \/ RemoveRecordDoes \/ RemoveFilesDoes
  BY <1>1, <1>2, <1>3, <1>4, <1>18
     DEF RemoveAgentDoes, RemoveRecordDoes, RemoveFilesDoes, KeepFlags, KeepEnd, NotClean,
         ClearFlags, Ops
<1>19. CASE RecoverFilesDoes \/ RecoverAgentDoes \/ RecoverRecordDoes
  BY <1>1, <1>2, <1>3, <1>4, <1>19
     DEF RecoverFilesDoes, RecoverAgentDoes, RecoverRecordDoes, KeepFlags, KeepEnd, NotClean,
         ClearFlags, Ops
<1>20. CASE RecoverRegistrationDoes
  BY <1>1, <1>2, <1>3, <1>4, <1>20, RegisteredMatches DEF RecoverRegistrationDoes, KeepFlags, Ops
<1>21. CASE PurgeRootDoes \/ PurgeResidueDoes \/ PurgeAgentDoes \/ PurgeRecordDoes \/ PurgeEndsDoes
  BY <1>1, <1>2, <1>3, <1>4, <1>21
     DEF PurgeRootDoes, PurgeResidueDoes, PurgeAgentDoes, PurgeRecordDoes, PurgeEndsDoes, KeepFlags,
         KeepEnd, NotClean, ClearFlags, Ops
<1>22. CASE EnableRecordDoes \/ EnableAgentDoes \/ EnableUndoDoes \/ DisableAgentDoes \/ DisableRecordDoes
  BY <1>1, <1>2, <1>3, <1>4, <1>22
     DEF EnableRecordDoes, EnableAgentDoes, EnableUndoDoes, DisableAgentDoes, DisableRecordDoes,
         KeepFlags, KeepEnd, NotClean, ClearFlags, Ops
<1>23. CASE DriftDoes
  BY <1>1, <1>2, <1>3, <1>4, <1>23
     DEF DriftDoes, KeepFlags, KeepEnd, NotClean, ClearFlags, Ops
<1>24. CASE CrashDoes
  BY <1>1, <1>2, <1>3, <1>4, <1>24, CrashSpares DEF CrashDoes, NotBegun, Layout
<1> QED
  BY <1>5, <1>6, <1>7, <1>8, <1>9, <1>10, <1>11, <1>12, <1>13, <1>14, <1>15, <1>16, <1>17, <1>18,
     <1>19, <1>20, <1>21, <1>22, <1>23, <1>24, ZenonT(60)
     DEF Step

-----------------------------------------------------------------------------
(***************************************************************************)
(* The files of the recorded version.                                      *)
(***************************************************************************)
\* The root counts unless it is the new one and may still be discarded.
RootCounts == ~(tx.active /\ step \in Activating \cup {"forget plugin", "forget market", "discard", "restore"})

\* The files of a version, where this operation will not delete them as long as it may fail.
Safe(v) ==
  \/ \E t \in residue : Good(t, v)
  \/ Good(files.backup, v)
  \/ RootCounts /\ Good(files.root, v)
Kept(d) == d.installed /\ ~excused => Safe(d.version)

\* A removal that cannot bring back what it deleted will not say it did.
GivenUp ==
  /\ tx.written
  /\ \/ step = "recover files" /\ tx.backed /\ ~Verified(files.backup)
     \/ step \in {"recover registration", "recover agent", "recover record"} /\ ~tx.complete

FilesKept ==
  /\ Kept(desired)
  /\ op.kind = "remove" /\ step \in Registering \cup Removing \cup Recovering => GivenUp \/ Kept(before.desired)
  /\ op.kind = "enable" /\ step \in {"preflight", "enable record", "enable agent", "enable undo"} =>
       Kept(before.desired)

\* A kill leaves them, but where files are deleted for good.
LEMMA CrashSafe ==
  ASSUME Shaped, Fits, Layout, NEW CONSTANT v, Safe(v), CrashDoes
  PROVE  Safe(v)' \/ excused' \/ step \in {"commit", "remove files"}
<1>. USE DEF Safe, RootCounts, Good
<1>1. NoTree.kind = "none" /\ ~tx'.active
  BY Absent DEF CrashDoes, ClearFlags
<1>2. CASE step \in {"purge root", "purge residue", "commit", "remove files"}
  BY <1>2 DEF CrashDoes
<1>3. CASE Left(files.root, {files.staging, files.backup})
  <2>1. files'.root = files.root
    BY <1>3 DEF Left
  <2>2. residue' = (residue \cup {files.staging, files.backup}) \ {NoTree}
    BY <1>3 DEF Left
  <2>3. QED  BY <1>1, <2>1, <2>2
<1>4. CASE step = "stage" /\ \E k \in {"whole", "broken", "bare"} : Left(files.root, {[version |-> op.version, kind |-> k]})
  <2>1. PICK k \in {"whole", "broken", "bare"} : Left(files.root, {[version |-> op.version, kind |-> k]})
    BY <1>4
  <2>2. files'.root = files.root
    BY <2>1 DEF Left
  <2>3. residue \ {NoTree} \subseteq residue'
    BY <2>1 DEF Left
  <2>4. files.backup = NoTree
    BY <1>4, <1>1 DEF Layout, BackupIs, Registering, Exists
  <2>5. QED  BY <1>1, <2>2, <2>3, <2>4
<1>5. CASE step = "discard" /\ tx.active /\ \E t \in Rest(files.root) : Left(t, {files.staging, files.backup})
  <2>1. PICK r : Left(r, {files.staging, files.backup})
    BY <1>5
  <2>2. residue' = (residue \cup {files.staging, files.backup}) \ {NoTree}
    BY <2>1 DEF Left
  <2>3. QED  BY <1>1, <1>5, <2>2
<1>6. QED  BY <1>2, <1>3, <1>4, <1>5, Zenon DEF CrashDoes, HalfDone

\* No other step takes them from where they are kept.
LEMMA SafeNext ==
  ASSUME Shaped, Shaped', Fits, Layout, NEW CONSTANT w, Safe(w), Step
  PROVE  \/ Safe(w)' \/ excused' \/ CommitDoes \/ RemoveFilesDoes
         \/ CrashDoes /\ step \in {"commit", "remove files"}
<1>. USE DEF Fits, Kinds, Installs, Moves, Registering, Activating, RollingBack, Removing,
             Recovering, Purging, Ending, Safe, RootCounts, Exists, Good
<1>1. /\ op \in Ops
      /\ op.kind \in Installs => Failure = "forget plugin"
      /\ op.kind = "remove" => Failure = "recover files"
      /\ op.kind = "purge" => Failure = "purge root"
      /\ op.kind \in {"enable", "disable", "none"} => Failure = "failed"
  BY FailureIs DEF Shaped, Ops
<1>2. /\ tx \in Flags /\ tx' \in Flags
      /\ files.root \in Trees /\ files.backup \in Trees
      /\ NoTree.kind = "none" /\ \A t \in Trees : t = NoTree <=> t.kind = "none"
  BY Absent DEF Shaped, Places
<1>3. CASE \E k \in Kinds, v \in Versions : BeginDoes(k, v)
  BY <1>1, <1>2, <1>3 DEF BeginDoes, ClearFlags
<1>4. CASE PreflightDoes \/ ReturnDoes
  BY <1>1, <1>2, <1>4
     DEF PreflightDoes, ReturnDoes, KeepFlags, KeepEnd, NotClean, ClearFlags, Ops
<1>5. CASE EndDoes
  BY <1>1, <1>2, <1>5 DEF EndDoes, Ops
<1>6. CASE StageDoes
  BY <1>1, <1>2, <1>6
     DEF StageDoes, KeepFlags, KeepEnd, NotClean, ClearFlags, Ops
<1>7. CASE UnplugDoes
  BY <1>1, <1>2, <1>7 DEF UnplugDoes, Layout, RootIs, Ops
<1>8. CASE UnlistDoes
  BY <1>1, <1>2, <1>8 DEF UnlistDoes, Layout, RootIs, Ops
<1>9. CASE ListDoes \/ PlugDoes \/ RecordDoes
  BY <1>1, <1>2, <1>9
     DEF ListDoes, PlugDoes, RecordDoes, KeepFlags, KeepEnd, NotClean, ClearFlags, Ops
<1>10. CASE AsideDoes
  BY <1>1, <1>2, <1>10 DEF AsideDoes, Layout, BackupIs, RootIs, Ops
<1>11. CASE PromoteDoes
  BY <1>1, <1>2, <1>11 DEF PromoteDoes, Layout, RootIs, Ops
<1>12. CASE NoteCheckDoes
  BY <1>1, <1>2, <1>12
     DEF NoteCheckDoes, KeepFlags, KeepEnd, NotClean, ClearFlags, Ops
<1>13. CASE CommitDoes
  BY <1>13
<1>14. CASE ForgetPluginDoes \/ ForgetMarketDoes \/ DiscardDoes
  BY <1>1, <1>2, <1>14
     DEF ForgetPluginDoes, ForgetMarketDoes, DiscardDoes, KeepFlags, KeepEnd, NotClean, ClearFlags,
         Ops
<1>15. CASE ReregisterDoes \/ CleanUpDoes
  BY <1>1, <1>2, <1>15
     DEF ReregisterDoes, CleanUpDoes, KeepFlags, KeepEnd, NotClean, ClearFlags, Ops
<1>16. CASE RestoreDoes
  BY <1>1, <1>2, <1>16 DEF RestoreDoes, Layout, RootIs, NotClean, KeepFlags, Ops
<1>17. CASE RemoveAgentDoes \/ RemoveRecordDoes
  BY <1>1, <1>2, <1>17
     DEF RemoveAgentDoes, RemoveRecordDoes, KeepFlags, KeepEnd, NotClean, ClearFlags, Ops
<1>18. CASE RemoveFilesDoes
  BY <1>18
<1>19. CASE RecoverRegistrationDoes \/ RecoverAgentDoes \/ RecoverRecordDoes
  BY <1>1, <1>2, <1>19
     DEF RecoverRegistrationDoes, RecoverAgentDoes, RecoverRecordDoes, KeepFlags, KeepEnd, NotClean,
         ClearFlags, Ops
<1>20. CASE RecoverFilesDoes
  BY <1>1, <1>2, <1>20 DEF RecoverFilesDoes, Layout, RootIs, RestoredIs, Ops
<1>21. CASE PurgeAgentDoes \/ PurgeRecordDoes \/ PurgeEndsDoes
  BY <1>1, <1>2, <1>21
     DEF PurgeAgentDoes, PurgeRecordDoes, PurgeEndsDoes, KeepFlags, KeepEnd, NotClean, ClearFlags,
         Ops
<1>22. CASE PurgeRootDoes
  BY <1>1, <1>2, <1>22 DEF PurgeRootDoes, KeepFlags, Ops
<1>23. CASE PurgeResidueDoes
  BY <1>1, <1>2, <1>23 DEF PurgeResidueDoes, NotClean, KeepFlags, Ops, Layout, BackupIs
<1>24. CASE EnableRecordDoes \/ EnableAgentDoes \/ EnableUndoDoes \/ DisableAgentDoes \/ DisableRecordDoes
  BY <1>1, <1>2, <1>24
     DEF EnableRecordDoes, EnableAgentDoes, EnableUndoDoes, DisableAgentDoes, DisableRecordDoes,
         KeepFlags, KeepEnd, NotClean, ClearFlags, Ops
<1>25. CASE DriftDoes
  BY <1>1, <1>2, <1>25
     DEF DriftDoes, KeepFlags, KeepEnd, NotClean, ClearFlags, Ops
<1>26. CASE CrashDoes
  BY <1>26, CrashSafe
<1> QED
  BY <1>3, <1>4, <1>5, <1>6, <1>7, <1>8, <1>9, <1>10, <1>11, <1>12, <1>13, <1>14, <1>15, <1>16,
     <1>17, <1>18, <1>19, <1>20, <1>21, <1>22, <1>23, <1>24, <1>25, <1>26, ZenonT(60)
     DEF Step

\* So what was kept is kept, but for what a commit deletes.
LEMMA KeptNext ==
  ASSUME Shaped, Shaped', Fits, Layout, NEW CONSTANT d, Kept(d), excused => excused', Step
  PROVE  \/ Kept(d)' \/ CommitDoes \/ RemoveFilesDoes
         \/ CrashDoes /\ step \in {"commit", "remove files"}
<1>1. CASE ~d.installed \/ excused'
  BY <1>1 DEF Kept
<1>2. CASE d.installed /\ ~excused'
  <2>1. Safe(d.version)
    BY <1>2 DEF Kept
  <2>2. PICK v : v = d.version
    OBVIOUS
  <2>3. Safe(v)
    BY <2>1, <2>2
  <2>4. \/ Safe(v)' \/ excused' \/ CommitDoes \/ RemoveFilesDoes
        \/ CrashDoes /\ step \in {"commit", "remove files"}
    BY <2>3, SafeNext
  <2>5. QED  BY <1>2, <2>2, <2>4 DEF Kept
<1>3. QED  BY <1>1, <1>2

\* Only these record another version than was recorded.
LEMMA Recording ==
  ASSUME Shaped, Step
  PROVE  \/ (desired'.installed => desired.installed /\ desired'.version = desired.version) /\ (excused => excused')
         \/ RecordDoes \/ EnableRecordDoes \/ EnableUndoDoes \/ RecoverRecordDoes
<1>1. ~NotInstalled.installed
  BY DEF NotInstalled
<1>2. CASE \E k \in Kinds, v \in Versions : BeginDoes(k, v)
  <2>1. PICK k \in Kinds, v \in Versions : BeginDoes(k, v)
    BY <1>2
  <2>2. UNCHANGED <<desired, excused>>
    BY <2>1 DEF BeginDoes
  <2>3. QED  BY <2>2
<1>3. CASE PreflightDoes \/ EndDoes \/ ReturnDoes
  BY <1>1, <1>3
     DEF PreflightDoes, EndDoes, ReturnDoes
<1>4. CASE StageDoes \/ UnplugDoes \/ UnlistDoes
  BY <1>1, <1>4
     DEF StageDoes, UnplugDoes, UnlistDoes
<1>5. CASE AsideDoes \/ PromoteDoes \/ ListDoes \/ PlugDoes
  BY <1>1, <1>5
     DEF AsideDoes, PromoteDoes, ListDoes, PlugDoes
<1>6. CASE RecordDoes
  BY <1>6
<1>7. CASE CommitDoes \/ NoteCheckDoes
  BY <1>1, <1>7
     DEF CommitDoes, NoteCheckDoes
<1>8. CASE ForgetPluginDoes \/ ForgetMarketDoes \/ DiscardDoes
  BY <1>1, <1>8
     DEF ForgetPluginDoes, ForgetMarketDoes, DiscardDoes
<1>9. CASE RestoreDoes \/ ReregisterDoes \/ CleanUpDoes
  BY <1>1, <1>9
     DEF RestoreDoes, ReregisterDoes, CleanUpDoes
<1>10. CASE RemoveAgentDoes \/ RemoveRecordDoes \/ RemoveFilesDoes
  BY <1>1, <1>10
     DEF RemoveAgentDoes, RemoveRecordDoes, RemoveFilesDoes
<1>11. CASE RecoverFilesDoes \/ RecoverRegistrationDoes \/ RecoverAgentDoes
  BY <1>1, <1>11
     DEF RecoverFilesDoes, RecoverRegistrationDoes, RecoverAgentDoes
<1>12. CASE RecoverRecordDoes
  BY <1>12
<1>13. CASE PurgeRootDoes \/ PurgeResidueDoes \/ PurgeAgentDoes \/ PurgeRecordDoes \/ PurgeEndsDoes
  BY <1>1, <1>13
     DEF PurgeRootDoes, PurgeResidueDoes, PurgeAgentDoes, PurgeRecordDoes, PurgeEndsDoes
<1>14. CASE EnableAgentDoes \/ DisableAgentDoes \/ DisableRecordDoes
  BY <1>1, <1>14
     DEF EnableAgentDoes, DisableAgentDoes, DisableRecordDoes
<1>15. CASE EnableRecordDoes
  BY <1>15
<1>16. CASE EnableUndoDoes
  BY <1>16
<1>17. CASE DriftDoes
  BY <1>1, <1>17
     DEF DriftDoes
<1>18. CASE CrashDoes
  BY <1>18 DEF CrashDoes
<1> QED
  BY <1>2, <1>3, <1>4, <1>5, <1>6, <1>7, <1>8, <1>9, <1>10, <1>11, <1>12, <1>13, <1>14, <1>15,
     <1>16, <1>17, <1>18, ZenonT(60)
     DEF Step

\* The files of the recorded version are kept.
LEMMA RecordedKept ==
  ASSUME Shaped, Shaped', Versioned, Fits, Layout, RecordIs, Obeyed, FilesKept, Step
  PROVE  Kept(desired)'
<1>. USE DEF Fits, Kinds, Installs, Moves, Registering, Activating, RollingBack, Removing, Recovering,
   Purging, Ending
<1>1. /\ op \in Ops /\ excused \in BOOLEAN /\ tx' \in Flags /\ before.desired \in Desires
      /\ op.kind \in Installs => Failure = "forget plugin"
      /\ op.kind = "enable" => Failure = "failed"
  BY FailureIs DEF Shaped, Ops, Befores
<1>2. Kept(desired)
  BY DEF FilesKept
\* Kept for the same version.
<1>3. ASSUME excused => excused', desired'.installed => desired.installed /\ desired'.version = desired.version
      PROVE  Kept(desired)'
  <2>1. SUFFICES ASSUME desired'.installed, ~excused'
                 PROVE  Safe(desired.version)'
    BY DEF Kept
  <2>2. PICK d : d = desired
    OBVIOUS
  <2>3. /\ d.installed /\ desired'.version = d.version
        /\ \/ Kept(d)' \/ CommitDoes \/ RemoveFilesDoes
           \/ CrashDoes /\ step \in {"commit", "remove files"}
    BY <1>2, <1>3, <2>1, <2>2, KeptNext
  <2>4. CASE Kept(d)'
    BY <2>1, <2>3, <2>4 DEF Kept, Safe
  <2>5. CASE CommitDoes
    <3>1. Good(files.root, op.version) /\ d.version = op.version
      BY <2>2, <2>5 DEF CommitDoes, Layout, RootIs, RecordIs
    <3>2. files'.root = files.root /\ step' \in {"note check", "succeeded"}
      BY <2>5 DEF CommitDoes
    <3>3. QED  BY <2>3, <3>1, <3>2 DEF Safe, RootCounts, Good
  <2>6. CASE RemoveFilesDoes \/ step = "remove files"
    BY <2>2, <2>3, <2>6 DEF RemoveFilesDoes, RecordIs
  <2>7. CASE CrashDoes /\ step = "commit"
    <3>1. Good(files.root, op.version) /\ d.version = op.version
      BY <2>2, <2>7 DEF Layout, RootIs, RecordIs
    <3>2. files'.root = files.root /\ ~tx'.active
      BY <2>7, CrashSpares DEF CrashDoes, ClearFlags, Layout
    <3>3. QED  BY <2>3, <3>1, <3>2 DEF Safe, RootCounts, Good
  <2>8. QED  BY <2>3, <2>4, <2>5, <2>6, <2>7
<1>4. CASE RecordDoes
  <2>1. CASE UNCHANGED <<desired, excused>>
    BY <1>3, <2>1
  <2>2. CASE step' = "commit" /\ desired'.version = op.version
    <3>1. Good(files.root, op.version) /\ files' = files
      BY <1>4 DEF RecordDoes, Layout, RootIs
    <3>2. QED  BY <2>2, <3>1 DEF Kept, Safe, RootCounts, Good
  <2>3. QED  BY <1>4, <2>1, <2>2 DEF RecordDoes
<1>5. CASE EnableRecordDoes
  <2>1. CASE UNCHANGED <<desired, excused>>
    BY <1>3, <2>1
  <2>2. CASE step' = "enable agent" /\ desired.version # Nothing
    <3>1. desired.installed /\ desired'.version = desired.version /\ (excused => excused')
      BY <1>1, <1>5, <2>2 DEF EnableRecordDoes, RecordIs, Consistent, Ops
    <3>2. QED  BY <1>3, <3>1
  <2>3. CASE step' = "enable agent" /\ desired.version = Nothing
    <3>1. SUFFICES ASSUME ~excused'
                   PROVE  Safe(desired.version)'
      BY DEF Kept
    <3>2. /\ desired'.version = Installed(host) /\ Installed(host) # Nothing /\ ~hostFailed
          /\ UNCHANGED <<files, tx, residue>> /\ step = "enable record"
      BY <1>1, <1>5, <2>3, <3>1 DEF EnableRecordDoes, RecordIs, Ops
    <3>3. Good(files.root, host.plugin) /\ desired'.version = host.plugin
      BY <3>2 DEF Obeyed, Matches, Installed
    <3>4. QED  BY <2>3, <3>2, <3>3 DEF Safe, RootCounts, Good
  <2>4. QED  BY <1>1, <1>5, <2>1, <2>2, <2>3 DEF EnableRecordDoes
<1>6. CASE EnableUndoDoes
  <2>1. CASE UNCHANGED desired
    BY <1>3, <1>6, <2>1 DEF EnableUndoDoes
  <2>2. CASE desired' = before.desired
    <3>1. Kept(before.desired) /\ UNCHANGED <<files, excused, residue>>
      BY <1>1, <1>6 DEF EnableUndoDoes, FilesKept, Ops
    <3>2. step' = "failed"
      BY <1>6 DEF EnableUndoDoes
    <3>3. QED  BY <2>2, <3>1, <3>2 DEF Kept, Safe, RootCounts, Good
  <2>3. QED  BY <1>6, <2>1, <2>2 DEF EnableUndoDoes
<1>7. CASE RecoverRecordDoes
  <2>1. CASE UNCHANGED desired
    BY <1>3, <1>7, <2>1 DEF RecoverRecordDoes
  <2>2. CASE desired' = Recovered
    <3>1. CASE ~tx.complete
      <4>1. ~desired'.installed
        BY <2>2, <3>1 DEF Recovered, NotInstalled
      <4>2. QED  BY <4>1 DEF Kept
    <3>2. CASE tx.complete
      <4>1. desired'.installed = before.desired.installed /\ desired'.version = before.desired.version
        BY <1>1, <2>2, <3>2 DEF Recovered, Desires
      <4>2. Kept(before.desired) /\ UNCHANGED <<files, excused, residue>>
        BY <1>1, <1>7, <3>2 DEF RecoverRecordDoes, FilesKept, GivenUp, Ops
      <4>3. step' = "failed"
        BY <1>7 DEF RecoverRecordDoes
      <4>4. QED  BY <4>1, <4>2, <4>3 DEF Kept, Safe, RootCounts, Good
    <3>3. QED  BY <3>1, <3>2
  <2>3. QED  BY <1>7, <2>1, <2>2 DEF RecoverRecordDoes
<1>8. QED  BY <1>3, <1>4, <1>5, <1>6, <1>7, Recording

\* What is kept for the state of before stays kept.
LEMMA BeforeKept ==
  ASSUME Shaped, Shaped', Fits, Layout, Step
  PROVE  \/ UNCHANGED before /\ (excused => excused') /\ (Kept(before.desired) => Kept(before.desired)')
         \/ \E k \in Kinds, v \in Versions : BeginDoes(k, v)
         \/ ReturnDoes \/ CrashDoes \/ RecordDoes \/ CommitDoes \/ RemoveFilesDoes
<1>1. PICK d : d = before.desired
  OBVIOUS
<1>2. ASSUME UNCHANGED before, excused => excused', ~CommitDoes, ~RemoveFilesDoes, ~CrashDoes
      PROVE  \/ UNCHANGED before /\ (excused => excused') /\ (Kept(before.desired) => Kept(before.desired)')
  <2>1. ASSUME Kept(before.desired)
        PROVE  Kept(d)'
    BY <1>1, <1>2, <2>1, KeptNext
  <2>2. QED  BY <1>1, <1>2, <2>1 DEF Kept
<1>3. CASE \E k \in Kinds, v \in Versions : BeginDoes(k, v)
  BY <1>3
<1>4. CASE PreflightDoes \/ EndDoes
  BY <1>1, <1>2, <1>4
     DEF PreflightDoes, EndDoes
<1>5. CASE ReturnDoes
  BY <1>5
<1>6. CASE StageDoes \/ UnplugDoes \/ UnlistDoes
  BY <1>1, <1>2, <1>6
     DEF StageDoes, UnplugDoes, UnlistDoes
<1>7. CASE AsideDoes \/ PromoteDoes \/ ListDoes \/ PlugDoes
  BY <1>1, <1>2, <1>7
     DEF AsideDoes, PromoteDoes, ListDoes, PlugDoes
<1>8. CASE RecordDoes
  BY <1>8
<1>9. CASE NoteCheckDoes
  BY <1>1, <1>2, <1>9
     DEF NoteCheckDoes
<1>10. CASE CommitDoes
  BY <1>10
<1>11. CASE ForgetPluginDoes \/ ForgetMarketDoes \/ DiscardDoes
  BY <1>1, <1>2, <1>11
     DEF ForgetPluginDoes, ForgetMarketDoes, DiscardDoes
<1>12. CASE RestoreDoes \/ ReregisterDoes \/ CleanUpDoes
  BY <1>1, <1>2, <1>12
     DEF RestoreDoes, ReregisterDoes, CleanUpDoes
<1>13. CASE RemoveAgentDoes \/ RemoveRecordDoes
  BY <1>1, <1>2, <1>13
     DEF RemoveAgentDoes, RemoveRecordDoes
<1>14. CASE RemoveFilesDoes
  BY <1>14
<1>15. CASE RecoverFilesDoes \/ RecoverRegistrationDoes \/ RecoverAgentDoes \/ RecoverRecordDoes
  BY <1>1, <1>2, <1>15
     DEF RecoverFilesDoes, RecoverRegistrationDoes, RecoverAgentDoes, RecoverRecordDoes
<1>16. CASE PurgeRootDoes \/ PurgeResidueDoes \/ PurgeAgentDoes \/ PurgeRecordDoes \/ PurgeEndsDoes
  BY <1>1, <1>2, <1>16
     DEF PurgeRootDoes, PurgeResidueDoes, PurgeAgentDoes, PurgeRecordDoes, PurgeEndsDoes
<1>17. CASE EnableRecordDoes \/ EnableAgentDoes \/ EnableUndoDoes \/ DisableAgentDoes \/ DisableRecordDoes
  BY <1>1, <1>2, <1>17
     DEF EnableRecordDoes, EnableAgentDoes, EnableUndoDoes, DisableAgentDoes, DisableRecordDoes
<1>18. CASE DriftDoes
  BY <1>1, <1>2, <1>18
     DEF DriftDoes
<1>19. CASE CrashDoes
  BY <1>19
<1> QED
  BY <1>3, <1>4, <1>5, <1>6, <1>7, <1>8, <1>9, <1>10, <1>11, <1>12, <1>13, <1>14, <1>15, <1>16,
     <1>17, <1>18, <1>19, ZenonT(60)
     DEF Step

\* A removal keeps what it may have to bring back, or gives it up.
LEMMA RemovalKept ==
  ASSUME Shaped, Shaped', Versioned, Fits, Layout, FilesKept, Step
  PROVE  op'.kind = "remove" /\ step' \in Registering \cup Removing \cup Recovering =>
           GivenUp' \/ Kept(before.desired)'
<1>. USE DEF Fits, Kinds, Installs, Moves, Registering, Activating, RollingBack, Removing,
             Recovering, Purging, Ending, FilesKept, GivenUp
<1>1. /\ op \in Ops /\ tx \in Flags /\ tx' \in Flags /\ excused \in BOOLEAN /\ files.backup \in Trees
      /\ op.kind \in Installs => Failure = "forget plugin"
      /\ op.kind = "remove" => Failure = "recover files"
      /\ op.kind = "purge" => Failure = "purge root"
      /\ op.kind \in {"enable", "disable", "none"} => Failure = "failed"
      /\ op.kind \in Kinds \cup {"none"}
  BY FailureIs DEF Shaped, Places, Ops
<1>2. \/ UNCHANGED before /\ (excused => excused') /\ (Kept(before.desired) => Kept(before.desired)')
      \/ step \in {"idle", "done", "record", "commit", "remove files"} \/ step' = "idle"
  <2>1. \A k \in Kinds, v \in Versions : BeginDoes(k, v) => step = "idle"
    BY DEF BeginDoes
  <2>2. /\ ReturnDoes => step = "done"
        /\ CrashDoes => step' = "idle"
        /\ RecordDoes => step = "record"
        /\ CommitDoes => step = "commit"
        /\ RemoveFilesDoes => step = "remove files"
    BY DEF ReturnDoes, CrashDoes, RecordDoes, CommitDoes, RemoveFilesDoes
  <2>3. QED  BY <2>1, <2>2, BeforeKept
<1>3. CASE \E k \in Kinds, v \in Versions : BeginDoes(k, v)
  <2>1. PICK k \in Kinds, v \in Versions : BeginDoes(k, v)
    BY <1>3
  <2>2. /\ before'.desired = desired /\ UNCHANGED <<files, residue, excused>>
        /\ step' \in {"preflight", "unplug", "disable agent"}
    BY <2>1 DEF BeginDoes
  <2>3. Kept(desired)
    BY DEF FilesKept
  <2>4. Kept(before.desired)'
    BY <2>2, <2>3 DEF Kept, Safe, RootCounts, Good
  <2>5. QED  BY <2>4
<1>4. CASE PreflightDoes \/ EndDoes
  BY <1>1, <1>2, <1>4
     DEF PreflightDoes, EndDoes, KeepFlags, KeepEnd, NotClean, ClearFlags, Ops
<1>5. CASE ReturnDoes
  BY <1>5 DEF ReturnDoes
<1>6. CASE StageDoes \/ UnplugDoes \/ UnlistDoes
  BY <1>1, <1>2, <1>6
     DEF StageDoes, UnplugDoes, UnlistDoes, KeepFlags, KeepEnd, NotClean, ClearFlags, Ops
<1>7. CASE AsideDoes \/ PromoteDoes \/ ListDoes \/ PlugDoes
  BY <1>1, <1>2, <1>7
     DEF AsideDoes, PromoteDoes, ListDoes, PlugDoes, KeepFlags, KeepEnd, NotClean, ClearFlags, Ops
<1>8. CASE RecordDoes
  BY <1>1, <1>8 DEF RecordDoes
<1>9. CASE NoteCheckDoes
  BY <1>1, <1>2, <1>9
     DEF NoteCheckDoes, KeepFlags, KeepEnd, NotClean, ClearFlags, Ops
<1>10. CASE CommitDoes
  BY <1>1, <1>10 DEF CommitDoes
<1>11. CASE ForgetPluginDoes \/ ForgetMarketDoes \/ DiscardDoes
  BY <1>1, <1>2, <1>11
     DEF ForgetPluginDoes, ForgetMarketDoes, DiscardDoes, KeepFlags, KeepEnd, NotClean, ClearFlags,
         Ops
<1>12. CASE RestoreDoes \/ ReregisterDoes \/ CleanUpDoes
  BY <1>1, <1>2, <1>12
     DEF RestoreDoes, ReregisterDoes, CleanUpDoes, KeepFlags, KeepEnd, NotClean, ClearFlags, Ops
<1>13. CASE RemoveAgentDoes \/ RemoveRecordDoes
  BY <1>1, <1>2, <1>13
     DEF RemoveAgentDoes, RemoveRecordDoes, KeepFlags, KeepEnd, NotClean, ClearFlags, Ops
<1>14. CASE RemoveFilesDoes
  <2>1. CASE ~tx.backed \/ step' = "succeeded"
    BY <1>1, <1>14, <2>1 DEF RemoveFilesDoes
  <2>2. CASE tx.backed /\ step' = "recover files" /\ ~Verified(files'.backup)
    <3>1. tx.written /\ UNCHANGED tx
      BY <1>14 DEF RemoveFilesDoes, Layout, BackupIs
    <3>2. QED  BY <2>2, <3>1 DEF GivenUp
  <2>3. CASE step' = "recover files" /\ Verified(files'.backup)
    <3>1. UNCHANGED <<residue, before, tx, excused>> /\ files'.root = files.root
          /\ (Good(files.backup, before.desired.version) => Good(files'.backup, before.desired.version))
      BY <1>1, <1>14, <2>3, RestTyped, Absent DEF RemoveFilesDoes, Verified, Good
    <3>2. Kept(before.desired) /\ step = "remove files"
      BY <1>1, <1>14 DEF RemoveFilesDoes, FilesKept, GivenUp
    <3>3. Kept(before.desired)'
      BY <2>3, <3>1, <3>2 DEF Kept, Safe, RootCounts, Good
    <3>4. QED  BY <3>3
  <2>4. QED  BY <1>1, <1>14, <2>1, <2>2, <2>3 DEF RemoveFilesDoes
<1>15. CASE RecoverRegistrationDoes \/ RecoverAgentDoes \/ RecoverRecordDoes
  BY <1>1, <1>2, <1>15
     DEF RecoverRegistrationDoes, RecoverAgentDoes, RecoverRecordDoes, KeepFlags, KeepEnd, NotClean,
         ClearFlags, Ops
<1>16. CASE RecoverFilesDoes
  BY <1>1, <1>2, <1>16 DEF RecoverFilesDoes, Layout, BackupIs, Exists, Original, Verified
<1>17. CASE PurgeRootDoes \/ PurgeResidueDoes \/ PurgeAgentDoes \/ PurgeRecordDoes \/ PurgeEndsDoes
  BY <1>1, <1>2, <1>17
     DEF PurgeRootDoes, PurgeResidueDoes, PurgeAgentDoes, PurgeRecordDoes, PurgeEndsDoes, KeepFlags,
         KeepEnd, NotClean, ClearFlags, Ops
<1>18. CASE EnableRecordDoes \/ EnableAgentDoes \/ EnableUndoDoes \/ DisableAgentDoes \/ DisableRecordDoes
  BY <1>1, <1>2, <1>18
     DEF EnableRecordDoes, EnableAgentDoes, EnableUndoDoes, DisableAgentDoes, DisableRecordDoes,
         KeepFlags, KeepEnd, NotClean, ClearFlags, Ops
<1>19. CASE CrashDoes
  BY <1>19 DEF CrashDoes
<1>20. CASE DriftDoes
  BY <1>1, <1>2, <1>20, Absent DEF DriftDoes, Layout, RootIs, Exists
<1> QED
  BY <1>3, <1>4, <1>5, <1>6, <1>7, <1>8, <1>9, <1>10, <1>11, <1>12, <1>13, <1>14, <1>15, <1>16,
     <1>17, <1>18, <1>19, <1>20, ZenonT(60)
     DEF Step

\* So does switching the updater on.
LEMMA EnablingKept ==
  ASSUME Shaped, Shaped', Versioned, Fits, Layout, FilesKept, Step
  PROVE  op'.kind = "enable" /\ step' \in {"preflight", "enable record", "enable agent", "enable undo"} =>
           Kept(before.desired)'
<1>. USE DEF Fits, Kinds, Installs, Moves, Registering, Activating, RollingBack, Removing,
             Recovering, Purging, Ending, FilesKept, GivenUp
<1>1. /\ op \in Ops /\ tx \in Flags /\ tx' \in Flags /\ excused \in BOOLEAN /\ files.backup \in Trees
      /\ op.kind \in Installs => Failure = "forget plugin"
      /\ op.kind = "remove" => Failure = "recover files"
      /\ op.kind = "purge" => Failure = "purge root"
      /\ op.kind \in {"enable", "disable", "none"} => Failure = "failed"
      /\ op.kind \in Kinds \cup {"none"}
  BY FailureIs DEF Shaped, Places, Ops
<1>2. \/ UNCHANGED before /\ (excused => excused') /\ (Kept(before.desired) => Kept(before.desired)')
      \/ step \in {"idle", "done", "record", "commit", "remove files"} \/ step' = "idle"
  <2>1. \A k \in Kinds, v \in Versions : BeginDoes(k, v) => step = "idle"
    BY DEF BeginDoes
  <2>2. /\ ReturnDoes => step = "done"
        /\ CrashDoes => step' = "idle"
        /\ RecordDoes => step = "record"
        /\ CommitDoes => step = "commit"
        /\ RemoveFilesDoes => step = "remove files"
    BY DEF ReturnDoes, CrashDoes, RecordDoes, CommitDoes, RemoveFilesDoes
  <2>3. QED  BY <2>1, <2>2, BeforeKept
<1>3. CASE \E k \in Kinds, v \in Versions : BeginDoes(k, v)
  <2>1. PICK k \in Kinds, v \in Versions : BeginDoes(k, v)
    BY <1>3
  <2>2. /\ before'.desired = desired /\ UNCHANGED <<files, residue, excused>>
        /\ step' \in {"preflight", "unplug", "disable agent"}
    BY <2>1 DEF BeginDoes
  <2>3. Kept(desired)
    BY DEF FilesKept
  <2>4. Kept(before.desired)'
    BY <2>2, <2>3 DEF Kept, Safe, RootCounts, Good
  <2>5. QED  BY <2>4
<1>4. CASE PreflightDoes \/ EndDoes
  BY <1>1, <1>2, <1>4
     DEF PreflightDoes, EndDoes, KeepFlags, KeepEnd, NotClean, ClearFlags, Ops
<1>5. CASE ReturnDoes
  BY <1>5 DEF ReturnDoes
<1>6. CASE StageDoes \/ UnplugDoes \/ UnlistDoes
  BY <1>1, <1>2, <1>6
     DEF StageDoes, UnplugDoes, UnlistDoes, KeepFlags, KeepEnd, NotClean, ClearFlags, Ops
<1>7. CASE AsideDoes \/ PromoteDoes \/ ListDoes \/ PlugDoes
  BY <1>1, <1>2, <1>7
     DEF AsideDoes, PromoteDoes, ListDoes, PlugDoes, KeepFlags, KeepEnd, NotClean, ClearFlags, Ops
<1>8. CASE RecordDoes
  BY <1>1, <1>8 DEF RecordDoes
<1>9. CASE NoteCheckDoes
  BY <1>1, <1>2, <1>9
     DEF NoteCheckDoes, KeepFlags, KeepEnd, NotClean, ClearFlags, Ops
<1>10. CASE CommitDoes
  BY <1>1, <1>10 DEF CommitDoes
<1>11. CASE ForgetPluginDoes \/ ForgetMarketDoes \/ DiscardDoes
  BY <1>1, <1>2, <1>11
     DEF ForgetPluginDoes, ForgetMarketDoes, DiscardDoes, KeepFlags, KeepEnd, NotClean, ClearFlags,
         Ops
<1>12. CASE RestoreDoes \/ ReregisterDoes \/ CleanUpDoes
  BY <1>1, <1>2, <1>12
     DEF RestoreDoes, ReregisterDoes, CleanUpDoes, KeepFlags, KeepEnd, NotClean, ClearFlags, Ops
<1>13. CASE RemoveAgentDoes \/ RemoveRecordDoes
  BY <1>1, <1>2, <1>13
     DEF RemoveAgentDoes, RemoveRecordDoes, KeepFlags, KeepEnd, NotClean, ClearFlags, Ops
<1>14. CASE RemoveFilesDoes
  BY <1>1, <1>14 DEF RemoveFilesDoes
<1>15. CASE RecoverFilesDoes \/ RecoverRegistrationDoes \/ RecoverAgentDoes \/ RecoverRecordDoes
  BY <1>1, <1>2, <1>15
     DEF RecoverFilesDoes, RecoverRegistrationDoes, RecoverAgentDoes, RecoverRecordDoes, KeepFlags,
         KeepEnd, NotClean, ClearFlags, Ops
<1>16. CASE PurgeRootDoes \/ PurgeResidueDoes \/ PurgeAgentDoes \/ PurgeRecordDoes \/ PurgeEndsDoes
  BY <1>1, <1>2, <1>16
     DEF PurgeRootDoes, PurgeResidueDoes, PurgeAgentDoes, PurgeRecordDoes, PurgeEndsDoes, KeepFlags,
         KeepEnd, NotClean, ClearFlags, Ops
<1>17. CASE EnableAgentDoes \/ EnableUndoDoes \/ DisableAgentDoes \/ DisableRecordDoes
  BY <1>1, <1>2, <1>17
     DEF EnableAgentDoes, EnableUndoDoes, DisableAgentDoes, DisableRecordDoes, KeepFlags, KeepEnd,
         NotClean, ClearFlags, Ops
<1>18. CASE EnableRecordDoes
  BY <1>1, <1>2, <1>18 DEF EnableRecordDoes
<1>19. CASE DriftDoes
  BY <1>1, <1>2, <1>19
     DEF DriftDoes, KeepFlags, KeepEnd, NotClean, ClearFlags, Ops
<1>20. CASE CrashDoes
  BY <1>20 DEF CrashDoes
<1> QED
  BY <1>3, <1>4, <1>5, <1>6, <1>7, <1>8, <1>9, <1>10, <1>11, <1>12, <1>13, <1>14, <1>15, <1>16,
     <1>17, <1>18, <1>19, <1>20, ZenonT(60)
     DEF Step

\* So the recorded files are kept.
LEMMA FilesKeptNext ==
  ASSUME Shaped, Shaped', Versioned, Fits, Layout, RecordIs, Obeyed, FilesKept, Step
  PROVE  FilesKept'
BY RecordedKept, RemovalKept, EnablingKept DEF FilesKept

-----------------------------------------------------------------------------
(***************************************************************************)
(* What an operation that succeeds has done.                               *)
(***************************************************************************)
\* An installation has registered its version; a removal and a purge have taken away all they passed.
Underway ==
  /\ step \in {"record", "commit"} => host.market /\ host.plugin = op.version
  /\ step \in {"aside"} \cup Removing => ~host.market
  /\ step \in {"remove record", "remove files", "disable record"} => agent = "absent"
  /\ step = "remove files" => desired = NotInstalled
  /\ step = "enable agent" => desired.auto
  /\ op.kind = "purge" =>
       /\ step \in {"unplug", "unlist"} \/ tx.clean => tx.complete
       /\ step = "unlist" => host.plugin = Nothing
       /\ step \in Purging /\ tx.complete => host = NoHost
       /\ step \in Purging \ {"purge root"} /\ tx.complete => files.root = NoTree
       /\ step \in {"purge agent", "purge record", "purged"} /\ tx.clean => residue = {}
       /\ step = "purge record" => tx.complete /\ agent = "absent"
       /\ step = "purged" /\ tx.clean => desired = NotInstalled /\ agent = "absent"

\* What is so when it says so.
Succeeded ==
  /\ op.kind \in Installs => InstallDone
  /\ op.kind = "remove" => RemoveDone
  /\ op.kind = "purge" => PurgeDone
  /\ op.kind = "enable" => desired.auto /\ agent = "loaded"
  /\ op.kind = "disable" => ~desired.auto /\ agent = "absent"
SucceededIs == step \in {"succeeded", "note check"} \/ (step = "done" /\ op.ok) => Succeeded

\* Each step of an operation has done its part.
LEMMA UnderwayNext ==
  ASSUME Shaped, Shaped', Versioned, Fits, Layout, RecordIs, Underway, Step
  PROVE  Underway'
<1>. USE DEF Fits, Kinds, Installs, Moves, Registering, Activating, RollingBack, Removing,
             Recovering, Purging, Ending, Underway
<1>1. /\ op \in Ops
      /\ op.kind \in Installs => Failure = "forget plugin"
      /\ op.kind = "remove" => Failure = "recover files"
      /\ op.kind = "purge" => Failure = "purge root"
      /\ op.kind \in {"enable", "disable", "none"} => Failure = "failed"
  BY FailureIs DEF Shaped, Ops
<1>2. /\ host \in Hosts /\ host' \in Hosts /\ before.host \in Hosts /\ tx \in Flags /\ tx' \in Flags
      /\ desired' \in Desires /\ files.root \in Trees
  BY DEF Shaped, Befores, Places
<1>3. /\ NoTree.kind = "none" /\ \A h \in Hosts : h = NoHost <=> ~h.market /\ h.plugin = Nothing
  BY Absent, Unregistered
<1>4. CASE \E k \in Kinds, v \in Versions : BeginDoes(k, v)
  BY <1>1, <1>2, <1>3, <1>4 DEF BeginDoes, ClearFlags
<1>5. CASE PreflightDoes \/ EndDoes
  BY <1>1, <1>2, <1>3, <1>5
     DEF PreflightDoes, EndDoes, KeepFlags, KeepEnd, NotClean, ClearFlags, Ops
<1>6. CASE ReturnDoes
  BY <1>6 DEF ReturnDoes
<1>7. CASE StageDoes
  BY <1>1, <1>2, <1>3, <1>7
     DEF StageDoes, KeepFlags, KeepEnd, NotClean, ClearFlags, Ops
<1>8. CASE UnplugDoes
  BY <1>1, <1>2, <1>3, <1>8 DEF UnplugDoes, PluginToRemove, Ops
<1>9. CASE UnlistDoes
  BY <1>1, <1>2, <1>3, <1>9 DEF UnlistDoes, RecordIs, Ops
<1>10. CASE AsideDoes \/ PromoteDoes \/ ListDoes \/ RecordDoes
  BY <1>1, <1>2, <1>3, <1>10
     DEF AsideDoes, PromoteDoes, ListDoes, RecordDoes, KeepFlags, KeepEnd, NotClean, ClearFlags, Ops
<1>11. CASE PlugDoes
  BY <1>1, <1>2, <1>3, <1>11 DEF PlugDoes, Layout, RootIs, Good, RecordIs, Ops
<1>12. CASE CommitDoes \/ NoteCheckDoes
  BY <1>1, <1>2, <1>3, <1>12
     DEF CommitDoes, NoteCheckDoes, KeepFlags, KeepEnd, NotClean, ClearFlags, Ops
<1>13. CASE ForgetPluginDoes \/ ForgetMarketDoes \/ DiscardDoes
  BY <1>1, <1>2, <1>3, <1>13
     DEF ForgetPluginDoes, ForgetMarketDoes, DiscardDoes, KeepFlags, KeepEnd, NotClean, ClearFlags,
         Ops
<1>14. CASE RestoreDoes \/ ReregisterDoes \/ CleanUpDoes
  BY <1>1, <1>2, <1>3, <1>14
     DEF RestoreDoes, ReregisterDoes, CleanUpDoes, KeepFlags, KeepEnd, NotClean, ClearFlags, Ops
<1>15. CASE RemoveAgentDoes \/ RemoveRecordDoes \/ RemoveFilesDoes
  BY <1>1, <1>2, <1>3, <1>15
     DEF RemoveAgentDoes, RemoveRecordDoes, RemoveFilesDoes, KeepFlags, KeepEnd, NotClean,
         ClearFlags, Ops
<1>16. CASE RecoverFilesDoes \/ RecoverRegistrationDoes \/ RecoverAgentDoes \/ RecoverRecordDoes
  BY <1>1, <1>2, <1>3, <1>16
     DEF RecoverFilesDoes, RecoverRegistrationDoes, RecoverAgentDoes, RecoverRecordDoes, KeepFlags,
         KeepEnd, NotClean, ClearFlags, Ops
<1>17. CASE PurgeRootDoes \/ PurgeResidueDoes \/ PurgeAgentDoes \/ PurgeRecordDoes \/ PurgeEndsDoes
  BY <1>1, <1>2, <1>3, <1>17
     DEF PurgeRootDoes, PurgeResidueDoes, PurgeAgentDoes, PurgeRecordDoes, PurgeEndsDoes, KeepFlags,
         KeepEnd, NotClean, ClearFlags, Ops
<1>18. CASE EnableRecordDoes \/ EnableAgentDoes \/ EnableUndoDoes \/ DisableAgentDoes \/ DisableRecordDoes
  BY <1>1, <1>2, <1>3, <1>18
     DEF EnableRecordDoes, EnableAgentDoes, EnableUndoDoes, DisableAgentDoes, DisableRecordDoes,
         KeepFlags, KeepEnd, NotClean, ClearFlags, Ops
<1>19. CASE DriftDoes
  BY <1>1, <1>2, <1>3, <1>19
     DEF DriftDoes, KeepFlags, KeepEnd, NotClean, ClearFlags, Ops
<1>20. CASE CrashDoes
  BY <1>20 DEF CrashDoes
<1> QED
  BY <1>4, <1>5, <1>6, <1>7, <1>8, <1>9, <1>10, <1>11, <1>12, <1>13, <1>14, <1>15, <1>16, <1>17,
     <1>18, <1>19, <1>20, ZenonT(60)
     DEF Step

\* A scheduled run finds the version current that was installed.
LEMMA CurrentIsInstalled ==
  ASSUME Shaped, Versioned, Fits, Layout, RecordIs, Obeyed, step = "preflight", AlreadyCurrent
  PROVE  InstallDone
<1>1. op.kind = "scheduled" /\ op.version # Nothing /\ desired.version = op.version /\ Installed(host) = op.version
  BY NothingIsNoVersion DEF AlreadyCurrent, Versioned
<1>2. host \in Hosts /\ desired.installed
  BY <1>1 DEF Shaped, RecordIs, Consistent
<1>3. host.market /\ host.plugin = op.version
  BY <1>1, <1>2 DEF Installed, Hosts
<1>4. host = [market |-> TRUE, plugin |-> op.version]
  BY <1>2, <1>3 DEF Hosts
<1>5. ~hostFailed => Good(files.root, op.version)
  BY <1>1, <1>3 DEF Obeyed, Matches
<1>6. ~tx.active
  BY DEF Layout, RootIs, Registering
<1>7. QED  BY <1>1, <1>2, <1>4, <1>5, <1>6 DEF InstallDone, Good

\* What is so when an operation reports success.
LEMMA SucceededNext ==
  ASSUME Shaped, Shaped', Versioned, Fits, Layout, RecordIs, Obeyed, Underway, SucceededIs, Step
  PROVE  SucceededIs'
<1>. USE DEF Fits, Kinds, Installs, Moves, Registering, Activating, RollingBack, Removing,
             Recovering, Purging, Ending, SucceededIs
<1>1. /\ op \in Ops
      /\ op.kind \in Installs => Failure = "forget plugin"
      /\ op.kind = "remove" => Failure = "recover files"
      /\ op.kind = "purge" => Failure = "purge root"
      /\ op.kind \in {"enable", "disable", "none"} => Failure = "failed"
  BY FailureIs DEF Shaped, Ops
<1>2. /\ host \in Hosts /\ host' \in Hosts /\ before.host \in Hosts /\ tx \in Flags /\ tx' \in Flags
      /\ desired' \in Desires /\ files.root \in Trees
  BY DEF Shaped, Befores, Places
<1>3. ASSUME NEW h \in Hosts, h.market, h.plugin = op.version
      PROVE  h = [market |-> TRUE, plugin |-> op.version]
  BY <1>3 DEF Hosts
<1>4. CASE \E k \in Kinds, v \in Versions : BeginDoes(k, v)
  BY <1>1, <1>2, <1>3, <1>4 DEF BeginDoes, ClearFlags
<1>5. CASE PreflightDoes
  <2>1. UNCHANGED <<op, before, files, residue, host, desired, agent, tx>> /\ (hostFailed => hostFailed')
        /\ (step' = "note check" => AlreadyCurrent)
        /\ step' \in {"note check", "failed", "unplug", "enable record", "stage"}
    BY <1>1, <1>5 DEF PreflightDoes, Ops
  <2>2. step' = "note check" => InstallDone /\ op.kind = "scheduled"
    BY <2>1, <1>5, CurrentIsInstalled DEF AlreadyCurrent, PreflightDoes
  <2>3. QED  BY <2>1, <2>2 DEF Succeeded, InstallDone
<1>6. CASE EndDoes
  <2>1. /\ UNCHANGED <<host, desired, agent, tx, hostFailed>> /\ files'.root = files.root /\ op'.kind = op.kind
        /\ op'.version = op.version /\ step' = "done" /\ (op'.ok => step = "succeeded")
    BY <1>6 DEF EndDoes
  <2>2. op.kind = "purge" /\ step = "succeeded" => residue' = residue
    <3>1. op.kind = "purge" /\ step = "succeeded" => files.staging = NoTree /\ files.backup = NoTree
      BY DEF Layout, StagingIs, BackupIs, Exists
    <3>2. residue \ {NoTree} = residue
      BY DEF Shaped
    <3>3. QED  BY <1>6, <3>1, <3>2 DEF EndDoes
  <2>3. op'.ok => Succeeded
    BY <2>1
  <2>4. InstallDone => InstallDone'
    BY <2>1 DEF InstallDone
  <2>5. RemoveDone => RemoveDone'
    BY <2>1 DEF RemoveDone, Exists, Installed
  <2>6. op.kind = "purge" /\ step = "succeeded" /\ PurgeDone => PurgeDone'
    BY <2>1, <2>2, <2>5 DEF PurgeDone
  <2>7. QED  BY <2>1, <2>3, <2>4, <2>5, <2>6 DEF Succeeded
<1>7. CASE ReturnDoes
  BY <1>7 DEF ReturnDoes
<1>8. CASE StageDoes \/ UnplugDoes \/ UnlistDoes
  BY <1>1, <1>2, <1>3, <1>8
     DEF StageDoes, UnplugDoes, UnlistDoes, KeepFlags, KeepEnd, NotClean, ClearFlags, Ops
<1>9. CASE AsideDoes \/ PromoteDoes \/ ListDoes \/ PlugDoes \/ RecordDoes
  BY <1>1, <1>2, <1>3, <1>9
     DEF AsideDoes, PromoteDoes, ListDoes, PlugDoes, RecordDoes, KeepFlags, KeepEnd, NotClean,
         ClearFlags, Ops
<1>10. CASE CommitDoes
  <2>1. /\ UNCHANGED <<op, host, desired, tx, hostFailed>> /\ files'.root = files.root
        /\ op.kind \in Installs /\ step' \in {"note check", "succeeded"}
    BY <1>1, <1>10 DEF CommitDoes, Ops
  <2>2. host = [market |-> TRUE, plugin |-> op.version] /\ Good(files.root, op.version)
    BY <1>2, <1>3, <1>10 DEF CommitDoes, Underway, Layout, RootIs
  <2>3. desired.installed /\ desired.version = op.version
    BY <1>10 DEF CommitDoes, RecordIs
  <2>4. QED  BY <2>1, <2>2, <2>3 DEF Succeeded, InstallDone, Good
<1>11. CASE NoteCheckDoes
  <2>1. /\ UNCHANGED <<op, host, desired, agent, tx, hostFailed, residue, files>> /\ op.kind = "scheduled"
        /\ step = "note check" /\ step' \in {"succeeded", "failed"}
    BY <1>11 DEF NoteCheckDoes
  <2>2. InstallDone => InstallDone'
    BY <2>1 DEF InstallDone
  <2>3. QED  BY <2>1, <2>2 DEF Succeeded
<1>12. CASE ForgetPluginDoes \/ ForgetMarketDoes \/ DiscardDoes
  BY <1>1, <1>2, <1>3, <1>12
     DEF ForgetPluginDoes, ForgetMarketDoes, DiscardDoes, KeepFlags, KeepEnd, NotClean, ClearFlags,
         Ops
<1>13. CASE RestoreDoes \/ ReregisterDoes \/ CleanUpDoes
  BY <1>1, <1>2, <1>3, <1>13
     DEF RestoreDoes, ReregisterDoes, CleanUpDoes, KeepFlags, KeepEnd, NotClean, ClearFlags, Ops
<1>14. CASE RemoveAgentDoes \/ RemoveRecordDoes
  BY <1>1, <1>2, <1>3, <1>14
     DEF RemoveAgentDoes, RemoveRecordDoes, KeepFlags, KeepEnd, NotClean, ClearFlags, Ops
<1>15. CASE RemoveFilesDoes
  <2>1. /\ UNCHANGED <<op, host, desired, agent>> /\ files'.root = files.root /\ op.kind = "remove"
        /\ step' \in {"succeeded", "recover files"}
    BY <1>1, <1>15 DEF RemoveFilesDoes, Ops
  <2>2. /\ files.root = NoTree /\ ~host.market /\ desired = NotInstalled /\ agent = "absent"
    BY <1>15 DEF RemoveFilesDoes, Underway, Layout, RootIs, Exists
  <2>3. QED  BY <2>1, <2>2 DEF Succeeded, RemoveDone, Installed, Exists
<1>16. CASE RecoverFilesDoes \/ RecoverRegistrationDoes \/ RecoverAgentDoes \/ RecoverRecordDoes
  BY <1>1, <1>2, <1>3, <1>16
     DEF RecoverFilesDoes, RecoverRegistrationDoes, RecoverAgentDoes, RecoverRecordDoes, KeepFlags,
         KeepEnd, NotClean, ClearFlags, Ops
<1>17. CASE PurgeRootDoes \/ PurgeResidueDoes \/ PurgeAgentDoes \/ PurgeRecordDoes
  BY <1>1, <1>2, <1>3, <1>17
     DEF PurgeRootDoes, PurgeResidueDoes, PurgeAgentDoes, PurgeRecordDoes, KeepFlags, KeepEnd,
         NotClean, ClearFlags, Ops
<1>18. CASE PurgeEndsDoes
  <2>1. /\ UNCHANGED <<op, host, desired, agent, residue, files, tx>> /\ op.kind = "purge" /\ step = "purged"
        /\ step' = "succeeded" => tx.clean
        /\ step' \in {"succeeded", "failed"}
    BY <1>1, <1>2, <1>18 DEF PurgeEndsDoes, Ops, Flags
  <2>2. tx.clean => files.root = NoTree /\ host = NoHost /\ residue = {} /\ desired = NotInstalled /\ agent = "absent"
    BY <2>1 DEF Underway
  <2>3. Installed(NoHost) = Nothing
    BY DEF NoHost, Installed
  <2>4. QED  BY <2>1, <2>2, <2>3 DEF Succeeded, RemoveDone, PurgeDone, Exists
<1>19. CASE EnableRecordDoes \/ EnableUndoDoes \/ DisableAgentDoes
  BY <1>1, <1>2, <1>3, <1>19
     DEF EnableRecordDoes, EnableUndoDoes, DisableAgentDoes, KeepFlags, KeepEnd, NotClean,
         ClearFlags, Ops
<1>20. CASE EnableAgentDoes
  BY <1>1, <1>2, <1>3, <1>20 DEF EnableAgentDoes, Succeeded, Underway, Ops
<1>21. CASE DisableRecordDoes
  BY <1>1, <1>2, <1>3, <1>21 DEF DisableRecordDoes, Succeeded, Underway, Ops
<1>22. CASE CrashDoes
  BY <1>22 DEF CrashDoes
<1>23. CASE DriftDoes
  <2>1. UNCHANGED <<op, host, desired, agent, tx, hostFailed, residue, step>>
        /\ files.root.kind = "whole" /\ files'.root.kind = "altered" /\ files'.root.version = files.root.version
    BY <1>23 DEF DriftDoes
  <2>2. InstallDone => InstallDone'
    BY <2>1 DEF InstallDone
  <2>3. ~RemoveDone /\ ~PurgeDone
    BY <2>1, Absent DEF RemoveDone, PurgeDone, Exists
  <2>4. QED  BY <2>1, <2>2, <2>3 DEF Succeeded
<1> QED
  BY <1>4, <1>5, <1>6, <1>7, <1>8, <1>9, <1>10, <1>11, <1>12, <1>13, <1>14, <1>15, <1>16, <1>17,
     <1>18, <1>19, <1>20, <1>21, <1>22, <1>23, ZenonT(60)
     DEF Step

\* Which is what a success is to mean.
LEMMA SucceededMeans ==
  ASSUME Shaped, Fits, SucceededIs
  PROVE  SuccessMeans
<1>1. SUFFICES ASSUME step = "done", op.ok
               PROVE  CASE op.kind \in Installs -> InstallDone
                        [] op.kind = "remove"   -> RemoveDone
                        [] op.kind = "purge"    -> PurgeDone
                        [] op.kind = "enable"   -> desired.auto /\ agent = "loaded"
                        [] OTHER                -> ~desired.auto /\ agent = "absent"
  BY Zenon DEF SuccessMeans
<1>2. Succeeded
  BY <1>1 DEF SucceededIs
<1>3. /\ op.kind \in Kinds
      /\ op.kind \in Installs <=> op.kind \in {"install", "scheduled"}
  BY <1>1 DEF Shaped, Ops, Fits, Installs
<1>4. CASE op.kind \in Installs
  <2>1. InstallDone /\ op.kind # "remove" /\ op.kind # "purge" /\ op.kind # "enable"
    BY <1>2, <1>3, <1>4 DEF Succeeded
  <2>2. QED  BY <1>4, <2>1, Zenon
<1>5. CASE op.kind = "remove"
  <2>1. RemoveDone /\ op.kind \notin Installs /\ op.kind # "purge" /\ op.kind # "enable"
    BY <1>2, <1>3, <1>5 DEF Succeeded
  <2>2. QED  BY <1>5, <2>1, Zenon
<1>6. CASE op.kind = "purge"
  <2>1. PurgeDone /\ op.kind \notin Installs /\ op.kind # "remove" /\ op.kind # "enable"
    BY <1>2, <1>3, <1>6 DEF Succeeded
  <2>2. QED  BY <1>6, <2>1, Zenon
<1>7. CASE op.kind = "enable"
  <2>1. (desired.auto /\ agent = "loaded") /\ op.kind \notin Installs /\ op.kind # "remove" /\ op.kind # "purge"
    BY <1>2, <1>3, <1>7 DEF Succeeded
  <2>2. QED  BY <1>7, <2>1, Zenon
<1>8. CASE op.kind = "disable"
  <2>1. /\ ~desired.auto /\ agent = "absent"
        /\ op.kind \notin Installs /\ op.kind # "remove" /\ op.kind # "purge" /\ op.kind # "enable"
    BY <1>2, <1>3, <1>8 DEF Succeeded
  <2>2. QED  BY <2>1, Zenon
<1>9. QED  BY <1>3, <1>4, <1>5, <1>6, <1>7, <1>8 DEF Kinds, Installs

-----------------------------------------------------------------------------
(***************************************************************************)
(* What an operation that fails has taken back.                            *)
(***************************************************************************)
\* What there is to take back is known.
Reversible ==
  op.kind \in Moves =>
  /\ step \in Registering \cup Activating \cup RollingBack \cup {"stage"} =>
       desired = before.desired /\ agent = before.agent
  /\ step \in {"remove agent", "remove record"} => desired = before.desired
  /\ op.kind = "remove" /\ step \in Removing \cup Recovering =>
       /\ ~tx.written => desired = before.desired
       /\ ~tx.touched => agent = before.agent
  /\ op.kind = "remove" /\ step \in Registering \cup Removing \cup (Recovering \ {"recover record"}) => tx.agentOK
  /\ step \notin {"preflight", "failed", "done"} /\ before.host.market => Exists(before.root)
  /\ step \in Activating \cup RollingBack \cup Removing \cup Recovering \cup {"unlist", "aside"} /\ before.host.market =>
       tx.removed
  /\ step \in {"unlist", "aside"} \cup Removing \cup {"recover files", "recover registration"} /\ ~before.host.market =>
       ~host.market
  /\ before.host.market /\ before.host.plugin = Nothing =>
       /\ step \in {"unlist", "aside", "promote", "list", "plug", "recover files", "recover registration"} \cup Removing =>
            host.plugin = Nothing
       /\ step = "forget plugin" => host.market \/ host.plugin = Nothing

\* The registration of before, as far as an operation looks at it.
RegistrationBack ==
  /\ host.market = before.host.market
  /\ Installed(host) = Nothing <=> Installed(before.host) = Nothing

\* How far it has been taken back, if nothing failed on the way.
Undone ==
  /\ op.kind \in Installs /\ tx.clean =>
       /\ step \in {"discard", "restore", "reregister"} => ~host.market
       /\ step \in {"forget market", "discard", "restore", "reregister"} /\ before.host.market
            /\ before.host.plugin = Nothing => host.plugin = Nothing
       /\ step = "restore" /\ tx.active => files.root = NoTree
       /\ step \in {"reregister", "clean up"} => Original(files.root) /\ (tx.backed => tx.restored)
       /\ step = "clean up" => RegistrationBack
  /\ op.kind = "remove" /\ tx.complete =>
       /\ step \in {"recover agent", "recover record"} => RegistrationBack
       /\ step = "recover record" /\ tx.agentOK /\ before.desired.auto /\ before.agent = "loaded" => agent = "loaded"

\* What is so when it says that everything is as it was.
FailedIs ==
  op.kind \in Moves /\ tx.clean /\ (step = "failed" \/ (step = "done" /\ ~op.ok)) =>
    AsBefore \/ (op.kind = "scheduled" /\ InstallDone)

\* What is registered again is what was registered before.
LEMMA RegisteredIsBack ==
  ASSUME Shaped, before.host.market, before.root # NoTree, Original(files.root),
         before.host.plugin = Nothing => host.plugin = Nothing
  PROVE  /\ Registered.market
         /\ Installed(Registered) = Nothing <=> Installed(before.host) = Nothing
<1>1. files.root \in Trees /\ before.root \in Trees
  BY DEF Shaped, Places, Befores
<1>2. before.root.version \in Versions
  BY <1>1 DEF Trees
<1>3. files.root.version # Nothing
  BY <1>2, NothingIsNoVersion DEF Original
<1>4. Registered.market
  BY DEF Registered
<1>5. CASE Installed(before.host) = Nothing
  <2>1. host.plugin = Nothing
    BY <1>5 DEF Installed
  <2>2. Registered.plugin = Nothing
    BY <1>5, <2>1 DEF Registered
  <2>3. QED  BY <1>4, <1>5, <2>2 DEF Installed
<1>6. CASE Installed(before.host) # Nothing
  <2>1. Registered.plugin = files.root.version
    BY <1>6 DEF Registered
  <2>2. QED  BY <1>3, <1>4, <1>6, <2>1 DEF Installed
<1>7. QED  BY <1>4, <1>5, <1>6

\* It stays known until it has been taken back.
LEMMA ReversibleNext ==
  ASSUME Shaped, Shaped', Versioned, Fits, Layout, RecordIs, Underway, Reversible, Step
  PROVE  Reversible'
<1>. USE DEF Fits, Kinds, Installs, Moves, Registering, Activating, RollingBack, Removing,
             Recovering, Purging, Ending, Reversible
<1>1. /\ op \in Ops
      /\ op.kind \in Installs => Failure = "forget plugin"
      /\ op.kind = "remove" => Failure = "recover files"
      /\ op.kind = "purge" => Failure = "purge root"
      /\ op.kind \in {"enable", "disable", "none"} => Failure = "failed"
  BY FailureIs DEF Shaped, Ops
<1>2. /\ host \in Hosts /\ before.host \in Hosts /\ tx \in Flags /\ tx' \in Flags /\ before.desired \in Desires
  BY DEF Shaped, Befores, Places
<1>3. files.root \in Trees /\ before.root \in Trees /\ \A t \in Trees : t = NoTree <=> t.kind = "none"
  BY Absent DEF Shaped, Places, Befores
<1>4. CASE \E k \in Kinds, v \in Versions : BeginDoes(k, v)
  BY <1>1, <1>2, <1>3, <1>4 DEF BeginDoes, ClearFlags
<1>5. CASE EndDoes
  BY <1>1, <1>2, <1>3, <1>5
     DEF EndDoes, KeepFlags, KeepEnd, NotClean, ClearFlags, Ops
<1>6. CASE PreflightDoes
  BY <1>1, <1>2, <1>3, <1>6 DEF PreflightDoes, AlreadyCurrent, Refused, RecordIs, Exists, Ops,
     Layout, RootIs, BackupIs, Original
<1>7. CASE ReturnDoes
  BY <1>7 DEF ReturnDoes
<1>8. CASE StageDoes
  BY <1>1, <1>2, <1>3, <1>8
     DEF StageDoes, KeepFlags, KeepEnd, NotClean, ClearFlags, Ops
<1>9. CASE UnplugDoes
  BY <1>1, <1>2, <1>9 DEF UnplugDoes, RecordIs, Ops
<1>10. CASE UnlistDoes
  BY <1>1, <1>2, <1>10 DEF UnlistDoes, RecordIs, Ops
<1>11. CASE AsideDoes \/ PromoteDoes \/ ListDoes
  BY <1>1, <1>2, <1>3, <1>11
     DEF AsideDoes, PromoteDoes, ListDoes, KeepFlags, KeepEnd, NotClean, ClearFlags, Ops
<1>12. CASE PlugDoes
  BY <1>1, <1>2, <1>12 DEF PlugDoes, RecordIs, Ops
<1>13. CASE RecordDoes
  BY <1>1, <1>2, <1>13 DEF RecordDoes, Underway, Ops
<1>14. CASE CommitDoes \/ NoteCheckDoes
  BY <1>1, <1>2, <1>3, <1>14
     DEF CommitDoes, NoteCheckDoes, KeepFlags, KeepEnd, NotClean, ClearFlags, Ops
<1>15. CASE ForgetPluginDoes \/ ForgetMarketDoes \/ DiscardDoes
  BY <1>1, <1>2, <1>3, <1>15
     DEF ForgetPluginDoes, ForgetMarketDoes, DiscardDoes, KeepFlags, KeepEnd, NotClean, ClearFlags,
         Ops
<1>16. CASE RestoreDoes \/ ReregisterDoes \/ CleanUpDoes
  BY <1>1, <1>2, <1>3, <1>16
     DEF RestoreDoes, ReregisterDoes, CleanUpDoes, KeepFlags, KeepEnd, NotClean, ClearFlags, Ops
<1>17. CASE RemoveAgentDoes \/ RemoveRecordDoes \/ RemoveFilesDoes
  BY <1>1, <1>2, <1>3, <1>17
     DEF RemoveAgentDoes, RemoveRecordDoes, RemoveFilesDoes, KeepFlags, KeepEnd, NotClean,
         ClearFlags, Ops
<1>18. CASE RecoverFilesDoes \/ RecoverRegistrationDoes \/ RecoverAgentDoes \/ RecoverRecordDoes
  BY <1>1, <1>2, <1>3, <1>18
     DEF RecoverFilesDoes, RecoverRegistrationDoes, RecoverAgentDoes, RecoverRecordDoes, KeepFlags,
         KeepEnd, NotClean, ClearFlags, Ops
<1>19. CASE PurgeRootDoes \/ PurgeResidueDoes \/ PurgeAgentDoes \/ PurgeRecordDoes \/ PurgeEndsDoes
  BY <1>1, <1>2, <1>3, <1>19
     DEF PurgeRootDoes, PurgeResidueDoes, PurgeAgentDoes, PurgeRecordDoes, PurgeEndsDoes, KeepFlags,
         KeepEnd, NotClean, ClearFlags, Ops
<1>20. CASE EnableRecordDoes \/ EnableAgentDoes \/ EnableUndoDoes \/ DisableAgentDoes \/ DisableRecordDoes
  BY <1>1, <1>2, <1>3, <1>20
     DEF EnableRecordDoes, EnableAgentDoes, EnableUndoDoes, DisableAgentDoes, DisableRecordDoes,
         KeepFlags, KeepEnd, NotClean, ClearFlags, Ops
<1>21. CASE DriftDoes
  BY <1>1, <1>2, <1>3, <1>21
     DEF DriftDoes, KeepFlags, KeepEnd, NotClean, ClearFlags, Ops
<1>22. CASE CrashDoes
  BY <1>22 DEF CrashDoes
<1> QED
  BY <1>4, <1>5, <1>6, <1>7, <1>8, <1>9, <1>10, <1>11, <1>12, <1>13, <1>14, <1>15, <1>16, <1>17,
     <1>18, <1>19, <1>20, <1>21, <1>22, ZenonT(60)
     DEF Step

\* Each step of a recovery has done its part, or says it has not.
LEMMA UndoneNext ==
  ASSUME Shaped, Shaped', Versioned, Fits, Layout, RecordIs, Reversible, Undone, Step
  PROVE  Undone'
<1>. USE DEF Fits, Kinds, Installs, Moves, Registering, Activating, RollingBack, Removing,
             Recovering, Purging, Ending, Undone
<1>1. /\ op \in Ops
      /\ op.kind \in Installs => Failure = "forget plugin"
      /\ op.kind = "remove" => Failure = "recover files"
      /\ op.kind = "purge" => Failure = "purge root"
      /\ op.kind \in {"enable", "disable", "none"} => Failure = "failed"
  BY FailureIs DEF Shaped, Ops
<1>2. /\ host \in Hosts /\ before.host \in Hosts /\ tx \in Flags /\ tx' \in Flags /\ before.desired \in Desires
  BY DEF Shaped, Befores, Places
<1>3. files.root \in Trees /\ before.root \in Trees /\ NoTree.kind = "none"
  BY Absent DEF Shaped, Places, Befores
<1>4. CASE \E k \in Kinds, v \in Versions : BeginDoes(k, v)
  BY <1>1, <1>2, <1>3, <1>4 DEF BeginDoes, ClearFlags
<1>5. CASE PreflightDoes \/ EndDoes
  BY <1>1, <1>2, <1>3, <1>5
     DEF PreflightDoes, EndDoes, KeepFlags, KeepEnd, NotClean, ClearFlags, Ops
<1>6. CASE ReturnDoes
  BY <1>6 DEF ReturnDoes
<1>7. CASE StageDoes \/ UnplugDoes \/ UnlistDoes
  BY <1>1, <1>2, <1>3, <1>7
     DEF StageDoes, UnplugDoes, UnlistDoes, KeepFlags, KeepEnd, NotClean, ClearFlags, Ops
<1>8. CASE AsideDoes \/ PromoteDoes \/ ListDoes \/ PlugDoes \/ RecordDoes
  BY <1>1, <1>2, <1>3, <1>8
     DEF AsideDoes, PromoteDoes, ListDoes, PlugDoes, RecordDoes, KeepFlags, KeepEnd, NotClean,
         ClearFlags, Ops
<1>9. CASE CommitDoes \/ NoteCheckDoes
  BY <1>1, <1>2, <1>3, <1>9
     DEF CommitDoes, NoteCheckDoes, KeepFlags, KeepEnd, NotClean, ClearFlags, Ops
<1>10. CASE ForgetMarketDoes \/ DiscardDoes
  BY <1>1, <1>2, <1>3, <1>10
     DEF ForgetMarketDoes, DiscardDoes, KeepFlags, KeepEnd, NotClean, ClearFlags, Ops
<1>11. CASE ForgetPluginDoes
  BY <1>1, <1>2, <1>11 DEF ForgetPluginDoes, Reversible, NotClean, KeepFlags, Ops
<1>12. CASE RestoreDoes
  <2>1. /\ UNCHANGED <<op, before, host>> /\ step = "restore" /\ step' = "reregister" /\ op.kind \in Installs
        /\ tx'.clean => tx.clean
    BY <1>1, <1>12 DEF RestoreDoes, NotClean, KeepEnd, Ops
  <2>2. ASSUME tx'.clean
        PROVE  Original(files.root)' /\ (tx'.backed => tx'.restored)
    <3>1. CASE ~tx.backed /\ UNCHANGED <<files, tx>>
      <4>1. CASE tx.active
        <5>1. files.root = NoTree /\ before.root = NoTree
          BY <2>1, <2>2, <3>1, <4>1 DEF Layout, RootIs, Exists
        <5>2. QED  BY <2>1, <3>1, <5>1 DEF Original
      <4>2. CASE ~tx.active
        BY <2>1, <3>1, <4>2 DEF Layout, RootIs, Original
      <4>3. QED  BY <4>1, <4>2
    <3>2. CASE tx.backed /\ files'.root = files.backup /\ tx'.restored
      BY <1>2, <2>1, <3>2 DEF Layout, RestoredIs, BackupIs, Original
    <3>3. QED  BY <1>12, <2>2, <3>1, <3>2 DEF RestoreDoes, NotClean
  <2>3. QED  BY <2>1, <2>2
<1>13. CASE ReregisterDoes
  <2>1. /\ UNCHANGED <<op, before, files>> /\ step = "reregister" /\ step' = "clean up" /\ op.kind \in Installs
        /\ tx'.backed = tx.backed /\ tx'.restored = tx.restored
    BY <1>1, <1>13 DEF ReregisterDoes, NotClean, KeepFlags, Ops
  <2>2. CASE ~tx'.clean
    BY <2>1, <2>2
  <2>3. CASE tx'.clean
    <3>1. /\ UNCHANGED tx /\ tx.clean /\ ~host.market /\ Original(files.root) /\ (tx.backed => tx.restored)
          /\ before.host.market /\ before.host.plugin = Nothing => host.plugin = Nothing
      BY <1>1, <1>2, <1>13, <2>1, <2>3 DEF ReregisterDoes, NotClean
    <3>2. /\ before.host.market => tx.removed /\ before.root # NoTree
          /\ tx.removed => before.host.market
      BY <2>1 DEF Reversible, RecordIs, Exists
    <3>3. CASE ~before.host.market
      <4>1. UNCHANGED host
        BY <1>2, <1>13, <2>3, <3>2, <3>3 DEF ReregisterDoes, NotClean
      <4>2. RegistrationBack'
        BY <1>2, <2>1, <3>1, <3>3, <4>1 DEF RegistrationBack, Installed, Hosts
      <4>3. QED  BY <2>1, <3>1, <4>2 DEF Original
    <3>4. CASE before.host.market
      <4>1. host' = Registered
        BY <1>2, <1>13, <2>3, <3>1, <3>2, <3>4 DEF ReregisterDoes, NotClean
      <4>2. RegistrationBack'
        BY <2>1, <3>1, <3>2, <3>4, <4>1, RegisteredIsBack DEF RegistrationBack, Installed
      <4>3. QED  BY <2>1, <3>1, <4>2 DEF Original
    <3>5. QED  BY <3>3, <3>4
  <2>4. QED  BY <2>2, <2>3
<1>14. CASE CleanUpDoes
  BY <1>1, <1>2, <1>14 DEF CleanUpDoes, Original, RegistrationBack, Ops
<1>15. CASE RemoveAgentDoes \/ RemoveRecordDoes \/ RemoveFilesDoes
  BY <1>1, <1>2, <1>3, <1>15
     DEF RemoveAgentDoes, RemoveRecordDoes, RemoveFilesDoes, KeepFlags, KeepEnd, NotClean,
         ClearFlags, Ops
<1>16. CASE RecoverFilesDoes \/ RecoverRecordDoes
  BY <1>1, <1>2, <1>3, <1>16
     DEF RecoverFilesDoes, RecoverRecordDoes, KeepFlags, KeepEnd, NotClean, ClearFlags, Ops
<1>17. CASE RecoverRegistrationDoes
  <2>1. /\ UNCHANGED <<op, before, files>> /\ step = "recover registration" /\ step' = "recover agent"
        /\ op.kind = "remove" /\ tx'.restored = tx.restored /\ tx'.backed = tx.backed
    BY <1>1, <1>17 DEF RecoverRegistrationDoes, KeepFlags, Ops
  <2>2. CASE ~tx'.complete
    BY <2>1, <2>2
  <2>3. CASE tx'.complete
    <3>1. tx.complete /\ tx.restored /\ Original(files.root)
      BY <1>1, <1>2, <1>17, <2>1, <2>3 DEF RecoverRegistrationDoes, KeepEnd, Layout, RootIs, RestoredIs
    <3>2. /\ before.host.market => tx.removed /\ before.root # NoTree
          /\ tx.removed => before.host.market
          /\ ~before.host.market => ~host.market
          /\ before.host.market /\ before.host.plugin = Nothing => host.plugin = Nothing
      BY <2>1 DEF Reversible, RecordIs, Exists
    <3>3. CASE ~before.host.market
      <4>1. UNCHANGED host
        BY <1>2, <1>17, <3>2, <3>3 DEF RecoverRegistrationDoes
      <4>2. RegistrationBack'
        BY <1>2, <2>1, <3>2, <3>3, <4>1 DEF RegistrationBack, Installed, Hosts
      <4>3. QED  BY <2>1, <4>2
    <3>4. CASE before.host.market
      <4>1. host' = Registered
        BY <1>2, <1>17, <2>3, <3>1, <3>2, <3>4 DEF RecoverRegistrationDoes
      <4>2. RegistrationBack'
        BY <2>1, <3>1, <3>2, <3>4, <4>1, RegisteredIsBack DEF RegistrationBack, Installed
      <4>3. QED  BY <2>1, <4>2
    <3>5. QED  BY <3>3, <3>4
  <2>4. QED  BY <2>2, <2>3
<1>18. CASE RecoverAgentDoes
  BY <1>1, <1>2, <1>18 DEF RecoverAgentDoes, Reversible, Recovered, Desires, KeepEnd, RegistrationBack, Ops
<1>19. CASE PurgeRootDoes \/ PurgeResidueDoes \/ PurgeAgentDoes \/ PurgeRecordDoes \/ PurgeEndsDoes
  BY <1>1, <1>2, <1>3, <1>19
     DEF PurgeRootDoes, PurgeResidueDoes, PurgeAgentDoes, PurgeRecordDoes, PurgeEndsDoes, KeepFlags,
         KeepEnd, NotClean, ClearFlags, Ops
<1>20. CASE EnableRecordDoes \/ EnableAgentDoes \/ EnableUndoDoes \/ DisableAgentDoes \/ DisableRecordDoes
  BY <1>1, <1>2, <1>3, <1>20
     DEF EnableRecordDoes, EnableAgentDoes, EnableUndoDoes, DisableAgentDoes, DisableRecordDoes,
         KeepFlags, KeepEnd, NotClean, ClearFlags, Ops
<1>21. CASE CrashDoes
  BY <1>21 DEF CrashDoes
<1>22. CASE DriftDoes
  BY <1>1, <1>2, <1>3, <1>22 DEF DriftDoes, Original, RegistrationBack
<1> QED
  BY <1>4, <1>5, <1>6, <1>7, <1>8, <1>9, <1>10, <1>11, <1>12, <1>13, <1>14, <1>15, <1>16, <1>17,
     <1>18, <1>19, <1>20, <1>21, <1>22, ZenonT(60)
     DEF Step

\* What is so when an operation says that it failed and everything is as it was.
LEMMA FailedNext ==
  ASSUME Shaped, Shaped', Versioned, Fits, Layout, RecordIs, SucceededIs, Reversible, Undone, FailedIs, Step
  PROVE  FailedIs'
<1>. USE DEF Fits, Kinds, Installs, Moves, Registering, Activating, RollingBack, Removing,
             Recovering, Purging, Ending, FailedIs
<1>1. /\ op \in Ops
      /\ op.kind \in Installs => Failure = "forget plugin"
      /\ op.kind = "remove" => Failure = "recover files"
      /\ op.kind = "purge" => Failure = "purge root"
      /\ op.kind \in {"enable", "disable", "none"} => Failure = "failed"
  BY FailureIs DEF Shaped, Ops
<1>2. tx \in Flags /\ tx' \in Flags
  BY DEF Shaped
<1>3. before.desired \in Desires
  BY DEF Shaped, Befores
<1>4. ASSUME NEW d \in Desires, d.auto = before.desired.auto, d.installed = before.desired.installed,
             d.version = before.desired.version
      PROVE  d = before.desired
  <2>1. d = [installed |-> d.installed, version |-> d.version, auto |-> d.auto]
    BY <1>4 DEF Desires
  <2>2. before.desired = [installed |-> before.desired.installed, version |-> before.desired.version,
                          auto |-> before.desired.auto]
    BY <1>3 DEF Desires
  <2>3. QED  BY <1>4, <2>1, <2>2
<1>5. CASE \E k \in Kinds, v \in Versions : BeginDoes(k, v)
  BY <1>1, <1>2, <1>3, <1>4, <1>5 DEF BeginDoes, ClearFlags
<1>6. CASE PreflightDoes
  <2>1. UNCHANGED <<op, before, files, host, desired, agent, tx>> /\ step = "preflight"
    BY <1>6 DEF PreflightDoes
  <2>2. op.kind \in Moves => AsBefore
    <3>1. op.kind \in Moves => /\ files.root.version = before.root.version /\ host = before.host
                               /\ desired = before.desired /\ agent = before.agent
      BY <1>2, <2>1 DEF Layout, RootIs, BackupIs, Original, Reversible, RecordIs
    <3>2. QED  BY <3>1 DEF AsBefore
  <2>3. AsBefore => AsBefore'
    BY <2>1 DEF AsBefore, Installed
  <2>4. QED  BY <2>1, <2>2, <2>3, <1>6 DEF PreflightDoes
<1>7. CASE EndDoes
  <2>1. /\ UNCHANGED <<before, host, desired, agent, tx, hostFailed>> /\ files'.root = files.root
        /\ op'.kind = op.kind /\ op'.version = op.version /\ step' = "done" /\ (~op'.ok => step = "failed")
    BY <1>7 DEF EndDoes
  <2>2. AsBefore => AsBefore'
    BY <2>1 DEF AsBefore, Installed
  <2>3. InstallDone => InstallDone'
    BY <2>1 DEF InstallDone
  <2>4. QED  BY <2>1, <2>2, <2>3
<1>8. CASE ReturnDoes
  BY <1>8 DEF ReturnDoes
<1>9. CASE UnplugDoes \/ UnlistDoes
  BY <1>1, <1>2, <1>3, <1>4, <1>9
     DEF UnplugDoes, UnlistDoes, KeepFlags, KeepEnd, NotClean, ClearFlags, Ops
<1>10. CASE StageDoes
  <2>1. UNCHANGED <<op, before, host, desired, agent, tx>> /\ files'.root = files.root /\ step = "stage"
        /\ op.kind \in Moves /\ step' \in {"failed", "unplug"}
    BY <1>1, <1>10 DEF StageDoes, Ops
  <2>2. AsBefore
    <3>1. /\ files.root.version = before.root.version /\ host = before.host
          /\ desired = before.desired /\ agent = before.agent
      BY <1>2, <2>1 DEF Layout, RootIs, BackupIs, Original, Reversible, RecordIs
    <3>2. QED  BY <3>1 DEF AsBefore
  <2>3. AsBefore => AsBefore'
    BY <2>1 DEF AsBefore, Installed
  <2>4. QED  BY <2>1, <2>2, <2>3
<1>11. CASE AsideDoes \/ PromoteDoes \/ ListDoes \/ PlugDoes \/ RecordDoes
  BY <1>1, <1>2, <1>3, <1>4, <1>11
     DEF AsideDoes, PromoteDoes, ListDoes, PlugDoes, RecordDoes, KeepFlags, KeepEnd, NotClean,
         ClearFlags, Ops
<1>12. CASE CommitDoes
  BY <1>1, <1>2, <1>3, <1>4, <1>12
     DEF CommitDoes, KeepFlags, KeepEnd, NotClean, ClearFlags, Ops
<1>13. CASE NoteCheckDoes
  <2>1. UNCHANGED <<op, host, desired, tx, hostFailed, files>> /\ op.kind = "scheduled"
        /\ step = "note check" /\ step' \in {"succeeded", "failed"}
    BY <1>13 DEF NoteCheckDoes
  <2>2. InstallDone
    BY <2>1 DEF SucceededIs, Succeeded
  <2>3. InstallDone'
    BY <2>1, <2>2 DEF InstallDone
  <2>4. QED  BY <2>1, <2>3
<1>14. CASE ForgetPluginDoes \/ ForgetMarketDoes \/ DiscardDoes
  BY <1>1, <1>2, <1>3, <1>4, <1>14
     DEF ForgetPluginDoes, ForgetMarketDoes, DiscardDoes, KeepFlags, KeepEnd, NotClean, ClearFlags,
         Ops
<1>15. CASE RestoreDoes \/ ReregisterDoes
  BY <1>1, <1>2, <1>3, <1>4, <1>15
     DEF RestoreDoes, ReregisterDoes, KeepFlags, KeepEnd, NotClean, ClearFlags, Ops
<1>16. CASE CleanUpDoes
  <2>1. UNCHANGED <<op, before, host, desired, agent, tx>> /\ files'.root = files.root /\ step = "clean up"
        /\ op.kind \in Installs
    BY <1>1, <1>16 DEF CleanUpDoes, Ops
  <2>2. tx.clean => AsBefore
    <3>1. tx.clean => /\ files.root.version = before.root.version /\ RegistrationBack
                      /\ desired = before.desired /\ agent = before.agent
      BY <2>1 DEF Undone, Original, Reversible
    <3>2. QED  BY <3>1 DEF AsBefore, RegistrationBack
  <2>3. AsBefore => AsBefore'
    BY <2>1 DEF AsBefore, Installed
  <2>4. QED  BY <2>1, <2>2, <2>3
<1>17. CASE RemoveAgentDoes \/ RemoveRecordDoes \/ RemoveFilesDoes
  BY <1>1, <1>2, <1>3, <1>4, <1>17
     DEF RemoveAgentDoes, RemoveRecordDoes, RemoveFilesDoes, KeepFlags, KeepEnd, NotClean,
         ClearFlags, Ops
<1>18. CASE RecoverFilesDoes \/ RecoverRegistrationDoes \/ RecoverAgentDoes
  BY <1>1, <1>2, <1>3, <1>4, <1>18
     DEF RecoverFilesDoes, RecoverRegistrationDoes, RecoverAgentDoes, KeepFlags, KeepEnd, NotClean,
         ClearFlags, Ops
<1>19. CASE RecoverRecordDoes
  <2>1. UNCHANGED <<op, before, host, agent, files>> /\ step = "recover record" /\ op.kind = "remove"
        /\ tx'.complete = tx.complete /\ tx'.written = tx.written /\ tx'.touched = tx.touched
    BY <1>1, <1>19 DEF RecoverRecordDoes, KeepFlags, Ops
  <2>2. ASSUME tx'.clean
        PROVE  tx.complete /\ tx.agentOK /\ desired' = before.desired
    <3>1. CASE ~tx.written /\ tx.complete /\ tx.agentOK /\ UNCHANGED desired
      BY <2>1, <3>1 DEF Reversible
    <3>2. CASE desired' = Recovered /\ tx.complete /\ tx.agentOK
      <4>1. Recovered = [before.desired EXCEPT !.auto = before.desired.auto /\ tx.agentOK]
        BY <3>2 DEF Recovered
      <4>2. before.desired.auto \in BOOLEAN
        BY <1>3 DEF Desires
      <4>3. /\ Recovered \in Desires /\ Recovered.auto = before.desired.auto
            /\ Recovered.installed = before.desired.installed /\ Recovered.version = before.desired.version
        BY <1>3, <3>2, <4>1, <4>2 DEF Desires
      <4>4. Recovered = before.desired
        BY <1>4, <4>3
      <4>5. QED  BY <3>2, <4>4
    <3>3. QED  BY <1>19, <2>2, <3>1, <3>2 DEF RecoverRecordDoes
  <2>3. tx.complete /\ tx.agentOK => /\ files.root.version = before.root.version /\ RegistrationBack
                                     /\ before.desired.auto /\ before.agent = "loaded" => agent = "loaded"
    BY <1>2, <2>1 DEF Undone, Layout, RestoredIs, RootIs, Original
  <2>4. tx'.clean => AsBefore'
    BY <2>1, <2>2, <2>3 DEF AsBefore, RegistrationBack, Installed
  <2>5. QED  BY <2>1, <2>4
<1>20. CASE PurgeRootDoes \/ PurgeResidueDoes \/ PurgeAgentDoes \/ PurgeRecordDoes \/ PurgeEndsDoes
  BY <1>1, <1>2, <1>3, <1>4, <1>20
     DEF PurgeRootDoes, PurgeResidueDoes, PurgeAgentDoes, PurgeRecordDoes, PurgeEndsDoes, KeepFlags,
         KeepEnd, NotClean, ClearFlags, Ops
<1>21. CASE EnableRecordDoes \/ EnableAgentDoes \/ EnableUndoDoes \/ DisableAgentDoes \/ DisableRecordDoes
  BY <1>1, <1>2, <1>3, <1>4, <1>21
     DEF EnableRecordDoes, EnableAgentDoes, EnableUndoDoes, DisableAgentDoes, DisableRecordDoes,
         KeepFlags, KeepEnd, NotClean, ClearFlags, Ops
<1>22. CASE CrashDoes
  BY <1>22 DEF CrashDoes
<1>23. CASE DriftDoes
  <2>1. /\ UNCHANGED <<op, before, host, desired, agent, tx, hostFailed, step>>
        /\ files.root.kind = "whole" /\ files'.root.kind = "altered" /\ files'.root.version = files.root.version
    BY <1>23 DEF DriftDoes
  <2>2. AsBefore => AsBefore'
    BY <2>1 DEF AsBefore, Installed
  <2>3. InstallDone => InstallDone'
    BY <2>1 DEF InstallDone
  <2>4. QED  BY <2>1, <2>2, <2>3
<1> QED
  BY <1>5, <1>6, <1>7, <1>8, <1>9, <1>10, <1>11, <1>12, <1>13, <1>14, <1>15, <1>16, <1>17, <1>18,
     <1>19, <1>20, <1>21, <1>22, <1>23, ZenonT(60)
     DEF Step

-----------------------------------------------------------------------------
(***************************************************************************)
(* A file of the user's.                                                   *)
(***************************************************************************)
\* A removal or a purge that is killed has deleted no tree with a file of the user's in it.
LEMMA CrashKeepsUserFile ==
  ASSUME Shaped, Fits, Layout, op.kind \in {"remove", "purge"}, Altered, CrashDoes
  PROVE  Altered'
<1>. USE DEF Altered, Beside, Verified
<1>1. /\ NoTree.kind = "none"
      /\ step \notin {"stage", "discard", "commit"}
  BY Absent DEF Fits, Installs, Registering, Activating, RollingBack, Removing, Recovering, Purging, Ending
<1>2. PICK t \in Beside : t.kind = "altered"
  OBVIOUS
<1>3. ASSUME NEW r, NEW S, Left(r, S), t \in residue \cup S \cup {r}
      PROVE  Altered'
  <2>1. files'.root = r /\ residue' = (residue \cup S) \ {NoTree}
    BY <1>3 DEF Left
  <2>2. QED  BY <1>1, <1>2, <1>3, <2>1
<1>4. CASE Left(files.root, {files.staging, files.backup})
  BY <1>2, <1>3, <1>4
<1>5. files.staging = NoTree
  BY DEF Layout, StagingIs, Exists, Installs
<1>6. CASE step = "remove files" /\ Verified(files.backup) /\ \E u \in Rest(files.backup) : Left(files.root, {u})
  BY <1>1, <1>2, <1>3, <1>5, <1>6
<1>7. CASE step = "purge root" /\ Verified(files.root) /\ \E u \in Rest(files.root) : Left(NoTree, {u})
  <2>1. files.backup = NoTree
    BY <1>7 DEF Layout, BackupIs, Exists, Moves, Installs, Fits, Registering, Removing, Recovering, Ending
  <2>2. QED  BY <1>1, <1>2, <1>3, <1>5, <1>7, <2>1
<1>8. CASE step = "purge residue" /\ \E u \in residue \cup {files.backup} : \E w \in Rest(u) :
             /\ Verified(u)
             /\ files' = [files EXCEPT !.backup = NoTree]
             /\ residue' = (((residue \cup {files.backup}) \ {u}) \cup {w}) \ {NoTree}
  <2>1. PICK u \in residue \cup {files.backup} : \E w \in Rest(u) :
             /\ Verified(u)
             /\ files' = [files EXCEPT !.backup = NoTree]
             /\ residue' = (((residue \cup {files.backup}) \ {u}) \cup {w}) \ {NoTree}
    BY <1>8
  <2>2. t # u /\ t # NoTree
    BY <1>1, <1>2, <2>1
  <2>3. files \in Places
    BY DEF Shaped
  <2>4. files'.root = files.root
    BY <2>1, <2>3 DEF Places
  <2>5. QED  BY <1>1, <1>2, <1>5, <2>1, <2>2, <2>4
<1>9. HalfDone => \/ step = "remove files" /\ Verified(files.backup) /\ \E u \in Rest(files.backup) : Left(files.root, {u})
                  \/ step = "purge root" /\ Verified(files.root) /\ \E u \in Rest(files.root) : Left(NoTree, {u})
                  \/ step = "purge residue" /\ \E u \in residue \cup {files.backup} : \E w \in Rest(u) :
                       /\ Verified(u)
                       /\ files' = [files EXCEPT !.backup = NoTree]
                       /\ residue' = (((residue \cup {files.backup}) \ {u}) \cup {w}) \ {NoTree}
  BY <1>1, Zenon DEF HalfDone
<1>10. QED  BY <1>4, <1>6, <1>7, <1>8, <1>9, Zenon DEF CrashDoes

\* No step of a removal or a purge deletes such a tree.
LEMMA UserFileNext ==
  ASSUME Shaped, Fits, Layout, op.kind \in {"remove", "purge"}, Altered, Step
  PROVE  Altered'
<1>. USE DEF Fits, Kinds, Installs, Moves, Registering, Activating, RollingBack, Removing,
             Recovering, Purging, Ending, Altered, Beside, Exists, Verified
<1>1. /\ op \in Ops
      /\ op.kind \in Installs => Failure = "forget plugin"
      /\ op.kind = "remove" => Failure = "recover files"
      /\ op.kind = "purge" => Failure = "purge root"
      /\ op.kind \in {"enable", "disable", "none"} => Failure = "failed"
  BY FailureIs DEF Shaped, Ops
<1>2. /\ files.staging = NoTree /\ NoTree.kind = "none" /\ (Exists(files.backup) => tx.backed \/ step = "purge residue")
      /\ tx.backed => op.kind = "remove" /\ step \notin Registering
  BY Absent DEF Layout, StagingIs, BackupIs, Fits, Exists, Moves, Installs
<1>3. CASE \E k \in Kinds, v \in Versions : BeginDoes(k, v)
  BY <1>1, <1>2, <1>3 DEF BeginDoes, ClearFlags
<1>4. CASE PreflightDoes \/ ReturnDoes
  BY <1>1, <1>2, <1>4
     DEF PreflightDoes, ReturnDoes, KeepFlags, KeepEnd, NotClean, ClearFlags, Ops
<1>5. CASE EndDoes
  BY <1>1, <1>2, <1>5 DEF EndDoes
<1>6. CASE StageDoes \/ UnplugDoes \/ UnlistDoes
  BY <1>1, <1>2, <1>6
     DEF StageDoes, UnplugDoes, UnlistDoes, KeepFlags, KeepEnd, NotClean, ClearFlags, Ops
<1>7. CASE AsideDoes \/ PromoteDoes \/ ListDoes \/ PlugDoes \/ RecordDoes
  BY <1>1, <1>2, <1>7
     DEF AsideDoes, PromoteDoes, ListDoes, PlugDoes, RecordDoes, KeepFlags, KeepEnd, NotClean,
         ClearFlags, Ops
<1>8. CASE CommitDoes \/ NoteCheckDoes
  BY <1>1, <1>2, <1>8
     DEF CommitDoes, NoteCheckDoes, KeepFlags, KeepEnd, NotClean, ClearFlags, Ops
<1>9. CASE ForgetPluginDoes \/ ForgetMarketDoes \/ DiscardDoes
  BY <1>1, <1>2, <1>9
     DEF ForgetPluginDoes, ForgetMarketDoes, DiscardDoes, KeepFlags, KeepEnd, NotClean, ClearFlags,
         Ops
<1>10. CASE RestoreDoes \/ ReregisterDoes \/ CleanUpDoes
  BY <1>1, <1>2, <1>10
     DEF RestoreDoes, ReregisterDoes, CleanUpDoes, KeepFlags, KeepEnd, NotClean, ClearFlags, Ops
<1>11. CASE RemoveAgentDoes \/ RemoveRecordDoes \/ RemoveFilesDoes
  BY <1>1, <1>2, <1>11
     DEF RemoveAgentDoes, RemoveRecordDoes, RemoveFilesDoes, KeepFlags, KeepEnd, NotClean,
         ClearFlags, Ops
<1>12. CASE RecoverRegistrationDoes \/ RecoverAgentDoes \/ RecoverRecordDoes
  BY <1>1, <1>2, <1>12
     DEF RecoverRegistrationDoes, RecoverAgentDoes, RecoverRecordDoes, KeepFlags, KeepEnd, NotClean,
         ClearFlags, Ops
<1>13. CASE RecoverFilesDoes
  BY <1>1, <1>2, <1>13 DEF RecoverFilesDoes, Layout, RootIs, RestoredIs
<1>14. CASE PurgeAgentDoes \/ PurgeRecordDoes \/ PurgeEndsDoes
  BY <1>1, <1>2, <1>14
     DEF PurgeAgentDoes, PurgeRecordDoes, PurgeEndsDoes, KeepFlags, KeepEnd, NotClean, ClearFlags,
         Ops
<1>15. CASE PurgeRootDoes
  BY <1>1, <1>2, <1>15 DEF PurgeRootDoes
<1>16. CASE PurgeResidueDoes
  BY <1>1, <1>2, <1>16 DEF PurgeResidueDoes
<1>17. CASE EnableRecordDoes \/ EnableAgentDoes \/ EnableUndoDoes \/ DisableAgentDoes \/ DisableRecordDoes
  BY <1>1, <1>2, <1>17
     DEF EnableRecordDoes, EnableAgentDoes, EnableUndoDoes, DisableAgentDoes, DisableRecordDoes,
         KeepFlags, KeepEnd, NotClean, ClearFlags, Ops
<1>18. CASE DriftDoes
  BY <1>1, <1>2, <1>18
     DEF DriftDoes, KeepFlags, KeepEnd, NotClean, ClearFlags, Ops
<1>19. CASE CrashDoes
  BY <1>19, CrashKeepsUserFile
<1> QED
  BY <1>3, <1>4, <1>5, <1>6, <1>7, <1>8, <1>9, <1>10, <1>11, <1>12, <1>13, <1>14, <1>15, <1>16,
     <1>17, <1>18, <1>19, ZenonT(60)
     DEF Step

-----------------------------------------------------------------------------
(***************************************************************************)
(* The theorems.                                                           *)
(***************************************************************************)
\* A step counts one thing at most, and not past its bound.
Counted ==
  /\ faults' = faults \/ (faults < MaxFaults /\ faults' = faults + 1)
  /\ drifts' = drifts \/ (drifts < MaxDrift /\ drifts' = drifts + 1)
  /\ ops' = ops \/ (ops < MaxOps /\ ops' = ops + 1)

\* The bounds of the model are kept.
LEMMA NumberedNext ==
  ASSUME Numbered, Next
  PROVE  Numbered'
<1>1. Counted
  <2>. USE DEF Counted, At, Skip, HostStep, AtomicStep, Works, Fails, HostFails
  <2>1. CASE \E k \in Kinds, v \in Versions : Begin(k, v)
    BY <2>1, Zenon DEF Begin
  <2>2. CASE Preflight
    <3>1. UNCHANGED <<drifts, ops>>
      BY <2>2, Zenon DEF Preflight
    <3>2. faults' = faults \/ (faults < MaxFaults /\ faults' = faults + 1)
      BY <2>2, Zenon DEF Preflight
    <3>3. QED  BY <3>1, <3>2
  <2>3. CASE Unplug \/ Unlist \/ Aside
    BY <2>3, Zenon DEF Unplug, Unlist, Aside
  <2>4. CASE Install
    BY <2>4, Zenon DEF Install, Stage, Promote, List, Plug, Record, Commit, NoteCheck
  <2>5. CASE Rollback
    BY <2>5, Zenon DEF Rollback, ForgetPlugin, ForgetMarket, Discard, Restore, Reregister, CleanUp
  <2>6. CASE Remove
    BY <2>6, Zenon DEF Remove, RemoveAgent, RemoveRecord, RemoveFiles
  <2>7. CASE Recover
    BY <2>7, Zenon DEF Recover, RecoverFiles, RecoverRegistration, RecoverAgent, RecoverRecord
  <2>8. CASE Purge
    BY <2>8, Zenon DEF Purge, PurgeRoot, PurgeResidue, PurgeAgent, PurgeRecord, PurgeEnds
  <2>9. CASE AutoUpdate
    BY <2>9, Zenon DEF AutoUpdate, EnableRecord, EnableAgent, EnableUndo, DisableAgent, DisableRecord
  <2>10. CASE End \/ Return
    BY <2>10, Zenon DEF End, Report, Return
  <2>11. CASE Crash
    BY <2>11, Zenon DEF Crash
  <2>12. CASE Drift
    BY <2>12, Zenon DEF Drift
  <2>13. QED
    BY <2>1, <2>2, <2>3, <2>4, <2>5, <2>6, <2>7, <2>8, <2>9, <2>10, <2>11, <2>12, ZenonT(60) DEF Next
<1>2. QED  BY <1>1, LifecycleBoundsAreNaturals DEF Counted, Numbered

\* The inductive invariant.
IInv ==
  /\ Shaped /\ Numbered /\ Versioned /\ Fits
  /\ Layout
  /\ RecordIs /\ Obeyed
  /\ FilesKept
  /\ Underway /\ SucceededIs
  /\ Reversible /\ Undone /\ FailedIs

\* It holds where nothing is installed.
LEMMA InitIInv ==
  Init => IInv
<1> SUFFICES ASSUME Init
             PROVE  IInv
  OBVIOUS
<1>1. /\ files.root = NoTree /\ files.staging = NoTree /\ files.backup = NoTree /\ residue = {}
      /\ host = NoHost /\ desired = NotInstalled /\ agent = "absent" /\ step = "idle"
      /\ op = NoOp /\ before = NotBegun /\ tx = NoTx /\ ~excused /\ ~hostFailed
  BY DEF Init
<1>2. /\ op.kind = "none" /\ ~op.ok /\ ~tx.removed /\ ~tx.backed /\ ~tx.active /\ ~tx.restored /\ ~tx.touched
      /\ ~tx.written /\ tx.agentOK /\ tx.complete /\ tx.clean
  BY <1>1 DEF NoOp, NoTx
<1>3. /\ ~host.market /\ host.plugin = Nothing
      /\ ~desired.installed /\ desired.version = Nothing /\ ~desired.auto
      /\ before.host = NoHost /\ before.desired = NotInstalled /\ before.root = NoTree /\ before.agent = "absent"
  BY <1>1 DEF NoHost, NotInstalled, NotBegun
<1>4. Shaped
  <2>1. NoTree \in Trees
    BY DEF Trees
  <2>2. files \in Places
    BY <2>1 DEF Init, Places
  <2>3. host \in Hosts /\ NoHost \in Hosts
    BY <1>1 DEF NoHost, Hosts
  <2>4. desired \in Desires /\ NotInstalled \in Desires
    BY <1>1 DEF NotInstalled, Desires
  <2>5. op \in Ops /\ tx \in Flags /\ agent \in Agents
    BY <1>1 DEF NoOp, Ops, NoTx, Flags, Agents
  <2>6. before \in Befores
    BY <1>1, <2>1, <2>3, <2>4 DEF NotBegun, Befores, Agents
  <2>7. excused \in BOOLEAN /\ hostFailed \in BOOLEAN
    BY DEF Init
  <2>8. QED  BY <1>1, <2>2, <2>3, <2>4, <2>5, <2>6, <2>7 DEF Shaped
<1>5. Numbered
  BY LifecycleBoundsAreNaturals DEF Init, Numbered
<1>. USE DEF Installs, Moves, Registering, Activating, RollingBack, Removing, Recovering, Purging, Ending
<1>6. Versioned /\ Fits
  BY <1>1, <1>2 DEF Versioned, Fits
<1>7. Layout
  BY <1>1, <1>2 DEF Layout, StagingIs, BackupIs, RootIs, RestoredIs, Exists
<1>8. RecordIs /\ Obeyed
  BY <1>1, <1>2, <1>3 DEF RecordIs, Consistent, Obeyed, Detached, Matches
<1>9. FilesKept
  BY <1>1, <1>2, <1>3 DEF FilesKept, Kept
<1>10. Underway /\ SucceededIs
  BY <1>1, <1>2 DEF Underway, SucceededIs
<1>11. Reversible /\ Undone /\ FailedIs
  BY <1>1, <1>2 DEF Reversible, Undone, FailedIs
<1>12. QED  BY <1>4, <1>5, <1>6, <1>7, <1>8, <1>9, <1>10, <1>11 DEF IInv

\* Every step keeps it.
LEMMA IInvNext ==
  ASSUME IInv, Next
  PROVE  IInv'
<1>1. Shaped /\ Numbered /\ Versioned /\ Fits /\ Layout /\ RecordIs /\ Obeyed /\ FilesKept
      /\ Underway /\ SucceededIs /\ Reversible /\ Undone /\ FailedIs
  BY DEF IInv
<1>2. Step
  BY <1>1, StepDoes
<1>3. Numbered'
  BY <1>1, NumberedNext
<1>4. op.kind # "none" => op.version \in Versions
  BY <1>1 DEF Versioned
<1>5. Shaped'
  BY <1>1, <1>4, ShapedNext
<1>6. Versioned' /\ Fits'
  BY <1>1, <1>2, FitsNext
<1>7. Layout'
  BY <1>1, <1>2, StagingIsNext, BackupIsNext, RootIsNext, RestoredIsNext DEF Layout
<1>8. RecordIs'
  BY <1>1, <1>2, RecordIsNext
<1>9. Obeyed'
  BY <1>1, <1>2, <1>5, ObeyedNext
<1>10. FilesKept'
  BY <1>1, <1>2, <1>5, FilesKeptNext
<1>11. Underway'
  BY <1>1, <1>2, <1>5, UnderwayNext
<1>12. SucceededIs'
  BY <1>1, <1>2, <1>5, SucceededNext
<1>13. Reversible'
  BY <1>1, <1>2, <1>5, ReversibleNext
<1>14. Undone'
  BY <1>1, <1>2, <1>5, UndoneNext
<1>15. FailedIs'
  BY <1>1, <1>2, <1>5, FailedNext
<1>16. QED
  BY <1>3, <1>5, <1>6, <1>7, <1>8, <1>9, <1>10, <1>11, <1>12, <1>13, <1>14, <1>15 DEF IInv

\* So does a step in which nothing happens.
LEMMA IInvStutters ==
  ASSUME IInv, UNCHANGED vars
  PROVE  IInv'
<1>1. /\ files' = files /\ residue' = residue /\ host' = host /\ desired' = desired /\ agent' = agent
      /\ step' = step /\ op' = op /\ before' = before /\ tx' = tx /\ excused' = excused
      /\ hostFailed' = hostFailed /\ faults' = faults /\ drifts' = drifts /\ ops' = ops
  BY DEF vars
<1>2. Shaped' /\ Numbered' /\ Versioned' /\ Fits'
  BY <1>1 DEF IInv, Shaped, Numbered, Versioned, Fits
<1>3. /\ StagingIs /\ BackupIs /\ RootIs /\ RestoredIs /\ RecordIs /\ Obeyed /\ FilesKept
      /\ Underway /\ SucceededIs /\ Reversible /\ Undone /\ FailedIs
  BY DEF IInv, Layout
<1>4. StagingIs'
  BY <1>1, <1>3 DEF StagingIs
<1>5. BackupIs'
  BY <1>1, <1>3 DEF BackupIs, Original
<1>6. RootIs'
  BY <1>1, <1>3 DEF RootIs, Original
<1>7. RestoredIs'
  BY <1>1, <1>3 DEF RestoredIs, Original
<1>8. RecordIs'
  BY <1>1, <1>3 DEF RecordIs
<1>9. Obeyed'
  BY <1>1, <1>3 DEF Obeyed, Detached
<1>10. FilesKept'
  BY <1>1, <1>3 DEF FilesKept, Kept, Safe, RootCounts, GivenUp
<1>11. Underway'
  BY <1>1, <1>3 DEF Underway
<1>12. SucceededIs'
  BY <1>1, <1>3 DEF SucceededIs, Succeeded, InstallDone, RemoveDone, PurgeDone
<1>13. Reversible'
  BY <1>1, <1>3 DEF Reversible
<1>14. Undone'
  BY <1>1, <1>3 DEF Undone, RegistrationBack, Original
<1>15. FailedIs'
  BY <1>1, <1>3 DEF FailedIs, AsBefore, InstallDone
<1>16. QED
  BY <1>2, <1>4, <1>5, <1>6, <1>7, <1>8, <1>9, <1>10, <1>11, <1>12, <1>13, <1>14, <1>15 DEF IInv, Layout

\* It is an invariant: the types, the steps of each operation, where the trees are, what the
\* host's CLI answers, and how far a success or a recovery has come.
THEOREM Invariance == Spec => []IInv
<1>1. IInv /\ [Next]_vars => IInv'
  BY IInvNext, IInvStutters
<1>2. QED  BY <1>1, InitIInv, PTL DEF Spec

\* The types of the run; between operations nothing is staged or backed up.
THEOREM Types_OK == Spec => []TypeOK
<1>1. ASSUME IInv
      PROVE  TypeOK
  <2>1. Shaped /\ Numbered /\ Fits /\ StagingIs /\ BackupIs /\ Consistent(desired)
    BY <1>1 DEF IInv, Layout, RecordIs
  <2>2. step \in {"idle", "done"} => files.staging = NoTree /\ files.backup = NoTree
    BY <2>1 DEF Shaped, Ops, Fits, StagingIs, BackupIs, Exists, Kinds, Installs, Moves, Registering,
       Activating,
       RollingBack, Removing, Recovering, Purging, Ending
  <2>3. QED  BY <2>1, <2>2 DEF TypeOK, Shaped, Numbered, Consistent, Places, Hosts, Desires, Agents
<1>2. QED  BY <1>1, Invariance, PTL

\* Unless a purge has been deleting them, the files of the recorded version are in the root or
\* beside it, whatever failed or was killed.
THEOREM Desired_Has_Files == Spec => []DesiredHasFiles
<1>1. IInv => DesiredHasFiles
  <2>1. SUFFICES ASSUME IInv, desired.installed, ~excused
                 PROVE  \E t \in Beside : t.version = desired.version /\ t.kind \in {"whole", "altered"}
    BY DEF DesiredHasFiles
  <2>2. Safe(desired.version)
    BY <2>1 DEF IInv, FilesKept, Kept
  <2>3. QED  BY <2>2 DEF Safe, Good, Beside
<1>2. QED  BY <1>1, Invariance, PTL

\* As long as no command of the CLI has failed, a marketplace has its directory.
THEOREM Registered_Root_Exists == Spec => []RegisteredRootExists
<1>1. IInv => RegisteredRootExists
  BY DEF IInv, Obeyed, Matches, RegisteredRootExists
<1>2. QED  BY <1>1, Invariance, PTL

\* An operation that reports success has brought about what it is for, in every part at once.
THEOREM Success_Means == Spec => []SuccessMeans
<1>1. IInv => SuccessMeans
  BY SucceededMeans DEF IInv
<1>2. QED  BY <1>1, Invariance, PTL

\* One that fails has restored what was there before, unless a step of its recovery failed too.
THEOREM Failure_Restores == Spec => []FailureRestores
<1>1. IInv => FailureRestores
  BY DEF IInv, FailedIs, FailureRestores, Moves
<1>2. QED  BY <1>1, Invariance, PTL

\* A removal or a purge deletes no tree with a file of the user's in it.
THEOREM User_File_Kept == Spec => UserFileKept
<1>1. ASSUME IInv, [Next]_vars
      PROVE  op.kind \in {"remove", "purge"} /\ Altered => Altered'
  <2>1. CASE UNCHANGED vars
    BY <2>1 DEF vars, Altered, Beside
  <2>2. CASE Next
    <3>1. Shaped /\ Numbered /\ Fits /\ Layout
      BY <1>1 DEF IInv
    <3>2. Step
      BY <2>2, <3>1, StepDoes
    <3>3. QED  BY <3>1, <3>2, UserFileNext
  <2>3. QED  BY <1>1, <2>1, <2>2
<1>2. QED  BY <1>1, Invariance, PTL DEF Spec, UserFileKept

=============================================================================

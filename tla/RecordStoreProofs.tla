------------------------- MODULE RecordStoreProofs -------------------------
(***************************************************************************)
(* Proofs about RecordStore, for any processes, events and bounds.         *)
(***************************************************************************)
EXTENDS RecordStore, TLAPS

-----------------------------------------------------------------------------
(***************************************************************************)
(* The inductive invariant.  The properties alone are not inductive: that  *)
(* an append cannot break the replay needs the preflight's conclusion to   *)
(* stay true while the process waits for the lock (PendingOK), which needs *)
(* the history to grow only at its end (LogOK), which needs that whoever   *)
(* writes holds the lock and writes where it looked (Owner, FileOK), and   *)
(* that the first event is submitted once (StartOK).                       *)
(***************************************************************************)
Owner == \A p \in Procs : pc[p] \in Locked <=> lock = p

CallOKFor(p) ==
  /\ pc[p] = "idle" <=> call[p].op = "none"
  /\ call[p].op = "append" => pc[p] # "look"
  /\ pc[p] \in {"gate", "write"} => call[p].op = "append"
  /\ call[p].op \in {"preflight", "append"} =>
       /\ next[p] >= 1 /\ call[p].seq >= 1
       /\ call[p].seq = 1 <=> call[p].event.type = "task_started"
  /\ pc[p] = "idle" => next[p] # 1

CallOK == \A p \in Procs : CallOKFor(p)

FileOK ==
  \A p \in Procs :
    /\ pc[p] = "restore" => file = NoFile /\ kept[p] = log /\ log # <<>>
    /\ pc[p] # "restore" => kept[p] = <<>>
    /\ pc[p] \in {"marker", "write"} => ~file.torn /\ ~file.damaged
    /\ pc[p] = "marker" => file.lines # <<>>
    /\ pc[p] = "write" => call[p].seq = Len(file.lines) + 1

LogOK ==
  /\ file.lines # <<>> => file.lines = log
  /\ \A v \in vault : IsPrefixOf(v.lines, log)
  /\ log # <<>> /\ file.lines = <<>> => \E v \in vault : v.lines = log
  /\ Replays(log)
  /\ \A i \in 1..Len(log) : log[i].after \in Projections /\ log[i].after.state # "new"
  /\ \A a \in acked : a.seq \in 1..Len(log) /\ log[a.seq] = a

PendingOK ==
  \A p \in Procs : call[p].op = "append" =>
    /\ call[p].seq <= Len(log) + 1
    /\ call[p].seq = 1 => Applicable(NewTask, call[p].event)
    /\ call[p].seq > 1 => Applicable(log[call[p].seq - 1].after, call[p].event)

Starting(p) == call[p].op \in {"preflight", "append"} /\ call[p].seq = 1

StartOK ==
  /\ ~started => log = <<>> /\ \A p \in Procs : ~Starting(p)
  /\ \A p \in Procs : Starting(p) => log = <<>> /\ \A q \in Procs : Starting(q) => q = p

IInv == TypeOK /\ Owner /\ CallOK /\ FileOK /\ LogOK /\ PendingOK /\ StartOK

-----------------------------------------------------------------------------
(***************************************************************************)
(* The reducer.                                                            *)
(***************************************************************************)
\* Applying a legal event gives a projection of a task that has begun: the
\* reducer never returns to "new" and transition_state is total on legal events.
LEMMA ApplyLegal ==
  ASSUME NEW d \in Projections, NEW e \in Events, Applicable(d, e)
  PROVE  /\ Apply(d, e) \in Projections
         /\ Apply(d, e).state # "new"
         /\ Apply(d, e) # Illegal
<1>1. NextState(d.state, e) \in States \ {"new"}
  <2>1. CASE e.type \in DOMAIN MovesTo
    BY <2>1 DEF NextState, MovesTo, States
  <2>2. CASE e.type = "task_concluded"
    <3>1. e.arg \in DOMAIN Closing
      BY <2>2 DEF Events, Plain, Starts, Concludes, Event
    <3> QED
      BY <2>2, <3>1 DEF NextState, MovesTo, Closing, States
  <2>3. CASE e.type = "task_started"
    BY <2>3 DEF NextState, MovesTo, States, Event
  <2>4. CASE e.type \notin DOMAIN MovesTo \cup {"task_concluded", "task_started"}
    <3>1. d.state \in States \ {"new"}
      BY <2>4 DEF Applicable, Projections
    <3> QED
      BY <2>4, <3>1 DEF NextState, States, Event
  <2> QED
    BY <2>1, <2>2, <2>3, <2>4
<1> DEFINE r == IF e.type = "repair_requested" THEN 1 ELSE d.repairs
<1>2. Apply(d, e) = [state |-> NextState(d.state, e), repairs |-> r]
  BY DEF Apply
<1>3. r \in {0, 1}
  BY DEF Projections
<1>4. "illegal" \notin States
  BY DEF States
<1> QED
  BY <1>1, <1>2, <1>3, <1>4 DEF Projections, Illegal

\* A recovery event is legal in every begun task and leaves it as it was.
LEMMA RecoveryKeeps ==
  ASSUME NEW d \in Projections, d.state # "new"
  PROVE  Applicable(d, Recovered) /\ Apply(d, Recovered) = d
<1>1. LegalFrom["recovered_from_torn_tail"] = States
  BY DEF LegalFrom
<1>2. Recovered.type = "recovered_from_torn_tail"
  BY DEF Recovered, Event
<1>3. Applicable(d, Recovered)
  BY <1>1, <1>2 DEF Applicable, Projections
<1>4. NextState(d.state, Recovered) = d.state
  BY <1>2 DEF NextState, MovesTo, Event
<1> QED
  BY <1>2, <1>3, <1>4 DEF Apply, Projections

\* The recovery event and the projection of an empty log are well typed.
LEMMA RecoveredIsEvent == Recovered \in Events /\ NewTask \in Projections
BY DEF Recovered, Event, Events, Plain, EventTypes, LegalFrom, NewTask, Projections, States

\* What the processes append are events.
LEMMA KindsType == \A e \in Kinds : e \in Events
BY KindsAreEvents
(***************************************************************************)
(* Leaving a call.                                                         *)
(***************************************************************************)
ControlType ==
  /\ lock \in Procs \cup {NoProc}
  /\ pc \in [Procs -> Steps]
  /\ call \in [Procs -> Calls]
  /\ kept \in [Procs -> Seq(Line)]
  /\ next \in [Procs -> Nat]

DataType ==
  /\ file \in Files /\ (~file.exists => file = NoFile)
  /\ vault \subseteq [reason : Reasons, lines : Seq(Line)]
  /\ started \in BOOLEAN
  /\ log \in Seq(Line)
  /\ acked \subseteq Line
  /\ faults \in 0..MaxFaults
  /\ damage \in 0..MaxDamage

\* The type invariant after a step, from its two halves.
LEMMA TypePartsNext == ControlType' /\ DataType' => TypeOK'
BY DEF TypeOK, ControlType, DataType

\* The history grows at its end or not at all.
Grows == /\ log' \in Seq(Line)
         /\ Len(log) <= Len(log')
         /\ \A i \in 1..Len(log) : log'[i] = log[i]

\* A history left alone has grown, trivially.
LEMMA SameGrows ==
  ASSUME TypeOK, log' = log
  PROVE  Grows
BY DEF Grows, TypeOK

\* The line numbers of a record are natural numbers.
LEMMA SeqIsNat ==
  ASSUME TypeOK, NEW p \in Procs
  PROVE  call[p].seq \in Nat /\ call[p].event \in Events
BY DEF TypeOK, Calls

\* What a pending append relies on is not disturbed by a growing history.
LEMMA PendingGrows ==
  ASSUME TypeOK, PendingOK, Grows, NEW q \in Procs,
         call'[q] = call[q], call[q].op = "append"
  PROVE  /\ call'[q].seq <= Len(log') + 1
         /\ call'[q].seq = 1 => Applicable(NewTask, call'[q].event)
         /\ call'[q].seq > 1 => Applicable(log'[call'[q].seq - 1].after, call'[q].event)
<1>1. call[q].seq \in Nat /\ Len(log) \in Nat /\ Len(log') \in Nat
  BY SeqIsNat DEF TypeOK, Grows
<1>2. call[q].seq > 1 => log'[call[q].seq - 1] = log[call[q].seq - 1]
  BY <1>1 DEF PendingOK, Grows
<1> QED
  BY <1>1, <1>2 DEF PendingOK, Grows

\* A call begun by one process: its entry changes, the others' do not.
LEMMA Submitted ==
  ASSUME TypeOK, NEW p \in Procs, call' = [call EXCEPT ![p].op = "append"]
  PROVE  /\ call' \in [Procs -> Calls]
         /\ call'[p].op = "append"
         /\ call'[p].event = call[p].event
         /\ call'[p].seq = call[p].seq
         /\ \A q \in Procs \ {p} : call'[q] = call[q]
BY DEF TypeOK, Calls

\* Leaving a call (a result or an exception) keeps the control part of the invariant:
\* the lock is dropped exactly when it was held.
LEMMA LeaveStep ==
  ASSUME IInv, NEW p \in Procs, NEW n \in Nat, n # 1, Leave(p, n)
  PROVE  ControlType' /\ Owner' /\ CallOK'
<1> USE NoProcIsNotAProcess, RecoveredIsEvent DEF IInv, TypeOK, Leave, Goto, Idle
<1>1. ControlType'
  BY DEF ControlType, Calls, Steps
<1>2. Owner'
  BY DEF Owner, Locked
<1>3. CallOK'
  BY DEF CallOK, CallOKFor, Steps, Calls
<1> QED
  BY <1>1, <1>2, <1>3

\* Leaving a call keeps PendingOK: the process that left has nothing pending.
LEMMA LeavePending ==
  ASSUME IInv, NEW p \in Procs, NEW n \in Nat, Leave(p, n), Grows
  PROVE  PendingOK'
<1>1. call'[p].op = "none" /\ \A q \in Procs \ {p} : call'[q] = call[q]
  BY DEF Leave, Idle, IInv, TypeOK
<1> QED
  BY <1>1, PendingGrows DEF IInv, PendingOK

\* Leaving a call keeps StartOK: it cannot create a second start.
LEMMA LeaveStart ==
  ASSUME IInv, NEW p \in Procs, NEW n \in Nat, Leave(p, n), started' = started,
         log' = log \/ log # <<>> \/ Starting(p)
  PROVE  StartOK'
BY DEF IInv, TypeOK, Leave, Idle, StartOK, Starting

(***************************************************************************)
(* Returning from a read.                                                  *)
(***************************************************************************)
\* read_events returning keeps the control part of the invariant, whether to a snapshot,
\* to a preflight that passes or to one that raises.
LEMMA ReturnedStep ==
  ASSUME IInv, NEW p \in Procs, NEW ls \in Seq(Line), Returned(p, ls),
         pc[p] \in {"look", "held", "marker"}, call[p].op \in {"snapshot", "preflight"}
  PROVE  ControlType' /\ Owner' /\ CallOK'
<1>1. CASE call[p].op = "snapshot"
  <2> DEFINE n == IF ls = <<>> THEN 0 ELSE Len(ls) + 1
  <2>1. n \in Nat /\ n # 1
    OBVIOUS
  <2>2. Leave(p, n)
    BY <1>1 DEF Returned
  <2> QED
    BY <2>1, <2>2, LeaveStep
<1>2. CASE call[p].op # "snapshot" /\ ~Replayable(ls, call[p])
  BY <1>2, LeaveStep DEF Returned, Raise
<1>3. CASE call[p].op # "snapshot" /\ Replayable(ls, call[p])
  <2>1. /\ pc' = [pc EXCEPT ![p] = "gate"]
        /\ lock' = IF lock = p THEN NoProc ELSE lock
        /\ call' = [call EXCEPT ![p].op = "append"]
        /\ kept' = [kept EXCEPT ![p] = <<>>]
        /\ next' = next
    BY <1>3 DEF Returned, Goto
  <2>2. /\ call' \in [Procs -> Calls] /\ call'[p].op = "append"
        /\ call'[p].event = call[p].event /\ call'[p].seq = call[p].seq
        /\ \A q \in Procs \ {p} : call'[q] = call[q]
    BY <2>1, Submitted DEF IInv
  <2> USE NoProcIsNotAProcess DEF IInv, TypeOK
  <2>3. ControlType'
    BY <2>1, <2>2 DEF ControlType, Steps
  <2>4. Owner'
    BY <2>1 DEF Owner, Locked
  <2>5. CallOK'
    <3> SUFFICES ASSUME NEW q \in Procs PROVE CallOKFor(q)'
      BY DEF CallOK, CallOKFor
    <3>1. CASE q = p
      BY <1>3, <2>1, <2>2, <3>1 DEF CallOK, CallOKFor
    <3>2. CASE q # p
      BY <2>1, <2>2, <3>2 DEF CallOK, CallOKFor
    <3> QED
      BY <3>1, <3>2
  <2> QED
    BY <2>3, <2>4, <2>5
<1> QED
  BY <1>1, <1>2, <1>3

\* A preflight that passed establishes PendingOK for the append it precedes.
LEMMA ReturnedPending ==
  ASSUME IInv, NEW p \in Procs, NEW ls \in Seq(Line), Returned(p, ls), Grows,
         ls = <<>> \/ ls = log'
  PROVE  PendingOK'
<1>1. CASE call[p].op = "snapshot"
  BY <1>1, LeavePending DEF Returned
<1>2. CASE call[p].op # "snapshot" /\ ~Replayable(ls, call[p])
  BY <1>2, LeavePending DEF Returned, Raise
<1>3. CASE call[p].op # "snapshot" /\ Replayable(ls, call[p])
  <2>1. /\ call'[p].event = call[p].event /\ call'[p].seq = call[p].seq
        /\ \A q \in Procs \ {p} : call'[q] = call[q]
    BY <1>3, Submitted DEF Returned, IInv
  <2>2. Len(ls) \in Nat /\ Len(log') \in Nat /\ call[p].seq = Len(ls) + 1
    BY <1>3, SeqIsNat DEF Grows, Replayable
  <2>3. Applicable(Projection(ls), call[p].event)
    BY <1>3 DEF Replayable
  <2>4. /\ call'[p].seq <= Len(log') + 1
        /\ call'[p].seq = 1 => Applicable(NewTask, call'[p].event)
        /\ call'[p].seq > 1 => Applicable(log'[call'[p].seq - 1].after, call'[p].event)
    BY <2>1, <2>2, <2>3 DEF Projection
  <2> QED
    BY <2>1, <2>4, PendingGrows DEF IInv, PendingOK
<1> QED
  BY <1>1, <1>2, <1>3

\* read_events returning keeps StartOK.
LEMMA ReturnedStart ==
  ASSUME IInv, NEW p \in Procs, NEW ls \in Seq(Line), Returned(p, ls),
         call[p].op \in {"snapshot", "preflight"}, started' = started,
         log' = log \/ log # <<>>
  PROVE  StartOK'
<1>1. CASE call[p].op = "snapshot"
  BY <1>1, LeaveStart DEF Returned
<1>2. CASE call[p].op # "snapshot" /\ ~Replayable(ls, call[p])
  BY <1>2, LeaveStart DEF Returned, Raise
<1>3. CASE call[p].op # "snapshot" /\ Replayable(ls, call[p])
  <2>1. /\ call'[p].seq = call[p].seq
        /\ \A q \in Procs \ {p} : call'[q] = call[q]
    BY <1>3, Submitted DEF Returned, IInv
  <2>2. \A q \in Procs : Starting(q)' => Starting(q)
    BY <1>3, <2>1 DEF Starting
  <2> QED
    BY <2>2 DEF IInv, StartOK
<1> QED
  BY <1>1, <1>2, <1>3
(***************************************************************************)
(* Writing a line.                                                         *)
(***************************************************************************)
\* A process about to write looks at the whole history: the file is the log, and if it is
\* empty, so is the log.
LEMMA WriterSeesLog ==
  ASSUME IInv, NEW p \in Procs, Writing(p)
  PROVE  file.lines = log
<1>1. CASE file.lines # <<>>
  BY <1>1 DEF IInv, LogOK
<1>2. CASE file.lines = <<>>
  <2>1. pc[p] = "write" /\ call[p].seq = 1 /\ call[p].op = "append"
    BY <1>2 DEF IInv, FileOK, CallOK, CallOKFor, Writing
  <2> QED
    BY <1>2, <2>1 DEF IInv, StartOK, Starting
<1> QED
  BY <1>1, <1>2

\* The line append_fsync is about to write continues the history legally.
LEMMA PendingIsLegal ==
  ASSUME IInv, NEW p \in Procs, Writing(p)
  PROVE  /\ Pending(p) \in Line
         /\ Pending(p).seq = Len(log) + 1
         /\ Pending(p).after \in Projections
         /\ Pending(p).after # Illegal
         /\ Pending(p).after.state # "new"
         /\ Pending(p).after = Apply(Projection(log), Pending(p).event)
         /\ Applicable(Projection(log), Pending(p).event)
         /\ Pending(p) = LineFor(log, Len(log) + 1, Pending(p).event)
<1>1. file.lines = log /\ log \in Seq(Line)
  BY WriterSeesLog DEF IInv, TypeOK
<1> DEFINE e == IF pc[p] = "marker" THEN Recovered ELSE call[p].event
<1>2. Pending(p) = LineFor(log, Len(log) + 1, e)
  BY <1>1 DEF Pending, IInv, FileOK, Writing
<1>3. Pending(p) = [seq |-> Len(log) + 1, event |-> e, after |-> Apply(Projection(log), e)]
  BY <1>2 DEF LineFor
<1>4. e \in Events
  BY SeqIsNat, RecoveredIsEvent DEF IInv
<1>5. Projection(log) \in Projections /\ Applicable(Projection(log), e)
  <2>1. CASE log = <<>>
    <3>1. pc[p] = "write" /\ call[p].seq = 1 /\ call[p].op = "append"
      BY <1>1, <2>1 DEF IInv, FileOK, CallOK, CallOKFor, Writing
    <3> QED
      BY <2>1, <3>1, RecoveredIsEvent DEF IInv, PendingOK, Projection
  <2>2. CASE log # <<>>
    <3>1. Len(log) \in 1..Len(log)
      BY <1>1, <2>2
    <3>2. /\ Projection(log) = log[Len(log)].after
          /\ log[Len(log)].after \in Projections
          /\ log[Len(log)].after.state # "new"
      BY <2>2, <3>1 DEF Projection, IInv, LogOK
    <3>3. CASE pc[p] = "marker"
      BY <3>2, <3>3, RecoveryKeeps
    <3>4. CASE pc[p] = "write"
      <4>1. call[p].op = "append" /\ call[p].seq = Len(log) + 1
        BY <1>1, <3>4 DEF IInv, FileOK, CallOK, CallOKFor
      <4> QED
        BY <3>1, <3>2, <3>4, <4>1 DEF IInv, PendingOK
    <3> QED
      BY <3>3, <3>4 DEF Writing
  <2> QED
    BY <2>1, <2>2
<1>6. /\ Apply(Projection(log), e) \in Projections
      /\ Apply(Projection(log), e).state # "new"
      /\ Apply(Projection(log), e) # Illegal
  BY <1>4, <1>5, ApplyLegal
<1>7. Len(log) + 1 \in Nat \ {0}
  BY <1>1
<1> HIDE DEF e
<1> QED
  BY <1>2, <1>3, <1>4, <1>5, <1>6, <1>7 DEF Line

\* A durable line extends the history, which stays replayable.
LEMMA DurableStep ==
  ASSUME IInv, NEW p \in Procs, Writing(p), Durable(p), vault' = vault,
         acked' = acked \/ acked' = acked \cup {Pending(p)}
  PROVE  /\ Grows /\ Len(log') = Len(log) + 1 /\ log' # <<>>
         /\ file'.lines = log' /\ file' \in Files
         /\ file'.exists /\ ~file'.torn /\ ~file'.damaged
         /\ acked' \subseteq Line
         /\ LogOK'
<1> DEFINE x == Pending(p)
<1>1. file.lines = log /\ log \in Seq(Line) /\ acked \subseteq Line
  BY WriterSeesLog DEF IInv, TypeOK
<1>2. /\ x \in Line
      /\ x.seq = Len(log) + 1
      /\ x.after \in Projections
      /\ x.after # Illegal
      /\ x.after.state # "new"
      /\ x.after = Apply(Projection(log), x.event)
  BY PendingIsLegal
<1>3. log' = Append(log, x) /\ file' = Intact(log')
  BY <1>1 DEF Durable
<1>4. acked' = acked \/ acked' = acked \cup {x}
  OBVIOUS
<1> HIDE DEF x
<1>5. /\ log' \in Seq(Line) /\ Len(log') = Len(log) + 1
      /\ \A i \in 1..Len(log) : log'[i] = log[i]
      /\ log'[Len(log) + 1] = x
  BY <1>1, <1>2, <1>3
<1>6. Grows /\ log' # <<>>
  BY <1>1, <1>5 DEF Grows
<1>7. /\ file'.lines = log' /\ file' \in Files
      /\ file'.exists /\ ~file'.torn /\ ~file'.damaged
  BY <1>3, <1>5 DEF Intact, Files
<1>8. acked' \subseteq Line
  BY <1>1, <1>2, <1>4
<1>9. LogOK'
  <2>1. \A v \in vault : IsPrefixOf(v.lines, log)'
    <3> SUFFICES ASSUME NEW v \in vault PROVE IsPrefixOf(v.lines, log')
      BY DEF IsPrefixOf
    <3>1. v.lines \in Seq(Line) /\ IsPrefixOf(v.lines, log)
      BY DEF IInv, TypeOK, LogOK
    <3> QED
      BY <1>1, <1>5, <3>1 DEF IsPrefixOf
  <2>2. ASSUME NEW i \in 1..Len(log')
        PROVE  /\ log'[i].seq = i
               /\ log'[i].after # Illegal
               /\ log'[i].after = Apply(IF i = 1 THEN NewTask ELSE log'[i - 1].after, log'[i].event)
               /\ log'[i].after \in Projections /\ log'[i].after.state # "new"
    <3>1. CASE i \in 1..Len(log)
      BY <1>1, <1>5, <3>1 DEF IInv, LogOK, Replays
    <3>2. CASE i = Len(log) + 1
      <4>1. Projection(log) = IF i = 1 THEN NewTask ELSE log'[i - 1].after
        BY <1>1, <1>5, <3>2 DEF Projection
      <4> QED
        BY <1>2, <1>5, <3>2, <4>1
    <3> QED
      BY <1>1, <1>5, <3>1, <3>2
  <2>3. ASSUME NEW a \in acked'
        PROVE  a.seq \in 1..Len(log') /\ log'[a.seq] = a
    <3>1. CASE a \in acked
      <4>1. a.seq \in 1..Len(log) /\ log[a.seq] = a
        BY <3>1 DEF IInv, LogOK
      <4> QED
        BY <1>1, <1>5, <4>1
    <3>2. CASE a = x
      BY <1>1, <1>2, <1>5, <3>2
    <3> QED
      BY <1>4, <3>1, <3>2
  <2> QED
    BY <1>6, <1>7, <2>1, <2>2, <2>3 DEF LogOK, Replays
<1> QED
  BY <1>5, <1>6, <1>7, <1>8, <1>9
(***************************************************************************)
(* Every step preserves the invariant.                                     *)
(***************************************************************************)
\* A step that leaves the record, the vault and the history alone.
LEMMA SameLog ==
  ASSUME IInv, UNCHANGED <<file, vault, log, acked>>
  PROVE  LogOK'
BY DEF IInv, LogOK, IsPrefixOf, Replays

\* append gives an event the sequence after the recovery event's.
LEMMA Renumbered ==
  ASSUME TypeOK, NEW p \in Procs, NEW n \in Nat, call' = [call EXCEPT ![p].seq = n]
  PROVE  /\ call' \in [Procs -> Calls]
         /\ call'[p].op = call[p].op
         /\ call'[p].event = call[p].event
         /\ call'[p].seq = n
         /\ \A q \in Procs \ {p} : call'[q] = call[q]
BY DEF TypeOK, Calls

\* The empty data root satisfies the invariant.
LEMMA InitIInv == Init => IInv
<1> SUFFICES ASSUME Init PROVE IInv
  OBVIOUS
<1> USE NoProcIsNotAProcess, BoundsAreNaturals DEF Init
<1>1. TypeOK
  <2>1. NoFile \in Files
    BY DEF Files, NoFile
  <2>2. Idle \in Calls
    BY RecoveredIsEvent DEF Idle, Calls
  <2>3. kept \in [Procs -> Seq(Line)] /\ log \in Seq(Line)
    OBVIOUS
  <2>4. call \in [Procs -> Calls] /\ pc \in [Procs -> Steps] /\ next \in [Procs -> Nat]
    BY <2>2 DEF Steps
  <2>5. faults \in 0..MaxFaults /\ damage \in 0..MaxDamage
    OBVIOUS
  <2> QED
    BY <2>1, <2>3, <2>4, <2>5 DEF TypeOK
<1>2. Owner
  BY DEF Owner, Locked
<1>3. CallOK
  BY DEF CallOK, CallOKFor, Idle
<1>4. FileOK
  BY DEF FileOK
<1>5. LogOK
  BY DEF LogOK, NoFile, Replays
<1>6. PendingOK
  BY DEF PendingOK, Idle
<1>7. StartOK
  BY DEF StartOK, Starting, Idle
<1> QED
  BY <1>1, <1>2, <1>3, <1>4, <1>5, <1>6, <1>7 DEF IInv

\* Every step of every process, every fault and damage to the record preserve the invariant.
LEMMA StepIInv == IInv /\ [Next]_vars => IInv'
<1> SUFFICES ASSUME IInv, [Next]_vars PROVE IInv'
  OBVIOUS
<1> USE NoProcIsNotAProcess, BoundsAreNaturals, RecoveredIsEvent, KindsType
<1>1. ASSUME NEW p \in Procs, Snapshot(p) PROVE IInv'
  <2>1. TypeOK'
    BY <1>1 DEF Snapshot, Begin, Goto, IInv, TypeOK, Calls, Steps
  <2>2. Owner'
    BY <1>1 DEF Snapshot, Begin, Goto, IInv, TypeOK, Owner, Locked
  <2>3. CallOK'
    BY <1>1 DEF Snapshot, Begin, Goto, IInv, TypeOK, CallOK, CallOKFor
  <2>4. FileOK'
    BY <1>1 DEF Snapshot, Begin, Goto, IInv, TypeOK, FileOK
  <2>5. LogOK'
    BY <1>1, SameLog DEF Snapshot, Begin
  <2>6. PendingOK'
    BY <1>1 DEF Snapshot, Begin, Goto, IInv, TypeOK, PendingOK
  <2>7. StartOK'
    BY <1>1 DEF Snapshot, Begin, Goto, IInv, TypeOK, StartOK, Starting
  <2> QED
    BY <2>1, <2>2, <2>3, <2>4, <2>5, <2>6, <2>7 DEF IInv
<1>2. ASSUME NEW p \in Procs, Start(p) PROVE IInv'
  <2>1. TypeOK'
    BY <1>2 DEF Start, Begin, Goto, IInv, TypeOK, Calls, Steps
  <2>2. Owner'
    BY <1>2 DEF Start, Begin, Goto, IInv, TypeOK, Owner, Locked
  <2>3. CallOK'
    BY <1>2 DEF Start, Begin, Goto, IInv, TypeOK, CallOK, CallOKFor
  <2>4. FileOK'
    BY <1>2 DEF Start, Begin, Goto, IInv, TypeOK, FileOK
  <2>5. LogOK'
    BY <1>2, SameLog DEF Start, Begin
  <2>6. PendingOK'
    BY <1>2 DEF Start, Begin, Goto, IInv, TypeOK, PendingOK
  <2>7. StartOK'
    BY <1>2 DEF Start, Begin, Goto, IInv, TypeOK, StartOK, Starting
  <2> QED
    BY <2>1, <2>2, <2>3, <2>4, <2>5, <2>6, <2>7 DEF IInv
<1>3. ASSUME NEW p \in Procs, Submit(p) PROVE IInv'
  <2>1. TypeOK'
    BY <1>3 DEF Submit, Begin, Goto, IInv, TypeOK, Calls, Steps
  <2>2. Owner'
    BY <1>3 DEF Submit, Begin, Goto, IInv, TypeOK, Owner, Locked
  <2>3. CallOK'
    BY <1>3 DEF Submit, Begin, Goto, IInv, TypeOK, CallOK, CallOKFor
  <2>4. FileOK'
    BY <1>3 DEF Submit, Begin, Goto, IInv, TypeOK, FileOK
  <2>5. LogOK'
    BY <1>3, SameLog DEF Submit, Begin
  <2>6. PendingOK'
    BY <1>3 DEF Submit, Begin, Goto, IInv, TypeOK, PendingOK
  <2>7. StartOK'
    BY <1>3 DEF Submit, Begin, Goto, IInv, TypeOK, StartOK, Starting, CallOK, CallOKFor, PendingOK
  <2> QED
    BY <2>1, <2>2, <2>3, <2>4, <2>5, <2>6, <2>7 DEF IInv
<1>4. ASSUME NEW p \in Procs, Look(p) PROVE IInv'
  <2>1. UNCHANGED <<file, vault, started, log, acked, damage>> /\ faults' \in 0..MaxFaults
    BY <1>4 DEF Look, Fault, IInv, TypeOK
  <2>2. DataType' /\ LogOK' /\ Grows
    BY <2>1, SameLog, SameGrows DEF IInv, TypeOK, DataType
  <2>3. CASE file.exists
    <3>1. /\ UNCHANGED <<lock, call, kept, next>>
          /\ pc' = [pc EXCEPT ![p] = "lock"]
      BY <1>4, <2>3 DEF Look, Goto
    <3>2. ControlType' /\ Owner'
      BY <1>4, <3>1 DEF Look, IInv, TypeOK, ControlType, Steps, Owner, Locked
    <3>3. CallOK' /\ FileOK'
      BY <1>4, <2>1, <2>3, <3>1 DEF Look, IInv, TypeOK, CallOK, CallOKFor, FileOK
    <3>4. PendingOK' /\ StartOK'
      BY <2>1, <3>1 DEF IInv, PendingOK, StartOK, Starting
    <3> QED
      BY <2>2, <3>2, <3>3, <3>4, TypePartsNext DEF IInv
  <2>4. CASE ~file.exists /\ Blocked
    <3>5. Raise(p)
      BY <1>4, <2>4 DEF Look
    <3>1. ControlType' /\ Owner' /\ CallOK'
      BY <3>5, LeaveStep DEF Raise
    <3>2. FileOK'
      BY <2>1, <3>5 DEF IInv, TypeOK, FileOK, Raise, Leave, Goto
    <3>3. PendingOK' /\ StartOK'
      BY <2>1, <2>2, <3>5, LeavePending, LeaveStart DEF Raise
    <3> QED
      BY <2>2, <3>1, <3>2, <3>3, TypePartsNext DEF IInv
  <2>5. CASE ~file.exists /\ ~Blocked
    <3> DEFINE ls == <<>>
    <3>6. Returned(p, ls)
      BY <1>4, <2>5 DEF Look
    <3>1. ls \in Seq(Line) /\ (ls = <<>> \/ ls = log)
      BY DEF IInv, TypeOK, Files, LogOK
    <3>2. pc[p] \in {"look", "held"} /\ call[p].op \in {"snapshot", "preflight"}
      BY <1>4 DEF Look, IInv, TypeOK, CallOK, CallOKFor, Calls
    <3>3. ControlType' /\ Owner' /\ CallOK'
      BY <3>6, <3>1, <3>2, ReturnedStep
    <3>4. FileOK'
      BY <2>1, <3>6, <3>2 DEF IInv, TypeOK, FileOK, Returned, Raise, Leave, Goto
    <3>5. PendingOK' /\ StartOK'
      BY <2>1, <2>2, <3>6, <3>1, <3>2, ReturnedPending, ReturnedStart
    <3> QED
      BY <2>2, <3>3, <3>4, <3>5, TypePartsNext DEF IInv
  <2> QED
    BY <2>3, <2>4, <2>5
<1>5. ASSUME NEW p \in Procs, Gate(p) PROVE IInv'
  <2>1. UNCHANGED <<file, vault, started, log, acked, damage>> /\ faults' \in 0..MaxFaults
    BY <1>5 DEF Gate, Fault, IInv, TypeOK
  <2>2. DataType' /\ LogOK' /\ Grows
    BY <2>1, SameLog, SameGrows DEF IInv, TypeOK, DataType
  <2>3. CASE ~(Blocked /\ ~file.exists)
    <3>1. /\ UNCHANGED <<lock, call, kept, next>>
          /\ pc' = [pc EXCEPT ![p] = "lock"]
      BY <1>5, <2>3 DEF Gate, Goto
    <3>2. ControlType' /\ Owner'
      BY <1>5, <3>1 DEF Gate, IInv, TypeOK, ControlType, Steps, Owner, Locked
    <3>3. CallOK' /\ FileOK'
      BY <1>5, <2>1, <2>3, <3>1 DEF Gate, IInv, TypeOK, CallOK, CallOKFor, FileOK
    <3>4. PendingOK' /\ StartOK'
      BY <2>1, <3>1 DEF IInv, PendingOK, StartOK, Starting
    <3> QED
      BY <2>2, <3>2, <3>3, <3>4, TypePartsNext DEF IInv
  <2>4. CASE Blocked /\ ~file.exists
    <3>5. Raise(p)
      BY <1>5, <2>4 DEF Gate
    <3>1. ControlType' /\ Owner' /\ CallOK'
      BY <3>5, LeaveStep DEF Raise
    <3>2. FileOK'
      BY <2>1, <3>5 DEF IInv, TypeOK, FileOK, Raise, Leave, Goto
    <3>3. PendingOK' /\ StartOK'
      BY <2>1, <2>2, <3>5, LeavePending, LeaveStart DEF Raise
    <3> QED
      BY <2>2, <3>1, <3>2, <3>3, TypePartsNext DEF IInv
  <2> QED
    BY <2>3, <2>4
<1>6. ASSUME NEW p \in Procs, ReadIntact(p) PROVE IInv'
  <2>1. UNCHANGED <<file, vault, started, log, acked, damage>> /\ faults' \in 0..MaxFaults
    BY <1>6 DEF ReadIntact, Fault, IInv, TypeOK
  <2>2. DataType' /\ LogOK' /\ Grows
    BY <2>1, SameLog, SameGrows DEF IInv, TypeOK, DataType
  <2>3. Returned(p, file.lines)
    BY <1>6 DEF ReadIntact
  <2>4. file.lines \in Seq(Line) /\ (file.lines = <<>> \/ file.lines = log)
    BY DEF IInv, TypeOK, Files, LogOK
  <2>5. pc[p] = "held" /\ call[p].op \in {"snapshot", "preflight"}
    BY <1>6 DEF ReadIntact
  <2>6. ControlType' /\ Owner' /\ CallOK'
    BY <2>3, <2>4, <2>5, ReturnedStep
  <2>7. FileOK'
    BY <2>1, <2>3, <2>5 DEF IInv, TypeOK, FileOK, Returned, Raise, Leave, Goto
  <2>8. PendingOK' /\ StartOK'
    BY <2>1, <2>2, <2>3, <2>4, <2>5, ReturnedPending, ReturnedStart
  <2> QED
    BY <2>2, <2>6, <2>7, <2>8, TypePartsNext DEF IInv
<1>7. ASSUME NEW p \in Procs, CheckSequence(p) PROVE IInv'
  <2>1. UNCHANGED <<file, vault, started, log, acked, damage>> /\ faults' \in 0..MaxFaults
    BY <1>7 DEF CheckSequence, Fault, IInv, TypeOK
  <2>2. DataType' /\ LogOK' /\ Grows
    BY <2>1, SameLog, SameGrows DEF IInv, TypeOK, DataType
  <2>3. CASE call[p].seq = Len(file.lines) + 1
    <3>1. /\ UNCHANGED <<lock, call, kept, next>>
          /\ pc' = [pc EXCEPT ![p] = "write"]
      BY <1>7, <2>3 DEF CheckSequence, Goto
    <3>2. ControlType' /\ Owner'
      BY <1>7, <3>1 DEF CheckSequence, IInv, TypeOK, ControlType, Steps, Owner, Locked
    <3>3. CallOK' /\ FileOK'
      BY <1>7, <2>1, <2>3, <3>1 DEF CheckSequence, IInv, TypeOK, CallOK, CallOKFor, FileOK
    <3>4. PendingOK' /\ StartOK'
      BY <2>1, <3>1 DEF IInv, PendingOK, StartOK, Starting
    <3> QED
      BY <2>2, <3>2, <3>3, <3>4, TypePartsNext DEF IInv
  <2>4. CASE call[p].seq # Len(file.lines) + 1
    <3>5. Raise(p)
      BY <1>7, <2>4 DEF CheckSequence
    <3>1. ControlType' /\ Owner' /\ CallOK'
      BY <3>5, LeaveStep DEF Raise
    <3>2. FileOK'
      BY <2>1, <3>5 DEF IInv, TypeOK, FileOK, Raise, Leave, Goto
    <3>3. PendingOK' /\ StartOK'
      BY <2>1, <2>2, <3>5, LeavePending, LeaveStart DEF Raise
    <3> QED
      BY <2>2, <3>1, <3>2, <3>3, TypePartsNext DEF IInv
  <2> QED
    BY <2>3, <2>4
<1>8. ASSUME NEW p \in Procs, Timeout(p) PROVE IInv'
  <2>1. UNCHANGED <<file, vault, started, log, acked, damage>> /\ faults' \in 0..MaxFaults
    BY <1>8 DEF Timeout, Fault, IInv, TypeOK
  <2>2. DataType' /\ LogOK' /\ Grows
    BY <2>1, SameLog, SameGrows DEF IInv, TypeOK, DataType
  <2>3. Raise(p)
    BY <1>8 DEF Timeout
  <2>4. ControlType' /\ Owner' /\ CallOK'
    BY <2>3, LeaveStep DEF Raise
  <2>5. FileOK'
    BY <2>1, <2>3 DEF IInv, TypeOK, FileOK, Raise, Leave, Goto
  <2>6. PendingOK' /\ StartOK'
    BY <2>1, <2>2, <2>3, LeavePending, LeaveStart DEF Raise
  <2> QED
    BY <2>2, <2>4, <2>5, <2>6, TypePartsNext DEF IInv
<1>9. ASSUME NEW p \in Procs, RenameFails(p) PROVE IInv'
  <2>1. UNCHANGED <<file, vault, started, log, acked, damage>> /\ faults' \in 0..MaxFaults
    BY <1>9 DEF RenameFails, Fault, IInv, TypeOK
  <2>2. DataType' /\ LogOK' /\ Grows
    BY <2>1, SameLog, SameGrows DEF IInv, TypeOK, DataType
  <2>3. Raise(p)
    BY <1>9 DEF RenameFails
  <2>4. ControlType' /\ Owner' /\ CallOK'
    BY <2>3, LeaveStep DEF Raise
  <2>5. FileOK'
    BY <2>1, <2>3 DEF IInv, TypeOK, FileOK, Raise, Leave, Goto
  <2>6. PendingOK' /\ StartOK'
    BY <2>1, <2>2, <2>3, LeavePending, LeaveStart DEF Raise
  <2> QED
    BY <2>2, <2>4, <2>5, <2>6, TypePartsNext DEF IInv
<1>10. ASSUME NEW p \in Procs, RestoreFails(p) PROVE IInv'
  <2>1. UNCHANGED <<file, vault, started, log, acked, damage>> /\ faults' \in 0..MaxFaults
    BY <1>10 DEF RestoreFails, Fault, IInv, TypeOK
  <2>2. DataType' /\ LogOK' /\ Grows
    BY <2>1, SameLog, SameGrows DEF IInv, TypeOK, DataType
  <2>3. Raise(p)
    BY <1>10 DEF RestoreFails
  <2>4. ControlType' /\ Owner' /\ CallOK'
    BY <2>3, LeaveStep DEF Raise
  <2>5. FileOK'
    BY <2>1, <2>3 DEF IInv, TypeOK, FileOK, Raise, Leave, Goto
  <2>6. PendingOK' /\ StartOK'
    BY <2>1, <2>2, <2>3, LeavePending, LeaveStart DEF Raise
  <2> QED
    BY <2>2, <2>4, <2>5, <2>6, TypePartsNext DEF IInv
<1>11. ASSUME NEW p \in Procs, Acquire(p) PROVE IInv'
  <2>1. TypeOK'
    BY <1>11 DEF Acquire, Goto, IInv, TypeOK, Steps
  <2>2. Owner'
    BY <1>11 DEF Acquire, Goto, IInv, TypeOK, Owner, Locked
  <2>3. CallOK'
    BY <1>11 DEF Acquire, Goto, IInv, TypeOK, CallOK, CallOKFor
  <2>4. FileOK'
    BY <1>11 DEF Acquire, Goto, IInv, TypeOK, FileOK
  <2>5. LogOK'
    BY <1>11, SameLog DEF Acquire
  <2>6. PendingOK' /\ StartOK'
    BY <1>11 DEF Acquire, Goto, IInv, TypeOK, PendingOK, StartOK, Starting
  <2> QED
    BY <2>1, <2>2, <2>3, <2>4, <2>5, <2>6 DEF IInv
<1>12. ASSUME NEW p \in Procs, QuarantineDamaged(p) PROVE IInv'
  <2>1. /\ file' = NoFile /\ vault' = vault \cup {[reason |-> "mid_file_corruption", lines |-> file.lines]}
        /\ UNCHANGED <<started, log, acked, faults, damage>>
        /\ pc[p] = "held"
    BY <1>12 DEF QuarantineDamaged, Move
  <2>2. DataType' /\ Grows
    BY <2>1, SameGrows DEF IInv, TypeOK, DataType, Files, NoFile, Reasons
  <2>3. LogOK'
    <3>1. file.lines = <<>> \/ file.lines = log
      BY DEF IInv, LogOK
    <3>2. log \in Seq(Line)
      BY DEF IInv, TypeOK
    <3>3. \A v \in vault' : IsPrefixOf(v.lines, log)
      BY <2>1, <3>1, <3>2 DEF IInv, LogOK, IsPrefixOf
    <3>4. log # <<>> => \E v \in vault' : v.lines = log
      <4>1. CASE file.lines = log
        <5> DEFINE w == [reason |-> "mid_file_corruption", lines |-> file.lines]
        <5>1. w \in vault' /\ w.lines = log
          BY <2>1, <4>1
        <5> QED
          BY <5>1
      <4>2. CASE file.lines = <<>> /\ file.lines # log
        BY <2>1, <4>2 DEF IInv, LogOK
      <4> QED
        BY <3>1, <4>1, <4>2
    <3> QED
      BY <2>1, <3>3, <3>4 DEF IInv, LogOK, NoFile, IsPrefixOf, Replays
  <2>4. Raise(p)
    BY <1>12 DEF QuarantineDamaged
  <2>5. ControlType' /\ Owner' /\ CallOK'
    BY <2>4, LeaveStep DEF Raise
  <2>6. FileOK'
    BY <2>1, <2>4 DEF IInv, TypeOK, Owner, Locked, FileOK, Raise, Leave, Goto
  <2>7. PendingOK' /\ StartOK'
    BY <2>1, <2>2, <2>4, LeavePending, LeaveStart DEF Raise
  <2> QED
    BY <2>2, <2>3, <2>5, <2>6, <2>7, TypePartsNext DEF IInv
<1>13. ASSUME NEW p \in Procs, QuarantineTorn(p) PROVE IInv'
  <2>1. /\ file' = NoFile /\ vault' = vault \cup {[reason |-> "torn_tail", lines |-> file.lines]}
        /\ UNCHANGED <<started, log, acked, faults, damage>>
        /\ pc[p] = "held"
    BY <1>13 DEF QuarantineTorn, Move
  <2>2. DataType' /\ Grows
    BY <2>1, SameGrows DEF IInv, TypeOK, DataType, Files, NoFile, Reasons
  <2>3. LogOK'
    <3>1. file.lines = <<>> \/ file.lines = log
      BY DEF IInv, LogOK
    <3>2. log \in Seq(Line)
      BY DEF IInv, TypeOK
    <3>3. \A v \in vault' : IsPrefixOf(v.lines, log)
      BY <2>1, <3>1, <3>2 DEF IInv, LogOK, IsPrefixOf
    <3>4. log # <<>> => \E v \in vault' : v.lines = log
      <4>1. CASE file.lines = log
        <5> DEFINE w == [reason |-> "torn_tail", lines |-> file.lines]
        <5>1. w \in vault' /\ w.lines = log
          BY <2>1, <4>1
        <5> QED
          BY <5>1
      <4>2. CASE file.lines = <<>> /\ file.lines # log
        BY <2>1, <4>2 DEF IInv, LogOK
      <4> QED
        BY <3>1, <4>1, <4>2
    <3> QED
      BY <2>1, <3>3, <3>4 DEF IInv, LogOK, NoFile, IsPrefixOf, Replays
  <2>4. Raise(p)
    BY <1>13 DEF QuarantineTorn
  <2>5. ControlType' /\ Owner' /\ CallOK'
    BY <2>4, LeaveStep DEF Raise
  <2>6. FileOK'
    BY <2>1, <2>4 DEF IInv, TypeOK, Owner, Locked, FileOK, Raise, Leave, Goto
  <2>7. PendingOK' /\ StartOK'
    BY <2>1, <2>2, <2>4, LeavePending, LeaveStart DEF Raise
  <2> QED
    BY <2>2, <2>3, <2>5, <2>6, <2>7, TypePartsNext DEF IInv
<1>14. ASSUME NEW p \in Procs, SetAside(p) PROVE IInv'
  <2>1. /\ file' = NoFile /\ vault' = vault \cup {[reason |-> "torn_tail", lines |-> file.lines]}
        /\ UNCHANGED <<started, log, acked, faults, damage>>
        /\ pc[p] = "held"
    BY <1>14 DEF SetAside, Move
  <2>2. DataType' /\ Grows
    BY <2>1, SameGrows DEF IInv, TypeOK, DataType, Files, NoFile, Reasons
  <2>3. LogOK'
    <3>1. file.lines = <<>> \/ file.lines = log
      BY DEF IInv, LogOK
    <3>2. log \in Seq(Line)
      BY DEF IInv, TypeOK
    <3>3. \A v \in vault' : IsPrefixOf(v.lines, log)
      BY <2>1, <3>1, <3>2 DEF IInv, LogOK, IsPrefixOf
    <3>4. log # <<>> => \E v \in vault' : v.lines = log
      <4>1. CASE file.lines = log
        <5> DEFINE w == [reason |-> "torn_tail", lines |-> file.lines]
        <5>1. w \in vault' /\ w.lines = log
          BY <2>1, <4>1
        <5> QED
          BY <5>1
      <4>2. CASE file.lines = <<>> /\ file.lines # log
        BY <2>1, <4>2 DEF IInv, LogOK
      <4> QED
        BY <3>1, <4>1, <4>2
    <3> QED
      BY <2>1, <3>3, <3>4 DEF IInv, LogOK, NoFile, IsPrefixOf, Replays
  <2>4. /\ pc' = [pc EXCEPT ![p] = "restore"]
        /\ kept' = [kept EXCEPT ![p] = log]
        /\ log # <<>>
        /\ UNCHANGED <<lock, call, next>>
    BY <1>14 DEF SetAside, Goto, IInv, LogOK
  <2>5. ControlType' /\ Owner'
    BY <2>1, <2>4 DEF IInv, TypeOK, ControlType, Steps, Owner, Locked
  <2>6. CallOK'
    BY <2>1, <2>4 DEF IInv, TypeOK, CallOK, CallOKFor
  <2>7. FileOK'
    BY <2>1, <2>4 DEF IInv, TypeOK, Owner, Locked, FileOK
  <2>8. PendingOK' /\ StartOK'
    BY <2>1, <2>4 DEF IInv, PendingOK, StartOK, Starting
  <2> QED
    BY <2>2, <2>3, <2>5, <2>6, <2>7, <2>8, TypePartsNext DEF IInv
<1>15. ASSUME NEW p \in Procs, Restore(p) PROVE IInv'
  <2>1. /\ pc[p] = "restore" /\ pc' = [pc EXCEPT ![p] = "marker"]
        /\ file' = Intact(log) /\ log # <<>>
        /\ kept' = [kept EXCEPT ![p] = <<>>]
        /\ UNCHANGED <<vault, lock, call, next, started, log, acked, faults, damage>>
    BY <1>15 DEF Restore, Goto, IInv, FileOK
  <2>2. DataType'
    BY <2>1 DEF IInv, TypeOK, DataType, Files, Intact
  <2>3. ControlType' /\ Owner'
    BY <2>1 DEF IInv, TypeOK, ControlType, Steps, Owner, Locked
  <2>4. CallOK'
    BY <2>1 DEF IInv, TypeOK, CallOK, CallOKFor
  <2>5. FileOK'
    BY <2>1 DEF IInv, TypeOK, Owner, Locked, FileOK, Intact
  <2>6. LogOK'
    BY <2>1 DEF IInv, LogOK, Intact, IsPrefixOf, Replays
  <2>7. PendingOK' /\ StartOK'
    BY <2>1 DEF IInv, PendingOK, StartOK, Starting
  <2> QED
    BY <2>2, <2>3, <2>4, <2>5, <2>6, <2>7, TypePartsNext DEF IInv
<1>16. ASSUME NEW p \in Procs, AppendRecovery(p) PROVE IInv'
  <2>1. /\ pc[p] = "marker" /\ Writing(p) /\ Durable(p) /\ acked' = acked
        /\ UNCHANGED <<vault, started, faults, damage>>
    BY <1>16 DEF AppendRecovery, Writing
  <2>2. /\ Grows /\ Len(log') = Len(log) + 1 /\ log' # <<>>
        /\ file'.lines = log' /\ file' \in Files
        /\ file'.exists /\ ~file'.torn /\ ~file'.damaged
        /\ LogOK'
    BY <2>1, DurableStep
  <2>3. DataType'
    BY <2>1, <2>2 DEF IInv, TypeOK, DataType, Grows
  <2>4. file.lines = log /\ log # <<>> /\ log \in Seq(Line)
    BY <2>1, WriterSeesLog DEF IInv, FileOK, TypeOK
  <2>5. CASE call[p].op # "append"
    <3>1. Returned(p, log') /\ log' \in Seq(Line)
      BY <1>16, <2>2, <2>5 DEF AppendRecovery, Grows
    <3>2. call[p].op \in {"snapshot", "preflight"}
      BY <2>1, <2>5 DEF IInv, TypeOK, CallOK, CallOKFor, Calls
    <3>3. ControlType' /\ Owner' /\ CallOK'
      BY <2>1, <3>1, <3>2, ReturnedStep
    <3>4. FileOK'
      BY <2>1, <3>1, <3>2 DEF IInv, TypeOK, Owner, Locked, FileOK, Returned, Raise, Leave, Goto
    <3>5. PendingOK' /\ StartOK'
      BY <2>1, <2>2, <2>4, <3>1, <3>2, ReturnedPending, ReturnedStart
    <3> QED
      BY <2>2, <2>3, <3>3, <3>4, <3>5, TypePartsNext DEF IInv
  <2>6. CASE call[p].op = "append" /\ call[p].seq \in {Len(log) + 1, Len(log) + 2}
    <3>1. /\ pc' = [pc EXCEPT ![p] = "write"]
          /\ call' = [call EXCEPT ![p].seq = Len(log) + 2]
          /\ UNCHANGED <<lock, kept, next>>
      BY <1>16, <2>4, <2>6 DEF AppendRecovery, Goto
    <3>2. /\ call' \in [Procs -> Calls]
          /\ call'[p].op = "append" /\ call'[p].event = call[p].event
          /\ call'[p].seq = Len(log) + 2
          /\ \A q \in Procs \ {p} : call'[q] = call[q]
      <4>1. Len(log) + 2 \in Nat
        BY <2>4
      <4>2. TypeOK
        BY DEF IInv
      <4> QED
        BY <2>6, <3>1, <4>1, <4>2, Renumbered
    <3>3. Len(log) \in Nat \ {0} /\ Len(log') = Len(log) + 1
      BY <2>2, <2>4
    <3>4. ControlType' /\ Owner'
      BY <2>1, <3>1, <3>2 DEF IInv, TypeOK, ControlType, Steps, Owner, Locked
    <3>5. CallOK'
      <4> SUFFICES ASSUME NEW q \in Procs PROVE CallOKFor(q)'
        BY DEF CallOK
      <4>1. CASE q = p
        BY <2>1, <2>6, <3>1, <3>2, <3>3, <4>1 DEF IInv, TypeOK, CallOK, CallOKFor
      <4>2. CASE q # p
        BY <3>1, <3>2, <4>2 DEF IInv, TypeOK, CallOK, CallOKFor
      <4> QED
        BY <4>1, <4>2
    <3>6. FileOK'
      BY <2>1, <2>2, <3>1, <3>2, <3>3 DEF IInv, TypeOK, Owner, Locked, FileOK
    <3>7. Applicable(log'[Len(log) + 1].after, call[p].event)
      <4>1. call[p].seq > 1 /\ call[p].seq <= Len(log) + 1
        BY <2>6, <3>3 DEF IInv, PendingOK
      <4>2. Applicable(log[Len(log)].after, call[p].event)
        BY <2>6, <3>3, <4>1 DEF IInv, PendingOK
      <4>3. Len(log) \in 1..Len(log)
        BY <3>3
      <4>4. log[Len(log)].after \in Projections /\ log[Len(log)].after.state # "new"
        BY <4>3 DEF IInv, LogOK
      <4>5. log'[Len(log) + 1] = LineFor(log, Len(log) + 1, Recovered)
        BY <2>1, <2>4 DEF Durable, Pending
      <4>6. log'[Len(log) + 1].after = Apply(log[Len(log)].after, Recovered)
        BY <2>4, <4>5 DEF LineFor, Projection
      <4> QED
        BY <4>2, <4>4, <4>6, RecoveryKeeps
    <3>8. PendingOK'
      BY <2>2, <3>2, <3>3, <3>7, PendingGrows DEF IInv, PendingOK
    <3>9. StartOK'
      BY <2>1, <2>4, <3>2, <3>3 DEF IInv, StartOK, Starting
    <3> QED
      BY <2>2, <2>3, <3>4, <3>5, <3>6, <3>8, <3>9, TypePartsNext DEF IInv
  <2>7. CASE call[p].op = "append" /\ call[p].seq \notin {Len(log) + 1, Len(log) + 2}
    <3>1. Raise(p)
      BY <1>16, <2>4, <2>7 DEF AppendRecovery
    <3>2. ControlType' /\ Owner' /\ CallOK'
      BY <3>1, LeaveStep DEF Raise
    <3>3. FileOK'
      BY <2>1, <3>1 DEF IInv, TypeOK, Owner, Locked, FileOK, Raise, Leave, Goto
    <3>4. PendingOK' /\ StartOK'
      BY <2>1, <2>2, <2>4, <3>1, LeavePending, LeaveStart DEF Raise
    <3> QED
      BY <2>2, <2>3, <3>2, <3>3, <3>4, TypePartsNext DEF IInv
  <2> QED
    BY <2>5, <2>6, <2>7
<1>17. ASSUME NEW p \in Procs, AppendEvent(p) PROVE IInv'
  <2>1. /\ pc[p] = "write" /\ Writing(p) /\ Durable(p)
        /\ acked' = acked \cup {Pending(p)}
        /\ UNCHANGED <<vault, started, faults, damage>>
        /\ Leave(p, next[p] + 1)
    BY <1>17 DEF AppendEvent, Writing
  <2>2. /\ Grows /\ Len(log') = Len(log) + 1 /\ log' # <<>>
        /\ file'.lines = log' /\ file' \in Files
        /\ file'.exists /\ ~file'.torn /\ ~file'.damaged
        /\ acked' \subseteq Line
        /\ LogOK'
    BY <2>1, DurableStep
  <2>3. DataType'
    BY <2>1, <2>2 DEF IInv, TypeOK, DataType, Grows
  <2>4. next[p] + 1 \in Nat /\ next[p] + 1 # 1
    <3>1. call[p].op = "append" /\ next[p] \in Nat
      BY <2>1 DEF IInv, TypeOK, CallOK, CallOKFor
    <3>2. next[p] >= 1
      BY <3>1 DEF IInv, CallOK, CallOKFor
    <3> QED
      BY <3>1, <3>2
  <2>5. ControlType' /\ Owner' /\ CallOK'
    BY <2>1, <2>4, LeaveStep
  <2>6. FileOK'
    BY <2>1 DEF IInv, TypeOK, Owner, Locked, FileOK, Leave, Goto
  <2>7. PendingOK'
    BY <2>1, <2>2, <2>4, LeavePending
  <2>8. log # <<>> \/ Starting(p)
    BY <2>1, WriterSeesLog DEF IInv, FileOK, CallOK, CallOKFor, Starting
  <2>9. StartOK'
    BY <2>1, <2>4, <2>8, LeaveStart
  <2> QED
    BY <2>2, <2>3, <2>5, <2>6, <2>7, <2>9, TypePartsNext DEF IInv
<1>18. ASSUME NEW p \in Procs, AppendFails(p) PROVE IInv'
  <2>1. /\ Raise(p) /\ Leave(p, 0) /\ faults' \in 0..MaxFaults
        /\ UNCHANGED <<vault, started, acked, damage>>
    BY <1>18 DEF AppendFails, Raise, Fault, IInv, TypeOK
  <2>2. ControlType' /\ Owner' /\ CallOK'
    BY <2>1, LeaveStep
  <2>3. CASE UNCHANGED <<file, log>>
    <3>1. DataType' /\ LogOK' /\ Grows
      BY <2>1, <2>3, SameLog, SameGrows DEF IInv, TypeOK, DataType
    <3>2. FileOK'
      BY <2>1, <2>3 DEF IInv, TypeOK, FileOK, Leave, Goto
    <3>3. PendingOK' /\ StartOK'
      BY <2>1, <2>3, <3>1, LeavePending, LeaveStart
    <3> QED
      BY <2>2, <3>1, <3>2, <3>3, TypePartsNext DEF IInv
  <2>4. CASE Writing(p) /\ Torn
    <3>1. /\ file' \in Files /\ file'.exists /\ file'.lines = file.lines
          /\ log' = log
      BY <2>4 DEF Torn, IInv, TypeOK, Files
    <3>2. DataType' /\ Grows
      BY <2>1, <3>1, SameGrows DEF IInv, TypeOK, DataType
    <3>3. LogOK'
      BY <2>1, <3>1 DEF IInv, LogOK, IsPrefixOf, Replays
    <3>4. FileOK'
      BY <2>1, <2>4 DEF IInv, TypeOK, Owner, Locked, FileOK, Writing, Leave, Goto
    <3>5. PendingOK' /\ StartOK'
      BY <2>1, <3>1, <3>2, LeavePending, LeaveStart
    <3> QED
      BY <2>2, <3>2, <3>3, <3>4, <3>5, TypePartsNext DEF IInv
  <2>5. CASE Writing(p) /\ Durable(p)
    <3>1. /\ Grows /\ log' # <<>>
          /\ file'.lines = log' /\ file' \in Files
          /\ file'.exists /\ LogOK'
      BY <2>1, <2>5, DurableStep
    <3>2. DataType'
      BY <2>1, <3>1 DEF IInv, TypeOK, DataType, Grows
    <3>3. FileOK'
      BY <2>1, <2>5 DEF IInv, TypeOK, Owner, Locked, FileOK, Writing, Leave, Goto
    <3>4. log # <<>> \/ Starting(p)
      BY <2>5, WriterSeesLog DEF IInv, FileOK, CallOK, CallOKFor, Starting, Writing
    <3>5. PendingOK' /\ StartOK'
      BY <2>1, <3>1, <3>4, LeavePending, LeaveStart
    <3> QED
      BY <2>2, <3>1, <3>2, <3>3, <3>5, TypePartsNext DEF IInv
  <2> QED
    BY <1>18, <2>3, <2>4, <2>5 DEF AppendFails
<1>19. ASSUME NEW p \in Procs, Crash(p) PROVE IInv'
  <2>1. /\ Raise(p) /\ Leave(p, 0) /\ faults' \in 0..MaxFaults
        /\ UNCHANGED <<vault, started, acked, damage>>
    BY <1>19 DEF Crash, Raise, Fault, IInv, TypeOK
  <2>2. ControlType' /\ Owner' /\ CallOK'
    BY <2>1, LeaveStep
  <2>3. CASE UNCHANGED <<file, log>>
    <3>1. DataType' /\ LogOK' /\ Grows
      BY <2>1, <2>3, SameLog, SameGrows DEF IInv, TypeOK, DataType
    <3>2. FileOK'
      BY <2>1, <2>3 DEF IInv, TypeOK, FileOK, Leave, Goto
    <3>3. PendingOK' /\ StartOK'
      BY <2>1, <2>3, <3>1, LeavePending, LeaveStart
    <3> QED
      BY <2>2, <3>1, <3>2, <3>3, TypePartsNext DEF IInv
  <2>4. CASE Writing(p) /\ (Torn \/ Created)
    <3>1. /\ file' \in Files /\ file'.exists /\ file'.lines = file.lines
          /\ log' = log
      BY <2>4 DEF Torn, Created, IInv, TypeOK, Files
    <3>2. DataType' /\ Grows
      BY <2>1, <3>1, SameGrows DEF IInv, TypeOK, DataType
    <3>3. LogOK'
      BY <2>1, <3>1 DEF IInv, LogOK, IsPrefixOf, Replays
    <3>4. FileOK'
      BY <2>1, <2>4 DEF IInv, TypeOK, Owner, Locked, FileOK, Writing, Leave, Goto
    <3>5. PendingOK' /\ StartOK'
      BY <2>1, <3>1, <3>2, LeavePending, LeaveStart
    <3> QED
      BY <2>2, <3>2, <3>3, <3>4, <3>5, TypePartsNext DEF IInv
  <2>5. CASE Writing(p) /\ Durable(p)
    <3>1. /\ Grows /\ log' # <<>>
          /\ file'.lines = log' /\ file' \in Files
          /\ file'.exists /\ LogOK'
      BY <2>1, <2>5, DurableStep
    <3>2. DataType'
      BY <2>1, <3>1 DEF IInv, TypeOK, DataType, Grows
    <3>3. FileOK'
      BY <2>1, <2>5 DEF IInv, TypeOK, Owner, Locked, FileOK, Writing, Leave, Goto
    <3>4. log # <<>> \/ Starting(p)
      BY <2>5, WriterSeesLog DEF IInv, FileOK, CallOK, CallOKFor, Starting, Writing
    <3>5. PendingOK' /\ StartOK'
      BY <2>1, <3>1, <3>4, LeavePending, LeaveStart
    <3> QED
      BY <2>2, <3>1, <3>2, <3>3, <3>5, TypePartsNext DEF IInv
  <2> QED
    BY <1>19, <2>3, <2>4, <2>5 DEF Crash
<1>20. ASSUME Damage PROVE IInv'
  <2>1. /\ lock = NoProc /\ file' = [file EXCEPT !.damaged = TRUE]
        /\ file.lines # <<>> /\ damage' \in 0..MaxDamage
        /\ UNCHANGED <<vault, lock, pc, call, kept, next, started, log, acked, faults>>
    BY <1>20 DEF Damage, IInv, TypeOK
  <2>2. file' \in Files /\ file'.exists /\ file'.lines = file.lines
    <3>1. file \in Files /\ file.exists
      BY <2>1 DEF IInv, TypeOK, NoFile
    <3> QED
      BY <2>1, <3>1 DEF Files
  <2>3. TypeOK'
    BY <2>1, <2>2 DEF IInv, TypeOK
  <2>4. Owner' /\ CallOK' /\ PendingOK' /\ StartOK'
    BY <2>1 DEF IInv, Owner, CallOK, CallOKFor, PendingOK, StartOK, Starting
  <2>5. FileOK'
    BY <2>1 DEF IInv, TypeOK, Owner, Locked, FileOK
  <2>6. LogOK'
    BY <2>1, <2>2 DEF IInv, LogOK, IsPrefixOf, Replays
  <2> QED
    BY <2>3, <2>4, <2>5, <2>6 DEF IInv
<1>21. CASE UNCHANGED vars
  BY <1>21 DEF vars, IInv, TypeOK, Owner, CallOK, CallOKFor, FileOK, LogOK, IsPrefixOf,
             Replays, PendingOK, StartOK, Starting
<1> QED
  BY <1>1, <1>2, <1>3, <1>4, <1>5, <1>6, <1>7, <1>8, <1>9, <1>10, <1>11, <1>12, <1>13, <1>14, <1>15, <1>16, <1>17, <1>18, <1>19, <1>20, <1>21
     DEF Next, Request, Advance, Fails
-----------------------------------------------------------------------------
(***************************************************************************)
(* The theorems.                                                           *)
(***************************************************************************)
\* The inductive invariant holds in every reachable state of the record store.
THEOREM Invariance == Spec => []IInv
<1>1. Init => IInv
  BY InitIInv
<1>2. IInv /\ [Next]_vars => IInv'
  BY StepIInv
<1> QED
  BY <1>1, <1>2, PTL DEF Spec

\* Under the invariant every copy of the record, live or set aside, is a prefix of the history.
LEMMA CopyIsPrefix ==
  ASSUME IInv, NEW c \in Copies
  PROVE  c \in Seq(Line) /\ IsPrefixOf(c, log)
<1>1. CASE c = file.lines
  BY <1>1 DEF IInv, TypeOK, Files, LogOK, IsPrefixOf
<1>2. CASE \E v \in vault : c = v.lines
  BY <1>2 DEF IInv, TypeOK, LogOK
<1>3. CASE \E p \in Procs : c = kept[p]
  <2> PICK p \in Procs : c = kept[p]
    BY <1>3
  <2>1. c = log \/ c = <<>>
    BY DEF IInv, FileOK
  <2> QED
    BY <2>1 DEF IInv, TypeOK, IsPrefixOf
<1> QED
  BY <1>1, <1>2, <1>3 DEF Copies

\* Every variable of the record store keeps its type, and a record file that
\* does not exist has no content left.
THEOREM TypeCorrect == Spec => []TypeOK
<1>1. IInv => TypeOK
  BY DEF IInv
<1> QED
  BY <1>1, Invariance, PTL

\* There is one history (recover_prefix and the quarantine only ever copy it).
THEOREM HistoryIsOne == Spec => []OneHistory
<1>1. IInv => OneHistory
  BY CopyIsPrefix DEF OneHistory
<1> QED
  BY <1>1, Invariance, PTL

\* Whatever processes, events, failures and crashes: the log always replays,
\* although TaskStore.append replays it before, not while, it holds the lock.
THEOREM AlwaysReplayable == Spec => []LogReplayable
<1>1. IInv => LogReplayable
  <2> SUFFICES ASSUME IInv, NEW c \in Copies PROVE Replays(c)
    BY DEF LogReplayable
  <2>1. c \in Seq(Line) /\ IsPrefixOf(c, log) /\ log \in Seq(Line)
    BY CopyIsPrefix DEF IInv, TypeOK
  <2>2. Replays(log)
    BY DEF IInv, LogOK
  <2> SUFFICES ASSUME NEW i \in 1..Len(c)
               PROVE  /\ c[i].seq = i
                      /\ c[i].after # Illegal
                      /\ c[i].after = Apply(IF i = 1 THEN NewTask ELSE c[i - 1].after, c[i].event)
    BY DEF Replays
  <2>3. i \in 1..Len(log) /\ c[i] = log[i]
    BY <2>1 DEF IsPrefixOf
  <2>4. i # 1 => c[i - 1] = log[i - 1]
    BY <2>1 DEF IsPrefixOf
  <2> QED
    BY <2>2, <2>3, <2>4 DEF Replays
<1> QED
  BY <1>1, Invariance, PTL

\* No acknowledged line is ever destroyed, by recovery or by quarantine.
THEOREM AckedIsKept == Spec => []AckedPreserved
<1>1. IInv => AckedPreserved
  <2> SUFFICES ASSUME IInv, NEW a \in acked
               PROVE  \E c \in Copies : a.seq \in 1..Len(c) /\ c[a.seq] = a
    BY DEF AckedPreserved
  <2>1. a.seq \in 1..Len(log) /\ log[a.seq] = a
    BY DEF IInv, LogOK
  <2>2. log # <<>>
    BY <2>1
  <2>3. log \in Copies
    BY <2>2 DEF IInv, LogOK, Copies
  <2> QED
    BY <2>1, <2>3
<1> QED
  BY <1>1, Invariance, PTL

\* A step from a state where the record is gone leads to one where it is gone:
\* no writer is at work, and nothing but a restore brings lines back.
LEMMA GoneStays == IInv /\ [Next]_vars /\ Gone => Gone'
<1> SUFFICES ASSUME IInv, Next, Gone PROVE Gone'
  BY DEF vars, Gone
<1>1. ~\E p \in Procs : Writing(p)
  BY WriterSeesLog DEF Gone
<1>2. file.lines = <<>> /\ log # <<>> /\ \A p \in Procs : pc[p] # "restore" /\ pc \in [Procs -> Steps]
  BY DEF Gone, IInv, TypeOK
<1>3. CASE Damage
  BY <1>2, <1>3 DEF Damage
<1>4. ASSUME NEW p \in Procs, Request(p) PROVE Gone'
  BY <1>2, <1>4 DEF Request, Snapshot, Start, Submit, Begin, Goto, Gone
<1>5. ASSUME NEW p \in Procs, Advance(p) PROVE Gone'
  <2>1. CASE Look(p) \/ Gate(p) \/ Acquire(p) \/ Timeout(p) \/ ReadIntact(p) \/ CheckSequence(p)
    BY <1>2, <2>1 DEF Look, Gate, Acquire, Timeout, ReadIntact, CheckSequence,
                      Returned, Raise, Leave, Goto, Gone
  <2>2. CASE QuarantineDamaged(p) \/ QuarantineTorn(p)
    BY <1>2, <2>2 DEF QuarantineDamaged, QuarantineTorn, Move, NoFile, Raise, Leave, Goto, Gone
  <2>3. CASE SetAside(p) \/ Restore(p)
    BY <1>2, <2>3 DEF SetAside, Restore
  <2>4. CASE AppendRecovery(p) \/ AppendEvent(p)
    BY <1>1, <2>4 DEF AppendRecovery, AppendEvent, Writing
  <2> QED
    BY <1>5, <2>1, <2>2, <2>3, <2>4 DEF Advance
<1>6. ASSUME NEW p \in Procs, Fails(p) PROVE Gone'
  BY <1>1, <1>2, <1>6 DEF Fails, RenameFails, RestoreFails, AppendFails, Crash,
                          Raise, Leave, Goto, Gone
<1> QED
  BY <1>3, <1>4, <1>5, <1>6 DEF Next

\* A record that is gone, and that nobody is about to restore, never returns.
THEOREM NeverResurrected == Spec => GoneForever
<1>1. IInv /\ [Next]_vars => [Gone => Gone']_vars
  BY GoneStays
<1> QED
  BY <1>1, Invariance, PTL DEF Spec, GoneForever

-----------------------------------------------------------------------------
(***************************************************************************)
(* The store implements TaskLog: the initial state is an empty log, and    *)
(* every step appends one legal event, seals the log, or stutters.         *)
(***************************************************************************)
\* TaskLog reads the same reducer as the store does.
LEMMA SameReducer ==
  /\ Promised!Events = Events
  /\ \A d, e : Promised!Applicable(d, e) <=> Applicable(d, e)
  /\ \A ls : Promised!Projection(ls) = Projection(ls)
  /\ \A ls, n, e : Promised!LineFor(ls, n, e) = LineFor(ls, n, e)
<1>1. Promised!Events = Events
  BY DEF Promised!Events, Promised!Plain, Promised!Starts, Promised!Concludes, Promised!EventTypes,
         Promised!LegalFrom, Promised!Event, Promised!Closing, Promised!States, Promised!Final,
         Promised!Judging, Promised!Closable,
         Events, Plain, Starts, Concludes, EventTypes, LegalFrom, Event, Closing, States, Final,
         Judging, Closable
<1>2. \A d, e : Promised!Applicable(d, e) <=> Applicable(d, e)
  BY DEF Promised!Applicable, Promised!LegalFrom, Promised!States, Promised!Final, Promised!Judging,
         Promised!Closable, Applicable, LegalFrom, States, Final, Judging, Closable
<1>3. \A s, e : Promised!NextState(s, e) = NextState(s, e)
  BY DEF Promised!NextState, Promised!MovesTo, Promised!Closing, Promised!Event,
         NextState, MovesTo, Closing, Event
<1>4. \A d, e : Promised!Apply(d, e) = Apply(d, e)
  BY <1>2, <1>3 DEF Promised!Apply, Promised!Illegal, Apply, Illegal
<1>5. \A ls : Promised!Projection(ls) = Projection(ls)
  BY DEF Promised!Projection, Promised!NewTask, Projection, NewTask
<1>6. \A ls, n, e : Promised!LineFor(ls, n, e) = LineFor(ls, n, e)
  BY <1>4, <1>5 DEF Promised!LineFor, LineFor
<1> QED
  BY <1>1, <1>2, <1>5, <1>6

\* The step that makes a line durable is an append of TaskLog.
LEMMA DurableRecords ==
  ASSUME IInv, NEW p \in Procs, Writing(p), Durable(p), vault' = vault,
         acked' = acked \/ acked' = acked \cup {Pending(p)}
  PROVE  \E e \in Promised!Events : Promised!Record(e)
<1> DEFINE x == Pending(p)
<1>1. file.lines = log
  BY WriterSeesLog
<1>2. log' = Append(log, x)
  BY DEF Durable
<1>3. /\ x \in Line
      /\ Applicable(Projection(log), x.event)
      /\ x = LineFor(log, Len(log) + 1, x.event)
  BY PendingIsLegal
<1>4. ~Gone /\ Gone' = Gone
  <2>1. file'.lines = log' /\ log' # <<>>
    BY DurableStep
  <2> QED
    BY <1>1, <2>1 DEF Gone
<1>5. acked' \in {acked, acked \cup {x}}
  OBVIOUS
<1> HIDE DEF x
<1>6. x.event \in Promised!Events
  BY <1>3, SameReducer DEF Line
<1>7. /\ Promised!Applicable(Promised!Projection(log), x.event)
      /\ x = Promised!LineFor(log, Len(log) + 1, x.event)
  BY <1>3, SameReducer
<1>8. Promised!Record(x.event)
  BY <1>2, <1>4, <1>5, <1>7 DEF Promised!Record
<1> QED
  BY <1>6, <1>8

\* A step of the store either leaves the history and the receipts alone or makes
\* one pending line durable, with or without a receipt.
LEMMA StepKinds ==
  ASSUME IInv, [Next]_vars
  PROVE  \/ UNCHANGED <<log, acked>>
         \/ \E p \in Procs : /\ Writing(p) /\ Durable(p) /\ vault' = vault
                             /\ acked' = acked \/ acked' = acked \cup {Pending(p)}
<1>1. CASE UNCHANGED vars \/ Damage
  BY <1>1 DEF vars, Damage
<1>2. ASSUME NEW p \in Procs, Request(p) PROVE UNCHANGED <<log, acked>>
  BY <1>2 DEF Request, Snapshot, Start, Submit, Begin
<1>3. ASSUME NEW p \in Procs,
             Look(p) \/ Gate(p) \/ Acquire(p) \/ Timeout(p) \/ QuarantineDamaged(p)
               \/ QuarantineTorn(p) \/ SetAside(p) \/ Restore(p) \/ ReadIntact(p)
               \/ CheckSequence(p) \/ RenameFails(p) \/ RestoreFails(p)
      PROVE  UNCHANGED <<log, acked>>
  BY <1>3 DEF Look, Gate, Acquire, Timeout, QuarantineDamaged, QuarantineTorn, SetAside,
              Restore, ReadIntact, CheckSequence, RenameFails, RestoreFails
<1>4. ASSUME NEW p \in Procs, AppendRecovery(p) \/ AppendEvent(p)
      PROVE  /\ Writing(p) /\ Durable(p) /\ vault' = vault
             /\ acked' = acked \/ acked' = acked \cup {Pending(p)}
  BY <1>4 DEF AppendRecovery, AppendEvent, Writing
<1>5. ASSUME NEW p \in Procs, AppendFails(p) \/ Crash(p)
      PROVE  \/ UNCHANGED <<log, acked>>
             \/ Writing(p) /\ Durable(p) /\ vault' = vault /\ acked' = acked
  BY <1>5 DEF AppendFails, Crash, Torn, Created
<1> QED
  BY <1>1, <1>2, <1>3, <1>4, <1>5 DEF Next, Advance, Fails

\* The record store implements the task log it promises to the layers above.
THEOREM KeepsPromise == Spec => Implements
<1>1. Init => Promised!Init
  BY DEF Init, Promised!Init, Gone
<1>2. IInv /\ [Next]_vars => [Promised!Next]_<<log, acked, Gone>>
  <2> SUFFICES ASSUME IInv, [Next]_vars
               PROVE  Promised!Next \/ UNCHANGED <<log, acked, Gone>>
    OBVIOUS
  <2>1. CASE UNCHANGED <<log, acked>>
    <3>1. Gone' \in BOOLEAN /\ Gone \in BOOLEAN
      BY DEF Gone
    <3>2. CASE Gone' = Gone
      BY <2>1, <3>2
    <3>3. CASE Gone' # Gone
      <4>1. Gone' = TRUE
        BY <3>1, <3>3, GoneStays
      <4> QED
        BY <2>1, <4>1 DEF Promised!Next, Promised!Seal
    <3> QED
      BY <3>2, <3>3
  <2>2. ASSUME NEW p \in Procs, Writing(p), Durable(p), vault' = vault,
               acked' = acked \/ acked' = acked \cup {Pending(p)}
        PROVE  Promised!Next
    BY <2>2, DurableRecords DEF Promised!Next
  <2> QED
    BY <2>1, <2>2, StepKinds
<1> QED
  BY <1>1, <1>2, Invariance, PTL DEF Spec, Implements, Promised!Spec
=============================================================================

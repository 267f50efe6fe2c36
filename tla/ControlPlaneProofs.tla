------------------------- MODULE ControlPlaneProofs -------------------------
(***************************************************************************)
(* What is proved of the control plane, for any number of processes, any   *)
(* controls and any bounds.  No lock spans a control, so each process works*)
(* on a turn that may be gone by now.  Three things save it.  The turn only*)
(* grows: it forgets no accepted control, keeps its task once it has one,  *)
(* and never comes back, so what a process saw of it stays true (Recalled).*)
(* A log only grows, and takes an event only where its writer expects the  *)
(* end to be, so what a process has written stays there, in one piece      *)
(* (Working).  And what ends a task is refused by a log that was ended, so *)
(* one hold or cancel at most gets as far as its answer (Ended), although  *)
(* a hold or a cancel deletes the turn without looking at it.              *)
(***************************************************************************)
EXTENDS ControlPlane, FiniteSetTheorems, TLAPS

Tags == {Tag(c) : c \in Controls}
ClosingTypes == {"hold", "cancel"}

Remembered == [id : Ids, tag : Tags, durable : BOOLEAN, task : Nat]
TurnFiles == [exists : BOOLEAN, recording : BOOLEAN, task : Nat, phase : States,
              accepted : SUBSET Remembered, repairs : {0, 1}]
ControlJobs == [kind : {"control"}, control : Controls, seen : TurnFiles,
                task : Nat, month : Nat, base : Nat, done : Nat]
StopJobs == [kind : {"stop"}, seen : TurnFiles]
Given == [id : Ids, tag : Tags, task : Nat]

-----------------------------------------------------------------------------
\* The types, variable by variable.
TurnTyped == turn \in TurnFiles /\ IsFiniteSet(turn.accepted)
LogsTyped ==
  /\ logs \in Seq(Seq(EntryRecords))
  /\ opened \in Seq(Nat)
  /\ Len(opened) = Len(logs)
  /\ \A t \in 1..Len(logs) : logs[t] # <<>> /\ opened[t] \in 1..month
JobsTyped ==
  /\ pc \in [Procs -> {"idle", "drop", "sweep", "decide", "append", "settle", "verify"}]
  /\ job \in [Procs -> ControlJobs \cup StopJobs \cup {NoJob}]
  /\ \A p \in Procs :
       /\ pc[p] = "idle" => job[p] = NoJob
       /\ pc[p] \in {"drop", "sweep", "decide", "append", "settle"} => job[p] \in ControlJobs
       /\ pc[p] = "verify" => job[p] \in StopJobs
CountersTyped ==
  /\ expired \in BOOLEAN
  /\ month \in 1..MaxMonths
  /\ settings \in [Ids -> Nat]
  /\ granted \in [Ids -> Nat]
  /\ answers \subseteq Given
  /\ resumed \in Nat
  /\ calls \in 0..MaxCalls
  /\ faults \in 0..MaxFaults

Typed == TurnTyped /\ LogsTyped /\ JobsTyped /\ CountersTyped

-----------------------------------------------------------------------------
\* A turn has a task from the begin on, if its controls are recorded at all.
WellFormed(t) ==
  /\ t.phase = "new" => t.task = 0
  /\ t.recording /\ t.phase # "new" => t.task # 0

\* What the turn remembers refers to logs that are there; no closing control is
\* among it, and none but a feedback is recorded before there is a task.
TurnOK ==
  /\ WellFormed(turn)
  /\ turn.task <= Len(logs)
  /\ Cardinality(turn.accepted) <= MaxAccepted
  /\ \A a, b \in turn.accepted : a.id = b.id => a = b
  /\ \A a \in turn.accepted :
       /\ a.task <= Len(logs)
       /\ a.tag[1] \notin ClosingTypes
       /\ a.durable /\ a.tag[1] # "feedback" => turn.task # 0

\* What a process saw of the turn is still true of it, up to what was added.
Recalled(p) ==
  LET t == job[p].seen IN
  /\ t.exists
  /\ t.recording = turn.recording
  /\ t.accepted \subseteq turn.accepted
  /\ t.repairs <= turn.repairs
  /\ t.task \in {0, turn.task}
  /\ WellFormed(t)

\* A control that was let through to _mutate.
Admitted(p) ==
  LET c == job[p].control
      t == job[p].seen
  IN  /\ Prior(t, c) = {}
      /\ Cardinality(t.accepted) < MaxAccepted
      /\ t.phase \in LegalIn[c.type]
      /\ job[p].month \in 1..month
      /\ c.type = "feedback" => settings[c.id] >= 1

\* Where its events go: the turn's log, or one of its own for a begin.
Placed(p) ==
  LET j == job[p]
      c == j.control
  IN  IF c.type = "begin" /\ Recorded(j.seen, c)
      THEN /\ j.base = 0
           /\ j.done = 0 <=> j.task = 0
           /\ j.task # 0 => j.task \in 1..Len(logs) /\ opened[j.task] = j.month
      ELSE j.task = j.seen.task

\* They are written up to done, in one piece.
Written(p) ==
  LET j == job[p] IN
  \A i \in 1..j.done :
    /\ j.base + i <= Len(Log(j.task))
    /\ Log(j.task)[j.base + i].event = EventsOf(j.seen, j.control)[i]
    /\ Log(j.task)[j.base + i].by = j.control.id

\* Once the first is written the log is as far as the control takes the turn.
Advanced(p) ==
  LET j == job[p] IN
  j.done > 0 /\ j.control.type \in DOMAIN MoveTo =>
    Rank[MoveTo[j.control.type]] <= Rank[Projection(Log(j.task)).state]

Working(p) ==
  /\ pc[p] # "idle" => Recalled(p)
  /\ pc[p] \in {"drop", "sweep", "decide"} => job[p].done = 0
  /\ pc[p] \in {"append", "settle"} => Admitted(p) /\ Placed(p) /\ Written(p) /\ Advanced(p)
  /\ pc[p] = "append" => job[p].done < Len(EventsOf(job[p].seen, job[p].control))
  /\ pc[p] = "settle" => job[p].done = Len(EventsOf(job[p].seen, job[p].control))

AllWorking == \A p \in Procs : Working(p)

-----------------------------------------------------------------------------
\* A hold or a cancel whose event is in the log, on its way to delete the turn.
Ender(p) ==
  /\ pc[p] = "settle"
  /\ Closes(job[p].control)
  /\ Recorded(job[p].seen, job[p].control)

Closed(x) == x.tag[1] \in ClosingTypes
IsFinal == Projection(Log(turn.task)).state \in Final

\* A task is ended once: one hold or cancel at most is on its way, or was answered.
Ended ==
  /\ \A p \in Procs : Ender(p) =>
       /\ IsFinal
       /\ \A q \in Procs : Ender(q) => q = p
       /\ \A x \in answers : ~Closed(x)
  /\ \A x \in answers : Closed(x) => IsFinal /\ x.task <= Len(logs)
  /\ \A x, y \in answers : Closed(x) /\ Closed(y) => x = y

\* Every other answer is one the turn remembers.
Kept ==
  \A x \in answers : ~Closed(x) =>
    \E a \in turn.accepted : a.durable /\ a.id = x.id /\ a.tag = x.tag /\ a.task = x.task

\* An answer is one to a control that was sent.
Sent == \A x \in answers : \E c \in Controls : x.id = c.id /\ x.tag = Tag(c)

Core == Typed /\ TurnOK /\ AllWorking /\ Ended /\ Kept /\ Sent

\* No message id is used both for a control that ends the turn and for another one.
DistinctEnds == \A c, d \in Controls : c.id = d.id => (Closes(c) <=> Closes(d))

\* An id that was granted was granted once, and its answer was given.
GrantedOnce ==
  \A i \in Ids : /\ granted[i] <= 1
                 /\ granted[i] = 1 => \E x \in answers : x.id = i

IInv == Core /\ AcceptedIsRecorded /\ OrphansStayOrphans /\ LogLeads /\ resumed <= turn.repairs

-----------------------------------------------------------------------------
\* The events a control may append.
Marks == {"method_selected", "judgment_started", "framing_published", "source_published",
          "claim_published", "conflict_published", "alternative_published",
          "conclusion_published", "cross_exam_completed", "task_insufficient", "task_cancelled"}
Recordable == {Event("task_started", "judgment")} \cup {Event(m, "-") : m \in Marks}

\* A control only ever asks for events the reducer knows.
LEMMA RecordableAreEvents == Recordable \subseteq Events
BY DEF Recordable, Marks, Events, Plain, Starts, EventTypes, LegalFrom

\* The events of a type of control.
LEMMA EventLists ==
  ASSUME NEW k \in Types
  PROVE  /\ PublicEvents[k] \in Seq(Recordable)
         /\ IF k = "feedback" THEN PublicEvents[k] = <<>> ELSE Len(PublicEvents[k]) \in {1, 2, 3}
<1>1. /\ Event("task_started", "judgment") \in Recordable
      /\ \A e \in Marks : Event(e, "-") \in Recordable
  BY DEF Recordable
<1>2. ASSUME NEW es \in {BeginEvents, FramingEvents, ClaimEvents, ConflictEvents, AlternativeEvents,
                         ReviseEvents, CrossExamEvents, HoldEvents, CancelEvents}
      PROVE  es \in Seq(Recordable) /\ Len(es) \in {1, 2, 3}
  <2>1. CASE es = BeginEvents
    BY <1>1, <2>1 DEF BeginEvents, Marks
  <2>2. CASE es = ClaimEvents
    BY <1>1, <2>2 DEF ClaimEvents, Marks
  <2>3. ASSUME NEW e \in Recordable, es = <<e>>
        PROVE  es \in Seq(Recordable) /\ Len(es) \in {1, 2, 3}
    BY <2>3
  <2> QED
    BY <1>1, <1>2, <2>1, <2>2, <2>3 DEF FramingEvents, ConflictEvents, AlternativeEvents,
       ReviseEvents, CrossExamEvents, HoldEvents, CancelEvents, Marks
<1>3. IF k = "feedback" THEN PublicEvents[k] = <<>>
      ELSE PublicEvents[k] \in {BeginEvents, FramingEvents, ClaimEvents, ConflictEvents,
                AlternativeEvents, ReviseEvents, CrossExamEvents, HoldEvents, CancelEvents}
  BY DEF PublicEvents, Types, LegalIn
<1>4. <<>> \in Seq(Recordable)
  OBVIOUS
<1> QED
  BY <1>2, <1>3, <1>4

\* The events of a control, and which controls have any.
LEMMA EventsTyped ==
  ASSUME NEW t, NEW c \in Controls
  PROVE  /\ EventsOf(t, c) \in Seq(Recordable)
         /\ EventsOf(t, c) # <<>> => Recorded(t, c) /\ c.type # "feedback"
         /\ Recorded(t, c) /\ c.type # "feedback" => Len(EventsOf(t, c)) \in {1, 2, 3}
<1>1. /\ PublicEvents[c.type] \in Seq(Recordable)
      /\ IF c.type = "feedback" THEN PublicEvents[c.type] = <<>>
         ELSE Len(PublicEvents[c.type]) \in {1, 2, 3}
  BY EventLists, ControlsAreControls
<1>2. <<>> \in Seq(Recordable)
  OBVIOUS
<1>3. CASE Recorded(t, c)
  BY <1>1, <1>3 DEF EventsOf
<1>4. CASE ~Recorded(t, c)
  BY <1>2, <1>4 DEF EventsOf
<1> QED
  BY <1>3, <1>4

\* What the reducer makes of an event that is legal is a state of a task.
LEMMA ApplyTyped ==
  ASSUME NEW q \in Projections, NEW e \in Events, Applicable(q, e)
  PROVE  Apply(q, e) \in Projections
<1>1. NextState(q.state, e) \in States
  <2>1. q.state \in States /\ (e.type = "task_concluded" => e.arg \in DOMAIN Closing)
    BY DEF Events, Plain, Starts, Concludes, Event, Projections
  <2>2. \A s \in DOMAIN MovesTo : MovesTo[s] \in States
    BY DEF MovesTo, States
  <2>3. \A s \in DOMAIN Closing : Closing[s] \in States
    BY DEF Closing, States
  <2>4. {"bypassed", "framing", "degraded"} \subseteq States
    BY DEF States
  <2> QED
    BY <2>1, <2>2, <2>3, <2>4 DEF NextState
<1>2. Apply(q, e) = [state   |-> NextState(q.state, e),
                     repairs |-> IF e.type = "repair_requested" THEN 1 ELSE q.repairs]
  BY DEF Apply
<1>3. q.repairs \in {0, 1}
  BY DEF Projections
<1> QED
  BY <1>1, <1>2, <1>3 DEF Projections

\* Reading a task log gives a typed projection.
LEMMA ProjectionTyped ==
  ASSUME NEW ls \in Seq(EntryRecords)
  PROVE  Projection(ls) \in Projections
<1>1. NewTask \in Projections
  BY DEF NewTask, Projections, States
<1>2. ASSUME ls # <<>>
      PROVE  ls[Len(ls)].after \in Projections
  <2>1. ls[Len(ls)] \in EntryRecords
    BY <1>2
  <2> QED
    BY <2>1 DEF EntryRecords
<1> QED
  BY <1>1, <1>2 DEF Projection

\* A record only moves forward, and not at all once it is final.
LEMMA RecordAdvances ==
  ASSUME NEW q \in Projections, NEW e \in Recordable, Applicable(q, e)
  PROVE  /\ q.state \notin Final
         /\ Rank[q.state] <= Rank[Apply(q, e).state]
         /\ e.type \in DOMAIN MovesTo => Apply(q, e).state = MovesTo[e.type]
         /\ e.type = "task_started" => Apply(q, e).state = "framing"
<1>1. q.state \in States /\ q.state \in LegalFrom[e.type]
  BY DEF Applicable, Projections
<1>2. Apply(q, e).state = NextState(q.state, e)
  BY DEF Apply
<1>3. CASE e = Event("task_started", "judgment")
  BY <1>1, <1>2, <1>3 DEF Event, NextState, MovesTo, LegalFrom, Rank, Final
<1>4. ASSUME NEW m \in Marks, e = Event(m, "-")
      PROVE  /\ q.state \notin Final
             /\ Rank[q.state] <= Rank[NextState(q.state, e)]
             /\ m \in DOMAIN MovesTo => NextState(q.state, e) = MovesTo[m]
             /\ m \notin {"task_started", "task_concluded"}
  <2>1. e.type = m
    BY <1>4 DEF Event
  <2>2. m \notin {"task_started", "task_concluded", "capability_degraded"}
    BY DEF Marks
  <2>3. NextState(q.state, e) = IF m \in DOMAIN MovesTo THEN MovesTo[m] ELSE q.state
    BY <2>1, <2>2, <1>4 DEF NextState, Event
  <2>4. q.state \in LegalFrom[m]
    BY <1>1, <2>1
  <2>5. q.state \notin Final
    BY <2>4 DEF LegalFrom, Marks, Final, States, Closable, Judging
  <2>6. Rank[q.state] \in 0..6
    BY <1>1 DEF Rank, States
  <2>7. m \in DOMAIN MovesTo => Rank[q.state] <= Rank[MovesTo[m]]
    BY <2>4 DEF LegalFrom, Marks, MovesTo, Rank, States, Closable, Judging, Final
  <2> QED
    BY <2>2, <2>3, <2>5, <2>6, <2>7
<1>5. \A m \in Marks : Event(m, "-").type = m
  BY DEF Event
<1> QED
  BY <1>2, <1>3, <1>4, <1>5 DEF Recordable

-----------------------------------------------------------------------------
\* The logs.
LEMMA LogTyped ==
  ASSUME LogsTyped, NEW t
  PROVE  /\ Log(t) \in Seq(EntryRecords)
         /\ t \in 1..Len(logs) => Len(Log(t)) > 0
         /\ t \notin 1..Len(logs) => Log(t) = <<>>
BY DEF LogsTyped, Log

\* A process that writes holds a control with events left, and for a task that is there.
LEMMA Writer ==
  ASSUME Typed, AllWorking, TurnOK, NEW p \in Procs, pc[p] = "append"
  PROVE  LET j == job[p] IN
         /\ j \in ControlJobs
         /\ Recorded(j.seen, j.control) /\ j.control.type # "feedback"
         /\ Current(p) \in Recordable
         /\ j.done + 1 \in 1..Len(EventsOf(j.seen, j.control))
         /\ j.task \in 0..Len(logs)
         /\ j.task = 0 => j.control.type = "begin" /\ j.done = 0 /\ j.base = 0
         /\ j.control.type # "begin" => j.task = turn.task
<1> DEFINE j == job[p]
           es == EventsOf(j.seen, j.control)
<1>1. j \in ControlJobs /\ j.control \in Controls /\ j.done \in Nat /\ j.task \in Nat
  BY DEF Typed, JobsTyped, ControlJobs
<1>2. /\ Recalled(p) /\ Admitted(p) /\ Placed(p) /\ j.done < Len(es)
  BY DEF AllWorking, Working
<1>3. es \in Seq(Recordable) /\ Len(es) \in Nat
  BY <1>1, EventsTyped
<1>4. es # <<>>
  BY <1>1, <1>2, <1>3
<1>5. Recorded(j.seen, j.control) /\ j.control.type # "feedback"
  BY <1>1, <1>4, EventsTyped
<1>6. j.done + 1 \in 1..Len(es) /\ Current(p) \in Recordable
  BY <1>1, <1>2, <1>3 DEF Current
<1>7. CASE j.control.type = "begin"
  <2>1. j.base = 0 /\ (j.done = 0 <=> j.task = 0) /\ (j.task # 0 => j.task \in 1..Len(logs))
    BY <1>2, <1>5, <1>7 DEF Placed
  <2> QED
    BY <1>1, <1>5, <1>6, <1>7, <2>1 DEF Typed, LogsTyped
<1>8. CASE j.control.type # "begin"
  <2>1. j.task = j.seen.task
    BY <1>2, <1>8 DEF Placed
  <2>2. j.seen.recording /\ j.seen.phase # "new"
    BY <1>1, <1>2, <1>5, <1>8, ControlsAreControls DEF Recorded, Admitted, LegalIn, Types, Judging, Closable
  <2>3. j.task = turn.task /\ j.task # 0
    BY <1>2, <2>1, <2>2 DEF Recalled, WellFormed
  <2>4. turn.task \in Nat /\ turn.task <= Len(logs) /\ Len(logs) \in Nat
    BY DEF Typed, TurnTyped, TurnFiles, LogsTyped, TurnOK
  <2> QED
    BY <1>1, <1>5, <1>6, <1>8, <2>3, <2>4
<1> QED
  BY <1>7, <1>8

\* The store appends where the writer expects the end, in the month it was filed.
LEMMA Fitting ==
  ASSUME Typed, AllWorking, TurnOK, NEW p \in Procs, pc[p] = "append", Fits(p)
  PROVE  /\ Len(Log(job[p].task)) = job[p].base + job[p].done
         /\ Applicable(Projection(Log(job[p].task)), Current(p))
<1> DEFINE j == job[p]
           found == Filed(j.task, j.month)
<1>1. Len(found) = j.base + j.done /\ Applicable(Projection(found), Current(p))
  BY DEF Fits
<1>2. CASE found = Log(j.task)
  BY <1>1, <1>2
<1>3. CASE found # Log(j.task)
  <2>1. found = <<>> /\ j.task \in 1..Len(logs) /\ opened[j.task] # j.month
    BY <1>3 DEF Filed, Log
  <2>2. Current(p).type = "task_started"
    BY <1>1, <2>1 DEF Applicable, Projection, NewTask
  <2>3. j.control.type # "begin"
    <3>1. SUFFICES ASSUME j.control.type = "begin"
                   PROVE  FALSE
      OBVIOUS
    <3>2. Placed(p)
      BY DEF AllWorking, Working
    <3> QED
      BY <2>1, <3>1, <3>2, Writer DEF Placed
  <2>4. Current(p) = PublicEvents[j.control.type][j.done + 1]
    BY Writer DEF Current, EventsOf
  <2>5. j.control.type \in Types \ {"begin", "feedback"}
    BY <2>3, Writer, ControlsAreControls DEF ControlJobs
  <2>6. j.done + 1 \in 1..Len(PublicEvents[j.control.type])
    BY Writer DEF EventsOf
  <2>7. \A m \in Marks : Event(m, "-").type # "task_started"
    BY DEF Event, Marks
  <2>8. \A k \in Types \ {"begin", "feedback"} : \A i \in 1..Len(PublicEvents[k]) :
           PublicEvents[k][i] \in {Event(m, "-") : m \in Marks}
    BY DEF PublicEvents, FramingEvents, ClaimEvents, ConflictEvents, AlternativeEvents,
           ReviseEvents, CrossExamEvents, HoldEvents, CancelEvents, Marks, Types, LegalIn
  <2> QED
    BY <2>2, <2>4, <2>5, <2>6, <2>7, <2>8
<1> QED
  BY <1>2, <1>3

\* An appended element comes last and moves no other.
LEMMA AppendOne ==
  ASSUME NEW S, NEW s \in Seq(S), NEW x \in S
  PROVE  /\ Append(s, x) \in Seq(S)
         /\ Len(Append(s, x)) = Len(s) + 1
         /\ Append(s, x)[Len(s) + 1] = x
         /\ \A i \in 1..Len(s) : Append(s, x)[i] = s[i]
OBVIOUS

\* Replacing one element of a sequence leaves the others.
LEMMA ReplaceOne ==
  ASSUME NEW S, NEW s \in Seq(S), NEW k \in 1..Len(s), NEW x \in S
  PROVE  /\ [s EXCEPT ![k] = x] \in Seq(S)
         /\ Len([s EXCEPT ![k] = x]) = Len(s)
         /\ [s EXCEPT ![k] = x][k] = x
         /\ \A i \in 1..Len(s) : i # k => [s EXCEPT ![k] = x][i] = s[i]
OBVIOUS

\* The log a process appends to, and what it appends.
Target(p) == IF job[p].task = 0 THEN Len(logs) + 1 ELSE job[p].task
NewEntry(p) == Entry(Log(job[p].task), Current(p), job[p].control.id)

\* What an append that fits makes of the logs: one of them, or a new one, is longer by
\* a legal event of the control.
LEMMA Appended ==
  ASSUME Typed, AllWorking, TurnOK, NEW p \in Procs, pc[p] = "append", Fits(p), Durable(p)
  PROVE  /\ logs' \in Seq(Seq(EntryRecords))
         /\ opened' \in Seq(Nat)
         /\ Len(logs') = IF job[p].task = 0 THEN Len(logs) + 1 ELSE Len(logs)
         /\ Len(opened') = Len(logs')
         /\ Target(p) \in 1..Len(logs')
         /\ NewEntry(p) \in EntryRecords
         /\ logs'[Target(p)] = Append(Log(job[p].task), NewEntry(p))
         /\ job[p].task = 0 => opened'[Target(p)] = job[p].month
         /\ \A t \in 1..Len(logs) : t # Target(p) => logs'[t] = logs[t]
         /\ \A t \in 1..Len(logs) : opened'[t] = opened[t]
<1>1. /\ job[p] \in ControlJobs /\ job[p].task \in 0..Len(logs) /\ Len(logs) \in Nat
      /\ Current(p) \in Events
  BY Writer, RecordableAreEvents DEF Typed, LogsTyped
<1>2. job[p].control.id \in Ids /\ job[p].month \in Nat
  BY <1>1 DEF ControlJobs, Ids
<1>3. logs \in Seq(Seq(EntryRecords)) /\ opened \in Seq(Nat) /\ Len(opened) = Len(logs)
  BY DEF Typed, LogsTyped
<1>4. Log(job[p].task) \in Seq(EntryRecords)
  BY LogTyped DEF Typed
<1>5. NewEntry(p) \in EntryRecords
  <2>1. Apply(Projection(Log(job[p].task)), Current(p)) \in Projections
    BY <1>1, <1>4, Fitting, ProjectionTyped, ApplyTyped
  <2> QED
    BY <1>1, <1>2, <2>1 DEF NewEntry, Entry, EntryRecords
<1>6. CASE job[p].task = 0
  <2>1. Log(job[p].task) = <<>> /\ Target(p) = Len(logs) + 1
    BY <1>1, <1>6 DEF Log, Target
  <2>2. logs' = Append(logs, <<NewEntry(p)>>) /\ opened' = Append(opened, job[p].month)
    BY <1>6 DEF Durable, NewEntry
  <2>3. <<NewEntry(p)>> \in Seq(EntryRecords) /\ <<NewEntry(p)>> = Append(<<>>, NewEntry(p))
    BY <1>5
  <2>4. /\ logs' \in Seq(Seq(EntryRecords)) /\ Len(logs') = Len(logs) + 1
        /\ logs'[Len(logs) + 1] = <<NewEntry(p)>> /\ \A t \in 1..Len(logs) : logs'[t] = logs[t]
    BY <1>3, <2>2, <2>3, AppendOne
  <2>5. /\ opened' \in Seq(Nat) /\ Len(opened') = Len(logs) + 1
        /\ opened'[Len(logs) + 1] = job[p].month /\ \A t \in 1..Len(logs) : opened'[t] = opened[t]
    BY <1>2, <1>3, <2>2, AppendOne
  <2> QED
    BY <1>1, <1>5, <1>6, <2>1, <2>3, <2>4, <2>5
<1>7. CASE job[p].task # 0
  <2>1. /\ Log(job[p].task) = logs[job[p].task] /\ job[p].task \in 1..Len(logs)
        /\ Target(p) = job[p].task
    BY <1>1, <1>7 DEF Log, Target
  <2>2. /\ logs' = [logs EXCEPT ![job[p].task] = Append(logs[job[p].task], NewEntry(p))]
        /\ opened' = opened
    BY <1>7, <2>1 DEF Durable, NewEntry
  <2>3. Append(logs[job[p].task], NewEntry(p)) \in Seq(EntryRecords)
    BY <1>4, <1>5, <2>1, AppendOne
  <2>4. /\ logs' \in Seq(Seq(EntryRecords)) /\ Len(logs') = Len(logs)
        /\ logs'[job[p].task] = Append(logs[job[p].task], NewEntry(p))
        /\ \A t \in 1..Len(logs) : t # job[p].task => logs'[t] = logs[t]
    BY <1>3, <2>1, <2>2, <2>3, ReplaceOne
  <2> QED
    BY <1>3, <1>5, <1>7, <2>1, <2>2, <2>4
<1> QED
  BY <1>6, <1>7

\* A step appends an event of a process that fits, or leaves the logs alone.
LEMMA LogStep ==
  ASSUME [Next]_vars
  PROVE  UNCHANGED <<logs, opened>> \/ \E p \in Procs : pc[p] = "append" /\ Fits(p) /\ Durable(p)
BY ZenonT(60) DEF Next, vars, Load, Drop, Sweep, Replay, Refuse, Mutate, Record, RecordRefused,
       RecordFails, Accept, Conflict, Close, SettleFails, Stop, StopEnds, Reserve, ReserveConflict, ReserveFails,
       Crash, Expire, NewMonth, EndSession

\* No log loses anything or changes its month; none goes back, and one that is
\* final takes nothing more.
Longer ==
  /\ Len(logs) <= Len(logs')
  /\ \A t \in 1..Len(logs) :
       /\ opened'[t] = opened[t]
       /\ Len(logs[t]) <= Len(logs'[t])
       /\ \A i \in 1..Len(logs[t]) : logs'[t][i] = logs[t][i]
       /\ Rank[Projection(logs[t]).state] <= Rank[Projection(logs'[t]).state]
       /\ Projection(logs[t]).state \in Final => logs'[t] = logs[t]

\* Every state of a task has a rank.
LEMMA RankTyped == \A q \in Projections : Rank[q.state] \in Nat
BY DEF Rank, Projections, States

\* What one more event makes of a log.
LEMMA OneMore ==
  ASSUME NEW ls \in Seq(EntryRecords), NEW e \in Recordable, NEW id \in Ids,
         Applicable(Projection(ls), e)
  PROVE  LET more == Append(ls, Entry(ls, e, id)) IN
         /\ more \in Seq(EntryRecords)
         /\ Len(more) = Len(ls) + 1
         /\ \A i \in 1..Len(ls) : more[i] = ls[i]
         /\ more[Len(ls) + 1].event = e /\ more[Len(ls) + 1].by = id
         /\ Projection(more) = Apply(Projection(ls), e)
         /\ Projection(ls).state \notin Final
         /\ Rank[Projection(ls).state] <= Rank[Projection(more).state]
<1> DEFINE entry == Entry(ls, e, id)
           more == Append(ls, entry)
<1>1. Projection(ls) \in Projections /\ Apply(Projection(ls), e) \in Projections
  BY ProjectionTyped, ApplyTyped, RecordableAreEvents
<1>2. /\ entry \in EntryRecords
      /\ entry.event = e /\ entry.by = id /\ entry.after = Apply(Projection(ls), e)
  BY <1>1, RecordableAreEvents DEF Entry, EntryRecords
<1>3. /\ more \in Seq(EntryRecords) /\ Len(more) = Len(ls) + 1 /\ Len(ls) \in Nat
      /\ more[Len(ls) + 1] = entry /\ \A i \in 1..Len(ls) : more[i] = ls[i]
  <2> HIDE DEF entry
  <2> QED
    BY <1>2
<1>4. Projection(more) = Apply(Projection(ls), e)
  <2>1. more # <<>> /\ more[Len(more)] = entry
    BY <1>3
  <2> HIDE DEF more, entry
  <2> QED
    BY <1>2, <2>1 DEF Projection
<1>5. Projection(ls).state \notin Final /\ Rank[Projection(ls).state] <= Rank[Projection(more).state]
  BY <1>1, <1>4, RecordAdvances
<1> QED
  BY <1>2, <1>3, <1>4, <1>5

\* No step shortens a task log or rewrites an entry of it.
LEMMA LogsGrow ==
  ASSUME Typed, AllWorking, TurnOK, [Next]_vars
  PROVE  Longer
<1>1. \A t \in 1..Len(logs) : logs[t] \in Seq(EntryRecords) /\ Len(logs[t]) \in Nat
                             /\ Rank[Projection(logs[t]).state] \in Nat
  <2>1. \A t \in 1..Len(logs) : logs[t] \in Seq(EntryRecords)
    BY DEF Typed, LogsTyped
  <2> QED
    BY <2>1, ProjectionTyped, RankTyped
<1>2. CASE UNCHANGED <<logs, opened>>
  <2>1. Len(logs) \in Nat
    BY DEF Typed, LogsTyped
  <2> QED
    BY <1>1, <1>2, <2>1 DEF Longer
<1>3. ASSUME NEW p \in Procs, pc[p] = "append", Fits(p), Durable(p)
      PROVE  Longer
  <2>1. /\ job[p].task \in 0..Len(logs) /\ Len(logs) \in Nat /\ Len(logs') \in Nat
        /\ Len(logs') = IF job[p].task = 0 THEN Len(logs) + 1 ELSE Len(logs)
        /\ \A t \in 1..Len(logs) : t # Target(p) => logs'[t] = logs[t]
        /\ \A t \in 1..Len(logs) : opened'[t] = opened[t]
        /\ logs'[Target(p)] = Append(Log(job[p].task), NewEntry(p))
    <3>1. Len(logs) \in Nat
      BY DEF Typed, LogsTyped
    <3>2. job[p].task \in 0..Len(logs)
      BY <1>3, Writer
    <3>3. /\ Len(logs') = IF job[p].task = 0 THEN Len(logs) + 1 ELSE Len(logs)
          /\ \A t \in 1..Len(logs) : t # Target(p) => logs'[t] = logs[t]
          /\ \A t \in 1..Len(logs) : opened'[t] = opened[t]
          /\ logs'[Target(p)] = Append(Log(job[p].task), NewEntry(p))
      BY <1>3, Appended
    <3>4. Len(logs') \in Nat
      BY <3>1, <3>3
    <3> QED
      BY <3>1, <3>2, <3>3, <3>4
  <2>2. ASSUME Target(p) \in 1..Len(logs)
        PROVE  LET t == Target(p) IN
               /\ Len(logs[t]) <= Len(logs'[t])
               /\ \A i \in 1..Len(logs[t]) : logs'[t][i] = logs[t][i]
               /\ Rank[Projection(logs[t]).state] <= Rank[Projection(logs'[t]).state]
               /\ Projection(logs[t]).state \notin Final
    <3>1. /\ Log(job[p].task) = logs[Target(p)]
          /\ logs[Target(p)] \in Seq(EntryRecords) /\ Len(logs[Target(p)]) \in Nat
      BY <1>1, <2>1, <2>2 DEF Log, Target
    <3>2. Applicable(Projection(logs[Target(p)]), Current(p)) /\ Current(p) \in Recordable
      BY <1>3, <3>1, Fitting, Writer
    <3>3. job[p].control.id \in Ids
      BY <1>3, Writer DEF ControlJobs, Ids
    <3>4. logs'[Target(p)] = Append(logs[Target(p)],
                                    Entry(logs[Target(p)], Current(p), job[p].control.id))
      BY <2>1, <3>1 DEF NewEntry
    <3> QED
      BY <3>1, <3>2, <3>3, <3>4, OneMore
  <2>3. Len(logs) <= Len(logs')
    BY <2>1
  <2>4. ASSUME NEW t \in 1..Len(logs), t # Target(p)
        PROVE  /\ Len(logs[t]) <= Len(logs'[t])
               /\ \A i \in 1..Len(logs[t]) : logs'[t][i] = logs[t][i]
               /\ Rank[Projection(logs[t]).state] <= Rank[Projection(logs'[t]).state]
               /\ Projection(logs[t]).state \in Final => logs'[t] = logs[t]
    BY <1>1, <2>1, <2>4
  <2> QED
    BY <2>1, <2>2, <2>3, <2>4 DEF Longer
<1> QED
  BY <1>2, <1>3, LogStep

-----------------------------------------------------------------------------
\* The turn.

\* A process that settles has written all of its events, and knows their task.
LEMMA Settler ==
  ASSUME Typed, AllWorking, TurnOK, NEW p \in Procs, pc[p] = "settle"
  PROVE  LET j == job[p]
             c == j.control
         IN  /\ j \in ControlJobs /\ c \in Controls /\ c.type \in Types
             /\ Recalled(p) /\ Admitted(p) /\ Placed(p) /\ Written(p) /\ Advanced(p)
             /\ j.done = Len(EventsOf(j.seen, c))
             /\ j.task \in 0..Len(logs)
             /\ Recorded(j.seen, c) /\ c.type # "feedback" => j.done > 0 /\ j.task # 0
             /\ ~(Recorded(j.seen, c) /\ c.type = "begin") => j.task = j.seen.task
             /\ j.seen.task # 0 => j.task = turn.task
             /\ c.type = "begin" => j.seen.phase = "new" /\ j.seen.task = 0
<1> DEFINE j == job[p]
           c == j.control
<1>1. j \in ControlJobs /\ c \in Controls /\ c.type \in Types /\ j.done \in Nat /\ j.task \in Nat
  BY ControlsAreControls DEF Typed, JobsTyped, ControlJobs
<1>2. /\ Recalled(p) /\ Admitted(p) /\ Placed(p) /\ Written(p) /\ Advanced(p)
      /\ j.done = Len(EventsOf(j.seen, c))
  BY DEF AllWorking, Working
<1>3. Recorded(j.seen, c) /\ c.type # "feedback" => j.done > 0
  <2>1. Recorded(j.seen, c) /\ c.type # "feedback" => Len(EventsOf(j.seen, c)) \in {1, 2, 3}
    <3>1. c \in Controls
      BY <1>1
    <3> QED
      BY <3>1, EventsTyped, Zenon
  <2>2. Recorded(j.seen, c) /\ c.type # "feedback" => j.done \in {1, 2, 3}
    BY <1>2, <2>1, Zenon
  <2> QED
    BY <2>2
<1>4. c.type = "begin" => j.seen.phase = "new" /\ j.seen.task = 0
  BY <1>2 DEF Admitted, LegalIn, Recalled, WellFormed
<1>5. ~(Recorded(j.seen, c) /\ c.type = "begin") => j.task = j.seen.task
  BY <1>2 DEF Placed
<1>6. j.seen.task \in {0, turn.task} /\ turn.task \in 0..Len(logs)
  BY <1>2 DEF Recalled, Typed, TurnTyped, TurnFiles, TurnOK, LogsTyped
<1>7. Recorded(j.seen, c) /\ c.type = "begin" => j.task \in 1..Len(logs)
  BY <1>1, <1>2, <1>3 DEF Placed
<1>8. Recorded(j.seen, c) /\ c.type \notin {"begin", "feedback"} => j.seen.task # 0
  <2>1. SUFFICES ASSUME Recorded(j.seen, c), c.type \notin {"begin", "feedback"}
                 PROVE  j.seen.task # 0
    OBVIOUS
  <2>2. j.seen.recording /\ j.seen.phase # "new"
    BY <1>1, <1>2, <2>1 DEF Recorded, Admitted, LegalIn, Types, Judging, Closable
  <2> QED
    BY <1>2, <2>2 DEF Recalled, WellFormed
<1>9. j.task \in 0..Len(logs)
  BY <1>5, <1>6, <1>7
<1> HIDE DEF j, c
<1> QED
  BY <1>1, <1>2, <1>3, <1>4, <1>5, <1>6, <1>7, <1>8, <1>9 DEF j, c

\* A control is accepted: the turn was still what the process had seen of it.
Settled(p) ==
  /\ pc[p] = "settle"
  /\ ~Closes(job[p].control)
  /\ turn = job[p].seen
  /\ turn' = Replacement(p)

ReservedStep ==
  /\ turn.exists /\ turn.repairs = 0
  /\ turn' = [turn EXCEPT !.repairs = 1]

\* What a step may do to the turn: forget it, reserve in it, or settle a control in it.
LEMMA TurnStep ==
  ASSUME AllWorking, [Next]_vars
  PROVE  UNCHANGED turn \/ Discard \/ ReservedStep \/ \E p \in Procs : Settled(p)
<1>1. \A p \in Procs : pc[p] = "verify" => job[p].seen.exists
  BY DEF AllWorking, Working, Recalled
<1> QED
  BY <1>1, ZenonT(60) DEF Next, vars, Load, Drop, Sweep, Replay, Refuse, Mutate, Record,
     RecordRefused, RecordFails, Accept, Conflict, Close, SettleFails, Stop, StopEnds, Reserve,
     ReserveConflict, ReserveFails, Crash, Expire, NewMonth, EndSession, Swap, TryDiscard, Settled,
     ReservedStep

\* The record a turn keeps of an accepted control.
Note(p) == Accepted(job[p].control, job[p].seen, job[p].task)

\* What a control that settles leaves in the turn is a note of that control.
LEMMA NoteTyped ==
  ASSUME Typed, AllWorking, TurnOK, NEW p \in Procs, pc[p] = "settle"
  PROVE  /\ Note(p) \in Remembered
         /\ Note(p).id = job[p].control.id /\ Note(p).tag = Tag(job[p].control)
         /\ Note(p).tag[1] = job[p].control.type
         /\ Note(p).durable = (Recorded(job[p].seen, job[p].control) \/ job[p].control.type = "feedback")
         /\ Note(p).task \in 0..Len(logs)
<1>1. job[p].control \in Controls /\ job[p].task \in 0..Len(logs) /\ job[p].seen \in TurnFiles
  BY Settler DEF ControlJobs
<1>2. /\ Note(p).id = job[p].control.id /\ Note(p).tag = Tag(job[p].control)
      /\ Note(p).durable = IsDurable(job[p].seen, job[p].control)
      /\ Note(p).task \in {0, job[p].task}
  BY DEF Note, Accepted
<1>3. IsDurable(job[p].seen, job[p].control) \in BOOLEAN
  BY DEF IsDurable
<1>4. job[p].control.id \in Ids /\ Tag(job[p].control) \in Tags
  BY <1>1 DEF Ids, Tags
<1>5. Tag(job[p].control)[1] = job[p].control.type
  BY DEF Tag
<1>6. Len(logs) \in Nat /\ Note(p).task \in Nat /\ Note(p).task \in 0..Len(logs)
  BY <1>1, <1>2 DEF Typed, LogsTyped
<1>7. Note(p) \in Remembered
  <2>1. Note(p) = [id |-> Note(p).id, tag |-> Note(p).tag, durable |-> Note(p).durable,
                   task |-> Note(p).task]
    BY DEF Note, Accepted
  <2> QED
    BY <1>2, <1>3, <1>4, <1>6, <2>1 DEF Remembered
<1> QED
  BY <1>2, <1>5, <1>6, <1>7 DEF IsDurable

\* What the turn becomes when a control is accepted.
LEMMA AcceptedTurn ==
  ASSUME Typed, AllWorking, TurnOK, NEW p \in Procs, Settled(p)
  PROVE  LET c == job[p].control IN
         /\ turn' \in TurnFiles
         /\ turn'.exists = turn.exists
         /\ turn'.recording = turn.recording
         /\ turn'.repairs = turn.repairs
         /\ turn'.phase = NextPhase(c, turn.phase)
         /\ turn'.task = job[p].task
         /\ turn.task \in {0, turn'.task}
         /\ turn'.accepted = turn.accepted \cup {Note(p)}
         /\ WellFormed(turn')
<1> DEFINE c == job[p].control
<1>1. turn \in TurnFiles /\ turn = job[p].seen /\ turn' = Replacement(p) /\ ~Closes(c)
  BY DEF Typed, TurnTyped, Settled
<1>2. /\ c \in Controls /\ c.type \in Types /\ Admitted(p) /\ job[p].task \in Nat
      /\ turn.task # 0 => job[p].task = turn.task
      /\ Recorded(turn, c) /\ c.type # "feedback" => job[p].task # 0
      /\ ~(Recorded(turn, c) /\ c.type = "begin") => job[p].task = turn.task
      /\ c.type = "begin" => turn.phase = "new"
  BY <1>1, Settler DEF Settled, Typed, LogsTyped
<1>3. Note(p) \in Remembered
  BY NoteTyped DEF Settled
<1>4. NextPhase(c, turn.phase) \in States
  BY <1>1, <1>2 DEF NextPhase, MoveTo, States, TurnFiles
<1>5. turn' = [turn EXCEPT !.phase = NextPhase(c, turn.phase), !.task = job[p].task,
                           !.accepted = turn.accepted \cup {Note(p)}]
  BY <1>1 DEF Replacement, Note
<1>6. /\ turn' \in TurnFiles
      /\ turn'.exists = turn.exists
      /\ turn'.recording = turn.recording
      /\ turn'.repairs = turn.repairs
      /\ turn'.phase = NextPhase(c, turn.phase)
      /\ turn'.task = job[p].task
      /\ turn'.accepted = turn.accepted \cup {Note(p)}
  <2>1. ASSUME NEW phase \in States, NEW task \in Nat, NEW more \in SUBSET Remembered,
               turn' = [turn EXCEPT !.phase = phase, !.task = task, !.accepted = more]
        PROVE  /\ turn' \in TurnFiles
               /\ turn'.exists = turn.exists
               /\ turn'.recording = turn.recording
               /\ turn'.repairs = turn.repairs
               /\ turn'.phase = phase /\ turn'.task = task /\ turn'.accepted = more
    BY <1>1, <2>1 DEF TurnFiles
  <2>2. turn.accepted \cup {Note(p)} \in SUBSET Remembered
    BY <1>1, <1>3 DEF TurnFiles
  <2> HIDE DEF c
  <2> QED
    BY <1>2, <1>4, <1>5, <2>1, <2>2
<1>7. WellFormed(turn)
  BY DEF TurnOK
<1>8. turn.phase \in LegalIn[c.type]
  BY <1>1, <1>2 DEF Admitted
<1>9. CASE turn.phase = "new"
  <2>1. c.type \in {"begin", "feedback"}
    BY <1>2, <1>8, <1>9 DEF LegalIn, Types, Judging, Closable
  <2>2. c.type = "begin" => turn.recording = Recorded(turn, c) /\ turn'.phase = "framing"
    BY <1>1, <1>6 DEF Recorded, Confirmed, NextPhase, MoveTo, TurnFiles
  <2>3. c.type = "feedback" => turn'.phase = "new" /\ turn'.task = turn.task
    BY <1>2, <1>6, <1>9 DEF NextPhase, MoveTo
  <2> QED
    BY <1>2, <1>6, <1>7, <1>9, <2>1, <2>2, <2>3 DEF WellFormed
<1>10. CASE turn.phase # "new"
  <2>1. turn'.phase # "new"
    BY <1>6, <1>10 DEF NextPhase, MoveTo
  <2>2. turn'.task = turn.task
    BY <1>2, <1>6, <1>10
  <2> QED
    BY <1>2, <1>6, <1>7, <1>10, <2>1, <2>2 DEF WellFormed
<1> QED
  BY <1>2, <1>6, <1>9, <1>10

\* What no step does: bring the turn back, forget an accepted control or a repair, or
\* change the task.
Grown ==
  /\ turn' \in TurnFiles
  /\ WellFormed(turn')
  /\ turn'.recording = turn.recording
  /\ turn.accepted \subseteq turn'.accepted
  /\ turn.repairs <= turn'.repairs
  /\ turn.task \in {0, turn'.task}
  /\ turn'.task <= Len(logs)
  /\ ~turn.exists => ~turn'.exists

\* No step of a kept turn takes back an accepted control, an answer or an ending.
LEMMA TurnGrows ==
  ASSUME Typed, AllWorking, TurnOK, [Next]_vars
  PROVE  Grown
<1>1. turn \in TurnFiles /\ WellFormed(turn) /\ turn.task <= Len(logs) /\ Len(logs) \in Nat
  BY DEF Typed, TurnTyped, TurnOK, LogsTyped
<1>2. turn.repairs \in {0, 1} /\ turn.exists \in BOOLEAN
  BY <1>1 DEF TurnFiles
<1>3. CASE UNCHANGED turn
  BY <1>1, <1>2, <1>3 DEF Grown
<1>4. CASE Discard \/ ReservedStep
  <2>1. /\ turn' \in TurnFiles
        /\ turn'.recording = turn.recording /\ turn'.accepted = turn.accepted
        /\ turn'.task = turn.task /\ turn'.phase = turn.phase
    BY <1>1, <1>4 DEF Discard, ReservedStep, TurnFiles
  <2>2. turn.repairs <= turn'.repairs /\ (~turn.exists => ~turn'.exists)
    BY <1>1, <1>2, <1>4 DEF Discard, ReservedStep, TurnFiles
  <2> QED
    BY <1>1, <2>1, <2>2 DEF Grown, WellFormed
<1>5. ASSUME NEW p \in Procs, Settled(p)
      PROVE  Grown
  <2>1. job[p].task \in 0..Len(logs)
    BY <1>5, Settler DEF Settled
  <2> QED
    BY <1>1, <1>2, <1>5, <2>1, AcceptedTurn DEF Grown
<1> QED
  BY <1>3, <1>4, <1>5, TurnStep

-----------------------------------------------------------------------------
\* A process.
Loaded(q, c) ==
  /\ turn.exists /\ UNCHANGED turn
  /\ pc'[q] \in {"drop", "sweep"}
  /\ job'[q] = [kind |-> "control", control |-> c, seen |-> turn,
                task |-> 0, month |-> 1, base |-> 0, done |-> 0]
Stopping(q) ==
  /\ turn.exists /\ UNCHANGED turn
  /\ pc'[q] = "verify"
  /\ job'[q] = [kind |-> "stop", seen |-> turn]

\* Where a step leaves a process: where it was, done, at the start, or one step further.
Moved(q) ==
  \/ pc'[q] = pc[q] /\ job'[q] = job[q]
  \/ pc'[q] = "idle" /\ job'[q] = NoJob
  \/ \E c \in Controls : Loaded(q, c)
  \/ Stopping(q)
  \/ pc[q] = "sweep" /\ pc'[q] = "decide" /\ job'[q] = job[q]
  \/ Mutate(q)
  \/ Record(q)

\* What a step may do to the job of one request.
LEMMA JobStep ==
  ASSUME JobsTyped, [Next]_vars, NEW q \in Procs
  PROVE  Moved(q)
<1> USE DEF JobsTyped, Goto, Done
<1>1. ASSUME NEW p \in Procs,
             Drop(p) \/ Replay(p) \/ Refuse(p) \/ RecordRefused(p) \/ RecordFails(p) \/ Accept(p)
               \/ Conflict(p) \/ Close(p) \/ SettleFails(p) \/ StopEnds(p) \/ Reserve(p)
               \/ ReserveConflict(p) \/ ReserveFails(p) \/ Crash(p)
      PROVE  Moved(q)
  <2>1. Done(p)
    BY <1>1 DEF Drop, Replay, Refuse, RecordRefused, RecordFails, Accept, Conflict, Close,
       SettleFails, StopEnds, Reserve, ReserveConflict, ReserveFails, Crash
  <2> QED
    BY <2>1 DEF Moved
<1>2. ASSUME NEW p \in Procs, NEW c \in Controls, Load(p, c)
      PROVE  Moved(q)
  BY <1>2 DEF Load, Moved, Loaded
<1>3. ASSUME NEW p \in Procs, Stop(p)
      PROVE  Moved(q)
  BY <1>3 DEF Stop, Moved, Stopping
<1>4. ASSUME NEW p \in Procs, Sweep(p)
      PROVE  Moved(q)
  BY <1>4 DEF Sweep, Moved
<1>5. ASSUME NEW p \in Procs, Mutate(p)
      PROVE  Moved(q)
  <2>1. p # q => pc'[q] = pc[q] /\ job'[q] = job[q]
    BY <1>5 DEF Mutate
  <2> QED
    BY <1>5, <2>1 DEF Moved
<1>6. ASSUME NEW p \in Procs, Record(p)
      PROVE  Moved(q)
  <2>1. p # q => pc'[q] = pc[q] /\ job'[q] = job[q]
    BY <1>6 DEF Record
  <2> QED
    BY <1>6, <2>1 DEF Moved
<1>7. CASE Expire \/ NewMonth \/ EndSession \/ UNCHANGED vars
  BY <1>7 DEF Expire, NewMonth, EndSession, vars, Moved
<1> QED
  BY <1>1, <1>2, <1>3, <1>4, <1>5, <1>6, <1>7 DEF Next

\* The functions keep their domain.
LEMMA ProcessesStay ==
  ASSUME JobsTyped, [Next]_vars
  PROVE  /\ pc' = [p \in Procs |-> pc'[p]]
         /\ job' = [p \in Procs |-> job'[p]]
<1> USE DEF JobsTyped
<1>1. ASSUME NEW p \in Procs, NEW v, pc' = [pc EXCEPT ![p] = v], UNCHANGED job \/ Done(p)
      PROVE  pc' = [r \in Procs |-> pc'[r]] /\ job' = [r \in Procs |-> job'[r]]
  BY <1>1 DEF Done
<1>2. ASSUME NEW p \in Procs, Mutate(p) \/ Record(p) \/ Stop(p) \/ \E c \in Controls : Load(p, c)
      PROVE  pc' = [r \in Procs |-> pc'[r]] /\ job' = [r \in Procs |-> job'[r]]
  BY <1>2 DEF Load, Mutate, Record, Stop
<1>3. ASSUME NEW p \in Procs, Done(p) \/ Goto(p, "decide")
      PROVE  pc' = [r \in Procs |-> pc'[r]] /\ job' = [r \in Procs |-> job'[r]]
  BY <1>1, <1>3 DEF Done, Goto
<1>4. CASE UNCHANGED <<pc, job>>
  BY <1>4
<1> QED
  BY <1>2, <1>3, <1>4 DEF Next, vars, Drop, Sweep, Replay, Refuse, RecordRefused, RecordFails, Accept,
     Conflict, Close, SettleFails, StopEnds, Reserve, ReserveConflict, ReserveFails, Crash, Expire,
     NewMonth, EndSession

\* What Mutate and Record make of the process's job.
LEMMA Mutated ==
  ASSUME Typed, NEW p \in Procs, Mutate(p)
  PROVE  LET j == job[p] IN
         /\ j \in ControlJobs /\ job'[p] \in ControlJobs
         /\ job'[p].control = j.control /\ job'[p].seen = j.seen /\ job'[p].done = j.done
         /\ job'[p].task = j.seen.task /\ job'[p].month = month
         /\ job'[p].base = Len(Filed(j.seen.task, month))
         /\ pc'[p] = IF EventsOf(j.seen, j.control) = <<>> THEN "settle" ELSE "append"
<1>1. /\ job[p] \in ControlJobs /\ job[p].seen.task \in Nat /\ month \in Nat
      /\ pc[p] = "decide"
  BY DEF Mutate, Typed, JobsTyped, ControlJobs, TurnFiles, CountersTyped
<1>2. Len(Filed(job[p].seen.task, month)) \in Nat
  BY DEF Filed, Typed, LogsTyped
<1>3. job'[p] = [job[p] EXCEPT !.task = job[p].seen.task, !.month = month,
                               !.base = Len(Filed(job[p].seen.task, month))]
  BY DEF Mutate, Typed, JobsTyped
<1>4. pc'[p] = IF EventsOf(job[p].seen, job[p].control) = <<>> THEN "settle" ELSE "append"
  BY DEF Mutate, Typed, JobsTyped
<1> QED
  BY <1>1, <1>2, <1>3, <1>4 DEF ControlJobs

\* A recorded event is the next one of its control, of the task the control is about.
LEMMA RecordedStep ==
  ASSUME Typed, NEW p \in Procs, Record(p)
  PROVE  LET j == job[p] IN
         /\ j \in ControlJobs /\ job'[p] \in ControlJobs
         /\ job'[p].control = j.control /\ job'[p].seen = j.seen /\ job'[p].done = j.done + 1
         /\ job'[p].task = Target(p) /\ job'[p].month = j.month /\ job'[p].base = j.base
         /\ pc[p] = "append" /\ Fits(p) /\ Durable(p)
         /\ pc'[p] = IF j.done + 1 = Len(EventsOf(j.seen, j.control)) THEN "settle" ELSE "append"
<1>1. /\ job[p] \in ControlJobs /\ Len(logs) \in Nat
      /\ pc[p] = "append" /\ Fits(p) /\ Durable(p)
  BY DEF Record, Typed, JobsTyped, LogsTyped
<1>2. job'[p] = [job[p] EXCEPT !.done = job[p].done + 1, !.task = Target(p)]
  BY <1>1 DEF Record, Typed, JobsTyped, Target, ControlJobs
<1>3. pc'[p] = IF job[p].done + 1 = Len(EventsOf(job[p].seen, job[p].control))
               THEN "settle" ELSE "append"
  BY DEF Record, Typed, JobsTyped
<1>4. Target(p) \in Nat /\ job[p].done + 1 \in Nat
  BY <1>1 DEF Target, ControlJobs
<1> QED
  BY <1>1, <1>2, <1>3, <1>4 DEF ControlJobs

-----------------------------------------------------------------------------
\* The answers.
Told(c, task) == [id |-> c.id, tag |-> Tag(c), task |-> task]

\* A stored acceptance is told again.
Replayed(p) ==
  /\ pc[p] = "decide"
  /\ \E a \in Prior(job[p].seen, job[p].control) :
       /\ a.tag = Tag(job[p].control) /\ a.durable
       /\ answers' = answers \cup {Told(job[p].control, a.task)}
  /\ UNCHANGED <<turn, granted>>

\* A control is durably accepted: the turn remembers it, or is closed by it.
Granted(p) ==
  /\ pc[p] = "settle"
  /\ Settled(p) \/ (Closes(job[p].control) /\ Discard)
  /\ Note(p).durable
  /\ answers' = answers \cup {Told(job[p].control, Note(p).task)}
  /\ granted' = [granted EXCEPT ![job[p].control.id] = @ + 1]
  /\ pc'[p] = "idle"
  /\ UNCHANGED logs

\* An answer is given where a control is replayed or granted, nowhere else.
LEMMA AnswerStep ==
  ASSUME Typed, [Next]_vars
  PROVE  \/ UNCHANGED <<answers, granted>>
         \/ \E p \in Procs : Replayed(p)
         \/ \E p \in Procs : Granted(p)
<1>1. ASSUME NEW p \in Procs, Replay(p)
      PROVE  UNCHANGED <<answers, granted>> \/ Replayed(p)
  <2>1. PICK a \in Prior(job[p].seen, job[p].control) :
          IF a.tag = Tag(job[p].control) THEN Answer(job[p].control, a) ELSE UNCHANGED answers
    BY <1>1 DEF Replay
  <2> QED
    BY <1>1, <2>1 DEF Replay, Replayed, Answer, Told
<1>2. ASSUME NEW p \in Procs, Accept(p) \/ Close(p)
      PROVE  UNCHANGED <<answers, granted>> \/ Granted(p)
  <2>1. /\ pc[p] = "settle" /\ UNCHANGED logs
        /\ Settled(p) \/ (Closes(job[p].control) /\ Discard)
        /\ Answer(job[p].control, Note(p)) /\ Grant(Note(p)) /\ Done(p)
    BY <1>2 DEF Accept, Close, Settled, Swap, Note
  <2>2. granted \in [Ids -> Nat] /\ pc'[p] = "idle" /\ Note(p).id = job[p].control.id
    BY <2>1 DEF Typed, CountersTyped, JobsTyped, Done, Note, Accepted
  <2>3. CASE Note(p).durable
    BY <2>1, <2>2, <2>3 DEF Granted, Answer, Grant, Told
  <2>4. CASE ~Note(p).durable
    BY <2>1, <2>2, <2>4 DEF Answer, Grant
  <2> QED
    BY <2>3, <2>4
<1> QED
  BY <1>1, <1>2 DEF Next, vars, Load, Drop, Sweep, Refuse, Mutate, Record, RecordRefused,
     RecordFails, Conflict, SettleFails, Stop, StopEnds, Reserve, ReserveConflict, ReserveFails,
     Crash, Expire, NewMonth, EndSession

-----------------------------------------------------------------------------
\* The types are kept.
LEMMA CounterSteps ==
  ASSUME [Next]_vars
  PROVE  /\ expired' = expired \/ expired' = TRUE
         /\ month' = month \/ (month < MaxMonths /\ month' = month + 1)
         /\ UNCHANGED resumed \/ (resumed' = resumed + 1 /\ \E p \in Procs : Reserve(p))
         /\ calls' = calls \/ Called
         /\ faults' = faults \/ Fault
         /\ UNCHANGED settings \/ \E p \in Procs : Mutate(p)
<1> USE DEF Next, vars, Load, Drop, Sweep, Replay, Refuse, Record, RecordRefused,
            RecordFails, Accept, Conflict, Close, SettleFails, Stop, StopEnds,
            ReserveConflict, ReserveFails, Crash, Expire, NewMonth, EndSession, TryDiscard
<1>1. expired' = expired \/ expired' = TRUE
  BY DEF Mutate, Reserve
<1>2. month' = month \/ (month < MaxMonths /\ month' = month + 1)
  BY DEF Mutate, Reserve
<1>3. UNCHANGED resumed \/ (resumed' = resumed + 1 /\ \E p \in Procs : Reserve(p))
  <2>1. \A p \in Procs : Reserve(p) => resumed' = resumed + 1
    BY DEF Reserve
  <2> QED
    BY <2>1, ZenonT(60) DEF Mutate
<1>4. calls' = calls \/ Called
  BY ZenonT(60) DEF Mutate, Reserve
<1>5. faults' = faults \/ Fault
  BY ZenonT(60) DEF Mutate, Reserve
<1>6. UNCHANGED settings \/ \E p \in Procs : Mutate(p)
  BY ZenonT(60) DEF Reserve
<1> QED
  BY <1>1, <1>2, <1>3, <1>4, <1>5, <1>6

\* Counters keep their bounds; months and settings never run backwards.
LEMMA CountersNext ==
  ASSUME Typed, AllWorking, TurnOK, [Next]_vars
  PROVE  /\ CountersTyped'
         /\ month <= month'
         /\ \A i \in Ids : settings[i] <= settings'[i]
<1>1. /\ expired' \in BOOLEAN
      /\ month' \in 1..MaxMonths /\ month <= month'
      /\ resumed' \in Nat
      /\ calls' \in 0..MaxCalls
      /\ faults' \in 0..MaxFaults
  <2>1. /\ expired \in BOOLEAN /\ month \in 1..MaxMonths /\ resumed \in Nat
        /\ calls \in 0..MaxCalls /\ faults \in 0..MaxFaults
        /\ MaxMonths \in Nat /\ MaxCalls \in Nat /\ MaxFaults \in Nat
    BY CallBoundsAreNaturals DEF Typed, CountersTyped
  <2>2. /\ calls' = calls \/ (calls < MaxCalls /\ calls' = calls + 1)
        /\ faults' = faults \/ (faults < MaxFaults /\ faults' = faults + 1)
    BY CounterSteps DEF Called, Fault
  <2>3. calls' \in 0..MaxCalls /\ faults' \in 0..MaxFaults
    BY <2>1, <2>2
  <2>4. /\ expired' = expired \/ expired' = TRUE
        /\ month' = month \/ (month < MaxMonths /\ month' = month + 1)
        /\ resumed' = resumed \/ resumed' = resumed + 1
    BY CounterSteps
  <2>5. month' \in 1..MaxMonths /\ month <= month' /\ resumed' \in Nat
    BY <2>1, <2>4
  <2> QED
    BY <2>1, <2>3, <2>4, <2>5
<1>2. settings' \in [Ids -> Nat] /\ \A i \in Ids : settings[i] <= settings'[i]
  <2>1. settings \in [Ids -> Nat]
    BY DEF Typed, CountersTyped
  <2>2. ASSUME NEW p \in Procs, Mutate(p)
        PROVE  settings' \in [Ids -> Nat] /\ \A i \in Ids : settings[i] <= settings'[i]
    <3>1. PICK i \in Ids : \/ settings' = [settings EXCEPT ![i] = settings[i] + 1]
                           \/ settings' = [settings EXCEPT ![i] = settings[i]]
      <4>1. job[p].control.id \in Ids
        BY <2>2, Mutated DEF ControlJobs, Ids
      <4> QED
        BY <2>2, <4>1 DEF Mutate
    <3> QED
      BY <2>1, <3>1
  <2>3. CASE settings' = settings
    <3>1. \A i \in Ids : settings[i] \in Nat
      BY <2>1
    <3> QED
      BY <2>1, <2>3, <3>1
  <2> QED
    BY <2>2, <2>3, CounterSteps
<1>3. answers' \subseteq Given /\ granted' \in [Ids -> Nat]
  <2>1. answers \subseteq Given /\ granted \in [Ids -> Nat]
    BY DEF Typed, CountersTyped
  <2>2. ASSUME NEW c \in Controls, NEW task \in Nat
        PROVE  Told(c, task) \in Given
    BY DEF Told, Given, Ids, Tags
  <2>3. ASSUME NEW p \in Procs, Replayed(p)
        PROVE  answers' \subseteq Given /\ granted' \in [Ids -> Nat]
    <3>1. job[p].control \in Controls /\ job[p].seen \in TurnFiles
      BY <2>3 DEF Replayed, Typed, JobsTyped, ControlJobs
    <3>2. PICK a \in Prior(job[p].seen, job[p].control) :
            answers' = answers \cup {Told(job[p].control, a.task)}
      BY <2>3 DEF Replayed
    <3>3. a.task \in Nat
      BY <3>1 DEF Prior, TurnFiles, Remembered
    <3> QED
      BY <2>1, <2>2, <2>3, <3>1, <3>2, <3>3 DEF Replayed
  <2>4. ASSUME NEW p \in Procs, Granted(p)
        PROVE  answers' \subseteq Given /\ granted' \in [Ids -> Nat]
    <3>1. job[p].control \in Controls /\ Note(p).task \in Nat
      BY <2>4, Settler, NoteTyped DEF Granted, Remembered
    <3>2. answers' \subseteq Given
      BY <2>1, <2>2, <2>4, <3>1 DEF Granted
    <3>3. job[p].control.id \in Ids
      BY <3>1 DEF Ids
    <3>4. granted' = [granted EXCEPT ![job[p].control.id] = @ + 1]
      BY <2>4 DEF Granted
    <3> QED
      BY <2>1, <3>2, <3>3, <3>4
  <2> QED
    BY <2>1, <2>3, <2>4, AnswerStep
<1> QED
  BY <1>1, <1>2, <1>3 DEF CountersTyped

\* A step keeps the types of the turn.
LEMMA TurnTypedNext ==
  ASSUME Typed, AllWorking, TurnOK, [Next]_vars
  PROVE  TurnTyped'
<1>1. turn' \in TurnFiles
  BY TurnGrows DEF Grown
<1>2. turn \in TurnFiles /\ IsFiniteSet(turn.accepted)
  BY DEF Typed, TurnTyped
<1>3. CASE UNCHANGED turn \/ Discard \/ ReservedStep
  <2>1. turn'.accepted = turn.accepted
    BY <1>2, <1>3 DEF Discard, ReservedStep, TurnFiles
  <2> QED
    BY <1>1, <1>2, <2>1 DEF TurnTyped
<1>4. ASSUME NEW p \in Procs, Settled(p)
      PROVE  TurnTyped'
  <2>1. turn'.accepted = turn.accepted \cup {Note(p)}
    BY <1>4, AcceptedTurn
  <2> QED
    BY <1>1, <1>2, <2>1, FS_AddElement DEF TurnTyped
<1> QED
  BY <1>3, <1>4, TurnStep

\* A step keeps the types of the task logs.
LEMMA LogsTypedNext ==
  ASSUME Typed, AllWorking, TurnOK, [Next]_vars
  PROVE  LogsTyped'
<1>1. month <= month' /\ month \in Nat /\ month' \in Nat
  BY CountersNext DEF CountersTyped, Typed
<1>2. CASE UNCHANGED <<logs, opened>>
  BY <1>1, <1>2 DEF Typed, LogsTyped
<1>3. ASSUME NEW p \in Procs, pc[p] = "append", Fits(p), Durable(p)
      PROVE  LogsTyped'
  <2> Len(logs) \in Nat
    BY DEF Typed, LogsTyped
  <2>1. /\ logs' \in Seq(Seq(EntryRecords)) /\ opened' \in Seq(Nat) /\ Len(opened') = Len(logs')
        /\ Target(p) \in 1..Len(logs')
        /\ Len(logs') = IF job[p].task = 0 THEN Len(logs) + 1 ELSE Len(logs)
        /\ logs'[Target(p)] = Append(Log(job[p].task), NewEntry(p))
        /\ job[p].task = 0 => opened'[Target(p)] = job[p].month
        /\ \A t \in 1..Len(logs) : t # Target(p) => logs'[t] = logs[t]
        /\ \A t \in 1..Len(logs) : opened'[t] = opened[t]
    BY <1>3, Appended
  <2>2. Append(Log(job[p].task), NewEntry(p)) # <<>>
    <3>1. Log(job[p].task) \in Seq(EntryRecords) /\ NewEntry(p) \in EntryRecords
      BY <1>3, LogTyped, Appended DEF Typed
    <3>2. Len(Append(Log(job[p].task), NewEntry(p))) = Len(Log(job[p].task)) + 1
      BY <3>1, AppendOne
    <3> QED
      BY <3>1, <3>2
  <2>3. job[p].month \in 1..month
    BY <1>3 DEF AllWorking, Working, Admitted
  <2>4. \A t \in 1..Len(logs) : logs[t] # <<>> /\ opened[t] \in 1..month
    BY DEF Typed, LogsTyped
  <2>5. ASSUME NEW t \in 1..Len(logs')
        PROVE  logs'[t] # <<>> /\ opened'[t] \in 1..month'
    <3>1. CASE t \in 1..Len(logs)
      <4>1. opened'[t] \in 1..month'
        <5>1. opened'[t] = opened[t] /\ opened[t] \in 1..month
          BY <2>1, <2>4, <3>1
        <5> QED
          BY <1>1, <5>1
      <4>2. CASE t # Target(p)
        BY <2>1, <2>4, <3>1, <4>1, <4>2
      <4>3. CASE t = Target(p)
        BY <2>1, <2>2, <4>1, <4>3
      <4> QED
        BY <4>2, <4>3
    <3>2. CASE t \notin 1..Len(logs)
      <4>1. job[p].task = 0 /\ t = Target(p)
        BY <2>1, <2>5, <3>2 DEF Target
      <4> QED
        BY <1>1, <2>1, <2>2, <2>3, <4>1
    <3> QED
      BY <3>1, <3>2
  <2> QED
    BY <2>1, <2>5 DEF LogsTyped
<1> QED
  BY <1>2, <1>3, LogStep

\* A step keeps the types of the requests in progress.
LEMMA JobsTypedNext ==
  ASSUME Typed, AllWorking, TurnOK, [Next]_vars
  PROVE  JobsTyped'
<1> DEFINE Steps == {"idle", "drop", "sweep", "decide", "append", "settle", "verify"}
           Fine(k, j) == /\ k \in Steps
                         /\ j \in ControlJobs \cup StopJobs \cup {NoJob}
                         /\ k = "idle" => j = NoJob
                         /\ k \in {"drop", "sweep", "decide", "append", "settle"} => j \in ControlJobs
                         /\ k = "verify" => j \in StopJobs
<1>1. ASSUME NEW q \in Procs
      PROVE  Fine(pc'[q], job'[q])
  <2>1. Fine(pc[q], job[q]) /\ turn \in TurnFiles
    BY DEF Typed, JobsTyped, TurnTyped
  <2>2. CASE pc'[q] = "idle" /\ job'[q] = NoJob
    BY <2>2
  <2>3. ASSUME NEW c \in Controls, Loaded(q, c)
        PROVE  Fine(pc'[q], job'[q])
    BY <2>1, <2>3 DEF Loaded, ControlJobs
  <2>4. CASE Stopping(q)
    BY <2>1, <2>4 DEF Stopping, StopJobs
  <2>5. CASE pc[q] = "sweep" /\ pc'[q] = "decide" /\ job'[q] = job[q]
    BY <2>1, <2>5
  <2>6. CASE Mutate(q)
    BY <2>6, Mutated
  <2>7. CASE Record(q)
    BY <2>7, RecordedStep
  <2>8. CASE pc'[q] = pc[q] /\ job'[q] = job[q]
    BY <2>1, <2>8
  <2> QED
    BY <2>2, <2>3, <2>4, <2>5, <2>6, <2>7, <2>8, JobStep DEF Moved, Typed
<1>2. /\ pc' = [p \in Procs |-> pc'[p]]
      /\ job' = [p \in Procs |-> job'[p]]
  BY ProcessesStay DEF Typed
<1> QED
  BY <1>1, <1>2 DEF JobsTyped

\* A step keeps all types.
LEMMA TypedNext ==
  ASSUME Typed, AllWorking, TurnOK, [Next]_vars
  PROVE  Typed'
BY TurnTypedNext, LogsTypedNext, JobsTypedNext, CountersNext DEF Typed

-----------------------------------------------------------------------------
\* What the turn remembers stays in order.
LEMMA TurnOKNext ==
  ASSUME Typed, AllWorking, TurnOK, [Next]_vars
  PROVE  TurnOK'
<1>1. /\ turn \in TurnFiles /\ IsFiniteSet(turn.accepted) /\ turn' \in TurnFiles
      /\ Len(logs) \in Nat /\ Len(logs') \in Nat /\ Len(logs) <= Len(logs')
      /\ WellFormed(turn') /\ turn'.task \in Nat /\ turn'.task <= Len(logs)
  BY LogsGrow, TurnGrows, TypedNext DEF Typed, TurnTyped, LogsTyped, Longer, Grown, TurnFiles
<1>2. turn'.task <= Len(logs')
  BY <1>1
<1>3. /\ Cardinality(turn.accepted) <= MaxAccepted
      /\ \A a, b \in turn.accepted : a.id = b.id => a = b
      /\ \A a \in turn.accepted :
           /\ a.task \in Nat /\ a.task <= Len(logs)
           /\ a.tag[1] \notin ClosingTypes
           /\ a.durable /\ a.tag[1] # "feedback" => turn.task # 0
  BY <1>1 DEF TurnOK, TurnFiles, Remembered
<1>4. turn.task # 0 => turn'.task # 0
  BY TurnGrows DEF Grown
<1>5. CASE turn'.accepted = turn.accepted
  <2>1. \A a \in turn.accepted : a.task <= Len(logs')
    BY <1>1, <1>3
  <2> QED
    BY <1>1, <1>2, <1>3, <1>4, <1>5, <2>1 DEF TurnOK
<1>6. ASSUME NEW p \in Procs, Settled(p)
      PROVE  TurnOK'
  <2>1. turn'.accepted = turn.accepted \cup {Note(p)} /\ turn'.task = job[p].task
    BY <1>6, AcceptedTurn
  <2>2. /\ job[p].control.type \in Types /\ ~Closes(job[p].control)
        /\ Admitted(p) /\ turn = job[p].seen
        /\ Recorded(turn, job[p].control) /\ job[p].control.type # "feedback" => job[p].task # 0
    BY <1>6, Settler DEF Settled
  <2>3. Cardinality(turn.accepted) < MaxAccepted /\ \A a \in turn.accepted : a.id # job[p].control.id
    BY <2>2 DEF Admitted, Prior
  <2>4. Cardinality(turn'.accepted) <= MaxAccepted
    <3>1. /\ Cardinality(turn.accepted) \in Nat /\ MaxAccepted \in Nat
          /\ Cardinality(turn'.accepted) \in {Cardinality(turn.accepted), Cardinality(turn.accepted) + 1}
      BY <1>1, <2>1, FS_AddElement, FS_CardinalityType, CallBoundsAreNaturals
    <3> QED
      BY <2>3, <3>1
  <2>5. /\ Note(p).id = job[p].control.id /\ Note(p).task \in 0..Len(logs)
        /\ Note(p).tag[1] = job[p].control.type
        /\ Note(p).durable = (Recorded(turn, job[p].control) \/ job[p].control.type = "feedback")
    BY <1>6, <2>2, NoteTyped DEF Settled
  <2>6. \A a, b \in turn'.accepted : a.id = b.id => a = b
    BY <1>3, <2>1, <2>3, <2>5
  <2>7. ASSUME NEW a \in turn'.accepted
        PROVE  /\ a.task <= Len(logs')
               /\ a.tag[1] \notin ClosingTypes
               /\ a.durable /\ a.tag[1] # "feedback" => turn'.task # 0
    <3>1. CASE a \in turn.accepted
      BY <1>1, <1>3, <1>4, <3>1
    <3>2. CASE a = Note(p)
      <4>1. a.task <= Len(logs')
        BY <1>1, <2>5, <3>2
      <4>2. a.tag[1] \notin ClosingTypes
        BY <2>2, <2>5, <3>2 DEF Closes, ClosingTypes
      <4>3. a.durable /\ a.tag[1] # "feedback" => turn'.task # 0
        BY <2>1, <2>2, <2>5, <3>2
      <4> QED
        BY <4>1, <4>2, <4>3
    <3> QED
      BY <2>1, <2>7, <3>1, <3>2
  <2> QED
    BY <1>1, <1>2, <2>4, <2>6, <2>7 DEF TurnOK
<1>7. CASE UNCHANGED turn \/ Discard \/ ReservedStep
  BY <1>1, <1>5, <1>7 DEF Discard, ReservedStep, TurnFiles
<1> QED
  BY <1>6, <1>7, TurnStep

-----------------------------------------------------------------------------
\* What a process saw and wrote stays true.
LEMMA LogLonger ==
  ASSUME Typed, AllWorking, TurnOK, [Next]_vars, NEW t
  PROVE  /\ Len(Log(t)) \in Nat /\ Len(Log(t)') \in Nat
         /\ Len(Log(t)) <= Len(Log(t)')
         /\ \A i \in 1..Len(Log(t)) : Log(t)'[i] = Log(t)[i]
         /\ Rank[Projection(Log(t)).state] <= Rank[Projection(Log(t)').state]
         /\ Rank[Projection(Log(t)).state] \in Nat /\ Rank[Projection(Log(t)').state] \in Nat
         /\ Projection(Log(t)).state \in Final => Log(t)' = Log(t)
<1>1. Longer /\ LogsTyped /\ LogsTyped' /\ Len(logs) \in Nat /\ Len(logs') \in Nat
  <2>1. Longer /\ LogsTyped /\ LogsTyped'
    BY LogsGrow, TypedNext DEF Typed
  <2> QED
    BY <2>1 DEF LogsTyped
<1>2. Log(t) \in Seq(EntryRecords) /\ Log(t)' \in Seq(EntryRecords)
  BY <1>1 DEF Log, LogsTyped
<1>3. /\ Len(Log(t)) \in Nat /\ Len(Log(t)') \in Nat
      /\ Rank[Projection(Log(t)).state] \in Nat /\ Rank[Projection(Log(t)').state] \in Nat
  BY <1>2, ProjectionTyped, RankTyped
<1>4. CASE t \in 1..Len(logs)
  <2>1. Log(t) = logs[t] /\ Log(t)' = logs'[t]
    BY <1>1, <1>4 DEF Log, Longer
  <2> QED
    BY <1>1, <1>3, <1>4, <2>1 DEF Longer
<1>5. CASE t \notin 1..Len(logs)
  <2>1. Log(t) = <<>> /\ Len(Log(t)) = 0
    BY <1>5 DEF Log
  <2>2. Projection(Log(t)).state = "new"
    BY <2>1 DEF Projection, NewTask
  <2>3. Rank["new"] = 0 /\ "new" \notin Final
    BY DEF Rank, Final
  <2> QED
    BY <1>3, <2>1, <2>2, <2>3
<1> QED
  BY <1>4, <1>5

\* What a process saw of the turn stays true of it.
LEMMA RecalledNext ==
  ASSUME Typed, AllWorking, TurnOK, [Next]_vars, NEW q \in Procs, pc'[q] # "idle"
  PROVE  Recalled(q)'
<1>1. Grown /\ turn \in TurnFiles
  BY TurnGrows DEF Typed, TurnTyped
<1>2. CASE pc[q] # "idle" /\ job'[q].seen = job[q].seen
  <2>1. Recalled(q)
    BY <1>2 DEF AllWorking, Working
  <2>2. job[q].seen \in TurnFiles
    BY <1>2 DEF Typed, JobsTyped, ControlJobs, StopJobs
  <2>3. job[q].seen.repairs \in {0, 1} /\ turn.repairs \in {0, 1} /\ turn'.repairs \in {0, 1}
    BY <1>1, <2>2 DEF Grown, TurnFiles
  <2> QED
    BY <1>1, <1>2, <2>1, <2>3 DEF Recalled, Grown
<1>3. CASE job'[q].seen = turn /\ turn.exists /\ UNCHANGED turn
  <2>1. turn.repairs \in {0, 1} /\ WellFormed(turn) /\ turn.repairs <= turn.repairs
    BY <1>1 DEF TurnFiles, TurnOK
  <2>2. PICK t : t = turn
    OBVIOUS
  <2>3. job'[q].seen = t /\ turn' = t /\ t.exists /\ t.repairs <= t.repairs /\ WellFormed(t)
    BY <1>3, <2>1, <2>2
  <2> QED
    BY <2>3 DEF Recalled, WellFormed
<1>4. CASE Mutate(q) \/ Record(q)
  BY <1>2, <1>4, Mutated, RecordedStep DEF Mutate
<1>5. CASE (\E c \in Controls : Loaded(q, c)) \/ Stopping(q)
  <2>1. ASSUME NEW c \in Controls, Loaded(q, c)
        PROVE  job'[q].seen = turn /\ turn.exists /\ UNCHANGED turn
    BY <2>1 DEF Loaded
  <2>2. Stopping(q) => job'[q].seen = turn /\ turn.exists /\ UNCHANGED turn
    BY DEF Stopping
  <2> QED
    BY <1>3, <1>5, <2>1, <2>2
<1> QED
  BY <1>2, <1>4, <1>5, JobStep DEF Moved, Typed

\* A control that is admitted stays so.
LEMMA AdmittedNext ==
  ASSUME Typed, AllWorking, TurnOK, [Next]_vars, NEW q \in Procs, pc'[q] \in {"append", "settle"}
  PROVE  Admitted(q)'
<1>1. /\ month <= month' /\ month \in Nat /\ month' \in Nat
      /\ \A i \in Ids : settings[i] \in Nat /\ settings'[i] \in Nat /\ settings[i] <= settings'[i]
  BY CountersNext DEF Typed, CountersTyped
<1>2. CASE /\ pc[q] \in {"append", "settle"}
           /\ job'[q].control = job[q].control /\ job'[q].seen = job[q].seen
           /\ job'[q].month = job[q].month
  <2>1. Admitted(q) /\ job[q].control.id \in Ids
    BY <1>2 DEF AllWorking, Working, Typed, JobsTyped, ControlJobs, Ids
  <2>2. job[q].month \in 1..month'
    BY <1>1, <2>1 DEF Admitted
  <2>3. job[q].control.type = "feedback" => settings'[job[q].control.id] >= 1
    BY <1>1, <2>1 DEF Admitted
  <2> QED
    BY <1>2, <2>1, <2>2, <2>3 DEF Admitted
<1>3. CASE Mutate(q)
  <2>1. /\ job'[q].control = job[q].control /\ job'[q].seen = job[q].seen
        /\ job'[q].month = month /\ job[q].control.id \in Ids
    BY <1>3, Mutated DEF ControlJobs, Ids
  <2>2. month' = month /\ month \in 1..month
    BY <1>1, <1>3 DEF Mutate, Typed, CountersTyped
  <2>3. job[q].control.type = "feedback" => settings'[job[q].control.id] >= 1
    <3>1. settings' = [settings EXCEPT ![job[q].control.id] =
                         IF job[q].control.type = "feedback" THEN @ + 1 ELSE @]
      BY <1>3 DEF Mutate
    <3>2. settings \in [Ids -> Nat]
      BY DEF Typed, CountersTyped
    <3> QED
      BY <2>1, <3>1, <3>2
  <2> QED
    BY <1>3, <2>1, <2>2, <2>3 DEF Mutate, Admitted
<1>4. CASE Record(q)
  BY <1>2, <1>4, RecordedStep
<1> QED
  BY <1>2, <1>3, <1>4, JobStep DEF Moved, Typed, Loaded, Stopping

\* Its place and what it wrote are kept, by the steps of the others and its own.
Standing(q) ==
  /\ Placed(q) /\ Written(q) /\ Advanced(q)
  /\ pc[q] = "append" => job[q].done < Len(EventsOf(job[q].seen, job[q].control))
  /\ pc[q] = "settle" => job[q].done = Len(EventsOf(job[q].seen, job[q].control))

\* A request that waits keeps what it relies on, whatever the others do.
LEMMA StandingStill ==
  ASSUME Typed, AllWorking, TurnOK, [Next]_vars, NEW q \in Procs,
         pc[q] \in {"append", "settle"}, pc'[q] = pc[q], job'[q] = job[q]
  PROVE  Standing(q)'
<1>1. /\ Placed(q) /\ Written(q) /\ Advanced(q) /\ job[q] \in ControlJobs
      /\ pc[q] = "append" => job[q].done < Len(EventsOf(job[q].seen, job[q].control))
      /\ pc[q] = "settle" => job[q].done = Len(EventsOf(job[q].seen, job[q].control))
  BY DEF AllWorking, Working, Typed, JobsTyped
<1>2. Longer /\ Len(logs) \in Nat /\ Len(logs') \in Nat
  BY LogsGrow, TypedNext DEF Typed, LogsTyped
<1>3. Placed(q)'
  BY <1>1, <1>2 DEF Placed, Longer
<1>4. PICK j : j = job[q]
  OBVIOUS
<1>5. job'[q] = j /\ j.base \in Nat /\ j.done \in Nat
  BY <1>1, <1>4 DEF ControlJobs
<1>6. Written(q)'
  <2>1. ASSUME NEW i \in 1..j.done
        PROVE  /\ j.base + i <= Len(Log(j.task)')
               /\ Log(j.task)'[j.base + i].event = EventsOf(j.seen, j.control)[i]
               /\ Log(j.task)'[j.base + i].by = j.control.id
    <3>1. /\ j.base + i \in 1..Len(Log(j.task))
          /\ Log(j.task)[j.base + i].event = EventsOf(j.seen, j.control)[i]
          /\ Log(j.task)[j.base + i].by = j.control.id
      BY <1>1, <1>4, <1>5, LogLonger DEF Written
    <3> QED
      BY <1>5, <3>1, LogLonger
  <2> QED
    BY <1>5, <2>1 DEF Written
<1>7. Advanced(q)'
  <2>1. ASSUME j.done > 0, j.control.type \in DOMAIN MoveTo
        PROVE  Rank[MoveTo[j.control.type]] <= Rank[Projection(Log(j.task)').state]
    <3>1. Rank[MoveTo[j.control.type]] <= Rank[Projection(Log(j.task)).state]
      BY <1>1, <1>4, <2>1 DEF Advanced
    <3>2. Rank[MoveTo[j.control.type]] \in Nat
      BY <2>1 DEF MoveTo, Rank
    <3> QED
      BY <3>1, <3>2, LogLonger
  <2> QED
    BY <1>5, <2>1 DEF Advanced
<1> QED
  BY <1>1, <1>3, <1>6, <1>7 DEF Standing

\* A control that starts to write has written nothing yet.
LEMMA StandingFirst ==
  ASSUME Typed, AllWorking, TurnOK, [Next]_vars, NEW q \in Procs, Mutate(q)
  PROVE  Standing(q)'
<1>1. /\ job[q] \in ControlJobs /\ job'[q] \in ControlJobs
      /\ job'[q].control = job[q].control /\ job'[q].seen = job[q].seen
      /\ job'[q].done = job[q].done /\ job'[q].task = job[q].seen.task
      /\ job'[q].base = Len(Filed(job[q].seen.task, month))
      /\ pc'[q] = IF EventsOf(job[q].seen, job[q].control) = <<>> THEN "settle" ELSE "append"
  BY Mutated
<1>2. /\ Recalled(q) /\ job[q].done = 0 /\ job[q].control \in Controls
      /\ job[q].seen.phase \in LegalIn[job[q].control.type]
  BY <1>1 DEF Mutate, AllWorking, Working, ControlJobs
<1>3. job[q].control.type = "begin" => job[q].seen.task = 0 /\ Filed(job[q].seen.task, month) = <<>>
  BY <1>2 DEF LegalIn, Recalled, WellFormed, Filed
<1>4. Placed(q)'
  BY <1>1, <1>2, <1>3 DEF Placed
<1>5. job'[q].done = 0
  BY <1>1, <1>2
<1>6. Written(q)' /\ Advanced(q)'
  BY <1>5 DEF Written, Advanced
<1>7. EventsOf(job[q].seen, job[q].control) \in Seq(Recordable)
  BY <1>2, EventsTyped
<1>8. PICK es : es = EventsOf(job[q].seen, job[q].control)
  OBVIOUS
<1>9. EventsOf(job'[q].seen, job'[q].control) = es /\ es \in Seq(Recordable)
      /\ pc'[q] = IF es = <<>> THEN "settle" ELSE "append"
  BY <1>1, <1>7, <1>8
<1>10. /\ pc'[q] = "append" => job'[q].done < Len(es)
       /\ pc'[q] = "settle" => job'[q].done = Len(es)
  BY <1>5, <1>9
<1> QED
  BY <1>4, <1>6, <1>9, <1>10 DEF Standing

\* The first event of a control that moves the turn moves the record as far.
LEMMA FirstAdvances ==
  ASSUME NEW t, NEW c \in Controls, EventsOf(t, c) # <<>>, c.type \in DOMAIN MoveTo,
         NEW r \in Projections, Applicable(r, EventsOf(t, c)[1])
  PROVE  Apply(r, EventsOf(t, c)[1]).state = MoveTo[c.type]
<1>1. Recorded(t, c) /\ EventsOf(t, c)[1] \in Recordable
  BY EventsTyped
<1>2. EventsOf(t, c)[1] = PublicEvents[c.type][1]
  BY <1>1 DEF EventsOf
<1>3. c.type \in {"begin", "framing", "conflict", "revise", "exam", "hold", "cancel"}
  BY DEF MoveTo
<1>4. LET e == PublicEvents[c.type][1] IN
      IF c.type = "begin" THEN e.type = "task_started" /\ MoveTo[c.type] = "framing"
      ELSE e.type \in DOMAIN MovesTo /\ MovesTo[e.type] = MoveTo[c.type]
  BY <1>3 DEF PublicEvents, BeginEvents, FramingEvents, ConflictEvents, ReviseEvents,
     CrossExamEvents, HoldEvents, CancelEvents, Event, MoveTo, MovesTo
<1> QED
  BY <1>1, <1>2, <1>4, RecordAdvances

\* It appends one more event, right behind those it has written.
LEMMA StandingFurther ==
  ASSUME Typed, AllWorking, TurnOK, [Next]_vars, NEW q \in Procs, Record(q)
  PROVE  Standing(q)'
<1>1. /\ job[q] \in ControlJobs /\ job'[q] \in ControlJobs
      /\ job'[q].control = job[q].control /\ job'[q].seen = job[q].seen
      /\ job'[q].done = job[q].done + 1 /\ job'[q].base = job[q].base
      /\ job'[q].task = Target(q) /\ job'[q].month = job[q].month
      /\ pc[q] = "append" /\ Fits(q) /\ Durable(q)
      /\ pc'[q] = IF job[q].done + 1 = Len(EventsOf(job[q].seen, job[q].control))
                  THEN "settle" ELSE "append"
  BY RecordedStep
<1>2. PICK j, T, ls, e, es : /\ j = job[q] /\ T = Target(q) /\ ls = Log(job[q].task) /\ e = Current(q)
                             /\ es = EventsOf(job[q].seen, job[q].control)
  OBVIOUS
<1>3. /\ j \in ControlJobs /\ j.control \in Controls /\ j.control.id \in Ids
      /\ j.base \in Nat /\ j.done \in Nat /\ j.task \in Nat
      /\ es \in Seq(Recordable) /\ Len(es) \in Nat /\ es = EventsOf(j.seen, j.control)
      /\ e \in Recordable /\ e = es[j.done + 1] /\ j.done + 1 \in 1..Len(es)
      /\ Recorded(j.seen, j.control)
  <2>1. j \in ControlJobs /\ j.control \in Controls
    BY <1>1, <1>2 DEF ControlJobs
  <2>2. es \in Seq(Recordable) /\ es = EventsOf(j.seen, j.control)
    BY <1>2, <2>1, EventsTyped
  <2>3. e \in Recordable /\ Recorded(j.seen, j.control) /\ j.done + 1 \in 1..Len(es) /\ e = es[j.done + 1]
    BY <1>1, <1>2, Writer DEF Current
  <2> QED
    BY <2>1, <2>2, <2>3 DEF ControlJobs, Ids
<1>4. /\ ls \in Seq(EntryRecords) /\ Len(ls) = j.base + j.done
      /\ Applicable(Projection(ls), e)
  BY <1>1, <1>2, Fitting, LogTyped DEF Typed
<1>5. /\ T \in 1..Len(logs') /\ logs'[T] = Append(ls, Entry(ls, e, j.control.id))
      /\ j.task = 0 => opened'[T] = j.month
      /\ j.task # 0 => T = j.task
      /\ \A t \in 1..Len(logs) : opened'[t] = opened[t]
      /\ j.task \in 0..Len(logs) /\ Len(logs) \in Nat
  <2>1. NewEntry(q) = Entry(ls, e, j.control.id)
    BY <1>2 DEF NewEntry
  <2>2. /\ T \in 1..Len(logs') /\ logs'[T] = Append(ls, NewEntry(q))
        /\ j.task = 0 => opened'[T] = j.month
        /\ \A t \in 1..Len(logs) : opened'[t] = opened[t]
    BY <1>1, <1>2, Appended
  <2>3. j.task \in 0..Len(logs) /\ Len(logs) \in Nat
    BY <1>1, <1>2, Writer DEF Typed, LogsTyped
  <2>4. T = IF j.task = 0 THEN Len(logs) + 1 ELSE j.task
    BY <1>2 DEF Target
  <2> QED
    BY <2>1, <2>2, <2>3, <2>4
<1>6. PICK more : more = Append(ls, Entry(ls, e, j.control.id))
  OBVIOUS
<1>7. /\ more \in Seq(EntryRecords)
      /\ Len(more) = j.base + j.done + 1
      /\ \A i \in 1..Len(ls) : more[i] = ls[i]
      /\ more[j.base + j.done + 1].event = e /\ more[j.base + j.done + 1].by = j.control.id
      /\ Projection(more) = Apply(Projection(ls), e)
      /\ Rank[Projection(ls).state] <= Rank[Projection(more).state]
  BY <1>3, <1>4, <1>6, OneMore
<1>8. Log(T)' = more
  BY <1>5, <1>6 DEF Log
<1>9. job'[q].seen = j.seen /\ job'[q].control = j.control /\ job'[q].base = j.base
      /\ job'[q].task = T /\ job'[q].done = j.done + 1 /\ job'[q].month = j.month
  BY <1>1, <1>2
<1>10. Placed(q)'
  <2>1. CASE j.control.type = "begin"
    <3>1. /\ j.base = 0 /\ (j.done = 0 <=> j.task = 0)
          /\ j.task # 0 => opened[j.task] = j.month
      BY <1>1, <1>2, <1>3, <2>1 DEF AllWorking, Working, Placed
    <3>2. opened'[T] = j.month /\ T # 0
      BY <1>5, <3>1
    <3> QED
      BY <1>3, <1>5, <1>9, <2>1, <3>1, <3>2 DEF Placed
  <2>2. CASE j.control.type # "begin"
    <3>1. j.task = j.seen.task /\ j.task # 0
      BY <1>1, <1>2, <2>2, Writer DEF AllWorking, Working, Placed
    <3> QED
      BY <1>5, <1>9, <2>2, <3>1 DEF Placed
  <2> QED
    BY <2>1, <2>2
<1>11. Written(q)'
  <2>1. ASSUME NEW i \in 1..(j.done + 1)
        PROVE  /\ j.base + i <= Len(more)
               /\ more[j.base + i].event = es[i]
               /\ more[j.base + i].by = j.control.id
    <3>1. j.base + i <= Len(more) /\ i \in Nat
      BY <1>3, <1>7
    <3>2. CASE i = j.done + 1
      <4>1. j.base + i = j.base + j.done + 1
        BY <1>3, <3>2
      <4>2. es[i] = e
        BY <1>3, <3>2
      <4> QED
        BY <1>7, <3>1, <4>1, <4>2
    <3>3. CASE i # j.done + 1
      <4>1. i \in 1..j.done /\ j.base + i \in 1..Len(ls)
        BY <1>3, <1>4, <3>3
      <4>2. ls[j.base + i].event = es[i] /\ ls[j.base + i].by = j.control.id
        BY <1>1, <1>2, <4>1 DEF AllWorking, Working, Written
      <4> QED
        BY <1>7, <3>1, <4>1, <4>2
    <3> QED
      BY <3>2, <3>3
  <2> QED
    BY <1>3, <1>9, <1>8, <2>1 DEF Written
<1>12. Advanced(q)'
  <2>1. ASSUME j.control.type \in DOMAIN MoveTo
        PROVE  Rank[MoveTo[j.control.type]] <= Rank[Projection(more).state]
    <3>1. /\ Projection(more) = Apply(Projection(ls), e)
          /\ Rank[Projection(ls).state] <= Rank[Projection(more).state]
      BY <1>7
    <3>2. Rank[MoveTo[j.control.type]] \in Nat
      BY <2>1 DEF MoveTo, Rank
    <3>3. Projection(ls) \in Projections
      BY <1>4, ProjectionTyped
    <3>4. Projection(more) \in Projections
      BY <1>3, <1>4, <3>1, <3>3, ApplyTyped, RecordableAreEvents
    <3>5. CASE j.done = 0
      <4>1. es # <<>> /\ e = es[1]
        BY <1>3, <3>5
      <4>2. Projection(more).state = MoveTo[j.control.type]
        BY <1>3, <1>4, <2>1, <3>1, <3>3, <4>1, FirstAdvances
      <4> QED
        BY <3>2, <4>2
    <3>6. CASE j.done # 0
      <4>1. Rank[MoveTo[j.control.type]] <= Rank[Projection(ls).state]
        BY <1>1, <1>2, <1>3, <2>1, <3>6 DEF AllWorking, Working, Advanced
      <4> QED
        BY <3>1, <3>2, <3>3, <3>4, <4>1, RankTyped
    <3> QED
      BY <3>5, <3>6
  <2> QED
    BY <1>9, <1>8, <2>1 DEF Advanced
<1>13. /\ pc'[q] = "append" => job'[q].done < Len(es)
       /\ pc'[q] = "settle" => job'[q].done = Len(es)
  BY <1>1, <1>2, <1>3, <1>9
<1>14. EventsOf(job'[q].seen, job'[q].control) = es
  BY <1>3, <1>9
<1> QED
  BY <1>10, <1>11, <1>12, <1>13, <1>14 DEF Standing

\* A step keeps what every request in progress relies on.
LEMMA WorkingNext ==
  ASSUME Typed, AllWorking, TurnOK, [Next]_vars
  PROVE  AllWorking'
<1>1. ASSUME NEW q \in Procs
      PROVE  Working(q)'
  <2>1. pc'[q] # "idle" => Recalled(q)'
    BY RecalledNext
  <2>2. pc'[q] \in {"append", "settle"} => Admitted(q)'
    BY AdmittedNext
  <2>3. pc'[q] \in {"append", "settle"} => Standing(q)'
    <3>1. SUFFICES ASSUME pc'[q] \in {"append", "settle"}
                   PROVE  Standing(q)'
      OBVIOUS
    <3>2. Mutate(q) \/ Record(q) \/ (pc'[q] = pc[q] /\ job'[q] = job[q])
      BY <3>1, JobStep DEF Moved, Loaded, Stopping, Typed
    <3> QED
      BY <3>1, <3>2, StandingStill, StandingFirst, StandingFurther
  <2>4. pc'[q] \in {"drop", "sweep", "decide"} => job'[q].done = 0
    <3>1. pc[q] \in {"drop", "sweep", "decide"} => job[q].done = 0
      BY DEF AllWorking, Working
    <3>2. Mutate(q) => pc'[q] \in {"append", "settle"}
      BY Mutated DEF Typed
    <3>3. Record(q) => pc'[q] \in {"append", "settle"}
      BY RecordedStep
    <3>4. ASSUME NEW c \in Controls, Loaded(q, c)
          PROVE  job'[q].done = 0
      BY <3>4 DEF Loaded
    <3>5. Stopping(q) => pc'[q] = "verify"
      BY DEF Stopping
    <3> QED
      BY <3>1, <3>2, <3>3, <3>4, <3>5, JobStep DEF Moved, Typed
  <2> QED
    BY <2>1, <2>2, <2>3, <2>4 DEF Working, Standing
<1> QED
  BY <1>1 DEF AllWorking

-----------------------------------------------------------------------------
\* A task is ended once.

\* The events that end a task, and what they make of its record.
LEMMA ClosingEvents ==
  ASSUME NEW t, NEW c \in Controls, Closes(c), Recorded(t, c)
  PROVE  /\ Len(EventsOf(t, c)) = 1
         /\ \A r \in Projections : Applicable(r, EventsOf(t, c)[1]) =>
              Apply(r, EventsOf(t, c)[1]).state \in Final
<1>1. c.type \in {"hold", "cancel"}
  BY DEF Closes
<1>2. Len(EventsOf(t, c)) = 1
  BY <1>1 DEF EventsOf, PublicEvents, HoldEvents, CancelEvents
<1>3. c.type \in DOMAIN MoveTo /\ MoveTo[c.type] \in Final
  BY <1>1 DEF MoveTo, Final
<1> QED
  BY <1>2, <1>3, FirstAdvances

\* The turn's task stays, once it has one; and a final record stays final.
LEMMA FinalStays ==
  ASSUME Typed, AllWorking, TurnOK, [Next]_vars, IsFinal
  PROVE  IsFinal' /\ turn'.task = turn.task /\ Log(turn.task)' = Log(turn.task)
<1>1. PICK t : t = turn.task
  OBVIOUS
<1>2. Projection(Log(t)).state \in Final
  BY <1>1 DEF IsFinal
<1>3. t # 0
  BY <1>2 DEF Log, Projection, NewTask, Final
<1>4. turn'.task = t
  BY <1>1, <1>3, TurnGrows DEF Grown
<1>5. Log(t)' = Log(t)
  BY <1>2, LogLonger
<1>6. Log(turn.task)' = Log(t)'
  BY <1>4 DEF Log
<1> QED
  BY <1>1, <1>2, <1>4, <1>5, <1>6 DEF IsFinal

\* A process that becomes an ender found the task open, and ended it.
LEMMA NewEnder ==
  ASSUME Typed, AllWorking, TurnOK, [Next]_vars, NEW q \in Procs, Ender(q)', ~Ender(q)
  PROVE  /\ ~IsFinal
         /\ IsFinal'
         /\ Record(q)
         /\ UNCHANGED <<turn, answers>>
         /\ \A p \in Procs \ {q} : pc'[p] = pc[p] /\ job'[p] = job[p]
<1>1. pc'[q] = "settle"
  BY DEF Ender
<1>2. ~(pc'[q] = pc[q] /\ job'[q] = job[q])
  BY DEF Ender
<1>3. Mutate(q) \/ Record(q)
  BY <1>1, <1>2, JobStep DEF Moved, Loaded, Stopping, Typed
<1>4. PICK c, t : c = job'[q].control /\ t = job'[q].seen
  OBVIOUS
<1>5. Closes(c) /\ Recorded(t, c)
  BY <1>4 DEF Ender
<1>6. c = job[q].control /\ t = job[q].seen /\ c \in Controls
  BY <1>3, <1>4, Mutated, RecordedStep DEF ControlJobs
<1>7. Len(EventsOf(t, c)) = 1
  BY <1>5, <1>6, ClosingEvents
<1>8. ~Mutate(q)
  <2>1. Mutate(q) => EventsOf(t, c) = <<>>
    BY <1>1, <1>6, Mutated
  <2> QED
    BY <1>7, <2>1
<1>9. /\ pc[q] = "append" /\ Fits(q) /\ Durable(q) /\ job'[q].done = job[q].done + 1
      /\ job[q].done + 1 = Len(EventsOf(t, c)) /\ job[q].done \in Nat
  BY <1>1, <1>3, <1>6, <1>8, RecordedStep DEF ControlJobs
<1>10. job[q].done = 0 /\ Current(q) = EventsOf(t, c)[1]
  BY <1>6, <1>7, <1>9 DEF Current
<1>11. PICK k : k = job[q].task
  OBVIOUS
<1>12. k = turn.task /\ k # 0 /\ k = Target(q)
  <2>1. job[q].control.type # "begin"
    BY <1>5, <1>6 DEF Closes
  <2> QED
    BY <1>9, <1>11, <2>1, Writer DEF Target
<1>13. Projection(Log(k)) \in Projections /\ Applicable(Projection(Log(k)), Current(q))
  BY <1>9, <1>11, Fitting, LogTyped, ProjectionTyped DEF Typed
<1>14. Current(q) \in Recordable
  BY <1>9, Writer
<1>15. ~IsFinal
  BY <1>12, <1>13, <1>14, RecordAdvances DEF IsFinal
<1>16. UNCHANGED <<turn, answers>>
  BY <1>3, <1>8 DEF Record
<1>17. Log(k)' = Append(Log(k), Entry(Log(k), Current(q), c.id))
  <2>1. k \in 1..Len(logs') /\ logs'[k] = Append(Log(k), NewEntry(q))
    BY <1>9, <1>11, <1>12, Appended
  <2> QED
    BY <1>6, <1>11, <2>1 DEF Log, NewEntry
<1>18. Projection(Log(k)') = Apply(Projection(Log(k)), Current(q))
  <2>1. Log(k) \in Seq(EntryRecords) /\ c.id \in Ids
    BY <1>6, LogTyped DEF Typed, Ids
  <2> QED
    BY <1>13, <1>14, <1>17, <2>1, OneMore
<1>19. Projection(Log(k)').state \in Final
  BY <1>5, <1>6, <1>10, <1>13, <1>18, ClosingEvents
<1>20. IsFinal'
  BY <1>12, <1>16, <1>19 DEF IsFinal
<1>21. \A p \in Procs \ {q} : pc'[p] = pc[p] /\ job'[p] = job[p]
  BY <1>3, <1>8 DEF Record, Typed, JobsTyped
<1> QED
  BY <1>3, <1>8, <1>15, <1>16, <1>20, <1>21

\* What is told: an acceptance the turn remembers, or the end of its task.
LEMMA ReplayTold ==
  ASSUME Typed, AllWorking, TurnOK, NEW p \in Procs, Replayed(p)
  PROVE  \E c \in Controls, a \in turn.accepted :
           /\ a.durable /\ a.id = c.id /\ a.tag = Tag(c)
           /\ answers' = answers \cup {Told(c, a.task)}
           /\ ~Closed(Told(c, a.task))
<1>1. PICK a \in Prior(job[p].seen, job[p].control) :
        /\ a.tag = Tag(job[p].control) /\ a.durable
        /\ answers' = answers \cup {Told(job[p].control, a.task)}
  BY DEF Replayed
<1>2. /\ pc[p] = "decide" /\ job[p].control \in Controls
      /\ job[p].seen.accepted \subseteq turn.accepted
  BY DEF Replayed, Typed, JobsTyped, ControlJobs, AllWorking, Working, Recalled
<1>3. a \in turn.accepted /\ a.id = job[p].control.id
  BY <1>1, <1>2 DEF Prior
<1>4. ~Closed(Told(job[p].control, a.task))
  BY <1>1, <1>3 DEF Told, Closed, TurnOK
<1> QED
  BY <1>1, <1>2, <1>3, <1>4

\* What a grant answers is what it settled.
LEMMA GrantTold ==
  ASSUME Typed, AllWorking, TurnOK, NEW p \in Procs, Granted(p)
  PROVE  LET x == Told(job[p].control, Note(p).task) IN
         /\ job[p].control \in Controls
         /\ answers' = answers \cup {x}
         /\ x.id = job[p].control.id /\ x.tag = Tag(job[p].control) /\ x.task = Note(p).task
         /\ Note(p).task \in 0..Len(logs)
         /\ Closed(x) <=> Closes(job[p].control)
         /\ Closed(x) => Ender(p)
         /\ ~Closed(x) => Settled(p)
<1>1. /\ pc[p] = "settle" /\ job[p].control \in Controls /\ job[p].control.type \in Types
      /\ Note(p).durable = (Recorded(job[p].seen, job[p].control) \/ job[p].control.type = "feedback")
      /\ Note(p).task \in 0..Len(logs)
  BY Settler, NoteTyped DEF Granted
<1>2. PICK x : x = Told(job[p].control, Note(p).task)
  OBVIOUS
<1>3. x.id = job[p].control.id /\ x.tag = Tag(job[p].control) /\ x.task = Note(p).task
  BY <1>2 DEF Told
<1>4. Closed(x) <=> Closes(job[p].control)
  BY <1>3 DEF Closed, Closes, ClosingTypes, Tag
<1>5. Closes(job[p].control) => Ender(p)
  BY <1>1 DEF Granted, Ender, Closes
<1>6. ~Closes(job[p].control) => Settled(p)
  BY DEF Granted
<1>7. answers' = answers \cup {x}
  BY <1>2 DEF Granted
<1> QED
  BY <1>1, <1>2, <1>3, <1>4, <1>5, <1>6, <1>7

\* A turn that a control ended stays ended, by that control alone.
LEMMA EndedNext ==
  ASSUME Typed, AllWorking, TurnOK, Ended, [Next]_vars
  PROVE  Ended'
<1>1. /\ Len(logs) \in Nat /\ Len(logs') \in Nat /\ Len(logs) <= Len(logs')
      /\ answers \subseteq Given
  <2>1. LogsTyped /\ LogsTyped' /\ CountersTyped
    BY TypedNext DEF Typed
  <2>2. Len(logs) <= Len(logs')
    BY LogsGrow DEF Longer
  <2> QED
    BY <2>1, <2>2 DEF LogsTyped, CountersTyped
<1>2. \A x \in answers : Closed(x) => x.task <= Len(logs')
  BY <1>1 DEF Ended, Given
<1>3. \A x : Closed(x)' <=> Closed(x)
  BY DEF Closed
<1>4. IsFinal => IsFinal'
  BY FinalStays
<1>5. CASE \E q \in Procs : Ender(q)' /\ ~Ender(q)
  <2>1. PICK q \in Procs : Ender(q)' /\ ~Ender(q)
    BY <1>5
  <2>2. /\ ~IsFinal /\ IsFinal' /\ UNCHANGED answers
        /\ \A p \in Procs \ {q} : pc'[p] = pc[p] /\ job'[p] = job[p]
    BY <2>1, NewEnder
  <2>3. \A p \in Procs : Ender(p)' => p = q
    BY <2>2 DEF Ender, Ended
  <2>4. \A x \in answers : ~Closed(x)
    BY <2>2 DEF Ended
  <2> QED
    BY <2>2, <2>3, <2>4 DEF Ended, Closed
<1>6. CASE \A q \in Procs : Ender(q)' => Ender(q)
  <2>1. CASE \A x \in answers' : Closed(x) => x \in answers
    BY <1>2, <1>4, <1>6, <2>1 DEF Ended, Closed
  <2>2. ASSUME NEW p \in Procs, Granted(p), Closes(job[p].control)
        PROVE  Ended'
    <3>1. PICK x : x = Told(job[p].control, Note(p).task)
      OBVIOUS
    <3>2. answers' = answers \cup {x} /\ x.task <= Len(logs') /\ Ender(p)
      BY <1>1, <2>2, <3>1, GrantTold
    <3>3. IsFinal' /\ (\A y \in answers : ~Closed(y)) /\ \A q \in Procs : Ender(q) => q = p
      BY <1>4, <3>2 DEF Ended
    <3>4. \A q \in Procs : ~Ender(q)'
      BY <1>6, <2>2, <3>3 DEF Ender, Granted
    <3> QED
      BY <3>2, <3>3, <3>4 DEF Ended, Closed
  <2>3. ASSUME NEW p \in Procs, Granted(p), ~Closes(job[p].control)
        PROVE  Ended'
    BY <2>1, <2>3, GrantTold
  <2>4. ASSUME NEW p \in Procs, Replayed(p)
        PROVE  Ended'
    BY <2>1, <2>4, ReplayTold
  <2> QED
    BY <2>1, <2>2, <2>3, <2>4, AnswerStep
<1> QED
  BY <1>5, <1>6

\* A step forgets no accepted control and no answer.
LEMMA KeptNext ==
  ASSUME Typed, AllWorking, TurnOK, Kept, Sent, [Next]_vars
  PROVE  Kept' /\ Sent'
<1>1. turn.accepted \subseteq turn'.accepted
  BY TurnGrows DEF Grown
<1>2. CASE answers' = answers
  BY <1>1, <1>2 DEF Kept, Sent, Closed
<1>3. ASSUME NEW p \in Procs, Replayed(p)
      PROVE  Kept' /\ Sent'
  <2>1. PICK c \in Controls, a \in turn.accepted :
          /\ a.durable /\ a.id = c.id /\ a.tag = Tag(c)
          /\ answers' = answers \cup {Told(c, a.task)}
    BY <1>3, ReplayTold
  <2>2. PICK x : x = Told(c, a.task)
    OBVIOUS
  <2>3. x.id = c.id /\ x.tag = Tag(c) /\ x.task = a.task /\ answers' = answers \cup {x}
    BY <2>1, <2>2 DEF Told
  <2>4. \A y \in answers' : ~Closed(y) =>
          \E b \in turn'.accepted : b.durable /\ b.id = y.id /\ b.tag = y.tag /\ b.task = y.task
    BY <1>1, <2>1, <2>3 DEF Kept
  <2>5. \A y \in answers' : \E d \in Controls : y.id = d.id /\ y.tag = Tag(d)
    BY <2>3 DEF Sent
  <2> QED
    BY <2>4, <2>5 DEF Kept, Sent, Closed
<1>4. ASSUME NEW p \in Procs, Granted(p)
      PROVE  Kept' /\ Sent'
  <2>1. PICK x : x = Told(job[p].control, Note(p).task)
    OBVIOUS
  <2>2. /\ job[p].control \in Controls
        /\ answers' = answers \cup {x}
        /\ x.id = job[p].control.id /\ x.tag = Tag(job[p].control) /\ x.task = Note(p).task
        /\ ~Closed(x) => Settled(p)
    BY <1>4, <2>1, GrantTold
  <2>3. ~Closed(x) =>
          \E b \in turn'.accepted : b.durable /\ b.id = x.id /\ b.tag = x.tag /\ b.task = x.task
    <3>1. Settled(p) => turn'.accepted = turn.accepted \cup {Note(p)}
      BY AcceptedTurn
    <3>2. Note(p).id = job[p].control.id /\ Note(p).tag = Tag(job[p].control) /\ Note(p).durable
      BY <1>4, NoteTyped DEF Granted
    <3> QED
      BY <2>2, <3>1, <3>2
  <2>4. \A y \in answers' : ~Closed(y) =>
          \E b \in turn'.accepted : b.durable /\ b.id = y.id /\ b.tag = y.tag /\ b.task = y.task
    BY <1>1, <2>2, <2>3 DEF Kept
  <2>5. \A y \in answers' : \E d \in Controls : y.id = d.id /\ y.tag = Tag(d)
    BY <2>2 DEF Sent
  <2> QED
    BY <2>4, <2>5 DEF Kept, Sent, Closed
<1> QED
  BY <1>2, <1>3, <1>4, AnswerStep

\* Nobody is granted what was granted before: a closing control is the only ender, and
\* another one would have been remembered.
LEMMA GrantedOnceNext ==
  ASSUME Core, GrantedOnce, DistinctEnds, [Next]_vars
  PROVE  GrantedOnce'
<1> Typed /\ AllWorking /\ TurnOK /\ Ended /\ Kept /\ Sent
  BY DEF Core
<1>1. granted \in [Ids -> Nat]
  BY DEF Typed, CountersTyped
<1>2. answers \subseteq answers'
  BY AnswerStep DEF Replayed, Granted
<1>3. CASE UNCHANGED granted
  BY <1>2, <1>3 DEF GrantedOnce
<1>4. ASSUME NEW p \in Procs, Granted(p)
      PROVE  GrantedOnce'
  <2>1. PICK x : x = Told(job[p].control, Note(p).task)
    OBVIOUS
  <2>2. /\ job[p].control \in Controls
        /\ x \in answers' /\ x.id = job[p].control.id
        /\ Closed(x) <=> Closes(job[p].control)
        /\ Closed(x) => Ender(p)
        /\ ~Closed(x) => Settled(p)
    BY <1>4, <2>1, GrantTold
  <2>3. \A y \in answers : y.id # job[p].control.id
    <3>1. SUFFICES ASSUME NEW y \in answers, y.id = job[p].control.id
                   PROVE  FALSE
      OBVIOUS
    <3>2. Closed(y) <=> Closes(job[p].control)
      <4>1. PICK d \in Controls : y.id = d.id /\ y.tag = Tag(d)
        BY DEF Sent
      <4>2. Closed(y) <=> Closes(d)
        BY <4>1 DEF Closed, Closes, ClosingTypes, Tag
      <4> QED
        BY <2>2, <3>1, <4>1, <4>2 DEF DistinctEnds
    <3>3. CASE Closes(job[p].control)
      BY <2>2, <3>2, <3>3 DEF Ended
    <3>4. CASE ~Closes(job[p].control)
      <4>1. PICK a \in turn.accepted : a.id = y.id
        BY <3>2, <3>4 DEF Kept
      <4>2. Prior(job[p].seen, job[p].control) = {} /\ turn = job[p].seen
        BY <2>2, <3>4, Settler DEF Settled, Admitted
      <4> QED
        BY <3>1, <4>1, <4>2 DEF Prior
    <3> QED
      BY <3>3, <3>4
  <2>4. PICK i \in Ids : i = job[p].control.id
    BY <2>2 DEF Ids
  <2>5. granted[i] = 0 /\ granted' = [granted EXCEPT ![i] = 1]
    <3>1. granted[i] \in Nat /\ granted[i] <= 1 /\ granted[i] # 1
      BY <1>1, <2>3, <2>4 DEF GrantedOnce
    <3>2. granted[i] = 0
      BY <3>1
    <3>3. granted' = [granted EXCEPT ![i] = granted[i] + 1]
      BY <1>4, <2>4 DEF Granted
    <3> QED
      BY <3>2, <3>3
  <2>6. granted'[i] = 1 /\ \A k \in Ids \ {i} : granted'[k] = granted[k]
    BY <1>1, <2>5
  <2> QED
    BY <1>2, <2>2, <2>4, <2>6 DEF GrantedOnce
<1> QED
  BY <1>3, <1>4, AnswerStep DEF Replayed

-----------------------------------------------------------------------------
\* What was accepted is recorded.

\* A run of events that is in a log stays there.
LEMMA RunStays ==
  ASSUME Typed, AllWorking, TurnOK, [Next]_vars, NEW t, NEW es \in Seq(Events), NEW id,
         RecordedIn(Log(t), es, id)
  PROVE  RecordedIn(Log(t)', es, id)
<1>1. PICK k \in 0..Len(Log(t)) - Len(es) :
        \A i \in 1..Len(es) : Log(t)[k + i].event = es[i] /\ Log(t)[k + i].by = id
  BY DEF RecordedIn
<1>2. /\ Len(Log(t)) \in Nat /\ Len(Log(t)') \in Nat /\ Len(Log(t)) <= Len(Log(t)')
      /\ Len(es) \in Nat /\ k \in Nat /\ k + Len(es) <= Len(Log(t))
      /\ \A i \in 1..Len(Log(t)) : Log(t)'[i] = Log(t)[i]
  BY <1>1, LogLonger
<1>3. \A i \in 1..Len(es) : k + i \in 1..Len(Log(t))
  BY <1>2
<1>4. k \in 0..Len(Log(t)') - Len(es)
  BY <1>2
<1>5. \A i \in 1..Len(es) : Log(t)'[k + i].event = es[i] /\ Log(t)'[k + i].by = id
  BY <1>1, <1>2, <1>3
<1> QED
  BY <1>4, <1>5 DEF RecordedIn

\* What an acceptance stands for, in a state of the logs and the settings.
RecordedFor(a) ==
  IF a.tag[1] = "feedback" THEN settings[a.id] >= 1
  ELSE RecordedIn(Log(turn.task), PublicEvents[a.tag[1]], a.id)

\* What a durable control has recorded stays recorded.
LEMMA StaysRecorded ==
  ASSUME Typed, AllWorking, TurnOK, AcceptedIsRecorded, [Next]_vars,
         NEW a \in turn.accepted, a.durable
  PROVE  RecordedFor(a)'
<1>1. \A i \in Ids : settings[i] \in Nat /\ settings'[i] \in Nat /\ settings[i] <= settings'[i]
  BY CountersNext, TypedNext DEF Typed, CountersTyped
<1>2. turn \in TurnFiles /\ turn.task \in {0, turn'.task}
  BY TurnGrows DEF Grown, Typed, TurnTyped
<1>3. a.id \in Ids /\ a.tag[1] \in Types
  <2>1. a.id \in Ids /\ a.tag \in Tags
    BY <1>2 DEF TurnFiles, Remembered
  <2>2. PICK c \in Controls : a.tag = Tag(c)
    BY <2>1 DEF Tags
  <2> QED
    BY <2>1, <2>2, ControlsAreControls DEF Tag
<1>4. CASE a.tag[1] = "feedback"
  <2>1. settings[a.id] >= 1
    BY <1>4 DEF AcceptedIsRecorded
  <2>2. settings'[a.id] >= 1
    BY <1>1, <1>3, <2>1
  <2> QED
    BY <1>4, <2>2 DEF RecordedFor
<1>5. CASE a.tag[1] # "feedback"
  <2>1. turn.task # 0
    BY <1>5 DEF TurnOK
  <2>2. PICK t : t = turn.task
    OBVIOUS
  <2>3. turn'.task = t
    BY <1>2, <2>1, <2>2
  <2>4. RecordedIn(Log(t), PublicEvents[a.tag[1]], a.id)
    BY <1>5, <2>2 DEF AcceptedIsRecorded
  <2>5. PublicEvents[a.tag[1]] \in Seq(Events)
    BY <1>3, EventLists, RecordableAreEvents
  <2>6. RecordedIn(Log(t)', PublicEvents[a.tag[1]], a.id)
    BY <2>4, <2>5, RunStays
  <2> QED
    BY <1>5, <2>3, <2>6 DEF RecordedFor, Log, RecordedIn
<1> QED
  BY <1>4, <1>5

\* What a process settles was written before.
LEMMA WrittenIsRecorded ==
  ASSUME Typed, AllWorking, TurnOK, NEW p \in Procs, pc[p] = "settle",
         Recorded(job[p].seen, job[p].control), job[p].control.type # "feedback"
  PROVE  RecordedIn(Log(job[p].task), PublicEvents[job[p].control.type], job[p].control.id)
<1>1. PICK j, ls, es : j = job[p] /\ ls = Log(job[p].task) /\ es = PublicEvents[job[p].control.type]
  OBVIOUS
<1>2. /\ j \in ControlJobs /\ j.base \in Nat /\ j.control \in Controls /\ j.control.type \in Types
      /\ es = EventsOf(j.seen, j.control) /\ j.done = Len(es) /\ j.done > 0
      /\ \A i \in 1..j.done : /\ j.base + i <= Len(ls)
                              /\ ls[j.base + i].event = es[i]
                              /\ ls[j.base + i].by = j.control.id
  BY <1>1, Settler DEF Written, ControlJobs, EventsOf
<1>3. Len(es) \in Nat /\ Len(ls) \in Nat
  BY <1>1, <1>2, EventsTyped, LogTyped DEF Typed
<1>4. j.base \in 0..Len(ls) - Len(es)
  <2>1. Len(es) \in 1..j.done
    BY <1>2, <1>3
  <2>2. j.base + Len(es) <= Len(ls)
    BY <1>2, <2>1
  <2> QED
    BY <1>2, <1>3, <2>2
<1>5. \A i \in 1..Len(es) : ls[j.base + i].event = es[i] /\ ls[j.base + i].by = j.control.id
  BY <1>2
<1> QED
  BY <1>1, <1>4, <1>5 DEF RecordedIn

\* A step keeps every accepted control recorded.
LEMMA RecordedNext ==
  ASSUME Typed, AllWorking, TurnOK, AcceptedIsRecorded, [Next]_vars
  PROVE  AcceptedIsRecorded'
<1>1. \A a \in turn.accepted : a.durable => RecordedFor(a)'
  BY StaysRecorded
<1>2. CASE turn'.accepted = turn.accepted
  BY <1>1, <1>2 DEF AcceptedIsRecorded, RecordedFor
<1>3. ASSUME NEW p \in Procs, Settled(p)
      PROVE  AcceptedIsRecorded'
  <2>1. turn'.accepted = turn.accepted \cup {Note(p)} /\ turn'.task = job[p].task
    BY <1>3, AcceptedTurn
  <2>2. PICK c, t, a : c = job[p].control /\ t = job[p].task /\ a = Note(p)
    OBVIOUS
  <2>3. /\ c \in Controls /\ c.type \in Types /\ pc[p] = "settle" /\ Admitted(p)
        /\ a.id = c.id /\ a.tag[1] = c.type
        /\ a.durable = (Recorded(job[p].seen, c) \/ c.type = "feedback")
    BY <1>3, <2>2, Settler, NoteTyped DEF Settled
  <2>4. ASSUME c.type = "feedback"
        PROVE  RecordedFor(a)'
    <3>1. settings[c.id] >= 1 /\ c.id \in Ids
      BY <2>2, <2>3, <2>4 DEF Admitted, Ids
    <3>2. settings[c.id] \in Nat /\ settings'[c.id] \in Nat /\ settings[c.id] <= settings'[c.id]
      BY <3>1, CountersNext, TypedNext DEF Typed, CountersTyped
    <3>3. settings'[a.id] >= 1
      BY <2>3, <3>1, <3>2
    <3> QED
      BY <2>3, <2>4, <3>3 DEF RecordedFor
  <2>5. ASSUME c.type # "feedback", a.durable
        PROVE  RecordedFor(a)'
    <3>1. RecordedIn(Log(t), PublicEvents[c.type], c.id)
      BY <2>2, <2>3, <2>5, WrittenIsRecorded
    <3>2. PublicEvents[c.type] \in Seq(Events)
      BY <2>3, EventLists, RecordableAreEvents
    <3>3. RecordedIn(Log(t)', PublicEvents[c.type], c.id)
      BY <3>1, <3>2, RunStays
    <3>4. RecordedIn(Log(t)', PublicEvents[a.tag[1]], a.id) /\ a.tag[1] # "feedback"
      BY <2>3, <2>5, <3>3
    <3>5. turn'.task = t
      BY <2>1, <2>2
    <3> QED
      BY <3>4, <3>5 DEF RecordedFor, Log, RecordedIn
  <2>6. a.durable => RecordedFor(a)'
    BY <2>4, <2>5
  <2> QED
    BY <1>1, <2>1, <2>2, <2>6 DEF AcceptedIsRecorded, RecordedFor
<1>4. turn'.accepted = turn.accepted \/ \E p \in Procs : Settled(p)
  <2>1. turn \in TurnFiles
    BY DEF Typed, TurnTyped
  <2> QED
    BY <2>1, TurnStep DEF Discard, ReservedStep, TurnFiles
<1> QED
  BY <1>2, <1>3, <1>4

-----------------------------------------------------------------------------
\* A log that is not the turn's was begun and not continued.
LEMMA OrphansNext ==
  ASSUME Typed, AllWorking, TurnOK, OrphansStayOrphans, [Next]_vars
  PROVE  OrphansStayOrphans'
<1> DEFINE Begun(ls) == \A i \in 1..Len(ls) : \E c \in Controls : c.id = ls[i].by /\ c.type = "begin"
<1>1. turn.task \in {0, turn'.task}
  BY TurnGrows DEF Grown
<1>2. \A t \in 1..Len(logs) : t # turn'.task => Begun(logs[t])
  BY <1>1 DEF OrphansStayOrphans
<1>3. CASE UNCHANGED <<logs, opened>>
  BY <1>2, <1>3 DEF OrphansStayOrphans
<1>4. ASSUME NEW p \in Procs, pc[p] = "append", Fits(p), Durable(p)
      PROVE  OrphansStayOrphans'
  <2>1. /\ Len(logs) \in Nat /\ job[p].task \in 0..Len(logs)
        /\ Len(logs') = IF job[p].task = 0 THEN Len(logs) + 1 ELSE Len(logs)
        /\ logs'[Target(p)] = Append(Log(job[p].task), NewEntry(p))
        /\ \A t \in 1..Len(logs) : t # Target(p) => logs'[t] = logs[t]
    <3>1. Len(logs) \in Nat
      BY DEF Typed, LogsTyped
    <3>2. job[p].task \in 0..Len(logs)
      BY <1>4, Writer
    <3> QED
      BY <1>4, <3>1, <3>2, Appended
  <2>2. /\ job[p].control \in Controls
        /\ job[p].task = 0 => job[p].control.type = "begin"
        /\ job[p].control.type # "begin" => job[p].task = turn.task
    BY <1>4, Writer DEF ControlJobs
  <2>3. NewEntry(p).by = job[p].control.id
    BY DEF NewEntry, Entry
  <2>4. ASSUME NEW t \in 1..Len(logs'), t # turn'.task
        PROVE  Begun(logs'[t])
    <3>1. CASE t # Target(p)
      <4>1. t \in 1..Len(logs)
        BY <2>1, <3>1 DEF Target
      <4> QED
        BY <1>2, <2>1, <2>4, <3>1, <4>1
    <3>2. CASE t = Target(p)
      <4>1. job[p].control.type = "begin"
        <5>1. job[p].task # 0 => Target(p) = job[p].task
          BY DEF Target
        <5> QED
          BY <1>1, <2>2, <2>4, <3>2, <5>1
      <4>2. Begun(Log(job[p].task))
        <5>1. CASE job[p].task = 0
          BY <5>1 DEF Log
        <5>2. CASE job[p].task # 0
          BY <1>2, <2>1, <2>4, <3>2, <5>2 DEF Log, Target
        <5> QED
          BY <5>1, <5>2
      <4>3. Log(job[p].task) \in Seq(EntryRecords) /\ NewEntry(p) \in EntryRecords
        BY <1>4, LogTyped, Appended DEF Typed
      <4>4. PICK ls : ls = Log(job[p].task)
        OBVIOUS
      <4>5. PICK x : x = NewEntry(p)
        OBVIOUS
      <4>6. Begun(Append(ls, x))
        <5>1. ls \in Seq(EntryRecords) /\ Begun(ls) /\ x.by = job[p].control.id
          BY <2>3, <4>2, <4>3, <4>4, <4>5
        <5>2. ASSUME NEW i \in 1..Len(Append(ls, x))
              PROVE  \E c \in Controls : c.id = Append(ls, x)[i].by /\ c.type = "begin"
          <6>1. CASE i \in 1..Len(ls)
            BY <5>1, <6>1
          <6>2. CASE i = Len(ls) + 1
            BY <2>2, <4>1, <5>1, <6>2
          <6> QED
            BY <5>1, <5>2, <6>1, <6>2
        <5> QED
          BY <5>2
      <4> QED
        BY <2>1, <3>2, <4>4, <4>5, <4>6
    <3> QED
      BY <3>1, <3>2
  <2> QED
    BY <2>4 DEF OrphansStayOrphans
<1> QED
  BY <1>3, <1>4, LogStep

-----------------------------------------------------------------------------
\* The turn is never further than its record.
LEMMA LeadsNext ==
  ASSUME Typed, AllWorking, TurnOK, LogLeads, [Next]_vars
  PROVE  LogLeads'
<1>1. PICK t, s : t = turn'.task /\ s = turn'.phase
  OBVIOUS
<1>2. SUFFICES ASSUME turn'.recording, t # 0, \A a \in turn'.accepted : a.durable
               PROVE  Rank[s] <= Rank[Projection(Log(t)').state]
  BY <1>1 DEF LogLeads, Log
<1>3. /\ turn'.recording = turn.recording
      /\ turn.accepted \subseteq turn'.accepted
      /\ s \in States
  BY <1>1, TurnGrows DEF Grown, TurnFiles
<1>4. Rank[s] \in Nat
  BY <1>3 DEF Rank, States
<1>5. ASSUME Rank[s] <= Rank[Projection(Log(t)).state]
      PROVE  Rank[s] <= Rank[Projection(Log(t)').state]
  <2>1. PICK m, n : m = Rank[Projection(Log(t)).state] /\ n = Rank[Projection(Log(t)').state]
    OBVIOUS
  <2>2. m \in Nat /\ n \in Nat /\ m <= n
    BY <2>1, LogLonger
  <2> QED
    BY <1>4, <1>5, <2>1, <2>2
<1>6. ASSUME turn'.phase = turn.phase, turn'.task = turn.task
      PROVE  Rank[s] <= Rank[Projection(Log(t)').state]
  <2>1. Rank[s] <= Rank[Projection(Log(t)).state]
    BY <1>1, <1>2, <1>3, <1>6 DEF LogLeads
  <2> QED
    BY <1>5, <2>1
<1>7. ASSUME NEW p \in Procs, Settled(p)
      PROVE  Rank[s] <= Rank[Projection(Log(t)').state]
  <2>1. PICK c : c = job[p].control
    OBVIOUS
  <2>2. /\ s = NextPhase(c, turn.phase) /\ t = job[p].task /\ Note(p) \in turn'.accepted
        /\ pc[p] = "settle" /\ turn = job[p].seen
    BY <1>1, <1>7, <2>1, AcceptedTurn DEF Settled
  <2>3. /\ Advanced(p) /\ c \in Controls /\ c.type \in Types /\ job[p].done \in Nat
        /\ Recorded(turn, c) /\ c.type # "feedback" => job[p].done > 0
        /\ ~(Recorded(turn, c) /\ c.type = "begin") => job[p].task = turn.task
    BY <2>1, <2>2, Settler DEF ControlJobs
  <2>4. Recorded(turn, c) \/ c.type = "feedback"
    BY <1>2, <2>1, <2>2, NoteTyped
  <2>5. ASSUME c.type \in DOMAIN MoveTo
        PROVE  Rank[s] <= Rank[Projection(Log(t)').state]
    <3>1. c.type # "feedback"
      BY <2>5 DEF MoveTo
    <3>2. s = MoveTo[c.type]
      BY <2>2, <2>5 DEF NextPhase
    <3>3. Rank[MoveTo[c.type]] <= Rank[Projection(Log(t)).state]
      BY <2>1, <2>2, <2>3, <2>4, <2>5, <3>1 DEF Advanced
    <3> QED
      BY <1>5, <3>2, <3>3
  <2>6. ASSUME c.type \notin DOMAIN MoveTo
        PROVE  Rank[s] <= Rank[Projection(Log(t)').state]
    <3>1. c.type # "begin"
      BY <2>6 DEF MoveTo
    <3>2. turn'.phase = turn.phase /\ turn'.task = turn.task
      BY <1>1, <2>2, <2>3, <2>6, <3>1 DEF NextPhase
    <3> QED
      BY <1>6, <3>2
  <2> QED
    BY <2>5, <2>6
<1>8. (turn'.phase = turn.phase /\ turn'.task = turn.task) \/ \E p \in Procs : Settled(p)
  <2>1. turn \in TurnFiles
    BY DEF Typed, TurnTyped
  <2> QED
    BY <2>1, TurnStep DEF Discard, ReservedStep, TurnFiles
<1> QED
  BY <1>6, <1>7, <1>8

-----------------------------------------------------------------------------
\* A continuation is a repair that the turn remembers.
LEMMA ResumedNext ==
  ASSUME Typed, AllWorking, TurnOK, resumed <= turn.repairs, [Next]_vars
  PROVE  (resumed <= turn.repairs)'
<1>1. /\ resumed \in Nat /\ turn.repairs \in Nat /\ turn'.repairs \in Nat
      /\ turn.repairs <= turn'.repairs
  BY TurnGrows DEF Grown, Typed, TurnTyped, CountersTyped, TurnFiles
<1>2. CASE UNCHANGED resumed
  BY <1>1, <1>2
<1>3. ASSUME NEW p \in Procs, Reserve(p), resumed' = resumed + 1
      PROVE  resumed' <= turn'.repairs
  <2>1. turn.repairs = 0 /\ turn'.repairs = 1
    <3>1. turn \in TurnFiles
      BY DEF Typed, TurnTyped
    <3> QED
      BY <1>3, <3>1 DEF Reserve, Swap, TurnFiles
  <2> QED
    BY <1>1, <1>3, <2>1
<1> QED
  BY <1>2, <1>3, CounterSteps

-----------------------------------------------------------------------------
\* At first there is a turn, and nothing else.
LEMMA InitTyped == Init => Typed
<1> SUFFICES ASSUME Init PROVE Typed
  OBVIOUS
<1>1. TurnTyped
  <2>1. PICK r \in BOOLEAN : turn = [exists |-> TRUE, recording |-> r, task |-> 0, phase |-> "new",
                                     accepted |-> {}, repairs |-> 0]
    BY DEF Init
  <2>2. IsFiniteSet({})
    BY FS_EmptySet
  <2> QED
    BY <2>1, <2>2 DEF TurnTyped, TurnFiles, States
<1>2. LogsTyped
  <2>1. logs = <<>> /\ opened = <<>>
    BY DEF Init
  <2> QED
    BY <2>1 DEF LogsTyped
<1>3. JobsTyped
  BY DEF Init, JobsTyped
<1>4. CountersTyped
  <2>1. MaxCalls \in Nat /\ MaxFaults \in Nat /\ MaxMonths \in Nat /\ MaxMonths >= 1
    BY CallBoundsAreNaturals
  <2>2. 1 \in 1..MaxMonths /\ 0 \in 0..MaxCalls /\ 0 \in 0..MaxFaults
    BY <2>1
  <2> QED
    BY <2>2 DEF Init, CountersTyped
<1> QED
  BY <1>1, <1>2, <1>3, <1>4 DEF Typed

\* The invariant holds at first.
LEMMA InitIInv == Init => IInv /\ GrantedOnce
<1> SUFFICES ASSUME Init PROVE IInv /\ GrantedOnce
  OBVIOUS
<1>1. Typed
  BY InitTyped
<1>2. /\ logs = <<>> /\ Len(logs) = 0 /\ turn.task = 0 /\ turn.phase = "new" /\ turn.accepted = {}
      /\ turn.repairs = 0 /\ answers = {} /\ resumed = 0
      /\ \A p \in Procs : pc[p] = "idle"
      /\ \A i \in Ids : granted[i] = 0
  BY DEF Init
<1>3. TurnOK
  <2>1. Cardinality({}) = 0
    BY FS_EmptySet
  <2> QED
    BY <1>2, <2>1, CallBoundsAreNaturals DEF TurnOK, WellFormed
<1>4. AllWorking
  BY <1>2 DEF AllWorking, Working
<1>5. Ended /\ Kept /\ Sent
  BY <1>2 DEF Ended, Kept, Sent, Ender
<1>6. AcceptedIsRecorded /\ OrphansStayOrphans /\ LogLeads /\ resumed <= turn.repairs
  BY <1>2 DEF AcceptedIsRecorded, OrphansStayOrphans, LogLeads
<1>7. GrantedOnce
  BY <1>2 DEF GrantedOnce
<1> QED
  BY <1>1, <1>3, <1>4, <1>5, <1>6, <1>7 DEF IInv, Core

\* A step keeps the invariant.
LEMMA NextIInv == IInv /\ [Next]_vars => IInv'
<1> SUFFICES ASSUME IInv, [Next]_vars PROVE IInv'
  OBVIOUS
<1>1. /\ Typed /\ TurnOK /\ AllWorking /\ Ended /\ Kept /\ Sent
      /\ AcceptedIsRecorded /\ OrphansStayOrphans /\ LogLeads /\ resumed <= turn.repairs
  BY DEF IInv, Core
<1>2. Typed' /\ TurnOK' /\ AllWorking' /\ Ended' /\ Kept' /\ Sent'
  BY <1>1, TypedNext, TurnOKNext, WorkingNext, EndedNext, KeptNext
<1>3. AcceptedIsRecorded' /\ OrphansStayOrphans' /\ LogLeads' /\ (resumed <= turn.repairs)'
  BY <1>1, RecordedNext, OrphansNext, LeadsNext, ResumedNext
<1> QED
  BY <1>2, <1>3 DEF IInv, Core

\* What a process saw of the turn has the type of one.
LEMMA SeenTyped ==
  ASSUME Core, NEW p \in Procs, pc[p] # "idle"
  PROVE  job[p].seen \in Turns /\ job[p].seen.exists
<1>1. PICK t : t = job[p].seen
  OBVIOUS
<1>2. t \in TurnFiles
  BY <1>1 DEF Core, Typed, JobsTyped, ControlJobs, StopJobs
<1>3. /\ t.exists /\ t.accepted \subseteq turn.accepted /\ t.task \in {0, turn.task}
  BY <1>1 DEF Core, AllWorking, Working, Recalled
<1>4. turn.task \in 0..Len(logs) /\ Len(logs) \in Nat
  BY DEF Core, Typed, TurnTyped, TurnFiles, LogsTyped, TurnOK
<1>5. turn.accepted \subseteq Acceptances
  <2>1. SUFFICES ASSUME NEW a \in turn.accepted
                 PROVE  a \in Acceptances
    OBVIOUS
  <2>2. a \in Remembered /\ a.task <= Len(logs)
    BY DEF Core, Typed, TurnTyped, TurnFiles, TurnOK
  <2>3. a.task \in 0..Len(logs)
    BY <1>4, <2>2 DEF Remembered
  <2> QED
    BY <2>2, <2>3 DEF Remembered, Acceptances, Tags
<1>6. t.task \in 0..Len(logs) /\ t.accepted \in SUBSET Acceptances
  BY <1>3, <1>4, <1>5
<1> QED
  BY <1>1, <1>2, <1>3, <1>6 DEF TurnFiles, Turns

\* The types the proofs use are those the runs check.
LEMMA TypeOKFollows == Core => TypeOK
<1> SUFFICES ASSUME Core PROVE TypeOK
  OBVIOUS
<1>1. /\ Typed /\ TurnOK /\ AllWorking /\ Ended /\ Kept
      /\ turn \in TurnFiles /\ Len(logs) \in Nat
  BY DEF Core, Typed, TurnTyped, LogsTyped
<1>2. turn.task \in 0..Len(logs) /\ \A a \in turn.accepted : a \in Remembered /\ a.task \in 0..Len(logs)
  BY <1>1 DEF TurnOK, TurnFiles, Remembered
<1>3. turn \in Turns
  <2>1. \A a \in turn.accepted : a \in Acceptances
    BY <1>2 DEF Remembered, Acceptances, Tags
  <2> QED
    BY <1>1, <1>2, <2>1 DEF TurnFiles, Turns
<1>4. /\ Cardinality(turn.accepted) <= MaxAccepted
      /\ \A a, b \in turn.accepted : a.id = b.id => a = b
  BY <1>1 DEF TurnOK
<1>5. /\ opened \in [1..Len(logs) -> 1..month]
      /\ \A t \in 1..Len(logs) : logs[t] # <<>> /\ \A i \in 1..Len(logs[t]) : logs[t][i] \in EntryRecords
  BY <1>1 DEF Typed, LogsTyped
<1>6. ASSUME NEW p \in Procs
      PROVE  /\ pc[p] \in {"idle", "drop", "sweep", "decide", "append", "settle", "verify"}
             /\ pc[p] = "idle" <=> job[p] = NoJob
             /\ pc[p] # "idle" => job[p].seen \in Turns /\ job[p].seen.exists
             /\ pc[p] \in {"append", "settle"} => job[p].task \in 0..Len(logs)
  <2>1. pc[p] \in {"append", "settle"} => job[p].task \in 0..Len(logs)
    BY <1>1, Writer, Settler
  <2>2. pc[p] \in {"idle", "drop", "sweep", "decide", "append", "settle", "verify"}
    BY <1>1 DEF Typed, JobsTyped
  <2>3. pc[p] = "idle" <=> job[p] = NoJob
    <3>1. pc[p] # "idle" => job[p] \in ControlJobs \cup StopJobs
      BY <1>1, <2>2 DEF Typed, JobsTyped
    <3>2. NoJob \notin ControlJobs \cup StopJobs
      BY DEF NoJob, ControlJobs, StopJobs
    <3> QED
      BY <1>1, <3>1, <3>2 DEF Typed, JobsTyped
  <2> QED
    BY <2>1, <2>2, <2>3, SeenTyped
<1>7. answers \subseteq [id : Ids, tag : {Tag(c) : c \in Controls}, task : 0..Len(logs)]
  <2>1. SUFFICES ASSUME NEW x \in answers
                 PROVE  x \in [id : Ids, tag : {Tag(c) : c \in Controls}, task : 0..Len(logs)]
    OBVIOUS
  <2>2. x \in Given
    BY <1>1 DEF Typed, CountersTyped
  <2>3. Closed(x) => x.task <= Len(logs)
    BY <1>1 DEF Ended
  <2>4. ~Closed(x) => x.task <= Len(logs)
    BY <1>1 DEF Kept, TurnOK
  <2>5. x.task \in 0..Len(logs)
    BY <1>1, <2>2, <2>3, <2>4 DEF Given
  <2> QED
    BY <2>2, <2>5 DEF Given, Tags
<1>8. /\ expired \in BOOLEAN /\ month \in 1..MaxMonths
      /\ settings \in [Ids -> Nat] /\ granted \in [Ids -> Nat]
      /\ resumed \in Nat /\ calls \in 0..MaxCalls /\ faults \in 0..MaxFaults
  BY <1>1 DEF Typed, CountersTyped
<1> QED
  BY <1>3, <1>4, <1>5, <1>6, <1>7, <1>8 DEF TypeOK

-----------------------------------------------------------------------------
(***************************************************************************)
(* The theorems.                                                           *)
(***************************************************************************)

\* All of the above holds in every reachable state: what a process saw of the turn is
\* still true of it, what it has written is in the log, and a task is ended once.
THEOREM Invariance == Spec => []IInv
<1>1. Init => IInv
  BY InitIInv
<1>2. IInv /\ [Next]_vars => IInv'
  BY NextIInv
<1> QED
  BY <1>1, <1>2, PTL DEF Spec

\* The state has its type; a turn remembers no more than MAX_CONTROL_ACCEPTED_CONTROLS
\* controls, and each message id once.
THEOREM Types_OK == Spec => []TypeOK
<1>1. IInv => TypeOK
  BY TypeOKFollows DEF IInv
<1> QED
  BY <1>1, Invariance, PTL

\* Whatever a turn remembers as durably accepted is in its task's log, whole and in one
\* piece, although the events are appended one by one, before the turn is swapped.
THEOREM Accepted_Is_Recorded == Spec => []AcceptedIsRecorded
<1>1. IInv => AcceptedIsRecorded
  BY DEF IInv
<1> QED
  BY <1>1, Invariance, PTL

\* The log of a begin whose swap was lost is never continued by another control.
THEOREM Orphans_Stay_Orphans == Spec => []OrphansStayOrphans
<1>1. IInv => OrphansStayOrphans
  BY DEF IInv
<1> QED
  BY <1>1, Invariance, PTL

\* A turn whose artifacts were all confirmed is never further than its record: a crash, a
\* conflict or a failure after the append leaves the log ahead, never behind.
THEOREM Log_Leads == Spec => []LogLeads
<1>1. IInv => LogLeads
  BY DEF IInv
<1> QED
  BY <1>1, Invariance, PTL

\* No crash, re-entry or concurrent Stop continues the host a second time: a continuation
\* is a repair the turn remembers, and it remembers one at most.
THEOREM One_Continuation == Spec => []OneContinuation
<1>1. IInv => OneContinuation
  BY DEF IInv, Core, Typed, TurnTyped, TurnFiles, CountersTyped, OneContinuation
<1> QED
  BY <1>1, Invariance, PTL

\* A deleted turn is never brought back by a control or a Stop that had loaded it.
THEOREM Never_Reissued == Spec => NeverReissued
<1>1. IInv /\ [Next]_vars => [~turn.exists => ~turn'.exists]_vars
  BY TurnGrows DEF IInv, Core, Grown
<1> QED
  BY <1>1, Invariance, PTL DEF Spec, NeverReissued

\* A control reserves no repair and a Stop forgets no control: what one of them stored
\* survives the other's swap.
THEOREM Nothing_Forgotten == Spec => NothingForgotten
<1>1. IInv /\ [Next]_vars => [turn.accepted \subseteq turn'.accepted /\ turn'.repairs >= turn.repairs]_vars
  <2>1. SUFFICES ASSUME IInv, [Next]_vars
                 PROVE  turn.accepted \subseteq turn'.accepted /\ turn'.repairs >= turn.repairs
    OBVIOUS
  <2>2. Grown /\ turn.repairs \in {0, 1}
    BY <2>1, TurnGrows DEF IInv, Core, Typed, TurnTyped, TurnFiles
  <2> QED
    BY <2>2 DEF Grown, TurnFiles
<1> QED
  BY <1>1, Invariance, PTL DEF Spec, NothingForgotten

\* However often a message is sent again, and by whom, it is durably accepted once: if no
\* message id is used both for a control that ends the turn and for one that does not.
THEOREM Accepted_Once ==
  ASSUME DistinctEnds
  PROVE  Spec => []AcceptedOnce
<1>1. Init => IInv /\ GrantedOnce
  BY InitIInv
<1>2. IInv /\ GrantedOnce /\ [Next]_vars => (IInv /\ GrantedOnce)'
  BY NextIInv, GrantedOnceNext DEF IInv
<1>3. GrantedOnce => AcceptedOnce
  BY DEF GrantedOnce, AcceptedOnce
<1> QED
  BY <1>1, <1>2, <1>3, PTL DEF Spec

\* And everyone who is told of it sent the same command and is told of the same task.
THEOREM Answers_Agree ==
  ASSUME DistinctEnds
  PROVE  Spec => []AnswersAgree
<1>1. IInv => AnswersAgree
  <2>1. SUFFICES ASSUME IInv, NEW x \in answers, NEW y \in answers, x.id = y.id
                 PROVE  x = y
    BY DEF AnswersAgree
  <2>2. x \in Given /\ y \in Given /\ Ended /\ Kept /\ Sent /\ TurnOK
    BY <2>1 DEF IInv, Core, Typed, CountersTyped
  <2>3. Closed(x) <=> Closed(y)
    <3>1. PICK c \in Controls, d \in Controls :
            x.id = c.id /\ x.tag = Tag(c) /\ y.id = d.id /\ y.tag = Tag(d)
      BY <2>2 DEF Sent
    <3>2. (Closed(x) <=> Closes(c)) /\ (Closed(y) <=> Closes(d))
      BY <3>1 DEF Closed, Closes, ClosingTypes, Tag
    <3> QED
      BY <2>1, <3>1, <3>2 DEF DistinctEnds
  <2>4. CASE Closed(x)
    BY <2>2, <2>3, <2>4 DEF Ended
  <2>5. CASE ~Closed(x)
    <3>1. PICK a \in turn.accepted : a.id = x.id /\ a.tag = x.tag /\ a.task = x.task
      BY <2>2, <2>5 DEF Kept
    <3>2. PICK b \in turn.accepted : b.id = y.id /\ b.tag = y.tag /\ b.task = y.task
      BY <2>2, <2>3, <2>5 DEF Kept
    <3>3. a = b
      BY <2>1, <2>2, <3>1, <3>2 DEF TurnOK
    <3> QED
      BY <2>1, <2>2, <3>1, <3>2, <3>3 DEF Given
  <2> QED
    BY <2>4, <2>5
<1> QED
  BY <1>1, Invariance, PTL
=============================================================================

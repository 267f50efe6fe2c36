---------------------------- MODULE ControlPlane ----------------------------
(***************************************************************************)
(* One turn and the task it judges: controls (application/apply_control.py)*)
(* and Stop hooks (application/handle_stop.py), run by processes that share*)
(* the turn's ephemeral state (persistence/turn_store.py) and the task     *)
(* logs.  A control computes its events from the turn it loaded, appends   *)
(* them to the log one by one, and only then swaps the turn state for one  *)
(* that remembers the control; a Stop reserves the single repair with the  *)
(* same swap.  No lock spans these steps.                                  *)
(*                                                                         *)
(* Each operation of the turn store is one step: its FileLock spans it     *)
(* (loads take none but read one file that is only ever replaced whole).   *)
(* A task's log behaves as TaskLog promises: an append adds one legal      *)
(* event or fails, and may fail after the line became durable.  The        *)
(* recovery events of torn appends and lost records are left to            *)
(* RecordStore.  Drafts refer to nothing that is not there; a claim always *)
(* comes with one new source, and a begin routes to a method.              *)
(***************************************************************************)
EXTENDS TaskState, FiniteSets

CONSTANTS Procs,       \* processes that run controls and Stop hooks
          Controls,    \* the controls the host may send, and may send again
          MaxAccepted, \* MAX_CONTROL_ACCEPTED_CONTROLS
          MaxCalls,    \* bound on controls and Stops
          MaxMonths,   \* bound on the months a turn lives through
          MaxFaults    \* bound on crashes and store failures

\* The message types, and the phases each is legal in (legal_control_transition).
LegalIn ==
  [ begin       |-> {"new"},
    framing     |-> {"framing"},
    claim       |-> Judging,
    alternative |-> Judging,
    conflict    |-> {"working", "rejudging"},
    revise      |-> {"working", "rejudging"},
    exam        |-> {"cross_examining"},
    hold        |-> Closable,
    cancel      |-> Closable,
    feedback    |-> States ]

Types == DOMAIN LegalIn

\* A control is its message id, the type and the payload its tag covers, and
\* whether the host confirmed that the artifact was published.
ASSUME ControlsAreControls ==
  \A c \in Controls : c.type \in Types /\ c.confirmed \in BOOLEAN
ASSUME CallBoundsAreNaturals ==
  {MaxAccepted, MaxCalls, MaxFaults} \subseteq Nat /\ MaxMonths \in Nat \ {0}

VARIABLES
  turn,     \* the turn's state file
  expired,  \* has expires_at passed?
  month,    \* the current one: records are filed by month
  logs,     \* the task logs, in the order their task_started became durable
  opened,   \* the month each of them is filed under
  pc, job,  \* each process's next step, and what it holds in memory
  settings, \* how often the feedback of each control was applied
  answers,  \* durable acceptances and replays that were returned (history)
  granted,  \* how often each message id was answered ACCEPTED (history)
  resumed,  \* how many Stops were answered CONTINUE_ONCE (history)
  calls, faults

vars == <<turn, expired, month, logs, opened, pc, job, settings, answers, granted, resumed, calls, faults>>

-----------------------------------------------------------------------------
Ids == {c.id : c \in Controls}
Tag(c) == <<c.type, c.payload>>

\* next_control_state.
MoveTo == [ begin    |-> "framing",
            framing  |-> "working",
            conflict |-> "rejudging",
            revise   |-> "cross_examining",
            exam     |-> "verifying",
            hold     |-> "insufficient",
            cancel   |-> "cancelled" ]
NextPhase(c, s) == IF c.type \in DOMAIN MoveTo THEN MoveTo[c.type] ELSE s

\* The public events a recorded control appends, handler by handler.
BeginEvents == <<Event("task_started", "judgment"), Event("method_selected", "-"),
                 Event("judgment_started", "-")>>
FramingEvents == <<Event("framing_published", "-")>>
ClaimEvents == <<Event("source_published", "-"), Event("claim_published", "-")>>
ConflictEvents == <<Event("conflict_published", "-")>>
AlternativeEvents == <<Event("alternative_published", "-")>>
ReviseEvents == <<Event("conclusion_published", "-")>>
CrossExamEvents == <<Event("cross_exam_completed", "-")>>
HoldEvents == <<Event("task_insufficient", "-")>>
CancelEvents == <<Event("task_cancelled", "-")>>

PublicEvents ==
  [ begin       |-> BeginEvents,
    framing     |-> FramingEvents,
    claim       |-> ClaimEvents,
    conflict    |-> ConflictEvents,
    alternative |-> AlternativeEvents,
    revise      |-> ReviseEvents,
    exam        |-> CrossExamEvents,
    hold        |-> HoldEvents,
    cancel      |-> CancelEvents,
    feedback    |-> <<>> ]

\* _public_confirmation, and what it takes for a control to be recorded.
Confirmed(c) == c.type \in {"begin", "cancel", "feedback"} \/ c.confirmed
Recorded(t, c) == t.recording /\ Confirmed(c)
EventsOf(t, c) == IF Recorded(t, c) THEN PublicEvents[c.type] ELSE <<>>

\* ACCEPTED rather than ACCEPTED_NOT_RECORDED.
IsDurable(t, c) == Recorded(t, c) \/ c.type = "feedback"
Closes(c) == c.type \in {"hold", "cancel"}

\* A task's log: entry i has sequence i; task 0 stands for no task.
Log(t) == IF t \in 1..Len(logs) THEN logs[t] ELSE <<>>
\* What the record store finds of a task in a month's directory.
Filed(t, m) == IF t \in 1..Len(logs) /\ opened[t] = m THEN logs[t] ELSE <<>>
Entry(ls, e, id) == [event |-> e, by |-> id, after |-> Apply(Projection(ls), e)]

\* AcceptedControl: the tag, and of the stored result its durability and task id
\* (feedback and unrecorded controls assign none).
Accepted(c, t, task) == [id |-> c.id, tag |-> Tag(c), durable |-> IsDurable(t, c),
                         task |-> IF Recorded(t, c) /\ c.type # "feedback" THEN task ELSE 0]
Prior(t, c) == {a \in t.accepted : a.id = c.id}

NoJob == [kind |-> "none"]

\* issue_turn_state, for a turn that is not mechanical.
Init ==
  /\ \E r \in BOOLEAN :
       turn = [exists |-> TRUE, recording |-> r, task |-> 0, phase |-> "new",
               accepted |-> {}, repairs |-> 0]
  /\ expired = FALSE
  /\ month = 1
  /\ logs = <<>>
  /\ opened = <<>>
  /\ pc = [p \in Procs |-> "idle"]
  /\ job = [p \in Procs |-> NoJob]
  /\ settings = [i \in Ids |-> 0]
  /\ answers = {}
  /\ granted = [i \in Ids |-> 0]
  /\ resumed = 0
  /\ calls = 0
  /\ faults = 0

-----------------------------------------------------------------------------
Goto(p, step) == pc' = [pc EXCEPT ![p] = step] /\ UNCHANGED job
Done(p) == /\ pc' = [pc EXCEPT ![p] = "idle"]
           /\ job' = [job EXCEPT ![p] = NoJob]

Called == calls < MaxCalls /\ calls' = calls + 1
Fault == faults < MaxFaults /\ faults' = faults + 1

\* The caller of control c is told that a was accepted (now, or before).
Answer(c, a) ==
  answers' = IF a.durable THEN answers \cup {[id |-> c.id, tag |-> Tag(c), task |-> a.task]}
             ELSE answers
Grant(a) == granted' = [granted EXCEPT ![a.id] = IF a.durable THEN @ + 1 ELSE @]

(***************************************************************************)
(* The turn store.  A swap writes only over the state the caller read; a   *)
(* deletion takes whatever is there.  What was in a deleted file is kept   *)
(* here as history.                                                        *)
(***************************************************************************)
Discard == turn' = [turn EXCEPT !.exists = FALSE]

\* A deletion whose failure the caller swallows.
TryDiscard == \/ Discard /\ UNCHANGED faults
              \/ UNCHANGED turn /\ Fault

\* Mutant: the lock is taken, the comparison is forgotten.
SwapBlind(seen, t) == turn' = t

\* Mutant: only the token is compared.
SwapIfPresent(seen, t) == turn.exists /\ turn' = t

\* Mutant: accepted controls are not part of the comparison.
SwapIfSamePhase(seen, t) ==
  turn.exists /\ turn.phase = seen.phase /\ turn.task = seen.task /\ turn' = t

Swap(seen, t) == turn = seen /\ turn' = t

-----------------------------------------------------------------------------
(***************************************************************************)
(* A control.                                                              *)
(***************************************************************************)
\* _load_state: a missing turn is an invalid token and nothing happens; an
\* expired one is deleted before the control is rejected.
Load(p, c) ==
  /\ pc[p] = "idle"
  /\ turn.exists
  /\ Called
  /\ pc' = [pc EXCEPT ![p] = IF expired THEN "drop" ELSE "sweep"]
  /\ job' = [job EXCEPT ![p] = [kind |-> "control", control |-> c, seen |-> turn,
                                task |-> 0, month |-> 1, base |-> 0, done |-> 0]]
  /\ UNCHANGED <<turn, expired, month, logs, opened, settings, answers, granted, resumed, faults>>

Drop(p) ==
  /\ pc[p] = "drop"
  /\ TryDiscard
  /\ Done(p)
  /\ UNCHANGED <<expired, month, logs, opened, settings, answers, granted, resumed, calls>>

\* sweep_expired reads the clock again, and every turn file.
Sweep(p) ==
  /\ pc[p] = "sweep"
  /\ IF expired THEN TryDiscard ELSE UNCHANGED <<month, turn, faults>>
  /\ Goto(p, "decide")
  /\ UNCHANGED <<expired, month, logs, opened, settings, answers, granted, resumed, calls>>

\* Mutant: the message id alone makes a replay.
ReplayById(p) ==
  LET c == job[p].control
      t == job[p].seen
  IN  /\ pc[p] = "decide"
      /\ \E a \in Prior(t, c) : Answer(c, a)
      /\ Done(p)
      /\ UNCHANGED <<turn, expired, month, logs, opened, settings, granted, resumed, calls, faults>>

\* A message id the turn remembers: the stored result if the tag is the same.
Replay(p) ==
  LET c == job[p].control
      t == job[p].seen
  IN  /\ pc[p] = "decide"
      /\ \E a \in Prior(t, c) : IF a.tag = Tag(c) THEN Answer(c, a) ELSE UNCHANGED answers
      /\ Done(p)
      /\ UNCHANGED <<turn, expired, month, logs, opened, settings, granted, resumed, calls, faults>>

\* Capacity exhausted, or not legal in the phase that was loaded.
Refuse(p) ==
  LET c == job[p].control
      t == job[p].seen
  IN  /\ pc[p] = "decide"
      /\ Prior(t, c) = {}
      /\ Cardinality(t.accepted) >= MaxAccepted \/ t.phase \notin LegalIn[c.type]
      /\ Done(p)
      /\ UNCHANGED <<turn, expired, month, logs, opened, settings, answers, granted, resumed, calls, faults>>

\* Mutant: a message id that was accepted before is not looked for.
MutateAgain(p) ==
  LET c == job[p].control
      t == job[p].seen
  IN  /\ pc[p] = "decide"
      /\ Cardinality(t.accepted) < MaxAccepted
      /\ t.phase \in LegalIn[c.type]
      /\ settings' = [settings EXCEPT ![c.id] = IF c.type = "feedback" THEN @ + 1 ELSE @]
      /\ pc' = [pc EXCEPT ![p] = IF EventsOf(t, c) = <<>> THEN "settle" ELSE "append"]
      /\ job' = [job EXCEPT ![p].task = t.task, ![p].month = month,
                            ![p].base = Len(Filed(t.task, month))]
      /\ UNCHANGED <<turn, expired, month, logs, opened, answers, granted, resumed, calls, faults>>

\* _mutate: the log is read where it is filed this month, the events are dated and
\* numbered from its length (a begin's from 1), feedback changes the settings file at once.
Mutate(p) ==
  LET c == job[p].control
      t == job[p].seen
  IN  /\ pc[p] = "decide"
      /\ Prior(t, c) = {}
      /\ Cardinality(t.accepted) < MaxAccepted
      /\ t.phase \in LegalIn[c.type]
      /\ settings' = [settings EXCEPT ![c.id] = IF c.type = "feedback" THEN @ + 1 ELSE @]
      /\ pc' = [pc EXCEPT ![p] = IF EventsOf(t, c) = <<>> THEN "settle" ELSE "append"]
      /\ job' = [job EXCEPT ![p].task = t.task, ![p].month = month,
                            ![p].base = Len(Filed(t.task, month))]
      /\ UNCHANGED <<turn, expired, month, logs, opened, answers, granted, resumed, calls, faults>>

\* TaskStore.append of the next event: its sequence must follow the log that is filed
\* under the event's month, and the reducer must take it.
Current(p) == EventsOf(job[p].seen, job[p].control)[job[p].done + 1]
Fits(p) == LET found == Filed(job[p].task, job[p].month) IN
           /\ Len(found) = job[p].base + job[p].done
           /\ Applicable(Projection(found), Current(p))

\* The event is durable; a begin's first event opens a log under a fresh task id.
Durable(p) ==
  LET j == job[p]
      entry == Entry(Log(j.task), Current(p), j.control.id)
  IN  /\ logs' = IF j.task = 0 THEN Append(logs, <<entry>>)
                 ELSE [logs EXCEPT ![j.task] = Append(@, entry)]
      /\ opened' = IF j.task = 0 THEN Append(opened, j.month) ELSE opened

\* Mutant: the first event is taken for all of them.
RecordFirst(p) ==
  /\ pc[p] = "append"
  /\ Fits(p)
  /\ Durable(p)
  /\ pc' = [pc EXCEPT ![p] = "settle"]
  /\ job' = [job EXCEPT ![p].done = @ + 1, ![p].task = IF @ = 0 THEN Len(logs) + 1 ELSE @]
  /\ UNCHANGED <<turn, expired, month, settings, answers, granted, resumed, calls, faults>>

Record(p) ==
  /\ pc[p] = "append"
  /\ Fits(p)
  /\ Durable(p)
  /\ pc' = [pc EXCEPT ![p] = IF job[p].done + 1 = Len(EventsOf(job[p].seen, job[p].control))
                             THEN "settle" ELSE "append"]
  /\ job' = [job EXCEPT ![p].done = @ + 1, ![p].task = IF @ = 0 THEN Len(logs) + 1 ELSE @]
  /\ UNCHANGED <<turn, expired, month, settings, answers, granted, resumed, calls, faults>>

\* Mutant: an append that is refused is taken for one that was done before.
SkipRefused(p) ==
  /\ pc[p] = "append"
  /\ ~Fits(p)
  /\ Goto(p, "settle")
  /\ UNCHANGED <<turn, expired, month, logs, opened, settings, answers, granted, resumed, calls, faults>>

\* The record has moved on; the control is rejected, events and all.
RecordRefused(p) ==
  /\ pc[p] = "append"
  /\ ~Fits(p)
  /\ Done(p)
  /\ UNCHANGED <<turn, expired, month, logs, opened, settings, answers, granted, resumed, calls, faults>>

\* The store fails, with the line written or not.
RecordFails(p) ==
  /\ pc[p] = "append"
  /\ UNCHANGED <<logs, opened>> \/ (Fits(p) /\ Durable(p))
  /\ Done(p)
  /\ Fault
  /\ UNCHANGED <<turn, expired, month, settings, answers, granted, resumed, calls>>

\* The state a control leaves the turn in.
Replacement(p) ==
  LET c == job[p].control
      t == job[p].seen
  IN  [t EXCEPT !.phase = NextPhase(c, @), !.task = job[p].task,
                !.accepted = @ \cup {Accepted(c, t, job[p].task)}]

\* An accepted control that does not close the turn is remembered by it.
Accept(p) ==
  LET c == job[p].control
      a == Accepted(c, job[p].seen, job[p].task)
  IN  /\ pc[p] = "settle" /\ ~Closes(c)
      /\ Swap(job[p].seen, Replacement(p))
      /\ Answer(c, a)
      /\ Grant(a)
      /\ Done(p)
      /\ UNCHANGED <<expired, month, logs, opened, settings, resumed, calls, faults>>

\* Somebody else changed the turn: the control is rejected, though its events
\* are in the log by now.
Conflict(p) ==
  /\ pc[p] = "settle" /\ ~Closes(job[p].control)
  /\ turn # job[p].seen
  /\ Done(p)
  /\ UNCHANGED <<turn, expired, month, logs, opened, settings, answers, granted, resumed, calls, faults>>

\* A hold or a cancel deletes the turn, whatever it is by now.
Close(p) ==
  LET c == job[p].control
      a == Accepted(c, job[p].seen, job[p].task)
  IN  /\ pc[p] = "settle" /\ Closes(c)
      /\ Discard
      /\ Answer(c, a)
      /\ Grant(a)
      /\ Done(p)
      /\ UNCHANGED <<expired, month, logs, opened, settings, resumed, calls, faults>>

\* The turn store fails, with its file replaced or deleted, or not.
SettleFails(p) ==
  /\ pc[p] = "settle"
  /\ \/ UNCHANGED turn
     \/ Closes(job[p].control) /\ Discard
     \/ ~Closes(job[p].control) /\ Swap(job[p].seen, Replacement(p))
  /\ Done(p)
  /\ Fault
  /\ UNCHANGED <<expired, month, logs, opened, settings, answers, granted, resumed, calls>>

-----------------------------------------------------------------------------
(***************************************************************************)
(* A Stop hook.  The verifier's outcome is any; whatever is not a repair   *)
(* deletes the turn.                                                       *)
(***************************************************************************)
Stop(p) ==
  /\ pc[p] = "idle"
  /\ turn.exists
  /\ Called
  /\ pc' = [pc EXCEPT ![p] = "verify"]
  /\ job' = [job EXCEPT ![p] = [kind |-> "stop", seen |-> turn]]
  /\ UNCHANGED <<turn, expired, month, logs, opened, settings, answers, granted, resumed, faults>>

\* It passes, holds, has spent its repair, or cannot verify or repair.
StopEnds(p) ==
  /\ pc[p] = "verify"
  /\ Discard
  /\ Done(p)
  /\ UNCHANGED <<expired, month, logs, opened, settings, answers, granted, resumed, calls, faults>>

\* The repair is reserved, and the host continues once.
Reserve(p) ==
  /\ pc[p] = "verify"
  /\ job[p].seen.repairs = 0
  /\ Swap(job[p].seen, [job[p].seen EXCEPT !.repairs = 1])
  /\ resumed' = resumed + 1
  /\ Done(p)
  /\ UNCHANGED <<expired, month, logs, opened, settings, answers, granted, calls, faults>>

\* The race is lost: a limitation, and no cleanup of a state another caller owns.
ReserveConflict(p) ==
  /\ pc[p] = "verify"
  /\ job[p].seen.repairs = 0
  /\ turn # job[p].seen
  /\ Done(p)
  /\ UNCHANGED <<turn, expired, month, logs, opened, settings, answers, granted, resumed, calls, faults>>

\* The swap raises, done or not: no continuation either.
ReserveFails(p) ==
  /\ pc[p] = "verify"
  /\ job[p].seen.repairs = 0
  /\ UNCHANGED turn \/ Swap(job[p].seen, [job[p].seen EXCEPT !.repairs = 1])
  /\ Done(p)
  /\ Fault
  /\ UNCHANGED <<expired, month, logs, opened, settings, answers, granted, resumed, calls>>

-----------------------------------------------------------------------------
\* A process is killed between two steps, or its call ends there because a read
\* of a store, the settings or the cleanup of a Stop fails.
Crash(p) ==
  /\ pc[p] # "idle"
  /\ Done(p)
  /\ Fault
  /\ UNCHANGED <<turn, expired, month, logs, opened, settings, answers, granted, resumed, calls>>

\* Six hours pass.
Expire ==
  /\ ~expired
  /\ expired' = TRUE
  /\ UNCHANGED <<turn, month, logs, opened, pc, job, settings, answers, granted, resumed, calls, faults>>

\* A month ends.  It makes no difference until something is filed, or about to be, nor
\* when nobody can append to it any more.
NewMonth ==
  /\ month < MaxMonths
  /\ logs # <<>> \/ \E p \in Procs : pc[p] = "append"
  /\ turn.exists \/ \E p \in Procs : pc[p] \in {"sweep", "decide", "append"}
  /\ month' = month + 1
  /\ UNCHANGED <<turn, expired, logs, opened, pc, job, settings, answers, granted, resumed,
                 calls, faults>>

\* The session ends, or another turn's start sweeps an expired one.
EndSession ==
  /\ turn.exists
  /\ Discard
  /\ UNCHANGED <<expired, month, logs, opened, pc, job, settings, answers, granted, resumed, calls, faults>>

Next ==
  \/ \E p \in Procs :
       \/ \E c \in Controls : Load(p, c)
       \/ Drop(p) \/ Sweep(p) \/ Replay(p) \/ Refuse(p) \/ Mutate(p)
       \/ Record(p) \/ RecordRefused(p) \/ RecordFails(p)
       \/ Accept(p) \/ Conflict(p) \/ Close(p) \/ SettleFails(p)
       \/ Stop(p) \/ StopEnds(p) \/ Reserve(p) \/ ReserveConflict(p) \/ ReserveFails(p)
       \/ Crash(p)
  \/ Expire
  \/ NewMonth
  \/ EndSession

Spec == Init /\ [][Next]_vars

-----------------------------------------------------------------------------
(***************************************************************************)
(* Properties.                                                             *)
(***************************************************************************)
EntryRecords == [event : Events, by : Ids, after : Projections]
Acceptances == [id : Ids, tag : {Tag(c) : c \in Controls}, durable : BOOLEAN,
                task : 0..Len(logs)]
Turns == [exists : BOOLEAN, recording : BOOLEAN, task : 0..Len(logs), phase : States,
          accepted : SUBSET Acceptances, repairs : {0, 1}]

\* Types; at most MaxAccepted controls are remembered, each message id once.
TypeOK ==
  /\ turn \in Turns
  /\ Cardinality(turn.accepted) <= MaxAccepted
  /\ \A a, b \in turn.accepted : a.id = b.id => a = b
  /\ expired \in BOOLEAN
  /\ month \in 1..MaxMonths
  /\ opened \in [1..Len(logs) -> 1..month]
  /\ \A t \in 1..Len(logs) : logs[t] # <<>> /\ \A i \in 1..Len(logs[t]) : logs[t][i] \in EntryRecords
  /\ \A p \in Procs :
       /\ pc[p] \in {"idle", "drop", "sweep", "decide", "append", "settle", "verify"}
       /\ pc[p] = "idle" <=> job[p] = NoJob
       /\ pc[p] # "idle" => job[p].seen \in Turns /\ job[p].seen.exists
       /\ pc[p] \in {"append", "settle"} => job[p].task \in 0..Len(logs)
  /\ settings \in [Ids -> Nat]
  /\ granted \in [Ids -> Nat]
  /\ answers \subseteq [id : Ids, tag : {Tag(c) : c \in Controls}, task : 0..Len(logs)]
  /\ resumed \in Nat
  /\ calls \in 0..MaxCalls
  /\ faults \in 0..MaxFaults

\* The events of a run, in order and next to each other, under one message id.
RecordedIn(ls, es, id) ==
  \E k \in 0..Len(ls) - Len(es) : \A i \in 1..Len(es) : ls[k + i].event = es[i] /\ ls[k + i].by = id

\* Whatever a turn remembers as durably accepted is in its task's log, whole and
\* not interleaved with another control's events (or in the settings).
AcceptedIsRecorded ==
  \A a \in turn.accepted : a.durable =>
    IF a.tag[1] = "feedback" THEN settings[a.id] >= 1
    ELSE RecordedIn(Log(turn.task), PublicEvents[a.tag[1]], a.id)

\* A begin whose swap was lost leaves an orphan log behind (each attempt has a
\* fresh task id); no other control ever continues an orphan.
OrphansStayOrphans ==
  \A t \in 1..Len(logs) : t # turn.task =>
    \A i \in 1..Len(logs[t]) : \E c \in Controls : c.id = logs[t][i].by /\ c.type = "begin"

\* How far a task has come.  Controls only move forward through these.
Rank == [ new |-> 0, framing |-> 1, working |-> 2, rejudging |-> 3, cross_examining |-> 4,
          verifying |-> 5, bypassed |-> 6, concluded |-> 6, cancelled |-> 6,
          insufficient |-> 6, degraded |-> 6 ]

\* As long as every artifact was confirmed the turn never claims to be further
\* than its durable record: a lost call puts the log ahead, never behind.
LogLeads ==
  turn.recording /\ turn.task # 0 /\ (\A a \in turn.accepted : a.durable) =>
    Rank[turn.phase] <= Rank[Projection(Log(turn.task)).state]

\* A message id is durably accepted once, whoever retries it how often.
AcceptedOnce == \A i \in Ids : granted[i] <= 1

\* Everyone who is told that a message id was durably accepted, at first or as a
\* replay, sent the same command and is told of the same task.
AnswersAgree == \A a, b \in answers : a.id = b.id => a = b

\* "a crash, re-entry, or concurrent Stop call cannot create a second
\* continuation" (handle_stop.py).
OneContinuation == resumed <= 1

\* A deleted turn is never brought back by a call that had loaded it.
NeverReissued == [][~turn.exists => ~turn'.exists]_vars

\* A control reserves nothing and a Stop forgets nothing: the repair that was
\* reserved and the controls that were accepted stay in the turn.
NothingForgotten ==
  [][turn.accepted \subseteq turn'.accepted /\ turn'.repairs >= turn.repairs]_vars

\* What an "opaque idempotency key" promises (accepted_control_for): however often
\* a message is sent again, a task records its events once.
RecordedOnce ==
  \A t \in 1..Len(logs) : \A i, j \in 1..Len(logs[t]) :
    logs[t][i].by = logs[t][j].by /\ logs[t][i].event = logs[t][j].event => i = j
=============================================================================

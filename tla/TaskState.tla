------------------------------ MODULE TaskState ------------------------------
(***************************************************************************)
(* The pure core of a judgment record: which event may follow which task   *)
(* state (domain/task_state.py) and what the reducer keeps of the history  *)
(* (domain/reducer.py).  Of the public payloads only the field that the    *)
(* transition reads is kept: the participation reason of task_started and  *)
(* the terminal reason of task_concluded, reduced to the class of reasons  *)
(* the code distinguishes.  Ids, times, locale and text are left out.      *)
(***************************************************************************)
EXTENDS Naturals, Sequences

States == {"new", "framing", "working", "rejudging", "cross_examining",
           "verifying", "bypassed", "concluded", "cancelled",
           "insufficient", "degraded"}

\* The states _allowed refuses everything from (a recovery marker excepted).
Final == {"bypassed", "concluded", "cancelled", "insufficient"}

Judging == {"framing", "working", "rejudging"}
Closable == Judging \cup {"cross_examining", "verifying", "degraded"}

\* _allowed, as the set of states each event type may be appended in.
LegalFrom ==
  [ task_started                |-> {"new"},
    framing_published           |-> {"framing"},
    method_selected             |-> Judging,
    method_activated            |-> Judging,
    judgment_started            |-> Judging,
    observation_check_requested |-> Judging,
    intervention_published      |-> Judging,
    claim_published             |-> Judging,
    source_published            |-> Judging,
    alternative_published       |-> Judging,
    conflict_published          |-> {"working", "rejudging"},
    conflict_resolved           |-> {"rejudging"},
    conclusion_published        |-> {"working", "rejudging"},
    cross_exam_completed        |-> {"cross_examining"},
    completion_checked          |-> {"verifying"},
    repair_requested            |-> {"verifying"},
    verification_failed         |-> {"verifying"},
    capability_degraded         |-> States \ (Final \cup {"new"}),
    task_concluded              |-> Closable,
    task_insufficient           |-> Closable,
    task_cancelled              |-> States \ (Final \cup {"new"}),
    recovered_from_torn_tail    |-> States ]

EventTypes == DOMAIN LegalFrom

\* An event carries its type and the one payload field the transition reads.
Event(type, arg) == [type |-> type, arg |-> arg]

\* Where task_concluded leads, by class of terminal reason; every reason the
\* code does not name leads to insufficient, as evidence_missing does.
Closing == [ mechanical         |-> "bypassed",
             user_cancelled     |-> "cancelled",
             criteria_satisfied |-> "concluded",
             capability_missing |-> "degraded",
             evidence_missing   |-> "insufficient" ]

Plain == {Event(t, "-") : t \in EventTypes \ {"task_started", "task_concluded"}}
Starts == {Event("task_started", a) : a \in {"judgment", "mechanical"}}
Concludes == {Event("task_concluded", a) : a \in DOMAIN Closing}
Events == Plain \cup Starts \cup Concludes

Recovered == Event("recovered_from_torn_tail", "-")

(***************************************************************************)
(* transition_state for an event that is legal.                            *)
(***************************************************************************)
MovesTo == [ framing_published    |-> "working",
             conflict_published   |-> "rejudging",
             conflict_resolved    |-> "working",
             conclusion_published |-> "cross_examining",
             cross_exam_completed |-> "verifying",
             repair_requested     |-> "working",
             verification_failed  |-> "insufficient",
             task_insufficient    |-> "insufficient",
             task_cancelled       |-> "cancelled" ]

NextState(s, e) ==
  IF e.type \in DOMAIN MovesTo THEN MovesTo[e.type]
  ELSE IF e.type = "task_concluded" THEN Closing[e.arg]
  ELSE IF e = Event("task_started", "mechanical") THEN "bypassed"
  ELSE IF e.type = "task_started" THEN "framing"
  ELSE IF e.type = "capability_degraded" /\ s = "verifying" THEN "degraded"
  ELSE s

(***************************************************************************)
(* The reducer.  A projection keeps the state and whether the single       *)
(* repair has been spent; Illegal stands for the ReducerError.             *)
(***************************************************************************)
Projections == [state : States, repairs : {0, 1}]
Illegal == [state |-> "illegal", repairs |-> 0]
NewTask == [state |-> "new", repairs |-> 0]

\* The first event must be task_started; only one repair is ever replayable.
Applicable(p, e) ==
  /\ p.state \in LegalFrom[e.type]
  /\ p.state = "new" => e.type = "task_started"
  /\ e.type = "repair_requested" => p.repairs = 0

Apply(p, e) ==
  IF Applicable(p, e)
  THEN [state   |-> NextState(p.state, e),
        repairs |-> IF e.type = "repair_requested" THEN 1 ELSE p.repairs]
  ELSE Illegal

(***************************************************************************)
(* A line of a record is an event with its sequence.  "after" is history:  *)
(* the projection the reducer reaches when it replays the log up to the    *)
(* line, Illegal when the replay fails there.                              *)
(***************************************************************************)
Line == [seq : Nat \ {0}, event : Events, after : Projections \cup {Illegal}]

\* reduce_events over a log whose lines were legal one by one.
Projection(ls) == IF ls = <<>> THEN NewTask ELSE ls[Len(ls)].after

LineFor(ls, s, e) == [seq |-> s, event |-> e, after |-> Apply(Projection(ls), e)]
=============================================================================

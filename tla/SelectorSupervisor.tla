------------------------- MODULE SelectorSupervisor -------------------------
(***************************************************************************)
(* One model call of the selector (selector/sdk.py, selector/sdk_worker.py *)
(* and the caller in selector/application.py).                             *)
(*                                                                         *)
(* A call spawns a worker process and waits on three things at once: the   *)
(* worker's answer, a cancellation and the worker's end, until a deadline. *)
(* The worker leads a process group of its own; it starts a helper (the    *)
(* SDK's app-server), and a watchdog thread of the worker closes the       *)
(* helper at the deadline or on SIGTERM while the main thread is using it. *)
(* Other threads of the parent may cancel all calls or close the selector. *)
(***************************************************************************)
EXTENDS Naturals, FiniteSets

CONSTANTS Calls,   \* calls of select()
          Closers  \* threads that call cancel() or close(), once each

VARIABLES
  closed,  \* _closed
  active,  \* _active_workers
  call,    \* the supervising thread of each call
  worker,  \* the worker process of each call, its threads and its helper
  closer   \* the cancelling threads

vars == <<closed, active, call, worker, closer>>

-----------------------------------------------------------------------------
\* The clock of a call: before cancel_at, before kill_at, after kill_at.
CancelAt == 1
KillAt == 2

\* "dead" was killed or ended by the supervisor, "crashed" by something else.
Over == {"exited", "dead", "crashed"}
Alive(w) == w.pc \notin {"none"} \cup Over
Completed(w) == w.pc \in {"finished", "sent"}

NewCall == [pc |-> "idle", clock |-> 0, asked |-> FALSE, early |-> FALSE,
            received |-> "none", result |-> "none"]
NoWorker == [pc |-> "none", grouped |-> FALSE, watcher |-> "none", codex |-> "none",
             helper |-> "none", cancelled |-> FALSE, answer |-> FALSE, pipe |-> "open"]

Init ==
  /\ closed = FALSE
  /\ active = {}
  /\ call = [c \in Calls |-> NewCall]
  /\ worker = [c \in Calls |-> NoWorker]
  /\ closer = [k \in Closers |-> [pc |-> "idle", op |-> "cancel", todo |-> {}, at |-> {}]]

\* Both pipe ends and the sentinel close as a process ends, in either order.
Ends(w, how) == {[w EXCEPT !.pc = how, !.pipe = p] :
                   p \in IF w.pipe = "open" THEN {"open", "eof"} ELSE {w.pipe}}

\* A helper that may be running: "running" while its client will still be closed, "late"
\* if it was started behind the last close(), "unclosed" if that close() raised.
Left == {"running", "late", "unclosed"}

\* _signal_worker(SIGTERM): the group if it exists, else the process, which
\* has no handler before it has a group. The helper may obey or not.
Terminated(w) ==
  IF w.grouped
  THEN {[w EXCEPT !.cancelled = @ \/ Alive(w), !.helper = h] :
          h \in {w.helper} \cup (IF w.helper \in Left THEN {"gone"} ELSE {})}
  ELSE IF w.pc = "boot" THEN Ends(w, "dead")
  ELSE {[w EXCEPT !.cancelled = @ \/ Alive(w)]}

\* _signal_worker(SIGKILL)
Killed(w) ==
  LET after == IF Alive(w) THEN Ends(w, "dead") ELSE {w}
  IN {[v EXCEPT !.helper = IF w.grouped /\ @ \in Left THEN "gone" ELSE @] :
        v \in after}

Becomes(c, outcomes) == \E w \in outcomes : worker' = [worker EXCEPT ![c] = w]
CallGoes(c, step) == call' = [call EXCEPT ![c].pc = step]
-----------------------------------------------------------------------------
(* The supervising thread. *)

\* Mutant: a closed selector still starts workers.
StartWhenClosed(c) ==
  /\ call[c].pc = "idle"
  /\ active' = active \cup {c}
  /\ worker' = [worker EXCEPT ![c].pc = "boot"]
  /\ CallGoes(c, "waiting")
  /\ UNCHANGED <<closed, closer>>

\* _start_worker: checked, started and registered under _state_lock. A call
\* with an invalid request, or whose process cannot start, ends the same way.
Start(c) ==
  /\ call[c].pc = "idle"
  /\ \/ /\ ~closed
        /\ active' = active \cup {c}
        /\ worker' = [worker EXCEPT ![c].pc = "boot"]
        /\ CallGoes(c, "waiting")
     \/ CallGoes(c, "done") /\ UNCHANGED <<active, worker>>
  /\ UNCHANGED <<closed, closer>>

\* Mutant: the answer is looked at before the cancellation.
AnswerFirst(c) == worker[c].pipe # "open"

\* What wait() finds, in the order _supervise_worker looks at it.
CancelReady(c) == call[c].asked
AnswerReady(c) == ~CancelReady(c) /\ worker[c].pipe # "open"
EndReady(c) == ~CancelReady(c) /\ ~AnswerReady(c) /\ worker[c].pc \in Over

SeeCancel(c) ==
  /\ call[c].pc = "waiting" /\ CancelReady(c)
  /\ call' = [call EXCEPT ![c].pc = "terminate", ![c].early = TRUE]
  /\ UNCHANGED <<closed, active, worker, closer>>

SeeAnswer(c) ==
  /\ call[c].pc = "waiting" /\ AnswerReady(c)
  /\ call' = [call EXCEPT ![c].pc = "draining", ![c].received = worker[c].pipe]
  /\ UNCHANGED <<closed, active, worker, closer>>

SeeEnd(c) ==
  /\ call[c].pc = "waiting" /\ EndReady(c)
  /\ Becomes(c, Killed(worker[c]))
  /\ CallGoes(c, "finish")
  /\ UNCHANGED <<closed, active, closer>>

\* Nothing by cancel_at.
GiveUp(c) ==
  /\ call[c].pc = "waiting" /\ call[c].clock >= CancelAt
  /\ ~CancelReady(c) /\ ~AnswerReady(c) /\ ~EndReady(c)
  /\ CallGoes(c, "terminate")
  /\ UNCHANGED <<closed, active, worker, closer>>

\* wait() raises.
WaitFails(c) ==
  /\ call[c].pc = "waiting"
  /\ CallGoes(c, "terminate")
  /\ UNCHANGED <<closed, active, worker, closer>>

\* _cancel_and_reap: ask, ...
Terminate(c) ==
  /\ call[c].pc = "terminate"
  /\ Becomes(c, Terminated(worker[c]))
  /\ CallGoes(c, "stopping")
  /\ UNCHANGED <<closed, active, closer>>

\* Mutant: the worker is waited for, and never killed.
ReapWithoutKill(c) ==
  /\ call[c].pc = "stopping"
  /\ ~Alive(worker[c])
  /\ CallGoes(c, "finish")
  /\ UNCHANGED <<closed, active, worker, closer>>

\* ... wait for the end, and kill if it does not come. A cancelled call waits
\* at most three seconds, whatever its own clock says.
Reap(c) ==
  /\ call[c].pc = "stopping"
  /\ \/ ~Alive(worker[c]) /\ UNCHANGED worker
     \/ /\ Alive(worker[c]) /\ (call[c].clock >= KillAt \/ call[c].early)
        /\ Becomes(c, Killed(worker[c]))
  /\ CallGoes(c, "finish")
  /\ UNCHANGED <<closed, active, closer>>

\* Mutant: once the answer is there, nobody makes the worker end.
DrainWithoutKill(c) ==
  /\ call[c].pc = "draining"
  /\ ~Alive(worker[c]) \/ call[c].clock >= KillAt
  /\ CallGoes(c, "finish")
  /\ UNCHANGED <<closed, active, worker, closer>>

\* With a message in hand: only the worker itself is waited for.
Drain(c) ==
  /\ call[c].pc = "draining"
  /\ \/ ~Alive(worker[c]) /\ UNCHANGED worker
     \/ Alive(worker[c]) /\ call[c].clock >= KillAt /\ Becomes(c, Killed(worker[c]))
  /\ CallGoes(c, "finish")
  /\ UNCHANGED <<closed, active, closer>>

\* The finally of select(): unregister, close every pipe and the process.
Finish(c) ==
  /\ call[c].pc = "finish"
  /\ active' = active \ {c}
  /\ call' = [call EXCEPT ![c].pc = "done",
                          ![c].result = IF call[c].received \in {"answer", "overruled"}
                                        THEN call[c].received ELSE "none"]
  /\ UNCHANGED <<closed, worker, closer>>

Tick(c) ==
  /\ call[c].pc \notin {"idle", "done"} /\ call[c].clock < KillAt
  /\ call' = [call EXCEPT ![c].clock = @ + 1]
  /\ UNCHANGED <<closed, active, worker, closer>>

Supervise(c) == SeeCancel(c) \/ SeeAnswer(c) \/ SeeEnd(c) \/ GiveUp(c)
                \/ Terminate(c) \/ Reap(c) \/ Drain(c) \/ Finish(c)
-----------------------------------------------------------------------------
(* The worker: its main thread, its watchdog thread and its helper. *)

WorkerStep(c, from, to) == worker[c].pc = from /\ worker' = [worker EXCEPT ![c] = to]
OnlyWorker == UNCHANGED <<closed, active, call, closer>>

\* setsid and the SIGTERM handler; then the group is announced and the
\* watchdog started.
Boot(c) ==
  /\ WorkerStep(c, "boot", [worker[c] EXCEPT !.pc = "armed"])
  /\ OnlyWorker

Announce(c) ==
  /\ WorkerStep(c, "armed", [worker[c] EXCEPT !.pc = "grouped", !.grouped = TRUE,
                                              !.watcher = "waiting"])
  /\ OnlyWorker

\* The last look at the cancellation before the SDK is loaded and configured.
Load(c) ==
  /\ ~worker[c].cancelled
  /\ WorkerStep(c, "grouped", [worker[c] EXCEPT !.pc = "loading"])
  /\ OnlyWorker

\* retain_codex, before client.start(): the watchdog may have been here already.
Retain(c) ==
  /\ WorkerStep(c, "loading", [worker[c] EXCEPT !.pc = "retained", !.codex = "kept"])
  /\ OnlyWorker

\* A client that the watchdog closed before this starts its helper all the
\* same, and nobody holds it any more: "late".
StartClient(c) ==
  /\ WorkerStep(c, "retained",
       [worker[c] EXCEPT !.pc = "calling",
                         !.helper = IF worker[c].codex = "taken" /\ worker[c].watcher = "done"
                                    THEN "late" ELSE "running"])
  /\ OnlyWorker

\* The turn ends; the answer counts unless the call was cancelled meanwhile.
TurnEnds(c) ==
  /\ ~worker[c].cancelled /\ worker[c].helper = "running"
  /\ WorkerStep(c, "calling", [worker[c] EXCEPT !.pc = "closing", !.answer = TRUE])
  /\ OnlyWorker

\* A cancellation is noticed, or anything raises.
Abandon(c) ==
  /\ worker[c].pc \in {"boot", "armed", "grouped", "loading", "retained", "calling"}
  /\ worker' = [worker EXCEPT ![c].pc = "closing"]
  /\ OnlyWorker

\* codex.close() ends the helper, or raises, which is not looked at.
Closed(helper) == IF helper = "running" THEN {"gone", "unclosed"} ELSE {helper}

\* close_codex of the main thread: whoever takes the client closes it.
CloseCodex(c) ==
  /\ IF worker[c].codex = "kept"
     THEN \E h \in Closed(worker[c].helper) :
            WorkerStep(c, "closing", [worker[c] EXCEPT !.pc = "closed", !.codex = "taken", !.helper = h])
     ELSE WorkerStep(c, "closing", [worker[c] EXCEPT !.pc = "closed"])
  /\ OnlyWorker

\* The last look at the cancellation, then completed and wake are set.
Conclude(c) ==
  /\ WorkerStep(c, "closed",
       [worker[c] EXCEPT !.pc = "finished", !.answer = @ /\ ~worker[c].cancelled])
  /\ OnlyWorker

\* Mutant: the watchdog is not joined.
SendUnjoined(c) ==
  /\ worker[c].pc = "finished"
  /\ worker' = [worker EXCEPT ![c].pc = "sent",
                              ![c].pipe = IF worker[c].answer THEN "answer" ELSE "empty"]
  /\ UNCHANGED <<closed, active, call, closer>>

\* The watchdog is joined and the one message sent. An answer sent after the
\* call was asked to stop is marked "overruled" here, for the properties.
Send(c) ==
  /\ worker[c].watcher \in {"none", "done"}
  /\ WorkerStep(c, "finished",
       [worker[c] EXCEPT !.pc = "sent",
                         !.pipe = IF ~worker[c].answer THEN "empty"
                                  ELSE IF call[c].asked THEN "overruled" ELSE "answer"])
  /\ OnlyWorker

Exit(c) ==
  /\ WorkerStep(c, "sent", [worker[c] EXCEPT !.pc = "exited"])
  /\ OnlyWorker

\* _watch_deadline wakes at cancel_at, on SIGTERM or at the end ...
Wake(c) ==
  /\ Alive(worker[c]) /\ worker[c].watcher = "waiting"
  /\ call[c].clock >= CancelAt \/ worker[c].cancelled \/ Completed(worker[c])
  /\ worker' = [worker EXCEPT ![c] =
       IF Completed(worker[c]) THEN [@ EXCEPT !.watcher = "done"]
       ELSE [@ EXCEPT !.cancelled = TRUE, !.watcher = "closing"]]
  /\ OnlyWorker

\* ... takes the client under the lock, and closes it outside.
Take(c) ==
  /\ Alive(worker[c]) /\ worker[c].watcher = "closing"
  /\ worker' = [worker EXCEPT ![c] =
       IF @.codex = "kept" THEN [@ EXCEPT !.codex = "taken", !.watcher = "ending"]
                           ELSE [@ EXCEPT !.watcher = "done"]]
  /\ OnlyWorker

EndHelper(c) ==
  /\ Alive(worker[c]) /\ worker[c].watcher = "ending"
  /\ \E h \in Closed(worker[c].helper) :
       worker' = [worker EXCEPT ![c].watcher = "done", ![c].helper = h]
  /\ OnlyWorker

\* The worker dies of something else: out of memory, a bug of the SDK.
Crash(c) ==
  /\ Alive(worker[c])
  /\ Becomes(c, Ends(worker[c], "crashed"))
  /\ OnlyWorker

Work(c) == Boot(c) \/ Announce(c) \/ Load(c) \/ Retain(c) \/ StartClient(c)
           \/ TurnEnds(c) \/ Abandon(c) \/ CloseCodex(c) \/ Conclude(c) \/ Send(c) \/ Exit(c)
           \/ Wake(c) \/ Take(c) \/ EndHelper(c) \/ Crash(c)
-----------------------------------------------------------------------------
(* cancel() and close() on other threads. *)

\* The snapshot of the active calls, under _state_lock.
Snapshot(k) ==
  /\ closer[k].pc = "idle"
  /\ \E op \in {"cancel", "close"} :
       /\ closed' = (closed \/ op = "close")
       /\ closer' = [closer EXCEPT ![k] = [pc |-> "send", op |-> op, todo |-> active, at |-> {}]]
  /\ UNCHANGED <<active, call, worker>>

\* _request_worker_cancellation: a message in the pipe, if it is still open ...
Ask(k, c) ==
  /\ closer[k].pc = "send" /\ c \in closer[k].todo
  /\ call' = [call EXCEPT ![c].asked = @ \/ call[c].pc # "done"]
  /\ closer' = [closer EXCEPT ![k].pc = "signal",
                              ![k].todo = @ \ {c}, ![k].at = {c}]
  /\ UNCHANGED <<closed, active, worker>>

\* ... and a SIGTERM, unless the process handle is closed by now.
Interrupt(k) ==
  /\ closer[k].pc = "signal"
  /\ \E c \in closer[k].at :
       IF call[c].pc = "done" THEN UNCHANGED worker
                              ELSE Becomes(c, Terminated(worker[c]))
  /\ closer' = [closer EXCEPT ![k].pc = "send", ![k].at = {}]
  /\ UNCHANGED <<closed, active, call>>

Return(k) ==
  /\ closer[k].pc = "send" /\ closer[k].todo = {}
  /\ closer' = [closer EXCEPT ![k].pc = "done"]
  /\ UNCHANGED <<closed, active, call, worker>>

CloserStep(k) == Snapshot(k) \/ (\E c \in Calls : Ask(k, c)) \/ Interrupt(k) \/ Return(k)
-----------------------------------------------------------------------------
Next ==
  \/ \E c \in Calls : Start(c) \/ Supervise(c) \/ WaitFails(c) \/ Tick(c) \/ Work(c)
  \/ \E k \in Closers : CloserStep(k)

Spec == Init /\ [][Next]_vars

\* Time passes and the parent's threads are scheduled; the worker, its
\* watchdog and the SDK may hang for ever.
FairSpec ==
  /\ Spec
  /\ \A c \in Calls : WF_vars(Supervise(c)) /\ WF_vars(Tick(c))
-----------------------------------------------------------------------------
WorkerPcs == {"none", "boot", "armed", "grouped", "loading", "retained", "calling",
              "closing", "closed", "finished", "sent"} \cup Over
Messages == {"answer", "overruled", "empty", "eof"}

CallRecords ==
  [pc : {"idle", "waiting", "terminate", "stopping", "draining", "finish", "done"},
   clock : 0 .. KillAt, asked : BOOLEAN, early : BOOLEAN,
   received : {"none"} \cup Messages, result : {"none", "answer", "overruled"}]

WorkerRecords ==
  [pc : WorkerPcs, grouped : BOOLEAN,
   watcher : {"none", "waiting", "closing", "ending", "done"},
   codex : {"none", "kept", "taken"}, helper : {"none", "gone"} \cup Left,
   cancelled : BOOLEAN, answer : BOOLEAN, pipe : {"open"} \cup Messages]

CloserRecords ==
  [pc : {"idle", "send", "signal", "done"}, op : {"cancel", "close"},
   todo : SUBSET Calls, at : SUBSET Calls]

\* The state has its shape, and a call is registered exactly while its worker
\* may be running: cancel() and close() find every one of them.
TypeOK ==
  /\ closed \in BOOLEAN
  /\ call \in [Calls -> CallRecords]
  /\ worker \in [Calls -> WorkerRecords]
  /\ closer \in [Closers -> CloserRecords]
  /\ active = {c \in Calls : call[c].pc \notin {"idle", "done"}}

\* When select() returns, its worker has ended, however the call ended.  A helper
\* outlives it in three ways only: its worker crashed, it was started after the watchdog
\* had closed its client, or closing that client raised; and in none of them if the
\* supervisor had to kill.
NothingLeft ==
  \A c \in Calls : call[c].pc = "done" =>
    /\ ~Alive(worker[c])
    /\ worker[c].helper = "running" => worker[c].pc = "crashed"
    /\ worker[c].helper \in Left => worker[c].pc # "dead"

\* An answer leaves the worker only when its client has been closed, so that the helper
\* is gone unless that raised, and its watchdog has finished: nothing of the call waits
\* to be done behind the answer.
AnswerMeansQuiet ==
  \A c \in Calls : worker[c].pipe \in {"answer", "overruled"} =>
    worker[c].helper \in {"gone", "unclosed"} /\ worker[c].watcher = "done"

\* A call that was asked to stop before its worker answered returns nothing,
\* even if the answer is there when the supervisor looks.
CancelOverrules == \A c \in Calls : call[c].result # "overruled"

\* Once close() has returned, a worker still running has been asked to stop:
\* no call slips in between the snapshot and the flag.
CloseReachesAll ==
  \A k \in Closers : closer[k].pc = "done" /\ closer[k].op = "close" =>
    \A c \in Calls : Alive(worker[c]) => call[c].asked

\* Every call returns, though its worker may hang at any step and no thread
\* cancels it: the deadline alone ends it.
EveryCallReturns == \A c \in Calls : call[c].pc = "waiting" ~> call[c].pc = "done"
=============================================================================

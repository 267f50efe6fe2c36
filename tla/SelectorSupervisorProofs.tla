---------------------- MODULE SelectorSupervisorProofs ----------------------
(***************************************************************************)
(* The safety of a selector call, for any number of calls and of threads   *)
(* that cancel.  Calls share only _closed and _active_workers, so almost   *)
(* all of the invariant speaks of one call (CallInv) and of one worker     *)
(* (WorkerInv): who holds the client, who may still be about to close the  *)
(* helper, and that a watchdog which woke early has set the cancellation   *)
(* before it touches anything.                                             *)
(***************************************************************************)
EXTENDS SelectorSupervisor, TLAPS

Early == {"none", "boot", "armed", "grouped", "loading", "retained"}

\* What holds of a worker whatever its supervisor does.
WorkerInv(w) ==
  /\ w.pc \in Early => w.helper = "none"
  /\ w.pc \in Early \cup {"calling"} => ~w.answer
  /\ w.pc \in {"none", "boot", "armed"} => ~w.grouped
  /\ w.pc \in {"grouped", "loading", "retained", "calling"} => w.grouped
  /\ ~w.grouped => w.watcher = "none" /\ w.codex = "none" /\ w.helper = "none"
  /\ w.pc \in {"retained", "calling"} => w.codex # "none"
  /\ w.pc \in Early \ {"retained"} => w.codex = "none"
  /\ w.grouped => w.watcher # "none"
  /\ w.codex = "none" => w.helper = "none"
  /\ w.watcher \in {"closing", "ending"} => w.cancelled
  /\ w.watcher = "done" /\ Alive(w) /\ ~Completed(w) => w.cancelled
  /\ w.watcher = "ending" => w.codex = "taken"
  /\ w.pc \in {"retained", "calling", "closing"} /\ w.codex = "taken"
        => w.cancelled /\ w.watcher \in {"ending", "done"}
  /\ w.helper = "late" => w.codex = "taken"
  /\ w.helper = "running" /\ w.codex = "taken" => w.watcher = "ending" \/ w.pc = "crashed"
  /\ w.pc = "calling" /\ ~w.cancelled => w.helper = "running"
  /\ w.pc \in {"closed", "finished", "sent", "exited"} /\ w.helper = "running"
        => w.watcher = "ending"
  /\ w.pc = "closing" /\ w.answer /\ ~w.cancelled => w.codex = "kept" /\ w.helper = "running"
  /\ w.pc = "closed" /\ w.answer /\ ~w.cancelled => w.helper \in {"gone", "unclosed"}
  /\ w.pc \in {"finished", "sent"} /\ w.answer => w.helper \in {"gone", "unclosed"}
  /\ w.pc \in {"sent", "exited"} => w.watcher \in {"none", "done"}
  /\ w.pipe \in {"answer", "overruled"} => /\ w.helper \in {"gone", "unclosed"} /\ w.watcher = "done"
                                           /\ w.pc \in {"sent"} \cup Over
  /\ w.pc = "dead" => w.helper \notin Left

\* How a call and its worker go together.
CallInv(cl, w) ==
  /\ WorkerInv(w)
  /\ cl.pc = "idle" => w.pc = "none"
  /\ cl.pc \in {"finish", "done"} => ~Alive(w)
  /\ w.pipe = "overruled" => cl.asked
  /\ cl.received # "overruled" /\ cl.result # "overruled"

\* What a thread that called close() has still to do.
CloserInv(k) ==
  /\ closer[k].pc = "done" => closer[k].todo = {}
  /\ closer[k].op = "close" /\ closer[k].pc # "idle" =>
       /\ closed
       /\ \A c \in Calls : Alive(worker[c]) => call[c].asked \/ c \in closer[k].todo

IInv ==
  /\ TypeOK
  /\ \A c \in Calls : CallInv(call[c], worker[c])
  /\ \A k \in Closers : CloserInv(k)
-----------------------------------------------------------------------------
\* The three properties of a call follow from the invariant.
LEMMA Enough == IInv => NothingLeft /\ AnswerMeansQuiet /\ CancelOverrules /\ CloseReachesAll
<1> SUFFICES ASSUME IInv
             PROVE  NothingLeft /\ AnswerMeansQuiet /\ CancelOverrules /\ CloseReachesAll
  OBVIOUS
<1>1. ASSUME NEW c \in Calls
      PROVE  /\ worker[c] \in WorkerRecords /\ call[c] \in CallRecords
             /\ CallInv(call[c], worker[c])
  BY <1>1 DEF IInv, TypeOK
<1>2. NothingLeft
  <2> SUFFICES ASSUME NEW c \in Calls, call[c].pc = "done"
               PROVE  /\ ~Alive(worker[c])
                      /\ worker[c].helper = "running" => worker[c].pc = "crashed"
                      /\ worker[c].helper \in Left => worker[c].pc # "dead"
    BY DEF NothingLeft
  <2>1. ~Alive(worker[c]) /\ WorkerInv(worker[c])
    BY <1>1 DEF CallInv
  <2>2. worker[c].pc \in {"none", "exited", "dead", "crashed"}
    BY <2>1, <1>1 DEF Alive, WorkerRecords, WorkerPcs, Over
  <2> QED
    BY <2>1, <2>2, <1>1 DEF WorkerInv, Early, Left
<1>3. AnswerMeansQuiet /\ CancelOverrules
  BY <1>1 DEF AnswerMeansQuiet, CancelOverrules, CallInv, WorkerInv
<1>4. CloseReachesAll
  <2> SUFFICES ASSUME NEW k \in Closers, closer[k].pc = "done", closer[k].op = "close",
                      NEW c \in Calls, Alive(worker[c])
               PROVE  call[c].asked
    BY DEF CloseReachesAll
  <2>1. CloserInv(k)
    BY DEF IInv
  <2>2. closer[k].todo = {}
    BY <2>1 DEF CloserInv
  <2> QED
    BY <2>1, <2>2 DEF CloserInv
<1> QED
  BY <1>2, <1>3, <1>4
-----------------------------------------------------------------------------
\* A step of one call, whoever takes it, seen from the whole system: what is
\* to be shown of the call and its worker, and what follows for the rest.
OneCall(c) ==
  /\ call' \in [Calls -> CallRecords] /\ worker' \in [Calls -> WorkerRecords]
  /\ \A d \in Calls \ {c} : call'[d] = call[d] /\ worker'[d] = worker[d]
  /\ CallInv(call'[c], worker'[c])
  /\ call[c].asked => call'[c].asked
  /\ Alive(worker'[c]) => Alive(worker[c]) \/ ~closed

Registered(c) ==
  active' = IF call'[c].pc \in {"idle", "done"} THEN active \ {c} ELSE active \cup {c}

\* A step of one call keeps every call sound and the registry exact.
LEMMA CallsNext ==
  ASSUME IInv, NEW c \in Calls, OneCall(c), Registered(c)
  PROVE  /\ \A d \in Calls : CallInv(call'[d], worker'[d])
         /\ active' = {d \in Calls : call'[d].pc \notin {"idle", "done"}}
<1>1. \A d \in Calls : CallInv(call'[d], worker'[d])
  BY DEF IInv, OneCall
<1>2. active = {d \in Calls : call[d].pc \notin {"idle", "done"}}
  BY DEF IInv, TypeOK
<1>3. \A d \in Calls \ {c} : call'[d] = call[d]
  BY DEF OneCall
<1> QED
  BY <1>1, <1>2, <1>3 DEF Registered

\* A step of one call keeps the invariant.
LEMMA OneCallStep ==
  ASSUME IInv, NEW c \in Calls, OneCall(c), Registered(c), UNCHANGED <<closed, closer>>
  PROVE  IInv'
<1>1. TypeOK'
  BY CallsNext DEF IInv, TypeOK, OneCall
<1>2. ASSUME NEW k \in Closers
      PROVE  CloserInv(k)'
  <2>1. CloserInv(k)
    BY DEF IInv
  <2>2. \A d \in Calls : /\ Alive(worker'[d]) => Alive(worker[d]) \/ ~closed
                         /\ call[d].asked => call'[d].asked
    BY DEF OneCall
  <2> QED
    BY <2>1, <2>2 DEF CloserInv
<1> QED
  BY <1>1, <1>2, CallsNext DEF IInv

-----------------------------------------------------------------------------
\* What a signal or an end makes of a worker. It never revives it.
SameWorkerOrEnded(w, v) ==
  /\ v \in WorkerRecords /\ WorkerInv(v)
  /\ Alive(v) => Alive(w)
  /\ w.pc = "none" => v.pc = "none"
  /\ v.pipe = "overruled" => w.pipe = "overruled"

\* A worker that ends is sound, and its helper with it.
LEMMA EndedWorker ==
  ASSUME NEW w \in WorkerRecords, WorkerInv(w), NEW how \in {"dead", "crashed"}, Alive(w),
         how = "dead" => w.helper \notin Left, NEW v \in Ends(w, how)
  PROVE  SameWorkerOrEnded(w, v) /\ ~Alive(v)
<1>1. PICK p \in {w.pipe, "eof"} : v = [w EXCEPT !.pc = how, !.pipe = p]
  BY DEF Ends
<1>2. /\ v.pc = how /\ v.pipe = p /\ v.helper = w.helper /\ v.watcher = w.watcher
      /\ v.codex = w.codex /\ v.cancelled = w.cancelled /\ v.answer = w.answer
      /\ v.grouped = w.grouped /\ v \in WorkerRecords
  BY <1>1 DEF WorkerRecords, WorkerPcs, Over, Messages
<1> QED
  BY <1>2 DEF Left, SameWorkerOrEnded, WorkerInv, Alive, Over, Early, Completed, WorkerRecords

\* A worker told to terminate goes on or ends.
LEMMA TerminatedWorker ==
  ASSUME NEW w \in WorkerRecords, WorkerInv(w), NEW v \in Terminated(w)
  PROVE  SameWorkerOrEnded(w, v)
<1>1. CASE ~w.grouped /\ w.pc = "boot"
  <2>1. v \in Ends(w, "dead") /\ Alive(w) /\ w.helper \notin Left
    BY <1>1 DEF Terminated, Alive, Over, WorkerInv, Early, Left
  <2> QED
    BY <2>1, EndedWorker
<1>2. CASE w.grouped \/ w.pc # "boot"
  <2>1. PICK h \in {w.helper, "gone"} :
          /\ v = [w EXCEPT !.cancelled = @ \/ Alive(w), !.helper = h]
          /\ h = w.helper \/ (h = "gone" /\ w.helper \in Left)
    BY <1>2 DEF Terminated, WorkerRecords
  <2>2. Alive(w) \in BOOLEAN
    BY DEF Alive
  <2>3. /\ v.pc = w.pc /\ v.pipe = w.pipe /\ v.helper = h /\ v.watcher = w.watcher
        /\ v.codex = w.codex /\ v.cancelled = (w.cancelled \/ Alive(w)) /\ v.answer = w.answer
        /\ v.grouped = w.grouped /\ v \in WorkerRecords
    BY <2>1, <2>2 DEF WorkerRecords
  <2> QED
    BY <2>1, <2>3 DEF Left, SameWorkerOrEnded, WorkerInv, Alive, Over, Early, Completed, WorkerRecords
<1> QED
  BY <1>1, <1>2

\* A killed worker has ended.
LEMMA KilledWorker ==
  ASSUME NEW w \in WorkerRecords, WorkerInv(w), w.pc # "none", NEW v \in Killed(w)
  PROVE  SameWorkerOrEnded(w, v) /\ ~Alive(v)
<1> DEFINE Without(u) == [u EXCEPT !.helper = IF w.grouped /\ @ \in Left
                                              THEN "gone" ELSE @]
<1>1. PICK u \in (IF Alive(w) THEN Ends(w, "dead") ELSE {w}) : v = Without(u)
  BY DEF Killed
<1>2. ASSUME Alive(w)
      PROVE  \E p \in {w.pipe, "eof"} : u = [w EXCEPT !.pc = "dead", !.pipe = p]
  BY <1>1, <1>2 DEF Ends
<1>3. \E p \in {w.pipe, "eof"}, q \in {w.pc, "dead"} :
        /\ u = [w EXCEPT !.pc = q, !.pipe = p]
        /\ q \in Over /\ (p # w.pipe => q = "dead")
  <2>1. CASE Alive(w)
    BY <1>2, <2>1 DEF Over
  <2>2. CASE ~Alive(w)
    <3>1. u = w /\ w.pc \in Over
      BY <1>1, <2>2 DEF Alive, WorkerRecords, WorkerPcs
    <3>2. w = [w EXCEPT !.pc = w.pc, !.pipe = w.pipe]
      BY DEF WorkerRecords
    <3> QED
      BY <3>1, <3>2
  <2> QED
    BY <2>1, <2>2
<1>4. PICK p \in {w.pipe, "eof"}, q \in {w.pc, "dead"} :
        /\ u = [w EXCEPT !.pc = q, !.pipe = p]
        /\ q \in Over /\ (p # w.pipe => q = "dead")
  BY <1>3
<1> DEFINE h == IF w.grouped /\ w.helper \in Left THEN "gone" ELSE w.helper
<1>5. /\ v.pc = q /\ v.pipe = p /\ v.helper = h /\ v.watcher = w.watcher
      /\ v.codex = w.codex /\ v.cancelled = w.cancelled /\ v.answer = w.answer
      /\ v.grouped = w.grouped /\ v \in WorkerRecords
  <2>1. v = [u EXCEPT !.helper = IF w.grouped /\ u.helper \in Left
                                 THEN "gone" ELSE u.helper]
    BY <1>1
  <2>2. /\ u \in WorkerRecords /\ u.pc = q /\ u.pipe = p /\ u.helper = w.helper
        /\ u.watcher = w.watcher /\ u.codex = w.codex /\ u.cancelled = w.cancelled
        /\ u.answer = w.answer /\ u.grouped = w.grouped
    <3>1. q \in WorkerPcs /\ p \in {"open"} \cup Messages
      BY DEF WorkerRecords, WorkerPcs, Over, Messages
    <3>2. u = [w EXCEPT !.pc = q, !.pipe = p]
      BY <1>4
    <3> HIDE DEF Without
    <3> QED
      BY <3>1, <3>2 DEF WorkerRecords
  <2> QED
    BY <2>1, <2>2 DEF WorkerRecords
<1> HIDE DEF h
<1>6. \/ h = w.helper /\ w.helper \notin Left
      \/ h = "gone" /\ w.helper \in Left /\ w.grouped
  <2>1. ~w.grouped => w.helper = "none"
    BY DEF WorkerInv
  <2> QED
    BY <2>1 DEF h, Left
<1>7. q \in Over /\ v.pc \notin Early \cup {"calling", "closing", "closed", "finished", "sent"}
      /\ ~Alive(v)
  BY <1>4, <1>5 DEF Over, Early, Alive
<1>8. ~w.grouped => w.helper = "none"
  BY DEF WorkerInv
<1>9. WorkerInv(v)
  <2>1. CASE h = w.helper /\ w.helper \notin Left
    BY <1>4, <1>5, <1>7, <1>8, <2>1 DEF Left, WorkerInv, Over, Early, Completed, WorkerRecords
  <2>2. CASE h = "gone" /\ w.helper \in Left /\ w.grouped
    BY <1>4, <1>5, <1>7, <2>2 DEF Left, WorkerInv, Over, Early, Completed, WorkerRecords
  <2> QED
    BY <1>6, <2>1, <2>2
<1>10. v.pipe = "overruled" => w.pipe = "overruled"
  BY <1>4, <1>5
<1> QED
  BY <1>5, <1>7, <1>9, <1>10 DEF SameWorkerOrEnded, Over
-----------------------------------------------------------------------------
\* A step that touches the worker alone.
LEMMA WorkerAlone ==
  ASSUME IInv, NEW c \in Calls, NEW v \in WorkerRecords, WorkerInv(v),
         worker' = [worker EXCEPT ![c] = v], OnlyWorker, Alive(worker[c]),
         v.pc # "none", v.pipe = "overruled" => call[c].asked
  PROVE  IInv'
<1>1. /\ call \in [Calls -> CallRecords] /\ worker \in [Calls -> WorkerRecords]
      /\ CallInv(call[c], worker[c])
      /\ active = {d \in Calls : call[d].pc \notin {"idle", "done"}}
  BY DEF IInv, TypeOK
<1>2. worker' \in [Calls -> WorkerRecords] /\ worker'[c] = v /\ call' = call
      /\ \A d \in Calls \ {c} : worker'[d] = worker[d]
  BY <1>1 DEF OnlyWorker
<1>3. CallInv(call[c], v)
  BY <1>1 DEF CallInv, Alive
<1>4. OneCall(c)
  BY <1>1, <1>2, <1>3 DEF OneCall
<1>5. Registered(c)
  BY <1>1, <1>2 DEF Registered, OnlyWorker
<1> QED
  BY <1>4, <1>5, OneCallStep DEF OnlyWorker

\* Every step of the worker, of its watchdog, and its death.
LEMMA WorkNext ==
  ASSUME IInv, NEW c \in Calls, Work(c)
  PROVE  IInv'
<1> DEFINE w == worker[c]
           v == worker'[c]
<1>1. /\ w \in WorkerRecords /\ WorkerInv(w) /\ worker \in [Calls -> WorkerRecords]
      /\ w.pipe = "overruled" => call[c].asked
  BY DEF IInv, TypeOK, CallInv
<1>2. OnlyWorker /\ Alive(w)
  BY <1>1 DEF Work, Boot, Announce, Load, Retain, StartClient, TurnEnds, Abandon, CloseCodex, Conclude,
              Send, Exit, Wake, Take, EndHelper, Crash, WorkerStep, Alive, Over
<1> SUFFICES ASSUME TRUE
             PROVE  /\ v \in WorkerRecords /\ WorkerInv(v) /\ v.pc # "none"
                    /\ worker' = [worker EXCEPT ![c] = v]
                    /\ v.pipe = "overruled" => call[c].asked
  BY <1>1, <1>2, WorkerAlone
<1> USE <1>1 DEF WorkerStep, Left
<1>3. CASE Boot(c)
  BY <1>3 DEF Boot, WorkerInv, Alive, Over, Early, Completed, WorkerRecords, WorkerPcs, Messages
<1>4. CASE Announce(c)
  BY <1>4 DEF Announce, WorkerInv, Alive, Over, Early, Completed, WorkerRecords, WorkerPcs, Messages
<1>5. CASE Retain(c)
  <2> DEFINE u == [w EXCEPT !.pc = "retained", !.codex = "kept"]
  <2>1. worker' = [worker EXCEPT ![c] = u]
    BY <1>5 DEF Retain
  <2>2. v = u /\ u \in WorkerRecords
    BY <2>1 DEF WorkerRecords, WorkerPcs
  <2>3. WorkerInv(u) /\ u.pc # "none" /\ u.pipe = w.pipe
    BY <1>5, <1>2 DEF Retain, WorkerInv, Alive, Over, Early, Completed, WorkerRecords
  <2> QED
    BY <2>1, <2>2, <2>3
<1>17. CASE Load(c)
  BY <1>17 DEF Load, WorkerInv, Alive, Over, Early, Completed, WorkerRecords, WorkerPcs, Messages
<1>6. CASE StartClient(c)
  BY <1>6 DEF StartClient, WorkerInv, Alive, Over, Early, Completed, WorkerRecords, WorkerPcs, Messages
<1>7. CASE TurnEnds(c)
  BY <1>7 DEF TurnEnds, WorkerInv, Alive, Over, Early, Completed, WorkerRecords, WorkerPcs, Messages
<1>8. CASE Abandon(c)
  BY <1>8 DEF Abandon, WorkerInv, Alive, Over, Early, Completed, WorkerRecords, WorkerPcs, Messages
<1>9. CASE CloseCodex(c)
  <2>1. PICK h \in Closed(w.helper) \cup {w.helper} :
          /\ w.pc = "closing"
          /\ IF w.codex = "kept"
             THEN /\ worker' = [worker EXCEPT ![c] = [w EXCEPT !.pc = "closed", !.codex = "taken",
                                                              !.helper = h]]
                  /\ h \in Closed(w.helper)
             ELSE worker' = [worker EXCEPT ![c] = [w EXCEPT !.pc = "closed"]] /\ h = w.helper
    BY <1>9 DEF CloseCodex
  <2> DEFINE u == [w EXCEPT !.pc = "closed", !.codex = IF w.codex = "kept" THEN "taken" ELSE @,
                            !.helper = h]
  <2>2. worker' = [worker EXCEPT ![c] = u]
    <3>1. CASE w.codex = "kept"
      BY <2>1, <3>1
    <3>2. CASE w.codex # "kept"
      <4>1. u = [w EXCEPT !.pc = "closed"]
        BY <2>1, <3>2 DEF WorkerRecords
      <4> QED
        BY <2>1, <3>2, <4>1
    <3> QED
      BY <3>1, <3>2
  <2>3. v = u /\ u \in WorkerRecords
    BY <2>1, <2>2 DEF WorkerRecords, WorkerPcs, Closed
  <2>4. WorkerInv(u) /\ u.pc # "none" /\ u.pipe = w.pipe
    BY <2>1, <1>2 DEF Closed, WorkerInv, Alive, Over, Early, Completed, WorkerRecords
  <2> QED
    BY <2>2, <2>3, <2>4
<1>10. CASE Conclude(c)
  BY <1>10 DEF Conclude, WorkerInv, Alive, Over, Early, Completed, WorkerRecords, WorkerPcs, Messages
<1>11. CASE Send(c)
  <2>1. v \in WorkerRecords /\ worker' = [worker EXCEPT ![c] = v]
    BY <1>11 DEF Send, WorkerRecords, WorkerPcs, Messages
  <2>2. WorkerInv(v)
    BY <1>11 DEF Send, WorkerInv, Alive, Over, Early, Completed, WorkerRecords
  <2> QED
    BY <1>11, <2>1, <2>2 DEF Send, Alive, WorkerRecords
<1>12. CASE Exit(c)
  BY <1>12 DEF Exit, WorkerInv, Alive, Over, Early, Completed, WorkerRecords, WorkerPcs, Messages
<1>13. CASE Wake(c)
  <2> DEFINE u == IF Completed(w) THEN [w EXCEPT !.watcher = "done"]
                  ELSE [w EXCEPT !.cancelled = TRUE, !.watcher = "closing"]
  <2>1. worker' = [worker EXCEPT ![c] = u]
    BY <1>13 DEF Wake
  <2>2. v = u /\ u \in WorkerRecords
    BY <2>1 DEF WorkerRecords, WorkerPcs
  <2>3. WorkerInv(u) /\ u.pc # "none" /\ u.pipe = w.pipe
    BY <1>13, <1>2 DEF Wake, WorkerInv, Alive, Over, Early, Completed, WorkerRecords
  <2> QED
    BY <2>1, <2>2, <2>3
<1>14. CASE Take(c)
  <2> DEFINE u == IF w.codex = "kept" THEN [w EXCEPT !.codex = "taken", !.watcher = "ending"]
                                     ELSE [w EXCEPT !.watcher = "done"]
  <2>1. worker' = [worker EXCEPT ![c] = u]
    BY <1>14 DEF Take
  <2>2. v = u /\ u \in WorkerRecords
    BY <2>1 DEF WorkerRecords, WorkerPcs
  <2>3. WorkerInv(u) /\ u.pc # "none" /\ u.pipe = w.pipe
    BY <1>14, <1>2 DEF Take, WorkerInv, Alive, Over, Early, Completed, WorkerRecords
  <2> QED
    BY <2>1, <2>2, <2>3
<1>15. CASE EndHelper(c)
  <2>1. PICK h \in Closed(w.helper) :
          worker' = [worker EXCEPT ![c].watcher = "done", ![c].helper = h]
    BY <1>15 DEF EndHelper
  <2> DEFINE u == [w EXCEPT !.watcher = "done", !.helper = h]
  <2>2. worker' = [worker EXCEPT ![c] = u]
    BY <2>1
  <2>3. v = u /\ u \in WorkerRecords
    BY <2>1, <2>2 DEF WorkerRecords, WorkerPcs, Closed
  <2>4. WorkerInv(u) /\ u.pc # "none" /\ u.pipe = w.pipe
    BY <1>15, <1>2, <2>1 DEF EndHelper, Closed, WorkerInv, Alive, Over, Early, Completed, WorkerRecords
  <2> QED
    BY <2>2, <2>3, <2>4
<1>16. CASE Crash(c)
  <2>1. PICK u \in Ends(w, "crashed") : worker' = [worker EXCEPT ![c] = u]
    BY <1>16 DEF Crash, Becomes
  <2>2. v = u
    BY <2>1
  <2> QED
    <3>1. SameWorkerOrEnded(w, v)
      BY <1>2, <2>1, <2>2, EndedWorker
    <3>2. v.pc = "crashed"
      BY <2>1, <2>2 DEF Ends, WorkerRecords
    <3> QED
      BY <2>1, <2>2, <3>1, <3>2 DEF SameWorkerOrEnded
<1> QED
  BY <1>3, <1>4, <1>5, <1>6, <1>7, <1>8, <1>9, <1>10, <1>11, <1>12, <1>13, <1>14, <1>15, <1>16, <1>17
     DEF Work
-----------------------------------------------------------------------------
\* A step of the supervising thread that leaves the worker alone.
LEMMA CallAlone ==
  ASSUME IInv, NEW c \in Calls, NEW d \in CallRecords, call' = [call EXCEPT ![c] = d],
         call[c].pc \notin {"idle", "done"}, d.pc \notin {"idle", "done"},
         d.pc = "finish" => call[c].pc = "finish", d.asked = call[c].asked, d.received # "overruled", d.result = call[c].result,
         UNCHANGED <<closed, active, worker, closer>>
  PROVE  IInv'
<1>1. /\ call \in [Calls -> CallRecords] /\ worker \in [Calls -> WorkerRecords]
      /\ CallInv(call[c], worker[c])
      /\ active = {e \in Calls : call[e].pc \notin {"idle", "done"}}
  BY DEF IInv, TypeOK
<1>2. call' \in [Calls -> CallRecords] /\ call'[c] = d
      /\ \A e \in Calls \ {c} : call'[e] = call[e]
  BY <1>1
<1>3. CallInv(d, worker[c])
  BY <1>1 DEF CallInv
<1>4. OneCall(c)
  BY <1>1, <1>2, <1>3 DEF OneCall
<1>5. Registered(c)
  BY <1>1, <1>2 DEF Registered
<1> QED
  BY <1>4, <1>5, OneCallStep

\* A step of the supervising thread that signals the worker and moves on.
LEMMA CallSignals ==
  ASSUME IInv, NEW c \in Calls, NEW v, NEW step \in {"stopping", "finish"},
         call[c].pc \notin {"idle", "done"}, SameWorkerOrEnded(worker[c], v),
         step = "finish" => ~Alive(v),
         worker' = [worker EXCEPT ![c] = v], CallGoes(c, step), UNCHANGED <<closed, active, closer>>
  PROVE  IInv'
<1>1. /\ call \in [Calls -> CallRecords] /\ worker \in [Calls -> WorkerRecords]
      /\ CallInv(call[c], worker[c])
      /\ active = {e \in Calls : call[e].pc \notin {"idle", "done"}}
  BY DEF IInv, TypeOK
<1> DEFINE d == [call[c] EXCEPT !.pc = step]
<1>2. /\ call' \in [Calls -> CallRecords] /\ call'[c] = d
      /\ \A e \in Calls \ {c} : call'[e] = call[e]
  BY <1>1 DEF CallGoes, CallRecords
<1>3. /\ worker' \in [Calls -> WorkerRecords] /\ worker'[c] = v
      /\ \A e \in Calls \ {c} : worker'[e] = worker[e]
  BY <1>1 DEF SameWorkerOrEnded
<1>4. /\ d.pc = step /\ d.asked = call[c].asked /\ d.received = call[c].received
      /\ d.result = call[c].result
  BY <1>1 DEF CallRecords
<1> HIDE DEF d
<1>5. CallInv(d, v)
  BY <1>1, <1>4 DEF CallInv, SameWorkerOrEnded
<1>6. OneCall(c)
  BY <1>1, <1>2, <1>3, <1>4, <1>5 DEF OneCall, SameWorkerOrEnded
<1>7. Registered(c)
  BY <1>1, <1>2, <1>4 DEF Registered
<1> QED
  BY <1>6, <1>7, OneCallStep

\* An unchanged worker is one of its outcomes.
LEMMA SameWorker ==
  ASSUME NEW w \in WorkerRecords, WorkerInv(w)
  PROVE  SameWorkerOrEnded(w, w)
BY DEF SameWorkerOrEnded

\* Every step of the supervising thread.
LEMMA SuperviseNext ==
  ASSUME IInv, NEW c \in Calls, Supervise(c) \/ WaitFails(c) \/ Tick(c)
  PROVE  IInv'
<1> DEFINE w == worker[c]
<1>1. /\ call \in [Calls -> CallRecords] /\ worker \in [Calls -> WorkerRecords]
      /\ w \in WorkerRecords /\ call[c] \in CallRecords
      /\ CallInv(call[c], w) /\ WorkerInv(w)
      /\ active = {e \in Calls : call[e].pc \notin {"idle", "done"}}
  BY DEF IInv, TypeOK, CallInv
<1> DEFINE Moves(d) ==
      /\ call' = [call EXCEPT ![c] = d] /\ d \in CallRecords
      /\ d.pc \notin {"idle", "done"} /\ (d.pc = "finish" => call[c].pc = "finish")
      /\ d.asked = call[c].asked /\ d.received # "overruled" /\ d.result = call[c].result
      /\ call[c].pc \notin {"idle", "done"} /\ UNCHANGED <<closed, active, worker, closer>>
<1>2. ASSUME NEW d, Moves(d)
      PROVE  IInv'
  BY <1>2, CallAlone
<1>3. CASE SeeCancel(c)
  <2>1. Moves([call[c] EXCEPT !.pc = "terminate", !.early = TRUE])
    BY <1>1, <1>3 DEF SeeCancel, CallRecords, CallInv
  <2> QED
    BY <1>2, <2>1
<1>4. CASE SeeAnswer(c)
  <2>1. w.pipe # "overruled" /\ w.pipe \in Messages
    BY <1>1, <1>4 DEF SeeAnswer, AnswerReady, CancelReady, CallInv, WorkerRecords
  <2>2. Moves([call[c] EXCEPT !.pc = "draining", !.received = w.pipe])
    BY <1>1, <1>4, <2>1 DEF SeeAnswer, CallRecords
  <2> QED
    BY <1>2, <2>2
<1>5. CASE GiveUp(c) \/ WaitFails(c)
  <2>1. Moves([call[c] EXCEPT !.pc = "terminate"])
    BY <1>1, <1>5 DEF GiveUp, WaitFails, CallGoes, CallRecords, CallInv
  <2> QED
    BY <1>2, <2>1
<1>6. CASE Tick(c)
  <2>1. Moves([call[c] EXCEPT !.clock = @ + 1])
    BY <1>1, <1>6 DEF Tick, CallRecords, CallInv, KillAt
  <2> QED
    BY <1>2, <2>1
<1> HIDE DEF Moves
<1>7. CASE Terminate(c)
  <2>1. PICK v \in Terminated(w) : worker' = [worker EXCEPT ![c] = v]
    BY <1>7 DEF Terminate, Becomes
  <2>2. SameWorkerOrEnded(w, v)
    BY <1>1, <2>1, TerminatedWorker
  <2> QED
    BY <1>7, <2>1, <2>2, CallSignals DEF Terminate
<1>8. CASE SeeEnd(c) \/ Reap(c) \/ Drain(c)
  <2>1. /\ call[c].pc \notin {"idle", "done"} /\ CallGoes(c, "finish")
        /\ UNCHANGED <<closed, active, closer>>
    BY <1>8 DEF SeeEnd, Reap, Drain
  <2>2. CASE ~Alive(w) /\ UNCHANGED worker
    <3>1. worker' = [worker EXCEPT ![c] = w]
      BY <1>1, <2>2
    <3> QED
      BY <1>1, <2>1, <2>2, <3>1, SameWorker, CallSignals
  <2>3. CASE w.pc # "none" /\ Becomes(c, Killed(w))
    <3>1. PICK v \in Killed(w) : worker' = [worker EXCEPT ![c] = v]
      BY <2>3 DEF Becomes
    <3>2. SameWorkerOrEnded(w, v) /\ ~Alive(v)
      BY <1>1, <2>3, KilledWorker
    <3> QED
      BY <2>1, <3>1, <3>2, CallSignals
  <2> QED
    BY <1>8, <2>2, <2>3 DEF SeeEnd, Reap, Drain, EndReady, Alive, Over
<1>9. CASE Finish(c)
  <2> DEFINE d == [call[c] EXCEPT !.pc = "done",
                                  !.result = IF call[c].received \in {"answer", "overruled"}
                                             THEN call[c].received ELSE "none"]
  <2>1. /\ d \in CallRecords /\ d.pc = "done" /\ d.asked = call[c].asked
        /\ d.received = call[c].received /\ d.result # "overruled"
    BY <1>1 DEF CallRecords, CallInv
  <2>2. /\ call' = [call EXCEPT ![c] = d] /\ active' = active \ {c} /\ call[c].pc = "finish"
        /\ UNCHANGED <<closed, worker, closer>>
    BY <1>1, <1>9 DEF Finish
  <2> HIDE DEF d
  <2>3. /\ call'[c] = d /\ call' \in [Calls -> CallRecords]
        /\ \A e \in Calls \ {c} : call'[e] = call[e]
    BY <1>1, <2>1, <2>2
  <2>4. CallInv(d, w)
    BY <1>1, <2>1, <2>2 DEF CallInv
  <2>5. OneCall(c) /\ Registered(c)
    BY <1>1, <2>1, <2>2, <2>3, <2>4 DEF OneCall, Registered
  <2> QED
    BY <2>2, <2>5, OneCallStep
<1> QED
  BY <1>3, <1>4, <1>5, <1>6, <1>7, <1>8, <1>9 DEF Supervise

\* A call starts, or ends before it has a worker.
LEMMA StartNext ==
  ASSUME IInv, NEW c \in Calls, Start(c)
  PROVE  IInv'
<1> DEFINE w == worker[c]
<1>1. /\ call \in [Calls -> CallRecords] /\ worker \in [Calls -> WorkerRecords]
      /\ w \in WorkerRecords /\ call[c] \in CallRecords
      /\ CallInv(call[c], w) /\ WorkerInv(w) /\ w.pc = "none"
      /\ active = {e \in Calls : call[e].pc \notin {"idle", "done"}}
  BY DEF IInv, TypeOK, CallInv, Start
<1>2. CASE ~closed /\ active' = active \cup {c} /\ worker' = [worker EXCEPT ![c].pc = "boot"]
           /\ CallGoes(c, "waiting")
  <2> DEFINE d == [call[c] EXCEPT !.pc = "waiting"]
             v == [w EXCEPT !.pc = "boot"]
  <2>1. /\ call' = [call EXCEPT ![c] = d] /\ d \in CallRecords /\ d.pc = "waiting"
        /\ d.asked = call[c].asked /\ d.received = call[c].received /\ d.result = call[c].result
    BY <1>1, <1>2 DEF CallGoes, CallRecords
  <2>2. worker' = [worker EXCEPT ![c] = v] /\ v \in WorkerRecords /\ v.pipe = w.pipe
    BY <1>1, <1>2 DEF WorkerRecords, WorkerPcs
  <2>3. WorkerInv(v)
    BY <1>1 DEF WorkerInv, Alive, Over, Early, Completed, WorkerRecords, Left
  <2> HIDE DEF d, v
  <2>4. /\ call'[c] = d /\ call' \in [Calls -> CallRecords]
        /\ worker'[c] = v /\ worker' \in [Calls -> WorkerRecords]
        /\ \A e \in Calls \ {c} : call'[e] = call[e] /\ worker'[e] = worker[e]
    BY <1>1, <2>1, <2>2
  <2>5. CallInv(d, v)
    BY <1>1, <2>1, <2>2, <2>3 DEF CallInv
  <2>6. OneCall(c) /\ Registered(c)
    BY <1>2, <2>1, <2>4, <2>5 DEF OneCall, Registered
  <2> QED
    BY <2>6, OneCallStep DEF Start
<1>3. CASE CallGoes(c, "done") /\ UNCHANGED <<active, worker>>
  <2> DEFINE d == [call[c] EXCEPT !.pc = "done"]
  <2>1. /\ call' = [call EXCEPT ![c] = d] /\ d \in CallRecords /\ d.pc = "done"
        /\ d.asked = call[c].asked /\ d.received = call[c].received /\ d.result = call[c].result
    BY <1>1, <1>3 DEF CallGoes, CallRecords
  <2> HIDE DEF d
  <2>2. /\ call'[c] = d /\ call' \in [Calls -> CallRecords]
        /\ \A e \in Calls \ {c} : call'[e] = call[e]
    BY <1>1, <2>1
  <2>3. CallInv(d, w) /\ c \notin active
    BY <1>1, <2>1 DEF CallInv, Alive, Start
  <2>4. OneCall(c) /\ Registered(c)
    BY <1>1, <1>3, <2>1, <2>2, <2>3 DEF OneCall, Registered
  <2> QED
    BY <2>4, OneCallStep DEF Start
<1> QED
  BY <1>2, <1>3 DEF Start
-----------------------------------------------------------------------------
\* Who calls close() sees every worker that may be running, and sets the flag
\* in the same step: from then on the snapshot can only be too large.
LEMMA CloserNext ==
  ASSUME IInv, NEW k \in Closers, CloserStep(k)
  PROVE  IInv'
<1>1. /\ call \in [Calls -> CallRecords] /\ worker \in [Calls -> WorkerRecords]
      /\ closer \in [Closers -> CloserRecords] /\ closed \in BOOLEAN
      /\ \A c \in Calls : CallInv(call[c], worker[c])
      /\ \A j \in Closers : CloserInv(j)
      /\ active = {e \in Calls : call[e].pc \notin {"idle", "done"}}
  BY DEF IInv, TypeOK
<1>2. CASE Snapshot(k)
  <2>1. PICK op \in {"cancel", "close"} :
          /\ closed' = (closed \/ op = "close")
          /\ closer' = [closer EXCEPT ![k] = [pc |-> "send", op |-> op, todo |-> active, at |-> {}]]
    BY <1>2 DEF Snapshot
  <2>2. closer' \in [Closers -> CloserRecords] /\ closed' \in BOOLEAN
    BY <1>1, <2>1 DEF CloserRecords
  <2>3. \A c \in Calls : Alive(worker[c]) => c \in active
    BY <1>1 DEF CallInv, Alive
  <2>4. ASSUME NEW j \in Closers
        PROVE  CloserInv(j)'
    <3>1. CASE j = k
      BY <1>1, <1>2, <2>1, <2>3, <3>1 DEF CloserInv, Snapshot
    <3>2. CASE j # k
      BY <1>1, <1>2, <2>1, <3>2 DEF CloserInv, Snapshot
    <3> QED
      BY <3>1, <3>2
  <2> QED
    BY <1>1, <1>2, <2>2, <2>4 DEF IInv, TypeOK, Snapshot
<1>3. ASSUME NEW c \in Calls, Ask(k, c)
      PROVE  IInv'
  <2> DEFINE d == [call[c] EXCEPT !.asked = @ \/ call[c].pc # "done"]
  <2>1. /\ call' = [call EXCEPT ![c] = d] /\ d \in CallRecords /\ d.pc = call[c].pc
        /\ d.received = call[c].received /\ d.result = call[c].result
        /\ call[c].asked => d.asked
        /\ call[c].pc # "done" => d.asked
    BY <1>1, <1>3 DEF Ask, CallRecords
  <2> HIDE DEF d
  <2>2. /\ call'[c] = d /\ call' \in [Calls -> CallRecords]
        /\ \A e \in Calls \ {c} : call'[e] = call[e]
    BY <1>1, <2>1
  <2>3. /\ closer' = [closer EXCEPT ![k].pc = "signal", ![k].todo = @ \ {c}, ![k].at = {c}]
        /\ closer[k].pc = "send" /\ UNCHANGED <<closed, active, worker>>
    BY <1>3 DEF Ask
  <2>4. /\ closer' \in [Closers -> CloserRecords]
        /\ closer'[k].pc = "signal" /\ closer'[k].op = closer[k].op
        /\ closer'[k].todo = closer[k].todo \ {c}
        /\ \A j \in Closers \ {k} : closer'[j] = closer[j]
    <3> DEFINE r == [closer[k] EXCEPT !.pc = "signal", !.todo = @ \ {c}, !.at = {c}]
    <3>1. closer' = [closer EXCEPT ![k] = r]
      BY <1>1, <2>3
    <3>2. closer[k] \in CloserRecords
      BY <1>1
    <3>3. /\ r \in CloserRecords /\ r.pc = "signal" /\ r.op = closer[k].op
          /\ r.todo = closer[k].todo \ {c}
      BY <3>2 DEF CloserRecords
    <3> HIDE DEF r
    <3> QED
      BY <1>1, <3>1, <3>3
  <2>5. \A e \in Calls : CallInv(call'[e], worker'[e])
    BY <1>1, <2>1, <2>2, <2>3 DEF CallInv
  <2>6. ASSUME NEW j \in Closers
        PROVE  CloserInv(j)'
    <3>1. Alive(worker[c]) => d.asked
      BY <1>1, <2>1 DEF CallInv
    <3>2. CloserInv(j)
      BY <1>1
    <3> QED
      BY <2>1, <2>2, <2>3, <2>4, <3>1, <3>2 DEF CloserInv
  <2>7. active' = {e \in Calls : call'[e].pc \notin {"idle", "done"}}
    BY <1>1, <2>1, <2>2, <2>3
  <2> QED
    BY <1>1, <2>2, <2>3, <2>4, <2>5, <2>6, <2>7 DEF IInv, TypeOK
<1>4. CASE Interrupt(k)
  <2>1. PICK c \in closer[k].at :
          IF call[c].pc = "done" THEN UNCHANGED worker ELSE Becomes(c, Terminated(worker[c]))
    BY <1>4 DEF Interrupt
  <2>2. c \in Calls
    BY <1>1 DEF CloserRecords
  <2>3. /\ closer' = [closer EXCEPT ![k].pc = "send", ![k].at = {}]
        /\ closer[k].pc = "signal" /\ UNCHANGED <<closed, active, call>>
    BY <1>4 DEF Interrupt
  <2>4. /\ closer' \in [Closers -> CloserRecords]
        /\ closer'[k].pc = "send" /\ closer'[k].op = closer[k].op
        /\ closer'[k].todo = closer[k].todo
        /\ \A j \in Closers \ {k} : closer'[j] = closer[j]
    BY <1>1, <2>3 DEF CloserRecords
  <2>5. /\ worker' \in [Calls -> WorkerRecords]
        /\ \A e \in Calls : SameWorkerOrEnded(worker[e], worker'[e])
    <3>1. \A e \in Calls : SameWorkerOrEnded(worker[e], worker[e])
      BY <1>1, SameWorker DEF CallInv
    <3>2. CASE UNCHANGED worker
      BY <1>1, <3>1, <3>2
    <3>3. CASE Becomes(c, Terminated(worker[c]))
      <4>1. PICK v \in Terminated(worker[c]) : worker' = [worker EXCEPT ![c] = v]
        BY <3>3 DEF Becomes
      <4>2. SameWorkerOrEnded(worker[c], v)
        BY <1>1, <2>2, TerminatedWorker DEF CallInv
      <4>3. v \in WorkerRecords
        BY <4>2 DEF SameWorkerOrEnded
      <4> QED
        BY <1>1, <2>2, <3>1, <4>1, <4>2, <4>3
    <3> QED
      BY <2>1, <3>2, <3>3
  <2>6. \A e \in Calls : CallInv(call'[e], worker'[e])
    BY <1>1, <2>3, <2>5 DEF CallInv, SameWorkerOrEnded
  <2>7. ASSUME NEW j \in Closers
        PROVE  CloserInv(j)'
    <3>1. CloserInv(j)
      BY <1>1
    <3>2. \A e \in Calls : Alive(worker'[e]) => Alive(worker[e])
      BY <2>5 DEF SameWorkerOrEnded
    <3> QED
      BY <2>3, <2>4, <3>1, <3>2 DEF CloserInv
  <2> QED
    BY <1>1, <2>3, <2>4, <2>5, <2>6, <2>7 DEF IInv, TypeOK
<1>5. CASE Return(k)
  <2>1. /\ closer' = [closer EXCEPT ![k].pc = "done"] /\ closer[k].pc = "send"
        /\ closer[k].todo = {} /\ UNCHANGED <<closed, active, call, worker>>
    BY <1>5 DEF Return
  <2>2. /\ closer' \in [Closers -> CloserRecords]
        /\ closer'[k].op = closer[k].op /\ closer'[k].todo = closer[k].todo
        /\ \A j \in Closers \ {k} : closer'[j] = closer[j]
    BY <1>1, <2>1 DEF CloserRecords
  <2>3. ASSUME NEW j \in Closers
        PROVE  CloserInv(j)'
    BY <1>1, <2>1, <2>2 DEF CloserInv
  <2> QED
    BY <1>1, <2>1, <2>2, <2>3 DEF IInv, TypeOK
<1> QED
  BY <1>2, <1>3, <1>4, <1>5 DEF CloserStep
-----------------------------------------------------------------------------
\* The invariant holds at first.
LEMMA InitInv == Init => IInv
<1> SUFFICES ASSUME Init
             PROVE  IInv
  OBVIOUS
<1>1. NewCall \in CallRecords /\ NoWorker \in WorkerRecords
  BY DEF NewCall, NoWorker, CallRecords, WorkerRecords, WorkerPcs, Messages, KillAt, Left
<1>2. TypeOK
  BY <1>1 DEF Init, TypeOK, CloserRecords, NewCall
<1>3. CallInv(NewCall, NoWorker)
  BY DEF CallInv, WorkerInv, NewCall, NoWorker, Alive, Over, Early, Completed, Left
<1> QED
  BY <1>2, <1>3 DEF Init, IInv, CloserInv

\* A step keeps the invariant.
LEMMA NextInv == IInv /\ [Next]_vars => IInv'
<1> SUFFICES ASSUME IInv, [Next]_vars
             PROVE  IInv'
  OBVIOUS
<1>1. CASE UNCHANGED vars
  BY <1>1 DEF vars, IInv, TypeOK, CloserInv
<1> QED
  BY <1>1, StartNext, SuperviseNext, WorkNext, CloserNext DEF Next

\* The invariant holds in every reachable state, for any calls and closers.
THEOREM Invariance == Spec => []IInv
BY InitInv, NextInv, PTL DEF Spec

\* A call is registered exactly while its worker may run (TypeOK).
THEOREM SupervisorTypeCorrect == Spec => []TypeOK
<1>1. IInv => TypeOK
  BY DEF IInv
<1> QED
  BY <1>1, Invariance, PTL

\* However a call ends, its worker has ended before it returns; the helper outlives it
\* only after a crash, a start behind the last close() or a close() that raised, and
\* never if the supervisor had to kill.
THEOREM NothingIsLeft == Spec => []NothingLeft
BY Enough, Invariance, PTL

\* An answer reaches the supervisor only when the client was closed, or its close()
\* raised, and the watchdog is done.
THEOREM AnswersAreQuiet == Spec => []AnswerMeansQuiet
BY Enough, Invariance, PTL

\* A cancellation that came before the answer wins over it.
THEOREM CancellationWins == Spec => []CancelOverrules
BY Enough, Invariance, PTL

\* After close() has returned, every worker still running was asked to stop.
THEOREM CloseIsComplete == Spec => []CloseReachesAll
BY Enough, Invariance, PTL
=============================================================================

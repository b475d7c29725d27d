------------------------------ MODULE Runtime ------------------------------
(***************************************************************************)
(* The execution service of the Run plane: packages/runtime, class Runtime,*)
(* over the Store (module Store) and the Worker host.                      *)
(*                                                                         *)
(* The program is one Node event loop: code between two awaits that really *)
(* suspend is one step here.  execute() is a small process per Session,    *)
(* act[s], whose pc names the await it is suspended at; stop(), the pump,  *)
(* Worker messages, timers, closeSession(), suspendSession() and close()   *)
(* interleave with it at those points.                                     *)
(*                                                                         *)
(* A step that changes several pieces of state is an operator on the       *)
(* record Here of the state it can touch, as stop() and the tail of        *)
(* execute() are called from several places.                               *)
(*                                                                         *)
(* External, modelled from its use: the Worker host and its process        *)
(* (worker[s]), the installation inspection, the model gateway's scope of  *)
(* a run, the artifact publisher and collector.                            *)
(***************************************************************************)
EXTENDS Store, Sequences, SequencesExt

CONSTANTS
    DriverOf,         \* [Sessions -> {"fake", "cli", "acp"}]: the profile's driver
    EngineOf,         \* [Sessions -> engine id]: the profile's id
    Resumable,        \* Sessions whose profile can resume (capabilities.resume, sessionMode)
    Routed,           \* Sessions whose engine uses the shared model gateway
    WithOutputs,      \* Runs whose input declares outputs
    MaxConcurrency,   \* options.maxConcurrency
    MaxPerEngine,     \* profile.maxConcurrency
    MaxQueuedRuns,    \* options.maxQueuedRuns
    MaxWorkers,       \* resident Workers the host allows
    MaxMessages,      \* bound: Worker messages per run
    MaxCrashes        \* bound: process crashes

ASSUME RuntimeAssumption ==
    /\ DriverOf \in [Sessions -> {"fake", "cli", "acp"}]
    /\ Resumable \subseteq Sessions /\ Routed \subseteq Sessions
    /\ WithOutputs \subseteq Runs
    /\ {MaxConcurrency, MaxPerEngine, MaxQueuedRuns, MaxWorkers, MaxMessages,
        MaxCrashes} \subseteq Nat

VARIABLES
    db,           \* the Store's database
    past,         \* Runs whose deadlineAt has passed
    armed,        \* Runs with a pending deadline timer (deadlines)
    queue,        \* accepted Runs waiting for a slot
    pumpDue,      \* a pump() microtask is queued
    act,          \* [Sessions -> the ActiveRun and its execute(), or Idle]
    worker,       \* [Sessions -> state of the Session's Worker in the host]
    installed,    \* Sessions with a captured installation (installations)
    suspending,   \* Sessions whose Worker is being released
    closer,       \* [Sessions -> progress of a closeSession() call]
    publishing,   \* artifacts being published by receive(): [run, artifact]
    closed,       \* close() was called; the host is closing too
    phase,        \* "ready", or the stage of start-up recovery
    half,         \* Session whose interrupted run is finished but which is still to be closed
    crashes       \* crashes so far

core == <<db, queue, armed, act, worker>>
rest == <<past, pumpDue, installed, suspending, closer, publishing, closed, phase,
          half, crashes>>
vars == <<core, rest>>

Pcs == {"idle", "inspect", "begin", "start", "result", "settle", "reclaim", "collect",
        "discard", "stopwait", "catch", "catchclose", "final"}
Results == {"completed", "failed", "cancelled", "model_failed"}

ActiveRecord ==
    [run : Runs \cup {None}, pc : Pcs,
     stop : {"none", "cancelled", "timed_out"},
     stopping : {"none", "grace", "closing"} \cup Cleanup,
     handle : BOOLEAN,
     model : {"none", "open", "ended"},
     result : {"pending", "rejected"} \cup Results,
     failed : BOOLEAN,                      \* backendFailed
     cleanup : Cleanup,                     \* local cleanup of execute()
     seq : Nat]                             \* Worker messages received

Idle == [run |-> None, pc |-> "idle", stop |-> "none", stopping |-> "none",
         handle |-> FALSE, model |-> "none", result |-> "pending",
         failed |-> FALSE, cleanup |-> "confirmed", seq |-> 0]

\* "orphan" and "recovered" occur only during start-up recovery.
WorkerStates == {"none", "live", "closing", "unconfirmed", "failed", "orphan", "recovered"}

TypeOK ==
    /\ db \in Database
    /\ past \subseteq Runs /\ armed \subseteq Runs
    /\ queue \in Seq(Runs)
    /\ pumpDue \in BOOLEAN
    /\ act \in [Sessions -> ActiveRecord]
    /\ worker \in [Sessions -> WorkerStates]
    /\ installed \subseteq Sessions /\ suspending \subseteq Sessions
    /\ closer \in [Sessions -> [phase : {"none", "stop", "host", "settle"},
                                run : Runs \cup {None}]]
    /\ publishing \subseteq [run : Runs, artifact : Artifacts]
    /\ closed \in BOOLEAN
    /\ phase \in {"ready", "leases", "runs", "sessions"}
    /\ half \in Sessions \cup {None}
    /\ crashes \in Nat

Init ==
    /\ db = EmptyDatabase
    /\ past = {} /\ armed = {} /\ queue = <<>> /\ pumpDue = FALSE
    /\ act = [s \in Sessions |-> Idle]
    /\ worker = [s \in Sessions |-> "none"]
    /\ installed = {} /\ suspending = {}
    /\ closer = [s \in Sessions |-> [phase |-> "none", run |-> None]]
    /\ publishing = {} /\ closed = FALSE
    /\ phase = "ready" /\ half = None /\ crashes = 0

----------------------------------------------------------------------------
(* The state a step of the Runtime can touch, and the parts of such steps *)

Here == [db |-> db, queue |-> queue, armed |-> armed, act |-> act, worker |-> worker]

\* No Store guard that the Runtime meets reads the event log, so erasing it loses
\* no behaviour: host messages carry fresh sequence numbers.
Unlogged(d) ==
    [d EXCEPT !.events = {}, !.run = [r \in Runs |-> [d.run[r] EXCEPT !.lastSeq = 0]]]

Become(st) ==
    /\ db' = Unlogged(st.db) /\ queue' = st.queue /\ armed' = st.armed
    /\ act' = st.act /\ worker' = st.worker

IsReady == phase = "ready" /\ ~ closed

SessionOf(r) == db.run[r].session

\* host.closeSession: memoised; a Worker already closing or quarantined stays so.
CloseWorker(st, s) ==
    IF st.worker[s] = "live" THEN [st EXCEPT !.worker[s] = "closing"] ELSE st

\* What host.closeSession resolves to once the Worker is no longer closing.
\* Mutant: a Worker the host does not know is reported as such.
HostStatus_Raw(w) == w

HostStatus(w) == IF w = "none" THEN "confirmed" ELSE w

\* recordCleanup and finish: the cleanup event, then the terminal transaction.
End(st, r, status, cleanup) ==
    [st EXCEPT !.db = FinishRun(AppendEvent(st.db, r, 0), r, status, cleanup)]

Disarm(st, r) == [st EXCEPT !.armed = @ \ {r}]
Dequeue(st, r) ==
    LET at == {i \in 1 .. Len(st.queue) : st.queue[i] = r} IN
    IF at = {} THEN st ELSE [st EXCEPT !.queue = RemoveAt(@, Min(at))]

\* stop(): a run that is not active ends at once; an active one is told to stop, and
\* its "stopping" promise first gives the engine a grace period if it has started.
Stop(st, r, reason) ==
    LET s == st.db.run[r].session IN
    IF IsTerminal(st.db, r) THEN st
    ELSE IF st.act[s].run # r
    THEN Disarm(End(Dequeue(st, r), r, reason, "confirmed"), r)
    ELSE IF st.act[s].stop # "none" THEN st
    ELSE LET told == [st EXCEPT !.act[s].stop = reason,
                                !.db = SetRunStatus(st.db, r, "cancelling")] IN
         IF st.act[s].handle THEN [told EXCEPT !.act[s].stopping = "grace"]
         ELSE CloseWorker([told EXCEPT !.act[s].stopping = "closing"], s)

StopIfPast(st, s) ==
    IF st.act[s].stop = "none" /\ st.act[s].run \in past
    THEN Stop(st, st.act[s].run, "timed_out") ELSE st

\* The catch block: wait for stop()'s cleanup, or start one.
Catch(st, s) ==
    LET failed == [st EXCEPT !.act[s].failed = TRUE] IN
    IF st.act[s].stopping # "none" THEN [failed EXCEPT !.act[s].pc = "catch"]
    ELSE CloseWorker([failed EXCEPT !.act[s].pc = "catchclose"], s)

\* The end of the try block, after the last deadline check.
Conclude(st, s) ==
    LET a == st.act[s] IN
    IF a.stop # "none" THEN [st EXCEPT !.act[s].pc = "stopwait"]
    ELSE [End(st, a.run, IF a.result = "model_failed" THEN "failed" ELSE a.result, a.cleanup)
             EXCEPT !.act[s].pc = "final"]

\* From the reclaim to the collection of outputs.
AfterReclaim(st, s) ==
    LET t == StopIfPast(st, s)
        a == t.act[s] IN
    IF a.stop = "none" /\ a.result = "completed" /\ a.run \in WithOutputs
    THEN [t EXCEPT !.db = SetRunStatus(t.db, a.run, "finalizing"), !.act[s].pc = "collect"]
    ELSE Conclude(StopIfPast(t, s), s)

\* A settled backend result: CLI turns and failed backends give up their Worker.
\* Mutant: nobody gives it up.
AfterResult_NoReclaim(st, s) ==
    AfterReclaim([st EXCEPT !.act[s].failed = st.act[s].result = "failed"], s)

AfterResult(st, s) ==
    LET f == st.act[s].result = "failed"
        t == [st EXCEPT !.act[s].failed = f] IN
    IF st.act[s].stop = "none" /\ (DriverOf[s] = "cli" \/ f)
    THEN CloseWorker([t EXCEPT !.act[s].pc = "reclaim"], s)
    ELSE AfterReclaim(t, s)

----------------------------------------------------------------------------
(* Client calls *)

\* execute() passes from the deadline check through models.begin to the host's spawn
\* without suspending (in the shipped composition begin() awaits only settled
\* promises), so no timer or request runs while a Session's pc is "begin".
Settled(s) == act[s].pc # "begin"

NewSession(s) ==
    /\ IsReady
    /\ db.session[s].status = "absent"
    /\ db' = CreateSession(db, s)
    /\ UNCHANGED <<queue, armed, act, worker, rest>>

\* submit(): a known key replays its run and changes nothing.
\* Mutants: the new run goes to the head; a Session releasing its Worker accepts runs.
Submit_AtHead(s, r, k, h) ==
    /\ IsReady
    /\ db.session[s].status = "open"
    /\ s \notin suspending
    /\ ~ Accepted(db, r)
    /\ FindRunByKey(db, s, k) = {}
    /\ Len(queue) < MaxQueuedRuns
    /\ db' = Unlogged(AcceptRun(db, s, r, k, h))
    /\ queue' = <<r>> \o queue
    /\ armed' = armed \cup {r}
    /\ pumpDue' = TRUE
    /\ UNCHANGED <<act, worker, past, installed, suspending, closer, publishing, closed,
                   phase, half, crashes>>
Submit_WhileSuspending(s, r, k, h) ==
    /\ IsReady
    /\ db.session[s].status = "open"
    /\ ~ Accepted(db, r)
    /\ FindRunByKey(db, s, k) = {}
    /\ Len(queue) < MaxQueuedRuns
    /\ db' = Unlogged(AcceptRun(db, s, r, k, h))
    /\ queue' = Append(queue, r)
    /\ armed' = armed \cup {r}
    /\ pumpDue' = TRUE
    /\ UNCHANGED <<act, worker, past, installed, suspending, closer, publishing, closed,
                   phase, half, crashes>>

Submit(s, r, k, h) ==
    /\ IsReady
    /\ db.session[s].status = "open"
    /\ s \notin suspending
    /\ ~ Accepted(db, r)
    /\ FindRunByKey(db, s, k) = {}
    /\ Len(queue) < MaxQueuedRuns
    /\ db' = Unlogged(AcceptRun(db, s, r, k, h))
    /\ queue' = Append(queue, r)
    /\ armed' = armed \cup {r}
    /\ pumpDue' = TRUE
    /\ UNCHANGED <<act, worker, past, installed, suspending, closer, publishing, closed,
                   phase, half, crashes>>

Cancel(r) ==
    /\ phase = "ready"
    /\ Accepted(db, r) /\ ~ IsTerminal(db, r)
    /\ Settled(SessionOf(r))
    /\ Become(Stop(Here, r, "cancelled"))
    /\ UNCHANGED rest

\* decide(): only the live, unstopped run that asked can be answered.
Decide(p, o) ==
    LET r == db.perm[p].run IN
    /\ phase = "ready"
    /\ db.perm[p].status # "absent" /\ db.perm[p].decision = None
    /\ LET a == act[SessionOf(r)] IN a.run = r /\ a.handle /\ a.stop = "none"
    /\ db' = Unlogged(DecidePermission(db, p, o, r \in past))
    /\ UNCHANGED <<queue, armed, act, worker, rest>>

\* suspendSession(): releases the Worker of an idle, bound, resumable Session.
Suspend(s) ==
    /\ IsReady
    /\ db.session[s].status = "open"
    /\ s \in Resumable /\ db.session[s].backend # None
    /\ s \notin suspending /\ act[s] = Idle /\ Unsettled(db, s) = {}
    /\ suspending' = suspending \cup {s}
    /\ Become(CloseWorker(Here, s))
    /\ UNCHANGED <<past, pumpDue, installed, closer, publishing, closed, phase, half, crashes>>

SuspendEnds(s) ==
    /\ s \in suspending /\ worker[s] # "closing"
    /\ suspending' = suspending \ {s}
    /\ installed' = IF worker[s] = "none" THEN installed \ {s} ELSE installed
    /\ UNCHANGED <<core, past, pumpDue, closer, publishing, closed, phase, half, crashes>>

\* Stopping a set of runs in turn: stop() never suspends its caller.
StopAll(st, rs) ==
    LET q == SetToSeq(rs)
        turn[i \in 0 .. Len(q)] ==
            IF i = 0 THEN st ELSE Stop(turn[i - 1], q[i], "cancelled")
    IN  turn[Len(q)]

\* closeSession() up to its first real await; the active run it found is remembered.
CloseBegins(s) ==
    /\ phase = "ready"
    /\ db.session[s].status \in {"open", "closing"}
    /\ closer[s].phase = "none"
    /\ Settled(s)
    /\ installed' = installed \ {s}
    /\ Become(StopAll([Here EXCEPT !.db = SetSessionStatus(db, s, "closing")],
                      Unsettled(db, s)))
    /\ closer' = [closer EXCEPT ![s] = [phase |-> "stop", run |-> act[s].run]]
    /\ UNCHANGED <<past, pumpDue, suspending, publishing, closed, phase, half, crashes>>

\* The run that closeSession() found active has left execute().
Left(s) == closer[s].run = None \/ act[s].run # closer[s].run

CloseStopped(s) ==
    /\ closer[s].phase = "stop"
    /\ Left(s) \/ act[s].stopping \in Cleanup \cup {"none"}
    /\ Become(CloseWorker(Here, s))
    /\ closer' = [closer EXCEPT ![s].phase = "host"]
    /\ UNCHANGED <<past, pumpDue, installed, suspending, publishing, closed, phase, half, crashes>>

CloseReclaimed(s) ==
    /\ closer[s].phase = "host" /\ worker[s] # "closing"
    /\ closer' = [closer EXCEPT ![s].phase = "settle"]
    /\ UNCHANGED <<core, past, pumpDue, installed, suspending, publishing, closed, phase,
                   half, crashes>>

\* Mutant: the closed status is published without waiting for execute().
CloseEnds_Unsettled(s) ==
    /\ closer[s].phase = "settle"
    /\ db' = SetSessionStatus(db, s, "closed")
    /\ closer' = [closer EXCEPT ![s] = [phase |-> "none", run |-> None]]
    /\ UNCHANGED <<queue, armed, act, worker, past, pumpDue, installed, suspending,
                   publishing, closed, phase, half, crashes>>

CloseEnds(s) ==
    /\ closer[s].phase = "settle" /\ Left(s)
    /\ db' = SetSessionStatus(db, s, "closed")
    /\ closer' = [closer EXCEPT ![s] = [phase |-> "none", run |-> None]]
    /\ UNCHANGED <<queue, armed, act, worker, past, pumpDue, installed, suspending,
                   publishing, closed, phase, half, crashes>>

\* close(): stop everything and close the host; no stop suspends in between.
Shutdown ==
    LET stopped == StopAll(Here, {r \in Runs : Accepted(db, r) /\ ~ IsTerminal(db, r)}) IN
    /\ IsReady
    /\ \A s \in Sessions : Settled(s)
    /\ closed' = TRUE
    /\ Become([stopped EXCEPT !.worker = [s \in Sessions |->
                  IF stopped.worker[s] = "live" THEN "closing" ELSE stopped.worker[s]]])
    /\ UNCHANGED <<past, pumpDue, installed, suspending, closer, publishing, phase, half, crashes>>

----------------------------------------------------------------------------
(* Scheduling *)

EngineLoad(st, s) ==
    Cardinality({t \in Sessions : st.act[t] # Idle /\ EngineOf[t] = EngineOf[s]})
Load(st) == Cardinality({t \in Sessions : st.act[t] # Idle})

\* The synchronous prefix of execute(), up to its first suspension.
\* Mutant: the deadline timer only covers the wait in the queue.
Launch_Disarms(st, s, r) ==
    [st EXCEPT !.db = SetRunStatus(st.db, r, "starting"),
               !.armed = @ \ {r},
               !.act[s] = [Idle EXCEPT !.run = r,
                              !.pc = IF DriverOf[s] # "fake" /\ s \notin installed
                                     THEN "inspect" ELSE "begin"]]

Launch(st, s, r) ==
    [st EXCEPT !.db = SetRunStatus(st.db, r, "starting"),
               !.act[s] = [Idle EXCEPT !.run = r,
                              !.pc = IF DriverOf[s] # "fake" /\ s \notin installed
                                     THEN "inspect" ELSE "begin"]]

Keep(st, r) == [st EXCEPT !.queue = Append(@, r)]

\* One turn of pump()'s loop; the queue is rebuilt from the entries it keeps.
\* Mutant: the engine's limit is not asked.
PumpOne_NoEngineLimit(st, r) ==
    LET s == st.db.run[r].session IN
    IF Load(st) >= MaxConcurrency THEN Keep(st, r)
    ELSE IF IsTerminal(st.db, r) THEN st
    ELSE IF st.db.session[s].status # "open"
    THEN Disarm([st EXCEPT !.db = FinishRun(st.db, r, "cancelled", "confirmed")], r)
    ELSE IF st.act[s] # Idle THEN Keep(st, r)
    ELSE Launch(st, s, r)
PumpOne(st, r) ==
    LET s == st.db.run[r].session IN
    IF Load(st) >= MaxConcurrency THEN Keep(st, r)
    ELSE IF IsTerminal(st.db, r) THEN st
    ELSE IF st.db.session[s].status # "open"
    THEN Disarm([st EXCEPT !.db = FinishRun(st.db, r, "cancelled", "confirmed")], r)
    ELSE IF st.act[s] # Idle \/ EngineLoad(st, s) >= MaxPerEngine THEN Keep(st, r)
    ELSE Launch(st, s, r)

PumpAll(st, q) ==
    LET turn[i \in 0 .. Len(q)] ==
            IF i = 0 THEN [st EXCEPT !.queue = <<>>] ELSE PumpOne(turn[i - 1], q[i])
    IN  turn[Len(q)]

Pump ==
    /\ phase = "ready" /\ pumpDue
    /\ pumpDue' = FALSE
    /\ Become(IF closed THEN Here ELSE PumpAll(Here, queue))
    /\ UNCHANGED <<past, installed, suspending, closer, publishing, closed, phase, half, crashes>>

----------------------------------------------------------------------------
(* execute(), from one suspension to the next *)

At(s, pc) == act[s].pc = pc

Inspected(s) ==
    /\ At(s, "inspect")
    /\ act[s].stop = "none"
    /\ act' = [act EXCEPT ![s].pc = "begin"]
    /\ installed' = installed \cup {s}
    /\ UNCHANGED <<db, queue, armed, worker, past, pumpDue, suspending, closer, publishing,
                   closed, phase, half, crashes>>

\* The inspection fails, or stop() aborted it.
InspectFails(s) ==
    /\ At(s, "inspect")
    /\ Become(Catch(Here, s))
    /\ UNCHANGED rest

\* The installation event; fake engines have none, and no deadline check either.
Inspection(st, s) ==
    IF DriverOf[s] = "fake" THEN st
    ELSE [st EXCEPT !.db = AppendEvent(st.db, st.act[s].run, 0)]

Overdue(s) == DriverOf[s] # "fake" /\ act[s].run \in past

BeginOverdue(s) ==
    /\ At(s, "begin") /\ Overdue(s)
    /\ Become(Catch(Stop(Here, act[s].run, "timed_out"), s))
    /\ UNCHANGED rest

\* models.begin rejects: nothing started, the Session keeps its Worker.
BeginUnavailable(s) ==
    /\ At(s, "begin") /\ ~ Overdue(s)
    /\ s \in Routed
    /\ Become([End(Inspection(Here, s), act[s].run, "failed", "confirmed")
                  EXCEPT !.act[s].pc = "final"])
    /\ UNCHANGED rest

\* host.start refuses: the host closes, the Worker is closing or quarantined, or
\* too many Workers are resident.
StartRefused(s) ==
    \/ closed
    \/ worker[s] \notin {"none", "live"}
    \/ worker[s] = "none" /\ Cardinality({t \in Sessions : worker[t] # "none"}) >= MaxWorkers

Begun(s) == [Inspection(Here, s) EXCEPT
                !.act[s].model = IF s \in Routed THEN "open" ELSE "none"]

BeginRefused(s) ==
    /\ At(s, "begin") /\ ~ Overdue(s)
    /\ StartRefused(s)
    /\ Become(Catch(Begun(s), s))
    /\ UNCHANGED rest

BeginStarts(s) ==
    /\ At(s, "begin") /\ ~ Overdue(s)
    /\ ~ StartRefused(s)
    /\ Become([Begun(s) EXCEPT !.worker[s] = "live", !.act[s].pc = "start"])
    /\ UNCHANGED rest

\* The Worker is ready and took the run; a close that began while the command was
\* being sent does not take the handle back.
Started(s) ==
    /\ At(s, "start")
    /\ worker[s] \in {"live", "closing"}
    /\ act' = [act EXCEPT ![s].handle = TRUE, ![s].pc = "result"]
    /\ UNCHANGED <<db, queue, armed, worker, rest>>

\* No handshake, a failed send, or a close during start-up.
StartFails(s) ==
    /\ At(s, "start")
    /\ Become(Catch(CloseWorker(Here, s), s))
    /\ UNCHANGED rest

ResultRejected(s) ==
    /\ At(s, "result") /\ act[s].result = "rejected"
    /\ Become(Catch(Here, s))
    /\ UNCHANGED rest

\* endModels() is awaited before a run on the shared gateway is judged.
ResultArrives(s) ==
    /\ At(s, "result") /\ act[s].result \in Results
    /\ Become(IF act[s].model = "open"
              THEN [Here EXCEPT !.act[s].model = "ended", !.act[s].pc = "settle"]
              ELSE AfterResult(Here, s))
    /\ UNCHANGED rest

\* settleModelRun: upstream failures or silence turn the result into a model failure,
\* unless the run was stopped or the engine cancelled it.
ModelsEnd(s) ==
    /\ At(s, "settle")
    /\ \E res \in IF act[s].stop # "none" \/ act[s].result = "cancelled"
                  THEN {act[s].result} ELSE {act[s].result, "model_failed"} :
          Become(AfterResult([Here EXCEPT !.act[s].result = res], s))
    /\ UNCHANGED rest

Reclaimed(s) ==
    /\ At(s, "reclaim") /\ worker[s] # "closing"
    /\ Become(AfterReclaim([Here EXCEPT !.act[s].cleanup = HostStatus(worker[s])], s))
    /\ UNCHANGED rest

RegisterAll(d, r, as) ==
    LET q == SetToSeq(as)
        turn[i \in 0 .. Len(q)] ==
            IF i = 0 THEN d ELSE RegisterArtifact(turn[i - 1], r, q[i])
    IN  turn[Len(q)]

\* collectOutputs(): copies made while the run was stopped or timed out are discarded.
Collected(s, as) ==
    LET t == StopIfPast(Here, s) IN
    /\ At(s, "collect")
    /\ IsFiniteSet(as) /\ \A a \in as : db.artifact[a] = None
    /\ Become([t EXCEPT
          !.db = IF t.act[s].stop # "none" THEN @
                 ELSE RegisterAll(@, t.act[s].run, as),
          !.act[s].pc = "discard"])
    /\ UNCHANGED rest

CollectFails(s) ==
    /\ At(s, "collect")
    /\ Become(Catch(Here, s))
    /\ UNCHANGED rest

Discarded(s) ==
    /\ At(s, "discard")
    /\ Become(Conclude(StopIfPast(Here, s), s))
    /\ UNCHANGED rest

StopAwaited(s) ==
    /\ At(s, "stopwait") /\ act[s].stopping \in Cleanup
    /\ Become([End(Here, act[s].run, act[s].stop, act[s].stopping)
                  EXCEPT !.act[s].pc = "final"])
    /\ UNCHANGED rest

\* Mutant: the catch block forgets that the run was stopped.
Caught_ForgetsStop(s) ==
    /\ \/ At(s, "catch") /\ act[s].stopping \in Cleanup
       \/ At(s, "catchclose") /\ worker[s] # "closing"
    /\ Become([End(Here, act[s].run, "failed",
                   IF At(s, "catch") THEN act[s].stopping ELSE HostStatus(worker[s]))
                  EXCEPT !.act[s].pc = "final"])
    /\ UNCHANGED rest

Caught(s) ==
    /\ \/ At(s, "catch") /\ act[s].stopping \in Cleanup
       \/ At(s, "catchclose") /\ worker[s] # "closing"
    /\ Become([End(Here, act[s].run,
                   IF act[s].stop # "none" THEN act[s].stop ELSE "failed",
                   IF At(s, "catch") THEN act[s].stopping ELSE HostStatus(worker[s]))
                  EXCEPT !.act[s].pc = "final"])
    /\ UNCHANGED rest

\* The finally block: its await on the model scope, then the rest.
FinallyModels(s) ==
    /\ At(s, "final") /\ act[s].model = "open"
    /\ act' = [act EXCEPT ![s].model = "ended"]
    /\ UNCHANGED <<db, queue, armed, worker, rest>>

Lost(s) == act[s].stop # "none" \/ act[s].failed

\* Mutant: the end of a run only wakes the runs of its own Session.
Finally_WakesOwn(s) ==
    /\ At(s, "final") /\ act[s].model # "open"
    /\ Become([Disarm(Here, act[s].run) EXCEPT
                  !.act[s] = Idle,
                  !.db = IF DriverOf[s] = "acp" /\ Lost(s)
                         THEN SetSessionStatus(@, s, "closed") ELSE @])
    /\ installed' = IF DriverOf[s] = "cli" \/ Lost(s) THEN installed \ {s} ELSE installed
    /\ pumpDue' = (pumpDue \/ \E i \in DOMAIN queue : SessionOf(queue[i]) = s)
    /\ UNCHANGED <<past, suspending, closer, publishing, closed, phase, half, crashes>>

Finally(s) ==
    /\ At(s, "final") /\ act[s].model # "open"
    /\ Become([Disarm(Here, act[s].run) EXCEPT
                  !.act[s] = Idle,
                  !.db = IF DriverOf[s] = "acp" /\ Lost(s)
                         THEN SetSessionStatus(@, s, "closed") ELSE @])
    /\ installed' = IF DriverOf[s] = "cli" \/ Lost(s) THEN installed \ {s} ELSE installed
    /\ pumpDue' = TRUE
    /\ UNCHANGED <<past, suspending, closer, publishing, closed, phase, half, crashes>>

----------------------------------------------------------------------------
(* The stopping promise of stop() *)

\* The engine settled, or the grace timer fired.
\* Mutant: no grace timer.
GraceEnds_NoTimer(s) ==
    /\ act[s].stopping = "grace"
    /\ act[s].result # "pending"
    /\ Become(CloseWorker([Here EXCEPT !.act[s].stopping = "closing"], s))
    /\ UNCHANGED rest

GraceEnds(s) ==
    /\ act[s].stopping = "grace"
    /\ Become(CloseWorker([Here EXCEPT !.act[s].stopping = "closing"], s))
    /\ UNCHANGED rest

\* Mutant: only a confirmed cleanup is reported.
StopCloses_OnlyConfirmed(s) ==
    /\ act[s].stopping = "closing" /\ worker[s] = "none"
    /\ act' = [act EXCEPT ![s].stopping = "confirmed"]
    /\ UNCHANGED <<db, queue, armed, worker, rest>>

StopCloses(s) ==
    /\ act[s].stopping = "closing" /\ worker[s] # "closing"
    /\ act' = [act EXCEPT ![s].stopping = HostStatus(worker[s])]
    /\ UNCHANGED <<db, queue, armed, worker, rest>>

----------------------------------------------------------------------------
(* Worker messages: receive().  The host delivers them one at a time, in order, and *)
(* acknowledges each after receive() returns; a throw fails the Worker.             *)

Publishes(r) == \E x \in publishing : x.run = r

\* The next message of the active run arrives and is not ignored.
\* Mutant: messages of a run that is being stopped still count.
Incoming_AfterStop(s) ==
    /\ At(s, "result") /\ act[s].result = "pending"
    /\ worker[s] \in {"live", "closing"}
    /\ act[s].seq < MaxMessages
    /\ ~ Publishes(act[s].run)

Incoming(s) ==
    /\ At(s, "result") /\ act[s].result = "pending"
    /\ worker[s] \in {"live", "closing"}
    /\ act[s].seq < MaxMessages
    /\ ~ Publishes(act[s].run)
    /\ act[s].stop = "none" /\ ~ IsTerminal(db, act[s].run)

Counted(s) == [Here EXCEPT !.act[s].seq = @ + 1]

\* host.fail: the pending result is rejected and the Worker closed.
FailWorker(st, s) ==
    CloseWorker([st EXCEPT !.act[s].result =
                    IF st.act[s].pc = "result" /\ @ = "pending" THEN "rejected" ELSE @], s)

ReceiveStarted(s) ==
    /\ Incoming(s)
    /\ Become([Counted(s) EXCEPT !.db = SetRunStatus(db, act[s].run, "running")])
    /\ UNCHANGED rest

ReceiveEvent(s) ==
    /\ Incoming(s)
    /\ Become([Counted(s) EXCEPT !.db = AppendEvent(db, act[s].run, act[s].seq + 1)])
    /\ UNCHANGED rest

\* engine.session: binds the Session to its backend identity; a different one, or one
\* from an engine that is not ACP, fails the Worker.
ReceiveBinding(s, b) ==
    /\ Incoming(s)
    /\ Become(IF DriverOf[s] # "acp" \/ BindRefused(db, act[s].run, b)
              THEN FailWorker(Counted(s), s)
              ELSE [Counted(s) EXCEPT
                      !.db = BindBackendSession(db, act[s].run, b, act[s].seq + 1)])
    /\ UNCHANGED rest

ReceivePermission(s, p) ==
    LET r == act[s].run
        gone == r \in past IN
    /\ Incoming(s)
    /\ Become(IF CreateRefused(db, r, p, gone) THEN FailWorker(Counted(s), s)
              ELSE [Counted(s) EXCEPT
                      !.db = SetRunStatus(CreatePermission(db, r, p, gone), r,
                                          "waiting_permission")])
    /\ UNCHANGED rest

ReceiveApplied(s, p) ==
    LET r == act[s].run
        gone == r \in past IN
    /\ Incoming(s)
    /\ db.perm[p].run = r
    /\ Become(IF ApplyRefused(db, p, gone) THEN FailWorker(Counted(s), s)
              ELSE [Counted(s) EXCEPT
                      !.db = SetRunStatus(MarkPermissionApplied(db, p, gone), r, "running")])
    /\ UNCHANGED rest

\* artifact: the bytes are published first; the run may end meanwhile.
ReceiveArtifact(s, a) ==
    /\ Incoming(s)
    /\ db.artifact[a] = None /\ \A x \in publishing : x.artifact # a
    /\ Become(Counted(s))
    /\ publishing' = publishing \cup {[run |-> act[s].run, artifact |-> a]}
    /\ UNCHANGED <<past, pumpDue, installed, suspending, closer, closed, phase, half, crashes>>

\* Mutant: the artifact is registered without looking at the stop again.
Published_NoRecheck(x) ==
    /\ x \in publishing
    /\ db' = Unlogged(RegisterArtifact(db, x.run, x.artifact))
    /\ publishing' = publishing \ {x}
    /\ UNCHANGED <<queue, armed, act, worker, past, pumpDue, installed, suspending, closer,
                   closed, phase, half, crashes>>

\* Registered only if the run still works and is not being stopped; else discarded.
Published(x) ==
    /\ x \in publishing
    /\ LET a == act[SessionOf(x.run)] IN
       db' = IF a.run = x.run /\ a.stop # "none" THEN db
             ELSE Unlogged(RegisterArtifact(db, x.run, x.artifact))
    /\ publishing' = publishing \ {x}
    /\ UNCHANGED <<queue, armed, act, worker, past, pumpDue, installed, suspending, closer,
                   closed, phase, half, crashes>>

\* The publisher refuses the bytes: the Worker that sent them fails.
PublishFails(x) ==
    LET s == SessionOf(x.run) IN
    /\ x \in publishing
    /\ Become(IF act[s].run = x.run THEN FailWorker(Here, s) ELSE Here)
    /\ publishing' = publishing \ {x}
    /\ UNCHANGED <<past, pumpDue, installed, suspending, closer, closed, phase, half, crashes>>

\* result: settles the handle once every earlier message is acknowledged, stopped or not.
ReceiveResult(s, res) ==
    /\ At(s, "result") /\ act[s].result = "pending"
    /\ worker[s] \in {"live", "closing"}
    /\ ~ Publishes(act[s].run)
    /\ act' = [act EXCEPT ![s].result = res]
    /\ UNCHANGED <<db, queue, armed, worker, rest>>

----------------------------------------------------------------------------
(* The Worker host and its processes *)

\* The Worker exits, disconnects or breaks the protocol, with or without a run.
WorkerFails(s) ==
    /\ worker[s] = "live"
    /\ Become(FailWorker(Here, s))
    /\ UNCHANGED rest

\* terminate() ends; whatever is still pending on the Worker is rejected.
WorkerCloses(s, status) ==
    /\ worker[s] = "closing" /\ phase = "ready"
    /\ Become([FailWorker(Here, s) EXCEPT
                  !.worker[s] = IF status = "confirmed" THEN "none" ELSE status])
    /\ UNCHANGED rest

\* closeSession() on a closed Session: forgets the installation and closes what the
\* host still has.
CloseAgain(s) ==
    /\ phase = "ready"
    /\ db.session[s].status = "closed"
    /\ installed' = installed \ {s}
    /\ Become(CloseWorker(Here, s))
    /\ UNCHANGED <<past, pumpDue, suspending, closer, publishing, closed, phase, half, crashes>>

----------------------------------------------------------------------------
(* Time *)

DeadlinePasses(r) ==
    /\ phase = "ready"
    /\ Accepted(db, r) /\ ~ IsTerminal(db, r) /\ r \notin past
    /\ past' = past \cup {r}
    /\ UNCHANGED <<core, pumpDue, installed, suspending, closer, publishing, closed, phase,
                   half, crashes>>

TimerFires(r) ==
    /\ phase = "ready"
    /\ r \in armed \cap past
    /\ Settled(SessionOf(r))
    /\ Become(Stop(Disarm(Here, r), r, "timed_out"))
    /\ UNCHANGED rest

----------------------------------------------------------------------------
(* Crash and start-up recovery *)

\* The process dies: memory is gone, the database and the Worker leases stay.
Crash ==
    /\ crashes < MaxCrashes
    /\ crashes' = crashes + 1
    /\ phase' = "leases" /\ half' = None
    /\ queue' = <<>> /\ armed' = {} /\ pumpDue' = FALSE
    /\ act' = [s \in Sessions |-> Idle]
    /\ worker' = [s \in Sessions |-> IF worker[s] \in {"none", "recovered"} THEN "none"
                                     ELSE "orphan"]
    /\ installed' = {} /\ suspending' = {} /\ publishing' = {} /\ closed' = FALSE
    /\ closer' = [s \in Sessions |-> [phase |-> "none", run |-> None]]
    /\ UNCHANGED <<db, past>>

Booted == <<queue, armed, act, past, pumpDue, installed, suspending, closer, publishing,
            closed, crashes>>

\* host.recover: every lease left behind is reclaimed or quarantined.
RecoverLease(s, status) ==
    /\ phase = "leases" /\ worker[s] = "orphan"
    /\ worker' = [worker EXCEPT ![s] = IF status = "confirmed" THEN "recovered" ELSE status]
    /\ UNCHANGED <<db, phase, half, Booted>>

LeasesRecovered ==
    /\ phase = "leases" /\ \A s \in Sessions : worker[s] # "orphan"
    /\ phase' = "runs"
    /\ UNCHANGED <<db, worker, half, Booted>>

\* recoveredWorkers.get(session), or "unconfirmed" where no lease was found.
RecoveredStatus(w) == CASE w = "recovered" -> "confirmed"
                        [] w = "none" -> "unconfirmed"
                        [] OTHER -> w

\* Two transactions: the run is finished, then its Session is closed.
RecoverRun(r) ==
    /\ phase = "runs" /\ half = None
    /\ Accepted(db, r) /\ ~ IsTerminal(db, r)
    /\ db' = Unlogged(FinishRun(db, r, "interrupted", RecoveredStatus(worker[SessionOf(r)])))
    /\ half' = SessionOf(r)
    /\ UNCHANGED <<worker, phase, Booted>>

RecoverClose ==
    /\ half # None
    /\ db' = SetSessionStatus(db, half, "closed")
    /\ half' = None
    /\ UNCHANGED <<worker, phase, Booted>>

\* Mutant: runs that never started are left alone.
RunsRecovered_SkipsQueued ==
    /\ phase = "runs" /\ half = None
    /\ \A r \in Runs : db.run[r].started => IsTerminal(db, r)
    /\ phase' = "sessions"
    /\ UNCHANGED <<db, worker, half, Booted>>

RunsRecovered ==
    /\ phase = "runs" /\ half = None
    /\ \A r \in Runs : Accepted(db, r) => IsTerminal(db, r)
    /\ phase' = "sessions"
    /\ UNCHANGED <<db, worker, half, Booted>>

\* An ACP Session whose backend cannot be resumed.
Unresumable(s) ==
    /\ db.session[s].status = "open"
    /\ DriverOf[s] = "acp"
    /\ \/ s \notin Resumable
       \/ db.session[s].backend = None /\ \E r \in RunsOf(db, s) : db.run[r].started

\* Closes an open Session: unresumable, or its profile left the catalog.
RecoverSession(s) ==
    /\ phase = "sessions"
    /\ db.session[s].status = "open"
    /\ db' = SetSessionStatus(db, s, "closed")
    /\ UNCHANGED <<worker, phase, half, Booted>>

\* From here on the host answers "unconfirmed" for every quarantined lease.
Recovered ==
    /\ phase = "sessions" /\ \A s \in Sessions : ~ Unresumable(s)
    /\ phase' = "ready"
    /\ worker' = [s \in Sessions |-> CASE worker[s] = "recovered" -> "none"
                                       [] worker[s] = "failed" -> "unconfirmed"
                                       [] OTHER -> worker[s]]
    /\ UNCHANGED <<db, half, Booted>>

----------------------------------------------------------------------------
(* The specification *)

Client ==
    \/ \E s \in Sessions :
          \/ NewSession(s) \/ Suspend(s) \/ CloseBegins(s) \/ CloseAgain(s)
          \/ \E r \in Runs, k \in Keys \cup {None}, h \in Hashes : Submit(s, r, k, h)
    \/ \E r \in Runs : Cancel(r)
    \/ \E p \in Perms, o \in Options : Decide(p, o)
    \/ Shutdown

Execute(s) ==
    \/ Inspected(s) \/ InspectFails(s)
    \/ BeginOverdue(s) \/ BeginUnavailable(s) \/ BeginRefused(s) \/ BeginStarts(s)
    \/ Started(s) \/ StartFails(s)
    \/ ResultRejected(s) \/ ResultArrives(s) \/ ModelsEnd(s) \/ Reclaimed(s)
    \/ \E as \in SUBSET Artifacts : Collected(s, as)
    \/ CollectFails(s) \/ Discarded(s) \/ StopAwaited(s) \/ Caught(s)
    \/ FinallyModels(s) \/ Finally(s)

Closing(s) ==
    \/ GraceEnds(s) \/ StopCloses(s) \/ SuspendEnds(s)
    \/ CloseStopped(s) \/ CloseReclaimed(s) \/ CloseEnds(s)

Messages(s) ==
    \/ ReceiveStarted(s) \/ ReceiveEvent(s)
    \/ \E b \in BackendIds : ReceiveBinding(s, b)
    \/ \E p \in Perms : ReceivePermission(s, p) \/ ReceiveApplied(s, p)
    \/ \E a \in Artifacts : ReceiveArtifact(s, a)
    \/ \E res \in Results \ {"model_failed"} : ReceiveResult(s, res)

Publisher == \E x \in publishing : Published(x) \/ PublishFails(x)

Recovery ==
    \/ \E s \in Sessions :
          RecoverSession(s) \/ \E status \in Cleanup : RecoverLease(s, status)
    \/ \E r \in Runs : RecoverRun(r)
    \/ LeasesRecovered \/ RecoverClose \/ RunsRecovered \/ Recovered

\* Each of these happens at most once per run.
Clock == \E r \in Runs : DeadlinePasses(r) \/ TimerFires(r)

Next ==
    \/ Client \/ Pump \/ Publisher \/ Crash \/ Recovery
    \/ \E s \in Sessions :
          \/ Execute(s) \/ Closing(s) \/ Messages(s)
          \/ WorkerFails(s) \/ \E status \in Cleanup : WorkerCloses(s, status)
    \/ Clock

Spec == Init /\ [][Next]_vars

\* The event loop runs what is ready, timers fire, and every await of execute() that
\* does not depend on the engine ends: inspection and collection are abortable, Worker
\* start-up and termination are bounded by timeouts.  Nothing is assumed of the client
\* or of the engine: a Worker may never answer.
Fairness ==
    /\ WF_vars(Pump) /\ WF_vars(Recovery) /\ WF_vars(Clock)
    /\ \A s \in Sessions :
          /\ WF_vars(Execute(s)) /\ WF_vars(Closing(s))
          /\ WF_vars(\E status \in Cleanup : WorkerCloses(s, status))

FairSpec == Spec /\ Fairness

----------------------------------------------------------------------------
(* Safety *)

Queued(r) == \E i \in DOMAIN queue : queue[i] = r
Pending(r) == Accepted(db, r) /\ ~ IsTerminal(db, r)

\* pump() never exceeds the global limit, or the limit of an engine.
SlotLimits ==
    /\ Load(Here) <= MaxConcurrency
    /\ \A s \in Sessions : EngineLoad(Here, s) <= MaxPerEngine

\* No wake-up is lost: while the Runtime serves, a queued run that nothing holds back, neither
\* a limit nor the active run of its Session, will be seen by a pump() that is already
\* scheduled (submit, the end of execute).  closeSession stops those of its Session itself.
QueueServed ==
    phase = "ready" /\ ~ closed /\ ~ pumpDue =>
        \A i \in DOMAIN queue : LET s == SessionOf(queue[i]) IN
            \/ db.session[s].status # "open" \/ act[s] # Idle
            \/ Load(Here) >= MaxConcurrency \/ EngineLoad(Here, s) >= MaxPerEngine

\* No accepted run is lost: while the Runtime serves, every run that has not ended is
\* either queued, exactly once, or the active run of its Session, never both.
NoLostRun ==
    phase = "ready" =>
        \A r \in Runs :
            /\ Pending(r) => (Queued(r) <=> act[SessionOf(r)].run # r)
            /\ \A i, j \in DOMAIN queue : queue[i] = queue[j] => i = j

\* Every run that has not ended is bounded in time: its deadline timer is pending, or
\* it is already being stopped.
DeadlineHeld ==
    phase = "ready" =>
        \A r \in Runs : Pending(r) =>
            r \in armed \/ (act[SessionOf(r)].run = r /\ act[SessionOf(r)].stop # "none")

\* Runs of a Session execute in the order they were accepted: one that has started
\* leaves no earlier one unfinished.
AcceptedOrder ==
    \A s \in Sessions : \A r, t \in RunsOf(db, s) :
        db.run[r].started /\ db.run[t].generation < db.run[r].generation
            => IsTerminal(db, t)

\* Once a Session is closed nothing works in it any more: no active run, no Worker that
\* is not being reclaimed, and at most queued runs, which pump() will cancel.
ClosedSessionQuiet ==
    phase = "ready" =>
        \A s \in Sessions : db.session[s].status = "closed" =>
            /\ act[s] = Idle /\ worker[s] # "live"
            /\ \A r \in Unsettled(db, s) : db.run[r].status = "queued"

\* The recorded cleanupStatus is what the host reported: a run that was stopped, failed
\* or ran a CLI turn ends "confirmed" only if its Worker is gone.
CleanupTruthful ==
    \A s \in Sessions :
        /\ At(s, "final")
        /\ Lost(s) \/ (DriverOf[s] = "cli" /\ act[s].result \in Results)
        => db.run[act[s].run].cleanup = HostStatus(worker[s])

\* A Session whose Worker is being released runs nothing and has nothing to run.
SuspendedIdle ==
    \A s \in suspending : act[s] = Idle /\ Unsettled(db, s) = {}

\* A permission that can still be answered or applied belongs to the active, started run.
OpenPermissionLive ==
    phase = "ready" =>
        \A p \in Perms : db.perm[p].status \in {"pending", "decided"} =>
            LET r == db.perm[p].run IN Pending(r) /\ act[SessionOf(r)].run = r
                                       /\ act[SessionOf(r)].handle

\* The first stop reason decides: it is never replaced, and the run ends with it
\* whatever the backend reports later.
FirstStopWins ==
    [][\A s \in Sessions :
          LET a == act[s]
              r == a.run IN
          a.stop # "none" /\ phase' = "ready" =>
              /\ act'[s].run = r => act'[s].stop = a.stop
              /\ ~ IsTerminal(db, r) /\ IsTerminal(db', r) =>
                    db'.run[r].status = a.stop]_vars

\* Nothing is published for a run once it is being stopped or has ended, although the
\* bytes were on their way (receive, collectOutputs).
NoArtifactAfterStop ==
    [][\A a \in Artifacts :
          db.artifact[a] # db'.artifact[a] =>
              LET r == db'.artifact[a] IN
              ~ IsTerminal(db, r) /\ act[SessionOf(r)].stop = "none"]_vars

----------------------------------------------------------------------------
(* Liveness *)

\* Every accepted run ends, even if its engine never answers.
EveryRunEnds == \A r \in Runs : Accepted(db, r) ~> IsTerminal(db, r)

\* closeSession() and suspendSession() return, unless the process dies.
ClosingEnds ==
    \A s \in Sessions : (closer[s].phase # "none" \/ s \in suspending)
                            ~> (closer[s].phase = "none" /\ s \notin suspending)

----------------------------------------------------------------------------
(* Refinement *)

Lifecycle == INSTANCE RunLifecycle WITH
    status <- [r \in Runs |-> db.run[r].status],
    owner <- [r \in Runs |-> db.run[r].session],
    open <- {s \in Sessions : db.session[s].status = "open"}

\* The Runtime implements the run lifecycle it documents: no late message, stop, crash
\* or recovery takes a run along another path.
ImplementsLifecycle == Lifecycle!Spec

=============================================================================

----------------------------- MODULE WorkerIpc -----------------------------
(***************************************************************************)
(* The Worker of one Session and its host: packages/runtime, class         *)
(* ProcessWorkerHost, in the Gateway process, and packages/daemon,         *)
(* worker/main.ts, in the Worker process, joined by two FIFO channels.     *)
(*                                                                         *)
(* Every Worker message is acknowledged after the Runtime's sink returns,  *)
(* and the Worker sends the next one only then.  The host may send the     *)
(* next run right behind the acknowledgement of a result.  Either side     *)
(* treats a message it does not expect as a protocol failure: the host     *)
(* fails the Worker, the Worker exits.                                     *)
(*                                                                         *)
(* A write and the callback that reports it are two steps.  The callback   *)
(* runs before the reply to that write can be read, and a write to a dead  *)
(* process is reported as an error.  External: the driver, process death,  *)
(* process groups, and the Runtime as the host's client.                   *)
(***************************************************************************)
EXTENDS Naturals, Sequences

CONSTANTS
    MaxRuns,      \* bound: runs of the Session
    MaxEvents,    \* bound: a driver emits events up to this many messages before
    MaxSpawns,    \* bound: Workers started
    Leaving,      \* bound: what descendants that leave the process group may be
    InitTimer     \* the profile has an ACP initialization timeout

ASSUME IpcAssumption == /\ {MaxRuns, MaxEvents, MaxSpawns} \subseteq Nat
                        /\ Leaving \subseteq {"owned", "linked"} /\ InitTimer \in BOOLEAN

Runs == 1 .. MaxRuns       \* a run is named by its generation; 0 is no run
Cleanup == {"confirmed", "unconfirmed", "failed"}

VARIABLES
    host,         \* the SessionWorker record of the host
    start,        \* progress of the host's start() call
    result,       \* [Runs -> the result promise of the run]
    worker,       \* the Worker process
    toWorker, toHost,   \* the two directions of the IPC channel
    spawns,       \* Workers started so far
    produced,     \* [Runs -> messages produced until the driver ended, the result included]
    seen          \* [Runs -> messages handed to the Runtime's sink]

vars == <<host, start, result, worker, toWorker, toHost, spawns, produced, seen>>

\* "snapshot" to "sweep" are the stages of terminate().
Host == [known : BOOLEAN,                    \* sessions has the Worker
         ready : {"pending", "resolved", "rejected"},
         failed : BOOLEAN, exited : BOOLEAN, connected : BOOLEAN,
         run : Runs \cup {0}, seq : Nat,     \* worker.active
         busy : {"no", "sink", "ack"},       \* processing of the current message
         last : BOOLEAN,                     \* the current message is the result
         asks : {"no", "asked", "answered"}, \* the run's permission, as the Runtime knows it
         told : BOOLEAN,                     \* cancel was sent
         timer : BOOLEAN,                    \* initializeTimer
         closing : {"no", "snapshot", "grace", "term", "kill", "sweep"} \cup Cleanup,
         tree : BOOLEAN]                     \* the process tree was recorded

Fresh(r) == [known |-> TRUE, ready |-> "pending", failed |-> FALSE, exited |-> FALSE,
             connected |-> TRUE, run |-> r, seq |-> 0, busy |-> "no", last |-> FALSE,
             asks |-> "no", told |-> FALSE, timer |-> FALSE, closing |-> "no", tree |-> FALSE]

NoWorker == [Fresh(0) EXCEPT !.known = FALSE, !.connected = FALSE, !.exited = TRUE]

\* Descendants that left the process group, by what a scan of the processes finds: "owned"
\* ones show the Worker's marker in their environment or were recorded before the shutdown,
\* "linked" ones show no marker but descend from a living process that is found, "lost" ones
\* show none and their parent has ended.
Strays == {"owned", "linked", "lost"}

Worker == [life : {"none", "boot", "up", "dead"},
           run : Runs \cup {0}, seq : Nat,   \* active
           ack : Nat,                        \* sequence number that waits for its ack, or 0
           last : BOOLEAN,                   \* and it is the result's
           out : Seq({"event", "permission", "applied", "result"}),  \* the delivery chain
           driving : BOOLEAN,                \* driver.execute() has not returned
           perm : {"none", "open", "answered", "gone"},              \* the waiter
           down : BOOLEAN,                   \* shuttingDown
           group : BOOLEAN,                  \* descendants in its process group
           stray : SUBSET Strays]            \* and outside it

Forked == [life |-> "boot", run |-> 0, seq |-> 0, ack |-> 0, last |-> FALSE, out |-> <<>>,
           driving |-> FALSE, perm |-> "none", down |-> FALSE, group |-> FALSE, stray |-> {}]

TypeOK ==
    /\ host \in Host
    /\ start \in [run : Runs \cup {0}, pc : {"none", "ready", "sending", "lost", "closing"}]
    /\ result \in [Runs -> {"none", "pending", "resolved", "rejected"}]
    /\ worker \in Worker
    /\ toWorker \in Seq([type : {"run", "ack", "cancel", "permission", "shutdown"},
                         run : Runs \cup {0}, seq : Nat])
    /\ toHost \in Seq([type : {"ready", "event", "permission", "applied", "result"},
                       run : Runs \cup {0}, seq : Nat])
    /\ spawns \in 0 .. MaxSpawns
    /\ produced \in [Runs -> Nat] /\ seen \in [Runs -> Nat]

Init ==
    /\ host = NoWorker
    /\ start = [run |-> 0, pc |-> "none"]
    /\ result = [r \in Runs |-> "none"]
    /\ worker = [Forked EXCEPT !.life = "none"]
    /\ toWorker = <<>> /\ toHost = <<>> /\ spawns = 0
    /\ produced = [r \in Runs |-> 0] /\ seen = [r \in Runs |-> 0]

----------------------------------------------------------------------------
(* Parts of host steps *)

\* A promise settles once.
Settle(res, r, how) ==
    IF r # 0 /\ res[r] = "pending" THEN [res EXCEPT ![r] = how] ELSE res

\* closeSession(): starts terminate() once.
CloseSession(h) ==
    IF h.known /\ h.closing = "no" THEN [h EXCEPT !.closing = "snapshot", !.timer = FALSE] ELSE h

RejectReady(h) == [h EXCEPT !.ready = IF @ = "pending" THEN "rejected" ELSE @]

\* fail(): rejects what waits for the Worker and closes it.
FailWorker(h) ==
    IF h.failed THEN [h EXCEPT !.timer = FALSE]
    ELSE CloseSession(RejectReady([h EXCEPT !.failed = TRUE, !.timer = FALSE]))

FailResult(h) == IF h.failed THEN result ELSE Settle(result, h.run, "rejected")

Fail(h) == host' = FailWorker(h) /\ result' = FailResult(h)

Message(type, r, n) == [type |-> type, run |-> r, seq |-> n]

\* The rest of start() is a microtask once ready has settled, and a write to a process
\* that is dead already fails at once: no other host step comes first.
Turn == /\ start.pc = "ready" => host.ready = "pending"
        /\ start.pc # "lost"

HostSide == <<host, start, result>>
WorkerSide == <<worker, toHost, produced>>

----------------------------------------------------------------------------
(* start() *)

\* The Runtime starts the runs of a Session in turn, the next one after the result of
\* the one before; after a rejected one it has first closed the Worker.
MayStart(r) ==
    /\ start.pc = "none" /\ result[r] = "none"
    /\ \A q \in 1 .. r - 1 : result[q] \in {"resolved", "rejected"}
    /\ r > 1 /\ result[r - 1] = "rejected" => ~ host.known \/ host.closing \in Cleanup

StartRefused(r) ==
    /\ MayStart(r)
    /\ host.known /\ (host.closing # "no" \/ host.failed \/ host.run # 0)
    /\ result' = [result EXCEPT ![r] = "rejected"]
    /\ UNCHANGED <<host, start, worker, toWorker, toHost, spawns, produced, seen>>

StartIdle(r) ==
    /\ MayStart(r)
    /\ host.known /\ host.closing = "no" /\ ~ host.failed /\ host.run = 0
    /\ host' = [host EXCEPT !.run = r, !.seq = 0, !.asks = "no", !.told = FALSE]
    /\ result' = [result EXCEPT ![r] = "pending"]
    /\ start' = [run |-> r, pc |-> "ready"]
    /\ UNCHANGED <<worker, toWorker, toHost, spawns, produced, seen>>

\* No Worker yet: fork one and save its lease.
StartForks(r) ==
    /\ MayStart(r)
    /\ ~ host.known /\ spawns < MaxSpawns
    /\ spawns' = spawns + 1
    /\ worker' = Forked
    /\ toWorker' = <<>> /\ toHost' = <<>>
    /\ \/ /\ host' = Fresh(r)
          /\ result' = [result EXCEPT ![r] = "pending"]
          /\ start' = [run |-> r, pc |-> "ready"]
       \/ /\ host' = FailWorker(Fresh(0))          \* the lease cannot be saved
          /\ result' = [result EXCEPT ![r] = "rejected"]
          /\ start' = [run |-> r, pc |-> "closing"]
    /\ UNCHANGED <<produced, seen>>

\* Any error after the run became active: fail the Worker, wait for its end, throw.
StartCatch ==
    /\ Fail(host)
    /\ start' = [start EXCEPT !.pc = "closing"]

\* ready settled: the run command is written, unless the Worker is being closed.
StartReady ==
    /\ start.pc = "ready" /\ host.ready # "pending"
    /\ IF host.ready = "resolved" /\ host.closing = "no" /\ ~ host.failed /\ host.connected
       THEN /\ host' = [host EXCEPT !.timer = InitTimer]
            /\ toWorker' = Append(toWorker, Message("run", start.run, 0))
            /\ start' = [start EXCEPT !.pc = IF worker.life = "dead" THEN "lost" ELSE "sending"]
            /\ UNCHANGED result
       ELSE StartCatch /\ UNCHANGED toWorker
    /\ UNCHANGED <<WorkerSide, spawns, seen>>

\* The write is reported.  Success gives the caller its handle, although the process
\* may have died since.
StartSent ==
    /\ \/ /\ start.pc = "sending"
          /\ start' = [run |-> 0, pc |-> "none"]
          /\ UNCHANGED <<host, result>>
       \/ /\ start.pc \in {"sending", "lost"} /\ worker.life = "dead"
          /\ StartCatch
    /\ UNCHANGED <<WorkerSide, toWorker, spawns, seen>>

StartThrows ==
    /\ start.pc = "closing"
    /\ ~ host.known \/ host.closing \in Cleanup
    /\ start' = [run |-> 0, pc |-> "none"]
    /\ UNCHANGED <<host, result, WorkerSide, toWorker, spawns, seen>>

----------------------------------------------------------------------------
(* The handle, and the host's timers *)

HasHandle == host.run # 0 /\ start.run # host.run

\* handle.cancel(), from stop().
Cancel ==
    /\ HasHandle /\ ~ host.told
    /\ host.closing = "no" /\ ~ host.exited /\ host.connected
    /\ host' = [host EXCEPT !.told = TRUE]
    /\ toWorker' = Append(toWorker, Message("cancel", host.run, 0))
    /\ UNCHANGED <<start, result, WorkerSide, spawns, seen>>

\* handle.respondPermission(), from decide(): never after a stop.
RespondPermission ==
    /\ HasHandle /\ ~ host.told /\ host.asks = "asked"
    /\ host.closing = "no" /\ ~ host.exited /\ host.connected
    /\ host' = [host EXCEPT !.asks = "answered"]
    /\ toWorker' = Append(toWorker, Message("permission", host.run, 0))
    /\ UNCHANGED <<start, result, WorkerSide, spawns, seen>>

HandshakeTimeout ==
    /\ Turn
    /\ host.known /\ host.ready = "pending"
    /\ Fail(host)
    /\ UNCHANGED <<start, WorkerSide, toWorker, spawns, seen>>

InitializeTimeout ==
    /\ Turn
    /\ host.timer /\ host.run # 0 /\ host.closing = "no"
    /\ Fail(host)
    /\ UNCHANGED <<start, WorkerSide, toWorker, spawns, seen>>

----------------------------------------------------------------------------
(* Worker messages at the host *)

Expected(m) ==
    /\ host.run # 0 /\ ~ host.failed
    /\ m.run = host.run /\ m.seq = host.seq + 1
    /\ host.busy = "no"

\* A report of an earlier write comes first (see above).
HostReads ==
    LET m == Head(toHost) IN
    /\ Turn
    /\ host.known /\ toHost # <<>> /\ host.busy # "ack"
    /\ toHost' = Tail(toHost)
    /\ IF m.type = "ready"
       THEN /\ IF host.ready = "resolved" \/ host.run = 0 \/ host.seq # 0 THEN Fail(host)
               ELSE /\ host' = [host EXCEPT !.ready = IF @ = "pending" THEN "resolved" ELSE @]
                    /\ UNCHANGED result
            /\ UNCHANGED seen
       ELSE IF Expected(m)
       THEN /\ host' \in {[host EXCEPT !.seq = m.seq, !.busy = "sink", !.last = m.type = "result",
                              !.asks = IF m.type = "permission" THEN "asked" ELSE @,
                              !.timer = t] :
                              t \in IF m.type = "result" THEN {FALSE} ELSE {FALSE, host.timer}}
            /\ seen' = [seen EXCEPT ![m.run] = @ + 1]
            /\ UNCHANGED result
       ELSE Fail(host) /\ UNCHANGED seen
    /\ UNCHANGED <<start, worker, toWorker, spawns, produced>>

\* The sink returned: write the acknowledgement.  It threw, or the channel is gone: fail.
\* Mutant: messages the sink ignores, as those after a cancel, are not acknowledged.
SinkReturns_Silent ==
    /\ Turn
    /\ host.busy = "sink"
    /\ IF host.connected
       THEN /\ host' = [host EXCEPT !.busy = IF host.told THEN "no" ELSE "ack"]
            /\ toWorker' = IF host.told THEN toWorker
                           ELSE Append(toWorker, Message("ack", host.run, host.seq))
            /\ UNCHANGED result
       ELSE Fail([host EXCEPT !.busy = "no"]) /\ UNCHANGED toWorker
    /\ UNCHANGED <<start, WorkerSide, spawns, seen>>

SinkReturns ==
    /\ Turn
    /\ host.busy = "sink"
    /\ IF host.connected
       THEN /\ host' = [host EXCEPT !.busy = "ack"]
            /\ toWorker' = Append(toWorker, Message("ack", host.run, host.seq))
            /\ UNCHANGED result
       ELSE Fail([host EXCEPT !.busy = "no"]) /\ UNCHANGED toWorker
    /\ UNCHANGED <<start, WorkerSide, spawns, seen>>

SinkThrows ==
    /\ Turn
    /\ host.busy = "sink"
    /\ Fail([host EXCEPT !.busy = "no"])
    /\ UNCHANGED <<start, WorkerSide, toWorker, spawns, seen>>

\* The write is reported.  After a result the Worker is free for the next run.
AckSent ==
    /\ Turn
    /\ host.busy = "ack"
    /\ \/ /\ host' = [host EXCEPT !.busy = "no", !.run = IF host.last THEN 0 ELSE @]
          /\ result' = IF host.last THEN Settle(result, host.run, "resolved") ELSE result
       \/ worker.life = "dead" /\ Fail([host EXCEPT !.busy = "no"])
    /\ UNCHANGED <<start, WorkerSide, toWorker, spawns, seen>>

----------------------------------------------------------------------------
(* Process events at the host, in either order *)

\* Mutant: the exit of a Worker does not settle its run.
ExitSeen_KeepsResult ==
    /\ Turn
    /\ worker.life = "dead" /\ ~ host.exited
    /\ host' = RejectReady([host EXCEPT !.exited = TRUE, !.timer = FALSE, !.run = 0])
    /\ UNCHANGED <<start, result, WorkerSide, toWorker, spawns, seen>>

ExitSeen ==
    /\ Turn
    /\ worker.life = "dead" /\ ~ host.exited
    /\ host' = RejectReady([host EXCEPT !.exited = TRUE, !.timer = FALSE, !.run = 0])
    /\ result' = Settle(result, host.run, "rejected")
    /\ UNCHANGED <<start, WorkerSide, toWorker, spawns, seen>>

\* The channel ends after its last message was read.
Disconnected ==
    /\ Turn
    /\ worker.life = "dead" /\ host.connected /\ toHost = <<>>
    /\ toWorker' = <<>>
    /\ IF host.closing = "no" /\ ~ host.exited THEN Fail([host EXCEPT !.connected = FALSE])
       ELSE host' = [host EXCEPT !.connected = FALSE] /\ UNCHANGED result
    /\ UNCHANGED <<start, WorkerSide, spawns, seen>>

----------------------------------------------------------------------------
(* closeSession() and terminate() *)

Close ==
    /\ Turn
    /\ host.known /\ host.closing = "no"
    /\ host' = CloseSession(host)
    /\ UNCHANGED <<start, result, WorkerSide, toWorker, spawns, seen>>

\* settleWorkerCleanup: a confirmed Worker is forgotten, unless its lease cannot be
\* removed; any other outcome rejects what waits and keeps the Worker quarantined.
\* Mutant: an unconfirmed one rejects nothing.
Ended_KeepsResult(outcome) ==
    /\ host' = IF outcome = "confirmed" THEN NoWorker
               ELSE RejectReady([host EXCEPT !.failed = TRUE, !.closing = outcome])
    /\ UNCHANGED result

Ended(outcome) ==
    IF outcome = "confirmed"
    THEN host' = NoWorker /\ UNCHANGED result
    ELSE /\ host' = RejectReady([host EXCEPT !.failed = TRUE, !.closing = outcome])
         /\ result' = Settle(result, host.run, "rejected")

\* What a parent chain links to the Worker or its group is recorded.  It misses what hangs
\* below a process that was reparented before, and everything once the Worker is reaped and
\* its PID is in use again.
Traced(stray) == IF "linked" \in stray THEN (stray \ {"linked"}) \cup {"owned"} ELSE stray

Snapshot ==
    /\ Turn
    /\ host.closing = "snapshot"
    /\ \E recorded \in BOOLEAN :
          /\ host' = [host EXCEPT !.closing = "grace", !.tree = recorded]
          /\ worker' \in {[worker EXCEPT !.stray = s] :
                            s \in {worker.stray} \cup (IF recorded THEN {Traced(worker.stray)} ELSE {})}
    /\ toWorker' = IF host.connected THEN Append(toWorker, Message("shutdown", 0, 0))
                   ELSE toWorker
    /\ UNCHANGED <<start, result, toHost, produced, spawns, seen>>

GroupGone == host.exited /\ ~ worker.group

\* The Worker exited in time, or the grace period is over: SIGTERM to its group.
\* Mutant: an exit in time is taken for the end of the whole group.
GraceOver_TrustsExit ==
    /\ Turn
    /\ host.closing = "grace"
    /\ \/ host' = [host EXCEPT !.closing = IF host.exited THEN "sweep" ELSE "term"]
          /\ UNCHANGED result
       \/ ~ host.exited /\ Ended("failed")
    /\ UNCHANGED <<start, WorkerSide, toWorker, spawns, seen>>

GraceOver ==
    /\ Turn
    /\ host.closing = "grace"
    /\ \/ host' = [host EXCEPT !.closing = IF GroupGone THEN "sweep" ELSE "term"]
          /\ UNCHANGED result
       \/ ~ GroupGone /\ Ended("failed")      \* the signal cannot be sent
    /\ UNCHANGED <<start, WorkerSide, toWorker, spawns, seen>>

\* After SIGTERM, and again after SIGKILL: gone, or the wait is over.
SignalOver ==
    /\ Turn
    /\ host.closing \in {"term", "kill"}
    /\ IF GroupGone THEN host' = [host EXCEPT !.closing = "sweep"] /\ UNCHANGED result
       ELSE IF host.closing = "term"
       THEN \/ host' = [host EXCEPT !.closing = "kill"] /\ UNCHANGED result
            \/ Ended("failed")
       ELSE Ended("unconfirmed")
    /\ UNCHANGED <<start, WorkerSide, toWorker, spawns, seen>>

\* reclaimTreeSurvivors: descendants that left the group; unknown without a snapshot.  It ends
\* as confirmed when its last scan finds none: the lost ones run on.  A linked one whose parent
\* ends by the sweep's own signals is lost too: ParentEnds just before.
Unfound(stray) == stray \cap {"lost"}

Sweep ==
    /\ Turn
    /\ host.closing = "sweep"
    /\ \/ /\ host.tree
          /\ worker' = [worker EXCEPT !.stray = Unfound(@)]
          /\ Ended("confirmed") /\ toHost' = <<>> /\ toWorker' = <<>>
       \/ /\ host.tree                          \* the lease cannot be removed
          /\ worker' = [worker EXCEPT !.stray = Unfound(@)]
          /\ Ended("failed") /\ UNCHANGED <<toHost, toWorker>>
       \/ \E outcome \in {"failed", "unconfirmed"} :      \* a signal fails, or some survive
             Ended(outcome) /\ UNCHANGED <<worker, toHost, toWorker>>
    /\ UNCHANGED <<start, produced, spawns, seen>>

----------------------------------------------------------------------------
(* The Worker process: host commands *)

HostStays == UNCHANGED <<HostSide, spawns, seen>>

Boot ==
    /\ worker.life = "boot"
    /\ worker' = [worker EXCEPT !.life = "up"]
    /\ toHost' = Append(toHost, Message("ready", 0, 0))
    /\ HostStays /\ UNCHANGED <<toWorker, produced>>

\* shutdown(): abort the run and wait for it.
ShutDown(w) == [w EXCEPT !.down = TRUE]

\* fatal(): a delivery that waits is rejected, and with it the chain behind it; the run
\* then ends without a result.
Fatal(w) ==
    IF w.ack = 0 THEN ShutDown(w)
    ELSE [ShutDown(w) EXCEPT !.run = 0, !.ack = 0, !.out = <<>>, !.driving = FALSE]

TakeRun(w, c) ==
    IF w.run # 0 \/ w.down THEN Fatal(w)
    ELSE [w EXCEPT !.run = c.run, !.seq = 0, !.out = <<"event">>, !.driving = TRUE,
                   !.perm = "none", !.group = TRUE, !.last = FALSE]

\* The acknowledgement of the result frees the Worker at once: the next command may be
\* the next run.  A delivery behind the result finds another owner and is dropped.
\* Mutant: freeing the Worker is left to the finally block of execute().
TakeAck_FreesLater(w, c) ==
    IF w.run # c.run \/ w.ack # c.seq THEN Fatal(w)
    ELSE [w EXCEPT !.ack = 0]

TakeAck(w, c) ==
    IF w.run # c.run \/ w.ack # c.seq THEN Fatal(w)
    ELSE IF w.last THEN [w EXCEPT !.ack = 0, !.run = 0, !.out = <<>>]
    ELSE [w EXCEPT !.ack = 0]

\* cancel aborts the driver, which may then end sooner; a driver may end at any time.
TakeCancel(w, c) == IF w.run # c.run THEN Fatal(w) ELSE w

TakePermission(w, c) ==
    IF w.run # c.run \/ w.perm # "open" THEN Fatal(w)
    ELSE [w EXCEPT !.perm = "answered", !.out = Append(@, "applied")]

Handle(w, c) ==
    CASE c.type = "shutdown" -> ShutDown(w)
      [] c.type = "run" -> TakeRun(w, c)
      [] c.type = "ack" -> TakeAck(w, c)
      [] c.type = "cancel" -> TakeCancel(w, c)
      [] c.type = "permission" -> TakePermission(w, c)

WorkerReads ==
    LET c == Head(toWorker)
        w == Handle(worker, c) IN
    /\ worker.life = "up" /\ toWorker # <<>>
    /\ worker' = w
    /\ toWorker' = Tail(toWorker)
    /\ produced' = IF ~ w.driving THEN produced
                   ELSE [produced EXCEPT ![w.run] = @ + Len(w.out) - Len(worker.out)]
    /\ HostStays /\ UNCHANGED toHost

----------------------------------------------------------------------------
(* The Worker process: the driver and its deliveries *)

Emits(kind) ==
    /\ worker' = [worker EXCEPT !.out = Append(@, kind)]
    /\ produced' = [produced EXCEPT ![worker.run] = @ + 1]
    /\ HostStays /\ UNCHANGED <<toWorker, toHost>>

Drives == worker.life = "up" /\ worker.driving

DriverEmits ==
    /\ Drives /\ produced[worker.run] <= MaxEvents
    /\ Emits("event")

DriverAsks ==
    /\ Drives /\ worker.perm = "none"
    /\ worker' = [worker EXCEPT !.out = Append(@, "permission"), !.perm = "open"]
    /\ produced' = [produced EXCEPT ![worker.run] = @ + 1]
    /\ HostStays /\ UNCHANGED <<toWorker, toHost>>

\* The engine gives up its request, or the run is aborted: the waiter goes.
DriverWithdraws ==
    /\ Drives /\ worker.perm = "open"
    /\ worker' = [worker EXCEPT !.perm = "gone"]
    /\ HostStays /\ UNCHANGED <<toWorker, toHost, produced>>

\* The driver returns or throws; settleRun, then the result, behind all deliveries.
\* Mutant: the result overtakes deliveries that still wait.
DriverEnds_Overtakes ==
    /\ Drives
    /\ worker' = [worker EXCEPT !.driving = FALSE, !.out = <<"result">> \o @]
    /\ produced' = [produced EXCEPT ![worker.run] = @ + 1]
    /\ HostStays /\ UNCHANGED <<toWorker, toHost>>

DriverEnds ==
    /\ Drives
    /\ worker' = [worker EXCEPT !.driving = FALSE, !.out = Append(@, "result")]
    /\ produced' = [produced EXCEPT ![worker.run] = @ + 1]
    /\ HostStays /\ UNCHANGED <<toWorker, toHost>>

\* emit(): one delivery at a time, the next after the acknowledgement.
Deliver ==
    /\ worker.life = "up" /\ worker.run # 0 /\ worker.out # <<>> /\ worker.ack = 0
    /\ toHost' = Append(toHost, Message(Head(worker.out), worker.run, worker.seq + 1))
    /\ worker' = [worker EXCEPT !.seq = @ + 1, !.ack = worker.seq + 1, !.out = Tail(@),
                                !.last = Head(worker.out) = "result"]
    /\ HostStays /\ UNCHANGED <<toWorker, produced>>

----------------------------------------------------------------------------
(* Processes *)

Dead(w) == [w EXCEPT !.life = "dead", !.run = 0, !.ack = 0, !.out = <<>>, !.driving = FALSE]

\* Shutting down, and the run is over.
WorkerExits ==
    /\ worker.life = "up" /\ worker.down /\ worker.run = 0
    /\ worker' = Dead(worker)
    /\ HostStays /\ UNCHANGED <<toWorker, toHost, produced>>

\* It crashes or is killed, by the host's signals or by anything else.
WorkerDies ==
    /\ worker.life \in {"boot", "up"}
    /\ worker' = Dead(worker)
    /\ HostStays /\ UNCHANGED <<toWorker, toHost, produced>>

\* Descendants leave the group, or end.
EngineLeaves ==
    /\ worker.group
    /\ \E left \in SUBSET Leaving :
          worker' = [worker EXCEPT !.group = FALSE, !.stray = @ \cup left]
    /\ HostStays /\ UNCHANGED <<toWorker, toHost, produced>>

\* A descendant outside the group starts another one that does not show the marker.
StrayForks ==
    /\ worker.stray \cap {"owned", "linked"} # {} /\ "linked" \in Leaving
    /\ worker' = [worker EXCEPT !.stray = @ \cup {"linked"}]
    /\ HostStays /\ UNCHANGED <<toWorker, toHost, produced>>

\* The process that linked them to the Worker ends: they are reparented.
ParentEnds ==
    /\ "linked" \in worker.stray
    /\ worker' = [worker EXCEPT !.stray = (@ \ {"linked"}) \cup {"lost"}]
    /\ HostStays /\ UNCHANGED <<toWorker, toHost, produced>>

----------------------------------------------------------------------------
(* The specification *)

Terminate == Snapshot \/ GraceOver \/ SignalOver \/ Sweep
Starting ==
    \/ StartReady \/ StartSent \/ StartThrows
    \/ \E r \in Runs : StartRefused(r) \/ StartIdle(r) \/ StartForks(r)
Client == Cancel \/ RespondPermission \/ Close
HostLoop == HostReads \/ SinkReturns \/ SinkThrows \/ AckSent
Events == ExitSeen \/ Disconnected
Timers == HandshakeTimeout \/ InitializeTimeout
Process == Boot \/ WorkerReads \/ Deliver \/ WorkerExits
Descendants == EngineLeaves \/ StrayForks \/ ParentEnds
Driver == DriverEmits \/ DriverAsks \/ DriverWithdraws \/ DriverEnds

Next ==
    \/ Starting \/ Client \/ HostLoop \/ Events \/ Timers \/ Terminate
    \/ Process \/ Driver \/ WorkerDies \/ Descendants

Spec == Init /\ [][Next]_vars

\* Both event loops run what is ready, the waits of terminate() are bounded, the sink
\* returns or throws, and the driver ends.
Fairness ==
    /\ WF_vars(StartReady \/ StartSent \/ StartThrows)
    /\ WF_vars(HostLoop) /\ WF_vars(Events) /\ WF_vars(Terminate)
    /\ WF_vars(HandshakeTimeout)
    /\ WF_vars(Process) /\ WF_vars(DriverEnds)

FairSpec == Spec /\ Fairness

----------------------------------------------------------------------------
(* Safety *)

\* While neither side has failed, no message is out of order, stale or unacknowledged
\* at the host, every acknowledgement is the one the Worker waits for, and a run command
\* finds the Worker idle, although it is sent right behind the acknowledgement of the
\* previous result.
InStep ==
    /\ TypeOK
    /\ host.known /\ ~ host.failed /\ ~ host.exited /\ toHost # <<>> /\ host.busy # "ack"
       => LET m == Head(toHost) IN
          IF m.type = "ready" THEN host.ready = "pending" /\ host.run # 0 /\ host.seq = 0
          ELSE Expected(m)
    /\ worker.life = "up" /\ ~ worker.down /\ toWorker # <<>>
       => LET c == Head(toWorker) IN
          /\ c.type = "ack" => c.run = worker.run /\ c.seq = worker.ack
          /\ c.type = "run" => worker.run = 0

\* A run's result is handed over only after everything its driver produced.
NothingLost ==
    \A r \in Runs : result[r] = "resolved" => seen[r] = produced[r]

\* A result somebody waits for has an owner that will settle it: the host tracks the
\* run, its Worker is not quarantined, and if the Worker has exited start() will throw.
PendingOwned ==
    \A r \in Runs : result[r] = "pending" =>
        /\ host.known /\ host.run = r /\ host.closing \notin Cleanup
        /\ host.exited => start.run = r /\ start.pc # "none"

\* A Worker is forgotten, and its Session free for another, only when it is dead, its process
\* group is empty and no descendant that left the group can still be attributed to it: none
\* that shows the marker, was recorded before the shutdown or descends from such a one
\* (reclaimTreeSurvivors).  A descendant that shows no marker and lost its parent before a
\* scan linked it may run on: the residual gap that posix-tree.ts states.
CleanupProven ==
    ~ host.known => /\ worker.life \in {"none", "dead"}
                    /\ ~ worker.group /\ worker.stray \subseteq {"lost"}

----------------------------------------------------------------------------
(* Liveness *)

\* Host and Worker never wait for each other for ever: every run that was taken
\* settles, if its driver ends.
RunSettles == \A r \in Runs : result[r] = "pending" ~> result[r] # "pending"

----------------------------------------------------------------------------
(* Refinement *)

Service == INSTANCE WorkerService WITH
    state <- IF ~ host.known THEN "none"
             ELSE IF host.closing = "no" THEN "live"
             ELSE IF host.closing \in Cleanup THEN "quarantined"
             ELSE "closing"

\* The host keeps the promise that the Runtime builds on (module WorkerService).
KeepsPromise == Service!Spec

=============================================================================

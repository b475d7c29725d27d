---------------------------- MODULE RuntimeProofs ----------------------------
(***************************************************************************)
(* The safety of module Runtime, for every number of Sessions, runs and    *)
(* crashes: the inductive invariant IInv, that each action keeps it, and   *)
(* the invariants and action properties that follow.                       *)
(*                                                                         *)
(* While the Runtime serves, IInv is Serving: the state is Good, and the   *)
(* calls under way around it (closeSession, suspendSession, the            *)
(* publisher, the slots of pump) are Fit.  While it recovers, IInv is      *)
(* Recovering: the memory is empty and the database and the leases are in  *)
(* the stage that phase names.                                             *)
(***************************************************************************)
EXTENDS RuntimeQueueProofs

----------------------------------------------------------------------------
(* The inductive invariant *)

Serving == Good(Here) /\ Fit(Here, closer, suspending, publishing) /\ half = None

\* The database and the leases while the Runtime recovers them.
Recovering ==
    /\ queue = <<>> /\ armed = {} /\ publishing = {} /\ suspending = {}
    /\ act = [s \in Sessions |-> Idle]
    /\ closer = [s \in Sessions |-> [phase |-> "none", run |-> None]]
    /\ \A s \in Sessions : worker[s] \notin {"live", "closing"}
                           /\ (phase # "leases" => worker[s] # "orphan")
    /\ Referenced(db)
    /\ \A s \in Sessions : Ordered(db, s)
    /\ phase = "sessions" => \A r \in Runs : Accepted(db, r) => IsTerminal(db, r)
    /\ \A p \in Perms : db.perm[p].status \in {"pending", "decided"} =>
          ~ IsTerminal(db, db.perm[p].run)
    /\ half # None => phase = "runs" /\ db.session[half].status # "absent"

\* The inductive invariant.
IInv ==
    /\ TypeOK
    /\ phase = "ready" => Serving
    /\ phase # "ready" => Recovering

\* The variables that steps of the Runtime's state leave alone.
RestTyped ==
    /\ past \subseteq Runs /\ pumpDue \in BOOLEAN
    /\ installed \subseteq Sessions /\ suspending \subseteq Sessions
    /\ closer \in [Sessions -> [phase : {"none", "stop", "host", "settle"},
                                run : Runs \cup {None}]]
    /\ publishing \subseteq [run : Runs, artifact : Artifacts]
    /\ closed \in BOOLEAN /\ crashes \in Nat

\* A Runtime that serves, in its invariant.
Served == RestTyped /\ phase = "ready" /\ Serving

\* The Runtime serves on.
Proceeds == Served' /\ Moves(Here, Here')

----------------------------------------------------------------------------
(* From steps on the state to actions *)

\* The inductive invariant of a Runtime that serves.
LEMMA ServedIInv ==
    ASSUME phase = "ready"
    PROVE  IInv <=> Served
<1>1. ASSUME IInv PROVE Served
  BY <1>1 DEF IInv, TypeOK, Served, RestTyped
<1>2. ASSUME Served PROVE IInv
  <2>1. Here \in States
    BY <1>2 DEF Served, Serving, Good
  <2>2. db \in Database /\ queue \in Seq(Runs) /\ armed \subseteq Runs
        /\ act \in [Sessions -> ActiveRecord] /\ worker \in [Sessions -> WorkerStates]
    BY <2>1 DEF States, Here
  <2>3. phase \in {"ready", "leases", "runs", "sessions"} /\ half \in Sessions \cup {None}
    BY <1>2 DEF Served, Serving
  <2>4. TypeOK
    BY <1>2, <2>2, <2>3 DEF TypeOK, Served, RestTyped
  <2> QED BY <1>2, <2>4 DEF IInv, Served
<1> QED BY <1>1, <1>2

\* The variables around the state that the invariant relates to it.
around == <<closer, suspending, publishing, phase, half>>

\* An action that is a step of one Session.
LEMMA StepProceeds ==
    ASSUME Served, NEW s \in Sessions, Steps(Here, Here', s), UNCHANGED around, RestTyped'
    PROVE  Proceeds
<1>1. Good(Here) /\ Fit(Here, closer, suspending, publishing)
  BY DEF Served, Serving
<1>2. suspending \in SUBSET Sessions /\ publishing \in SUBSET [run : Runs, artifact : Artifacts]
  BY DEF Served, RestTyped
<1>3. Advances(Here, Here') /\ Good(Here')
  BY <1>1, StepsAdvances DEF Advances
<1>4. Fit(Here', closer, suspending, publishing)
  BY <1>1, <1>2, <1>3, FitKept
<1>5. Moves(Here, Here')
  BY <1>3 DEF Advances, Continues
<1>6. closer' = closer /\ suspending' = suspending /\ publishing' = publishing
      /\ half' = half /\ phase' = phase
  BY DEF around
<1>7. Serving'
  BY <1>3, <1>4, <1>6 DEF Served, Serving
<1> QED BY <1>5, <1>6, <1>7 DEF Proceeds, Served

\* An action that leaves the variables around the state alone keeps their types.
LEMMA RestKept ==
    ASSUME Served, UNCHANGED rest
    PROVE  UNCHANGED around /\ RestTyped'
BY DEF rest, around, Served, RestTyped

\* A sound step of a Session is still one once the event log is erased.
LEMMA BecomeSteps ==
    ASSUME Served, NEW s \in Sessions, NEW x, Steps(Here, x, s), Become(x)
    PROVE  Steps(Here, Here', s)
<1>1. Good(x) /\ Good(Here) /\ x \in States
  BY DEF Steps, Good, Served, Serving
<1>2. Steps(x, Here', s)
  BY <1>1, BecomeSame, SameSteps
<1> QED BY <1>1, <1>2, StepsTwice

\* An action that computes a sound step of one Session keeps the Runtime serving.
LEMMA BecomeProceeds ==
    ASSUME Served, NEW s \in Sessions, NEW x, Steps(Here, x, s), Become(x), UNCHANGED rest
    PROVE  Proceeds
BY BecomeSteps, RestKept, StepProceeds

\* The state of a Runtime that serves.
LEMMA ServedHere ==
    ASSUME Served
    PROVE  /\ Good(Here) /\ Here \in States
           /\ Here.db = db /\ Here.queue = queue /\ Here.armed = armed
           /\ Here.act = act /\ Here.worker = worker
BY DEF Served, Serving, Good, Here

\* What a Session's record and its Worker satisfy.
LEMMA ServedRecord ==
    ASSUME Served, NEW s \in Sessions
    PROVE  /\ Here.act[s] = act[s] /\ Here.worker[s] = worker[s]
           /\ act[s] \in ActiveRecord /\ worker[s] \in WorkerStates
           /\ Executing(db, act[s], s) /\ Staged(act[s], worker[s], s)
           /\ Truthful(db, act[s], worker[s], s) /\ Shut(db, act[s], worker[s], s)
           /\ Asked(db, act[s], s) /\ Mine(db, act[s], s)
BY ServedHere DEF Good, States, Aright

\* An action that replaces the record of a Session.
LEMMA PutHere ==
    ASSUME Served, NEW s \in Sessions, NEW b \in ActiveRecord,
           act' = [act EXCEPT ![s] = b], UNCHANGED <<db, queue, armed, worker>>
    PROVE  Revised(Here, Here', s, b, worker[s])
<1>1. Here' = Put(Here, s, b)
  BY DEF Here, Put
<1>2. Here \in States /\ Here.worker[s] = worker[s]
  BY ServedHere
<1> QED BY <1>1, <1>2, PutRevises

\* A record that stays in flight, its Worker left alone.
LEMMA FlightProceeds ==
    ASSUME Served, NEW s \in Sessions, NEW b, InFlight(act[s]),
           Revised(Here, Here', s, b, worker[s]), InFlight(b), Carries(act[s], b),
           Staged(b, worker[s], s)
    PROVE  Steps(Here, Here', s)
BY ServedHere, FlightSteps

----------------------------------------------------------------------------
(* execute(), action by action *)

\* execute() goes on after the installation was inspected.
LEMMA InspectedProceeds ==
    ASSUME Served, NEW s \in Sessions, Inspected(s) PROVE Proceeds
<1> DEFINE a == act[s]
           b == [a EXCEPT !.pc = "begin"]
<1>1. a \in ActiveRecord /\ Staged(a, worker[s], s)
  BY ServedRecord
<1>2. a.pc = "inspect" /\ a.stop = "none" /\ act' = [act EXCEPT ![s] = b]
      /\ UNCHANGED <<db, queue, armed, worker>>
  BY DEF Inspected, At
<1>3. /\ b \in ActiveRecord /\ b.run = a.run /\ b.pc = "begin" /\ b.stop = a.stop
      /\ b.stopping = a.stopping /\ b.handle = a.handle /\ b.result = a.result
      /\ b.failed = a.failed /\ b.cleanup = a.cleanup
  BY <1>1 DEF ActiveRecord, Pcs
<1> HIDE DEF b
<1>4. Revised(Here, Here', s, b, worker[s])
  BY <1>2, <1>3, PutHere
<1>5. Staged(b, worker[s], s) /\ InFlight(a) /\ InFlight(b) /\ Carries(a, b)
  BY <1>1, <1>2, <1>3 DEF Staged, InFlight, Carries
<1>6. Steps(Here, Here', s)
  BY <1>4, <1>5, FlightProceeds
<1>7. UNCHANGED around /\ RestTyped'
  BY DEF Inspected, around, Served, RestTyped
<1> QED BY <1>6, <1>7, StepProceeds

\* execute() catches a failed, or aborted, inspection.
LEMMA InspectFailsProceeds ==
    ASSUME Served, NEW s \in Sessions, InspectFails(s) PROVE Proceeds
<1>1. InFlight(Here.act[s])
  BY ServedRecord DEF InspectFails, At, InFlight
<1>2. Steps(Here, Catch(Here, s), s)
  BY <1>1, ServedHere, CatchSteps
<1> QED BY <1>2, BecomeProceeds DEF InspectFails

\* execute() stops its own run when the deadline passed before the start.
LEMMA BeginOverdueProceeds ==
    ASSUME Served, NEW s \in Sessions, BeginOverdue(s) PROVE Proceeds
<1> DEFINE a == act[s]
           r == a.run
           t == Stop(Here, r, "timed_out")
           x == Catch(t, s)
           b == StopRecord(a, "timed_out")
           v == StopWorker(a, worker[s])
           c == CatchRecord(b)
<1>1. a.pc = "begin" /\ Become(x) /\ UNCHANGED rest
  BY DEF BeginOverdue, At
<1>2. Staged(a, worker[s], s) /\ a.stop = "none" /\ a.stopping = "none" /\ InFlight(a)
  BY <1>1, ServedRecord DEF Staged, InFlight
<1>3. r \in Runs /\ db.run[r].session = s /\ ~ IsTerminal(db, r)
  BY <1>2, ServedHere, ActiveRun
<1>4. "timed_out" \in {"cancelled", "timed_out"}
  OBVIOUS
<1>5. /\ b \in ActiveRecord /\ b.stop = "timed_out"
      /\ b.stopping = IF a.handle THEN "grace" ELSE "closing"
      /\ Resumes(a, b)
      /\ \E y : Rewritten(Here, y, y.db) /\ Steps(Here, y, s) /\ Revised(y, t, s, b, v)
  BY <1>2, <1>3, <1>4, ServedHere, StopTells
<1>6. PICK y : Rewritten(Here, y, y.db) /\ Steps(Here, y, s) /\ Revised(y, t, s, b, v)
  BY <1>5
<1>7. v = IF a.handle THEN worker[s] ELSE Shuttered(worker[s])
  BY DEF StopWorker
<1> HIDE DEF b, v, t
<1>8. t \in States /\ t.act[s] = b /\ t.worker[s] = v
  BY <1>6 DEF Revised
<1>9. Revised(t, x, s, c, CatchWorker(b, v))
  BY <1>8, CatchRevises
<1>10. CatchWorker(b, v) = v
  BY <1>5 DEF CatchWorker
<1>11. Revised(y, x, s, c, v)
  BY <1>6, <1>9, <1>10, RevisedTwice
<1>12. /\ c.run = b.run /\ c.stop = b.stop
       /\ c.stopping = b.stopping /\ c.handle = b.handle
       /\ c.pc = "catch"
  BY <1>5, CatchRecordFields
<1> HIDE DEF c, x
<1>13. Staged(c, v, s)
  BY <1>2, <1>5, <1>7, <1>12 DEF Staged, Resumes, Shuttered, Cleanup, Gone
<1>14. InFlight(c) /\ Carries(a, c) /\ (v = "live" => worker[s] = "live")
  BY <1>2, <1>5, <1>7, <1>12 DEF InFlight, Carries, Resumes, Shuttered
<1>15. Good(y) /\ y.act[s] = a /\ y.worker[s] = worker[s]
  BY <1>6, ServedHere DEF Steps, Rewritten
<1>16. Steps(y, x, s)
  BY <1>2, <1>11, <1>13, <1>14, <1>15, FlightSteps
<1>17. Steps(Here, x, s)
  BY <1>6, <1>16, ServedHere, StepsTwice
<1> QED BY <1>1, <1>17, BecomeProceeds

\* execute() fails a run that the model gateway refuses to begin.
LEMMA BeginUnavailableProceeds ==
    ASSUME Served, NEW s \in Sessions, BeginUnavailable(s) PROVE Proceeds
<1> DEFINE y == Inspection(Here, s)
           x == Finished(y, s, "failed", "confirmed")
           a == act[s]
<1>1. a.pc = "begin" /\ Staged(a, worker[s], s)
  BY ServedRecord DEF BeginUnavailable, At
<1>2. InFlight(a) /\ a.stop = "none" /\ ~ a.failed /\ a.result \notin Results
  BY <1>1 DEF Staged, InFlight, Results
<1>3. Steps(Here, y, s) /\ y.act = act /\ y.worker = worker
  BY <1>2, ServedHere, InspectionSteps
<1>4. Become(x) /\ UNCHANGED rest
  <2>1. Become([End(y, act[s].run, "failed", "confirmed") EXCEPT !.act[s].pc = "final"])
        /\ UNCHANGED rest
    BY DEF BeginUnavailable
  <2> HIDE DEF y
  <2> QED BY <1>3, <2>1 DEF Finished
<1> HIDE DEF y, x
<1>5. Good(y)
  BY <1>3 DEF Steps
<1>6. "failed" \in Terminal /\ "confirmed" \in Cleanup
  BY DEF Terminal, Cleanup
<1>7. Steps(y, x, s)
  BY <1>2, <1>3, <1>5, <1>6, FinishedSteps DEF x
<1>8. Steps(Here, x, s)
  BY <1>3, <1>7, ServedHere, StepsTwice
<1> QED BY <1>4, <1>8, BecomeProceeds

\* models.begin.
LEMMA BegunSteps ==
    ASSUME Served, NEW s \in Sessions, At(s, "begin")
    PROVE  LET x == Begun(s)
               b == x.act[s] IN
           /\ Steps(Here, x, s) /\ InFlight(b) /\ Resumes(act[s], b)
           /\ b.stop = "none" /\ b \in ActiveRecord
           /\ x \in States /\ x.worker = worker
<1> DEFINE y == Inspection(Here, s)
           a == act[s]
           m == IF s \in Routed THEN "open" ELSE "none"
           b == [a EXCEPT !.model = m]
           x == Put(y, s, b)
<1>1. a.pc = "begin" /\ Staged(a, worker[s], s) /\ a \in ActiveRecord
  BY ServedRecord DEF At
<1>2. InFlight(a) /\ a.stop = "none"
  BY <1>1 DEF Staged, InFlight
<1>3. Steps(Here, y, s) /\ y \in States /\ y.act = act /\ y.worker = worker
  BY <1>2, ServedHere, InspectionSteps
<1>4. Begun(s) = x
  <2>1. Begun(s) = [y EXCEPT !.act[s].model = m]
    BY DEF Begun
  <2> HIDE DEF y, m
  <2> QED BY <1>3, <2>1 DEF Put
<1>5. m \in {"none", "open", "ended"}
  OBVIOUS
<1> HIDE DEF y, m
<1>6. /\ b \in ActiveRecord /\ b.run = a.run /\ b.pc = a.pc /\ b.stop = a.stop
      /\ b.stopping = a.stopping /\ b.handle = a.handle /\ b.result = a.result
      /\ b.failed = a.failed /\ b.cleanup = a.cleanup
  BY <1>1, <1>5 DEF ActiveRecord
<1> HIDE DEF b
<1>7. Revised(y, x, s, b, worker[s])
  BY <1>3, <1>6, PutRevises
<1>8. Good(y)
  BY <1>3 DEF Steps
<1>9. Staged(b, worker[s], s) /\ InFlight(b) /\ Carries(a, b)
  BY <1>1, <1>2, <1>6 DEF Staged, InFlight, Carries
<1> HIDE DEF x
<1>10. Steps(y, x, s)
  BY <1>2, <1>3, <1>7, <1>8, <1>9, FlightSteps
<1>11. Steps(Here, x, s)
  BY <1>3, <1>10, ServedHere, StepsTwice
<1>12. x.act[s] = b /\ x \in States
  BY <1>7 DEF Revised
<1>13. x.worker = worker
  BY <1>3, <1>12 DEF x, Put, States
<1> QED BY <1>2, <1>4, <1>6, <1>9, <1>11, <1>12, <1>13 DEF Resumes

\* execute() catches a host that refuses to start a Worker.
LEMMA BeginRefusedProceeds ==
    ASSUME Served, NEW s \in Sessions, BeginRefused(s) PROVE Proceeds
<1> DEFINE y == Begun(s)
           x == Catch(y, s)
<1>1. At(s, "begin") /\ Become(x) /\ UNCHANGED rest
  BY DEF BeginRefused
<1>2. Steps(Here, y, s) /\ InFlight(y.act[s])
  BY <1>1, BegunSteps
<1> HIDE DEF y
<1>3. Steps(y, x, s)
  BY <1>2, CatchSteps DEF Steps
<1>4. Steps(Here, x, s)
  BY <1>2, <1>3, ServedHere, StepsTwice
<1> QED BY <1>1, <1>4, BecomeProceeds

\* execute() starts, or reuses, the Worker of its Session.
LEMMA BeginStartsProceeds ==
    ASSUME Served, NEW s \in Sessions, BeginStarts(s) PROVE Proceeds
<1> DEFINE y == Begun(s)
           a == y.act[s]
           b == [a EXCEPT !.pc = "start"]
           f == [y.act EXCEPT ![s] = b]
           g == [y.worker EXCEPT ![s] = "live"]
           x == [y EXCEPT !.worker[s] = "live", !.act[s].pc = "start"]
<1>1. At(s, "begin") /\ Become(x) /\ UNCHANGED rest
  BY DEF BeginStarts
<1>2. /\ Steps(Here, y, s) /\ InFlight(a) /\ Resumes(act[s], a) /\ a.stop = "none"
      /\ a \in ActiveRecord /\ y \in States /\ y.worker = worker
  BY <1>1, BegunSteps
<1> HIDE DEF y
<1>3. Good(y) /\ Staged(a, worker[s], s)
  BY <1>2 DEF Steps, Good, Aright
<1>4. /\ b \in ActiveRecord /\ b.run = a.run /\ b.pc = "start" /\ b.stop = a.stop
      /\ b.stopping = a.stopping /\ b.handle = a.handle /\ b.result = a.result
      /\ b.failed = a.failed /\ b.cleanup = a.cleanup
  BY <1>2 DEF ActiveRecord, Pcs
<1>5. x = [y EXCEPT !.worker = g, !.act = f]
  BY <1>2 DEF States
<1>6. "live" \in WorkerStates
  BY DEF WorkerStates
<1> HIDE DEF b
<1>7. /\ f \in [Sessions -> ActiveRecord] /\ f[s] = b
      /\ \A t \in Sessions \ {s} : f[t] = y.act[t]
      /\ g \in [Sessions -> WorkerStates] /\ g[s] = "live"
      /\ \A t \in Sessions \ {s} : g[t] = y.worker[t]
  BY <1>2, <1>4, <1>6 DEF States
<1> HIDE DEF f, g, x
<1>8. Revised(y, x, s, b, "live")
  BY <1>2, <1>5, <1>7 DEF Revised, States
<1>9. Staged(b, "live", s) /\ InFlight(b) /\ Carries(a, b)
  BY <1>2, <1>3, <1>4 DEF Staged, InFlight, Carries, Cleanup
<1>10. Steps(y, x, s)
  BY <1>2, <1>3, <1>8, <1>9, FlightSteps
<1>11. Steps(Here, x, s)
  BY <1>2, <1>10, ServedHere, StepsTwice
<1> QED BY <1>1, <1>11, BecomeProceeds

\* host.start() answers with the handle of the run.
LEMMA StartedProceeds ==
    ASSUME Served, NEW s \in Sessions, Started(s) PROVE Proceeds
<1> DEFINE a == act[s]
           b == [a EXCEPT !.handle = TRUE, !.pc = "result"]
<1>1. a \in ActiveRecord /\ Staged(a, worker[s], s) /\ act \in [Sessions -> ActiveRecord]
  BY ServedRecord, ServedHere DEF States
<1>2. a.pc = "start" /\ act' = [act EXCEPT ![s].handle = TRUE, ![s].pc = "result"]
      /\ UNCHANGED <<db, queue, armed, worker>> /\ UNCHANGED rest
  BY DEF Started, At
<1>3. act' = [act EXCEPT ![s] = b]
  BY <1>1, <1>2
<1>4. /\ b \in ActiveRecord /\ b.run = a.run /\ b.pc = "result" /\ b.stop = a.stop
      /\ b.stopping = a.stopping /\ b.handle = TRUE /\ b.result = a.result
      /\ b.failed = a.failed /\ b.cleanup = a.cleanup
  BY <1>1 DEF ActiveRecord, Pcs
<1> HIDE DEF b
<1>5. Revised(Here, Here', s, b, worker[s])
  BY <1>2, <1>3, <1>4, PutHere
<1>6. Staged(b, worker[s], s) /\ InFlight(a) /\ InFlight(b) /\ Carries(a, b)
  BY <1>1, <1>2, <1>4 DEF Staged, InFlight, Carries
<1>7. Steps(Here, Here', s)
  BY <1>5, <1>6, FlightProceeds
<1> QED BY <1>2, <1>7, RestKept, StepProceeds

\* host.start() fails, and execute() closes the Worker.
LEMMA StartFailsProceeds ==
    ASSUME Served, NEW s \in Sessions, StartFails(s) PROVE Proceeds
<1> DEFINE y == CloseWorker(Here, s)
           x == Catch(y, s)
<1>1. act[s].pc = "start" /\ Become(x) /\ UNCHANGED rest
  BY DEF StartFails, At
<1>2. Steps(Here, y, s)
  BY ServedHere, CloseWorkerSteps
<1>3. y.act[s] = act[s]
  BY ServedHere, CloseWorkerRevises DEF Revised
<1> HIDE DEF y
<1>4. Good(y) /\ InFlight(y.act[s])
  BY <1>1, <1>2, <1>3 DEF Steps, InFlight
<1>5. Steps(y, x, s)
  BY <1>4, CatchSteps
<1>6. Steps(Here, x, s)
  BY <1>2, <1>5, ServedHere, StepsTwice
<1> QED BY <1>1, <1>6, BecomeProceeds

\* An exception anywhere inside execute().
LEMMA CatchProceeds ==
    ASSUME Served, NEW s \in Sessions, InFlight(act[s]), Become(Catch(Here, s)), UNCHANGED rest
    PROVE  Proceeds
<1>1. Steps(Here, Catch(Here, s), s)
  BY ServedHere, CatchSteps
<1> QED BY <1>1, BecomeProceeds

\* The result of the run is rejected: the Worker failed or closed.
LEMMA ResultRejectedProceeds ==
    ASSUME Served, NEW s \in Sessions, ResultRejected(s) PROVE Proceeds
BY CatchProceeds DEF ResultRejected, At, InFlight

\* The collection of outputs fails, or is aborted.
LEMMA CollectFailsProceeds ==
    ASSUME Served, NEW s \in Sessions, CollectFails(s) PROVE Proceeds
BY CatchProceeds DEF CollectFails, At, InFlight

\* The result of the run arrives; a shared model session is ended first.
LEMMA ResultArrivesProceeds ==
    ASSUME Served, NEW s \in Sessions, ResultArrives(s) PROVE Proceeds
<1> DEFINE a == act[s]
<1>1. a.pc = "result" /\ a.result \in Results /\ UNCHANGED rest
  BY DEF ResultArrives, At
<1>2. a \in ActiveRecord /\ Staged(a, worker[s], s) /\ InFlight(a)
  BY <1>1, ServedRecord DEF InFlight
<1>3. CASE a.model = "open"
  <2> DEFINE b == [a EXCEPT !.model = "ended", !.pc = "settle"]
             x == [Here EXCEPT !.act[s].model = "ended", !.act[s].pc = "settle"]
  <2>1. Become(x)
    BY <1>3 DEF ResultArrives
  <2>2. x = Put(Here, s, b)
    <3>1. act \in [Sessions -> ActiveRecord]
      BY ServedHere DEF States
    <3> DEFINE f == [act EXCEPT ![s].model = "ended", ![s].pc = "settle"]
    <3>2. f = [act EXCEPT ![s] = b]
      BY <1>2, <3>1
    <3>3. x = [Here EXCEPT !.act = f]
      BY <3>1, ServedHere DEF Here
    <3> HIDE DEF f
    <3> QED BY <3>2, <3>3, ServedHere DEF Put
  <2>3. /\ b \in ActiveRecord /\ b.run = a.run /\ b.pc = "settle" /\ b.stop = a.stop
        /\ b.stopping = a.stopping /\ b.handle = a.handle /\ b.result = a.result
        /\ b.failed = a.failed /\ b.cleanup = a.cleanup
    BY <1>2 DEF ActiveRecord, Pcs
  <2> HIDE DEF b, x
  <2>4. Staged(b, worker[s], s) /\ InFlight(b) /\ Carries(a, b)
    BY <1>1, <1>2, <2>3 DEF Staged, InFlight, Carries
  <2>5. Steps(Here, x, s)
    BY <1>2, <2>2, <2>3, <2>4, ServedHere, PutSteps
  <2> QED BY <1>1, <2>1, <2>5, BecomeProceeds
<1>4. CASE a.model # "open"
  <2>1. Become(AfterResult(Here, s))
    BY <1>4 DEF ResultArrives
  <2>2. Steps(Here, AfterResult(Here, s), s)
    BY <1>1, ServedHere, AfterResultSteps
  <2> QED BY <1>1, <2>1, <2>2, BecomeProceeds
<1> QED BY <1>3, <1>4

\* The model session is ended, and may turn the result into a failure.
LEMMA ModelsEndProceeds ==
    ASSUME Served, NEW s \in Sessions, ModelsEnd(s) PROVE Proceeds
<1> DEFINE a == act[s]
           y(v) == Put(Here, s, [a EXCEPT !.result = v])
<1>1. a.pc = "settle" /\ UNCHANGED rest
  BY DEF ModelsEnd, At
<1>2. a \in ActiveRecord /\ Staged(a, worker[s], s) /\ InFlight(a) /\ a.result \in Results
  BY <1>1, ServedRecord DEF InFlight, Staged
<1>3. PICK res \in Results : Become(AfterResult(y(res), s))
  BY <1>2, ServedHere DEF ModelsEnd, Put, Results
<1> DEFINE b == [a EXCEPT !.result = res]
           x == AfterResult(y(res), s)
<1>4. y(res) = Put(Here, s, b)
  OBVIOUS
<1>5. /\ b \in ActiveRecord /\ b.run = a.run /\ b.pc = a.pc /\ b.stop = a.stop
      /\ b.stopping = a.stopping /\ b.handle = a.handle /\ b.result = res
      /\ b.failed = a.failed /\ b.cleanup = a.cleanup
  BY <1>2 DEF ActiveRecord
<1> HIDE DEF b, y
<1>6. Staged(b, worker[s], s) /\ InFlight(b) /\ Carries(a, b)
  BY <1>1, <1>2, <1>5 DEF Staged, InFlight, Carries
<1>7. Steps(Here, y(res), s) /\ y(res).act[s] = b
  BY <1>2, <1>4, <1>5, <1>6, ServedHere, PutSteps, PutRevises DEF Revised
<1>8. Steps(y(res), x, s)
  BY <1>1, <1>5, <1>7, AfterResultSteps DEF Steps
<1>9. Steps(Here, x, s)
  BY <1>7, <1>8, ServedHere, StepsTwice
<1> QED BY <1>1, <1>3, <1>9, BecomeProceeds

\* The Worker is reclaimed after the result.
LEMMA ReclaimedProceeds ==
    ASSUME Served, NEW s \in Sessions, Reclaimed(s) PROVE Proceeds
<1> DEFINE a == act[s]
           w == worker[s]
           v == HostStatus(w)
           b == [a EXCEPT !.cleanup = v]
           y == Put(Here, s, b)
           x == AfterReclaim(y, s)
<1>1. a.pc = "reclaim" /\ w # "closing" /\ UNCHANGED rest /\ Become(x)
  BY ServedHere DEF Reclaimed, At, Put
<1>2. a \in ActiveRecord /\ Staged(a, w, s) /\ InFlight(a) /\ w \in WorkerStates
  BY <1>1, ServedRecord DEF InFlight
<1>3. w \in Gone /\ a.result \in Results
  BY <1>1, <1>2 DEF Staged, WorkerStates, Gone
<1>4. v \in Cleanup
  BY <1>2, <1>3, HostStatusCleanup
<1> HIDE DEF v
<1>5. /\ b \in ActiveRecord /\ b.run = a.run /\ b.pc = a.pc /\ b.stop = a.stop
      /\ b.stopping = a.stopping /\ b.handle = a.handle /\ b.result = a.result
      /\ b.failed = a.failed /\ b.cleanup = v
  BY <1>2, <1>4 DEF ActiveRecord
<1> HIDE DEF b
<1>6. Staged(b, w, s) /\ InFlight(b) /\ Carries(a, b)
  BY <1>1, <1>2, <1>5 DEF Staged, InFlight, Carries
<1>7. Steps(Here, y, s) /\ y.act[s] = b /\ y.worker[s] = w
  BY <1>2, <1>5, <1>6, ServedHere, PutSteps, PutRevises DEF Revised
<1> HIDE DEF y
<1>8. Judged(b, w, s)
  BY <1>3, <1>5 DEF Judged, v
<1>9. Steps(y, x, s)
  BY <1>1, <1>5, <1>6, <1>7, <1>8, AfterReclaimSteps DEF Steps
<1>10. Steps(Here, x, s)
  BY <1>7, <1>9, ServedHere, StepsTwice
<1> QED BY <1>1, <1>10, BecomeProceeds

\* The outputs of a run that did not complete are discarded.
LEMMA DiscardedProceeds ==
    ASSUME Served, NEW s \in Sessions, Discarded(s) PROVE Proceeds
<1> DEFINE a == act[s]
           y == StopIfPast(Here, s)
           x == Conclude(y, s)
<1>1. a.pc = "discard" /\ Become(x) /\ UNCHANGED rest
  BY DEF Discarded, At
<1>2. Staged(a, worker[s], s) /\ InFlight(a)
  BY <1>1, ServedRecord DEF InFlight
<1>3. Judged(a, worker[s], s)
  BY <1>1, <1>2 DEF Staged, Judged
<1>4. /\ Steps(Here, y, s) /\ InFlight(y.act[s]) /\ Resumes(a, y.act[s])
      /\ y.act[s].stop = "none" => y = Here
  BY <1>1, <1>2, ServedHere, StopIfPastSteps
<1> HIDE DEF y
<1>5. Judged(y.act[s], y.worker[s], s)
  BY <1>3, <1>4, ServedHere DEF Judged, Resumes
<1>6. Good(y)
  BY <1>4 DEF Steps
<1>7. Steps(y, x, s)
  BY <1>4, <1>5, <1>6, ConcludeSteps
<1>8. Steps(Here, x, s)
  BY <1>4, <1>7, ServedHere, StepsTwice
<1> QED BY <1>1, <1>8, BecomeProceeds

\* execute() records the end of its run.
LEMMA FinishedProceeds ==
    ASSUME Served, NEW s \in Sessions, InFlight(act[s]),
           NEW status \in Terminal, NEW cleanup \in Cleanup,
           act[s].stop # "none" => status = act[s].stop,
           worker[s] \in Gone, cleanup = HostStatus(worker[s]),
           Become(Finished(Here, s, status, cleanup)), UNCHANGED rest
    PROVE  Proceeds
<1>1. Good(Here) /\ Here.act[s] = act[s] /\ Here.worker[s] = worker[s]
  BY ServedHere
<1>2. Steps(Here, Finished(Here, s, status, cleanup), s)
  BY <1>1, FinishedSteps
<1> QED BY <1>2, BecomeProceeds

\* execute() awaited the stopping promise and records the stop.
LEMMA StopAwaitedProceeds ==
    ASSUME Served, NEW s \in Sessions, StopAwaited(s) PROVE Proceeds
<1> DEFINE a == act[s]
<1>1. a.pc = "stopwait" /\ a.stopping \in Cleanup /\ UNCHANGED rest
      /\ Become(Finished(Here, s, a.stop, a.stopping))
  BY ServedHere DEF StopAwaited, At, Finished
<1>2. a \in ActiveRecord /\ Staged(a, worker[s], s)
  BY ServedRecord
<1>3. InFlight(a) /\ a.stop \in Terminal /\ worker[s] \in Gone
      /\ a.stopping = HostStatus(worker[s])
  BY <1>1, <1>2 DEF Staged, ActiveRecord, Terminal, InFlight
<1> QED BY <1>1, <1>3, FinishedProceeds

\* The catch block records the end of the run.
LEMMA CaughtProceeds ==
    ASSUME Served, NEW s \in Sessions, Caught(s) PROVE Proceeds
<1> DEFINE a == act[s]
           status == IF a.stop # "none" THEN a.stop ELSE "failed"
           cleanup == IF a.pc = "catch" THEN a.stopping ELSE HostStatus(worker[s])
<1>1. /\ \/ a.pc = "catch" /\ a.stopping \in Cleanup
         \/ a.pc = "catchclose" /\ worker[s] # "closing"
      /\ UNCHANGED rest /\ Become(Finished(Here, s, status, cleanup))
  BY ServedHere DEF Caught, At, Finished
<1>2. a \in ActiveRecord /\ Staged(a, worker[s], s) /\ worker[s] \in WorkerStates
  BY ServedRecord
<1>3. worker[s] \in Gone /\ cleanup = HostStatus(worker[s]) /\ InFlight(a)
  BY <1>1, <1>2 DEF Staged, Gone, WorkerStates, InFlight
<1>4. cleanup \in Cleanup
  BY <1>2, <1>3, HostStatusCleanup
<1>5. status \in Terminal /\ (a.stop # "none" => status = a.stop)
  BY <1>2 DEF Terminal, ActiveRecord
<1> HIDE DEF status, cleanup
<1> QED BY <1>1, <1>3, <1>4, <1>5, FinishedProceeds

\* The finally block ends a model session that is still open.
LEMMA FinallyModelsProceeds ==
    ASSUME Served, NEW s \in Sessions, FinallyModels(s) PROVE Proceeds
<1> DEFINE a == act[s]
           b == [a EXCEPT !.model = "ended"]
<1>1. a.pc = "final" /\ act' = [act EXCEPT ![s] = b]
      /\ UNCHANGED <<db, queue, armed, worker>> /\ UNCHANGED rest
  BY DEF FinallyModels, At
<1>2. a \in ActiveRecord /\ Staged(a, worker[s], s)
  BY ServedRecord
<1>3. /\ b \in ActiveRecord /\ b.run = a.run /\ b.pc = a.pc /\ b.stop = a.stop
      /\ b.stopping = a.stopping /\ b.handle = a.handle /\ b.result = a.result
      /\ b.failed = a.failed /\ b.cleanup = a.cleanup
  BY <1>2 DEF ActiveRecord
<1> HIDE DEF b
<1>4. Revised(Here, Here', s, b, worker[s])
  BY <1>1, <1>3, PutHere
<1>5. Staged(b, worker[s], s) /\ a # Idle /\ Carries(a, b)
  BY <1>1, <1>2, <1>3 DEF Staged, Idle, Carries
<1>6. Steps(Here, Here', s)
  BY <1>3, <1>4, <1>5, ServedHere, RecordSteps
<1> QED BY <1>1, <1>6, RestKept, StepProceeds

\* The finally block frees the Session, and closes one that lost its ACP Worker.
LEMMA FinallyProceeds ==
    ASSUME Served, NEW s \in Sessions, Finally(s) PROVE Proceeds
<1> DEFINE a == act[s]
           r == a.run
           lost == DriverOf[s] = "acp" /\ Lost(s)
           e == IF lost THEN SetSessionStatus(db, s, "closed") ELSE db
           f == [act EXCEPT ![s] = Idle]
           v == IF lost THEN "closed" ELSE db.session[s].status
           x == [Here EXCEPT !.armed = armed \ {r}, !.act = f, !.db = e]
<1>1. a.pc = "final"
  BY DEF Finally, At
<1>2. Become(x)
  BY ServedHere DEF Finally, Disarm, Here
<1>3. a \in ActiveRecord /\ Staged(a, worker[s], s) /\ Truthful(db, a, worker[s], s)
      /\ Here \in States /\ Here.db = db /\ db \in Database
      /\ act \in [Sessions -> ActiveRecord]
  BY ServedRecord, ServedHere DEF States
<1>4. lost => worker[s] # "live"
  BY <1>1, <1>3 DEF Truthful, Lost, Gone
<1>5. SessionSet(db, e, s, v)
  <2>1. CASE lost
    BY <1>3, <2>1, SessionStatusSet
  <2>2. CASE ~ lost
    BY <1>3, <2>2 DEF SessionSet
  <2> QED BY <2>1, <2>2
<1>6. v = db.session[s].status \/ (v = "closed" /\ worker[s] # "live")
  BY <1>4
<1> HIDE DEF lost, e, v
<1>7. Idle \in ActiveRecord
  BY DEF Idle, ActiveRecord, Pcs, Cleanup
<1>8. f \in [Sessions -> ActiveRecord] /\ f = [Here.act EXCEPT ![s] = Idle]
  BY <1>3, <1>7, ServedHere
<1> HIDE DEF f
<1>9. /\ x \in States /\ x.db = e /\ x.armed = armed \ {r} /\ x.act = f
      /\ x.queue = queue /\ x.worker = worker
  BY <1>3, <1>5, <1>8, ServedHere DEF States, Here, SessionSet
<1> HIDE DEF x
<1>10. Leaves(Here, x, s, v)
  BY <1>1, <1>3, <1>5, <1>6, <1>8, <1>9, ServedHere DEF Leaves
<1>11. Steps(Here, x, s)
  BY <1>10, ServedHere, LeavesSteps
<1>12. Steps(Here, Here', s)
  BY <1>2, <1>11, BecomeSteps
<1>13. UNCHANGED around /\ RestTyped'
  BY DEF Finally, around, Served, RestTyped
<1> QED BY <1>12, <1>13, StepProceeds

----------------------------------------------------------------------------
(* The stopping promise, Workers and timers *)

\* The grace period of a stop ends, and the Worker is closed.
LEMMA GraceEndsProceeds ==
    ASSUME Served, NEW s \in Sessions, GraceEnds(s) PROVE Proceeds
<1> DEFINE a == act[s]
           w == worker[s]
           b == [a EXCEPT !.stopping = "closing"]
           y == Put(Here, s, b)
           x == CloseWorker(y, s)
<1>1. a.stopping = "grace" /\ Become(x) /\ UNCHANGED rest
  BY ServedHere DEF GraceEnds, Put
<1>2. a \in ActiveRecord /\ Staged(a, w, s)
  BY ServedRecord
<1>3. /\ b \in ActiveRecord /\ b.run = a.run /\ b.pc = a.pc /\ b.stop = a.stop
      /\ b.stopping = "closing" /\ b.handle = a.handle /\ b.result = a.result
      /\ b.failed = a.failed /\ b.cleanup = a.cleanup
  BY <1>2 DEF ActiveRecord
<1> HIDE DEF b
<1>4. Revised(Here, y, s, b, w)
  BY <1>3, ServedHere, PutRevises
<1> HIDE DEF y
<1>5. Revised(y, x, s, b, Shuttered(w))
  BY <1>4, CloseWorkerRevises DEF Revised
<1>6. Revised(Here, x, s, b, Shuttered(w))
  BY <1>4, <1>5, RevisedTwice
<1>7. Staged(b, Shuttered(w), s) /\ a # Idle /\ Carries(a, b)
  BY <1>1, <1>2, <1>3 DEF Staged, Idle, Carries, Shuttered, Gone, Cleanup
<1>8. Steps(Here, x, s)
  BY <1>3, <1>6, <1>7, ServedHere, RecordSteps
<1> QED BY <1>1, <1>8, BecomeProceeds

\* The stopping promise resolves with what the host reports.
LEMMA StopClosesProceeds ==
    ASSUME Served, NEW s \in Sessions, StopCloses(s) PROVE Proceeds
<1> DEFINE a == act[s]
           w == worker[s]
           v == HostStatus(w)
           b == [a EXCEPT !.stopping = v]
<1>1. a.stopping = "closing" /\ w # "closing" /\ act' = [act EXCEPT ![s] = b]
      /\ UNCHANGED <<db, queue, armed, worker>> /\ UNCHANGED rest
  BY DEF StopCloses
<1>2. a \in ActiveRecord /\ Staged(a, w, s) /\ w \in WorkerStates
  BY ServedRecord
<1>3. w \in Gone
  BY <1>1, <1>2 DEF Staged, Gone, WorkerStates
<1>4. v \in Cleanup
  BY <1>2, <1>3, HostStatusCleanup
<1> HIDE DEF v
<1>5. /\ b \in ActiveRecord /\ b.run = a.run /\ b.pc = a.pc /\ b.stop = a.stop
      /\ b.stopping = v /\ b.handle = a.handle /\ b.result = a.result
      /\ b.failed = a.failed /\ b.cleanup = a.cleanup
  BY <1>2, <1>4 DEF ActiveRecord
<1> HIDE DEF b
<1>6. Revised(Here, Here', s, b, w)
  BY <1>1, <1>5, PutHere
<1>7. v \notin {"none", "grace", "closing"}
  BY <1>4 DEF Cleanup
<1>8. Staged(b, w, s) /\ a # Idle /\ Carries(a, b)
  BY <1>1, <1>2, <1>3, <1>5, <1>7 DEF Staged, Idle, Carries, v
<1>9. Steps(Here, Here', s)
  BY <1>5, <1>6, <1>8, ServedHere, RecordSteps
<1> QED BY <1>1, <1>9, RestKept, StepProceeds

\* A Worker dies, or breaks its protocol.
LEMMA WorkerFailsProceeds ==
    ASSUME Served, NEW s \in Sessions, WorkerFails(s) PROVE Proceeds
<1>1. Steps(Here, FailWorker(Here, s), s)
  BY ServedHere, FailWorkerSteps
<1> QED BY <1>1, BecomeProceeds DEF WorkerFails

\* The host is done with closing a Worker.
LEMMA WorkerClosesProceeds ==
    ASSUME Served, NEW s \in Sessions, NEW status \in Cleanup, WorkerCloses(s, status)
    PROVE  Proceeds
<1> DEFINE a == act[s]
           w == worker[s]
           b == FailRecord(a)
           y == FailWorker(Here, s)
           v == IF status = "confirmed" THEN "none" ELSE status
           g == [y.worker EXCEPT ![s] = v]
           x == [y EXCEPT !.worker[s] = v]
<1>1. w = "closing" /\ Become(x) /\ UNCHANGED rest
  BY DEF WorkerCloses
<1>2. Steps(Here, y, s) /\ Revised(Here, y, s, b, Shuttered(w))
  BY ServedHere, FailWorkerSteps
<1>3. v \in Gone /\ v \in WorkerStates
  BY DEF Gone, WorkerStates, Cleanup
<1>4. x = [y EXCEPT !.worker = g]
  OBVIOUS
<1> HIDE DEF y, b, v
<1>5. /\ y \in States /\ y.act[s] = b /\ y.worker[s] = "closing" /\ Good(y)
  BY <1>1, <1>2 DEF Revised, Shuttered, Steps
<1>6. /\ g \in [Sessions -> WorkerStates] /\ g[s] = v
      /\ \A t \in Sessions \ {s} : g[t] = y.worker[t]
  BY <1>3, <1>5 DEF States
<1> HIDE DEF g, x
<1>7. Revised(y, x, s, b, v)
  BY <1>4, <1>5, <1>6 DEF Revised, States
<1>8. Staged(b, "closing", s) /\ Truthful(y.db, b, "closing", s) /\ Shut(y.db, b, "closing", s)
      /\ Executing(y.db, b, s)
  BY <1>5 DEF Good, Aright
<1>9. Staged(b, v, s) /\ Truthful(y.db, b, v, s) /\ Shut(y.db, b, v, s)
  BY <1>3, <1>8 DEF Staged, Truthful, Shut, Gone, Cleanup
<1>10. Adjusts(y, x, s)
  BY <1>3, <1>5, <1>7, <1>9 DEF Adjusts, Revised, Gone
<1>11. Steps(y, x, s)
  BY <1>5, <1>10, AdjustsSteps
<1>12. Steps(Here, x, s)
  BY <1>2, <1>11, ServedHere, StepsTwice
<1> QED BY <1>1, <1>12, BecomeProceeds

\* closeSession() on a Session that is closed.
LEMMA CloseAgainProceeds ==
    ASSUME Served, NEW s \in Sessions, CloseAgain(s) PROVE Proceeds
<1>1. Steps(Here, CloseWorker(Here, s), s)
  BY ServedHere, CloseWorkerSteps
<1>2. Steps(Here, Here', s)
  BY <1>1, BecomeSteps DEF CloseAgain
<1>3. UNCHANGED around /\ RestTyped'
  BY DEF CloseAgain, around, Served, RestTyped
<1> QED BY <1>2, <1>3, StepProceeds

\* A step that leaves the state alone.
LEMMA IdleProceeds ==
    ASSUME Served, UNCHANGED core, UNCHANGED around, RestTyped'
    PROVE  Proceeds
<1>1. Here' = Here
  BY DEF core, Here
<1>2. Moves(Here, Here')
  BY <1>1 DEF Moves
<1>3. Served'
  BY <1>1 DEF Served, Serving, around
<1> QED BY <1>2, <1>3 DEF Proceeds

\* Time passes the deadline of a run.
LEMMA DeadlinePassesProceeds ==
    ASSUME Served, NEW r \in Runs, DeadlinePasses(r) PROVE Proceeds
BY IdleProceeds DEF DeadlinePasses, around, Served, RestTyped

\* A client cancels a run, which waits or works.
LEMMA CancelProceeds ==
    ASSUME Served, NEW r \in Runs, Cancel(r) PROVE Proceeds
<1> DEFINE s == db.run[r].session
           x == Stop(Here, r, "cancelled")
<1>1. Accepted(db, r) /\ act[s].pc # "begin" /\ Become(x) /\ UNCHANGED rest
  BY DEF Cancel, Settled, SessionOf
<1>2. s \in Sessions
  BY <1>1, ServedHere DEF Good, Referenced
<1>3. "cancelled" \in {"cancelled", "timed_out"}
  OBVIOUS
<1> HIDE DEF x
<1>4. Steps(Here, x, s)
  BY <1>1, <1>3, ServedHere, StopSteps DEF x
<1> QED BY <1>1, <1>2, <1>4, BecomeProceeds

\* The deadline timer of a run fires, and stops it.
LEMMA TimerFiresProceeds ==
    ASSUME Served, NEW r \in Runs, TimerFires(r) PROVE Proceeds
<1> DEFINE s == db.run[r].session
           y == Stop(Here, r, "timed_out")
           x == Disarm(y, r)
           reason == "timed_out"
<1>1. r \in armed /\ act[s].pc # "begin" /\ UNCHANGED rest
      /\ Become(Stop(Disarm(Here, r), r, reason))
  BY DEF TimerFires, Settled, SessionOf
<1>2. Accepted(db, r)
  BY <1>1, ServedHere DEF Good
<1>3. s \in Sessions
  BY <1>2, ServedHere DEF Good, Referenced
<1>4. reason \in {"cancelled", "timed_out"}
  OBVIOUS
<1> HIDE DEF reason
<1>5. Become(Disarm(Stop(Here, r, reason), r))
  BY <1>1, <1>2, <1>4, ServedHere, StopDisarmed
<1>6. Become(x)
  BY <1>5 DEF reason
<1>7. Steps(Here, y, s) /\ Stopped(y, r)
  <2>1. "timed_out" \in {"cancelled", "timed_out"}
    OBVIOUS
  <2> QED BY <1>1, <1>2, <2>1, ServedHere, StopSteps
<1> HIDE DEF y
<1>8. y \in States /\ Good(y)
  BY <1>7 DEF Steps, Good
<1>9. y.db.run[r].session = s /\ Accepted(y.db, r)
  <2>1. Here.db = db
    BY ServedHere
  <2>2. Onward(db, y.db)
    BY <1>7, <2>1 DEF Steps, Turn
  <2>3. y.db.run[r].session = s
    BY <2>2 DEF Onward
  <2> QED BY <1>3, <1>8, <2>3 DEF Good, Referenced
<1>10. Disarms(y, x, r)
  <2>1. /\ x \in States /\ x.db = y.db /\ x.queue = y.queue /\ x.act = y.act
        /\ x.worker = y.worker /\ x.armed = y.armed \ {r}
    BY <1>8 DEF Disarm, States
  <2> HIDE DEF x
  <2> QED BY <1>7, <2>1 DEF Disarms, Stopped
<1> HIDE DEF x
<1>11. Steps(y, x, s)
  BY <1>8, <1>9, <1>10, DisarmsSteps
<1>12. Steps(Here, x, s)
  BY <1>3, <1>7, <1>11, ServedHere, StepsTwice
<1> QED BY <1>1, <1>3, <1>6, <1>12, BecomeProceeds

----------------------------------------------------------------------------
(* Worker messages *)

\* The next message of the active run.
LEMMA CountedSteps ==
    ASSUME Served, NEW s \in Sessions, Incoming(s)
    PROVE  LET y == Counted(s) IN
           /\ Steps(Here, y, s) /\ Good(y) /\ y \in States /\ y.db = db
           /\ InFlight(y.act[s]) /\ y.act[s].run = act[s].run /\ y.act[s].stop = "none"
           /\ y.act[s].handle
           /\ act[s].run \in Runs /\ db.run[act[s].run].session = s
           /\ db.run[act[s].run].status \in Busy
<1> DEFINE a == act[s]
           n == a.seq + 1
           b == [a EXCEPT !.seq = n]
           y == Put(Here, s, b)
<1>1. a.pc = "result" /\ a.stop = "none"
  BY DEF Incoming, At
<1>2. a \in ActiveRecord /\ Staged(a, worker[s], s) /\ InFlight(a)
  BY <1>1, ServedRecord DEF InFlight
<1>3. Counted(s) = y
  BY ServedHere DEF Counted, Put
<1>4. n \in Nat
  BY <1>2 DEF ActiveRecord
<1> HIDE DEF n
<1>5. /\ b \in ActiveRecord /\ b.run = a.run /\ b.pc = a.pc /\ b.stop = a.stop
      /\ b.stopping = a.stopping /\ b.handle = a.handle /\ b.result = a.result
      /\ b.failed = a.failed /\ b.cleanup = a.cleanup
  BY <1>2, <1>4 DEF ActiveRecord
<1> HIDE DEF b
<1>6. Staged(b, worker[s], s) /\ InFlight(b) /\ Carries(a, b)
  BY <1>1, <1>2, <1>5 DEF Staged, InFlight, Carries
<1>7. Steps(Here, y, s) /\ Revised(Here, y, s, b, worker[s])
  BY <1>2, <1>5, <1>6, ServedHere, PutSteps, PutRevises
<1>8. a.handle
  BY <1>1, <1>2 DEF Staged
<1>9. a.run \in Runs /\ db.run[a.run].session = s /\ db.run[a.run].status \in Busy
  BY <1>2, ServedHere, ActiveRun
<1> HIDE DEF y
<1> QED BY <1>1, <1>3, <1>5, <1>6, <1>7, <1>8, <1>9, ServedHere DEF Revised, Steps

\* A message of the Worker that changes the record of its run, or its events.
LEMMA QuietMessage ==
    ASSUME Served, NEW s \in Sessions, Incoming(s), NEW e,
           QuietWork(db, e, act[s].run), Become([Counted(s) EXCEPT !.db = e]), UNCHANGED rest
    PROVE  Proceeds
<1> DEFINE y == Counted(s)
           x == [y EXCEPT !.db = e]
<1>1. /\ Steps(Here, y, s) /\ Good(y) /\ y \in States /\ y.db = db
      /\ InFlight(y.act[s]) /\ y.act[s].run = act[s].run
  BY CountedSteps
<1>2. Become(x) /\ e \in Database
  BY DEF QuietWork, Busywork
<1> HIDE DEF y
<1>3. Rewritten(y, x, e)
  BY <1>1, <1>2, DatabaseRewritten
<1> HIDE DEF x
<1>4. Steps(y, x, s)
  BY <1>1, <1>3, QuietSteps
<1>5. Steps(Here, x, s)
  BY <1>1, <1>4, ServedHere, StepsTwice
<1> QED BY <1>2, <1>5, BecomeProceeds

\* A message of the Worker about a permission.
LEMMA AskingMessage ==
    ASSUME Served, NEW s \in Sessions, Incoming(s), NEW e,
           AskingWork(db, e, act[s].run), Become([Counted(s) EXCEPT !.db = e]), UNCHANGED rest
    PROVE  Proceeds
<1> DEFINE y == Counted(s)
           x == [y EXCEPT !.db = e]
<1>1. /\ Steps(Here, y, s) /\ Good(y) /\ y \in States /\ y.db = db
      /\ InFlight(y.act[s]) /\ y.act[s].run = act[s].run /\ y.act[s].handle
  BY CountedSteps
<1>2. Become(x) /\ e \in Database
  BY DEF AskingWork, Busywork
<1> HIDE DEF y
<1>3. Rewritten(y, x, e)
  BY <1>1, <1>2, DatabaseRewritten
<1> HIDE DEF x
<1>4. Steps(y, x, s)
  BY <1>1, <1>3, AskingSteps
<1>5. Steps(Here, x, s)
  BY <1>1, <1>4, ServedHere, StepsTwice
<1> QED BY <1>2, <1>5, BecomeProceeds

\* A message of the Worker that the Runtime refuses: the Worker is failed.
LEMMA FailMessage ==
    ASSUME Served, NEW s \in Sessions, Incoming(s), Become(FailWorker(Counted(s), s)),
           UNCHANGED rest
    PROVE  Proceeds
<1> DEFINE y == Counted(s)
           x == FailWorker(y, s)
<1>1. Steps(Here, y, s) /\ Good(y)
  BY CountedSteps
<1> HIDE DEF y
<1>2. Steps(y, x, s)
  BY <1>1, FailWorkerSteps
<1>3. Steps(Here, x, s)
  BY <1>1, <1>2, ServedHere, StepsTwice
<1> QED BY <1>3, BecomeProceeds DEF y

\* The Worker reports that the engine works on the run.
LEMMA ReceiveStartedProceeds ==
    ASSUME Served, NEW s \in Sessions, ReceiveStarted(s) PROVE Proceeds
<1> DEFINE r == act[s].run
           e == SetRunStatus(db, r, "running")
<1>1. Incoming(s) /\ Become([Counted(s) EXCEPT !.db = e]) /\ UNCHANGED rest
  BY DEF ReceiveStarted
<1>2. r \in Runs /\ db.run[r].status \in Busy /\ db \in Database
  BY <1>1, CountedSteps, ServedHere DEF States
<1>3. "running" \in Busy /\ "running" # "starting"
  BY DEF Busy, Working
<1>4. QuietWork(db, e, r)
  BY <1>2, <1>3, StatusBusy
<1> HIDE DEF e
<1> QED BY <1>1, <1>4, QuietMessage

\* The Worker reports an event.
LEMMA ReceiveEventProceeds ==
    ASSUME Served, NEW s \in Sessions, ReceiveEvent(s) PROVE Proceeds
<1> DEFINE r == act[s].run
           n == act[s].seq + 1
           e == AppendEvent(db, r, n)
<1>1. Incoming(s) /\ Become([Counted(s) EXCEPT !.db = e]) /\ UNCHANGED rest
  BY DEF ReceiveEvent
<1>2. r \in Runs /\ db.run[r].status \in Busy /\ db \in Database
  BY <1>1, CountedSteps, ServedHere DEF States
<1>3. n \in Nat
  BY ServedRecord DEF ActiveRecord
<1> HIDE DEF n
<1>4. Noted(db, e)
  BY <1>2, <1>3, AppendNoted
<1> HIDE DEF e
<1>5. QuietWork(db, e, r)
  BY <1>2, <1>4, NotedBusy
<1> QED BY <1>1, <1>5, QuietMessage

\* The Worker reports the backend identity of the Session.
LEMMA ReceiveBindingProceeds ==
    ASSUME Served, NEW s \in Sessions, NEW b \in BackendIds, ReceiveBinding(s, b)
    PROVE  Proceeds
<1> DEFINE r == act[s].run
           n == act[s].seq + 1
           e == BindBackendSession(db, r, b, n)
           refused == DriverOf[s] # "acp" \/ BindRefused(db, r, b)
<1>1. Incoming(s) /\ UNCHANGED rest
  BY DEF ReceiveBinding
<1>2. r \in Runs /\ db.run[r].status \in Busy /\ db \in Database /\ db.run[r].session \in Sessions
  BY <1>1, CountedSteps, ServedHere DEF States
<1>3. n \in Nat
  BY ServedRecord DEF ActiveRecord
<1>4. CASE refused
  <2>1. Become(FailWorker(Counted(s), s))
    BY <1>4 DEF ReceiveBinding
  <2> QED BY <1>1, <2>1, FailMessage
<1>5. CASE ~ refused
  <2>1. Become([Counted(s) EXCEPT !.db = e])
    BY <1>5 DEF ReceiveBinding
  <2> HIDE DEF n
  <2>2. QuietWork(db, e, r)
    BY <1>2, <1>3, BindBusy
  <2> HIDE DEF e
  <2> QED BY <1>1, <2>1, <2>2, QuietMessage
<1> QED BY <1>4, <1>5

\* The Worker asks for a permission.
LEMMA ReceivePermissionProceeds ==
    ASSUME Served, NEW s \in Sessions, NEW p \in Perms, ReceivePermission(s, p)
    PROVE  Proceeds
<1> DEFINE r == act[s].run
           gone == r \in past
           e == CreatePermission(db, r, p, gone)
           f == SetRunStatus(e, r, "waiting_permission")
<1>1. Incoming(s) /\ UNCHANGED rest
  BY DEF ReceivePermission
<1>2. r \in Runs /\ db.run[r].status \in Busy /\ db \in Database
  BY <1>1, CountedSteps, ServedHere DEF States
<1>3. CASE CreateRefused(db, r, p, gone)
  <2>1. Become(FailWorker(Counted(s), s))
    BY <1>3 DEF ReceivePermission
  <2> QED BY <1>1, <2>1, FailMessage
<1>4. CASE ~ CreateRefused(db, r, p, gone)
  <2>1. Become([Counted(s) EXCEPT !.db = f])
    BY <1>4 DEF ReceivePermission
  <2> HIDE DEF gone
  <2>2. AskingWork(db, e, r)
    BY <1>2, CreateBusy
  <2>3. "waiting_permission" \in Busy /\ "waiting_permission" # "starting"
    BY DEF Busy, Working
  <2> HIDE DEF e
  <2>4. AskingWork(db, f, r)
    BY <1>2, <2>2, <2>3, AskThenStatus
  <2> HIDE DEF f
  <2> QED BY <1>1, <2>1, <2>4, AskingMessage
<1> QED BY <1>3, <1>4

\* The Worker reports that a decision was applied.
LEMMA ReceiveAppliedProceeds ==
    ASSUME Served, NEW s \in Sessions, NEW p \in Perms, ReceiveApplied(s, p)
    PROVE  Proceeds
<1> DEFINE r == act[s].run
           gone == r \in past
           e == MarkPermissionApplied(db, p, gone)
           f == SetRunStatus(e, r, "running")
<1>1. Incoming(s) /\ UNCHANGED rest /\ db.perm[p].run = r
  BY DEF ReceiveApplied
<1>2. r \in Runs /\ db.run[r].status \in Busy /\ db \in Database
  BY <1>1, CountedSteps, ServedHere DEF States
<1>3. CASE ApplyRefused(db, p, gone)
  <2>1. Become(FailWorker(Counted(s), s))
    BY <1>3 DEF ReceiveApplied
  <2> QED BY <1>1, <2>1, FailMessage
<1>4. CASE ~ ApplyRefused(db, p, gone)
  <2>1. Become([Counted(s) EXCEPT !.db = f])
    BY <1>4 DEF ReceiveApplied
  <2> HIDE DEF gone
  <2>2. AskingWork(db, e, r)
    BY <1>1, <1>2, ApplyBusy
  <2>3. "running" \in Busy /\ "running" # "starting"
    BY DEF Busy, Working
  <2> HIDE DEF e
  <2>4. AskingWork(db, f, r)
    BY <1>2, <2>2, <2>3, AskThenStatus
  <2> HIDE DEF f
  <2> QED BY <1>1, <2>1, <2>4, AskingMessage
<1> QED BY <1>3, <1>4

\* A step of one Session during which artifacts start or end being published.
LEMMA PublishingProceeds ==
    ASSUME Served, NEW s \in Sessions, Steps(Here, Here', s),
           UNCHANGED <<closer, suspending, phase, half>>, RestTyped',
           PublishingFit(Here', publishing')
    PROVE  Proceeds
<1>1. Good(Here) /\ Fit(Here, closer, suspending, publishing)
  BY DEF Served, Serving
<1>2. suspending \in SUBSET Sessions /\ publishing \in SUBSET [run : Runs, artifact : Artifacts]
  BY DEF Served, RestTyped
<1>3. Advances(Here, Here') /\ Good(Here')
  BY <1>1, StepsAdvances DEF Advances
<1>4. Fit(Here', closer, suspending, publishing)
  BY <1>1, <1>2, <1>3, FitKept
<1>5. Fit(Here', closer, suspending, publishing')
  BY <1>4 DEF Fit
<1>6. Moves(Here, Here')
  BY <1>3 DEF Advances, Continues
<1>7. Serving'
  BY <1>3, <1>5 DEF Served, Serving
<1> QED BY <1>6, <1>7 DEF Proceeds, Served

\* The Worker reports an artifact, whose bytes are now published.
LEMMA ReceiveArtifactProceeds ==
    ASSUME Served, NEW s \in Sessions, NEW f \in Artifacts, ReceiveArtifact(s, f)
    PROVE  Proceeds
<1> DEFINE r == act[s].run
           y == Counted(s)
<1>1. /\ Incoming(s) /\ Become(y)
      /\ publishing' = publishing \cup {[run |-> r, artifact |-> f]}
      /\ UNCHANGED <<past, pumpDue, installed, suspending, closer, closed, phase, half, crashes>>
  BY DEF ReceiveArtifact
<1>2. Steps(Here, y, s) /\ r \in Runs /\ db.run[r].status \in Busy
  BY <1>1, CountedSteps
<1> HIDE DEF y
<1>3. Steps(Here, Here', s)
  BY <1>1, <1>2, BecomeSteps
<1>4. RestTyped'
  BY <1>1, <1>2 DEF Served, RestTyped
<1>5. PublishingFit(Here', publishing')
  <2> SUFFICES ASSUME NEW x \in publishing'
               PROVE  db'.run[x.run].status \notin {"absent", "queued"}
    BY DEF PublishingFit, Here
  <2>1. x.run \in Runs /\ db.run[x.run].status \notin {"absent", "queued"}
    <3>1. CASE x \in publishing
      BY <3>1 DEF Served, Serving, Fit, PublishingFit, Here, RestTyped
    <3>2. CASE x.run = r
      BY <1>2, <3>2 DEF Busy, Working
    <3> QED BY <1>1, <3>1, <3>2
  <2>2. Onward(db, db')
    BY <1>3 DEF Steps, Turn, Here
  <2> QED BY <2>1, <2>2 DEF Onward
<1> QED BY <1>1, <1>3, <1>4, <1>5, PublishingProceeds

\* What is being published belongs to a run that was begun.
LEMMA PublishedRun ==
    ASSUME Served, NEW x \in publishing
    PROVE  /\ x.run \in Runs /\ x.artifact \in Artifacts
           /\ SessionOf(x.run) \in Sessions
           /\ db.run[x.run].status \notin {"absent", "queued"}
<1>1. x.run \in Runs /\ x.artifact \in Artifacts
  BY DEF Served, RestTyped
<1>2. db.run[x.run].status \notin {"absent", "queued"}
  BY DEF Served, Serving, Fit, PublishingFit, Here
<1>3. SessionOf(x.run) \in Sessions
  BY <1>1, <1>2, ServedHere DEF Good, Referenced, SessionOf, Accepted
<1> QED BY <1>1, <1>2, <1>3

\* An artifact is no longer being published.
LEMMA UnpublishingProceeds ==
    ASSUME Served, NEW s \in Sessions, Steps(Here, Here', s), NEW x \in publishing,
           publishing' = publishing \ {x},
           UNCHANGED <<past, pumpDue, installed, suspending, closer, closed, phase, half, crashes>>
    PROVE  Proceeds
<1>1. RestTyped'
  BY DEF Served, RestTyped
<1>2. PublishingFit(Here', publishing')
  <2> SUFFICES ASSUME NEW y \in publishing
               PROVE  db'.run[y.run].status \notin {"absent", "queued"}
    BY DEF PublishingFit, Here
  <2>1. y.run \in Runs /\ db.run[y.run].status \notin {"absent", "queued"}
    BY PublishedRun
  <2>2. Onward(db, db')
    BY DEF Steps, Turn, Here
  <2> QED BY <2>1, <2>2 DEF Onward
<1> QED BY <1>1, <1>2, PublishingProceeds

\* The bytes of an artifact are published: it is registered if its run still works.
LEMMA PublishedProceeds ==
    ASSUME Served, NEW x \in publishing, Published(x) PROVE Proceeds
<1> DEFINE r == x.run
           s == SessionOf(r)
           a == act[s]
           e == RegisterArtifact(db, r, x.artifact)
           y == [Here EXCEPT !.db = e]
<1>1. /\ db' = IF a.run = r /\ a.stop # "none" THEN db ELSE Unlogged(e)
      /\ publishing' = publishing \ {x}
      /\ UNCHANGED <<queue, armed, act, worker>>
      /\ UNCHANGED <<past, pumpDue, installed, suspending, closer, closed, phase, half, crashes>>
  BY DEF Published
<1>2. /\ r \in Runs /\ x.artifact \in Artifacts /\ s \in Sessions
      /\ db.run[r].status \notin {"absent", "queued"} /\ db \in Database
  BY PublishedRun, ServedHere DEF States
<1>3. CASE a.run = r /\ a.stop # "none"
  <2>1. Here' = Here
    BY <1>1, <1>3 DEF Here
  <2>2. Steps(Here, Here', s)
    BY <1>2, <2>1, ServedHere, StepsSelf
  <2> QED BY <1>1, <1>2, <2>2, UnpublishingProceeds
<1>4. CASE ~ (a.run = r /\ a.stop # "none")
  <2>1. Become(y)
    <3>1. db' = Unlogged(e) /\ queue' = queue /\ armed' = armed /\ act' = act /\ worker' = worker
      BY <1>1, <1>4
    <3> HIDE DEF e
    <3> QED BY <3>1 DEF Become, Here
  <2>2. Steps(Here, y, s)
    <3>1. CASE IsTerminal(db, r)
      <4>1. e = db
        BY <3>1 DEF RegisterArtifact
      <4>2. y = Here
        BY <4>1 DEF Here
      <4> QED BY <1>2, <4>2, ServedHere, StepsSelf
    <3>2. CASE ~ IsTerminal(db, r)
      <4>1. db.run[r].status \in Busy
        BY <1>2, <3>2 DEF IsTerminal, Busy, Database, RunRecord
      <4>2. Executing(db, a, s) /\ Mine(db, a, s)
        BY <1>2, ServedRecord
      <4>3. a.run = r
        BY <1>2, <4>1, <4>2 DEF Mine, SessionOf
      <4>4. InFlight(a)
        BY <1>2, <3>2, <4>2, <4>3, StoreAssumption DEF Executing, Idle, InFlight
      <4>5. FilingWork(db, e, r)
        BY <1>2, <4>1, RegisterBusy
      <4>6. Rewritten(Here, y, e)
        BY <4>5, ServedHere, DatabaseRewritten DEF FilingWork, Busywork
      <4> HIDE DEF y, e
      <4>7. Here.act[s] = a /\ Here.db = db
        BY ServedHere
      <4> QED BY <1>2, <1>4, <4>3, <4>4, <4>5, <4>6, <4>7, ServedHere, FilingSteps
    <3> QED BY <3>1, <3>2
  <2> HIDE DEF y
  <2>3. Steps(Here, Here', s)
    BY <1>2, <2>1, <2>2, BecomeSteps
  <2> QED BY <1>1, <1>2, <2>3, UnpublishingProceeds
<1> QED BY <1>3, <1>4

\* The bytes of an artifact cannot be published: the Worker is failed.
LEMMA PublishFailsProceeds ==
    ASSUME Served, NEW x \in publishing, PublishFails(x) PROVE Proceeds
<1> DEFINE s == SessionOf(x.run)
           y == IF act[s].run = x.run THEN FailWorker(Here, s) ELSE Here
<1>1. /\ Become(y) /\ publishing' = publishing \ {x}
      /\ UNCHANGED <<past, pumpDue, installed, suspending, closer, closed, phase, half, crashes>>
  BY DEF PublishFails
<1>2. s \in Sessions
  BY PublishedRun
<1>3. Steps(Here, y, s)
  BY <1>2, ServedHere, FailWorkerSteps, StepsSelf
<1> HIDE DEF y
<1>4. Steps(Here, Here', s)
  BY <1>1, <1>2, <1>3, BecomeSteps
<1> QED BY <1>1, <1>2, <1>4, UnpublishingProceeds

\* The Worker reports the result of the run.
LEMMA ReceiveResultProceeds ==
    ASSUME Served, NEW s \in Sessions, NEW res \in Results, ReceiveResult(s, res)
    PROVE  Proceeds
<1> DEFINE a == act[s]
           b == [a EXCEPT !.result = res]
<1>1. a.pc = "result" /\ act' = [act EXCEPT ![s] = b]
      /\ UNCHANGED <<db, queue, armed, worker>> /\ UNCHANGED rest
  BY DEF ReceiveResult, At
<1>2. a \in ActiveRecord /\ Staged(a, worker[s], s)
  BY ServedRecord
<1>3. /\ b \in ActiveRecord /\ b.run = a.run /\ b.pc = a.pc /\ b.stop = a.stop
      /\ b.stopping = a.stopping /\ b.handle = a.handle /\ b.result = res
      /\ b.failed = a.failed /\ b.cleanup = a.cleanup
  BY <1>2 DEF ActiveRecord
<1> HIDE DEF b
<1>4. Revised(Here, Here', s, b, worker[s])
  BY <1>1, <1>3, PutHere
<1>5. Staged(b, worker[s], s) /\ InFlight(a) /\ InFlight(b) /\ Carries(a, b)
  BY <1>1, <1>2, <1>3 DEF Staged, InFlight, Carries
<1>6. Steps(Here, Here', s)
  BY <1>4, <1>5, FlightProceeds
<1> QED BY <1>1, <1>6, RestKept, StepProceeds

\* A client answers a permission.
LEMMA DecideProceeds ==
    ASSUME Served, NEW p \in Perms, NEW o \in Options, Decide(p, o) PROVE Proceeds
<1> DEFINE r == db.perm[p].run
           s == SessionOf(r)
           a == act[s]
           gone == r \in past
           e == DecidePermission(db, p, o, gone)
           y == [Here EXCEPT !.db = e]
<1>1. /\ db.perm[p].status # "absent" /\ a.run = r /\ a.handle /\ a.stop = "none"
      /\ db' = Unlogged(e) /\ UNCHANGED <<queue, armed, act, worker>> /\ UNCHANGED rest
  BY DEF Decide
<1>2. r \in Runs /\ Accepted(db, r) /\ db \in Database
  BY <1>1, ServedHere DEF Good, Referenced, States
<1>3. s \in Sessions
  BY <1>2, ServedHere DEF Good, Referenced, SessionOf
<1>4. Executing(db, a, s) /\ Asked(db, a, s) /\ a # Idle
  BY <1>1, <1>2, <1>3, ServedRecord, StoreAssumption DEF Idle
<1>5. Become(y)
  <2>1. db' = Unlogged(e) /\ queue' = queue /\ armed' = armed /\ act' = act /\ worker' = worker
    BY <1>1
  <2> HIDE DEF e
  <2> QED BY <2>1 DEF Become, Here
<1> HIDE DEF gone
<1>6. Steps(Here, y, s)
  <2>1. CASE InFlight(a)
    <3>1. db.run[r].status \in Busy
      BY <1>1, <1>4, <2>1 DEF Executing, InFlight
    <3>2. AskingWork(db, e, r)
      BY <1>2, <3>1, DecideBusy
    <3>3. Rewritten(Here, y, e)
      BY <3>2, ServedHere, DatabaseRewritten DEF AskingWork, Busywork
    <3> HIDE DEF y, e
    <3>4. Here.act[s] = a /\ Here.db = db
      BY ServedHere
    <3> QED BY <1>1, <1>3, <2>1, <3>2, <3>3, <3>4, ServedHere, AskingSteps
  <2>2. CASE ~ InFlight(a)
    <3>1. IsTerminal(db, r)
      BY <1>1, <1>4, <2>2 DEF Executing, InFlight
    <3>2. db.perm[p].status \notin {"pending", "decided"}
      BY <1>4, <2>2 DEF Asked, SessionOf
    <3>3. DecisionLapsed(db, p, gone)
      BY <3>1 DEF DecisionLapsed, Unattended, IsTerminal
    <3>4. e = db
      BY <3>2, <3>3 DEF DecidePermission
    <3>5. y = Here
      BY <3>4 DEF Here
    <3> QED BY <1>3, <3>5, ServedHere, StepsSelf
  <2> QED BY <2>1, <2>2
<1> HIDE DEF y
<1> QED BY <1>1, <1>3, <1>5, <1>6, BecomeProceeds

----------------------------------------------------------------------------
(* Calls that suspend and close a Session *)

\* Steps of any Sessions, with the calls under way.
LEMMA AdvanceProceeds ==
    ASSUME Served, Advances(Here, Here'), Fit(Here', closer', suspending', publishing'),
           UNCHANGED <<phase, half>>, RestTyped'
    PROVE  Proceeds
<1>1. Good(Here') /\ Moves(Here, Here')
  BY DEF Advances, Continues
<1> QED BY <1>1 DEF Proceeds, Served, Serving

\* The calls under way after a step of any Sessions.
LEMMA ServedFit ==
    ASSUME Served, Advances(Here, Here')
    PROVE  /\ Fit(Here, closer, suspending, publishing)
           /\ Fit(Here', closer, suspending, publishing)
<1>1. Good(Here) /\ Fit(Here, closer, suspending, publishing)
  BY DEF Served, Serving
<1>2. suspending \in SUBSET Sessions /\ publishing \in SUBSET [run : Runs, artifact : Artifacts]
  BY DEF Served, RestTyped
<1> QED BY <1>1, <1>2, FitKept

\* suspendSession() on an idle Session starts to release its Worker.
LEMMA SuspendProceeds ==
    ASSUME Served, NEW s \in Sessions, Suspend(s) PROVE Proceeds
<1>1. /\ act[s] = Idle /\ Unsettled(db, s) = {}
      /\ suspending' = suspending \cup {s} /\ Become(CloseWorker(Here, s))
      /\ UNCHANGED <<past, pumpDue, installed, closer, publishing, closed, phase, half, crashes>>
  BY DEF Suspend
<1>2. Steps(Here, Here', s)
  BY <1>1, ServedHere, CloseWorkerSteps, BecomeSteps
<1>3. Advances(Here, Here')
  BY <1>2, ServedHere, StepsAdvances
<1>4. Fit(Here', closer, suspending, publishing)
  BY <1>3, ServedFit
<1>5. SuspendedFit(Here, {s})
  BY <1>1, ServedHere DEF SuspendedFit
<1>6. SuspendedFit(Here', {s})
  BY <1>3, <1>5, ServedHere, SuspendedKept DEF Advances
<1>7. SuspendedFit(Here', suspending')
  BY <1>1, <1>4, <1>6 DEF SuspendedFit, Fit
<1>8. Fit(Here', closer', suspending', publishing')
  BY <1>1, <1>4, <1>7 DEF Fit
<1>9. RestTyped'
  BY <1>1 DEF Served, RestTyped
<1> QED BY <1>1, <1>3, <1>8, <1>9, AdvanceProceeds

\* suspendSession() returns once the Worker is gone.
LEMMA SuspendEndsProceeds ==
    ASSUME Served, NEW s \in Sessions, SuspendEnds(s) PROVE Proceeds
<1>1. /\ suspending' = suspending \ {s}
      /\ installed' = IF worker[s] = "none" THEN installed \ {s} ELSE installed
      /\ UNCHANGED <<core, past, pumpDue, closer, publishing, closed, phase, half, crashes>>
  BY DEF SuspendEnds
<1>2. Here' = Here
  BY <1>1 DEF core, Here
<1>3. Advances(Here, Here')
  BY <1>2, ServedHere, AdvancesSelf
<1>4. Fit(Here', closer, suspending, publishing)
  BY <1>3, ServedFit
<1>5. Fit(Here', closer', suspending', publishing')
  BY <1>1, <1>4 DEF Fit, SuspendedFit
<1>6. RestTyped'
  BY <1>1 DEF Served, RestTyped
<1> QED BY <1>1, <1>3, <1>5, <1>6, AdvanceProceeds

\* A changed closeSession() call keeps the type of the calls.
LEMMA CloserTyped ==
    ASSUME Served, NEW s \in Sessions
    PROVE  /\ closer \in [Sessions -> [phase : {"none", "stop", "host", "settle"},
                                       run : Runs \cup {None}]]
           /\ CloserFit(Here, closer[s], s)
BY DEF Served, RestTyped, Serving, Fit, ClosersFit

\* closeSession() awaited the stop of the active run and closes the Worker.
LEMMA CloseStoppedProceeds ==
    ASSUME Served, NEW s \in Sessions, CloseStopped(s) PROVE Proceeds
<1> DEFINE y == CloseWorker(Here, s)
           c == [closer[s] EXCEPT !.phase = "host"]
<1>1. /\ closer[s].phase = "stop" /\ Become(y) /\ closer' = [closer EXCEPT ![s] = c]
      /\ UNCHANGED <<past, pumpDue, installed, suspending, publishing, closed, phase, half,
                     crashes>>
  BY DEF CloseStopped
<1>2. Steps(Here, y, s)
  BY ServedHere, CloseWorkerSteps
<1>3. y.worker[s] # "live"
  BY ServedHere, CloseWorkerRevises DEF Revised, Shuttered
<1> HIDE DEF y
<1>4. Steps(Here, Here', s)
  BY <1>1, <1>2, BecomeSteps
<1>5. Advances(Here, Here')
  BY <1>4, ServedHere, StepsAdvances
<1>6. Fit(Here', closer, suspending, publishing)
  BY <1>5, ServedFit
<1>7. CloserFit(Here', closer[s], s)
  BY <1>6 DEF Fit, ClosersFit
<1>8. c.phase = "host" /\ c.run = closer[s].run
      /\ c \in [phase : {"none", "stop", "host", "settle"}, run : Runs \cup {None}]
  BY CloserTyped
<1> HIDE DEF c
<1>9. Here'.worker[s] # "live"
  BY <1>1, <1>3 DEF Become, Here
<1>10. CloserFit(Here', c, s)
  BY <1>1, <1>7, <1>8, <1>9 DEF CloserFit
<1>11. Fit(Here', closer', suspending', publishing')
  BY <1>1, <1>6, <1>10, CloserTyped, CloserChanged
<1>12. RestTyped'
  BY <1>1, <1>8 DEF Served, RestTyped
<1> QED BY <1>1, <1>5, <1>11, <1>12, AdvanceProceeds

\* closeSession() awaited the Worker.
LEMMA CloseReclaimedProceeds ==
    ASSUME Served, NEW s \in Sessions, CloseReclaimed(s) PROVE Proceeds
<1> DEFINE c == [closer[s] EXCEPT !.phase = "settle"]
<1>1. /\ closer[s].phase = "host" /\ closer' = [closer EXCEPT ![s] = c]
      /\ UNCHANGED <<core, past, pumpDue, installed, suspending, publishing, closed, phase, half,
                     crashes>>
  BY DEF CloseReclaimed
<1>2. Here' = Here
  BY <1>1 DEF core, Here
<1>3. Advances(Here, Here')
  BY <1>2, ServedHere, AdvancesSelf
<1>4. Fit(Here', closer, suspending, publishing)
  BY <1>3, ServedFit
<1>5. CloserFit(Here', closer[s], s)
  BY <1>4 DEF Fit, ClosersFit
<1>6. c.phase = "settle" /\ c.run = closer[s].run
      /\ c \in [phase : {"none", "stop", "host", "settle"}, run : Runs \cup {None}]
  BY CloserTyped
<1> HIDE DEF c
<1>7. CloserFit(Here', c, s)
  BY <1>1, <1>5, <1>6 DEF CloserFit
<1>8. Fit(Here', closer', suspending', publishing')
  BY <1>1, <1>4, <1>7, CloserTyped, CloserChanged
<1>9. RestTyped'
  BY <1>1, <1>6 DEF Served, RestTyped
<1> QED BY <1>1, <1>3, <1>8, <1>9, AdvanceProceeds

\* closeSession() publishes the closed status once execute() has left.
LEMMA CloseEndsProceeds ==
    ASSUME Served, NEW s \in Sessions, CloseEnds(s) PROVE Proceeds
<1> DEFINE a == act[s]
           e == SetSessionStatus(db, s, "closed")
           c == [phase |-> "none", run |-> None]
<1>1. /\ closer[s].phase = "settle" /\ Left(s) /\ db' = e
      /\ closer' = [closer EXCEPT ![s] = c]
      /\ UNCHANGED <<queue, armed, act, worker, past, pumpDue, installed, suspending,
                     publishing, closed, phase, half, crashes>>
  BY DEF CloseEnds
<1>2. /\ db.session[s].status \notin {"absent", "open"}
      /\ a = Idle \/ a.run = closer[s].run
      /\ worker[s] # "live"
  BY <1>1, CloserTyped, ServedHere DEF CloserFit
<1>3. a = Idle
  <2>1. ASSUME a # Idle PROVE FALSE
    <3>1. a.run \in Runs
      BY <2>1, ServedRecord DEF Executing
    <3> QED BY <1>1, <1>2, <2>1, <3>1, StoreAssumption DEF Left
  <2> QED BY <2>1
<1>4. db \in Database /\ Here.db = db
  BY ServedHere DEF States
<1>5. SessionSet(db, e, s, "closed")
  <2>1. "closed" \in {"closing", "closed"}
    OBVIOUS
  <2> QED BY <1>4, <2>1, SessionStatusSet
<1> HIDE DEF e
<1>6. Closes(Here, Here', s, "closed")
  <2>1. /\ Here'.db = e /\ Here'.queue = queue /\ Here'.armed = armed /\ Here'.act = act
        /\ Here'.worker = worker
        /\ Here' = [db |-> e, queue |-> queue, armed |-> armed, act |-> act, worker |-> worker]
    BY <1>1 DEF Here
  <2>2. Here' \in States
    BY <1>5, <2>1, ServedHere DEF States, SessionSet
  <2> QED BY <1>2, <1>3, <1>4, <1>5, <2>1, <2>2, ServedHere DEF Closes
<1>7. Steps(Here, Here', s)
  BY <1>3, <1>6, ServedHere, ClosesSteps
<1>8. Advances(Here, Here')
  BY <1>7, ServedHere, StepsAdvances
<1>9. Fit(Here', closer, suspending, publishing)
  BY <1>8, ServedFit
<1>10. CloserFit(Here', c, s)
  BY DEF CloserFit
<1>11. c \in [phase : {"none", "stop", "host", "settle"}, run : Runs \cup {None}]
  OBVIOUS
<1> HIDE DEF c
<1>12. Fit(Here', closer', suspending', publishing')
  BY <1>1, <1>9, <1>10, CloserTyped, CloserChanged
<1>13. RestTyped'
  BY <1>1, <1>11 DEF Served, RestTyped
<1> QED BY <1>1, <1>8, <1>12, <1>13, AdvanceProceeds

\* A client creates a Session.
LEMMA NewSessionProceeds ==
    ASSUME Served, NEW s \in Sessions, NewSession(s) PROVE Proceeds
<1> DEFINE v == [status |-> "open", backend |-> None]
           e == CreateSession(db, s)
<1>1. db.session[s].status = "absent" /\ db' = e /\ UNCHANGED <<queue, armed, act, worker>>
      /\ UNCHANGED rest
  BY DEF NewSession
<1>2. db \in Database /\ Here.db = db /\ Good(Here) /\ act[s] = Idle /\ worker[s] # "live"
  BY <1>1, ServedHere, ServedRecord DEF States, Shut
<1>3. e = [db EXCEPT !.session[s] = v] /\ v \in SessionRecord
  BY DEF CreateSession, SessionRecord
<1>4. /\ e \in Database /\ e.run = db.run /\ e.perm = db.perm /\ e.artifact = db.artifact
      /\ e.session[s].status = "open" /\ \A t \in Sessions \ {s} : e.session[t] = db.session[t]
  BY <1>2, <1>3 DEF Database
<1> HIDE DEF e, v
<1>5. /\ Here'.db = e /\ Here'.queue = queue /\ Here'.armed = armed /\ Here'.act = act
      /\ Here'.worker = worker
      /\ Here' = [db |-> e, queue |-> queue, armed |-> armed, act |-> act, worker |-> worker]
  BY <1>1 DEF Here
<1>6. Here' \in States
  BY <1>4, <1>5, ServedHere DEF States
<1>7. Retained(db, e)
  BY <1>2, <1>4 DEF Retained, Accepted, Good, Referenced
<1>8. Beside(Here, Here', s)
  BY <1>4, <1>5, ServedHere DEF Beside
<1>9. Line(e, queue)
  <2>1. SameQueued(db, e)
    BY <1>4 DEF SameQueued
  <2> QED BY <1>2, <2>1, ServedHere, LineKept DEF Good, States
<1>10. Aright(Here', s)
  <2> DEFINE a == act[s]
             w == worker[s]
  <2>1. /\ Executing(db, a, s) /\ Staged(a, w, s) /\ Truthful(db, a, w, s)
        /\ Asked(db, a, s) /\ Mine(db, a, s) /\ Timed(db, a, armed, s) /\ Ordered(db, s)
    BY <1>2, ServedHere DEF Good, Aright
  <2>2. Executing(e, a, s) /\ Truthful(e, a, w, s)
    BY <1>4, <2>1 DEF Executing, Truthful, IsTerminal
  <2>3. Shut(e, a, w, s)
    BY <1>2 DEF Shut
  <2>4. Asked(e, a, s) /\ Mine(e, a, s)
    BY <1>4, <2>1 DEF Asked, Mine
  <2>5. Timed(e, a, armed, s) /\ Ordered(e, s)
    BY <1>4, <2>1 DEF Timed, Ordered, IsTerminal
  <2> QED BY <1>5, <2>1, <2>2, <2>3, <2>4, <2>5 DEF Aright
<1>11. Good(Here')
  BY <1>2, <1>5, <1>6, <1>7, <1>8, <1>9, <1>10, ServedHere, Assembled
<1>12. Turn(Here, Here', s)
  <2>1. Onward(db, e)
    BY <1>1, <1>4 DEF Onward
  <2>2. \A r \in Runs : /\ r = act[s].run /\ act[s].stop # "none"
                         /\ ~ IsTerminal(db, r) /\ IsTerminal(e, r)
                         => e.run[r].status = act[s].stop
    BY <1>4 DEF IsTerminal
  <2> QED BY <1>2, <1>4, <1>5, <2>1, <2>2, ServedHere DEF Turn
<1>13. Steady(Here, Here', s)
  BY <1>2, <1>4, <1>5, ServedHere DEF Steady
<1>14. Steps(Here, Here', s)
  BY <1>11, <1>12, <1>13 DEF Steps
<1> QED BY <1>1, <1>14, RestKept, StepProceeds

----------------------------------------------------------------------------
(* Calls that concern several runs *)

\* Steps of any Sessions, some of which started to close.
LEMMA ContinueProceeds ==
    ASSUME Served, Good(Here'), Continues(Here, Here'),
           Fit(Here', closer', suspending', publishing'),
           UNCHANGED <<phase, half>>, RestTyped'
    PROVE  Proceeds
<1>1. Moves(Here, Here')
  BY DEF Continues
<1> QED BY <1>1 DEF Proceeds, Served, Serving

\* closeSession() marks its Session and stops what runs or waits in it.
LEMMA CloseBeginsProceeds ==
    ASSUME Served, NEW s \in Sessions, CloseBegins(s) PROVE Proceeds
<1> DEFINE e == SetSessionStatus(db, s, "closing")
           y == [Here EXCEPT !.db = e]
           rs == Unsettled(db, s)
           x == StopAll(y, rs)
           c == [phase |-> "stop", run |-> act[s].run]
<1>1. /\ db.session[s].status \in {"open", "closing"}
      /\ act[s].pc # "begin"
      /\ installed' = installed \ {s}
      /\ Become(x)
      /\ closer' = [closer EXCEPT ![s] = c]
      /\ UNCHANGED <<past, pumpDue, suspending, publishing, closed, phase, half, crashes>>
  BY DEF CloseBegins, Settled
<1>2. Good(Here) /\ Here \in States /\ Here.db = db /\ db \in Database /\ Here.act = act
      /\ act[s] \in ActiveRecord
  BY ServedHere, ServedRecord DEF States
<1>3. SessionSet(db, e, s, "closing")
  <2>1. "closing" \in {"closing", "closed"}
    OBVIOUS
  <2>2. db.session[s].status # "closed"
    BY <1>1
  <2> QED BY <1>2, <2>1, <2>2, SessionStatusSet
<1> HIDE DEF e
<1>4. /\ y \in States /\ y.db = e /\ y.queue = Here.queue /\ y.armed = Here.armed
      /\ y.act = Here.act /\ y.worker = Here.worker
  BY <1>2, <1>3 DEF SessionSet, States
<1> HIDE DEF y
<1>5. Closes(Here, y, s, "closing")
  BY <1>1, <1>2, <1>3, <1>4 DEF Closes
<1>6. Good(y) /\ Turn(Here, y, s)
  BY <1>2, <1>5, ClosesSteps
<1>7. Continues(Here, y)
  BY <1>2, <1>6, TurnContinues
<1>8. \A r \in rs : Stoppable(y, r)
  <2> SUFFICES ASSUME NEW r \in rs PROVE Stoppable(y, r)
    OBVIOUS
  <2>1. r \in Runs /\ db.run[r].session = s /\ Accepted(db, r)
    BY <1>2 DEF Unsettled, RunsOf, Good, Referenced
  <2>2. y.db.run = db.run /\ y.act = act
    BY <1>2, <1>3, <1>4 DEF SessionSet
  <2> QED BY <1>1, <2>1, <2>2 DEF Stoppable, Accepted
<1>9. Advances(y, x) /\ \A r \in rs : Stopped(x, r)
  BY <1>6, <1>8, StopAllSteps
<1> HIDE DEF x
<1>10. Good(x) /\ x \in States
  BY <1>9 DEF Advances, Good
<1>11. Advances(x, Here')
  BY <1>1, <1>10, BecomeSame, SameSteps, StepsAdvances
<1>12. Advances(y, Here') /\ Good(Here')
  BY <1>6, <1>9, <1>11, AdvancesTwice DEF Advances
<1>13. Continues(Here, Here')
  BY <1>2, <1>6, <1>7, <1>12, ContinuesTwice DEF Advances
<1>14. \A r \in rs : Stopped(Here', r)
  <2> SUFFICES ASSUME NEW r \in rs PROVE Stopped(Here', r)
    OBVIOUS
  <2>1. r \in Runs /\ Accepted(y.db, r) /\ y.db.run[r].session \in Sessions
    BY <1>6, <1>8 DEF Stoppable, Good, Referenced
  <2>2. x.db.run[r].session = y.db.run[r].session
    BY <1>9, <2>1 DEF Advances, Continues, Onward
  <2>3. Accepted(x.db, r)
    BY <1>10, <2>1, <2>2 DEF Good, Referenced
  <2> QED BY <1>9, <1>10, <1>11, <2>1, <2>3, StoppedKept
<1>15. Fit(Here, closer, suspending, publishing)
  BY DEF Served, Serving
<1>16. ASSUME NEW t \in Sessions \ {s}
       PROVE  /\ y.db.session[t].status = Here.db.session[t].status
              /\ y.act[t] = Here.act[t] /\ y.worker[t] = Here.worker[t]
  BY <1>2, <1>3, <1>4 DEF SessionSet
<1>17. ASSUME NEW t \in Sessions PROVE Halting(Here', t)
  <2>1. CASE t # s
    <3>1. Halting(Here, t)
      BY <1>15 DEF Fit
    <3>2. Halting(y, t)
      BY <1>16, <2>1, <3>1 DEF Halting
    <3> QED BY <1>12, <3>2, HaltingKept
  <2>2. CASE t = s
    <3> SUFFICES ASSUME InFlight(Here'.act[s]) PROVE Here'.act[s].stop # "none"
      <4>1. Executing(Here'.db, Here'.act[s], s)
        BY <1>12 DEF Good, Aright
      <4> QED BY <2>2, <4>1 DEF Halting, InFlight, Executing
    <3> DEFINE r == Here'.act[s].run
    <3>1. r \in Runs /\ Here'.db.run[r].session = s /\ ~ IsTerminal(Here'.db, r)
      BY <1>12, ActiveRun
    <3>3. Accepted(Here'.db, r)
      BY <1>12, <3>1 DEF Good, Referenced
    <3>4. r \in Unsettled(Here'.db, s)
      BY <3>1, <3>3 DEF Unsettled, RunsOf
    <3>5. Onward(Here.db, Here'.db)
      BY <1>13 DEF Continues
    <3>6. Unsettled(Here'.db, s) \subseteq Unsettled(Here.db, s)
      BY <1>2, <3>5, UnsettledKept
    <3>2. r \in rs
      BY <1>2, <3>4, <3>6
    <3> QED BY <1>14, <3>1, <3>2 DEF Stopped
  <2> QED BY <2>1, <2>2
<1>18. Slots(Here')
  BY <1>13, <1>15, SlotsKept DEF Fit
<1>19. ASSUME NEW t \in Sessions PROVE CloserFit(Here', closer'[t], t)
  <2>1. CASE t # s
    <3>1. Halting(Here, t) /\ CloserFit(Here, closer[t], t)
      BY <1>15 DEF Fit, ClosersFit
    <3>4. /\ y.db.session[t].status = Here.db.session[t].status
          /\ y.act[t] = Here.act[t] /\ y.worker[t] = Here.worker[t]
      BY <1>16, <2>1
    <3>5. Halting(y, t)
      BY <3>1, <3>4 DEF Halting
    <3>6. CloserFit(y, closer[t], t)
      BY <3>1, <3>4 DEF CloserFit
    <3>2. Halting(y, t) /\ CloserFit(y, closer[t], t)
      BY <3>5, <3>6
    <3>3. CloserFit(Here', closer[t], t)
      BY <1>12, <3>2, CloserKept
    <3> QED BY <1>1, <2>1, <3>3, CloserTyped
  <2>2. CASE t = s
    <3>1. closer'[s] = c
      BY <1>1, CloserTyped
    <3>2. y.db.session[s].status = "closing"
      BY <1>3, <1>4 DEF SessionSet
    <3>3. Here'.db.session[s].status \notin {"absent", "open"}
      BY <1>12, <3>2 DEF Advances, Continues, Onward
    <3>4. Here'.act[s] = Idle \/ Here'.act[s].run = act[s].run
      BY <1>2, <1>13 DEF Continues
    <3>5. CloserFit(Here', c, s)
      BY <3>3, <3>4 DEF CloserFit
    <3> QED BY <2>2, <3>1, <3>5
  <2> QED BY <2>1, <2>2
<1>20. suspending \in SUBSET Sessions /\ publishing \in SUBSET [run : Runs, artifact : Artifacts]
  BY DEF Served, RestTyped
<1>21. SuspendedFit(Here', suspending) /\ PublishingFit(Here', publishing)
  BY <1>2, <1>13, <1>15, <1>20, SuspendedKept, PublishingKept DEF Fit
<1>22. Fit(Here', closer', suspending', publishing')
  BY <1>1, <1>17, <1>18, <1>19, <1>21 DEF Fit, ClosersFit
<1>23. c \in [phase : {"none", "stop", "host", "settle"}, run : Runs \cup {None}]
  BY <1>2 DEF ActiveRecord
<1> HIDE DEF c
<1>24. RestTyped'
  BY <1>1, <1>23 DEF Served, RestTyped
<1> QED BY <1>1, <1>12, <1>13, <1>22, <1>24, ContinueProceeds

\* close() stops every unfinished run and closes every Worker.
LEMMA ShutdownProceeds ==
    ASSUME Served, Shutdown PROVE Proceeds
<1> DEFINE rs == {r \in Runs : Accepted(db, r) /\ ~ IsTerminal(db, r)}
           x == StopAll(Here, rs)
           z == ShutteredAll(x)
<1>1. /\ \A s \in Sessions : act[s].pc # "begin"
      /\ closed' = TRUE /\ Become(z)
      /\ UNCHANGED <<past, pumpDue, installed, suspending, closer, publishing, phase, half,
                     crashes>>
  BY DEF Shutdown, Settled, ShutteredAll
<1>2. Good(Here) /\ Here.db = db /\ Here.act = act
  BY ServedHere
<1>3. \A r \in rs : Stoppable(Here, r)
  BY <1>1, <1>2 DEF Stoppable, Good, Referenced
<1>4. Advances(Here, x)
  BY <1>2, <1>3, StopAllSteps
<1> HIDE DEF x
<1>5. Advances(x, z)
  BY <1>4, ShutteredAllAdvances DEF Advances
<1>6. Advances(Here, z)
  BY <1>2, <1>4, <1>5, AdvancesTwice
<1> HIDE DEF z
<1>7. Good(z) /\ z \in States
  BY <1>6 DEF Advances, Good
<1>9. Advances(z, Here')
  <2>1. Good(Here') /\ \A s \in Sessions : Turn(z, Here', s) /\ Steady(z, Here', s)
    BY <1>1, <1>7, BecomeSame, SameGood
  <2>2. Same(z, Here')
    BY <1>1, <1>7, BecomeSame
  <2>3. Onward(z.db, Here'.db)
    BY <2>2 DEF Same, Noted, Onward, IsTerminal
  <2>8. ASSUME NEW t \in Sessions, z.act[t].stop # "none" PROVE z.act[t].run \in Runs
    BY <1>7, <2>8 DEF Good, Aright, Executing, Idle
  <2>4. Moves(z, Here')
    BY <2>2, <2>8 DEF Same, Noted, Moves, IsTerminal
  <2>5. Here'.act = z.act /\ Here'.worker = z.worker
        /\ \A t \in Sessions : Here'.db.session[t].status = z.db.session[t].status
    BY <2>2 DEF Same, Noted
  <2>6. Continues(z, Here')
    BY <2>3, <2>4, <2>5 DEF Continues
  <2>7. Steadily(z, Here')
    BY <2>5 DEF Steadily
  <2> QED BY <2>1, <2>6, <2>7 DEF Advances
<1>10. Advances(Here, Here')
  BY <1>2, <1>6, <1>9, AdvancesTwice
<1>11. Fit(Here', closer', suspending', publishing')
  BY <1>1, <1>10, ServedFit
<1>12. RestTyped'
  BY <1>1 DEF Served, RestTyped
<1> QED BY <1>1, <1>10, <1>11, <1>12, AdvanceProceeds

\* collectOutputs(): what was copied is registered, unless the run was stopped.
LEMMA CollectedProceeds ==
    ASSUME Served, NEW s \in Sessions, NEW files \in SUBSET Artifacts, Collected(s, files)
    PROVE  Proceeds
<1> DEFINE t == StopIfPast(Here, s)
           a == t.act[s]
           e == IF a.stop # "none" THEN t.db ELSE RegisterAll(t.db, a.run, files)
           y == [t EXCEPT !.db = e]
           b == [a EXCEPT !.pc = "discard"]
           x == Put(y, s, b)
<1>1. act[s].pc = "collect" /\ IsFiniteSet(files) /\ UNCHANGED rest
      /\ Become([t EXCEPT !.db = e, !.act[s].pc = "discard"])
  BY DEF Collected, At
<1>2. Good(Here) /\ Here.act = act /\ Here.worker = worker /\ InFlight(Here.act[s])
  BY <1>1, ServedHere DEF InFlight
<1>3. /\ Steps(Here, t, s) /\ InFlight(a) /\ Resumes(act[s], a)
  BY <1>1, <1>2, StopIfPastSteps
<1> HIDE DEF t
<1>4. Good(t) /\ t \in States /\ t.db \in Database /\ a \in ActiveRecord
  BY <1>3 DEF Steps, Good, States
<1>5. a.run \in Runs /\ t.db.run[a.run].status \in Busy
  BY <1>3, <1>4, ActiveRun
<1>6. a.stop = "none" => FilingWork(t.db, e, a.run)
  BY <1>1, <1>4, <1>5, RegisterAllBusy
<1>7. e \in Database
  BY <1>4, <1>6 DEF FilingWork, Busywork
<1>8. a.stop # "none" => e = t.db
  OBVIOUS
<1> HIDE DEF e
<1>9. [t EXCEPT !.db = e, !.act[s].pc = "discard"] = x
  BY <1>4 DEF States, Put
<1>10. Rewritten(t, y, e)
  BY <1>4, <1>7, DatabaseRewritten
<1>11. Steps(t, y, s)
  <2>1. CASE a.stop = "none"
    BY <1>3, <1>4, <1>6, <1>10, <2>1, FilingSteps
  <2>2. CASE a.stop # "none"
    <3>1. y = t
      BY <1>4, <1>8, <2>2 DEF States
    <3> QED BY <1>4, <3>1, StepsSelf
  <2> QED BY <2>1, <2>2
<1> HIDE DEF y
<1>12. Good(y) /\ y.act = t.act /\ y.worker = t.worker
  BY <1>10, <1>11 DEF Steps, Rewritten
<1>13. Staged(a, t.worker[s], s)
  BY <1>4 DEF Good, Aright
<1>14. /\ b.pc = "discard" /\ b.run = a.run /\ b.stop = a.stop /\ b.stopping = a.stopping
       /\ b.handle = a.handle /\ b.result = a.result /\ b.failed = a.failed
       /\ b.cleanup = a.cleanup
  BY <1>4 DEF ActiveRecord
<1>15. a.pc = "collect"
  BY <1>1, <1>3 DEF Resumes
<1>16. b = [y.act[s] EXCEPT !.pc = "discard"] /\ "discard" \in Pcs
  BY <1>12 DEF Pcs
<1> HIDE DEF b
<1>17. Staged(b, y.worker[s], s) /\ InFlight(b)
  BY <1>12, <1>13, <1>14, <1>15 DEF Staged, InFlight
<1>18. Steps(y, x, s)
  BY <1>3, <1>12, <1>16, <1>17, StageSteps
<1> HIDE DEF x
<1>19. Steps(Here, x, s)
  BY <1>2, <1>3, <1>4, <1>11, <1>12, <1>18, StepsTwice
<1> QED BY <1>1, <1>9, <1>19, BecomeProceeds

\* submit() accepts a run.
LEMMA SubmitProceeds ==
    ASSUME Served, NEW s \in Sessions, NEW r \in Runs, NEW k \in Keys \cup {None},
           NEW h \in Hashes, Submit(s, r, k, h)
    PROVE  Proceeds
<1> DEFINE e == Unlogged(AcceptRun(db, s, r, k, h))
<1>1. /\ db.session[s].status = "open" /\ s \notin suspending /\ ~ Accepted(db, r)
      /\ FindRunByKey(db, s, k) = {}
      /\ db' = e /\ queue' = Append(queue, r) /\ armed' = armed \cup {r} /\ pumpDue' = TRUE
      /\ UNCHANGED <<act, worker, past, installed, suspending, closer, publishing, closed,
                     phase, half, crashes>>
  BY DEF Submit
<1>2. Good(Here) /\ Here \in States /\ Here.db = db /\ Here.queue = queue
      /\ Here.armed = armed /\ Here.act = act /\ Here.worker = worker
  BY ServedHere
<1>3. Accepts(db, e, s, r)
  BY <1>1, <1>2, RunAccepts DEF Good
<1> HIDE DEF e
<1>4. /\ Here'.db = e /\ Here'.queue = Append(queue, r) /\ Here'.armed = armed \cup {r}
      /\ Here'.act = act /\ Here'.worker = worker
      /\ Here' = [db |-> e, queue |-> Append(queue, r), armed |-> armed \cup {r},
                  act |-> act, worker |-> worker]
  BY <1>1 DEF Here
<1>5. Here' \in States
  <2>1. e \in Database
    BY <1>3 DEF Accepts
  <2>2. /\ queue \in Seq(Runs) /\ armed \subseteq Runs /\ act \in [Sessions -> ActiveRecord]
        /\ worker \in [Sessions -> WorkerStates]
    BY <1>2 DEF States
  <2>3. Append(queue, r) \in Seq(Runs) /\ armed \cup {r} \subseteq Runs
    BY <2>2
  <2> QED BY <1>4, <2>1, <2>2, <2>3 DEF States
<1>6. Joins(Here, Here', s, r)
  BY <1>1, <1>2, <1>3, <1>4, <1>5 DEF Joins
<1>7. Good(Here')
  BY <1>2, <1>6, JoinsGood
<1>8. Fit(Here, closer, suspending, publishing) /\ suspending \in SUBSET Sessions
      /\ publishing \in SUBSET [run : Runs, artifact : Artifacts]
  BY DEF Served, Serving, RestTyped
<1>9. Fit(Here', closer, suspending, publishing) /\ Moves(Here, Here')
  BY <1>1, <1>2, <1>6, <1>8, JoinsFit
<1>10. RestTyped'
  BY <1>1 DEF Served, RestTyped
<1>11. Fit(Here', closer', suspending', publishing')
  BY <1>1, <1>9
<1> QED BY <1>1, <1>7, <1>9, <1>10, <1>11 DEF Proceeds, Served, Serving

\* pump() over the whole queue.
LEMMA PumpProceeds ==
    ASSUME Served, Pump PROVE Proceeds
<1> DEFINE x == IF closed THEN Here ELSE PumpAll(Here, queue)
<1>1. /\ pumpDue' = FALSE /\ Become(x)
      /\ UNCHANGED <<past, installed, suspending, closer, publishing, closed, phase, half,
                     crashes>>
  BY DEF Pump
<1>2. Good(Here) /\ Here.queue = queue /\ Here \in States
  BY DEF Served, Serving, Good, Here
<1>3. Fit(Here, closer, suspending, publishing) /\ Slots(Here)
  BY DEF Served, Serving, Fit
<1>4. x \in States /\ Good(x) /\ Pumps(Here, x) /\ Slots(x)
  <2>1. CASE closed
    <3>1. Pumps(Here, Here)
      BY DEF Pumps, Onward
    <3> QED BY <1>2, <1>3, <2>1, <3>1
  <2>2. CASE ~ closed
    BY <1>2, <1>3, <2>2, PumpAllPumps
  <2> QED BY <2>1, <2>2
<1> HIDE DEF x
<1>5. Same(x, Here')
  BY <1>1, <1>4, BecomeSame
<1>6. Good(Here')
  BY <1>4, <1>5, SameGood
<1>7. Pumps(x, Here')
  <2>1. Onward(x.db, Here'.db)
    BY <1>5 DEF Same, Noted, Onward, IsTerminal
  <2> QED BY <1>5, <2>1 DEF Same, Noted, Pumps
<1>8. Pumps(Here, Here')
  BY <1>2, <1>4, <1>7, PumpsTwice
<1>9. Slots(Here')
  <2>1. Here'.act = x.act
    BY <1>5 DEF Same
  <2> QED BY <1>4, <2>1 DEF Slots, Active, Load, EngineLoad
<1>10. suspending \in SUBSET Sessions
       /\ publishing \in SUBSET [run : Runs, artifact : Artifacts]
  BY DEF Served, RestTyped
<1>11. Fit(Here', closer, suspending, publishing)
  BY <1>2, <1>3, <1>8, <1>9, <1>10, PumpsFit
<1>12. Moves(Here, Here')
  BY <1>2, <1>8, PumpsMoves
<1>13. RestTyped'
  BY <1>1 DEF Served, RestTyped
<1>14. phase' = "ready" /\ half' = None
  BY <1>1 DEF Served, Serving
<1>15. Fit(Here', closer', suspending', publishing')
  BY <1>1, <1>11
<1> QED BY <1>6, <1>12, <1>13, <1>14, <1>15 DEF Proceeds, Served, Serving

----------------------------------------------------------------------------
(* Crash and recovery *)

\* What the database on the disk keeps to, whatever becomes of the process.
Durable(d) ==
    /\ Referenced(d)
    /\ \A s \in Sessions : Ordered(d, s)
    /\ \A p \in Perms : d.perm[p].status \in {"pending", "decided"} =>
          ~ IsTerminal(d, d.perm[p].run)

\* The database of a Runtime that serves.
LEMMA ServedDurable ==
    ASSUME Served
    PROVE  Durable(db)
<1>1. Good(Here) /\ Here.db = db /\ Here.act = act
  BY ServedHere
<1>2. Referenced(db) /\ \A s \in Sessions : Aright(Here, s)
  BY <1>1 DEF Good
<1>3. \A s \in Sessions : Ordered(db, s) /\ Asked(db, act[s], s)
  BY <1>1, <1>2 DEF Aright
<1>4. ASSUME NEW p \in Perms, db.perm[p].status \in {"pending", "decided"}
      PROVE  ~ IsTerminal(db, db.perm[p].run)
  <2> DEFINE r == db.perm[p].run
             s == db.run[r].session
  <2>1. r \in Runs /\ Accepted(db, r)
    BY <1>2, <1>4 DEF Referenced
  <2>2. s \in Sessions
    BY <1>2, <2>1 DEF Referenced
  <2>3. act[s].run = r /\ InFlight(act[s])
    BY <1>3, <1>4, <2>2 DEF Asked
  <2> QED BY <1>1, <2>2, <2>3, ActiveRun
<1> QED BY <1>2, <1>3, <1>4 DEF Durable

\* A crash, at any time.
LEMMA CrashRecovers ==
    ASSUME IInv, Crash
    PROVE  TypeOK' /\ phase' = "leases" /\ Recovering' /\ db' = db
<1>1. /\ crashes' = crashes + 1 /\ phase' = "leases" /\ half' = None
      /\ queue' = <<>> /\ armed' = {} /\ pumpDue' = FALSE
      /\ act' = [s \in Sessions |-> Idle]
      /\ installed' = {} /\ suspending' = {} /\ publishing' = {} /\ closed' = FALSE
      /\ closer' = [s \in Sessions |-> [phase |-> "none", run |-> None]]
      /\ db' = db /\ past' = past
  BY DEF Crash
<1>2. worker' = [s \in Sessions |-> IF worker[s] \in {"none", "recovered"} THEN "none"
                                    ELSE "orphan"]
  BY DEF Crash
<1>3. worker' \in [Sessions -> WorkerStates]
      /\ \A s \in Sessions : worker'[s] \notin {"live", "closing"}
  BY <1>2 DEF WorkerStates
<1>4. Durable(db)
  <2>1. CASE phase = "ready"
    BY <2>1, ServedIInv, ServedDurable
  <2>2. CASE phase # "ready"
    BY <2>2 DEF IInv, Recovering, Durable
  <2> QED BY <2>1, <2>2
<1>5. db \in Database /\ past \subseteq Runs /\ crashes \in Nat
  BY DEF IInv, TypeOK
<1>6. Idle \in ActiveRecord
  BY DEF Idle, ActiveRecord, Pcs, Cleanup
<1>7. act' \in [Sessions -> ActiveRecord]
  BY <1>1, <1>6
<1>8. closer' \in [Sessions -> [phase : {"none", "stop", "host", "settle"},
                                run : Runs \cup {None}]]
  BY <1>1
<1>9. <<>> \in Seq(Runs) /\ crashes + 1 \in Nat
  BY <1>5
<1>10. TypeOK'
  BY <1>1, <1>3, <1>5, <1>7, <1>8, <1>9 DEF TypeOK
<1>11. Recovering'
  <2>1. Referenced(db') /\ \A s \in Sessions : Ordered(db', s)
    BY <1>1, <1>4 DEF Durable
  <2>2. \A p \in Perms : db'.perm[p].status \in {"pending", "decided"} =>
          ~ IsTerminal(db', db'.perm[p].run)
    BY <1>1, <1>4 DEF Durable
  <2> QED BY <1>1, <1>3, <2>1, <2>2 DEF Recovering
<1> QED BY <1>1, <1>10, <1>11

\* The steps of recovery are the only ones until it is over.
LEMMA OnlyRecovery ==
    ASSUME phase # "ready", Recovering, Next
    PROVE  Crash \/ Recovery
<1>1. publishing = {} /\ suspending = {}
  BY DEF Recovering
<1>2. \A s \in Sessions : act[s] = Idle /\ closer[s].phase = "none"
                          /\ worker[s] \notin {"live", "closing"}
  BY DEF Recovering
<1>3. \A s \in Sessions : act[s].pc = "idle" /\ act[s].stopping = "none"
  BY <1>2 DEF Idle
<1>4. ~ Client
  BY DEF Client, NewSession, Suspend, CloseBegins, CloseAgain, Submit, Cancel, Decide, Shutdown,
         IsReady
<1>5. ~ Pump /\ ~ Publisher /\ ~ Clock
  BY <1>1 DEF Pump, Publisher, Clock, DeadlinePasses, TimerFires
<1>6. \A s \in Sessions : ~ Execute(s)
  BY <1>3 DEF Execute, At, Inspected, InspectFails, BeginOverdue, BeginUnavailable,
              BeginRefused, BeginStarts, Started, StartFails, ResultRejected, ResultArrives,
              ModelsEnd, Reclaimed, Collected, CollectFails, Discarded, StopAwaited, Caught,
              FinallyModels, Finally
<1>7. \A s \in Sessions : ~ Closing(s)
  BY <1>1, <1>2, <1>3 DEF Closing, GraceEnds, StopCloses, SuspendEnds, CloseStopped,
                          CloseReclaimed, CloseEnds
<1>8. \A s \in Sessions : ~ Messages(s)
  BY <1>3 DEF Messages, ReceiveStarted, ReceiveEvent, ReceiveBinding, ReceivePermission,
              ReceiveApplied, ReceiveArtifact, ReceiveResult, Incoming, At
<1>9. \A s \in Sessions : ~ WorkerFails(s) /\ \A status \in Cleanup : ~ WorkerCloses(s, status)
  BY <1>2 DEF WorkerFails, WorkerCloses
<1> QED BY <1>4, <1>5, <1>6, <1>7, <1>8, <1>9 DEF Next

\* What the steps of recovery leave alone.
Restarting(x) ==
    /\ TypeOK' /\ act' = act /\ db'.artifact = db.artifact
    /\ phase' = x
    /\ IF x = "ready" THEN Serving' ELSE Recovering'

\* A step of recovery keeps the types of what it leaves alone.
LEMMA BootedTyped ==
    ASSUME TypeOK, UNCHANGED Booted, db' \in Database, worker' \in [Sessions -> WorkerStates],
           phase' \in {"ready", "leases", "runs", "sessions"}, half' \in Sessions \cup {None}
    PROVE  TypeOK'
BY DEF TypeOK, Booted

\* The database while it is recovered.
LEMMA BootedRecovering ==
    ASSUME Recovering, UNCHANGED Booted,
           \A s \in Sessions : worker'[s] \notin {"live", "closing"}
                               /\ (phase' # "leases" => worker'[s] # "orphan"),
           Durable(db'),
           phase' = "sessions" => \A r \in Runs : Accepted(db', r) => IsTerminal(db', r),
           half' # None => phase' = "runs" /\ db'.session[half'].status # "absent"
    PROVE  Recovering'
<1>1. /\ queue' = <<>> /\ armed' = {} /\ publishing' = {} /\ suspending' = {}
      /\ act' = [s \in Sessions |-> Idle]
      /\ closer' = [s \in Sessions |-> [phase |-> "none", run |-> None]]
  BY DEF Recovering, Booted
<1>2. /\ Referenced(db') /\ \A s \in Sessions : Ordered(db', s)
      /\ \A p \in Perms : db'.perm[p].status \in {"pending", "decided"} =>
            ~ IsTerminal(db', db'.perm[p].run)
  BY DEF Durable
<1> QED BY <1>1, <1>2 DEF Recovering

\* The database keeps to its invariant during recovery.
LEMMA RecoveringDurable ==
    ASSUME Recovering
    PROVE  Durable(db)
BY DEF Recovering, Durable

\* A Worker lease left behind is reclaimed, or quarantined.
LEMMA RecoverLeaseRestarts ==
    ASSUME TypeOK, Recovering, NEW s \in Sessions, NEW status \in Cleanup,
           RecoverLease(s, status)
    PROVE  Restarting("leases")
<1> DEFINE w == IF status = "confirmed" THEN "recovered" ELSE status
<1>1. /\ phase = "leases" /\ worker' = [worker EXCEPT ![s] = w]
      /\ UNCHANGED <<db, phase, half, Booted>>
  BY DEF RecoverLease
<1>2. w \in WorkerStates /\ w \notin {"live", "closing"}
  BY DEF WorkerStates, Cleanup
<1> HIDE DEF w
<1>3. worker \in [Sessions -> WorkerStates]
      /\ \A t \in Sessions : worker[t] \notin {"live", "closing"}
  BY DEF TypeOK, Recovering
<1>4. worker' \in [Sessions -> WorkerStates]
      /\ \A t \in Sessions : worker'[t] \notin {"live", "closing"}
  BY <1>1, <1>2, <1>3
<1>5. db' = db /\ phase' = "leases" /\ half' = half /\ UNCHANGED Booted
  BY <1>1
<1>6. TypeOK'
  BY <1>4, <1>5, BootedTyped DEF TypeOK
<1>7. half = None
  BY <1>1 DEF Recovering
<1>8. Durable(db')
  BY <1>5, RecoveringDurable
<1>9. Recovering'
  BY <1>4, <1>5, <1>7, <1>8, BootedRecovering
<1> QED BY <1>5, <1>6, <1>9 DEF Restarting, Booted

\* All leases are accounted for.
LEMMA LeasesRecoveredRestarts ==
    ASSUME TypeOK, Recovering, LeasesRecovered
    PROVE  Restarting("runs")
<1>1. /\ phase = "leases" /\ \A s \in Sessions : worker[s] # "orphan"
      /\ phase' = "runs" /\ db' = db /\ worker' = worker /\ half' = half /\ UNCHANGED Booted
  BY DEF LeasesRecovered
<1>2. \A t \in Sessions : worker[t] \notin {"live", "closing"}
  BY DEF Recovering
<1>3. TypeOK'
  BY <1>1, BootedTyped DEF TypeOK
<1>4. half = None
  BY <1>1 DEF Recovering
<1>5. Durable(db')
  BY <1>1, RecoveringDurable
<1>6. Recovering'
  BY <1>1, <1>2, <1>4, <1>5, BootedRecovering
<1> QED BY <1>1, <1>3, <1>6 DEF Restarting, Booted

\* A database in which an unfinished run was ended, and the log erased.
LEMMA EndedDurable ==
    ASSUME NEW d, NEW r \in Runs, Durable(d), Accepted(d, r), ~ IsTerminal(d, r),
           NEW status \in Terminal, NEW cleanup, NEW e, Ended(d, e, r, status, cleanup),
           NEW f, Noted(e, f)
    PROVE  /\ Durable(f) /\ f \in Database /\ f.artifact = d.artifact
           /\ \A s \in Sessions : f.session[s].status = d.session[s].status
<1>1. Referenced(d)
  BY DEF Durable
<1>2. /\ Retained(d, e)
      /\ IsTerminal(e, r) /\ \A t \in Runs : IsTerminal(d, t) => IsTerminal(e, t)
      /\ \A t \in Runs : /\ e.run[t].session = d.run[t].session
                         /\ e.run[t].generation = d.run[t].generation
                         /\ e.run[t].started = d.run[t].started
  BY <1>1, EndedKeeps
<1>3. /\ f \in Database /\ f.artifact = d.artifact /\ f.perm = e.perm
      /\ \A s \in Sessions : f.session[s].status = e.session[s].status
      /\ \A s \in Sessions : f.session[s].status = d.session[s].status
  BY DEF Ended, Noted
<1>4. \A t \in Runs : /\ f.run[t].session = d.run[t].session
                      /\ f.run[t].generation = d.run[t].generation
                      /\ f.run[t].started = d.run[t].started
                      /\ f.run[t].status = e.run[t].status
  BY <1>2 DEF Noted
<1>5. Retained(d, f)
  BY <1>2, <1>3, <1>4 DEF Retained, Accepted
<1>6. Referenced(f)
  BY <1>1, <1>5, RetainedReferenced
<1>7. \A t \in Runs : IsTerminal(d, t) => IsTerminal(f, t)
  BY <1>2, <1>4 DEF IsTerminal
<1>8. \A s \in Sessions : Ordered(f, s)
  BY <1>4, <1>7 DEF Durable, Ordered
<1>9. ASSUME NEW p \in Perms, f.perm[p].status \in {"pending", "decided"}
      PROVE  ~ IsTerminal(f, f.perm[p].run)
  <2>1. /\ f.perm[p].run = d.perm[p].run /\ p \notin OpenPerms(d, r)
        /\ d.perm[p].status = f.perm[p].status
    BY <1>3, <1>9 DEF Ended
  <2>2. d.perm[p].run # r
    BY <1>9, <2>1 DEF OpenPerms
  <2>3. d.perm[p].run \in Runs /\ ~ IsTerminal(d, d.perm[p].run)
    BY <1>1, <1>9, <2>1 DEF Durable, Referenced
  <2>4. f.run[d.perm[p].run].status = d.run[d.perm[p].run].status
    BY <1>4, <2>2, <2>3 DEF Ended
  <2> QED BY <2>1, <2>3, <2>4 DEF IsTerminal
<1> QED BY <1>3, <1>6, <1>8, <1>9 DEF Durable

\* An interrupted run is finished with what the host reported of its Worker.
LEMMA RecoverRunRestarts ==
    ASSUME TypeOK, Recovering, NEW r \in Runs, RecoverRun(r)
    PROVE  Restarting("runs")
<1> DEFINE s == SessionOf(r)
           v == RecoveredStatus(worker[s])
           e == FinishRun(db, r, "interrupted", v)
<1>1. /\ phase = "runs" /\ half = None /\ Accepted(db, r) /\ ~ IsTerminal(db, r)
      /\ db' = Unlogged(e) /\ half' = s
      /\ worker' = worker /\ phase' = phase /\ UNCHANGED Booted
  BY DEF RecoverRun
<1>2. Durable(db) /\ db \in Database
  BY RecoveringDurable DEF TypeOK
<1>3. s \in Sessions /\ db.session[s].status # "absent"
  BY <1>1, <1>2 DEF Durable, Referenced, SessionOf
<1>4. worker[s] \in WorkerStates /\ worker[s] \notin {"live", "closing", "orphan"}
  BY <1>1, <1>3 DEF TypeOK, Recovering
<1>5. v \in Cleanup
  BY <1>4 DEF RecoveredStatus, WorkerStates, Cleanup
<1>6. "interrupted" \in Terminal
  BY DEF Terminal
<1> HIDE DEF v
<1>7. Ended(db, e, r, "interrupted", v)
  BY <1>1, <1>2, <1>5, <1>6, FinishEnds
<1>8. Noted(e, Unlogged(e))
  BY <1>7, UnloggedNoted DEF Ended
<1> HIDE DEF e
<1>9. Noted(e, db')
  BY <1>1, <1>8
<1>10. Durable(db') /\ db' \in Database /\ db'.artifact = db.artifact
       /\ \A t \in Sessions : db'.session[t].status = db.session[t].status
  BY <1>1, <1>2, <1>6, <1>7, <1>9, EndedDurable
<1> HIDE DEF s
<1>11. TypeOK'
  BY <1>1, <1>3, <1>10, BootedTyped DEF TypeOK
<1>12. /\ \A t \in Sessions : worker'[t] \notin {"live", "closing"}
                              /\ (phase' # "leases" => worker'[t] # "orphan")
       /\ phase' # "sessions"
       /\ half' # None => phase' = "runs" /\ db'.session[half'].status # "absent"
  BY <1>1, <1>3, <1>10 DEF Recovering
<1>13. Recovering'
  BY <1>1, <1>10, <1>12, BootedRecovering
<1> QED BY <1>1, <1>10, <1>11, <1>13 DEF Restarting, Booted

\* A database in which a Session was closed.
LEMMA ClosedDurable ==
    ASSUME NEW d \in Database, NEW s \in Sessions, Durable(d)
    PROVE  LET e == SetSessionStatus(d, s, "closed") IN
           /\ Durable(e) /\ e \in Database /\ e.artifact = d.artifact /\ e.run = d.run
           /\ e.session[s].status = "closed"
           /\ \A t \in Sessions : d.session[t].status # "absent" => e.session[t].status # "absent"
<1> DEFINE e == SetSessionStatus(d, s, "closed")
<1>1. SessionSet(d, e, s, "closed")
  BY SessionStatusSet
<1> HIDE DEF e
<1>2. /\ e \in Database /\ e.run = d.run /\ e.perm = d.perm /\ e.artifact = d.artifact
      /\ \A t \in Sessions \ {s} : e.session[t] = d.session[t]
      /\ e.session[s].status = "closed"
  BY <1>1 DEF SessionSet
<1>3. \A t \in Sessions : d.session[t].status # "absent" => e.session[t].status # "absent"
  BY <1>2
<1>4. Referenced(d)
  BY DEF Durable
<1>5. Retained(d, e)
  BY <1>2, <1>3, <1>4 DEF Retained, Referenced, Accepted
<1>6. Referenced(e)
  BY <1>4, <1>5, RetainedReferenced
<1>7. \A t \in Sessions : Ordered(e, t)
  BY <1>2 DEF Durable, Ordered, IsTerminal
<1>8. Durable(e)
  BY <1>2, <1>6, <1>7 DEF Durable, IsTerminal
<1> QED BY <1>2, <1>3, <1>8 DEF e

\* The Session of an interrupted run is closed.
LEMMA RecoverCloseRestarts ==
    ASSUME TypeOK, Recovering, RecoverClose
    PROVE  Restarting("runs")
<1> DEFINE e == SetSessionStatus(db, half, "closed")
<1>1. /\ half # None /\ db' = e /\ half' = None
      /\ worker' = worker /\ phase' = phase /\ UNCHANGED Booted
  BY DEF RecoverClose
<1>2. phase = "runs" /\ half \in Sessions
  BY <1>1 DEF Recovering, TypeOK
<1>3. Durable(db) /\ db \in Database
  BY RecoveringDurable DEF TypeOK
<1>4. Durable(e) /\ e \in Database /\ e.artifact = db.artifact
  BY <1>2, <1>3, ClosedDurable
<1> HIDE DEF e
<1>5. db' \in Database /\ worker' \in [Sessions -> WorkerStates]
      /\ phase' \in {"ready", "leases", "runs", "sessions"} /\ half' \in Sessions \cup {None}
  BY <1>1, <1>2, <1>4 DEF TypeOK
<1>6. TypeOK'
  BY <1>1, <1>5, BootedTyped
<1>7. \A t \in Sessions : worker'[t] \notin {"live", "closing"}
                          /\ (phase' # "leases" => worker'[t] # "orphan")
  BY <1>1 DEF Recovering
<1>8. Durable(db') /\ phase' # "sessions" /\ half' = None
  BY <1>1, <1>2, <1>4
<1>9. Recovering'
  BY <1>1, <1>7, <1>8, BootedRecovering
<1> QED BY <1>1, <1>2, <1>4, <1>6, <1>9 DEF Restarting, Booted

\* No run is left unfinished.
LEMMA RunsRecoveredRestarts ==
    ASSUME TypeOK, Recovering, RunsRecovered
    PROVE  Restarting("sessions")
<1>1. /\ phase = "runs" /\ half = None
      /\ \A r \in Runs : Accepted(db, r) => IsTerminal(db, r)
      /\ phase' = "sessions" /\ db' = db /\ worker' = worker /\ half' = half
      /\ UNCHANGED Booted
  BY DEF RunsRecovered
<1>2. TypeOK'
  BY <1>1, BootedTyped DEF TypeOK
<1>3. Durable(db')
  BY <1>1, RecoveringDurable
<1>4. \A t \in Sessions : worker'[t] \notin {"live", "closing"}
                          /\ (phase' # "leases" => worker'[t] # "orphan")
  BY <1>1 DEF Recovering
<1>5. Recovering'
  BY <1>1, <1>3, <1>4, BootedRecovering
<1> QED BY <1>1, <1>2, <1>5 DEF Restarting, Booted

\* A Session that cannot be resumed is closed.
LEMMA RecoverSessionRestarts ==
    ASSUME TypeOK, Recovering, NEW s \in Sessions, RecoverSession(s)
    PROVE  Restarting("sessions")
<1> DEFINE e == SetSessionStatus(db, s, "closed")
<1>1. /\ phase = "sessions" /\ db' = e
      /\ worker' = worker /\ phase' = phase /\ half' = half /\ UNCHANGED Booted
  BY DEF RecoverSession
<1>2. half = None /\ \A r \in Runs : Accepted(db, r) => IsTerminal(db, r)
  BY <1>1 DEF Recovering
<1>3. Durable(db) /\ db \in Database
  BY RecoveringDurable DEF TypeOK
<1>4. Durable(e) /\ e \in Database /\ e.artifact = db.artifact /\ e.run = db.run
  BY <1>3, ClosedDurable
<1> HIDE DEF e
<1>5. db' \in Database /\ worker' \in [Sessions -> WorkerStates]
      /\ phase' \in {"ready", "leases", "runs", "sessions"} /\ half' \in Sessions \cup {None}
  BY <1>1, <1>4 DEF TypeOK
<1>6. TypeOK'
  BY <1>1, <1>5, BootedTyped
<1>7. \A t \in Sessions : worker'[t] \notin {"live", "closing"}
                          /\ (phase' # "leases" => worker'[t] # "orphan")
  BY <1>1 DEF Recovering
<1>8. \A r \in Runs : Accepted(db', r) => IsTerminal(db', r)
  BY <1>1, <1>2, <1>4 DEF Accepted, IsTerminal
<1>9. Durable(db') /\ half' = None
  BY <1>1, <1>2, <1>4
<1>10. Recovering'
  BY <1>1, <1>7, <1>8, <1>9, BootedRecovering
<1> QED BY <1>1, <1>4, <1>6, <1>10 DEF Restarting, Booted

\* Nothing runs and nothing waits: the state in which the Runtime starts to serve.
LEMMA QuietServing ==
    ASSUME NEW st \in States, st.queue = <<>>, st.armed = {}, \A s \in Sessions : st.act[s] = Idle,
           \A s \in Sessions : st.worker[s] \notin {"live", "orphan", "recovered"},
           Durable(st.db), \A r \in Runs : Accepted(st.db, r) => IsTerminal(st.db, r),
           NEW c, \A s \in Sessions : c[s].phase = "none"
    PROVE  Good(st) /\ Fit(st, c, {}, {})
<1>1. Referenced(st.db) /\ \A s \in Sessions : Ordered(st.db, s)
  BY DEF Durable
<1>2. \A p \in Perms : st.db.perm[p].status \notin {"pending", "decided"}
  BY <1>1 DEF Durable, Referenced
<1>3. \A r \in Runs : st.db.run[r].session \in Sessions => IsTerminal(st.db, r)
  BY <1>1 DEF Referenced
<1>4. Line(st.db, st.queue)
  <2>1. \A r \in Runs : st.db.run[r].status # "queued"
    BY DEF Accepted, IsTerminal, Terminal
  <2>2. Len(<<>>) = 0
    OBVIOUS
  <2> QED BY <2>1, <2>2 DEF Line
<1>5. ASSUME NEW s \in Sessions PROVE Aright(st, s)
  <2>0. Executing(st.db, st.act[s], s) /\ Shut(st.db, st.act[s], st.worker[s], s)
    BY DEF Executing, Shut
  <2>1. Truthful(st.db, st.act[s], st.worker[s], s)
    BY DEF Truthful, Idle
  <2>2. Staged(st.act[s], st.worker[s], s)
    BY DEF Staged, Idle, Cleanup
  <2>3. Asked(st.db, st.act[s], s)
    BY <1>2 DEF Asked
  <2>4. Mine(st.db, st.act[s], s)
    BY <1>3 DEF Mine, IsTerminal, Terminal, Busy, Working
  <2>5. Timed(st.db, st.act[s], st.armed, s)
    BY <1>3 DEF Timed
  <2> QED BY <1>1, <2>0, <2>1, <2>2, <2>3, <2>4, <2>5 DEF Aright
<1>6. Good(st)
  BY <1>1, <1>4, <1>5 DEF Good
<1>7. Slots(st)
  <2>1. Active(st) = {}
    BY DEF Active
  <2>2. Load(st) = 0
    BY <2>1, FS_EmptySet DEF Load, Active
  <2>3. ASSUME NEW s \in Sessions PROVE EngineLoad(st, s) = 0
    <3>1. {t \in Sessions : st.act[t] # Idle /\ EngineOf[t] = EngineOf[s]} = {}
      OBVIOUS
    <3> QED BY <3>1, FS_EmptySet DEF EngineLoad
  <2>4. IsFiniteSet(Active(st))
    BY <2>1, FS_EmptySet
  <2> QED BY <2>2, <2>3, <2>4, RuntimeAssumption DEF Slots
<1>8. /\ \A s \in Sessions : Halting(st, s)
      /\ ClosersFit(st, c) /\ SuspendedFit(st, {}) /\ PublishingFit(st, {})
  BY DEF Halting, ClosersFit, CloserFit, SuspendedFit, PublishingFit
<1> QED BY <1>6, <1>7, <1>8 DEF Fit

\* The Runtime starts to serve: nothing runs, nothing waits.
LEMMA RecoveredRestarts ==
    ASSUME TypeOK, Recovering, Recovered
    PROVE  Restarting("ready")
<1>1. /\ phase = "sessions" /\ phase' = "ready" /\ db' = db /\ half' = half /\ UNCHANGED Booted
      /\ worker' = [s \in Sessions |-> CASE worker[s] = "recovered" -> "none"
                                         [] worker[s] = "failed" -> "unconfirmed"
                                         [] OTHER -> worker[s]]
  BY DEF Recovered
<1>2. /\ worker \in [Sessions -> WorkerStates]
      /\ \A s \in Sessions : worker[s] \notin {"live", "orphan"}
  BY <1>1 DEF TypeOK, Recovering
<1>3. ASSUME NEW s \in Sessions
      PROVE  /\ worker'[s] \in WorkerStates
             /\ worker'[s] \notin {"live", "orphan", "recovered"}
  <2>1. CASE worker[s] = "recovered"
    <3>1. worker'[s] = "none"
      BY <1>1, <2>1
    <3> QED BY <3>1 DEF WorkerStates
  <2>2. CASE worker[s] = "failed"
    <3>1. worker'[s] = "unconfirmed"
      BY <1>1, <2>2
    <3> QED BY <3>1 DEF WorkerStates
  <2>3. CASE worker[s] \notin {"recovered", "failed"}
    <3>1. worker'[s] = worker[s]
      BY <1>1, <2>3
    <3> QED BY <1>2, <2>3, <3>1
  <2> QED BY <2>1, <2>2, <2>3
<1>4. worker' \in [Sessions -> WorkerStates]
  <2> DEFINE f == [s \in Sessions |-> CASE worker[s] = "recovered" -> "none"
                                         [] worker[s] = "failed" -> "unconfirmed"
                                         [] OTHER -> worker[s]]
  <2>1. worker' = f /\ f = [s \in Sessions |-> f[s]]
    BY <1>1
  <2> HIDE DEF f
  <2>2. \A s \in Sessions : f[s] \in WorkerStates
    BY <1>3, <2>1
  <2> QED BY <2>1, <2>2
<1>5. half' = None /\ \A r \in Runs : Accepted(db', r) => IsTerminal(db', r)
  BY <1>1 DEF Recovering
<1>6. Durable(db')
  BY <1>1, RecoveringDurable
<1>7. TypeOK'
  BY <1>1, <1>4, BootedTyped DEF TypeOK
<1>8. queue' = <<>> /\ armed' = {} /\ publishing' = {} /\ suspending' = {}
      /\ act' = [s \in Sessions |-> Idle]
      /\ closer' = [s \in Sessions |-> [phase |-> "none", run |-> None]]
  BY <1>1 DEF Recovering, Booted
<1>9. /\ Here' \in States /\ Here'.queue = queue' /\ Here'.armed = armed' /\ Here'.act = act'
      /\ Here'.worker = worker' /\ Here'.db = db'
  BY <1>7 DEF TypeOK, Here, States
<1> DEFINE x == Here'
<1>10. /\ x \in States /\ x.queue = <<>> /\ x.armed = {} /\ \A s \in Sessions : x.act[s] = Idle
       /\ \A s \in Sessions : x.worker[s] \notin {"live", "orphan", "recovered"}
       /\ Durable(x.db) /\ \A r \in Runs : Accepted(x.db, r) => IsTerminal(x.db, r)
       /\ \A s \in Sessions : closer'[s].phase = "none"
  BY <1>3, <1>5, <1>6, <1>8, <1>9
<1> HIDE DEF x
<1>11. Good(x) /\ Fit(x, closer', {}, {})
  BY <1>10, QuietServing
<1>12. Serving'
  BY <1>5, <1>8, <1>11 DEF Serving, x
<1>13. act' = act
  BY <1>1 DEF Booted
<1> QED BY <1>1, <1>7, <1>12, <1>13 DEF Restarting

----------------------------------------------------------------------------
(* Every step keeps the invariant *)

\* The Runtime starts serving over an empty database.
LEMMA InitServes == Init => IInv
<1> SUFFICES ASSUME Init PROVE IInv
  OBVIOUS
<1>1. /\ db = EmptyDatabase
      /\ past = {} /\ armed = {} /\ queue = <<>> /\ pumpDue = FALSE
      /\ act = [s \in Sessions |-> Idle]
      /\ worker = [s \in Sessions |-> "none"]
      /\ installed = {} /\ suspending = {}
      /\ closer = [s \in Sessions |-> [phase |-> "none", run |-> None]]
      /\ publishing = {} /\ closed = FALSE
      /\ phase = "ready" /\ half = None /\ crashes = 0
  BY DEF Init
<1>2. db \in Database
  BY <1>1, StoreAssumption
     DEF EmptyDatabase, Database, SessionRecord, RunRecord, PermissionRecord, EventRow, Cleanup
<1>3. /\ \A r \in Runs : db.run[r].status = "absent" /\ db.run[r].session = None
                         /\ db.run[r].generation = 0 /\ ~ db.run[r].started
      /\ \A p \in Perms : db.perm[p].status = "absent"
  BY <1>1 DEF EmptyDatabase
<1>4. \A r \in Runs : ~ Accepted(db, r) /\ db.run[r].session \notin Sessions
                      /\ db.run[r].status # "queued" /\ ~ db.run[r].started
  BY <1>3, StoreAssumption DEF Accepted
<1>5. Referenced(db)
  <2>1. {r \in Runs : Accepted(db, r)} = {}
    BY <1>4
  <2>2. IsFiniteSet({r \in Runs : Accepted(db, r)})
    BY <2>1, FS_EmptySet
  <2>3. \A r \in Runs : db.run[r].generation <= 0
    BY <1>3
  <2>4. \E m \in Nat : \A r \in Runs : db.run[r].generation <= m
    BY <2>3
  <2> QED BY <1>2, <1>3, <1>4, <2>2, <2>4 DEF Referenced
<1>6. Durable(db)
  BY <1>3, <1>4, <1>5 DEF Durable, Ordered
<1>7. Idle \in ActiveRecord
  BY DEF Idle, ActiveRecord, Pcs, Cleanup
<1>8. act \in [Sessions -> ActiveRecord] /\ worker \in [Sessions -> WorkerStates]
      /\ queue \in Seq(Runs) /\ armed \subseteq Runs
  BY <1>1, <1>7 DEF WorkerStates
<1>9. /\ Here \in States /\ Here.queue = queue /\ Here.armed = armed /\ Here.act = act
      /\ Here.worker = worker /\ Here.db = db
  BY <1>2, <1>8 DEF Here, States
<1> DEFINE x == Here
<1>10. /\ x \in States /\ x.queue = <<>> /\ x.armed = {} /\ \A s \in Sessions : x.act[s] = Idle
       /\ \A s \in Sessions : x.worker[s] \notin {"live", "orphan", "recovered"}
       /\ Durable(x.db) /\ \A r \in Runs : Accepted(x.db, r) => IsTerminal(x.db, r)
       /\ \A s \in Sessions : closer[s].phase = "none"
  BY <1>1, <1>4, <1>6, <1>9
<1> HIDE DEF x
<1>11. Good(x) /\ Fit(x, closer, {}, {})
  BY <1>10, QuietServing
<1>12. Serving
  BY <1>1, <1>11 DEF Serving, x
<1>13. closer \in [Sessions -> [phase : {"none", "stop", "host", "settle"},
                                run : Runs \cup {None}]]
  BY <1>1
<1>14. RestTyped
  BY <1>1, <1>13 DEF RestTyped
<1> QED BY <1>1, <1>12, <1>14, ServedIInv DEF Served

\* The steps of execute(), and of what ends it.
LEMMA ExecuteProceeds ==
    ASSUME Served, NEW s \in Sessions, Execute(s) PROVE Proceeds
BY InspectedProceeds, InspectFailsProceeds, BeginOverdueProceeds, BeginUnavailableProceeds,
   BeginRefusedProceeds, BeginStartsProceeds, StartedProceeds, StartFailsProceeds,
   ResultRejectedProceeds, ResultArrivesProceeds, ModelsEndProceeds, ReclaimedProceeds,
   CollectedProceeds, CollectFailsProceeds, DiscardedProceeds, StopAwaitedProceeds,
   CaughtProceeds, FinallyModelsProceeds, FinallyProceeds DEF Execute

\* The steps of stop(), suspendSession() and closeSession() after their first.
LEMMA ClosingProceeds ==
    ASSUME Served, NEW s \in Sessions, Closing(s) PROVE Proceeds
BY GraceEndsProceeds, StopClosesProceeds, SuspendEndsProceeds, CloseStoppedProceeds,
   CloseReclaimedProceeds, CloseEndsProceeds DEF Closing

\* Messages of a Worker.
LEMMA MessagesProceeds ==
    ASSUME Served, NEW s \in Sessions, Messages(s) PROVE Proceeds
BY ReceiveStartedProceeds, ReceiveEventProceeds, ReceiveBindingProceeds,
   ReceivePermissionProceeds, ReceiveAppliedProceeds, ReceiveArtifactProceeds,
   ReceiveResultProceeds DEF Messages

\* Calls of clients.
LEMMA ClientProceeds ==
    ASSUME Served, Client PROVE Proceeds
BY NewSessionProceeds, SuspendProceeds, CloseBeginsProceeds, CloseAgainProceeds,
   SubmitProceeds, CancelProceeds, DecideProceeds, ShutdownProceeds DEF Client

\* A Runtime that serves goes on serving unless it crashes.
LEMMA NextProceeds ==
    ASSUME Served, Next, ~ Crash PROVE Proceeds
<1>1. phase = "ready" /\ half = None
  BY DEF Served, Serving
<1>2. CASE Client
  BY <1>2, ClientProceeds
<1>3. CASE Pump
  BY <1>3, PumpProceeds
<1>4. CASE Publisher
  BY <1>4, PublishedProceeds, PublishFailsProceeds DEF Publisher
<1>5. ~ Recovery
  BY <1>1 DEF Recovery, RecoverSession, RecoverLease, RecoverRun, LeasesRecovered, RecoverClose,
              RunsRecovered, Recovered
<1>6. CASE Clock
  BY <1>6, DeadlinePassesProceeds, TimerFiresProceeds DEF Clock
<1>7. ASSUME NEW s \in Sessions,
             \/ Execute(s) \/ Closing(s) \/ Messages(s)
             \/ WorkerFails(s) \/ \E status \in Cleanup : WorkerCloses(s, status)
      PROVE  Proceeds
  BY <1>7, ExecuteProceeds, ClosingProceeds, MessagesProceeds, WorkerFailsProceeds,
     WorkerClosesProceeds
<1> QED BY <1>2, <1>3, <1>4, <1>5, <1>6, <1>7 DEF Next

\* The steps of recovery.
LEMMA RecoveryRestarts ==
    ASSUME TypeOK, Recovering, Recovery
    PROVE  \E x \in {"leases", "runs", "sessions", "ready"} : Restarting(x)
<1>1. CASE \E s \in Sessions : RecoverSession(s)
  BY <1>1, RecoverSessionRestarts
<1>2. CASE \E s \in Sessions : \E status \in Cleanup : RecoverLease(s, status)
  BY <1>2, RecoverLeaseRestarts
<1>3. CASE \E r \in Runs : RecoverRun(r)
  BY <1>3, RecoverRunRestarts
<1>4. CASE LeasesRecovered
  BY <1>4, LeasesRecoveredRestarts
<1>5. CASE RecoverClose
  BY <1>5, RecoverCloseRestarts
<1>6. CASE RunsRecovered
  BY <1>6, RunsRecoveredRestarts
<1>7. CASE Recovered
  BY <1>7, RecoveredRestarts
<1> QED BY <1>1, <1>2, <1>3, <1>4, <1>5, <1>6, <1>7 DEF Recovery

\* A step of the program, from any state of the invariant.
LEMMA NextCases ==
    ASSUME IInv, Next
    PROVE  /\ IInv'
           /\ \/ phase = "ready" /\ Proceeds
              \/ Crash
              \/ /\ \A s \in Sessions : act[s] = Idle
                 /\ db'.artifact = db.artifact
<1>1. CASE Crash
  BY <1>1, CrashRecovers DEF IInv
<1>2. CASE phase = "ready" /\ ~ Crash
  <2>1. Served
    BY <1>2, ServedIInv
  <2>2. Proceeds
    BY <1>2, <2>1, NextProceeds
  <2>3. Served' /\ phase' = "ready"
    BY <2>2 DEF Proceeds, Served
  <2>4. (phase = "ready" => (IInv <=> Served))'
    BY ServedIInv, PTL
  <2> QED BY <1>2, <2>2, <2>3, <2>4
<1>3. CASE phase # "ready" /\ ~ Crash
  <2>1. TypeOK /\ Recovering
    BY <1>3 DEF IInv
  <2>2. Recovery
    BY <1>3, <2>1, OnlyRecovery
  <2>3. PICK x \in {"leases", "runs", "sessions", "ready"} : Restarting(x)
    BY <2>1, <2>2, RecoveryRestarts
  <2>4. IInv' /\ db'.artifact = db.artifact
    BY <2>3 DEF Restarting, IInv
  <2>5. \A s \in Sessions : act[s] = Idle
    BY <2>1 DEF Recovering
  <2> QED BY <2>4, <2>5
<1> QED BY <1>1, <1>2, <1>3

----------------------------------------------------------------------------
(* Results *)

\* The invariant of the Runtime holds in every state: of a Runtime that serves, how the
\* database, the queue, the timers, each execute() and each Worker fit together; of one
\* that recovers, what the database and the leases still owe.
THEOREM Invariance == Spec => []IInv
<1>1. Init => IInv
  BY InitServes
<1>2. IInv /\ [Next]_vars => IInv'
  <2> SUFFICES ASSUME IInv, [Next]_vars PROVE IInv'
    OBVIOUS
  <2>1. CASE Next
    BY <2>1, NextCases
  <2>2. CASE UNCHANGED vars
    <3>1. UNCHANGED <<db, queue, armed, act, worker, past, pumpDue, installed, suspending,
                      closer, publishing, closed, phase, half, crashes>>
      BY <2>2 DEF vars, core, rest
    <3>2. Here' = Here
      BY <3>1 DEF Here
    <3>3. TypeOK' /\ (Serving' <=> Serving) /\ (Recovering' <=> Recovering)
      BY <3>1, <3>2 DEF IInv, TypeOK, Serving, Recovering
    <3> QED BY <3>1, <3>3 DEF IInv
  <2> QED BY <2>1, <2>2
<1> QED BY <1>1, <1>2, PTL DEF Spec

\* Every variable of the Runtime has its type.
THEOREM TypeCorrect == Spec => []TypeOK
<1>1. IInv => TypeOK
  BY DEF IInv
<1> QED BY <1>1, Invariance, PTL

\* pump() never has more runs execute than maxConcurrency, nor more of an engine than its
\* profile allows.
THEOREM SlotLimitsHold == Spec => []SlotLimits
<1>1. IInv => SlotLimits
  <2> SUFFICES ASSUME IInv PROVE SlotLimits
    OBVIOUS
  <2>1. Slots(Here)
    <3>1. CASE phase = "ready"
      BY <3>1 DEF IInv, Serving, Fit
    <3>2. CASE phase # "ready"
      <4>1. \A s \in Sessions : Here.act[s] = Idle
        BY <3>2 DEF IInv, Recovering, Here
      <4> HIDE DEF Here
      <4>2. Active(Here) = {}
        BY <4>1 DEF Active
      <4>3. Load(Here) = 0 /\ IsFiniteSet(Active(Here))
        BY <4>2, FS_EmptySet DEF Load, Active
      <4>4. ASSUME NEW s \in Sessions PROVE EngineLoad(Here, s) = 0
        <5>1. {t \in Sessions : Here.act[t] # Idle /\ EngineOf[t] = EngineOf[s]} = {}
          BY <4>1
        <5> QED BY <5>1, FS_EmptySet DEF EngineLoad
      <4> QED BY <4>3, <4>4, RuntimeAssumption DEF Slots
    <3> QED BY <3>1, <3>2
  <2> QED BY <2>1 DEF Slots, SlotLimits
<1> QED BY <1>1, Invariance, PTL

\* An accepted run that has not ended is in the queue, once, or is the active run of its
\* Session, never both.
THEOREM NoRunLost == Spec => []NoLostRun
<1>1. IInv => NoLostRun
  <2> SUFFICES ASSUME IInv, phase = "ready"
               PROVE  \A r \in Runs :
                         /\ Pending(r) => (Queued(r) <=> act[SessionOf(r)].run # r)
                         /\ \A i, j \in DOMAIN queue : queue[i] = queue[j] => i = j
    BY DEF NoLostRun
  <2>1. Good(Here) /\ Here.db = db /\ Here.act = act /\ Here.queue = queue
    BY DEF IInv, Serving, Here
  <2>2. Line(db, queue) /\ Referenced(db) /\ queue \in Seq(Runs)
        /\ \A s \in Sessions : Executing(db, act[s], s)
    BY <2>1 DEF Good, Aright, States
  <2>3. DOMAIN queue = 1 .. Len(queue)
    BY <2>2
  <2>4. \A i, j \in DOMAIN queue : queue[i] = queue[j] => i = j
    BY <2>2, <2>3 DEF Line
  <2>5. ASSUME NEW r \in Runs, Pending(r), act[SessionOf(r)].run # r
        PROVE  Queued(r)
    BY <2>1, <2>3, <2>5, QueuedRun DEF Pending, Queued, SessionOf
  <2>6. ASSUME NEW r \in Runs, Pending(r), Queued(r)
        PROVE  act[SessionOf(r)].run # r
    <3> DEFINE s == SessionOf(r)
    <3>1. db.run[r].status = "queued"
      BY <2>2, <2>3, <2>6 DEF Line, Queued
    <3>2. s \in Sessions
      BY <2>2, <2>6 DEF Referenced, Pending, SessionOf
    <3>3. Executing(db, act[s], s)
      BY <2>2, <3>2
    <3>4. act[s] # Idle => act[s].run # r
      BY <3>1, <3>3 DEF Executing, IsTerminal, Terminal, Busy
    <3>5. act[s] = Idle => act[s].run # r
      BY StoreAssumption DEF Idle
    <3> QED BY <3>4, <3>5
  <2> QED BY <2>4, <2>5, <2>6
<1> QED BY <1>1, Invariance, PTL

\* A run that has not ended has a pending deadline timer, or is being stopped.
THEOREM DeadlinesHeld == Spec => []DeadlineHeld
<1>1. IInv => DeadlineHeld
  <2> SUFFICES ASSUME IInv, phase = "ready", NEW r \in Runs, Pending(r)
               PROVE  r \in armed \/ (act[SessionOf(r)].run = r
                                      /\ act[SessionOf(r)].stop # "none")
    BY DEF DeadlineHeld
  <2>1. Good(Here) /\ Here.db = db /\ Here.act = act /\ Here.armed = armed
    BY DEF IInv, Serving, Here
  <2>2. SessionOf(r) \in Sessions
    BY <2>1 DEF Good, Referenced, Pending, SessionOf
  <2>3. Timed(db, act[SessionOf(r)], armed, SessionOf(r))
    BY <2>1, <2>2 DEF Good, Aright
  <2> QED BY <2>3 DEF Timed, Pending, SessionOf
<1> QED BY <1>1, Invariance, PTL

\* A run of a Session starts only when the runs accepted before it have ended; crashes
\* and recovery included.
THEOREM AcceptedInOrder == Spec => []AcceptedOrder
<1>1. IInv => AcceptedOrder
  <2> SUFFICES ASSUME IInv PROVE AcceptedOrder
    OBVIOUS
  <2>1. \A s \in Sessions : Ordered(db, s)
    <3>1. CASE phase = "ready"
      BY <3>1, ServedIInv, ServedDurable DEF Durable
    <3>2. CASE phase # "ready"
      BY <3>2 DEF IInv, Recovering
    <3> QED BY <3>1, <3>2
  <2> QED BY <2>1 DEF Ordered, AcceptedOrder, RunsOf
<1> QED BY <1>1, Invariance, PTL

\* Nothing works in a closed Session: no execute(), no live Worker, and its unfinished
\* runs have not started.
THEOREM ClosedSessionsQuiet == Spec => []ClosedSessionQuiet
<1>1. IInv => ClosedSessionQuiet
  <2> SUFFICES ASSUME IInv, phase = "ready", NEW s \in Sessions,
                      db.session[s].status = "closed"
               PROVE  /\ act[s] = Idle /\ worker[s] # "live"
                      /\ \A r \in Unsettled(db, s) : db.run[r].status = "queued"
    BY DEF ClosedSessionQuiet
  <2>1. Good(Here) /\ Here.db = db /\ Here.act = act /\ Here.worker = worker
    BY DEF IInv, Serving, Here
  <2>2. Shut(db, act[s], worker[s], s) /\ Mine(db, act[s], s) /\ db \in Database
    BY <2>1 DEF Good, Aright, Referenced
  <2>3. act[s] = Idle /\ worker[s] # "live"
    BY <2>2 DEF Shut
  <2>4. ASSUME NEW r \in Unsettled(db, s) PROVE db.run[r].status = "queued"
    <3>1. r \in Runs /\ db.run[r].session = s /\ Accepted(db, r) /\ ~ IsTerminal(db, r)
      BY DEF Unsettled, RunsOf
    <3>2. act[s].run # r
      BY <2>3, <3>1, StoreAssumption DEF Idle
    <3> QED BY <2>1, <3>1, <3>2, QueuedRun
  <2> QED BY <2>3, <2>4
<1> QED BY <1>1, Invariance, PTL

\* What a run that lost its Worker records of the cleanup is what the host reported.
THEOREM CleanupRecorded == Spec => []CleanupTruthful
<1>1. IInv => CleanupTruthful
  <2> SUFFICES ASSUME IInv, NEW s \in Sessions, At(s, "final"),
                      Lost(s) \/ (DriverOf[s] = "cli" /\ act[s].result \in Results)
               PROVE  db.run[act[s].run].cleanup = HostStatus(worker[s])
    BY DEF CleanupTruthful
  <2>1. phase = "ready"
    BY DEF IInv, Recovering, At, Idle
  <2>2. Good(Here) /\ Here.db = db /\ Here.act = act /\ Here.worker = worker
    BY <2>1 DEF IInv, Serving, Here
  <2>3. Truthful(db, act[s], worker[s], s)
    BY <2>2 DEF Good, Aright
  <2> QED BY <2>3 DEF Truthful, At, Lost
<1> QED BY <1>1, Invariance, PTL

\* A Session whose Worker is being released runs nothing and has nothing to run.
THEOREM SuspendedIsIdle == Spec => []SuspendedIdle
<1>1. IInv => SuspendedIdle
  <2> SUFFICES ASSUME IInv, NEW s \in suspending
               PROVE  act[s] = Idle /\ Unsettled(db, s) = {}
    BY DEF SuspendedIdle
  <2>1. phase = "ready"
    BY DEF IInv, Recovering
  <2>2. SuspendedFit(Here, suspending) /\ Here.db = db /\ Here.act = act
    BY <2>1 DEF IInv, Serving, Fit, Here
  <2> QED BY <2>2 DEF SuspendedFit
<1> QED BY <1>1, Invariance, PTL

\* A permission that is open belongs to the active run, which its Worker has started.
THEOREM OpenPermissionsLive == Spec => []OpenPermissionLive
<1>1. IInv => OpenPermissionLive
  <2> SUFFICES ASSUME IInv, phase = "ready", NEW p \in Perms,
                      db.perm[p].status \in {"pending", "decided"}
               PROVE  LET r == db.perm[p].run IN
                      Pending(r) /\ act[SessionOf(r)].run = r /\ act[SessionOf(r)].handle
    BY DEF OpenPermissionLive
  <2> DEFINE r == db.perm[p].run
             s == SessionOf(r)
  <2>1. Good(Here) /\ Here.db = db /\ Here.act = act
    BY DEF IInv, Serving, Here
  <2>2. r \in Runs /\ Accepted(db, r) /\ s \in Sessions
    BY <2>1 DEF Good, Referenced, SessionOf
  <2>3. Asked(db, act[s], s)
    BY <2>1, <2>2 DEF Good, Aright
  <2>4. act[s].run = r /\ InFlight(act[s]) /\ act[s].handle
    BY <2>3 DEF Asked, SessionOf
  <2>5. ~ IsTerminal(db, r)
    BY <2>1, <2>2, <2>4, ActiveRun
  <2> QED BY <2>2, <2>4, <2>5 DEF Pending
<1> QED BY <1>1, Invariance, PTL

\* The first reason for which a run is stopped stays its reason, and is what the run ends
\* with, whatever its Worker reports later.
THEOREM FirstStopStands == Spec => FirstStopWins
<1>1. IInv /\ [Next]_vars =>
        (\A s \in Sessions :
          LET a == act[s]
              r == a.run IN
          a.stop # "none" /\ phase' = "ready" =>
              /\ act'[s].run = r => act'[s].stop = a.stop
              /\ ~ IsTerminal(db, r) /\ IsTerminal(db', r) =>
                    db'.run[r].status = a.stop)
  <2> SUFFICES ASSUME IInv, [Next]_vars, NEW s \in Sessions,
                      act[s].stop # "none", phase' = "ready"
               PROVE  /\ act'[s].run = act[s].run => act'[s].stop = act[s].stop
                      /\ ~ IsTerminal(db, act[s].run) /\ IsTerminal(db', act[s].run) =>
                            db'.run[act[s].run].status = act[s].stop
    OBVIOUS
  <2>1. CASE UNCHANGED vars
    BY <2>1 DEF vars, core
  <2>2. CASE Next
    <3>1. act[s] # Idle
      BY DEF Idle
    <3>2. ~ Crash
      BY DEF Crash
    <3>3. Moves(Here, Here')
      BY <2>2, <3>1, <3>2, NextCases DEF Proceeds
    <3>4. /\ Here.act = act /\ Here.db = db
          /\ (Here').act = act' /\ (Here').db = db'
      BY DEF Here
    <3> QED BY <3>3, <3>4 DEF Moves
  <2> QED BY <2>1, <2>2
<1> QED BY <1>1, Invariance, PTL DEF Spec, FirstStopWins

\* An artifact is registered only for a run that has not ended and is not being stopped.
THEOREM NoArtifactLate == Spec => NoArtifactAfterStop
<1>1. IInv /\ [Next]_vars =>
        (\A a \in Artifacts :
          db.artifact[a] # db'.artifact[a] =>
              LET r == db'.artifact[a] IN
              ~ IsTerminal(db, r) /\ act[SessionOf(r)].stop = "none")
  <2> SUFFICES ASSUME IInv, [Next]_vars, NEW f \in Artifacts,
                      db.artifact[f] # db'.artifact[f]
               PROVE  /\ ~ IsTerminal(db, db'.artifact[f])
                      /\ act[SessionOf(db'.artifact[f])].stop = "none"
    OBVIOUS
  <2>1. Next /\ db'.artifact # db.artifact
    BY DEF vars, core
  <2>2. ~ Crash
    BY <2>1 DEF Crash
  <2>3. Moves(Here, Here')
    BY <2>1, <2>2, NextCases DEF Proceeds
  <2>4. /\ Here.act = act /\ Here.db = db
        /\ (Here').act = act' /\ (Here').db = db'
    BY DEF Here
  <2> QED BY <2>3, <2>4 DEF Moves, SessionOf
<1> QED BY <1>1, Invariance, PTL DEF Spec, NoArtifactAfterStop

==============================================================================

----------------------------- MODULE Workflows -----------------------------
(***************************************************************************)
(* WorkflowService (packages/runtime, application/workflows.ts) over the   *)
(* WorkflowStore: a planner run proposes steps, a user approves them, and  *)
(* one task per workflow executes the steps as runs of their own Sessions. *)
(*                                                                         *)
(* A step of the model is what runs between two awaits that leave the      *)
(* event loop: a poll of waitRun, the return of closeSession, an HTTP      *)
(* handler.  Awaiting HubApplication.cancel only yields to microtasks,     *)
(* because Runtime.stop does not wait for the run, so it does not split a  *)
(* step.  The process may also die between two writes of one step.         *)
(*                                                                         *)
(* The Runtime is its interface: a run ends by itself or after cancel, a   *)
(* closeSession returns after the run of the Session has settled, or       *)
(* throws; module Runtime shows that runs end.                             *)
(*                                                                         *)
(* Abstracted: prompts, outputs and texts, engine scores (a selection      *)
(* exists or not), error messages, times.                                  *)
(***************************************************************************)
EXTENDS Integers, FiniteSets, FiniteSetsExt

CONSTANTS
    Workflows,    \* workflow identities
    N,            \* steps of a plan, in the order of its array
    Planner,      \* the planning run
    MaxStarts,    \* bound: restarts of the process
    MaxFaults     \* bound: refused writes and failed cleanups

Steps == 1 .. N
Jobs == Steps \cup {Planner}

\* A Session is <<job, n>>: approving again after a crash creates a second one.
Sessions == Jobs \X (1 .. MaxStarts + 1)

ASSUME WorkflowAssumption ==
    N \in Nat \ {0} /\ Planner \notin Steps /\ MaxStarts \in Nat /\ MaxFaults \in Nat

Terminal == {"completed", "failed", "cancelled", "interrupted"}
Outcomes == {"completed", "incomplete", "failed", "cancelled", "interrupted"}
    \* of a run; "incomplete" is completed without its declared outputs, "failed" includes timed_out

VARIABLES
    wf,           \* each workflow: its stored record, its Sessions and runs, its task
    phase,        \* of the process: "up", "closing" or "down"
    awaited,      \* tasks that close() waits for
    failure,      \* failure is set: the service takes no more requests
    starts, faults \* bounds

vars == <<wf, phase, awaited, failure, starts, faults>>

\* parseWorkflowPlan accepts a graph without cycles: every non-empty set of steps has one
\* that depends on no other step of the set.
Acyclic(deps) ==
    \A S \in (SUBSET Steps) \ {{}} : \E x \in S : deps[x] \cap S = {}

Plans == {deps \in [Steps -> SUBSET Steps] : Acyclic(deps)}

NoPlan == [x \in Steps |-> {}]

Absent ==
    [status |-> "absent", approved |-> FALSE,
     steps |-> [x \in Steps |-> "none"], deps |-> NoPlan,
     bound |-> [j \in Jobs |-> 0],            \* the n of sessionId, 0: none yet
     ran |-> {},                              \* jobs whose runId is stored
     session |-> [t \in Sessions |-> "none"],
     run |-> [j \in Jobs |-> "none"],
     tools |-> FALSE,                         \* a tool event of the planner is stored
     pc |-> "idle", at |-> 1, stale |-> FALSE, \* the task; the status it read last was cancelling
     waits |-> {},                            \* Sessions the task is closing
     owned |-> {},                            \* ownedSessions
     asked |-> FALSE]                         \* history: a cancellation was stored

Init ==
    /\ wf = [w \in Workflows |-> Absent]
    /\ phase = "up" /\ awaited = {} /\ failure = FALSE
    /\ starts = 0 /\ faults = 0

----------------------------------------------------------------------------
(* The Runtime, as the service sees it *)

Ended(p, j) == p.run[j] \in Outcomes
Busy(p, j) == p.run[j] \in {"active", "stopping"}
Bound(p, j) == <<j, p.bound[j]>>

\* createSession and ownSession; the record names it once saved.
NewSession(p, j, n) ==
    [p EXCEPT !.session[<<j, n>>] = "open", !.owned = @ \cup {<<j, n>>}]

Bind(p, j, n) == [NewSession(p, j, n) EXCEPT !.bound[j] = n]

\* Runtime.cancel: an unfinished run is stopped, an ended one left alone.
CancelRun(p, j) == IF p.run[j] = "active" THEN [p EXCEPT !.run[j] = "stopping"] ELSE p

\* Runtime.closeSession up to its first await, for each Session of T.
CloseCall(p, T, pc) ==
    [p EXCEPT
       !.session = [t \in Sessions |->
           IF t \in T /\ p.session[t] # "closed" THEN "closing" ELSE p.session[t]],
       !.run = [j \in Jobs |->
           IF Bound(p, j) \in T /\ p.run[j] = "active" THEN "stopping" ELSE p.run[j]],
       !.pc = pc, !.waits = T]

\* Promise.allSettled has settled; some closeSession may have thrown ("stuck").
Returned(p) == \A t \in p.waits : p.session[t] \in {"closed", "stuck"}
AllClosed(p) == \A t \in p.waits : p.session[t] = "closed"

----------------------------------------------------------------------------
(* The stored record and the task *)

\* Mutant: only what the record names.
OwnSessions_Recorded(p) == {Bound(p, j) : j \in {i \in Jobs : p.bound[i] # 0}}

\* closeOwnedSessions: what the process created and what the record names.
OwnSessions(p) == p.owned \cup {Bound(p, j) : j \in {i \in Jobs : p.bound[i] # 0}}

SetSteps(p, from, to) ==
    [p EXCEPT !.steps = [x \in Steps |-> IF p.steps[x] = from THEN to ELSE p.steps[x]]]

\* applyResult, given the run it is applied to.
ResultOf(old, outcome) ==
    CASE outcome \notin Outcomes -> old
      [] outcome = "incomplete" -> "failed"
      [] OTHER -> outcome

ApplyResult(p, x) == [p EXCEPT !.steps[x] = ResultOf(@, p.run[x])]

\* The task ends; launch's finally forgets it and its Sessions.
TaskDone(p) ==
    [p EXCEPT !.pc = "idle", !.waits = {}, !.owned = {}, !.at = 1, !.stale = FALSE]

\* finishCancelled up to closeSessions, and after it.
CancelStarts(p, pc) == CloseCall(p, OwnSessions(p), pc)

\* Mutant: steps that never ran are left as they are.
CancelEnds_KeepsPending(p) ==
    [p EXCEPT !.status = "cancelled",
              !.steps = [x \in Steps |->
                  IF x \in p.ran THEN ResultOf(p.steps[x], p.run[x]) ELSE p.steps[x]]]

CancelEnds(p) ==
    [p EXCEPT !.status = "cancelled",
              !.steps = [x \in Steps |->
                  IF x \in p.ran THEN ResultOf(p.steps[x], p.run[x])
                  ELSE IF p.steps[x] = "pending" THEN "cancelled" ELSE p.steps[x]]]

\* launch's handler for an operation that rejected.
Caught(p, closing) ==
    IF p.status = "cancelling" /\ ~ closing
    THEN CancelStarts(p, "caughtCancel")
    ELSE LET q == SetSteps([p EXCEPT !.status = IF closing THEN "interrupted" ELSE "failed"],
                           "pending", "blocked")
         IN CloseCall(q, OwnSessions(q), "finalClose")

\* The same when its own write is refused as well.
CaughtUnsaved(p) == CloseCall(p, OwnSessions(p), "finalClose")

\* Mutant: the dependencies are not looked at.
Ready_AnyPending(p) == {x \in Steps : p.steps[x] = "pending"}

\* The next step to submit: the first pending one whose dependencies have completed.
Ready(p) ==
    {x \in Steps : p.steps[x] = "pending" /\ \A d \in p.deps[x] : p.steps[d] = "completed"}

Submitted(p, x) ==
    [p EXCEPT !.run[x] = "active", !.ran = @ \cup {x}, !.steps[x] = "running",
              !.pc = "stepPoll", !.at = x]

\* Mutant: the loop trusts the check made after the previous step.
ExecuteTurn_TrustsCheck(p, closing) ==
    IF closing THEN {Caught(p, closing)}
    ELSE IF Ready(p) = {} THEN {CloseCall(p, OwnSessions(p), "endClose")}
    ELSE {Submitted(p, Min(Ready(p))), Caught(p, closing)}

\* One turn of execute's loop, up to its next await; submit may throw.
ExecuteTurn(p, closing) ==
    IF p.status = "cancelling" THEN {CancelStarts(p, "cancelClose")}
    ELSE IF closing THEN {Caught(p, closing)}
    ELSE IF Ready(p) = {} THEN {CloseCall(p, OwnSessions(p), "endClose")}
    ELSE {Submitted(p, Min(Ready(p))), Caught(p, closing)}

Closing == phase = "closing"
Alive == phase # "down"
Running(w) == Alive /\ wf[w].pc # "idle"

\* Every handler and every wake-up of a task of w that writes p.
Put(w, p) ==
    /\ wf' = [wf EXCEPT ![w] = p]
    /\ awaited' = IF p.pc = "idle" THEN awaited \ {w} ELSE awaited
    /\ UNCHANGED <<phase, starts>>

Quiet == UNCHANGED <<failure, faults>>

----------------------------------------------------------------------------
(* Handlers *)

\* create: a known key returns its record, so each w is created once.  The task of plan()
\* runs up to its first poll; createSession or submit may throw.
Planning == [Absent EXCEPT !.status = "planning"]
PlannerBound == Bind(Planning, Planner, starts + 1)
PlannerRuns == [PlannerBound EXCEPT !.run[Planner] = "active"]

Create(w) ==
    /\ phase = "up" /\ ~ failure
    /\ wf[w].status = "absent"
    /\ \E p \in {[PlannerRuns EXCEPT !.ran = {Planner}, !.pc = "planPoll"],
                 Caught(Planning, FALSE), Caught(PlannerBound, FALSE)} : Put(w, p)
    /\ Quiet

\* approve creates and saves one Session per step, in order, before the first run.
Approvable(w) ==
    /\ phase = "up" /\ ~ failure
    /\ wf[w].status = "draft" /\ ~ wf[w].approved

FirstBound(p, k, n) ==
    [p EXCEPT !.session = [t \in Sessions |->
                  IF t[1] \in 1 .. k /\ t[2] = n THEN "open" ELSE p.session[t]],
              !.owned = @ \cup {<<x, n>> : x \in 1 .. k},
              !.bound = [j \in Jobs |-> IF j \in 1 .. k THEN n ELSE p.bound[j]]]

Approved(p, n) ==
    [FirstBound(p, N, n) EXCEPT !.approved = TRUE, !.status = "running"]

Approve(w) ==
    /\ Approvable(w)
    /\ wf[w].bound[1] = 0
    /\ \E p \in ExecuteTurn(Approved(wf[w], starts + 1), FALSE) : Put(w, p)
    /\ Quiet

\* createSession throws for step k: the plan fails, its Sessions are closed.
ApproveRefused(w) ==
    /\ Approvable(w)
    /\ wf[w].bound[1] = 0
    /\ \E k \in Steps :
          LET p == [FirstBound(wf[w], k - 1, starts + 1) EXCEPT !.status = "failed"]
          IN Put(w, CloseCall(p, OwnSessions(p), "failClose"))
    /\ Quiet

\* The database refuses to save the Session of step k, and perhaps the failed status too.
ApproveUnsaved(w) ==
    /\ Approvable(w)
    /\ wf[w].bound[1] = 0
    /\ faults < MaxFaults /\ faults' = faults + 1
    /\ \E k \in Steps :
          \/ LET p == [FirstBound(wf[w], k, starts + 1) EXCEPT !.status = "failed"]
             IN Put(w, CloseCall(p, OwnSessions(p), "failClose")) /\ UNCHANGED failure
          \/ LET p == NewSession(FirstBound(wf[w], k - 1, starts + 1), k, starts + 1)
             IN Put(w, CloseCall(p, OwnSessions(p), "failClose")) /\ failure' = TRUE

\* A draft whose approval was cut by a crash already names a Session for its first step.
\* The Store refuses another one, and refuses the failed status written with it.
ApproveConflict(w) ==
    /\ Approvable(w)
    /\ wf[w].bound[1] # 0
    /\ LET p == NewSession(wf[w], 1, starts + 1)
       IN Put(w, CloseCall(p, OwnSessions(p) \ {Bound(p, 1)}, "failClose"))
    /\ failure' = TRUE
    /\ UNCHANGED faults

\* cancel: the request is stored, then the current runs are cancelled.
CancelRuns(p) ==
    [p EXCEPT !.run = [j \in Jobs |->
        IF p.run[j] = "active" /\ j \in p.ran /\ (j = Planner \/ p.steps[j] = "running")
        THEN "stopping" ELSE p.run[j]]]

\* Mutant: a finished plan is cancelled too.
Cancel_Ended(w) ==
    /\ Alive
    /\ wf[w].status # "absent"
    /\ LET p == CancelRuns([wf[w] EXCEPT !.status = "cancelling", !.asked = TRUE])
       IN Put(w, IF p.pc = "idle" THEN CancelStarts(p, "cancelClose") ELSE p)
    /\ Quiet

Cancel(w) ==
    /\ Alive
    /\ wf[w].status \notin Terminal \cup {"absent"}
    /\ LET p == CancelRuns([wf[w] EXCEPT !.status = "cancelling", !.asked = TRUE])
       IN Put(w, IF p.pc = "idle" THEN CancelStarts(p, "cancelClose") ELSE p)
    /\ Quiet

----------------------------------------------------------------------------
(* The task of a workflow *)

\* One iteration of waitRun while the run goes on.
PollWaits(w, j) ==
    /\ ~ Ended(wf[w], j)
    /\ Closing \/ wf[w].status = "cancelling" \/ (j = Planner /\ wf[w].tools)
    /\ wf[w].run[j] = "active"
    /\ Put(w, CancelRun(wf[w], j))
    /\ Quiet

\* waitRun returns the planner's run, or throws because it used a tool; the plan is parsed
\* and every step selects its engine, which may throw.
PlanEnded(p) ==
    IF p.tools THEN {Caught(p, Closing)}
    ELSE IF p.status = "cancelling" THEN {CancelStarts(p, "cancelClose")}
    ELSE IF Closing \/ p.run[Planner] # "completed" THEN {Caught(p, Closing)}
    ELSE {CloseCall(p, {Bound(p, Planner)}, "planClose"), Caught(p, FALSE)}

\* Mutant: the run is read once, before the loop.
PollPlanner_ReadsOnce(w) ==
    /\ Running(w) /\ wf[w].pc = "planPoll"
    /\ PollWaits(w, Planner)

PollPlanner(w) ==
    /\ Running(w) /\ wf[w].pc = "planPoll"
    /\ \/ PollWaits(w, Planner)
       \/ /\ Ended(wf[w], Planner)
          /\ \E p \in PlanEnded(wf[w]) : Put(w, p)
          /\ Quiet

\* The planning Session is closed; the plan becomes a draft unless it was cancelled.
PlanClosed(w) ==
    /\ Running(w) /\ wf[w].pc = "planClose" /\ Returned(wf[w])
    /\ LET p == wf[w]
       IN IF ~ AllClosed(p) THEN Put(w, Caught(p, Closing))
          ELSE IF p.status = "cancelling" THEN Put(w, CancelStarts(p, "cancelClose"))
          ELSE \E deps \in Plans :
                  Put(w, TaskDone([p EXCEPT !.status = "draft", !.deps = deps,
                                            !.steps = [x \in Steps |-> "pending"]]))
    /\ Quiet

\* execute: waitRun returns, the result is saved, and the Session of the step is closed.
PollStep(w) ==
    /\ Running(w) /\ wf[w].pc = "stepPoll"
    /\ \/ PollWaits(w, wf[w].at)
       \/ /\ Ended(wf[w], wf[w].at)
          /\ LET p == [ApplyResult(wf[w], wf[w].at)
                         EXCEPT !.stale = (wf[w].status = "cancelling")]
             IN Put(w, CloseCall(p, {Bound(p, p.at)}, "stepClose"))
          /\ Quiet

\* closeSession has returned: execute still uses the status it read before it.
StepFailed(p) ==
    LET q == SetSteps([p EXCEPT !.status = "failed"], "pending", "blocked")
    IN CloseCall(q, OwnSessions(q), "failClose")

AfterStep(p) ==
    IF ~ AllClosed(p) \/ Closing THEN {Caught(p, Closing)}
    ELSE IF p.stale THEN {CancelStarts(p, "cancelClose")}
    ELSE IF p.steps[p.at] # "completed" THEN {StepFailed(p)}
    ELSE ExecuteTurn(p, FALSE)

StepClosed(w) ==
    /\ Running(w) /\ wf[w].pc = "stepClose" /\ Returned(wf[w])
    /\ \E p \in AfterStep(wf[w]) : Put(w, p)
    /\ Quiet

\* No step is left to submit and all Sessions are closed.
Concluded(p) ==
    IF \A x \in Steps : p.steps[x] = "completed"
    THEN [p EXCEPT !.status = "completed"]
    ELSE SetSteps([p EXCEPT !.status = "failed"], "pending", "blocked")

EndClosed(w) ==
    /\ Running(w) /\ wf[w].pc = "endClose" /\ Returned(wf[w])
    /\ LET p == wf[w]
       IN Put(w, IF ~ AllClosed(p) THEN Caught(p, Closing)
                 ELSE IF p.status = "cancelling" THEN CancelStarts(p, "cancelClose")
                 ELSE TaskDone(Concluded(p)))
    /\ Quiet

\* The Sessions of a failed plan are closed (execute, approve).
FailClosed(w) ==
    /\ Running(w) /\ wf[w].pc = "failClose" /\ Returned(wf[w])
    /\ Put(w, IF AllClosed(wf[w]) THEN TaskDone(wf[w]) ELSE Caught(wf[w], Closing))
    /\ Quiet

CancelClosed(w) ==
    /\ Running(w) /\ wf[w].pc = "cancelClose" /\ Returned(wf[w])
    /\ Put(w, IF AllClosed(wf[w]) THEN TaskDone(CancelEnds(wf[w])) ELSE Caught(wf[w], Closing))
    /\ Quiet

\* finishCancelled inside launch's handler: a second cleanup failure marks the service.
CaughtCancelClosed(w) ==
    /\ Running(w) /\ wf[w].pc = "caughtCancel" /\ Returned(wf[w])
    /\ LET p == IF AllClosed(wf[w]) THEN CancelEnds(wf[w]) ELSE wf[w]
       IN Put(w, CloseCall(p, OwnSessions(p), "finalClose"))
    /\ failure' = (failure \/ ~ AllClosed(wf[w]))
    /\ UNCHANGED faults

FinalClosed(w) ==
    /\ Running(w) /\ wf[w].pc = "finalClose" /\ Returned(wf[w])
    /\ Put(w, TaskDone(wf[w]))
    /\ failure' = (failure \/ ~ AllClosed(wf[w]))
    /\ UNCHANGED faults

\* The database refuses the read or write a wake-up makes; launch's handler may or may not
\* get its own write through.  A submitted step may be left unrecorded.
Refusable(p) ==
    \/ p.pc = "stepPoll" /\ Ended(p, p.at)
    \/ p.pc \in {"planClose", "stepClose", "endClose", "cancelClose"} /\ Returned(p)

Unrecorded(p) ==
    IF p.pc = "stepClose" /\ AllClosed(p) /\ ~ Closing /\ p.status # "cancelling"
          /\ p.steps[p.at] = "completed" /\ Ready(p) # {}
    THEN {[p EXCEPT !.run[Min(Ready(p))] = "active"]} ELSE {}

SaveRefused(w) ==
    /\ Running(w) /\ faults < MaxFaults /\ faults' = faults + 1
    /\ \/ /\ Refusable(wf[w])
          /\ \E p \in {wf[w]} \cup Unrecorded(wf[w]) :
                \/ Put(w, Caught(p, Closing)) /\ UNCHANGED failure
                \/ Put(w, CaughtUnsaved(p)) /\ failure' = TRUE
       \/ /\ wf[w].pc = "caughtCancel" /\ Returned(wf[w])
          /\ Put(w, CaughtUnsaved(wf[w])) /\ failure' = TRUE

----------------------------------------------------------------------------
(* The Runtime moves *)

RunEnds(w, j) ==
    /\ Alive
    /\ \E outcome \in CASE wf[w].run[j] = "active" ->
                                {"completed", "failed"} \cup
                                   (IF j = Planner THEN {} ELSE {"incomplete"})
                        [] wf[w].run[j] = "stopping" -> {"cancelled", "failed"}
                        [] OTHER -> {} :
          Put(w, [wf[w] EXCEPT !.run[j] = outcome])
    /\ Quiet

\* The planner's engine reports a tool call or asks for a permission.
UseTool(w) ==
    /\ Alive /\ wf[w].run[Planner] = "active" /\ ~ wf[w].tools
    /\ Put(w, [wf[w] EXCEPT !.tools = TRUE])
    /\ Quiet

SessionCloses(w, t) ==
    /\ Alive /\ wf[w].session[t] = "closing"
    /\ t = Bound(wf[w], t[1]) => ~ Busy(wf[w], t[1])
    /\ Put(w, [wf[w] EXCEPT !.session[t] = "closed"])
    /\ Quiet

\* closeSession throws: the Worker's cleanup is not confirmed.
SessionStuck(w, t) ==
    /\ Alive /\ wf[w].session[t] = "closing"
    /\ faults < MaxFaults /\ faults' = faults + 1
    /\ Put(w, [wf[w] EXCEPT !.session[t] = "stuck"])
    /\ UNCHANGED failure

----------------------------------------------------------------------------
(* The process *)

\* close: admission stops, the runs of live tasks are cancelled, the tasks awaited.
CloseService ==
    /\ phase = "up" /\ phase' = "closing"
    /\ LET live == {w \in Workflows : wf[w].pc # "idle"}
       IN /\ awaited' = live
          /\ wf' = [w \in Workflows |-> IF w \in live THEN CancelRuns(wf[w]) ELSE wf[w]]
    /\ UNCHANGED <<failure, starts, faults>>

\* What is left of a workflow in a dead process.
Dead(p) ==
    [TaskDone(p) EXCEPT
        !.session = [t \in Sessions |->
            IF p.session[t] = "closing" THEN "stuck" ELSE p.session[t]]]

Down(all) ==
    /\ phase' = "down" /\ awaited' = {}
    /\ wf' = [w \in Workflows |-> Dead(all[w])]
    /\ UNCHANGED <<failure, starts, faults>>

\* close() returns; Runtime.close then cancels what still runs.
CloseReturns ==
    /\ Closing /\ awaited = {}
    /\ Down([w \in Workflows |->
          [wf[w] EXCEPT !.run = [j \in Jobs |->
              IF Busy(wf[w], j) THEN "cancelled" ELSE wf[w].run[j]]]])

Crash == Alive /\ starts < MaxStarts /\ Down(wf)

\* The process dies between two writes of one handler.
DiesAs(w, p) == Alive /\ starts < MaxStarts /\ Down([wf EXCEPT ![w] = p])

DiesInCreate(w) ==
    /\ phase = "up" /\ ~ failure /\ wf[w].status = "absent"
    /\ \E p \in {Planning, PlannerBound, PlannerRuns} : DiesAs(w, p)

DiesInApprove(w) ==
    /\ Approvable(w) /\ wf[w].bound[1] = 0
    /\ \/ \E k \in Steps : DiesAs(w, FirstBound(wf[w], k, starts + 1))
       \/ LET p == Approved(wf[w], starts + 1)
          IN DiesAs(w, [p EXCEPT !.run[Min(Ready(p))] = "active"])

DiesInTurn(w) ==
    /\ Running(w) /\ wf[w].pc = "stepClose" /\ Returned(wf[w])
    /\ \E p \in Unrecorded(wf[w]) : DiesAs(w, p)

\* The Runtime's constructor interrupts unfinished runs and closes their Sessions.
Recovered(p) ==
    [p EXCEPT !.session = [t \in Sessions |->
                  IF t = Bound(p, t[1]) /\ Busy(p, t[1]) THEN "closed" ELSE p.session[t]],
              !.run = [j \in Jobs |-> IF Busy(p, j) THEN "interrupted" ELSE p.run[j]]]

\* Mutant: only recorded runs are looked at.
Adopted_Recorded(p) == p

\* reconcile: submitted runs are adopted by their keys, their results applied, and what is
\* not complete is interrupted.
Adopted(p) ==
    [p EXCEPT !.ran = @ \cup {j \in Jobs : p.bound[j] # 0 /\ p.run[j] # "none"}]

Reconciled(p) ==
    IF p.status \in Terminal \cup {"draft", "absent"} THEN p
    ELSE LET a == Adopted(p)
             q == [a EXCEPT !.steps = [x \in Steps |->
                      LET s == IF x \in a.ran THEN ResultOf(a.steps[x], a.run[x])
                               ELSE a.steps[x]
                      IN CASE s = "running" -> "interrupted"
                           [] s = "pending" -> "blocked"
                           [] OTHER -> s]]
         IN [q EXCEPT !.status = IF \A x \in Steps : q.steps[x] = "completed"
                                 THEN "completed" ELSE "interrupted"]

Start ==
    /\ phase = "down" /\ starts < MaxStarts
    /\ phase' = "up" /\ starts' = starts + 1 /\ failure' = FALSE
    /\ wf' = [w \in Workflows |-> Reconciled(Recovered(wf[w]))]
    /\ UNCHANGED <<awaited, faults>>

Wake(w) ==
    \/ PollPlanner(w) \/ PlanClosed(w)
    \/ PollStep(w) \/ StepClosed(w) \/ EndClosed(w) \/ FailClosed(w)
    \/ CancelClosed(w) \/ CaughtCancelClosed(w) \/ FinalClosed(w)

Next ==
    \/ \E w \in Workflows :
          \/ Create(w) \/ Approve(w) \/ ApproveRefused(w) \/ ApproveUnsaved(w) \/ ApproveConflict(w)
          \/ Cancel(w) \/ Wake(w) \/ SaveRefused(w)
          \/ \E j \in Jobs : RunEnds(w, j)
          \/ UseTool(w)
          \/ \E t \in Sessions : SessionCloses(w, t) \/ SessionStuck(w, t)
          \/ DiesInCreate(w) \/ DiesInApprove(w) \/ DiesInTurn(w)
    \/ CloseService \/ CloseReturns \/ Crash \/ Start

Spec == Init /\ [][Next]_vars

\* Timers fire, runs end (module Runtime) and a close returns or throws.
Fairness ==
    /\ \A w \in Workflows :
          /\ WF_vars(Wake(w))
          /\ \A j \in Jobs : WF_vars(RunEnds(w, j))
          /\ \A t \in Sessions : WF_vars(SessionCloses(w, t))
    /\ WF_vars(CloseReturns)

FairSpec == Spec /\ Fairness

----------------------------------------------------------------------------
(* Safety *)

Record ==
    [status : Terminal \cup {"absent", "planning", "draft", "running", "cancelling"},
     approved : BOOLEAN,
     steps : [Steps -> Terminal \cup {"none", "pending", "running", "blocked"}],
     deps : Plans,
     bound : [Jobs -> 0 .. MaxStarts + 1], ran : SUBSET Jobs,
     session : [Sessions -> {"none", "open", "closing", "stuck", "closed"}],
     run : [Jobs -> Outcomes \cup {"none", "active", "stopping"}],
     tools : BOOLEAN,
     pc : {"idle", "planPoll", "planClose", "stepPoll", "stepClose", "endClose", "failClose",
           "cancelClose", "caughtCancel", "finalClose"},
     at : Steps, stale : BOOLEAN, waits : SUBSET Sessions, owned : SUBSET Sessions,
     asked : BOOLEAN]

TypeOK ==
    /\ \A w \in Workflows : wf[w] \in Record
    /\ phase \in {"up", "closing", "down"} /\ awaited \subseteq Workflows
    /\ failure \in BOOLEAN /\ starts \in 0 .. MaxStarts /\ faults \in 0 .. MaxFaults

\* A plan writes one directory: at most one of its runs is unfinished at any time, and a
\* step has run only after all it depends on had completed (execute).
StepsInOrder ==
    /\ TypeOK
    /\ \A w \in Workflows : LET p == wf[w] IN
       /\ Cardinality({j \in Jobs : Busy(p, j)}) <= 1
       /\ \A x \in Steps : p.run[x] # "none" =>
             p.run[Planner] = "completed" /\ \A d \in p.deps[x] : p.run[d] = "completed"

\* Every run submitted for a workflow is found again after a restart, whichever write the
\* process died before (reconcile).
RunsAdopted ==
    \A w \in Workflows :
       phase = "up" /\ wf[w].pc = "idle" /\ faults = 0
       => \A j \in Jobs : wf[w].run[j] # "none" => j \in wf[w].ran

\* The record of an ended plan tells what its runs did: completed means that every step's
\* run completed with its outputs, and no step is left pending or running (execute,
\* finishCancelled, reconcile).
RecordTruthful ==
    \A w \in Workflows : LET p == wf[w] IN
       /\ p.status = "completed" => \A x \in Steps : p.run[x] = "completed"
       /\ p.status \in Terminal /\ p.approved /\ faults = 0
          => \A x \in Steps : p.steps[x] \notin {"pending", "running"}

\* No Session outlives its task: when no task works on a plan, closing has been tried for
\* every Session this process created for it, whichever step or write failed
\* (closeOwnedSessions).
SessionsReleased ==
    \A w \in Workflows : Alive /\ wf[w].pc = "idle" =>
       \A j \in Jobs : wf[w].session[<<j, starts + 1>>] \in {"none", "stuck", "closed"}

\* No run is submitted for a plan once its cancellation is stored or the service is
\* closing, nor for a step of a plan that is not approved.
StartsWhileWanted ==
    [][\A w \in Workflows : \A j \in Jobs :
          wf[w].run[j] = "none" /\ wf'[w].run[j] # "none" =>
             /\ phase = "up" /\ ~ wf[w].asked
             /\ j \in Steps => wf'[w].approved]_vars

\* The result of a plan is final; only a plan that failed while its Sessions could not be
\* closed is recorded as interrupted by a shutdown.
ResultFinal ==
    [][\A w \in Workflows :
          wf[w].status \in Terminal /\ wf'[w].status # wf[w].status =>
             wf[w].status = "failed" /\ wf'[w].status = "interrupted"
             /\ Closing /\ ~ AllClosed(wf[w])]_vars

\* Every plan comes to rest: as a draft or with a result, or the service reports itself
\* failed or goes down; and a shutdown is never held up by a plan (waitRun, launch, close).
PlanSettles ==
    /\ \A w \in Workflows :
          wf[w].status \in {"planning", "running", "cancelling"}
          ~> \/ wf[w].status \in Terminal \cup {"draft"}
             \/ failure \/ phase = "down"
    /\ Closing ~> phase = "down"

\* docs/workflows.md: a draft waiting for approval is kept over a restart; approving it
\* must not make the service unavailable.
DraftKept == faults = 0 => ~ failure

=============================================================================

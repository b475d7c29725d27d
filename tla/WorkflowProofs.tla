--------------------------- MODULE WorkflowProofs ---------------------------
(***************************************************************************)
(* What module Workflows promises of every plan, for any number of         *)
(* workflows, steps, restarts and refused writes.                          *)
(*                                                                         *)
(* The invariant is stated of one workflow record p: Good(p, n, up,        *)
(* broken), where n is the number of the process that runs (or ran last),  *)
(* up says that it runs and broken that the service has failed; and, as    *)
(* long as nothing was refused, Tidy(p, up).  One lemma per operator of    *)
(* Workflows shows what record it makes of a good one; the actions put     *)
(* these records.                                                          *)
(***************************************************************************)
EXTENDS Workflows, FiniteSetTheorems, WellFoundedInduction, TLAPS

\* The stages at which all Sessions of the task are being closed.
LastPcs == {"endClose", "failClose", "cancelClose", "caughtCancel", "finalClose"}
PollPcs == {"planPoll", "stepPoll"}

\* Runs: one at a time, after those they depend on; only a bound job has run.
InOrder(p) ==
    /\ \A i, j \in Jobs : Busy(p, i) /\ Busy(p, j) => i = j
    /\ \A x \in Steps : p.run[x] # "none" =>
          p.run[Planner] = "completed" /\ \A d \in p.deps[x] : p.run[d] = "completed"
    /\ p.status = "draft" \/ p.approved => p.run[Planner] = "completed"
    /\ ~ p.approved => \A x \in Steps : p.run[x] = "none"
    /\ \A j \in Jobs : p.run[j] # "none" => p.bound[j] # 0

\* The record against the runs it tells of.
Reported(p) ==
    /\ \A x \in Steps : p.steps[x] = "completed" => p.run[x] = "completed"
    /\ \A x \in Steps : p.steps[x] = "running" => x \in p.ran
    /\ \A j \in p.ran : p.run[j] # "none"
    /\ p.status = "completed" => \A x \in Steps : p.steps[x] = "completed"
    /\ p.status = "draft" => \A x \in Steps : p.steps[x] = "pending"
    /\ p.status = "absent" => ~ p.approved

\* Sessions carry the number of the process that created them; a closed one runs nothing.
Numbered(p, n) ==
    /\ \A j \in Jobs : p.bound[j] <= n
    /\ \A t \in Sessions : t[2] > n => p.session[t] = "none"
    /\ \A t \in p.owned : t[2] <= n
    /\ \A j \in Jobs : p.bound[j] # 0 /\ p.session[Bound(p, j)] = "closed" => ~ Busy(p, j)

\* A step that waits has a Session to run in.
Waiting(p) ==
    \A x \in Steps : p.steps[x] = "pending" =>
        p.run[x] = "none" /\ p.bound[x] # 0 /\ p.session[Bound(p, x)] = "open"

\* Between two steps nothing runs, and the one just done waits no more.
Poised(p) ==
    p.pc \in {"stepPoll", "stepClose"} =>
       /\ Waiting(p)
       /\ \A j \in Jobs : Busy(p, j) => p.pc = "stepPoll" /\ j = p.at
       /\ p.steps[p.at] # "pending"

\* A cancellation is never forgotten; the task may have seen it in its last read.
Asked(p) == p.asked \/ p.stale => p.status \in Terminal \cup {"cancelling"}

\* The stored status at each stage of the task.
StagedAt(p, pc) ==
    /\ p.status \in Terminal => pc \in {"idle", "failClose", "finalClose"}
    /\ p.status \in Terminal /\ pc = "failClose" => p.status = "failed"
    /\ pc \in {"planPoll", "planClose"} =>
          p.status \in {"planning", "cancelling"} /\ ~ p.approved
    /\ pc \in {"stepPoll", "stepClose", "endClose"} =>
          p.status \in {"running", "cancelling"} /\ p.approved
    /\ pc \in {"cancelClose", "caughtCancel"} => p.status = "cancelling"

\* The Sessions of this process that still work are in the task's hands.
Owned(p, n) ==
    \A j \in Jobs : p.session[<<j, n>>] \in {"open", "closing"} => <<j, n>> \in p.owned

Held(p, n) ==
    /\ \A j \in Jobs : p.session[<<j, n>>] \in {"open", "closing"} =>
          \/ <<j, n>> \in p.owned
          \/ p.pc \notin PollPcs \cup {"idle"} /\ <<j, n>> \in p.waits
    /\ p.pc = "idle" => p.owned = {}
    /\ p.pc \in LastPcs => p.owned \subseteq p.waits
    /\ p.pc \in {"planPoll", "planClose"} =>
          /\ p.owned \subseteq {<<Planner, n>>} /\ p.bound[Planner] = n
          /\ \A x \in Steps : p.bound[x] = 0
    /\ p.pc = "planClose" => p.owned \subseteq p.waits /\ p.run[Planner] = "completed"

\* A draft that can be approved names no Session of this process for its first step.
Draft(p, n, broken) ==
    ~ broken /\ p.status = "draft" => p.pc = "idle" /\ p.bound[1] < n

Good(p, n, up, broken) ==
    /\ p \in Record
    /\ InOrder(p) /\ Reported(p) /\ Numbered(p, n)
    /\ Poised(p) /\ Asked(p) /\ StagedAt(p, p.pc)
    /\ IF up THEN Held(p, n) /\ Draft(p, n, broken) ELSE p.pc = "idle" /\ p.owned = {}

\* While nothing was refused: an ended plan has no step left open, and every run is recorded
\* or will be found by reconcile.
Final(p) ==
    p.status \in Terminal /\ p.approved =>
        \A x \in Steps : p.steps[x] \notin {"pending", "running"}

Recorded(p) == \A j \in Jobs : p.run[j] # "none" => j \in p.ran

NoneRunning(p) == \A x \in Steps : p.steps[x] # "running"

Tidy(p, up) ==
    /\ Final(p)
    /\ up => /\ Recorded(p)
             /\ \A x \in Steps : p.steps[x] = "running" => p.pc = "stepPoll" /\ p.at = x
             /\ p.pc \in {"cancelClose", "caughtCancel"} =>
                   \A j \in Jobs : p.bound[j] # 0 => Bound(p, j) \in p.waits
    /\ ~ up => Recorded(p) \/ p.status \notin Terminal \cup {"draft", "absent"}

Inv ==
    /\ TypeOK /\ wf \in [Workflows -> Record]
    /\ \A w \in Workflows : Good(wf[w], starts + 1, Alive, failure)
    /\ faults = 0 => \A w \in Workflows : Tidy(wf[w], Alive)

----------------------------------------------------------------------------
(* What the operators make of a record *)

\* The least of some steps is one of them.
LEMMA LeastStep == ASSUME NEW S \in SUBSET Steps, S # {} PROVE Min(S) \in S
<1>1. S \subseteq Nat
  BY DEF Steps
<1>2. PICK k \in S : \A y \in S : ~ (<<y, k>> \in OpToRel(<, Nat))
  BY <1>1, NatLessThanWellFounded, WFMin
<1>3. \A y \in S : ~ (y < k)
  BY <1>1, <1>2 DEF OpToRel
<1>4. \E x \in S : \A y \in S : x =< y
  BY <1>1, <1>3
<1> QED BY <1>4 DEF Min

Processes == 1 .. MaxStarts + 1

\* A job and the number of a process name a Session.
LEMMA SessionOf == ASSUME NEW j \in Jobs, NEW n \in Processes PROVE <<j, n>> \in Sessions
BY DEF Sessions, Processes

\* The Session a bound job names is one.
LEMMA BoundSession ==
    ASSUME NEW p \in Record, NEW j \in Jobs, p.bound[j] # 0
    PROVE  Bound(p, j) \in Sessions /\ Bound(p, j)[1] = j /\ Bound(p, j)[2] = p.bound[j]
<1>1. p.bound[j] \in 0 .. MaxStarts + 1
  BY DEF Record
<1> QED BY <1>1, WorkflowAssumption DEF Sessions, Bound

\* closeOwnedSessions closes Sessions.
LEMMA OwnSessionsType ==
    ASSUME NEW p \in Record
    PROVE  /\ OwnSessions(p) \in SUBSET Sessions /\ p.owned \subseteq OwnSessions(p)
           /\ \A j \in Jobs : p.bound[j] # 0 => Bound(p, j) \in OwnSessions(p)
BY BoundSession DEF OwnSessions, Record

\* What closeSession for the Sessions T makes of p.
CloseEffect(p, T, pc, q) ==
    /\ q \in Record
    /\ q.status = p.status /\ q.approved = p.approved /\ q.steps = p.steps
    /\ q.deps = p.deps /\ q.bound = p.bound /\ q.ran = p.ran /\ q.tools = p.tools
    /\ q.pc = pc /\ q.at = p.at /\ q.stale = p.stale /\ q.waits = T
    /\ q.owned = p.owned /\ q.asked = p.asked
    /\ \A t \in Sessions : q.session[t] =
          IF t \in T /\ p.session[t] # "closed" THEN "closing" ELSE p.session[t]
    /\ \A j \in Jobs : q.run[j] =
          IF Bound(p, j) \in T /\ p.run[j] = "active" THEN "stopping" ELSE p.run[j]

\* The call to closeSession does what CloseEffect says.
LEMMA CloseFields ==
    ASSUME NEW p \in Record, NEW T \in SUBSET Sessions,
           NEW pc \in LastPcs \cup {"planClose", "stepClose"}
    PROVE  CloseEffect(p, T, pc, CloseCall(p, T, pc))
<1> DEFINE s == [t \in Sessions |->
                   IF t \in T /\ p.session[t] # "closed" THEN "closing" ELSE p.session[t]]
           r == [j \in Jobs |->
                   IF Bound(p, j) \in T /\ p.run[j] = "active" THEN "stopping" ELSE p.run[j]]
<1>1. s \in [Sessions -> {"none", "open", "closing", "stuck", "closed"}]
  BY DEF Record
<1>2. r \in [Jobs -> Outcomes \cup {"none", "active", "stopping"}]
  BY DEF Record
<1>3. CloseCall(p, T, pc) = [p EXCEPT !.session = s, !.run = r, !.pc = pc, !.waits = T]
  BY DEF CloseCall
<1>4. \A t \in Sessions : s[t] =
         IF t \in T /\ p.session[t] # "closed" THEN "closing" ELSE p.session[t]
  OBVIOUS
<1>5. \A j \in Jobs : r[j] =
         IF Bound(p, j) \in T /\ p.run[j] = "active" THEN "stopping" ELSE p.run[j]
  OBVIOUS
<1> HIDE DEF s, r
<1> DEFINE q == [p EXCEPT !.session = s, !.run = r, !.pc = pc, !.waits = T]
<1>6. q \in Record
  BY <1>1, <1>2 DEF Record, LastPcs
<1>7. /\ q.status = p.status /\ q.approved = p.approved /\ q.steps = p.steps
      /\ q.deps = p.deps /\ q.bound = p.bound /\ q.ran = p.ran /\ q.tools = p.tools
      /\ q.pc = pc /\ q.at = p.at /\ q.stale = p.stale /\ q.waits = T
      /\ q.owned = p.owned /\ q.asked = p.asked /\ q.session = s /\ q.run = r
  BY DEF Record
<1> HIDE DEF q
<1>8. CloseCall(p, T, pc) = q
  BY <1>3 DEF q
<1> QED BY <1>4, <1>5, <1>6, <1>7, <1>8 DEF CloseEffect

\* Closing Sessions stops runs and ends none.
LEMMA CloseKeeps ==
    ASSUME NEW n \in Processes, NEW p \in Record,
           InOrder(p), Reported(p), Numbered(p, n),
           NEW T \in SUBSET Sessions, \A t \in T : t[2] <= n,
           NEW pc, NEW q, CloseEffect(p, T, pc, q)
    PROVE  /\ InOrder(q) /\ Reported(q) /\ Numbered(q, n)
           /\ \A j \in Jobs : Bound(q, j) = Bound(p, j) /\ (Busy(q, j) <=> Busy(p, j))
<1> USE DEF CloseEffect
<1>2. \A j \in Jobs : /\ Bound(q, j) = Bound(p, j) /\ (Busy(q, j) <=> Busy(p, j))
                      /\ q.run[j] = "none" <=> p.run[j] = "none"
                      /\ q.run[j] = "completed" <=> p.run[j] = "completed"
  BY DEF Bound, Busy
<1>3. \A x \in Steps : x \in Jobs /\ q.deps[x] \subseteq Jobs
  <2>1. q.deps \in [Steps -> SUBSET Steps]
    BY DEF Record, Plans
  <2> QED BY <2>1 DEF Jobs
<1>4. Planner \in Jobs /\ q.ran \subseteq Jobs
  BY DEF Jobs, Record
<1>5. InOrder(q)
  BY <1>2, <1>3, <1>4 DEF InOrder
<1>6. Reported(q)
  BY <1>2, <1>3, <1>4 DEF Reported
<1>7. Numbered(q, n)
  <2>1. \A t \in Sessions : t[2] > n => t \notin T
    BY DEF Sessions, Processes
  <2>2. \A j \in Jobs : p.bound[j] # 0 => Bound(p, j) \in Sessions
    BY BoundSession
  <2> QED BY <1>2, <2>1, <2>2 DEF Numbered
<1> QED BY <1>2, <1>5, <1>6, <1>7

\* What closing all Sessions of a task leaves behind.
LEMMA LastClose ==
    ASSUME NEW n \in Processes, NEW p \in Record,
           InOrder(p), Reported(p), Numbered(p, n), Asked(p), Owned(p, n),
           NEW T \in SUBSET Sessions, p.owned \subseteq T, \A t \in T : t[2] <= n,
           NEW pc \in LastPcs, StagedAt(p, pc),
           NEW broken, p.status = "draft" => broken
    PROVE  Good(CloseCall(p, T, pc), n, TRUE, broken)
<1> DEFINE q == CloseCall(p, T, pc)
<1>1. CloseEffect(p, T, pc, q)
  BY CloseFields
<1> HIDE DEF q
<1>2. InOrder(q) /\ Reported(q) /\ Numbered(q, n)
  BY <1>1, CloseKeeps
<1> USE DEF CloseEffect
<1>3. Held(q, n)
  BY <1>1, SessionOf DEF Held, Owned, LastPcs, PollPcs
<1> QED
  BY <1>1, <1>2, <1>3 DEF Good, Poised, Asked, StagedAt, Draft, LastPcs, q

\* The same while nothing was refused.
LEMMA LastTidy ==
    ASSUME NEW p \in Record, NEW T \in SUBSET Sessions, NEW pc \in LastPcs,
           NoneRunning(p), Recorded(p), Final(p),
           pc \in {"cancelClose", "caughtCancel"} =>
              \A j \in Jobs : p.bound[j] # 0 => Bound(p, j) \in T
    PROVE  Tidy(CloseCall(p, T, pc), TRUE)
<1> DEFINE q == CloseCall(p, T, pc)
<1>1. CloseEffect(p, T, pc, q)
  BY CloseFields
<1> HIDE DEF q
<1>2. \A j \in Jobs : Bound(q, j) = Bound(p, j) /\ (q.run[j] = "none" <=> p.run[j] = "none")
  BY <1>1 DEF CloseEffect, Bound
<1>3. Tidy(q, TRUE)
  BY <1>1, <1>2 DEF CloseEffect, Tidy, Final, Recorded, NoneRunning
<1> QED BY <1>3 DEF q

\* The Sessions of a task carry numbers up to that of its process.
LEMMA OwnNumbered ==
    ASSUME NEW p \in Record, NEW n \in Processes, Numbered(p, n)
    PROVE  \A t \in OwnSessions(p) : t[2] <= n
<1>1. \A j \in Jobs : p.bound[j] # 0 => Bound(p, j)[2] <= n
  BY BoundSession DEF Numbered
<1> QED BY <1>1 DEF OwnSessions, Numbered

\* finishCancelled up to closeSessions.
LEMMA CancelStartsGood ==
    ASSUME NEW n \in Processes, NEW p \in Record,
           InOrder(p), Reported(p), Numbered(p, n), Asked(p), Owned(p, n),
           p.status = "cancelling", NEW pc \in {"cancelClose", "caughtCancel"}, NEW broken
    PROVE  /\ Good(CancelStarts(p, pc), n, TRUE, broken)
           /\ NoneRunning(p) /\ Recorded(p) => Tidy(CancelStarts(p, pc), TRUE)
<1>1. OwnSessions(p) \in SUBSET Sessions /\ p.owned \subseteq OwnSessions(p)
      /\ \A j \in Jobs : p.bound[j] # 0 => Bound(p, j) \in OwnSessions(p)
  BY OwnSessionsType
<1>2. pc \in LastPcs /\ StagedAt(p, pc) /\ Final(p)
  BY DEF LastPcs, StagedAt, Final, Terminal
<1>3. Good(CloseCall(p, OwnSessions(p), pc), n, TRUE, broken)
  BY <1>1, <1>2, OwnNumbered, LastClose
<1>4. NoneRunning(p) /\ Recorded(p) => Tidy(CloseCall(p, OwnSessions(p), pc), TRUE)
  BY <1>1, <1>2, LastTidy
<1> QED BY <1>3, <1>4 DEF CancelStarts

\* A plan that ends early: its status, and what becomes of steps that wait.
EndEffect(p, status, q) ==
    /\ q \in Record
    /\ q.status = status /\ q.approved = p.approved /\ q.deps = p.deps
    /\ q.bound = p.bound /\ q.ran = p.ran /\ q.session = p.session /\ q.run = p.run
    /\ q.tools = p.tools /\ q.pc = p.pc /\ q.at = p.at /\ q.stale = p.stale
    /\ q.waits = p.waits /\ q.owned = p.owned /\ q.asked = p.asked
    /\ \A x \in Steps : q.steps[x] = IF p.steps[x] = "pending" THEN "blocked" ELSE p.steps[x]

\* Ending a plan does what EndEffect says.
LEMMA EndFields ==
    ASSUME NEW p \in Record, NEW status \in Terminal
    PROVE  EndEffect(p, status, SetSteps([p EXCEPT !.status = status], "pending", "blocked"))
<1> DEFINE s == [x \in Steps |-> IF p.steps[x] = "pending" THEN "blocked" ELSE p.steps[x]]
           r == [p EXCEPT !.status = status]
           q == [r EXCEPT !.steps = s]
<1>1. s \in [Steps -> Terminal \cup {"none", "pending", "running", "blocked"}]
  BY DEF Record
<1>2. \A x \in Steps : s[x] = IF p.steps[x] = "pending" THEN "blocked" ELSE p.steps[x]
  OBVIOUS
<1>3. r.steps = p.steps
  BY DEF Record
<1>4. SetSteps(r, "pending", "blocked") = q
  BY <1>3 DEF SetSteps
<1> HIDE DEF s
<1>5. r \in Record
  BY DEF Record
<1>6. EndEffect(p, status, q)
  <2>1. q \in Record
    BY <1>1, <1>5 DEF Record
  <2> QED BY <1>2, <2>1 DEF EndEffect, Record
<1> QED BY <1>4, <1>6

\* An ended plan's record, as StepFailed and launch's handler make it.
LEMMA EndGood ==
    ASSUME NEW n \in Processes, NEW p \in Record, NEW status \in Terminal \ {"completed"},
           InOrder(p), Reported(p), Numbered(p, n), Owned(p, n),
           NEW q, EndEffect(p, status, q)
    PROVE  /\ InOrder(q) /\ Reported(q) /\ Numbered(q, n) /\ Asked(q) /\ Owned(q, n)
           /\ NoneRunning(p) /\ Recorded(p) => NoneRunning(q) /\ Recorded(q) /\ Final(q)
<1>1. \A j \in Jobs : Bound(q, j) = Bound(p, j) /\ (Busy(q, j) <=> Busy(p, j))
  BY DEF EndEffect, Bound, Busy
<1>2. q.status \notin {"absent", "draft", "completed"} /\ q.status \in Terminal
  BY DEF EndEffect, Terminal
<1>3. InOrder(q)
  BY <1>1, <1>2 DEF InOrder, EndEffect
<1>4. Reported(q)
  BY <1>2 DEF Reported, EndEffect
<1>5. Numbered(q, n)
  BY <1>1 DEF Numbered, EndEffect
<1>6. Asked(q) /\ Owned(q, n)
  BY <1>2 DEF Asked, Owned, EndEffect
<1>7. NoneRunning(p) /\ Recorded(p) => NoneRunning(q) /\ Recorded(q) /\ Final(q)
  BY DEF NoneRunning, Recorded, Final, EndEffect
<1> QED BY <1>3, <1>4, <1>5, <1>6, <1>7

\* launch's handler for an operation that rejected.
LEMMA CaughtGood ==
    ASSUME NEW n \in Processes, NEW p \in Record,
           InOrder(p), Reported(p), Numbered(p, n), Asked(p), Owned(p, n),
           NEW closing \in BOOLEAN, NEW broken
    PROVE  /\ Good(Caught(p, closing), n, TRUE, broken)
           /\ NoneRunning(p) /\ Recorded(p) => Tidy(Caught(p, closing), TRUE)
<1>1. CASE p.status = "cancelling" /\ ~ closing
  BY <1>1, CancelStartsGood DEF Caught
<1>2. CASE ~ (p.status = "cancelling" /\ ~ closing)
  <2> DEFINE status == IF closing THEN "interrupted" ELSE "failed"
             q == SetSteps([p EXCEPT !.status = status], "pending", "blocked")
  <2>1. status \in Terminal \ {"completed"}
    BY DEF Terminal
  <2>2. Caught(p, closing) = CloseCall(q, OwnSessions(q), "finalClose")
    BY <1>2 DEF Caught
  <2> HIDE DEF status
  <2>3. EndEffect(p, status, q)
    BY <2>1, EndFields
  <2> HIDE DEF q
  <2>4. q \in Record /\ q.status = status /\ q.status # "draft"
    BY <2>1, <2>3 DEF EndEffect, Terminal
  <2>5. InOrder(q) /\ Reported(q) /\ Numbered(q, n) /\ Asked(q) /\ Owned(q, n)
    BY <2>1, <2>3, EndGood
  <2>6. NoneRunning(p) /\ Recorded(p) => NoneRunning(q) /\ Recorded(q) /\ Final(q)
    BY <2>1, <2>3, EndGood
  <2>7. OwnSessions(q) \in SUBSET Sessions /\ q.owned \subseteq OwnSessions(q)
        /\ "finalClose" \in LastPcs /\ StagedAt(q, "finalClose")
    BY <2>4, OwnSessionsType DEF LastPcs, StagedAt
  <2>8. Good(CloseCall(q, OwnSessions(q), "finalClose"), n, TRUE, broken)
    BY <2>4, <2>5, <2>7, OwnNumbered, LastClose
  <2>9. NoneRunning(p) /\ Recorded(p)
           => Tidy(CloseCall(q, OwnSessions(q), "finalClose"), TRUE)
    BY <2>4, <2>6, <2>7, LastTidy
  <2> QED BY <2>2, <2>8, <2>9
<1> QED BY <1>1, <1>2

\* The same when the failed status cannot be written.
LEMMA CaughtUnsavedGood ==
    ASSUME NEW n \in Processes, NEW p \in Record,
           InOrder(p), Reported(p), Numbered(p, n), Asked(p), Owned(p, n)
    PROVE  Good(CaughtUnsaved(p), n, TRUE, TRUE)
<1>1. OwnSessions(p) \in SUBSET Sessions /\ p.owned \subseteq OwnSessions(p)
      /\ "finalClose" \in LastPcs /\ StagedAt(p, "finalClose")
  BY OwnSessionsType DEF LastPcs, StagedAt
<1> QED BY <1>1, OwnNumbered, LastClose DEF CaughtUnsaved

\* The task ends.
DoneEffect(p, q) ==
    /\ q \in Record
    /\ q.status = p.status /\ q.approved = p.approved /\ q.steps = p.steps
    /\ q.deps = p.deps /\ q.bound = p.bound /\ q.ran = p.ran /\ q.session = p.session
    /\ q.run = p.run /\ q.tools = p.tools /\ q.pc = "idle" /\ q.waits = {} /\ q.owned = {}
    /\ q.asked = p.asked /\ ~ q.stale

\* The end of a task does what DoneEffect says.
LEMMA DoneFields == ASSUME NEW p \in Record PROVE DoneEffect(p, TaskDone(p))
<1> DEFINE q == [p EXCEPT !.pc = "idle", !.waits = {}, !.owned = {}, !.at = 1, !.stale = FALSE]
<1>1. 1 \in Steps
  BY WorkflowAssumption DEF Steps
<1>2. q \in Record
  BY <1>1 DEF Record
<1>3. DoneEffect(p, q)
  BY <1>2 DEF DoneEffect, Record
<1> QED BY <1>3 DEF TaskDone

\* A task may end when what it owns is closed or stuck.
LEMMA DoneGood ==
    ASSUME NEW n \in Processes, NEW p \in Record, NEW up \in BOOLEAN, NEW broken,
           InOrder(p), Reported(p), Numbered(p, n), Asked(p),
           up => \A j \in Jobs : p.session[<<j, n>>] \notin {"open", "closing"},
           up /\ ~ broken /\ p.status = "draft" => p.bound[1] < n,
           NEW q, DoneEffect(p, q)
    PROVE  /\ Good(q, n, up, broken)
           /\ /\ Final(p)
              /\ up => NoneRunning(p) /\ Recorded(p)
              /\ ~ up => Recorded(p) \/ p.status \notin Terminal \cup {"draft", "absent"}
              => Tidy(q, up)
<1> USE DEF DoneEffect
<1>1. \A j \in Jobs : Bound(q, j) = Bound(p, j) /\ (Busy(q, j) <=> Busy(p, j))
  BY DEF Bound, Busy
<1>2. InOrder(q) /\ Reported(q)
  BY <1>1 DEF InOrder, Reported
<1>3. Numbered(q, n)
  BY <1>1 DEF Numbered
<1>4. Good(q, n, up, broken)
  BY <1>2, <1>3 DEF Good, Poised, Asked, StagedAt, Held, Draft, LastPcs
<1>5. /\ Final(p)
      /\ up => NoneRunning(p) /\ Recorded(p)
      /\ ~ up => Recorded(p) \/ p.status \notin Terminal \cup {"draft", "absent"}
      => Tidy(q, up)
  BY DEF Tidy, Final, NoneRunning, Recorded
<1> QED BY <1>4, <1>5

\* The run of step x is submitted.
SubmitEffect(p, x, q) ==
    /\ q \in Record
    /\ q.status = p.status /\ q.approved = p.approved /\ q.deps = p.deps
    /\ q.bound = p.bound /\ q.session = p.session /\ q.tools = p.tools
    /\ q.pc = "stepPoll" /\ q.at = x /\ q.waits = p.waits /\ q.owned = p.owned
    /\ q.asked = p.asked /\ q.stale = p.stale /\ q.ran = p.ran \cup {x}
    /\ \A y \in Steps : q.steps[y] = IF y = x THEN "running" ELSE p.steps[y]
    /\ \A j \in Jobs : q.run[j] = IF j = x THEN "active" ELSE p.run[j]

\* Submitting a step does what SubmitEffect says.
LEMMA SubmitFields ==
    ASSUME NEW p \in Record, NEW x \in Steps PROVE SubmitEffect(p, x, Submitted(p, x))
<1> DEFINE r == [p.run EXCEPT ![x] = "active"]
           s == [p.steps EXCEPT ![x] = "running"]
           d == p.ran \cup {x}
           q == [p EXCEPT !.run = r, !.ran = d, !.steps = s, !.pc = "stepPoll", !.at = x]
<1>0. x \in Jobs
  BY DEF Jobs
<1>1. r \in [Jobs -> Outcomes \cup {"none", "active", "stopping"}] /\ d \in SUBSET Jobs
      /\ s \in [Steps -> Terminal \cup {"none", "pending", "running", "blocked"}]
  BY <1>0 DEF Record
<1>2. /\ \A y \in Steps : s[y] = IF y = x THEN "running" ELSE p.steps[y]
      /\ \A j \in Jobs : r[j] = IF j = x THEN "active" ELSE p.run[j]
  BY <1>0 DEF Record
<1>3. Submitted(p, x) = q
  BY DEF Submitted
<1>4. d = p.ran \cup {x}
  OBVIOUS
<1> HIDE DEF r, s, d
<1>5. q \in Record
  BY <1>1 DEF Record
<1>6. SubmitEffect(p, x, q)
  BY <1>2, <1>4, <1>5 DEF SubmitEffect, Record
<1> QED BY <1>3, <1>6

\* The plan may go on: it is approved, nothing runs, and what waits can run.
MayGoOn(p) ==
    /\ p.approved /\ p.status \in {"running", "cancelling"}
    /\ Waiting(p) /\ \A j \in Jobs : ~ Busy(p, j)

\* The step submitted is the only one that runs, and all it depends on has completed.
LEMMA SubmitGood ==
    ASSUME NEW n \in Processes, NEW p \in Record,
           InOrder(p), Reported(p), Numbered(p, n), Asked(p), Owned(p, n), MayGoOn(p),
           NEW x \in Ready(p), NEW broken
    PROVE  /\ Good(Submitted(p, x), n, TRUE, broken)
           /\ NoneRunning(p) /\ Recorded(p) => Tidy(Submitted(p, x), TRUE)
<1> DEFINE q == Submitted(p, x)
<1>1. x \in Steps /\ p.steps[x] = "pending" /\ \A d \in p.deps[x] : p.steps[d] = "completed"
  BY DEF Ready
<1>2. SubmitEffect(p, x, q)
  BY <1>1, SubmitFields
<1> HIDE DEF q
<1> USE DEF SubmitEffect
<1>3. /\ \A y \in Steps : y \in Jobs /\ y # Planner
      /\ Planner \in Jobs /\ p.ran \subseteq Jobs /\ p.deps \in [Steps -> SUBSET Steps]
  BY WorkflowAssumption DEF Jobs, Record, Plans
<1>4. p.run[x] = "none" /\ p.bound[x] # 0 /\ p.session[Bound(p, x)] = "open"
  BY <1>1 DEF MayGoOn, Waiting
<1>5. \A j \in Jobs : Bound(q, j) = Bound(p, j) /\ (Busy(q, j) <=> j = x)
  BY <1>2 DEF Bound, Busy, MayGoOn
<1>6. \A j \in Jobs : p.run[j] = "completed" => q.run[j] = "completed"
  BY <1>2, <1>4
<1>7. InOrder(q)
  <2>1. \A i, j \in Jobs : Busy(q, i) /\ Busy(q, j) => i = j
    BY <1>5
  <2>2. p.run[Planner] = "completed" /\ q.run[Planner] = "completed"
    BY <1>2, <1>3, <1>6 DEF InOrder, MayGoOn
  <2>3. ASSUME NEW y \in Steps, q.run[y] # "none", NEW d \in q.deps[y]
        PROVE  q.run[d] = "completed"
    <3>0. d \in Steps
      BY <1>2, <1>3
    <3>1. CASE y = x
      <4>1. p.run[d] = "completed"
        BY <1>1, <1>2, <3>0, <3>1, <2>3 DEF Reported
      <4> QED BY <1>3, <1>6, <3>0, <4>1
    <3>2. CASE y # x
      <4>1. p.run[y] # "none"
        BY <1>2, <1>3, <2>3, <3>2
      <4>2. p.run[d] = "completed"
        BY <1>2, <2>3, <4>1 DEF InOrder
      <4> QED BY <1>3, <1>6, <3>0, <4>2
    <3> QED BY <3>1, <3>2
  <2> QED BY <1>2, <1>4, <2>1, <2>2, <2>3 DEF InOrder, MayGoOn
<1>8. Reported(q)
  BY <1>1, <1>2, <1>3, <1>4, <1>6 DEF Reported, MayGoOn
<1>9. Numbered(q, n)
  BY <1>2, <1>4, <1>5 DEF Numbered
<1>10. Poised(q)
  BY <1>1, <1>2, <1>3, <1>5 DEF Poised, MayGoOn, Waiting
<1>11. CASE p.status = "running"
  <2>1. Asked(q) /\ StagedAt(q, "stepPoll") /\ Held(q, n) /\ Draft(q, n, broken)
    BY <1>2, <1>11
       DEF Asked, StagedAt, Held, Draft, Owned, MayGoOn, Terminal, LastPcs, PollPcs
  <2>2. NoneRunning(p) /\ Recorded(p) => Tidy(q, TRUE)
    BY <1>2, <1>3, <1>11 DEF NoneRunning, Recorded, Tidy, Final, Terminal
  <2> QED BY <1>2, <1>7, <1>8, <1>9, <1>10, <2>1, <2>2 DEF Good, q
<1>12. CASE p.status = "cancelling"
  <2>1. Asked(q) /\ StagedAt(q, "stepPoll") /\ Held(q, n) /\ Draft(q, n, broken)
    BY <1>2, <1>12
       DEF Asked, StagedAt, Held, Draft, Owned, MayGoOn, Terminal, LastPcs, PollPcs
  <2>2. NoneRunning(p) /\ Recorded(p) => Tidy(q, TRUE)
    BY <1>2, <1>3, <1>12 DEF NoneRunning, Recorded, Tidy, Final, Terminal
  <2> QED BY <1>2, <1>7, <1>8, <1>9, <1>10, <2>1, <2>2 DEF Good, q
<1> QED BY <1>11, <1>12 DEF MayGoOn

\* One turn of execute's loop.
LEMMA TurnGood ==
    ASSUME NEW n \in Processes, NEW p \in Record,
           InOrder(p), Reported(p), Numbered(p, n), Asked(p), Owned(p, n), MayGoOn(p),
           NEW closing \in BOOLEAN, NEW q \in ExecuteTurn(p, closing), NEW broken
    PROVE  Good(q, n, TRUE, broken) /\ (NoneRunning(p) /\ Recorded(p) => Tidy(q, TRUE))
<1>1. CASE p.status = "cancelling"
  <2>1. q = CancelStarts(p, "cancelClose")
    BY <1>1 DEF ExecuteTurn
  <2> QED BY <1>1, <2>1, CancelStartsGood
<1>2. CASE p.status # "cancelling"
  <2>0. p.status = "running"
    BY <1>2 DEF MayGoOn
  <2>1. CASE q = Caught(p, closing)
    BY <2>1, CaughtGood
  <2>2. CASE q = CloseCall(p, OwnSessions(p), "endClose")
    <3>1. /\ OwnSessions(p) \in SUBSET Sessions /\ p.owned \subseteq OwnSessions(p)
          /\ "endClose" \in LastPcs /\ StagedAt(p, "endClose") /\ p.status # "draft"
          /\ Final(p)
      BY <2>0, OwnSessionsType DEF LastPcs, StagedAt, MayGoOn, Terminal, Final
    <3>2. Good(q, n, TRUE, broken)
      BY <2>2, <3>1, OwnNumbered, LastClose
    <3>3. NoneRunning(p) /\ Recorded(p) => Tidy(q, TRUE)
      BY <2>2, <3>1, LastTidy
    <3> QED BY <3>2, <3>3
  <2>3. CASE Ready(p) # {} /\ q = Submitted(p, Min(Ready(p)))
    <3>1. Min(Ready(p)) \in Ready(p)
      BY <2>3, LeastStep DEF Ready
    <3> QED BY <2>3, <3>1, SubmitGood
  <2> QED BY <1>2, <2>1, <2>2, <2>3 DEF ExecuteTurn
<1> QED BY <1>1, <1>2

\* When the task is woken, its own Sessions are the ones that still work.
LEMMA AwakeOwned ==
    ASSUME NEW n \in Processes, NEW p \in Record, Held(p, n),
           p.pc \in PollPcs \cup {"idle"} \/ Returned(p)
    PROVE  Owned(p, n)
BY DEF Held, Owned, Returned, PollPcs

\* A task whose last close has returned leaves no Session working.
LEMMA LastReturned ==
    ASSUME NEW n \in Processes, NEW p \in Record, Held(p, n), Returned(p),
           p.pc \in LastPcs \cup {"planClose"}
    PROVE  \A j \in Jobs : p.session[<<j, n>>] \notin {"open", "closing"}
BY DEF Held, Returned, PollPcs, LastPcs

\* Runs end or are stopped, and the planner uses a tool.
RunsEffect(p, q) ==
    /\ q \in Record
    /\ q.status = p.status /\ q.approved = p.approved /\ q.steps = p.steps
    /\ q.deps = p.deps /\ q.bound = p.bound /\ q.ran = p.ran /\ q.session = p.session
    /\ q.pc = p.pc /\ q.at = p.at /\ q.stale = p.stale
    /\ q.waits = p.waits /\ q.owned = p.owned /\ q.asked = p.asked
    /\ \A j \in Jobs : \/ q.run[j] = p.run[j]
                       \/ Busy(p, j) /\ q.run[j] \in Outcomes \cup {"stopping"}

\* Writing the runs alone does what RunsEffect says.
LEMMA RunsFields ==
    ASSUME NEW p \in Record, NEW r \in [Jobs -> Outcomes \cup {"none", "active", "stopping"}],
           \A j \in Jobs : \/ r[j] = p.run[j]
                           \/ Busy(p, j) /\ r[j] \in Outcomes \cup {"stopping"}
    PROVE  RunsEffect(p, [p EXCEPT !.run = r])
<1> DEFINE q == [p EXCEPT !.run = r]
<1>1. q \in Record /\ q.run = r
  BY DEF Record
<1>2. RunsEffect(p, q)
  BY <1>1 DEF RunsEffect, Record
<1> QED BY <1>2

\* What a run does leaves order, report and numbers as they were.
LEMMA RunsKeep ==
    ASSUME NEW n \in Processes, NEW p \in Record, NEW q, RunsEffect(p, q),
           InOrder(p), Reported(p), Numbered(p, n)
    PROVE  /\ InOrder(q) /\ Reported(q) /\ Numbered(q, n)
           /\ \A j \in Jobs : /\ Bound(q, j) = Bound(p, j) /\ (Busy(q, j) => Busy(p, j))
                              /\ (q.run[j] = "none") <=> (p.run[j] = "none")
<1> USE DEF RunsEffect
<1>1. \A j \in Jobs : /\ Bound(q, j) = Bound(p, j) /\ (Busy(q, j) => Busy(p, j))
                      /\ (q.run[j] = "none") <=> (p.run[j] = "none")
                      /\ p.run[j] = "completed" => q.run[j] = "completed"
  BY DEF Bound, Busy, Outcomes
<1>2. /\ \A x \in Steps : x \in Jobs
      /\ Planner \in Jobs /\ p.ran \subseteq Jobs /\ p.deps \in [Steps -> SUBSET Steps]
  BY DEF Jobs, Record, Plans
<1>3. \A x \in Steps : p.deps[x] \subseteq Steps
  BY <1>2
<1>4. InOrder(q)
  BY <1>1, <1>2, <1>3 DEF InOrder
<1>5. Reported(q)
  BY <1>1, <1>2 DEF Reported
<1>6. Numbered(q, n)
  BY <1>1 DEF Numbered
<1> QED BY <1>1, <1>4, <1>5, <1>6

\* The Runtime cannot spoil a good record.
LEMMA RunsGood ==
    ASSUME NEW n \in Processes, NEW p \in Record, NEW q, RunsEffect(p, q),
           NEW broken, Good(p, n, TRUE, broken)
    PROVE  Good(q, n, TRUE, broken) /\ (Tidy(p, TRUE) => Tidy(q, TRUE))
<1>1. InOrder(p) /\ Reported(p) /\ Numbered(p, n)
  BY DEF Good
<1>2. InOrder(q) /\ Reported(q) /\ Numbered(q, n)
  BY <1>1, RunsKeep
<1>3. \A j \in Jobs : /\ Bound(q, j) = Bound(p, j) /\ (Busy(q, j) => Busy(p, j))
                      /\ (q.run[j] = "none") <=> (p.run[j] = "none")
  BY <1>1, RunsKeep
<1> USE DEF RunsEffect
<1>4. Poised(q)
  BY <1>3 DEF Good, Poised, Waiting, Jobs
<1>5. Asked(q) /\ StagedAt(q, q.pc) /\ Held(q, n) /\ Draft(q, n, broken)
  BY DEF Good, Asked, StagedAt, Held, Draft, Busy, Jobs
<1>6. Tidy(p, TRUE) => Tidy(q, TRUE)
  BY <1>3 DEF Tidy, Final, Recorded
<1> QED BY <1>2, <1>4, <1>5, <1>6 DEF Good

\* A cancellation is stored.
AskEffect(p, q) ==
    /\ q \in Record
    /\ q.status = "cancelling" /\ q.approved = p.approved /\ q.steps = p.steps
    /\ q.deps = p.deps /\ q.bound = p.bound /\ q.ran = p.ran /\ q.session = p.session
    /\ q.run = p.run /\ q.pc = p.pc /\ q.at = p.at /\ q.stale = p.stale
    /\ q.waits = p.waits /\ q.owned = p.owned

\* A stored request to cancel leaves the record good (cancel).
LEMMA AskGood ==
    ASSUME NEW n \in Processes, NEW p \in Record, NEW broken, Good(p, n, TRUE, broken),
           p.status \notin Terminal \cup {"absent"}, NEW q, AskEffect(p, q)
    PROVE  Good(q, n, TRUE, broken) /\ (Tidy(p, TRUE) => Tidy(q, TRUE))
<1> USE DEF AskEffect
<1>1. \A j \in Jobs : Bound(q, j) = Bound(p, j) /\ (Busy(q, j) <=> Busy(p, j))
  BY DEF Bound, Busy
<1>2. InOrder(q)
  BY <1>1 DEF Good, InOrder
<1>3. Reported(q) /\ Numbered(q, n)
  BY <1>1 DEF Good, Reported, Numbered
<1>4. Poised(q)
  BY <1>1 DEF Good, Poised, Waiting, Jobs
<1>5. Asked(q) /\ StagedAt(q, q.pc) /\ Held(q, n) /\ Draft(q, n, broken)
  BY DEF Good, Asked, StagedAt, Held, Draft, Terminal
<1>6. Tidy(p, TRUE) => Tidy(q, TRUE)
  BY <1>1 DEF Tidy, Final, Recorded, Terminal
<1> QED BY <1>2, <1>3, <1>4, <1>5, <1>6 DEF Good

\* closeSession returns for Session t, or throws.
LEMMA SessionGood ==
    ASSUME NEW n \in Processes, NEW p \in Record, NEW broken, Good(p, n, TRUE, broken),
           NEW t \in Sessions, p.session[t] = "closing",
           NEW s \in {"closed", "stuck"},
           s = "closed" /\ t = Bound(p, t[1]) => ~ Busy(p, t[1])
    PROVE  LET q == [p EXCEPT !.session[t] = s]
           IN Good(q, n, TRUE, broken) /\ (Tidy(p, TRUE) => Tidy(q, TRUE))
<1> DEFINE r == [p.session EXCEPT ![t] = s]
           q == [p EXCEPT !.session = r]
<1>1. r \in [Sessions -> {"none", "open", "closing", "stuck", "closed"}]
  BY DEF Record
<1>2. \A u \in Sessions : r[u] = IF u = t THEN s ELSE p.session[u]
  BY DEF Record
<1>3. [p EXCEPT !.session[t] = s] = q
  OBVIOUS
<1> HIDE DEF r
<1>4. q \in Record
  BY <1>1 DEF Record
<1>5. /\ q.status = p.status /\ q.approved = p.approved /\ q.steps = p.steps
      /\ q.deps = p.deps /\ q.bound = p.bound /\ q.ran = p.ran /\ q.session = r
      /\ q.run = p.run /\ q.pc = p.pc /\ q.at = p.at /\ q.stale = p.stale
      /\ q.waits = p.waits /\ q.owned = p.owned /\ q.asked = p.asked
  BY DEF Record
<1> HIDE DEF q
<1>6. \A j \in Jobs : Bound(q, j) = Bound(p, j) /\ (Busy(q, j) <=> Busy(p, j))
  BY <1>5 DEF Bound, Busy
<1>7. \A j \in Jobs : p.bound[j] # 0 => Bound(p, j) \in Sessions /\ Bound(p, j)[1] = j
  BY BoundSession
<1>8. InOrder(q) /\ Reported(q)
  BY <1>5, <1>6 DEF Good, InOrder, Reported
<1>9. Numbered(q, n)
  <2>1. ASSUME NEW j \in Jobs, p.bound[j] # 0, r[Bound(p, j)] = "closed" PROVE ~ Busy(p, j)
    BY <1>2, <1>7, <2>1 DEF Good, Numbered
  <2>2. \A u \in Sessions : u[2] > n => r[u] = "none"
    BY <1>2 DEF Good, Numbered
  <2> QED BY <1>5, <1>6, <2>1, <2>2 DEF Good, Numbered
<1>10. Poised(q)
  <2>1. \A x \in Steps : x \in Jobs
    BY DEF Jobs
  <2> QED BY <1>2, <1>5, <1>6, <1>7, <2>1 DEF Good, Poised, Waiting
<1>11. Asked(q) /\ StagedAt(q, q.pc) /\ Draft(q, n, broken)
  BY <1>5 DEF Good, Asked, StagedAt, Draft
<1>12. Held(q, n)
  BY <1>2, <1>5, SessionOf DEF Good, Held
<1>13. Tidy(p, TRUE) => Tidy(q, TRUE)
  BY <1>5, <1>6 DEF Tidy, Final, Recorded
<1> QED BY <1>3, <1>4, <1>8, <1>9, <1>10, <1>11, <1>12, <1>13 DEF Good

\* The plan is parsed; the planning Session is closed.
LEMMA PlanCloseGood ==
    ASSUME NEW n \in Processes, NEW p \in Record, NEW broken, Good(p, n, TRUE, broken),
           p.pc = "planPoll", p.run[Planner] = "completed", p.status # "cancelling"
    PROVE  LET q == CloseCall(p, {Bound(p, Planner)}, "planClose")
           IN Good(q, n, TRUE, broken) /\ (Tidy(p, TRUE) => Tidy(q, TRUE))
<1> DEFINE T == {Bound(p, Planner)}
           q == CloseCall(p, T, "planClose")
<1>1. Planner \in Jobs /\ p.bound[Planner] = n /\ T = {<<Planner, n>>}
  BY DEF Jobs, Good, Held, Bound
<1>2. T \in SUBSET Sessions /\ \A t \in T : t[2] <= n
  BY <1>1, SessionOf DEF Processes
<1>3. CloseEffect(p, T, "planClose", q)
  BY <1>2, CloseFields
<1> HIDE DEF q
<1>4. InOrder(q) /\ Reported(q) /\ Numbered(q, n)
  BY <1>2, <1>3, CloseKeeps DEF Good
<1>5. \A j \in Jobs : Bound(q, j) = Bound(p, j)
  BY <1>3 DEF CloseEffect, Bound
<1> USE DEF CloseEffect
<1>6. Poised(q) /\ Asked(q) /\ StagedAt(q, q.pc)
  BY <1>3 DEF Good, Poised, Asked, StagedAt, Terminal
<1>7. Held(q, n)
  <2>1. Owned(p, n)
    BY AwakeOwned DEF Good, PollPcs
  <2>2. p.owned \subseteq T
    BY <1>1 DEF Good, Held
  <2>3. \A j \in Jobs : q.session[<<j, n>>] \in {"open", "closing"} =>
           <<j, n>> \in q.owned \/ <<j, n>> \in q.waits
    <3>1. \A j \in Jobs : <<j, n>> \in T \/ q.session[<<j, n>>] = p.session[<<j, n>>]
      BY <1>3, SessionOf
    <3>2. ASSUME NEW j \in Jobs, <<j, n>> \in T, q.session[<<j, n>>] \in {"open", "closing"}
          PROVE  <<j, n>> \in q.owned \/ <<j, n>> \in q.waits
      BY <1>3, <3>2
    <3> QED BY <1>3, <2>1, <3>1, <3>2 DEF Owned
  <2> QED BY <1>1, <1>3, <2>2, <2>3 DEF Good, Held, LastPcs, PollPcs
<1>8. Draft(q, n, broken)
  BY <1>3 DEF Good, Draft, StagedAt
<1>9. Tidy(p, TRUE) => Tidy(q, TRUE)
  <2>1. \A j \in Jobs : (q.run[j] = "none") <=> (p.run[j] = "none")
    BY <1>3
  <2>2. Tidy(p, TRUE) => \A x \in Steps : p.steps[x] # "running"
    BY DEF Tidy
  <2> QED BY <1>3, <2>1, <2>2 DEF Tidy, Final, Recorded
<1> QED BY <1>3, <1>4, <1>6, <1>7, <1>8, <1>9 DEF Good, q

\* The run of a step has ended: its result is applied and its Session closed.
LEMMA ResultGood ==
    ASSUME NEW n \in Processes, NEW p \in Record, NEW broken, Good(p, n, TRUE, broken),
           p.pc = "stepPoll", Ended(p, p.at)
    PROVE  LET r == [ApplyResult(p, p.at) EXCEPT !.stale = (p.status = "cancelling")]
               q == CloseCall(r, {Bound(r, r.at)}, "stepClose")
           IN Good(q, n, TRUE, broken) /\ (Tidy(p, TRUE) => Tidy(q, TRUE))
<1> DEFINE b == (p.status = "cancelling")
           s == [p.steps EXCEPT ![p.at] = ResultOf(@, p.run[p.at])]
           r == [[p EXCEPT !.steps = s] EXCEPT !.stale = b]
           T == {Bound(r, r.at)}
           q == CloseCall(r, T, "stepClose")
<1>1. p.at \in Steps /\ p.at \in Jobs /\ p.run[p.at] \in Outcomes
  BY DEF Record, Jobs, Ended
<1>2. /\ s \in [Steps -> Terminal \cup {"none", "pending", "running", "blocked"}]
      /\ \A x \in Steps : x # p.at => s[x] = p.steps[x]
      /\ s[p.at] \in Terminal
      /\ s[p.at] = "completed" => p.run[p.at] = "completed"
  <2>1. ResultOf(p.steps[p.at], p.run[p.at]) \in Terminal
        /\ (ResultOf(p.steps[p.at], p.run[p.at]) = "completed" => p.run[p.at] = "completed")
    BY <1>1 DEF ResultOf, Terminal, Outcomes
  <2> QED BY <1>1, <2>1 DEF Record
<1>3. [ApplyResult(p, p.at) EXCEPT !.stale = (p.status = "cancelling")] = r
  BY DEF ApplyResult
<1> HIDE DEF s
<1>4. b \in BOOLEAN
  OBVIOUS
<1>5. b => p.status = "cancelling"
  OBVIOUS
<1> HIDE DEF b
<1>6. r \in Record
  BY <1>2, <1>4 DEF Record
<1>7. /\ r.status = p.status /\ r.approved = p.approved /\ r.steps = s
      /\ r.deps = p.deps /\ r.bound = p.bound /\ r.ran = p.ran /\ r.session = p.session
      /\ r.run = p.run /\ r.at = p.at /\ r.stale = b
      /\ r.owned = p.owned /\ r.asked = p.asked
  BY DEF Record
<1> HIDE DEF r
<1>8. \A j \in Jobs : Bound(r, j) = Bound(p, j) /\ (Busy(r, j) <=> Busy(p, j))
  BY <1>7 DEF Bound, Busy
<1>9. p.status \in {"running", "cancelling"} /\ p.approved
  BY DEF Good, StagedAt
<1>10. InOrder(r) /\ Numbered(r, n)
  BY <1>7, <1>8 DEF Good, InOrder, Numbered
<1>11. Reported(r)
  BY <1>2, <1>7, <1>9 DEF Good, Reported, Terminal
<1>12. p.bound[p.at] # 0 /\ p.run[p.at] # "none"
  BY <1>1 DEF Good, InOrder, Outcomes
<1>13. T = {Bound(p, p.at)} /\ T \in SUBSET Sessions /\ \A t \in T : t[2] <= n
  BY <1>1, <1>7, <1>8, <1>12, BoundSession DEF Good, Numbered
<1>14. CloseEffect(r, T, "stepClose", q)
  BY <1>6, <1>13, CloseFields
<1> HIDE DEF T, q
<1>15. /\ InOrder(q) /\ Reported(q) /\ Numbered(q, n)
       /\ \A j \in Jobs : Bound(q, j) = Bound(r, j) /\ (Busy(q, j) <=> Busy(r, j))
  BY <1>6, <1>10, <1>11, <1>13, <1>14, CloseKeeps
<1> USE DEF CloseEffect
<1>16. Poised(q)
  <2>1. \A j \in Jobs : ~ Busy(q, j)
    <3>1. ~ Busy(p, p.at)
      BY <1>1 DEF Busy, Outcomes
    <3> QED BY <1>8, <1>15, <3>1 DEF Good, Poised
  <2>2. q.steps[q.at] # "pending"
    BY <1>2, <1>7, <1>14 DEF Terminal
  <2>3. ASSUME NEW x \in Steps, q.steps[x] = "pending"
        PROVE  q.run[x] = "none" /\ q.bound[x] # 0 /\ q.session[Bound(q, x)] = "open"
    <3>1. x # p.at /\ p.steps[x] = "pending" /\ x \in Jobs
      BY <1>2, <1>7, <1>14, <2>2, <2>3 DEF Jobs
    <3>2. p.run[x] = "none" /\ p.bound[x] # 0 /\ p.session[Bound(p, x)] = "open"
      BY <3>1 DEF Good, Poised, Waiting
    <3>3. Bound(q, x) = Bound(p, x) /\ Bound(p, x) \in Sessions /\ Bound(p, x) \notin T
      BY <1>8, <1>13, <1>15, <3>1, <3>2, BoundSession DEF Bound
    <3> QED BY <1>7, <1>14, <3>1, <3>2, <3>3
  <2> QED BY <2>1, <2>2, <2>3 DEF Poised, Waiting
<1>17. Asked(q) /\ StagedAt(q, q.pc) /\ Draft(q, n, broken)
  BY <1>5, <1>7, <1>9, <1>14 DEF Good, Asked, StagedAt, Draft, Terminal
<1>18. Held(q, n)
  <2>1. Owned(p, n)
    BY AwakeOwned DEF Good, PollPcs
  <2>2. \A j \in Jobs : <<j, n>> \in T \/ q.session[<<j, n>>] = p.session[<<j, n>>]
    BY <1>7, <1>14, SessionOf
  <2>3. \A j \in Jobs : q.session[<<j, n>>] \in {"open", "closing"} =>
           <<j, n>> \in q.owned \/ <<j, n>> \in q.waits
    BY <1>7, <1>14, <2>1, <2>2 DEF Owned
  <2> QED BY <1>14, <2>3 DEF Held, LastPcs, PollPcs
<1>19. Tidy(p, TRUE) => Tidy(q, TRUE)
  <2>1. \A j \in Jobs : (q.run[j] = "none") <=> (p.run[j] = "none")
    BY <1>7, <1>14
  <2>2. Tidy(p, TRUE) => \A x \in Steps : s[x] # "running"
    BY <1>2 DEF Tidy, Terminal
  <2> QED BY <1>7, <1>9, <1>14, <2>1, <2>2 DEF Tidy, Final, Recorded, Terminal
<1>20. q \in Record
  BY <1>14
<1>21. Good(q, n, TRUE, broken)
  BY <1>15, <1>16, <1>17, <1>18, <1>20 DEF Good
<1> QED BY <1>3, <1>19, <1>21 DEF q, T

\* After closeSession of a step: the plan goes on, fails, or is cancelled.
LEMMA StepFailedGood ==
    ASSUME NEW n \in Processes, NEW p \in Record,
           InOrder(p), Reported(p), Numbered(p, n), Owned(p, n), NEW broken
    PROVE  /\ Good(StepFailed(p), n, TRUE, broken)
           /\ NoneRunning(p) /\ Recorded(p) => Tidy(StepFailed(p), TRUE)
<1> DEFINE q == SetSteps([p EXCEPT !.status = "failed"], "pending", "blocked")
<1>1. "failed" \in Terminal \ {"completed"}
  BY DEF Terminal
<1>2. EndEffect(p, "failed", q)
  BY <1>1, EndFields
<1>3. StepFailed(p) = CloseCall(q, OwnSessions(q), "failClose")
  BY DEF StepFailed
<1> HIDE DEF q
<1>4. q \in Record /\ q.status = "failed"
  BY <1>2 DEF EndEffect
<1>5. InOrder(q) /\ Reported(q) /\ Numbered(q, n) /\ Asked(q) /\ Owned(q, n)
  BY <1>1, <1>2, EndGood
<1>6. NoneRunning(p) /\ Recorded(p) => NoneRunning(q) /\ Recorded(q) /\ Final(q)
  BY <1>1, <1>2, EndGood
<1>7. OwnSessions(q) \in SUBSET Sessions /\ q.owned \subseteq OwnSessions(q)
      /\ "failClose" \in LastPcs /\ StagedAt(q, "failClose")
  BY <1>4, OwnSessionsType DEF LastPcs, StagedAt
<1>8. Good(CloseCall(q, OwnSessions(q), "failClose"), n, TRUE, broken)
  BY <1>4, <1>5, <1>7, OwnNumbered, LastClose
<1>9. NoneRunning(p) /\ Recorded(p)
         => Tidy(CloseCall(q, OwnSessions(q), "failClose"), TRUE)
  BY <1>4, <1>6, <1>7, LastTidy
<1> QED BY <1>3, <1>8, <1>9

\* The task goes on, or ends the plan, after the Session of a step is closed.
LEMMA StepClosedGood ==
    ASSUME NEW n \in Processes, NEW p \in Record, NEW broken, Good(p, n, TRUE, broken),
           p.pc = "stepClose", Returned(p), NEW q \in AfterStep(p)
    PROVE  Good(q, n, TRUE, broken) /\ (Tidy(p, TRUE) => Tidy(q, TRUE))
<1>1. InOrder(p) /\ Reported(p) /\ Numbered(p, n) /\ Asked(p) /\ Owned(p, n)
  BY AwakeOwned DEF Good
<1>2. Tidy(p, TRUE) => NoneRunning(p) /\ Recorded(p)
  BY DEF Tidy, NoneRunning
<1>3. p.status \in {"running", "cancelling"} /\ p.approved
  BY DEF Good, StagedAt
<1>4. MayGoOn(p)
  BY <1>3 DEF MayGoOn, Good, Poised
<1>5. Closing \in BOOLEAN /\ FALSE \in BOOLEAN
  BY DEF Closing
<1>6. CASE q = Caught(p, Closing)
  BY <1>1, <1>2, <1>5, <1>6, CaughtGood
<1>7. CASE p.stale /\ q = CancelStarts(p, "cancelClose")
  <2>1. p.status = "cancelling"
    BY <1>1, <1>3, <1>7 DEF Asked, Terminal
  <2> QED BY <1>1, <1>2, <1>7, <2>1, CancelStartsGood
<1>8. CASE q = StepFailed(p)
  BY <1>1, <1>2, <1>8, StepFailedGood
<1>9. CASE q \in ExecuteTurn(p, FALSE)
  BY <1>1, <1>2, <1>4, <1>5, <1>9, TurnGood
<1> QED BY <1>6, <1>7, <1>8, <1>9 DEF AfterStep

\* A step submitted but not recorded: the process died or its write was refused.
LEMMA RunAddedGood ==
    ASSUME NEW n \in Processes, NEW p \in Record,
           InOrder(p), Reported(p), Numbered(p, n), Asked(p), Owned(p, n), MayGoOn(p),
           Ready(p) # {}
    PROVE  LET q == [p EXCEPT !.run[Min(Ready(p))] = "active"]
           IN /\ q \in Record /\ q.status = p.status
              /\ InOrder(q) /\ Reported(q) /\ Numbered(q, n) /\ Asked(q) /\ Owned(q, n)
<1> DEFINE x == Min(Ready(p))
           r == [p.run EXCEPT ![x] = "active"]
           q == [p EXCEPT !.run = r]
<1>1. x \in Steps /\ p.steps[x] = "pending" /\ \A d \in p.deps[x] : p.steps[d] = "completed"
  <2>1. x \in Ready(p)
    BY LeastStep DEF Ready
  <2> QED BY <2>1 DEF Ready
<1> HIDE DEF x
<1>2. /\ \A y \in Steps : y \in Jobs /\ y # Planner
      /\ Planner \in Jobs /\ p.ran \subseteq Jobs /\ p.deps \in [Steps -> SUBSET Steps]
  BY WorkflowAssumption DEF Jobs, Record, Plans
<1>3. /\ r \in [Jobs -> Outcomes \cup {"none", "active", "stopping"}]
      /\ \A j \in Jobs : r[j] = IF j = x THEN "active" ELSE p.run[j]
  BY <1>1, <1>2 DEF Record
<1> HIDE DEF r
<1>4. /\ q \in Record
      /\ q.status = p.status /\ q.approved = p.approved /\ q.steps = p.steps
      /\ q.deps = p.deps /\ q.bound = p.bound /\ q.ran = p.ran /\ q.session = p.session
      /\ q.run = r /\ q.stale = p.stale /\ q.owned = p.owned /\ q.asked = p.asked
  BY <1>3 DEF Record
<1> HIDE DEF q
<1>5. p.approved /\ p.run[x] = "none" /\ p.bound[x] # 0 /\ p.session[Bound(p, x)] = "open"
  BY <1>1 DEF MayGoOn, Waiting
<1>6. \A j \in Jobs : Bound(q, j) = Bound(p, j) /\ (Busy(q, j) <=> j = x)
  BY <1>3, <1>4 DEF Bound, Busy, MayGoOn
<1>7. \A j \in Jobs : p.run[j] = "completed" => q.run[j] = "completed"
  BY <1>3, <1>4, <1>5
<1>8. InOrder(q)
  <2>1. \A i, j \in Jobs : Busy(q, i) /\ Busy(q, j) => i = j
    BY <1>6
  <2>2. q.run[Planner] = "completed"
    BY <1>2, <1>5, <1>7 DEF InOrder
  <2>3. ASSUME NEW y \in Steps, q.run[y] # "none", NEW d \in q.deps[y]
        PROVE  q.run[d] = "completed"
    <3>0. d \in Steps
      BY <1>2, <1>4
    <3>1. CASE y = x
      <4>1. p.run[d] = "completed"
        BY <1>1, <1>4, <3>0, <3>1, <2>3 DEF Reported
      <4> QED BY <1>2, <1>7, <3>0, <4>1
    <3>2. CASE y # x
      <4>1. p.run[y] # "none"
        BY <1>2, <1>3, <1>4, <2>3, <3>2
      <4>2. p.run[d] = "completed"
        BY <1>4, <2>3, <4>1 DEF InOrder
      <4> QED BY <1>2, <1>7, <3>0, <4>2
    <3> QED BY <3>1, <3>2
  <2> QED BY <1>3, <1>4, <1>5, <2>1, <2>2, <2>3 DEF InOrder
<1>9. Reported(q)
  BY <1>2, <1>3, <1>4, <1>7 DEF Reported
<1>10. Numbered(q, n)
  BY <1>4, <1>5, <1>6 DEF Numbered
<1>11. Asked(q) /\ Owned(q, n)
  BY <1>4 DEF Asked, Owned
<1> QED BY <1>4, <1>8, <1>9, <1>10, <1>11 DEF q, r, x

\* The same at the end of a step.
LEMMA UnrecordedGood ==
    ASSUME NEW n \in Processes, NEW p \in Record, NEW broken, Good(p, n, TRUE, broken),
           p.pc = "stepClose", Returned(p), NEW q \in Unrecorded(p)
    PROVE  /\ q \in Record /\ q.status = "running"
           /\ InOrder(q) /\ Reported(q) /\ Numbered(q, n) /\ Asked(q) /\ Owned(q, n)
<1>1. InOrder(p) /\ Reported(p) /\ Numbered(p, n) /\ Asked(p) /\ Owned(p, n)
  BY AwakeOwned DEF Good
<1>2. MayGoOn(p)
  BY DEF MayGoOn, Good, Poised, StagedAt
<1>3. /\ q = [p EXCEPT !.run[Min(Ready(p))] = "active"]
      /\ Ready(p) # {} /\ p.status = "running"
  BY DEF Unrecorded, Good, StagedAt
<1> QED BY <1>1, <1>2, <1>3, RunAddedGood

\* No step is left and all Sessions are closed: the plan has completed, or has failed.
LEMMA ConcludedGood ==
    ASSUME NEW n \in Processes, NEW p \in Record, NEW broken, Good(p, n, TRUE, broken),
           p.pc = "endClose", Returned(p)
    PROVE  LET q == TaskDone(Concluded(p))
           IN Good(q, n, TRUE, broken) /\ (Tidy(p, TRUE) => Tidy(q, TRUE))
<1> DEFINE c == Concluded(p)
<1>1. InOrder(p) /\ Reported(p) /\ Numbered(p, n) /\ Asked(p) /\ Owned(p, n)
  BY AwakeOwned DEF Good
<1>2. \A j \in Jobs : p.session[<<j, n>>] \notin {"open", "closing"}
  BY LastReturned DEF Good, LastPcs
<1>3. Tidy(p, TRUE) => NoneRunning(p) /\ Recorded(p)
  BY DEF Tidy, NoneRunning
<1>4. /\ c \in Record /\ c.status \in Terminal /\ c.session = p.session
      /\ InOrder(c) /\ Reported(c) /\ Numbered(c, n) /\ Asked(c)
      /\ NoneRunning(p) /\ Recorded(p) => NoneRunning(c) /\ Recorded(c) /\ Final(c)
  <2>1. CASE \A x \in Steps : p.steps[x] = "completed"
    <3> DEFINE q == [p EXCEPT !.status = "completed"]
    <3>1. c = q
      BY <2>1 DEF Concluded
    <3>2. /\ q \in Record /\ q.status = "completed" /\ q.approved = p.approved
          /\ q.steps = p.steps /\ q.deps = p.deps /\ q.bound = p.bound /\ q.ran = p.ran
          /\ q.session = p.session /\ q.run = p.run /\ q.owned = p.owned
          /\ q.asked = p.asked /\ q.stale = p.stale
      BY DEF Record, Terminal
    <3> HIDE DEF q
    <3>3. \A j \in Jobs : Bound(q, j) = Bound(p, j) /\ (Busy(q, j) <=> Busy(p, j))
      BY <3>2 DEF Bound, Busy
    <3>4. InOrder(q)
      BY <1>1, <3>2, <3>3 DEF InOrder
    <3>5. Reported(q) /\ Numbered(q, n) /\ Asked(q)
      BY <1>1, <2>1, <3>2, <3>3 DEF Reported, Numbered, Asked, Terminal
    <3>6. NoneRunning(p) /\ Recorded(p) => NoneRunning(q) /\ Recorded(q) /\ Final(q)
      BY <2>1, <3>2 DEF NoneRunning, Recorded, Final
    <3>7. q.status \in Terminal
      BY <3>2 DEF Terminal
    <3> QED BY <3>1, <3>2, <3>4, <3>5, <3>6, <3>7
  <2>2. CASE ~ \A x \in Steps : p.steps[x] = "completed"
    <3>1. c = SetSteps([p EXCEPT !.status = "failed"], "pending", "blocked")
      BY <2>2 DEF Concluded
    <3>2. "failed" \in Terminal \ {"completed"}
      BY DEF Terminal
    <3>3. EndEffect(p, "failed", c)
      BY <3>1, <3>2, EndFields
    <3> HIDE DEF c
    <3>4. InOrder(c) /\ Reported(c) /\ Numbered(c, n) /\ Asked(c)
      BY <1>1, <3>2, <3>3, EndGood
    <3>5. NoneRunning(p) /\ Recorded(p) => NoneRunning(c) /\ Recorded(c) /\ Final(c)
      BY <1>1, <3>2, <3>3, EndGood
    <3>6. c \in Record /\ c.status = "failed" /\ c.session = p.session
      BY <3>3 DEF EndEffect
    <3> QED BY <3>2, <3>4, <3>5, <3>6
  <2> QED BY <2>1, <2>2
<1> HIDE DEF c
<1>5. DoneEffect(c, TaskDone(c))
  BY <1>4, DoneFields
<1>6. Good(TaskDone(c), n, TRUE, broken)
  BY <1>2, <1>4, <1>5, DoneGood DEF Terminal
<1>7. NoneRunning(p) /\ Recorded(p) => Tidy(TaskDone(c), TRUE)
  BY <1>2, <1>4, <1>5, DoneGood DEF Terminal
<1> QED BY <1>3, <1>6, <1>7 DEF c

\* The record of a cancelled plan.
CancelEffect(p, q) ==
    /\ q \in Record
    /\ q.status = "cancelled" /\ q.approved = p.approved /\ q.deps = p.deps
    /\ q.bound = p.bound /\ q.ran = p.ran /\ q.session = p.session /\ q.run = p.run
    /\ q.pc = p.pc /\ q.waits = p.waits /\ q.owned = p.owned
    /\ \A x \in Steps : q.steps[x] =
          IF x \in p.ran THEN ResultOf(p.steps[x], p.run[x])
          ELSE IF p.steps[x] = "pending" THEN "cancelled" ELSE p.steps[x]

\* The result of a run is a status of its step, and completed only if the run has.
LEMMA ResultStep ==
    ASSUME NEW p \in Record, NEW x \in Steps
    PROVE  LET s == ResultOf(p.steps[x], p.run[x])
           IN /\ s \in Terminal \cup {"none", "pending", "running", "blocked"}
              /\ s = p.steps[x] \/ s \in Terminal
              /\ s = "completed" => s = p.steps[x] \/ p.run[x] = "completed"
              /\ p.run[x] \in Outcomes => s \in Terminal
<1>1. p.steps[x] \in Terminal \cup {"none", "pending", "running", "blocked"}
      /\ p.run[x] \in Outcomes \cup {"none", "active", "stopping"}
  BY DEF Record, Jobs
<1>2. CASE p.run[x] \in Outcomes
  BY <1>1, <1>2 DEF ResultOf, Outcomes, Terminal
<1>3. CASE p.run[x] \notin Outcomes
  BY <1>1, <1>3 DEF ResultOf
<1> QED BY <1>2, <1>3

\* The end of finishCancelled does what CancelEffect says.
LEMMA CancelFields == ASSUME NEW p \in Record PROVE CancelEffect(p, CancelEnds(p))
<1> DEFINE s == [x \in Steps |->
                   IF x \in p.ran THEN ResultOf(p.steps[x], p.run[x])
                   ELSE IF p.steps[x] = "pending" THEN "cancelled" ELSE p.steps[x]]
           q == [p EXCEPT !.status = "cancelled", !.steps = s]
<1>1. s \in [Steps -> Terminal \cup {"none", "pending", "running", "blocked"}]
  <2>1. \A x \in Steps : s[x] \in Terminal \cup {"none", "pending", "running", "blocked"}
    BY ResultStep DEF Record, Terminal
  <2> QED BY <2>1
<1>2. \A x \in Steps : s[x] =
         IF x \in p.ran THEN ResultOf(p.steps[x], p.run[x])
         ELSE IF p.steps[x] = "pending" THEN "cancelled" ELSE p.steps[x]
  OBVIOUS
<1>3. CancelEnds(p) = q
  BY DEF CancelEnds
<1> HIDE DEF s
<1>4. q \in Record
  BY <1>1 DEF Record, Terminal
<1>5. CancelEffect(p, q)
  BY <1>2, <1>4 DEF CancelEffect, Record
<1> QED BY <1>3, <1>5

\* finishCancelled after its closes: with every Session closed no run goes on, so each
\* recorded run has a result.
LEMMA CancelEndsGood ==
    ASSUME NEW n \in Processes, NEW p \in Record, NEW broken, Good(p, n, TRUE, broken),
           p.pc \in {"cancelClose", "caughtCancel"}, AllClosed(p),
           NEW q, CancelEffect(p, q)
    PROVE  /\ InOrder(q) /\ Reported(q) /\ Numbered(q, n) /\ Asked(q) /\ Owned(q, n)
           /\ \A j \in Jobs : q.session[<<j, n>>] \notin {"open", "closing"}
           /\ Tidy(p, TRUE) => NoneRunning(q) /\ Recorded(q) /\ Final(q)
<1>1. Returned(p)
  BY DEF AllClosed, Returned
<1>2. Owned(p, n) /\ \A j \in Jobs : p.session[<<j, n>>] \notin {"open", "closing"}
  BY <1>1, AwakeOwned, LastReturned DEF Good, LastPcs
<1> USE DEF CancelEffect
<1>3. \A j \in Jobs : Bound(q, j) = Bound(p, j) /\ (Busy(q, j) <=> Busy(p, j))
  BY DEF Bound, Busy
<1>4. InOrder(q)
  BY <1>3 DEF Good, InOrder
<1>5. Numbered(q, n)
  BY <1>3 DEF Good, Numbered
<1>6. Asked(q) /\ Owned(q, n)
  BY <1>2 DEF Asked, Owned, Terminal
<1>7. Reported(q)
  <2>1. \A x \in Steps : q.steps[x] = "completed" => q.run[x] = "completed"
    BY ResultStep DEF Good, Reported
  <2>2. \A x \in Steps : q.steps[x] = "running" => x \in q.ran
    BY DEF Good, Reported
  <2> QED BY <2>1, <2>2 DEF Good, Reported
<1>8. ASSUME Tidy(p, TRUE) PROVE NoneRunning(q) /\ Recorded(q) /\ Final(q)
  <2>1. \A x \in Steps : p.steps[x] # "running"
    BY <1>8 DEF Tidy
  <2>2. ASSUME NEW x \in Steps PROVE q.steps[x] \notin {"pending", "running"}
    <3>1. CASE x \in p.ran
      <4>1. x \in Jobs /\ p.run[x] # "none" /\ p.bound[x] # 0
        BY <3>1 DEF Good, InOrder, Reported, Jobs
      <4>2. p.session[Bound(p, x)] = "closed"
        BY <1>8, <4>1 DEF Tidy, AllClosed
      <4>3. ~ Busy(p, x)
        BY <4>1, <4>2 DEF Good, Numbered
      <4>4. p.run[x] \in Outcomes
        BY <4>1, <4>3 DEF Busy, Record
      <4> QED BY <3>1, <4>4, ResultStep DEF Terminal
    <3>2. CASE x \notin p.ran
      BY <2>1, <3>2
    <3> QED BY <3>1, <3>2
  <2> QED BY <1>8, <2>2 DEF NoneRunning, Recorded, Final, Tidy
<1> QED BY <1>2, <1>4, <1>5, <1>6, <1>7, <1>8

\* finishCancelled leaves a cancelled plan with no step open.
LEMMA CancelledGood ==
    ASSUME NEW n \in Processes, NEW p \in Record, NEW broken, Good(p, n, TRUE, broken),
           p.pc \in {"cancelClose", "caughtCancel"}, AllClosed(p)
    PROVE  /\ LET q == TaskDone(CancelEnds(p))
              IN Good(q, n, TRUE, broken) /\ (Tidy(p, TRUE) => Tidy(q, TRUE))
           /\ LET c == CancelEnds(p)
                  q == CloseCall(c, OwnSessions(c), "finalClose")
              IN Good(q, n, TRUE, broken) /\ (Tidy(p, TRUE) => Tidy(q, TRUE))
<1> DEFINE c == CancelEnds(p)
<1>1. CancelEffect(p, c)
  BY CancelFields
<1> HIDE DEF c
<1>2. c \in Record /\ c.status = "cancelled"
  BY <1>1 DEF CancelEffect
<1>3. /\ InOrder(c) /\ Reported(c) /\ Numbered(c, n) /\ Asked(c) /\ Owned(c, n)
      /\ \A j \in Jobs : c.session[<<j, n>>] \notin {"open", "closing"}
      /\ Tidy(p, TRUE) => NoneRunning(c) /\ Recorded(c) /\ Final(c)
  BY <1>1, CancelEndsGood
<1>4. Good(TaskDone(c), n, TRUE, broken) /\ (Tidy(p, TRUE) => Tidy(TaskDone(c), TRUE))
  <2>1. DoneEffect(c, TaskDone(c))
    BY <1>2, DoneFields
  <2> QED BY <1>2, <1>3, <2>1, DoneGood
<1>5. /\ OwnSessions(c) \in SUBSET Sessions /\ c.owned \subseteq OwnSessions(c)
      /\ "finalClose" \in LastPcs /\ StagedAt(c, "finalClose")
  BY <1>2, OwnSessionsType DEF LastPcs, StagedAt
<1>6. Good(CloseCall(c, OwnSessions(c), "finalClose"), n, TRUE, broken)
  BY <1>2, <1>3, <1>5, OwnNumbered, LastClose
<1>7. Tidy(p, TRUE) => Tidy(CloseCall(c, OwnSessions(c), "finalClose"), TRUE)
  BY <1>2, <1>3, <1>5, LastTidy
<1> QED BY <1>4, <1>6, <1>7 DEF c

\* The planning Session is closed and the plan becomes a draft.
LEMMA DraftGood ==
    ASSUME NEW n \in Processes, NEW p \in Record, NEW broken, Good(p, n, TRUE, broken),
           p.pc = "planClose", Returned(p), p.status # "cancelling", NEW deps \in Plans
    PROVE  LET q == TaskDone([p EXCEPT !.status = "draft", !.deps = deps,
                                       !.steps = [x \in Steps |-> "pending"]])
           IN Good(q, n, TRUE, broken) /\ (Tidy(p, TRUE) => Tidy(q, TRUE))
<1> DEFINE s == [x \in Steps |-> "pending"]
           d == [p EXCEPT !.status = "draft", !.deps = deps, !.steps = s]
<1>1. s \in [Steps -> Terminal \cup {"none", "pending", "running", "blocked"}]
      /\ \A x \in Steps : s[x] = "pending"
  OBVIOUS
<1> HIDE DEF s
<1>2. /\ d \in Record /\ d.status = "draft" /\ d.approved = p.approved
      /\ d.steps = s /\ d.deps = deps /\ d.bound = p.bound /\ d.ran = p.ran
      /\ d.session = p.session /\ d.run = p.run /\ d.owned = p.owned
      /\ d.asked = p.asked /\ d.stale = p.stale
  BY <1>1 DEF Record
<1> HIDE DEF d
<1>3. /\ p.status = "planning" /\ ~ p.approved /\ p.run[Planner] = "completed"
      /\ \A x \in Steps : p.run[x] = "none" /\ p.bound[x] = 0
  BY DEF Good, StagedAt, Held, InOrder
<1>4. \A j \in Jobs : Bound(d, j) = Bound(p, j) /\ (Busy(d, j) <=> Busy(p, j))
  BY <1>2 DEF Bound, Busy
<1>5. InOrder(d)
  BY <1>2, <1>3, <1>4 DEF Good, InOrder
<1>6. Reported(d)
  BY <1>1, <1>2 DEF Good, Reported
<1>7. Numbered(d, n)
  BY <1>2, <1>4 DEF Good, Numbered
<1>8. Asked(d)
  BY <1>2, <1>3 DEF Good, Asked, Terminal
<1>9. \A j \in Jobs : d.session[<<j, n>>] \notin {"open", "closing"}
  BY <1>2, LastReturned DEF Good
<1>10. d.bound[1] < n
  <2>1. 1 \in Steps
    BY WorkflowAssumption DEF Steps
  <2> QED BY <1>2, <1>3, <2>1 DEF Processes
<1>11. Tidy(p, TRUE) => NoneRunning(d) /\ Recorded(d) /\ Final(d)
  BY <1>1, <1>2 DEF Tidy, NoneRunning, Recorded, Final, Terminal
<1>12. DoneEffect(d, TaskDone(d))
  BY <1>2, DoneFields
<1>13. Good(TaskDone(d), n, TRUE, broken)
  BY <1>2, <1>5, <1>6, <1>7, <1>8, <1>9, <1>10, <1>12, DoneGood
<1>14. Tidy(p, TRUE) => Tidy(TaskDone(d), TRUE)
  BY <1>2, <1>5, <1>6, <1>7, <1>8, <1>9, <1>10, <1>11, <1>12, DoneGood
<1> QED BY <1>13, <1>14 DEF d, s

\* The process is gone: what it was closing is stuck.
LEMMA DeadGood ==
    ASSUME NEW n \in Processes, NEW p \in Record, NEW broken,
           InOrder(p), Reported(p), Numbered(p, n), Asked(p)
    PROVE  /\ Good(Dead(p), n, FALSE, broken)
           /\ Final(p) /\ (Recorded(p) \/ p.status \notin Terminal \cup {"draft", "absent"})
              => Tidy(Dead(p), FALSE)
<1> DEFINE s == [t \in Sessions |-> IF p.session[t] = "closing" THEN "stuck" ELSE p.session[t]]
           d == TaskDone(p)
           q == [d EXCEPT !.session = s]
<1>1. s \in [Sessions -> {"none", "open", "closing", "stuck", "closed"}]
      /\ \A t \in Sessions :
            s[t] = IF p.session[t] = "closing" THEN "stuck" ELSE p.session[t]
  BY DEF Record
<1>2. Dead(p) = q
  BY DEF Dead
<1> HIDE DEF s
<1>3. DoneEffect(p, d)
  BY DoneFields
<1> HIDE DEF d
<1>4. /\ q \in Record
      /\ q.status = p.status /\ q.approved = p.approved /\ q.steps = p.steps
      /\ q.deps = p.deps /\ q.bound = p.bound /\ q.ran = p.ran /\ q.session = s
      /\ q.run = p.run /\ q.pc = "idle" /\ q.owned = {} /\ ~ q.stale /\ q.asked = p.asked
  BY <1>1, <1>3 DEF DoneEffect, Record
<1> HIDE DEF q
<1>5. \A j \in Jobs : Bound(q, j) = Bound(p, j) /\ (Busy(q, j) <=> Busy(p, j))
  BY <1>4 DEF Bound, Busy
<1>6. InOrder(q) /\ Reported(q) /\ Asked(q)
  BY <1>4, <1>5 DEF InOrder, Reported, Asked
<1>7. Numbered(q, n)
  <2>1. \A j \in Jobs : p.bound[j] # 0 => Bound(p, j) \in Sessions
    BY BoundSession
  <2> QED BY <1>1, <1>4, <1>5, <2>1 DEF Numbered
<1>8. Good(q, n, FALSE, broken)
  BY <1>4, <1>6, <1>7 DEF Good, Poised, StagedAt
<1>9. Final(p) /\ (Recorded(p) \/ p.status \notin Terminal \cup {"draft", "absent"})
         => Tidy(q, FALSE)
  BY <1>4 DEF Tidy, Final, Recorded
<1> QED BY <1>2, <1>8, <1>9

\* The Runtime's constructor interrupts what a dead process left running.
LEMMA RecoveredKeeps ==
    ASSUME NEW n \in Processes, NEW p \in Record, NEW broken, Good(p, n, FALSE, broken)
    PROVE  LET q == Recovered(p) IN
           /\ q \in Record
           /\ q.status = p.status /\ q.approved = p.approved /\ q.steps = p.steps
           /\ q.bound = p.bound /\ q.ran = p.ran /\ q.pc = "idle" /\ q.owned = {}
           /\ InOrder(q) /\ Reported(q) /\ Numbered(q, n) /\ Asked(q)
           /\ \A j \in Jobs : ~ Busy(q, j) /\ ((q.run[j] = "none") <=> (p.run[j] = "none"))
<1> DEFINE s == [t \in Sessions |->
                  IF t = Bound(p, t[1]) /\ Busy(p, t[1]) THEN "closed" ELSE p.session[t]]
           r == [j \in Jobs |-> IF Busy(p, j) THEN "interrupted" ELSE p.run[j]]
           m == [p EXCEPT !.run = r]
           q == [p EXCEPT !.session = s, !.run = r]
<1>1. s \in [Sessions -> {"none", "open", "closing", "stuck", "closed"}]
      /\ \A t \in Sessions :
            s[t] = IF t = Bound(p, t[1]) /\ Busy(p, t[1]) THEN "closed" ELSE p.session[t]
  BY DEF Record
<1>2. r \in [Jobs -> Outcomes \cup {"none", "active", "stopping"}]
      /\ \A j \in Jobs : r[j] = IF Busy(p, j) THEN "interrupted" ELSE p.run[j]
  BY DEF Record, Outcomes
<1>3. Recovered(p) = q
  BY DEF Recovered
<1> HIDE DEF r, s
<1>4. RunsEffect(p, m)
  BY <1>2, RunsFields DEF Outcomes
<1>5. m \in Record /\ q \in Record
  BY <1>1, <1>2, <1>4 DEF RunsEffect, Record
<1>6. /\ q.status = m.status /\ q.approved = m.approved /\ q.steps = m.steps
      /\ q.deps = m.deps /\ q.bound = m.bound /\ q.ran = m.ran /\ q.session = s
      /\ q.run = m.run /\ q.pc = m.pc /\ q.owned = m.owned /\ q.stale = m.stale
      /\ q.asked = m.asked /\ m.run = r /\ m.session = p.session
      /\ m.status = p.status /\ m.approved = p.approved /\ m.steps = p.steps
      /\ m.bound = p.bound /\ m.ran = p.ran /\ m.pc = p.pc /\ m.owned = p.owned
      /\ m.stale = p.stale /\ m.asked = p.asked
  BY DEF Record
<1> HIDE DEF q, m
<1>7. /\ InOrder(m) /\ Reported(m) /\ Numbered(m, n)
      /\ \A j \in Jobs : (m.run[j] = "none") <=> (p.run[j] = "none")
  BY <1>4, RunsKeep DEF Good
<1>8. \A j \in Jobs : Bound(q, j) = Bound(p, j) /\ ~ Busy(q, j) /\ ~ Busy(m, j)
  BY <1>2, <1>6 DEF Bound, Busy
<1>9. InOrder(q) /\ Reported(q) /\ Asked(q)
  BY <1>7, <1>6, <1>8 DEF Good, InOrder, Reported, Asked
<1>10. Numbered(q, n)
  <2>1. ASSUME NEW t \in Sessions, t[2] > n PROVE s[t] = "none"
    <3>1. t[1] \in Jobs /\ p.session[t] = "none" /\ n < t[2]
      BY <2>1 DEF Good, Numbered, Sessions, Processes
    <3>2. t # Bound(p, t[1])
      BY <3>1 DEF Good, Numbered, Bound, Record, Processes, Sessions
    <3> QED BY <1>1, <3>1, <3>2
  <2> QED BY <1>6, <1>8, <2>1 DEF Good, Numbered
<1> QED BY <1>3, <1>7, <1>5, <1>6, <1>8, <1>9, <1>10 DEF Good

\* reconcile: what was submitted is adopted and told, what was not is given up.
LEMMA ReconciledGood ==
    ASSUME NEW n \in Processes, n + 1 \in Processes, NEW p \in Record, NEW broken,
           Good(p, n, FALSE, broken)
    PROVE  LET q == Reconciled(Recovered(p))
           IN Good(q, n + 1, TRUE, FALSE) /\ (Tidy(p, FALSE) => Tidy(q, TRUE))
<1> DEFINE c == Recovered(p)
<1>1. /\ c \in Record
      /\ c.status = p.status /\ c.approved = p.approved /\ c.steps = p.steps
      /\ c.bound = p.bound /\ c.ran = p.ran /\ c.pc = "idle" /\ c.owned = {}
      /\ InOrder(c) /\ Reported(c) /\ Numbered(c, n) /\ Asked(c)
      /\ \A j \in Jobs : ~ Busy(c, j) /\ ((c.run[j] = "none") <=> (p.run[j] = "none"))
  BY RecoveredKeeps
<1> HIDE DEF c
<1>2. n \in Nat /\ n < n + 1
  BY DEF Processes
<1>3. \A t \in Sessions : t[2] \in Nat
  BY DEF Sessions
<1>4. \A j \in Jobs : c.bound[j] \in Nat
  BY <1>1 DEF Record
<1>5. Numbered(c, n + 1)
  BY <1>1, <1>2, <1>3, <1>4 DEF Numbered
<1>6. \A j \in Jobs : c.session[<<j, n + 1>>] = "none"
  <2>1. \A j \in Jobs : <<j, n + 1>> \in Sessions
    BY SessionOf
  <2> QED BY <1>1, <1>2, <2>1 DEF Numbered
<1>7. CASE c.status \in Terminal \cup {"draft", "absent"}
  <2>1. Reconciled(c) = c
    BY <1>7 DEF Reconciled
  <2>2. Held(c, n + 1)
    BY <1>1, <1>6 DEF Held, LastPcs
  <2>3. 1 \in Jobs
    BY WorkflowAssumption DEF Jobs, Steps
  <2>4. Draft(c, n + 1, FALSE)
    BY <1>1, <1>2, <1>4, <2>3 DEF Draft, Numbered
  <2>5. Good(c, n + 1, TRUE, FALSE)
    BY <1>1, <1>5, <2>2, <2>4 DEF Good, Poised, StagedAt
  <2>6. ASSUME Tidy(p, FALSE) PROVE Tidy(c, TRUE)
    <3>1. Final(c) /\ Recorded(c)
      BY <1>1, <1>7, <2>6 DEF Tidy, Final, Recorded
    <3>2. \A x \in Steps : c.steps[x] # "running"
      <4>1. CASE c.status \in Terminal /\ c.approved
        BY <3>1, <4>1 DEF Final
      <4>2. CASE c.status = "draft"
        BY <1>1, <4>2 DEF Reported
      <4>3. CASE ~ c.approved
        BY <1>1, <4>3 DEF Reported, InOrder
      <4> QED BY <1>1, <1>7, <4>1, <4>2, <4>3 DEF Reported, Record
    <3> QED BY <1>1, <3>1, <3>2 DEF Tidy
  <2> QED BY <2>1, <2>5, <2>6 DEF c
<1>8. CASE c.status \notin Terminal \cup {"draft", "absent"}
  <2> DEFINE a == Adopted(c)
             ran == c.ran \cup {j \in Jobs : c.bound[j] # 0 /\ c.run[j] # "none"}
             old == [x \in Steps |->
                       IF x \in a.ran THEN ResultOf(a.steps[x], a.run[x]) ELSE a.steps[x]]
             s == [x \in Steps |->
                     CASE old[x] = "running" -> "interrupted"
                       [] old[x] = "pending" -> "blocked"
                       [] OTHER -> old[x]]
             b == [a EXCEPT !.steps = s]
             status == IF \A x \in Steps : b.steps[x] = "completed"
                       THEN "completed" ELSE "interrupted"
             q == [b EXCEPT !.status = status]
  <2>1. /\ a \in Record /\ a.ran = ran
        /\ a.status = c.status /\ a.approved = c.approved /\ a.steps = c.steps
        /\ a.deps = c.deps /\ a.bound = c.bound /\ a.session = c.session
        /\ a.run = c.run /\ a.pc = c.pc /\ a.owned = c.owned /\ a.stale = c.stale
        /\ a.asked = c.asked
    <3>1. ran \in SUBSET Jobs
      BY <1>1 DEF Record
    <3>2. a = [c EXCEPT !.ran = ran]
      BY DEF Adopted
    <3> HIDE DEF ran, a
    <3> QED BY <1>1, <3>1, <3>2 DEF Record
  <2>2. Reconciled(c) = q
    BY <1>8 DEF Reconciled
  <2> HIDE DEF a
  <2>3. \A x \in Steps :
           /\ old[x] \in Terminal \cup {"none", "pending", "running", "blocked"}
           /\ old[x] = "completed" => c.run[x] = "completed"
    <3>1. ASSUME NEW x \in Steps
          PROVE  /\ old[x] \in Terminal \cup {"none", "pending", "running", "blocked"}
                 /\ old[x] = "completed" => c.run[x] = "completed"
      <4>1. a.steps[x] \in Terminal \cup {"none", "pending", "running", "blocked"}
            /\ (a.steps[x] = "completed" => c.run[x] = "completed")
        BY <1>1, <2>1 DEF Record, Reported
      <4> QED BY <2>1, <4>1, ResultStep
    <3> QED BY <3>1
  <2> HIDE DEF old
  <2>4. /\ s \in [Steps -> Terminal \cup {"none", "pending", "running", "blocked"}]
        /\ \A x \in Steps : s[x] \notin {"pending", "running"}
        /\ \A x \in Steps : s[x] = "completed" => c.run[x] = "completed"
    BY <2>3 DEF Terminal
  <2> HIDE DEF s
  <2>5. b \in Record /\ b.steps = s
    BY <2>1, <2>4 DEF Record
  <2>6. status \in {"completed", "interrupted"}
         /\ (status = "completed" => \A x \in Steps : s[x] = "completed")
    BY <2>5
  <2> HIDE DEF status
  <2>7. /\ q \in Record
        /\ q.status \in {"completed", "interrupted"}
        /\ q.status = "completed" => \A x \in Steps : s[x] = "completed"
        /\ q.approved = c.approved /\ q.steps = s /\ q.deps = c.deps /\ q.bound = c.bound
        /\ q.ran = ran /\ q.session = c.session /\ q.run = c.run /\ q.pc = "idle"
        /\ q.owned = {}
    <3>1. /\ b.approved = a.approved /\ b.deps = a.deps /\ b.bound = a.bound
          /\ b.ran = a.ran /\ b.session = a.session /\ b.run = a.run /\ b.pc = a.pc
          /\ b.owned = a.owned
      BY <2>1 DEF Record
    <3> HIDE DEF b, ran
    <3>2. /\ q \in Record /\ q.status = status /\ q.steps = b.steps
          /\ q.approved = b.approved /\ q.deps = b.deps /\ q.bound = b.bound
          /\ q.ran = b.ran /\ q.session = b.session /\ q.run = b.run /\ q.pc = b.pc
          /\ q.owned = b.owned
      BY <2>5, <2>6 DEF Record, Terminal
    <3> QED BY <1>1, <2>1, <2>5, <2>6, <3>1, <3>2
  <2> HIDE DEF q, ran
  <2>8. q.status \in Terminal
    BY <2>7 DEF Terminal
  <2>9. \A j \in Jobs : Bound(q, j) = Bound(c, j) /\ (Busy(q, j) <=> Busy(c, j))
    BY <2>7 DEF Bound, Busy
  <2>10. InOrder(q)
    BY <1>1, <2>7, <2>9 DEF InOrder
  <2>11. Reported(q)
    <3>1. \A j \in q.ran : q.run[j] # "none"
      BY <1>1, <2>7 DEF Reported, ran
    <3> QED BY <1>1, <2>4, <2>7, <3>1 DEF Reported
  <2>12. Numbered(q, n + 1)
    BY <1>5, <2>7, <2>9 DEF Numbered
  <2>13. Held(q, n + 1) /\ Draft(q, n + 1, FALSE) /\ Asked(q) /\ StagedAt(q, q.pc) /\ Poised(q)
    BY <1>6, <2>7, <2>8 DEF Held, Draft, Asked, StagedAt, Poised, LastPcs, Terminal
  <2>14. Good(q, n + 1, TRUE, FALSE)
    BY <2>7, <2>10, <2>11, <2>12, <2>13 DEF Good
  <2>15. Tidy(q, TRUE)
    <3>1. Recorded(q)
      BY <1>1, <2>7 DEF Recorded, InOrder, ran
    <3> QED BY <2>4, <2>7, <3>1 DEF Tidy, Final
  <2> QED BY <2>2, <2>14, <2>15 DEF c
<1> QED BY <1>7, <1>8

\* A plan nobody has created.
LEMMA AbsentGood ==
    ASSUME NEW n \in Processes, NEW broken
    PROVE  /\ Absent \in Record /\ Good(Absent, n, TRUE, broken) /\ Tidy(Absent, TRUE)
<1>1. NoPlan \in Plans
  <2>1. NoPlan \in [Steps -> SUBSET Steps]
    BY DEF NoPlan
  <2>2. ASSUME NEW S \in (SUBSET Steps) \ {{}} PROVE \E x \in S : NoPlan[x] \cap S = {}
    <3>1. PICK x \in S : TRUE
      BY Zenon
    <3>2. NoPlan[x] = {}
      BY <3>1 DEF NoPlan
    <3> QED BY <3>1, <3>2
  <2> QED BY <2>1, <2>2 DEF Plans, Acyclic
<1>2. 1 \in Steps
  BY WorkflowAssumption DEF Steps
<1>3. 0 \in 0 .. MaxStarts + 1
  BY WorkflowAssumption
<1>4. Absent \in Record
  BY <1>1, <1>2, <1>3 DEF Absent, Record, Terminal
<1>5. /\ Absent.status = "absent" /\ ~ Absent.approved /\ Absent.ran = {} /\ Absent.pc = "idle"
      /\ Absent.owned = {} /\ ~ Absent.asked /\ ~ Absent.stale
      /\ \A x \in Steps : Absent.steps[x] = "none"
      /\ \A j \in Jobs : Absent.bound[j] = 0 /\ Absent.run[j] = "none"
      /\ \A t \in Sessions : Absent.session[t] = "none"
  BY DEF Absent
<1>6. \A j \in Jobs : ~ Busy(Absent, j) /\ Absent.session[<<j, n>>] = "none"
  BY <1>5, SessionOf DEF Busy
<1>7. InOrder(Absent) /\ Reported(Absent)
  BY <1>5, <1>6 DEF InOrder, Reported, Jobs
<1>8. Numbered(Absent, n)
  BY <1>5, <1>6 DEF Numbered, Processes
<1>9. Good(Absent, n, TRUE, broken)
  BY <1>4, <1>5, <1>6, <1>7, <1>8
     DEF Good, Poised, Asked, StagedAt, Held, Draft, LastPcs, Terminal
<1>10. Tidy(Absent, TRUE)
  BY <1>5 DEF Tidy, Final, Recorded, Terminal
<1> QED BY <1>4, <1>9, <1>10

\* createSession for one job; the record does not name the Session yet.
NewEffect(p, j, n, q) ==
    /\ q \in Record
    /\ q.status = p.status /\ q.approved = p.approved /\ q.steps = p.steps
    /\ q.deps = p.deps /\ q.bound = p.bound /\ q.ran = p.ran /\ q.run = p.run
    /\ q.tools = p.tools /\ q.pc = p.pc /\ q.at = p.at /\ q.stale = p.stale
    /\ q.waits = p.waits /\ q.asked = p.asked /\ q.owned = p.owned \cup {<<j, n>>}
    /\ \A t \in Sessions : q.session[t] = IF t = <<j, n>> THEN "open" ELSE p.session[t]

\* createSession does what NewEffect says.
LEMMA NewFields ==
    ASSUME NEW n \in Processes, NEW p \in Record, NEW j \in Jobs
    PROVE  NewEffect(p, j, n, NewSession(p, j, n))
<1> DEFINE s == [p.session EXCEPT ![<<j, n>>] = "open"]
           o == p.owned \cup {<<j, n>>}
           q == [p EXCEPT !.session = s, !.owned = o]
<1>1. /\ s \in [Sessions -> {"none", "open", "closing", "stuck", "closed"}]
      /\ o \in SUBSET Sessions /\ o = p.owned \cup {<<j, n>>}
      /\ \A t \in Sessions : s[t] = IF t = <<j, n>> THEN "open" ELSE p.session[t]
  BY SessionOf DEF Record
<1>2. NewSession(p, j, n) = q
  BY DEF NewSession
<1> HIDE DEF s, o
<1>3. q \in Record
  BY <1>1 DEF Record
<1>4. NewEffect(p, j, n, q)
  BY <1>1, <1>3 DEF NewEffect, Record
<1> QED BY <1>2, <1>4

\* A Session just created carries the number of this process.
LEMMA NewGood ==
    ASSUME NEW n \in Processes, NEW p \in Record, NEW j \in Jobs,
           InOrder(p), Reported(p), Numbered(p, n), Asked(p), Owned(p, n),
           NEW q, NewEffect(p, j, n, q)
    PROVE  InOrder(q) /\ Reported(q) /\ Numbered(q, n) /\ Asked(q) /\ Owned(q, n)
<1> USE DEF NewEffect
<1>1. \A i \in Jobs : Bound(q, i) = Bound(p, i) /\ (Busy(q, i) <=> Busy(p, i))
  BY DEF Bound, Busy
<1>2. InOrder(q) /\ Reported(q) /\ Asked(q)
  BY <1>1 DEF InOrder, Reported, Asked
<1>3. Numbered(q, n)
  <2>1. \A i \in Jobs : p.bound[i] # 0 => Bound(p, i) \in Sessions
    BY BoundSession
  <2>2. n <= n /\ ~ (n > n)
    BY DEF Processes
  <2> QED BY <1>1, <2>1, <2>2 DEF Numbered
<1>4. Owned(q, n)
  BY SessionOf DEF Owned
<1> QED BY <1>2, <1>3, <1>4

\* approve: the first k steps have their Sessions, and the record names them.
FirstEffect(p, k, n, q) ==
    /\ q \in Record
    /\ q.status = p.status /\ q.approved = p.approved /\ q.steps = p.steps
    /\ q.deps = p.deps /\ q.ran = p.ran /\ q.run = p.run
    /\ q.tools = p.tools /\ q.pc = p.pc /\ q.at = p.at /\ q.stale = p.stale
    /\ q.waits = p.waits /\ q.asked = p.asked
    /\ q.owned = p.owned \cup {<<x, n>> : x \in 1 .. k}
    /\ \A t \in Sessions :
          q.session[t] = IF t[1] \in 1 .. k /\ t[2] = n THEN "open" ELSE p.session[t]
    /\ \A j \in Jobs : q.bound[j] = IF j \in 1 .. k THEN n ELSE p.bound[j]

\* Creating the first Sessions does what FirstEffect says.
LEMMA FirstFields ==
    ASSUME NEW n \in Processes, NEW p \in Record, NEW k \in 0 .. N
    PROVE  FirstEffect(p, k, n, FirstBound(p, k, n))
<1> DEFINE s == [t \in Sessions |->
                   IF t[1] \in 1 .. k /\ t[2] = n THEN "open" ELSE p.session[t]]
           o == p.owned \cup {<<x, n>> : x \in 1 .. k}
           b == [j \in Jobs |-> IF j \in 1 .. k THEN n ELSE p.bound[j]]
           q == [p EXCEPT !.session = s, !.owned = o, !.bound = b]
<1>1. 1 .. k \subseteq Jobs
  BY WorkflowAssumption DEF Jobs, Steps
<1>2. /\ s \in [Sessions -> {"none", "open", "closing", "stuck", "closed"}]
      /\ \A t \in Sessions :
            s[t] = IF t[1] \in 1 .. k /\ t[2] = n THEN "open" ELSE p.session[t]
  BY DEF Record
<1>3. o \in SUBSET Sessions /\ o = p.owned \cup {<<x, n>> : x \in 1 .. k}
  BY <1>1, SessionOf DEF Record
<1>4. /\ b \in [Jobs -> 0 .. MaxStarts + 1]
      /\ \A j \in Jobs : b[j] = IF j \in 1 .. k THEN n ELSE p.bound[j]
  <2>1. n \in 0 .. MaxStarts + 1 /\ p.bound \in [Jobs -> 0 .. MaxStarts + 1]
    BY WorkflowAssumption DEF Record, Processes
  <2> QED BY <2>1
<1>5. FirstBound(p, k, n) = q
  BY DEF FirstBound
<1> HIDE DEF s, o, b
<1>6. q \in Record
  BY <1>2, <1>3, <1>4 DEF Record
<1>7. /\ q.status = p.status /\ q.approved = p.approved /\ q.steps = p.steps
      /\ q.deps = p.deps /\ q.ran = p.ran /\ q.run = p.run
      /\ q.tools = p.tools /\ q.pc = p.pc /\ q.at = p.at /\ q.stale = p.stale
      /\ q.waits = p.waits /\ q.asked = p.asked
      /\ q.owned = o /\ q.session = s /\ q.bound = b
  BY DEF Record
<1> HIDE DEF q
<1>8. FirstEffect(p, k, n, q)
  BY <1>2, <1>3, <1>4, <1>6, <1>7 DEF FirstEffect
<1> QED BY <1>5, <1>8 DEF q

\* A plan with some of its Sessions keeps its order and its numbers.
LEMMA FirstGood ==
    ASSUME NEW n \in Processes, NEW p \in Record, NEW k \in 0 .. N,
           InOrder(p), Reported(p), Numbered(p, n), Asked(p), Owned(p, n), ~ p.approved,
           NEW q, FirstEffect(p, k, n, q)
    PROVE  InOrder(q) /\ Reported(q) /\ Numbered(q, n) /\ Asked(q) /\ Owned(q, n)
<1> USE DEF FirstEffect
<1>0. n # 0 /\ n <= n /\ ~ (n > n)
  BY DEF Processes
<1>1. \A i \in Jobs : /\ Busy(q, i) <=> Busy(p, i)
                      /\ i \notin 1 .. k => Bound(q, i) = Bound(p, i)
                      /\ i \in 1 .. k => Bound(q, i) = <<i, n>>
  BY DEF Bound, Busy
<1>2. InOrder(q)
  BY <1>0, <1>1 DEF InOrder
<1>3. Reported(q) /\ Asked(q)
  BY DEF Reported, Asked
<1>4. Numbered(q, n)
  <2>1. \A i \in Jobs : q.bound[i] <= n
    BY <1>0 DEF Numbered
  <2>2. \A t \in Sessions : t[2] > n => q.session[t] = "none"
    BY <1>0 DEF Numbered
  <2>3. \A t \in q.owned : t[2] <= n
    BY <1>0 DEF Numbered
  <2>4. ASSUME NEW i \in Jobs, q.bound[i] # 0, q.session[Bound(q, i)] = "closed"
        PROVE  ~ Busy(q, i)
    <3>1. CASE i \in 1 .. k
      <4>1. q.session[<<i, n>>] = "open"
        BY <3>1, SessionOf
      <4> QED BY <1>1, <2>4, <3>1, <4>1
    <3>2. CASE i \notin 1 .. k
      <4>1. p.bound[i] # 0 /\ Bound(q, i) = Bound(p, i)
        BY <1>1, <2>4, <3>2
      <4>2. Bound(p, i) \in Sessions /\ Bound(p, i)[1] = i
        BY <4>1, BoundSession
      <4>3. p.session[Bound(p, i)] = "closed"
        BY <2>4, <3>2, <4>1, <4>2
      <4> QED BY <1>1, <4>1, <4>3 DEF Numbered
    <3> QED BY <3>1, <3>2
  <2> QED BY <2>1, <2>2, <2>3, <2>4 DEF Numbered
<1>5. Owned(q, n)
  BY SessionOf DEF Owned
<1> QED BY <1>2, <1>3, <1>4, <1>5

\* A plan that fails before its first run, as approve makes it.
LEMMA FailGood ==
    ASSUME NEW n \in Processes, NEW p \in Record,
           InOrder(p), Reported(p), Numbered(p, n), Asked(p), Owned(p, n), ~ p.approved,
           NEW broken
    PROVE  LET r == [p EXCEPT !.status = "failed"]
               q == CloseCall(r, OwnSessions(r), "failClose")
           IN Good(q, n, TRUE, broken) /\ (NoneRunning(p) /\ Recorded(p) => Tidy(q, TRUE))
<1> DEFINE r == [p EXCEPT !.status = "failed"]
<1>1. /\ r \in Record /\ r.status = "failed" /\ r.approved = p.approved
      /\ r.steps = p.steps /\ r.deps = p.deps /\ r.bound = p.bound /\ r.ran = p.ran
      /\ r.session = p.session /\ r.run = p.run /\ r.owned = p.owned
  BY DEF Record, Terminal
<1> HIDE DEF r
<1>2. \A j \in Jobs : Bound(r, j) = Bound(p, j) /\ (Busy(r, j) <=> Busy(p, j))
  BY <1>1 DEF Bound, Busy
<1>3. InOrder(r) /\ Reported(r) /\ Numbered(r, n)
  BY <1>1, <1>2 DEF InOrder, Reported, Numbered
<1>4. Asked(r) /\ Owned(r, n)
  BY <1>1 DEF Asked, Owned, Terminal
<1>5. /\ OwnSessions(r) \in SUBSET Sessions /\ r.owned \subseteq OwnSessions(r)
      /\ "failClose" \in LastPcs /\ StagedAt(r, "failClose")
  BY <1>1, OwnSessionsType DEF LastPcs, StagedAt
<1>6. NoneRunning(p) /\ Recorded(p) => NoneRunning(r) /\ Recorded(r) /\ Final(r)
  BY <1>1 DEF NoneRunning, Recorded, Final
<1>7. Good(CloseCall(r, OwnSessions(r), "failClose"), n, TRUE, broken)
  BY <1>1, <1>3, <1>4, <1>5, OwnNumbered, LastClose
<1>8. NoneRunning(p) /\ Recorded(p) => Tidy(CloseCall(r, OwnSessions(r), "failClose"), TRUE)
  BY <1>1, <1>5, <1>6, LastTidy
<1> QED BY <1>7, <1>8 DEF r

\* create, up to the planner's run.
LEMMA CreateParts ==
    ASSUME starts + 1 \in Processes, NEW p \in {Planning, PlannerBound, PlannerRuns}
    PROVE  /\ p \in Record /\ p.status = "planning" /\ ~ p.approved /\ p.pc = "idle"
           /\ InOrder(p) /\ Reported(p) /\ Numbered(p, starts + 1) /\ Asked(p)
           /\ Owned(p, starts + 1) /\ NoneRunning(p) /\ Final(p)
           /\ p \in {Planning, PlannerBound} => Recorded(p)
           /\ p.owned \subseteq {<<Planner, starts + 1>>}
           /\ \A x \in Steps : p.bound[x] = 0
           /\ p = PlannerRuns => p.bound[Planner] = starts + 1 /\ p.run[Planner] = "active"
<1> DEFINE n == starts + 1
<1>1. n \in Processes
  OBVIOUS
<1> HIDE DEF n
<1>2. \A x \in Steps : x \in Jobs /\ x # Planner
  BY WorkflowAssumption DEF Jobs
<1>3. Planner \in Jobs
  BY DEF Jobs
<1>4. Absent \in Record
  BY <1>1, AbsentGood
<1>5. /\ Absent.run = [j \in Jobs |-> "none"] /\ Absent.bound = [j \in Jobs |-> 0]
      /\ Absent.session = [t \in Sessions |-> "none"] /\ Absent.steps = [x \in Steps |-> "none"]
      /\ ~ Absent.approved /\ Absent.ran = {} /\ Absent.owned = {} /\ Absent.pc = "idle"
      /\ ~ Absent.asked /\ ~ Absent.stale
  BY DEF Absent
<1>6. /\ Planning \in Record /\ Planning.status = "planning"
      /\ Planning.run = Absent.run /\ Planning.bound = Absent.bound
      /\ Planning.session = Absent.session /\ Planning.steps = Absent.steps
      /\ ~ Planning.approved /\ Planning.ran = {} /\ Planning.owned = {}
      /\ Planning.pc = "idle" /\ ~ Planning.asked /\ ~ Planning.stale
  <2> DEFINE a == Absent
  <2>1. a \in Record /\ Planning = [a EXCEPT !.status = "planning"]
    BY <1>4 DEF Planning
  <2> HIDE DEF a
  <2>2. Planning \in Record /\ Planning.status = "planning"
        /\ Planning.run = a.run /\ Planning.bound = a.bound
        /\ Planning.session = a.session /\ Planning.steps = a.steps
        /\ Planning.approved = a.approved /\ Planning.ran = a.ran /\ Planning.owned = a.owned
        /\ Planning.pc = a.pc /\ Planning.asked = a.asked /\ Planning.stale = a.stale
    BY <2>1 DEF Record
  <2> QED BY <1>5, <2>2 DEF a
<1> DEFINE s == NewSession(Planning, Planner, n)
           b == [s.bound EXCEPT ![Planner] = n]
           r == [s.run EXCEPT ![Planner] = "active"]
<1>7. NewEffect(Planning, Planner, n, s)
  BY <1>1, <1>3, <1>6, NewFields
<1> HIDE DEF s
<1>8. /\ b \in [Jobs -> 0 .. MaxStarts + 1]
      /\ \A j \in Jobs : b[j] = IF j = Planner THEN n ELSE 0
  <2>1. n \in 0 .. MaxStarts + 1
    BY <1>1, WorkflowAssumption DEF Processes
  <2> QED BY <1>3, <1>5, <1>6, <1>7, <2>1 DEF NewEffect, Record
<1>9. /\ r \in [Jobs -> Outcomes \cup {"none", "active", "stopping"}]
      /\ \A j \in Jobs : r[j] = IF j = Planner THEN "active" ELSE "none"
  BY <1>3, <1>5, <1>6, <1>7 DEF NewEffect, Record
<1> HIDE DEF b, r
<1>10. /\ PlannerBound \in Record /\ PlannerBound.status = "planning"
       /\ PlannerBound.run = s.run /\ PlannerBound.bound = b
       /\ PlannerBound.session = s.session /\ PlannerBound.steps = s.steps
       /\ PlannerBound.approved = s.approved /\ PlannerBound.ran = s.ran
       /\ PlannerBound.owned = s.owned /\ PlannerBound.pc = s.pc
       /\ PlannerBound.asked = s.asked /\ PlannerBound.stale = s.stale
  <2>1. PlannerBound = [s EXCEPT !.bound = b]
    BY DEF PlannerBound, Bind, s, b, n
  <2> QED BY <1>6, <1>7, <1>8, <2>1 DEF NewEffect, Record
<1>11. /\ PlannerRuns \in Record /\ PlannerRuns.status = "planning"
       /\ PlannerRuns.run = r /\ PlannerRuns.bound = b
       /\ PlannerRuns.session = s.session /\ PlannerRuns.steps = s.steps
       /\ PlannerRuns.approved = s.approved /\ PlannerRuns.ran = s.ran
       /\ PlannerRuns.owned = s.owned /\ PlannerRuns.pc = s.pc
       /\ PlannerRuns.asked = s.asked /\ PlannerRuns.stale = s.stale
  <2> DEFINE u == PlannerBound
  <2>1. PlannerRuns = [u EXCEPT !.run = [u.run EXCEPT ![Planner] = "active"]]
    BY DEF PlannerRuns
  <2>2. PlannerRuns = [u EXCEPT !.run = r]
    BY <1>10, <2>1 DEF r
  <2>3. u \in Record
    BY <1>10
  <2>4. /\ PlannerRuns \in Record /\ PlannerRuns.status = u.status
        /\ PlannerRuns.run = r /\ PlannerRuns.bound = u.bound
        /\ PlannerRuns.session = u.session /\ PlannerRuns.steps = u.steps
        /\ PlannerRuns.approved = u.approved /\ PlannerRuns.ran = u.ran
        /\ PlannerRuns.owned = u.owned /\ PlannerRuns.pc = u.pc
        /\ PlannerRuns.asked = u.asked /\ PlannerRuns.stale = u.stale
    <3> HIDE DEF u
    <3> QED BY <1>9, <2>2, <2>3 DEF Record
  <2> QED BY <1>10, <2>4
<1>12. /\ p \in Record /\ p.status = "planning" /\ ~ p.approved /\ p.pc = "idle"
       /\ ~ p.asked /\ ~ p.stale /\ p.ran = {}
       /\ p.owned \in {{}, {<<Planner, n>>}}
       /\ \A x \in Steps : p.steps[x] = "none" /\ p.bound[x] = 0
       /\ \A j \in Jobs : p.run[j] = "none" \/ (j = Planner /\ p.run[j] = "active")
       /\ \A t \in Sessions : \/ p.session[t] = "none"
                              \/ p.session[t] = "open" /\ t = <<Planner, n>> /\ t \in p.owned
       /\ \/ p # PlannerRuns \/ p.run[Planner] = "active"
       /\ \A j \in Jobs : p.run[j] # "none" => p.bound[j] = n
       /\ p.bound[Planner] \in {0, n}
       /\ p = PlannerRuns => p.bound[Planner] = n /\ p.run[Planner] = "active"
       /\ p \in {Planning, PlannerBound} => \A j \in Jobs : p.run[j] = "none"
  <2>1. CASE p = Planning
    <3>1. p # PlannerRuns
      BY <1>3, <1>5, <1>6, <1>9, <1>11, <2>1
    <3> QED BY <1>2, <1>3, <1>5, <1>6, <2>1, <3>1
  <2>2. CASE p = PlannerBound
    <3>1. p # PlannerRuns
      BY <1>3, <1>5, <1>6, <1>7, <1>9, <1>10, <1>11, <2>2 DEF NewEffect
    <3> QED BY <1>2, <1>3, <1>5, <1>6, <1>7, <1>8, <1>10, <2>2, <3>1 DEF NewEffect
  <2>3. CASE p = PlannerRuns
    <3>1. p \notin {Planning, PlannerBound}
      BY <1>3, <1>5, <1>6, <1>7, <1>9, <1>10, <1>11, <2>3 DEF NewEffect
    <3> QED BY <1>2, <1>3, <1>5, <1>6, <1>7, <1>8, <1>9, <1>11, <2>3, <3>1 DEF NewEffect
  <2> QED BY <2>1, <2>2, <2>3
<1>13. n # 0 /\ n <= n /\ ~ (n > n) /\ 0 <= n
  BY <1>1 DEF Processes
<1>14. \A j \in Jobs : Busy(p, j) => j = Planner
  BY <1>12 DEF Busy
<1>15. InOrder(p)
  BY <1>2, <1>12, <1>13, <1>14 DEF InOrder
<1>16. Reported(p) /\ Asked(p) /\ NoneRunning(p) /\ Final(p)
  BY <1>12 DEF Reported, Asked, NoneRunning, Final, Terminal
<1>17. Numbered(p, n)
  <2>1. \A j \in Jobs : p.bound[j] <= n
    BY <1>12, <1>13 DEF Jobs
  <2>2. \A t \in Sessions : t[2] > n => p.session[t] = "none"
    BY <1>12, <1>13
  <2>3. \A t \in p.owned : t[2] <= n
    BY <1>12, <1>13
  <2>4. \A j \in Jobs : p.bound[j] # 0 => p.session[Bound(p, j)] # "closed"
    BY <1>12, BoundSession
  <2> QED BY <2>1, <2>2, <2>3, <2>4 DEF Numbered
<1>18. Owned(p, n) /\ (p \in {Planning, PlannerBound} => Recorded(p))
  BY <1>1, <1>12, SessionOf DEF Owned, Recorded
<1> QED BY <1>12, <1>15, <1>16, <1>17, <1>18 DEF n

\* create: the planner runs, or a Session or a submission was refused.
LEMMA CreateGood ==
    ASSUME starts + 1 \in Processes, NEW broken,
           NEW q \in {[PlannerRuns EXCEPT !.ran = {Planner}, !.pc = "planPoll"],
                      Caught(Planning, FALSE), Caught(PlannerBound, FALSE)}
    PROVE  Good(q, starts + 1, TRUE, broken) /\ Tidy(q, TRUE)
<1> DEFINE n == starts + 1
<1>1. n \in Processes
  OBVIOUS
<1>2. CASE q \in {Caught(Planning, FALSE), Caught(PlannerBound, FALSE)}
  <2>1. PICK p \in {Planning, PlannerBound} : q = Caught(p, FALSE)
    BY <1>2
  <2>2. /\ p \in Record /\ InOrder(p) /\ Reported(p) /\ Numbered(p, n) /\ Asked(p)
        /\ Owned(p, n) /\ NoneRunning(p) /\ Recorded(p)
    BY CreateParts
  <2> HIDE DEF n
  <2>3. Good(q, n, TRUE, broken) /\ Tidy(q, TRUE)
    BY <1>1, <2>1, <2>2, CaughtGood
  <2> QED BY <2>3 DEF n
<1>3. CASE q = [PlannerRuns EXCEPT !.ran = {Planner}, !.pc = "planPoll"]
  <2> DEFINE p == PlannerRuns
  <2>1. /\ p \in Record /\ p.status = "planning" /\ ~ p.approved
        /\ InOrder(p) /\ Reported(p) /\ Numbered(p, n) /\ Asked(p)
        /\ Owned(p, n) /\ NoneRunning(p)
        /\ p.owned \subseteq {<<Planner, n>>} /\ \A x \in Steps : p.bound[x] = 0
        /\ p.bound[Planner] = n /\ p.run[Planner] = "active"
    BY CreateParts
  <2> HIDE DEF n, p
  <2>2. /\ q \in Record
        /\ q.status = p.status /\ q.approved = p.approved /\ q.steps = p.steps
        /\ q.deps = p.deps /\ q.bound = p.bound /\ q.ran = {Planner}
        /\ q.session = p.session /\ q.run = p.run /\ q.pc = "planPoll"
        /\ q.stale = p.stale /\ q.owned = p.owned /\ q.asked = p.asked
    <3>1. q = [p EXCEPT !.ran = {Planner}, !.pc = "planPoll"]
      BY <1>3 DEF p
    <3> QED BY <2>1, <3>1 DEF Record, Jobs
  <2>3. \A j \in Jobs : Bound(q, j) = Bound(p, j) /\ (Busy(q, j) <=> Busy(p, j))
    BY <2>2 DEF Bound, Busy
  <2>4. \A x \in Steps : p.run[x] = "none"
    BY <2>1 DEF InOrder
  <2>5. InOrder(q)
    BY <2>1, <2>2, <2>3 DEF InOrder
  <2>6. Reported(q)
    <3>1. \A x \in Steps : q.steps[x] # "running"
      BY <2>1, <2>2 DEF NoneRunning
    <3> QED BY <2>1, <2>2, <3>1 DEF Reported
  <2>7. Numbered(q, n)
    BY <2>1, <2>2, <2>3 DEF Numbered
  <2>8. Poised(q) /\ Asked(q) /\ StagedAt(q, q.pc) /\ Held(q, n) /\ Draft(q, n, broken)
    BY <2>1, <2>2 DEF Poised, Asked, StagedAt, Held, Owned, Draft, LastPcs, PollPcs, Terminal
  <2>9. Tidy(q, TRUE)
    <3>1. Recorded(q)
      BY <2>2, <2>4 DEF Recorded, Jobs
    <3> QED BY <2>1, <2>2, <3>1 DEF Tidy, Final, NoneRunning, Terminal
  <2> QED BY <2>2, <2>5, <2>6, <2>7, <2>8, <2>9 DEF Good, n
<1> QED BY <1>2, <1>3

\* A draft that can be approved: its task is idle and its steps wait.
LEMMA DraftParts ==
    ASSUME NEW n \in Processes, NEW p \in Record, Good(p, n, TRUE, FALSE),
           p.status = "draft", ~ p.approved
    PROVE  /\ InOrder(p) /\ Reported(p) /\ Numbered(p, n) /\ Asked(p) /\ Owned(p, n)
           /\ p.pc = "idle" /\ p.owned = {} /\ p.bound[1] < n
           /\ p.run[Planner] = "completed" /\ NoneRunning(p)
           /\ \A x \in Steps : p.steps[x] = "pending" /\ p.run[x] = "none"
           /\ \A j \in Jobs : ~ Busy(p, j)
<1>1. p.pc = "idle" /\ p.bound[1] < n /\ p.owned = {}
  BY DEF Good, Draft, Held
<1>2. Owned(p, n)
  BY <1>1, AwakeOwned DEF Good
<1>3. p.run[Planner] = "completed" /\ \A x \in Steps : p.steps[x] = "pending" /\ p.run[x] = "none"
  BY DEF Good, InOrder, Reported
<1>4. \A j \in Jobs : ~ Busy(p, j)
  BY <1>3 DEF Busy, Jobs
<1> QED BY <1>1, <1>2, <1>3, <1>4 DEF Good, NoneRunning

\* An approved plan is ready for its first turn.
LEMMA ApprovedGood ==
    ASSUME NEW n \in Processes, NEW p \in Record, Good(p, n, TRUE, FALSE),
           p.status = "draft", ~ p.approved
    PROVE  LET q == Approved(p, n) IN
           /\ q \in Record /\ q.status = "running"
           /\ InOrder(q) /\ Reported(q) /\ Numbered(q, n) /\ Asked(q) /\ Owned(q, n)
           /\ MayGoOn(q) /\ NoneRunning(q) /\ Ready(q) # {}
           /\ Recorded(p) => Recorded(q)
<1> DEFINE f == FirstBound(p, N, n)
           q == [f EXCEPT !.approved = TRUE, !.status = "running"]
<1>1. /\ InOrder(p) /\ Reported(p) /\ Numbered(p, n) /\ Asked(p) /\ Owned(p, n)
      /\ p.run[Planner] = "completed"
      /\ \A x \in Steps : p.steps[x] = "pending" /\ p.run[x] = "none"
      /\ \A j \in Jobs : ~ Busy(p, j)
  BY DraftParts
<1>2. N \in 0 .. N /\ 1 .. N = Steps /\ n # 0
  BY WorkflowAssumption DEF Steps, Processes
<1>3. FirstEffect(p, N, n, f)
  BY <1>2, FirstFields
<1>4. InOrder(f) /\ Reported(f) /\ Numbered(f, n) /\ Asked(f) /\ Owned(f, n)
  BY <1>1, <1>2, <1>3, FirstGood
<1>5. Approved(p, n) = q
  BY DEF Approved
<1> HIDE DEF f
<1>6. f \in Record /\ f.run = p.run /\ f.steps = p.steps /\ f.ran = p.ran /\ f.asked = p.asked
      /\ f.stale = p.stale
  BY <1>3 DEF FirstEffect
<1>7. /\ q \in Record /\ q.status = "running" /\ q.approved
      /\ q.steps = f.steps /\ q.deps = f.deps /\ q.bound = f.bound /\ q.ran = f.ran
      /\ q.session = f.session /\ q.run = f.run /\ q.stale = f.stale
      /\ q.owned = f.owned /\ q.asked = f.asked
  BY <1>6 DEF Record
<1> HIDE DEF q
<1>8. \A j \in Jobs : Bound(q, j) = Bound(f, j) /\ (Busy(q, j) <=> Busy(f, j)) /\ ~ Busy(q, j)
  BY <1>1, <1>6, <1>7 DEF Bound, Busy
<1>9. InOrder(q)
  BY <1>1, <1>4, <1>6, <1>7, <1>8 DEF InOrder
<1>10. Reported(q)
  BY <1>1, <1>4, <1>6, <1>7 DEF Reported
<1>11. Numbered(q, n)
  BY <1>4, <1>7, <1>8 DEF Numbered
<1>12. Asked(q)
  BY <1>1, <1>6, <1>7 DEF Asked, Terminal
<1>13. Owned(q, n)
  BY <1>4, <1>7 DEF Owned
<1>14. MayGoOn(q) /\ NoneRunning(q)
  <2>1. ASSUME NEW x \in Steps
        PROVE  q.run[x] = "none" /\ q.bound[x] # 0 /\ q.session[Bound(q, x)] = "open"
    <3>1. x \in Jobs /\ <<x, n>> \in Sessions
      BY SessionOf DEF Jobs
    <3>2. q.bound[x] = n /\ q.session[<<x, n>>] = "open" /\ Bound(q, x) = <<x, n>>
      BY <1>2, <1>3, <1>7, <3>1 DEF FirstEffect, Bound
    <3> QED BY <1>1, <1>2, <1>6, <1>7, <3>2
  <2> QED BY <1>1, <1>6, <1>7, <1>8, <2>1 DEF MayGoOn, Waiting, NoneRunning
<1>15. Ready(q) # {}
  <2>1. q.deps \in [Steps -> SUBSET Steps] /\ Acyclic(q.deps)
    BY <1>7 DEF Record, Plans
  <2>2. Steps \in (SUBSET Steps) \ {{}}
    BY WorkflowAssumption DEF Steps
  <2>3. PICK x \in Steps : q.deps[x] \cap Steps = {}
    BY <2>1, <2>2 DEF Acyclic
  <2>4. q.deps[x] = {}
    BY <2>1, <2>3
  <2>5. x \in Ready(q)
    BY <1>1, <1>6, <1>7, <2>4 DEF Ready
  <2> QED BY <2>5
<1>16. Recorded(p) => Recorded(q)
  BY <1>6, <1>7 DEF Recorded
<1> QED BY <1>5, <1>7, <1>9, <1>10, <1>11, <1>12, <1>13, <1>14, <1>15, <1>16

----------------------------------------------------------------------------
(* The actions *)

\* What the invariant says of one workflow.
LEMMA OneOf ==
    ASSUME Inv, NEW w \in Workflows
    PROVE  /\ starts \in Nat /\ starts + 1 \in Processes /\ wf[w] \in Record
           /\ InOrder(wf[w]) /\ Reported(wf[w]) /\ Numbered(wf[w], starts + 1) /\ Asked(wf[w])
           /\ Alive \in BOOLEAN /\ Good(wf[w], starts + 1, Alive, failure)
           /\ faults = 0 => Tidy(wf[w], Alive)
<1>1. starts \in Nat /\ starts + 1 \in Processes
  BY WorkflowAssumption DEF Inv, TypeOK, Processes
<1>2. Alive \in BOOLEAN
  BY DEF Alive
<1> QED BY <1>1, <1>2 DEF Inv, Good

\* A handler or a wake-up of the task of w writes p.
LEMMA PutInv ==
    ASSUME Inv, Alive, NEW w \in Workflows, NEW p, Put(w, p),
           Good(p, starts + 1, TRUE, failure'), faults' = 0 => Tidy(p, TRUE),
           failure' \in BOOLEAN, failure => failure',
           faults' \in 0 .. MaxFaults, faults' = 0 => faults = 0
    PROVE  Inv'
<1>1. /\ phase' = phase /\ starts' = starts /\ Alive' = TRUE /\ Alive = TRUE
      /\ \A v \in Workflows : wf'[v] = IF v = w THEN p ELSE wf[v]
  BY DEF Put, Alive, Inv
<1>2. ASSUME NEW v \in Workflows PROVE Good(wf[v], starts + 1, TRUE, failure')
  <2>1. Good(wf[v], starts + 1, TRUE, failure)
    BY <1>1 DEF Inv
  <2> QED BY <2>1 DEF Good, Draft
<1>3. \A v \in Workflows : Good(wf'[v], starts' + 1, Alive', failure')
  BY <1>1, <1>2
<1>4. faults' = 0 => \A v \in Workflows : Tidy(wf'[v], Alive')
  BY <1>1 DEF Inv
<1>5. TypeOK'
  <2>1. \A v \in Workflows : wf'[v] \in Record
    BY <1>3 DEF Good
  <2>2. awaited' \subseteq Workflows
    BY DEF Put, Inv, TypeOK
  <2> QED BY <1>1, <2>1, <2>2 DEF Inv, TypeOK
<1>6. wf' \in [Workflows -> Record]
  <2>1. p \in Record
    BY DEF Good
  <2> QED BY <2>1 DEF Put, Inv
<1> QED BY <1>3, <1>4, <1>5, <1>6 DEF Inv

\* The same when no write is refused.
LEMMA QuietPut ==
    ASSUME Inv, Alive, NEW w \in Workflows, NEW p, Put(w, p), Quiet,
           Good(p, starts + 1, TRUE, failure), Tidy(wf[w], TRUE) => Tidy(p, TRUE)
    PROVE  Inv'
<1>1. faults = 0 => Tidy(wf[w], TRUE)
  BY DEF Inv, Alive
<1> QED BY <1>1, PutInv DEF Quiet, Inv, TypeOK

\* A refused write: nothing is asked of Tidy any more.
LEMMA FaultPut ==
    ASSUME Inv, Alive, NEW w \in Workflows, NEW p, Put(w, p),
           faults < MaxFaults, faults' = faults + 1,
           failure' \in BOOLEAN, failure => failure', Good(p, starts + 1, TRUE, failure')
    PROVE  Inv'
<1>1. faults' \in 0 .. MaxFaults /\ faults' # 0
  BY WorkflowAssumption DEF Inv, TypeOK
<1> QED BY <1>1, PutInv

\* The records of a live process are good.
LEMMA AliveGood ==
    ASSUME Inv, Alive, NEW w \in Workflows
    PROVE  Good(wf[w], starts + 1, TRUE, failure)
BY DEF Inv, Alive

\* create starts the planner or fails the plan.
LEMMA CreateInv == ASSUME Inv, NEW w \in Workflows, Create(w) PROVE Inv'
<1>1. PICK p \in {[PlannerRuns EXCEPT !.ran = {Planner}, !.pc = "planPoll"],
                  Caught(Planning, FALSE), Caught(PlannerBound, FALSE)} : Put(w, p)
  BY DEF Create
<1>2. Alive /\ Quiet
  BY DEF Create, Alive
<1>3. Good(p, starts + 1, TRUE, failure) /\ Tidy(p, TRUE)
  BY OneOf, CreateGood
<1> QED BY <1>1, <1>2, <1>3, QuietPut

\* What Approvable says of the record.
LEMMA ApprovableParts ==
    ASSUME Inv, NEW w \in Workflows, Approvable(w)
    PROVE  /\ Alive /\ failure = FALSE /\ wf[w].status = "draft" /\ ~ wf[w].approved
           /\ Good(wf[w], starts + 1, TRUE, FALSE)
<1>1. Alive /\ failure = FALSE
  BY DEF Approvable, Alive, Inv, TypeOK
<1> QED BY <1>1, AliveGood DEF Approvable

\* approve binds every step before the first runs.
LEMMA ApproveInv == ASSUME Inv, NEW w \in Workflows, Approve(w) PROVE Inv'
<1> DEFINE n == starts + 1
           a == Approved(wf[w], n)
<1>1. PICK p \in ExecuteTurn(a, FALSE) : Put(w, p)
  BY DEF Approve
<1>2. /\ Alive /\ failure = FALSE /\ wf[w].status = "draft" /\ ~ wf[w].approved
      /\ Good(wf[w], n, TRUE, FALSE) /\ Quiet /\ n \in Processes /\ wf[w] \in Record
  BY ApprovableParts, OneOf DEF Approve
<1> HIDE DEF n
<1>3. /\ a \in Record /\ InOrder(a) /\ Reported(a) /\ Numbered(a, n) /\ Asked(a) /\ Owned(a, n)
      /\ MayGoOn(a) /\ NoneRunning(a) /\ (Recorded(wf[w]) => Recorded(a))
  BY <1>2, ApprovedGood
<1>4. Good(p, n, TRUE, FALSE) /\ (Recorded(a) => Tidy(p, TRUE))
  <2> HIDE DEF a
  <2>1. FALSE \in BOOLEAN
    OBVIOUS
  <2> QED BY <1>1, <1>2, <1>3, <2>1, TurnGood
<1>5. Tidy(wf[w], TRUE) => Tidy(p, TRUE)
  BY <1>3, <1>4 DEF Tidy
<1>6. Good(p, starts + 1, TRUE, failure)
  BY <1>2, <1>4 DEF n
<1> QED BY <1>1, <1>2, <1>5, <1>6, QuietPut

\* A refused Session fails the plan and closes the ones before it.
LEMMA ApproveRefusedInv == ASSUME Inv, NEW w \in Workflows, ApproveRefused(w) PROVE Inv'
<1> DEFINE n == starts + 1
<1>1. /\ Alive /\ failure = FALSE /\ wf[w].status = "draft" /\ ~ wf[w].approved
      /\ Good(wf[w], n, TRUE, FALSE) /\ Quiet /\ n \in Processes /\ wf[w] \in Record
  BY ApprovableParts, OneOf DEF ApproveRefused
<1>2. PICK k \in Steps :
         LET p == [FirstBound(wf[w], k - 1, n) EXCEPT !.status = "failed"]
         IN Put(w, CloseCall(p, OwnSessions(p), "failClose"))
  BY DEF ApproveRefused
<1> DEFINE f == FirstBound(wf[w], k - 1, n)
           p == [f EXCEPT !.status = "failed"]
           q == CloseCall(p, OwnSessions(p), "failClose")
<1> HIDE DEF n
<1>3. k - 1 \in 0 .. N
  BY WorkflowAssumption DEF Steps
<1>4. FirstEffect(wf[w], k - 1, n, f)
  BY <1>1, <1>3, FirstFields
<1> HIDE DEF f
<1>5. /\ InOrder(wf[w]) /\ Reported(wf[w]) /\ Numbered(wf[w], n) /\ Asked(wf[w])
      /\ Owned(wf[w], n) /\ NoneRunning(wf[w])
  BY <1>1, DraftParts
<1>6. InOrder(f) /\ Reported(f) /\ Numbered(f, n) /\ Asked(f) /\ Owned(f, n)
  BY <1>1, <1>3, <1>4, <1>5, FirstGood
<1>7. /\ f \in Record /\ ~ f.approved /\ NoneRunning(f)
      /\ (Recorded(wf[w]) => Recorded(f))
  BY <1>1, <1>4, <1>5 DEF FirstEffect, NoneRunning, Recorded
<1>8. Good(q, n, TRUE, FALSE) /\ (Recorded(wf[w]) => Tidy(q, TRUE))
  BY <1>1, <1>6, <1>7, FailGood
<1>9. Tidy(wf[w], TRUE) => Tidy(q, TRUE)
  BY <1>8 DEF Tidy
<1>10. Put(w, q)
  BY <1>2 DEF f
<1> HIDE DEF q
<1> QED BY <1>1, <1>8, <1>9, <1>10, QuietPut DEF n

\* A refused write of approve fails the plan, and the service if refused again.
LEMMA ApproveUnsavedInv == ASSUME Inv, NEW w \in Workflows, ApproveUnsaved(w) PROVE Inv'
<1> DEFINE n == starts + 1
<1>1. /\ Alive /\ failure = FALSE /\ wf[w].status = "draft" /\ ~ wf[w].approved
      /\ Good(wf[w], n, TRUE, FALSE) /\ n \in Processes /\ wf[w] \in Record
      /\ faults < MaxFaults /\ faults' = faults + 1
  BY ApprovableParts, OneOf DEF ApproveUnsaved
<1>2. PICK k \in Steps :
         \/ LET p == [FirstBound(wf[w], k, n) EXCEPT !.status = "failed"]
            IN Put(w, CloseCall(p, OwnSessions(p), "failClose")) /\ UNCHANGED failure
         \/ LET p == NewSession(FirstBound(wf[w], k - 1, n), k, n)
            IN Put(w, CloseCall(p, OwnSessions(p), "failClose")) /\ failure' = TRUE
  BY DEF ApproveUnsaved
<1> HIDE DEF n
<1>3. /\ InOrder(wf[w]) /\ Reported(wf[w]) /\ Numbered(wf[w], n) /\ Asked(wf[w])
      /\ Owned(wf[w], n)
  BY <1>1, DraftParts
<1>4. k \in 0 .. N /\ k - 1 \in 0 .. N /\ k \in Jobs
  BY WorkflowAssumption DEF Steps, Jobs
<1>5. ASSUME NEW i \in {k, k - 1}
      PROVE  LET f == FirstBound(wf[w], i, n) IN
             /\ f \in Record /\ ~ f.approved /\ f.status = "draft"
             /\ InOrder(f) /\ Reported(f) /\ Numbered(f, n) /\ Asked(f) /\ Owned(f, n)
  <2> DEFINE f == FirstBound(wf[w], i, n)
  <2>1. FirstEffect(wf[w], i, n, f)
    BY <1>1, <1>4, FirstFields
  <2> HIDE DEF f
  <2>2. InOrder(f) /\ Reported(f) /\ Numbered(f, n) /\ Asked(f) /\ Owned(f, n)
    BY <1>1, <1>3, <1>4, <2>1, FirstGood
  <2>3. f \in Record /\ ~ f.approved /\ f.status = "draft"
    BY <1>1, <2>1 DEF FirstEffect
  <2> QED BY <2>2, <2>3 DEF f
<1>6. CASE LET p == [FirstBound(wf[w], k, n) EXCEPT !.status = "failed"]
           IN Put(w, CloseCall(p, OwnSessions(p), "failClose")) /\ UNCHANGED failure
  <2> DEFINE f == FirstBound(wf[w], k, n)
             p == [f EXCEPT !.status = "failed"]
             q == CloseCall(p, OwnSessions(p), "failClose")
  <2>1. /\ f \in Record /\ ~ f.approved
        /\ InOrder(f) /\ Reported(f) /\ Numbered(f, n) /\ Asked(f) /\ Owned(f, n)
    BY <1>5
  <2>2. Put(w, q) /\ UNCHANGED failure
    BY <1>6
  <2> HIDE DEF f
  <2>3. Good(q, n, TRUE, FALSE)
    BY <1>1, <2>1, FailGood
  <2> HIDE DEF q
  <2>4. failure' = FALSE
    BY <1>1, <2>2
  <2> QED BY <1>1, <2>2, <2>3, <2>4, FaultPut DEF n
<1>7. CASE LET p == NewSession(FirstBound(wf[w], k - 1, n), k, n)
           IN Put(w, CloseCall(p, OwnSessions(p), "failClose")) /\ failure' = TRUE
  <2> DEFINE f == FirstBound(wf[w], k - 1, n)
             p == NewSession(f, k, n)
             q == CloseCall(p, OwnSessions(p), "failClose")
  <2>1. /\ f \in Record /\ f.status = "draft"
        /\ InOrder(f) /\ Reported(f) /\ Numbered(f, n) /\ Asked(f) /\ Owned(f, n)
    BY <1>5
  <2>2. Put(w, q) /\ failure' = TRUE
    BY <1>7
  <2> HIDE DEF f
  <2>3. NewEffect(f, k, n, p)
    BY <1>1, <1>4, <2>1, NewFields
  <2> HIDE DEF p
  <2>4. p \in Record /\ p.status = "draft"
    BY <2>1, <2>3 DEF NewEffect
  <2>5. InOrder(p) /\ Reported(p) /\ Numbered(p, n) /\ Asked(p) /\ Owned(p, n)
    BY <1>1, <1>4, <2>1, <2>3, NewGood
  <2>6. /\ OwnSessions(p) \in SUBSET Sessions /\ p.owned \subseteq OwnSessions(p)
        /\ "failClose" \in LastPcs /\ StagedAt(p, "failClose")
    BY <2>4, OwnSessionsType DEF LastPcs, StagedAt, Terminal
  <2>7. Good(q, n, TRUE, TRUE)
    BY <1>1, <2>4, <2>5, <2>6, OwnNumbered, LastClose
  <2> HIDE DEF q
  <2> QED BY <1>1, <2>2, <2>7, FaultPut DEF n
<1> QED BY <1>2, <1>6, <1>7

\* The Session a dead process bound to the first step is left out of the close: it is not
\* one of this process.
LEMMA ApproveConflictInv == ASSUME Inv, NEW w \in Workflows, ApproveConflict(w) PROVE Inv'
<1> DEFINE n == starts + 1
           p == NewSession(wf[w], 1, n)
           T == OwnSessions(p) \ {Bound(p, 1)}
           q == CloseCall(p, T, "failClose")
<1>1. /\ Alive /\ wf[w].status = "draft" /\ ~ wf[w].approved
      /\ Good(wf[w], n, TRUE, FALSE) /\ n \in Processes /\ wf[w] \in Record
      /\ failure' = TRUE /\ UNCHANGED faults /\ Put(w, q)
  BY ApprovableParts, OneOf DEF ApproveConflict
<1> HIDE DEF n
<1>2. /\ InOrder(wf[w]) /\ Reported(wf[w]) /\ Numbered(wf[w], n) /\ Asked(wf[w])
      /\ Owned(wf[w], n) /\ wf[w].owned = {} /\ wf[w].bound[1] < n /\ NoneRunning(wf[w])
  BY <1>1, DraftParts
<1>3. 1 \in Jobs
  BY WorkflowAssumption DEF Jobs, Steps
<1>4. NewEffect(wf[w], 1, n, p)
  BY <1>1, <1>3, NewFields
<1> HIDE DEF p
<1>5. /\ p \in Record /\ p.status = "draft" /\ p.owned = {<<1, n>>} /\ p.bound = wf[w].bound
      /\ NoneRunning(p) /\ (Recorded(wf[w]) => Recorded(p)) /\ Final(p)
  BY <1>1, <1>2, <1>4 DEF NewEffect, NoneRunning, Recorded, Final, Terminal
<1>6. InOrder(p) /\ Reported(p) /\ Numbered(p, n) /\ Asked(p) /\ Owned(p, n)
  BY <1>1, <1>2, <1>3, <1>4, NewGood
<1>7. p.owned \subseteq T
  <2>1. Bound(p, 1) # <<1, n>>
    BY <1>1, <1>2, <1>5 DEF Bound, Processes
  <2> QED BY <1>5, <2>1, OwnSessionsType
<1>8. T \in SUBSET Sessions /\ \A t \in T : t[2] <= n
  BY <1>1, <1>5, <1>6, OwnSessionsType, OwnNumbered
<1>9. "failClose" \in LastPcs /\ StagedAt(p, "failClose")
  BY <1>5 DEF LastPcs, StagedAt, Terminal
<1> HIDE DEF T
<1>10. Good(q, n, TRUE, TRUE)
  BY <1>1, <1>5, <1>6, <1>7, <1>8, <1>9, LastClose
<1>11. Recorded(wf[w]) => Tidy(q, TRUE)
  BY <1>5, <1>8, <1>9, LastTidy
<1> HIDE DEF q
<1>12. faults = 0 => Tidy(wf[w], TRUE)
  BY <1>1 DEF Inv, Alive
<1>13. faults' = 0 => Tidy(q, TRUE)
  BY <1>1, <1>11, <1>12 DEF Tidy
<1> QED BY <1>1, <1>10, <1>13, PutInv DEF n, Inv, TypeOK

\* cancel stores the request and stops the current runs; a plan without a task is ended here.
LEMMA CancelRunsEffect ==
    ASSUME NEW p \in Record PROVE RunsEffect(p, CancelRuns(p))
<1> DEFINE r == [j \in Jobs |->
                   IF p.run[j] = "active" /\ j \in p.ran /\ (j = Planner \/ p.steps[j] = "running")
                   THEN "stopping" ELSE p.run[j]]
<1>1. /\ r \in [Jobs -> Outcomes \cup {"none", "active", "stopping"}]
      /\ \A j \in Jobs : \/ r[j] = p.run[j]
                         \/ Busy(p, j) /\ r[j] \in Outcomes \cup {"stopping"}
  BY DEF Record, Busy
<1>2. CancelRuns(p) = [p EXCEPT !.run = r]
  BY DEF CancelRuns
<1> HIDE DEF r
<1> QED BY <1>1, <1>2, RunsFields

\* cancel stores the request, and a plan without a task closes its Sessions.
LEMMA CancelInv == ASSUME Inv, NEW w \in Workflows, Cancel(w) PROVE Inv'
<1> DEFINE n == starts + 1
           a == [wf[w] EXCEPT !.status = "cancelling", !.asked = TRUE]
           p == CancelRuns(a)
           q == IF p.pc = "idle" THEN CancelStarts(p, "cancelClose") ELSE p
<1>1. /\ Alive /\ wf[w].status \notin Terminal \cup {"absent"} /\ Quiet /\ Put(w, q)
      /\ Good(wf[w], n, TRUE, failure) /\ n \in Processes /\ wf[w] \in Record
  BY AliveGood, OneOf DEF Cancel
<1> HIDE DEF n
<1>2. AskEffect(wf[w], a)
  <2>1. a \in Record
    BY <1>1 DEF Record, Terminal
  <2> QED BY <1>1, <2>1 DEF AskEffect, Record
<1> HIDE DEF a
<1>3. Good(a, n, TRUE, failure) /\ (Tidy(wf[w], TRUE) => Tidy(a, TRUE))
  BY <1>1, <1>2, AskGood
<1>4. a \in Record /\ a.status = "cancelling"
  BY <1>2 DEF AskEffect
<1>5. RunsEffect(a, p)
  BY <1>4, CancelRunsEffect
<1> HIDE DEF p
<1>6. Good(p, n, TRUE, failure) /\ (Tidy(a, TRUE) => Tidy(p, TRUE))
  BY <1>1, <1>3, <1>4, <1>5, RunsGood
<1>7. p \in Record /\ p.status = "cancelling"
  BY <1>4, <1>5 DEF RunsEffect
<1>8. Good(q, n, TRUE, failure) /\ (Tidy(p, TRUE) => Tidy(q, TRUE))
  <2>1. CASE p.pc = "idle"
    <3>1. InOrder(p) /\ Reported(p) /\ Numbered(p, n) /\ Asked(p) /\ Owned(p, n)
      BY <1>1, <1>6, <1>7, <2>1, AwakeOwned DEF Good
    <3>2. Tidy(p, TRUE) => NoneRunning(p) /\ Recorded(p)
      BY <2>1 DEF Tidy, NoneRunning
    <3>3. q = CancelStarts(p, "cancelClose")
      BY <2>1
    <3> QED BY <1>1, <1>7, <3>1, <3>2, <3>3, CancelStartsGood
  <2>2. CASE p.pc # "idle"
    BY <1>6, <2>2
  <2> QED BY <2>1, <2>2
<1> HIDE DEF q
<1> QED BY <1>1, <1>3, <1>6, <1>8, QuietPut DEF n

\* A task that wakes up and whose operation rejects, or that sees the cancellation.
LEMMA WakesTo ==
    ASSUME Inv, Alive, NEW w \in Workflows,
           wf[w].pc \in PollPcs \cup {"idle"} \/ Returned(wf[w]), NEW broken
    PROVE  /\ \A closing \in BOOLEAN :
                 /\ Good(Caught(wf[w], closing), starts + 1, TRUE, broken)
                 /\ wf[w].pc # "stepPoll" /\ Tidy(wf[w], TRUE) => Tidy(Caught(wf[w], closing), TRUE)
           /\ wf[w].status = "cancelling" =>
                 LET q == CancelStarts(wf[w], "cancelClose")
                 IN /\ Good(q, starts + 1, TRUE, broken)
                    /\ wf[w].pc # "stepPoll" /\ Tidy(wf[w], TRUE) => Tidy(q, TRUE)
           /\ Good(CaughtUnsaved(wf[w]), starts + 1, TRUE, TRUE)
<1> DEFINE n == starts + 1
           p == wf[w]
<1>1. /\ n \in Processes /\ p \in Record /\ Good(p, n, TRUE, failure)
      /\ InOrder(p) /\ Reported(p) /\ Numbered(p, n) /\ Asked(p)
  BY OneOf, AliveGood
<1>2. p.pc \in PollPcs \cup {"idle"} \/ Returned(p)
  OBVIOUS
<1> HIDE DEF n, p
<1>3. Owned(p, n)
  BY <1>1, <1>2, AwakeOwned DEF Good
<1>4. p.pc # "stepPoll" /\ Tidy(p, TRUE) => NoneRunning(p) /\ Recorded(p)
  BY DEF Tidy, NoneRunning
<1>5. \A closing \in BOOLEAN :
         /\ Good(Caught(p, closing), n, TRUE, broken)
         /\ p.pc # "stepPoll" /\ Tidy(p, TRUE) => Tidy(Caught(p, closing), TRUE)
  BY <1>1, <1>3, <1>4, CaughtGood
<1>6. p.status = "cancelling" =>
         /\ Good(CancelStarts(p, "cancelClose"), n, TRUE, broken)
         /\ p.pc # "stepPoll" /\ Tidy(p, TRUE) => Tidy(CancelStarts(p, "cancelClose"), TRUE)
  BY <1>1, <1>3, <1>4, CancelStartsGood
<1>7. Good(CaughtUnsaved(p), n, TRUE, TRUE)
  BY <1>1, <1>3, CaughtUnsavedGood
<1> QED BY <1>5, <1>6, <1>7 DEF n, p

\* Closed Sessions have returned.
LEMMA AllClosedReturned == ASSUME NEW p, AllClosed(p) PROVE Returned(p)
BY DEF AllClosed, Returned

\* Promise.allSettled has settled and the task ends.
LEMMA DoneOf ==
    ASSUME Inv, Alive, NEW w \in Workflows, wf[w].pc \in {"failClose", "finalClose"},
           Returned(wf[w]), NEW broken, failure => broken
    PROVE  /\ Good(TaskDone(wf[w]), starts + 1, TRUE, broken)
           /\ Tidy(wf[w], TRUE) => Tidy(TaskDone(wf[w]), TRUE)
<1> DEFINE n == starts + 1
           p == wf[w]
<1>1. /\ n \in Processes /\ p \in Record /\ Good(p, n, TRUE, failure)
      /\ InOrder(p) /\ Reported(p) /\ Numbered(p, n) /\ Asked(p)
      /\ p.pc \in {"failClose", "finalClose"} /\ Returned(p) /\ failure \in BOOLEAN
  BY OneOf, AliveGood DEF Inv, TypeOK
<1> HIDE DEF n, p
<1>2. \A j \in Jobs : p.session[<<j, n>>] \notin {"open", "closing"}
  BY <1>1, LastReturned DEF Good, LastPcs
<1>3. ~ broken => p.status # "draft"
  BY <1>1 DEF Good, Draft
<1>4. DoneEffect(p, TaskDone(p))
  BY <1>1, DoneFields
<1>5. Tidy(p, TRUE) => NoneRunning(p) /\ Recorded(p) /\ Final(p)
  BY <1>1 DEF Tidy, NoneRunning
<1>6. Good(TaskDone(p), n, TRUE, broken)
  BY <1>1, <1>2, <1>3, <1>4, DoneGood
<1>7. Tidy(p, TRUE) => Tidy(TaskDone(p), TRUE)
  BY <1>1, <1>2, <1>3, <1>4, <1>5, DoneGood
<1> QED BY <1>6, <1>7 DEF n, p

\* A poll that cancels its run.
LEMMA PollWaitsInv ==
    ASSUME Inv, Alive, NEW w \in Workflows, NEW j \in Jobs, PollWaits(w, j) PROVE Inv'
<1> DEFINE r == [wf[w].run EXCEPT ![j] = "stopping"]
           q == [wf[w] EXCEPT !.run = r]
<1>1. wf[w] \in Record /\ starts + 1 \in Processes /\ Good(wf[w], starts + 1, TRUE, failure)
  BY OneOf, AliveGood
<1>2. /\ r \in [Jobs -> Outcomes \cup {"none", "active", "stopping"}]
      /\ \A i \in Jobs : \/ r[i] = wf[w].run[i]
                         \/ Busy(wf[w], i) /\ r[i] \in Outcomes \cup {"stopping"}
  BY <1>1 DEF PollWaits, Record, Busy
<1>3. Put(w, q) /\ Quiet
  BY DEF PollWaits, CancelRun
<1> HIDE DEF r
<1>4. RunsEffect(wf[w], q)
  BY <1>1, <1>2, RunsFields
<1> HIDE DEF q
<1>5. Good(q, starts + 1, TRUE, failure) /\ (Tidy(wf[w], TRUE) => Tidy(q, TRUE))
  BY <1>1, <1>4, RunsGood
<1> QED BY <1>3, <1>5, QuietPut

\* The planner's poll.
LEMMA PollPlannerInv == ASSUME Inv, NEW w \in Workflows, PollPlanner(w) PROVE Inv'
<1>1. Alive /\ wf[w].pc = "planPoll"
  BY DEF PollPlanner, Running
<1>2. CASE PollWaits(w, Planner)
  BY <1>1, <1>2, PollWaitsInv DEF Jobs
<1>3. CASE Ended(wf[w], Planner) /\ Quiet /\ \E p \in PlanEnded(wf[w]) : Put(w, p)
  <2>1. PICK q \in PlanEnded(wf[w]) : Put(w, q)
    BY <1>3
  <2>2. Closing \in BOOLEAN /\ FALSE \in BOOLEAN /\ wf[w].pc \in PollPcs
    BY <1>1 DEF Closing, PollPcs
  <2>3. CASE \E closing \in BOOLEAN : q = Caught(wf[w], closing)
    BY <1>1, <1>3, <2>1, <2>2, <2>3, WakesTo, QuietPut
  <2>4. CASE wf[w].status = "cancelling" /\ q = CancelStarts(wf[w], "cancelClose")
    BY <1>1, <1>3, <2>1, <2>2, <2>4, WakesTo, QuietPut
  <2>5. CASE /\ wf[w].status # "cancelling" /\ wf[w].run[Planner] = "completed"
             /\ q = CloseCall(wf[w], {Bound(wf[w], Planner)}, "planClose")
    <3>1. starts + 1 \in Processes /\ wf[w] \in Record /\ Good(wf[w], starts + 1, TRUE, failure)
      BY <1>1, OneOf, AliveGood
    <3>2. Good(q, starts + 1, TRUE, failure) /\ (Tidy(wf[w], TRUE) => Tidy(q, TRUE))
      BY <1>1, <2>5, <3>1, PlanCloseGood
    <3> QED BY <1>1, <1>3, <2>1, <3>2, QuietPut
  <2> QED BY <2>1, <2>2, <2>3, <2>4, <2>5 DEF PlanEnded
<1> QED BY <1>2, <1>3 DEF PollPlanner

\* The plan becomes a draft, or fails.
LEMMA PlanClosedInv == ASSUME Inv, NEW w \in Workflows, PlanClosed(w) PROVE Inv'
<1>1. Alive /\ wf[w].pc = "planClose" /\ Returned(wf[w]) /\ Quiet /\ Closing \in BOOLEAN
  BY DEF PlanClosed, Running, Closing
<1>2. CASE Put(w, Caught(wf[w], Closing))
  BY <1>1, <1>2, WakesTo, QuietPut
<1>3. CASE wf[w].status = "cancelling" /\ Put(w, CancelStarts(wf[w], "cancelClose"))
  BY <1>1, <1>3, WakesTo, QuietPut
<1>4. ASSUME wf[w].status # "cancelling", NEW deps \in Plans,
             Put(w, TaskDone([wf[w] EXCEPT !.status = "draft", !.deps = deps,
                                           !.steps = [x \in Steps |-> "pending"]]))
      PROVE  Inv'
  <2>1. starts + 1 \in Processes /\ wf[w] \in Record /\ Good(wf[w], starts + 1, TRUE, failure)
    BY <1>1, OneOf, AliveGood
  <2> DEFINE q == TaskDone([wf[w] EXCEPT !.status = "draft", !.deps = deps,
                                         !.steps = [x \in Steps |-> "pending"]])
  <2>2. Good(q, starts + 1, TRUE, failure) /\ (Tidy(wf[w], TRUE) => Tidy(q, TRUE))
    BY <1>1, <1>4, <2>1, DraftGood
  <2>3. Put(w, q)
    BY <1>4
  <2> HIDE DEF q
  <2> QED BY <1>1, <2>2, <2>3, QuietPut
<1> QED BY <1>2, <1>3, <1>4 DEF PlanClosed

\* The poll of a step, and its result.
LEMMA PollStepInv == ASSUME Inv, NEW w \in Workflows, PollStep(w) PROVE Inv'
<1>1. Alive /\ wf[w].pc = "stepPoll"
  BY DEF PollStep, Running
<1>2. starts + 1 \in Processes /\ wf[w] \in Record /\ Good(wf[w], starts + 1, TRUE, failure)
  BY <1>1, OneOf, AliveGood
<1>3. CASE PollWaits(w, wf[w].at)
  BY <1>1, <1>2, <1>3, PollWaitsInv DEF Record, Jobs
<1>4. CASE /\ Ended(wf[w], wf[w].at) /\ Quiet
           /\ LET p == [ApplyResult(wf[w], wf[w].at)
                         EXCEPT !.stale = (wf[w].status = "cancelling")]
              IN Put(w, CloseCall(p, {Bound(p, p.at)}, "stepClose"))
  <2> DEFINE p == [ApplyResult(wf[w], wf[w].at) EXCEPT !.stale = (wf[w].status = "cancelling")]
             q == CloseCall(p, {Bound(p, p.at)}, "stepClose")
  <2>1. Good(q, starts + 1, TRUE, failure) /\ (Tidy(wf[w], TRUE) => Tidy(q, TRUE))
    BY <1>1, <1>2, <1>4, ResultGood
  <2>2. Put(w, q) /\ Quiet
    BY <1>4
  <2> HIDE DEF q
  <2> QED BY <1>1, <2>1, <2>2, QuietPut
<1> QED BY <1>3, <1>4 DEF PollStep

\* The turn after a step.
LEMMA StepClosedInv == ASSUME Inv, NEW w \in Workflows, StepClosed(w) PROVE Inv'
<1>1. Alive /\ wf[w].pc = "stepClose" /\ Returned(wf[w]) /\ Quiet
  BY DEF StepClosed, Running
<1>2. PICK q \in AfterStep(wf[w]) : Put(w, q)
  BY DEF StepClosed
<1>3. starts + 1 \in Processes /\ wf[w] \in Record /\ Good(wf[w], starts + 1, TRUE, failure)
  BY <1>1, OneOf, AliveGood
<1>4. Good(q, starts + 1, TRUE, failure) /\ (Tidy(wf[w], TRUE) => Tidy(q, TRUE))
  BY <1>1, <1>2, <1>3, StepClosedGood
<1> QED BY <1>1, <1>2, <1>4, QuietPut

\* The end of execute.
LEMMA EndClosedInv == ASSUME Inv, NEW w \in Workflows, EndClosed(w) PROVE Inv'
<1>1. Alive /\ wf[w].pc = "endClose" /\ Returned(wf[w]) /\ Quiet /\ Closing \in BOOLEAN
  BY DEF EndClosed, Running, Closing
<1>2. CASE Put(w, Caught(wf[w], Closing))
  BY <1>1, <1>2, WakesTo, QuietPut
<1>3. CASE wf[w].status = "cancelling" /\ Put(w, CancelStarts(wf[w], "cancelClose"))
  BY <1>1, <1>3, WakesTo, QuietPut
<1>4. CASE Put(w, TaskDone(Concluded(wf[w])))
  <2>1. starts + 1 \in Processes /\ wf[w] \in Record /\ Good(wf[w], starts + 1, TRUE, failure)
    BY <1>1, OneOf, AliveGood
  <2> DEFINE q == TaskDone(Concluded(wf[w]))
  <2>2. Good(q, starts + 1, TRUE, failure) /\ (Tidy(wf[w], TRUE) => Tidy(q, TRUE))
    BY <1>1, <2>1, ConcludedGood
  <2> HIDE DEF q
  <2> QED BY <1>1, <1>4, <2>2, QuietPut DEF q
<1> QED BY <1>2, <1>3, <1>4 DEF EndClosed

\* The end of a failed plan's task.
LEMMA FailClosedInv == ASSUME Inv, NEW w \in Workflows, FailClosed(w) PROVE Inv'
<1>1. Alive /\ wf[w].pc = "failClose" /\ Returned(wf[w]) /\ Quiet /\ Closing \in BOOLEAN
  BY DEF FailClosed, Running, Closing
<1>2. CASE Put(w, Caught(wf[w], Closing))
  BY <1>1, <1>2, WakesTo, QuietPut
<1>3. CASE Put(w, TaskDone(wf[w]))
  BY <1>1, <1>3, DoneOf, QuietPut
<1> QED BY <1>2, <1>3 DEF FailClosed

\* The end of a cancelled plan's task.
LEMMA CancelClosedInv == ASSUME Inv, NEW w \in Workflows, CancelClosed(w) PROVE Inv'
<1>1. Alive /\ wf[w].pc = "cancelClose" /\ Returned(wf[w]) /\ Quiet /\ Closing \in BOOLEAN
  BY DEF CancelClosed, Running, Closing
<1>2. CASE Put(w, Caught(wf[w], Closing))
  BY <1>1, <1>2, WakesTo, QuietPut
<1>3. CASE AllClosed(wf[w]) /\ Put(w, TaskDone(CancelEnds(wf[w])))
  <2>1. starts + 1 \in Processes /\ wf[w] \in Record /\ Good(wf[w], starts + 1, TRUE, failure)
    BY <1>1, OneOf, AliveGood
  <2> DEFINE q == TaskDone(CancelEnds(wf[w]))
  <2>2. Good(q, starts + 1, TRUE, failure) /\ (Tidy(wf[w], TRUE) => Tidy(q, TRUE))
    BY <1>1, <1>3, <2>1, CancelledGood
  <2> HIDE DEF q
  <2> QED BY <1>1, <1>3, <2>2, QuietPut DEF q
<1> QED BY <1>2, <1>3 DEF CancelClosed

\* A cancellation finished by launch's handler.
LEMMA CaughtCancelClosedInv ==
    ASSUME Inv, NEW w \in Workflows, CaughtCancelClosed(w) PROVE Inv'
<1>1. /\ Alive /\ wf[w].pc = "caughtCancel" /\ Returned(wf[w]) /\ UNCHANGED faults
      /\ failure' = (failure \/ ~ AllClosed(wf[w]))
      /\ starts + 1 \in Processes /\ wf[w] \in Record
      /\ Good(wf[w], starts + 1, TRUE, failure) /\ failure \in BOOLEAN
      /\ faults = 0 => Tidy(wf[w], TRUE)
  BY OneOf, AliveGood DEF CaughtCancelClosed, Running, Alive, Inv, TypeOK
<1>2. CASE AllClosed(wf[w])
  <2> DEFINE c == CancelEnds(wf[w])
             q == CloseCall(c, OwnSessions(c), "finalClose")
  <2>1. Good(q, starts + 1, TRUE, failure) /\ (Tidy(wf[w], TRUE) => Tidy(q, TRUE))
    BY <1>1, <1>2, CancelledGood
  <2>2. Put(w, q) /\ failure' = failure
    BY <1>1, <1>2 DEF CaughtCancelClosed
  <2> HIDE DEF q
  <2> QED BY <1>1, <2>1, <2>2, QuietPut DEF Quiet
<1>3. CASE ~ AllClosed(wf[w])
  <2> DEFINE q == CaughtUnsaved(wf[w])
  <2>1. Put(w, q) /\ failure' = TRUE
    BY <1>1, <1>3 DEF CaughtCancelClosed, CaughtUnsaved
  <2>2. Good(q, starts + 1, TRUE, TRUE)
    BY <1>1, WakesTo
  <2>3. ASSUME Tidy(wf[w], TRUE) PROVE Tidy(q, TRUE)
    <3>1. NoneRunning(wf[w]) /\ Recorded(wf[w]) /\ Final(wf[w])
      BY <1>1, <2>3 DEF Tidy, NoneRunning
    <3>2. OwnSessions(wf[w]) \in SUBSET Sessions /\ "finalClose" \in LastPcs
      BY <1>1, OwnSessionsType DEF LastPcs
    <3> QED BY <1>1, <3>1, <3>2, LastTidy DEF CaughtUnsaved
  <2> HIDE DEF q
  <2>4. faults' \in 0 .. MaxFaults /\ (faults' = 0 => faults = 0)
    BY <1>1 DEF Inv, TypeOK
  <2> QED BY <1>1, <2>1, <2>2, <2>3, <2>4, PutInv
<1> QED BY <1>2, <1>3

\* The last cleanup, whether it closes every Session or not.
LEMMA FinalClosedInv == ASSUME Inv, NEW w \in Workflows, FinalClosed(w) PROVE Inv'
<1>1. /\ Alive /\ wf[w].pc = "finalClose" /\ Returned(wf[w]) /\ UNCHANGED faults
      /\ failure' = (failure \/ ~ AllClosed(wf[w])) /\ failure \in BOOLEAN
      /\ Put(w, TaskDone(wf[w])) /\ (faults = 0 => Tidy(wf[w], TRUE))
  BY DEF FinalClosed, Running, Alive, Inv, TypeOK
<1>2. failure' \in BOOLEAN /\ (failure => failure')
  BY <1>1
<1>3. /\ Good(TaskDone(wf[w]), starts + 1, TRUE, failure')
      /\ Tidy(wf[w], TRUE) => Tidy(TaskDone(wf[w]), TRUE)
  BY <1>1, <1>2, DoneOf
<1>4. faults' \in 0 .. MaxFaults /\ (faults' = 0 => faults = 0)
  BY <1>1 DEF Inv, TypeOK
<1> QED BY <1>1, <1>2, <1>3, <1>4, PutInv

\* A refused write ends the task.
LEMMA SaveRefusedInv == ASSUME Inv, NEW w \in Workflows, SaveRefused(w) PROVE Inv'
<1>1. /\ Alive /\ faults < MaxFaults /\ faults' = faults + 1
      /\ starts + 1 \in Processes /\ wf[w] \in Record /\ failure \in BOOLEAN
      /\ Good(wf[w], starts + 1, TRUE, failure) /\ Closing \in BOOLEAN
  BY OneOf, AliveGood DEF SaveRefused, Running, Closing, Inv, TypeOK
<1>2. CASE wf[w].pc = "caughtCancel" /\ Returned(wf[w])
           /\ Put(w, CaughtUnsaved(wf[w])) /\ failure' = TRUE
  BY <1>1, <1>2, WakesTo, FaultPut
<1>3. ASSUME Refusable(wf[w]), NEW p \in {wf[w]} \cup Unrecorded(wf[w]),
             \/ Put(w, Caught(p, Closing)) /\ UNCHANGED failure
             \/ Put(w, CaughtUnsaved(p)) /\ failure' = TRUE
      PROVE  Inv'
  <2>1. wf[w].pc \in PollPcs \/ Returned(wf[w])
    BY <1>3 DEF Refusable, PollPcs
  <2>2. /\ Good(Caught(p, Closing), starts + 1, TRUE, failure)
        /\ Good(CaughtUnsaved(p), starts + 1, TRUE, TRUE)
    <3>1. CASE p = wf[w]
      BY <1>1, <2>1, <3>1, WakesTo
    <3>2. CASE p \in Unrecorded(wf[w])
      <4>1. wf[w].pc = "stepClose" /\ AllClosed(wf[w])
        BY <3>2 DEF Unrecorded
      <4>2. p \in Record /\ InOrder(p) /\ Reported(p) /\ Numbered(p, starts + 1) /\ Asked(p)
            /\ Owned(p, starts + 1)
        BY <1>1, <3>2, <4>1, AllClosedReturned, UnrecordedGood
      <4> QED BY <1>1, <4>2, CaughtGood, CaughtUnsavedGood
    <3> QED BY <1>3, <3>1, <3>2
  <2>3. CASE Put(w, Caught(p, Closing)) /\ UNCHANGED failure
    BY <1>1, <2>2, <2>3, FaultPut
  <2>4. CASE Put(w, CaughtUnsaved(p)) /\ failure' = TRUE
    BY <1>1, <2>2, <2>4, FaultPut
  <2> QED BY <1>3, <2>3, <2>4
<1> QED BY <1>2, <1>3 DEF SaveRefused

\* The Runtime: a run ends, the planner uses a tool, a closeSession returns or throws.
LEMMA RunEndsInv ==
    ASSUME Inv, NEW w \in Workflows, NEW j \in Jobs, RunEnds(w, j) PROVE Inv'
<1>1. /\ Alive /\ Quiet /\ wf[w] \in Record /\ starts + 1 \in Processes
      /\ Good(wf[w], starts + 1, TRUE, failure)
  BY OneOf, AliveGood DEF RunEnds
<1>2. PICK outcome \in Outcomes :
         Busy(wf[w], j) /\ Put(w, [wf[w] EXCEPT !.run[j] = outcome])
  <2>1. CASE wf[w].run[j] = "active"
    BY <2>1 DEF RunEnds, Busy, Outcomes
  <2>2. CASE wf[w].run[j] = "stopping"
    BY <2>2 DEF RunEnds, Busy, Outcomes
  <2> QED BY <2>1, <2>2 DEF RunEnds
<1> DEFINE r == [wf[w].run EXCEPT ![j] = outcome]
           q == [wf[w] EXCEPT !.run = r]
<1>3. /\ r \in [Jobs -> Outcomes \cup {"none", "active", "stopping"}]
      /\ \A i \in Jobs : \/ r[i] = wf[w].run[i]
                         \/ Busy(wf[w], i) /\ r[i] \in Outcomes \cup {"stopping"}
  BY <1>1, <1>2 DEF Record
<1>4. Put(w, q)
  BY <1>2
<1> HIDE DEF r
<1>5. RunsEffect(wf[w], q)
  BY <1>1, <1>3, RunsFields
<1> HIDE DEF q
<1>6. Good(q, starts + 1, TRUE, failure) /\ (Tidy(wf[w], TRUE) => Tidy(q, TRUE))
  BY <1>1, <1>5, RunsGood
<1> QED BY <1>1, <1>4, <1>6, QuietPut

\* A tool event changes nothing but its mark.
LEMMA UseToolInv == ASSUME Inv, NEW w \in Workflows, UseTool(w) PROVE Inv'
<1>1. /\ Alive /\ Quiet /\ wf[w] \in Record /\ starts + 1 \in Processes
      /\ Good(wf[w], starts + 1, TRUE, failure)
  BY OneOf, AliveGood DEF UseTool
<1> DEFINE q == [wf[w] EXCEPT !.tools = TRUE]
<1>2. Put(w, q)
  BY DEF UseTool
<1>3. RunsEffect(wf[w], q)
  <2>1. q \in Record
    BY <1>1 DEF Record
  <2> QED BY <1>1, <2>1 DEF RunsEffect, Record
<1> HIDE DEF q
<1>4. Good(q, starts + 1, TRUE, failure) /\ (Tidy(wf[w], TRUE) => Tidy(q, TRUE))
  BY <1>1, <1>3, RunsGood
<1> QED BY <1>1, <1>2, <1>4, QuietPut

\* A Session closes once its run has ended.
LEMMA SessionClosesInv ==
    ASSUME Inv, NEW w \in Workflows, NEW t \in Sessions, SessionCloses(w, t) PROVE Inv'
<1>1. /\ Alive /\ Quiet /\ wf[w] \in Record /\ starts + 1 \in Processes
      /\ Good(wf[w], starts + 1, TRUE, failure)
  BY OneOf, AliveGood DEF SessionCloses
<1> DEFINE q == [wf[w] EXCEPT !.session[t] = "closed"]
<1>2. Put(w, q) /\ wf[w].session[t] = "closing"
      /\ (t = Bound(wf[w], t[1]) => ~ Busy(wf[w], t[1]))
  BY DEF SessionCloses
<1>3. Good(q, starts + 1, TRUE, failure) /\ (Tidy(wf[w], TRUE) => Tidy(q, TRUE))
  BY <1>1, <1>2, SessionGood
<1> HIDE DEF q
<1> QED BY <1>1, <1>2, <1>3, QuietPut

\* A Session whose cleanup is not confirmed.
LEMMA SessionStuckInv ==
    ASSUME Inv, NEW w \in Workflows, NEW t \in Sessions, SessionStuck(w, t) PROVE Inv'
<1>1. /\ Alive /\ wf[w] \in Record /\ starts + 1 \in Processes /\ failure \in BOOLEAN
      /\ Good(wf[w], starts + 1, TRUE, failure)
  BY OneOf, AliveGood DEF SessionStuck, Inv, TypeOK
<1> DEFINE q == [wf[w] EXCEPT !.session[t] = "stuck"]
<1>2. /\ Put(w, q) /\ wf[w].session[t] = "closing" /\ UNCHANGED failure
      /\ faults < MaxFaults /\ faults' = faults + 1
  BY DEF SessionStuck
<1>3. Good(q, starts + 1, TRUE, failure)
  BY <1>1, <1>2, SessionGood
<1> HIDE DEF q
<1> QED BY <1>1, <1>2, <1>3, FaultPut

\* Every wake-up of a task.
LEMMA WakeInv == ASSUME Inv, NEW w \in Workflows, Wake(w) PROVE Inv'
BY PollPlannerInv, PlanClosedInv, PollStepInv, StepClosedInv, EndClosedInv, FailClosedInv,
   CancelClosedInv, CaughtCancelClosedInv, FinalClosedInv DEF Wake

\* close: the runs of live tasks are cancelled.
LEMMA CloseServiceInv == ASSUME Inv, CloseService PROVE Inv'
<1>1. /\ phase = "up" /\ phase' = "closing" /\ Alive /\ Alive' = TRUE
      /\ failure' = failure /\ starts' = starts /\ faults' = faults
      /\ awaited' = {w \in Workflows : wf[w].pc # "idle"}
  BY DEF CloseService, Alive
<1>2. ASSUME NEW w \in Workflows
      PROVE  /\ Good(wf'[w], starts + 1, TRUE, failure)
             /\ Tidy(wf[w], TRUE) => Tidy(wf'[w], TRUE)
  <2>1. wf'[w] = CancelRuns(wf[w]) \/ wf'[w] = wf[w]
    BY DEF CloseService
  <2>2. /\ wf[w] \in Record /\ starts + 1 \in Processes
        /\ Good(wf[w], starts + 1, TRUE, failure)
    BY <1>1, OneOf, AliveGood
  <2>3. RunsEffect(wf[w], CancelRuns(wf[w]))
    BY <2>2, CancelRunsEffect
  <2> QED BY <2>1, <2>2, <2>3, RunsGood
<1>3. \A w \in Workflows : wf'[w] \in Record
  BY <1>2 DEF Good
<1>4. wf' \in [Workflows -> Record]
  BY <1>3 DEF CloseService
<1>5. TypeOK'
  BY <1>1, <1>3 DEF Inv, TypeOK
<1>6. faults = 0 => \A w \in Workflows : Tidy(wf'[w], TRUE)
  BY <1>1, <1>2 DEF Inv, Alive
<1> QED BY <1>1, <1>2, <1>4, <1>5, <1>6 DEF Inv

\* The process goes down.
LEMMA DownInv ==
    ASSUME Inv, NEW all, Down(all),
           \A w \in Workflows :
              LET p == all[w] IN
              /\ p \in Record
              /\ InOrder(p) /\ Reported(p) /\ Numbered(p, starts + 1) /\ Asked(p)
              /\ faults = 0 =>
                    Final(p) /\ (Recorded(p) \/ p.status \notin Terminal \cup {"draft", "absent"})
    PROVE  Inv'
<1>1. /\ phase' = "down" /\ Alive' = FALSE /\ awaited' = {}
      /\ failure' = failure /\ starts' = starts /\ faults' = faults
      /\ wf' = [w \in Workflows |-> Dead(all[w])]
  BY DEF Down, Alive
<1>2. ASSUME NEW w \in Workflows
      PROVE  /\ Good(wf'[w], starts + 1, FALSE, failure)
             /\ faults = 0 => Tidy(wf'[w], FALSE)
  <2>1. wf'[w] = Dead(all[w]) /\ starts + 1 \in Processes
    BY <1>1, OneOf
  <2> QED BY <2>1, DeadGood
<1>3. \A w \in Workflows : wf'[w] \in Record
  BY <1>2 DEF Good
<1>4. wf' \in [Workflows -> Record]
  BY <1>1, <1>3
<1>5. TypeOK'
  BY <1>1, <1>3 DEF Inv, TypeOK
<1> QED BY <1>1, <1>2, <1>4, <1>5 DEF Inv

\* What a record of the invariant is worth when the process dies.
LEMMA Dying ==
    ASSUME Inv, Alive, NEW w \in Workflows
    PROVE  LET p == wf[w] IN
           /\ p \in Record
           /\ InOrder(p) /\ Reported(p) /\ Numbered(p, starts + 1) /\ Asked(p)
           /\ faults = 0 => Final(p) /\ Recorded(p)
<1>1. faults = 0 => Tidy(wf[w], TRUE)
  BY DEF Inv, Alive
<1> QED BY <1>1, OneOf DEF Tidy

\* A crash between two steps.
LEMMA CrashInv == ASSUME Inv, Crash PROVE Inv'
BY Dying, DownInv DEF Crash

\* An orderly shutdown cancels what still runs.
LEMMA CloseReturnsInv == ASSUME Inv, CloseReturns PROVE Inv'
<1> DEFINE run(w) == [j \in Jobs |-> IF Busy(wf[w], j) THEN "cancelled" ELSE wf[w].run[j]]
           all == [w \in Workflows |-> [wf[w] EXCEPT !.run = run(w)]]
<1>1. Alive /\ Down(all)
  BY DEF CloseReturns, Closing, Alive
<1>2. ASSUME NEW w \in Workflows
      PROVE  LET p == all[w] IN
             /\ p \in Record
             /\ InOrder(p) /\ Reported(p) /\ Numbered(p, starts + 1) /\ Asked(p)
             /\ faults = 0 =>
                   Final(p) /\ (Recorded(p) \/ p.status \notin Terminal \cup {"draft", "absent"})
  <2> DEFINE r == run(w)
             q == [wf[w] EXCEPT !.run = r]
  <2>1. /\ wf[w] \in Record /\ starts + 1 \in Processes
        /\ InOrder(wf[w]) /\ Reported(wf[w]) /\ Numbered(wf[w], starts + 1) /\ Asked(wf[w])
        /\ faults = 0 => Final(wf[w]) /\ Recorded(wf[w])
    BY <1>1, Dying, OneOf
  <2>2. all[w] = q
    OBVIOUS
  <2>3. /\ r \in [Jobs -> Outcomes \cup {"none", "active", "stopping"}]
        /\ \A j \in Jobs : \/ r[j] = wf[w].run[j]
                           \/ Busy(wf[w], j) /\ r[j] \in Outcomes \cup {"stopping"}
    BY <2>1 DEF Record, Outcomes
  <2> HIDE DEF r
  <2>4. RunsEffect(wf[w], q)
    BY <2>1, <2>3, RunsFields
  <2> HIDE DEF q
  <2>5. /\ InOrder(q) /\ Reported(q) /\ Numbered(q, starts + 1)
        /\ \A j \in Jobs : (q.run[j] = "none") <=> (wf[w].run[j] = "none")
    BY <2>1, <2>4, RunsKeep
  <2>6. q \in Record /\ Asked(q)
    BY <2>1, <2>4 DEF RunsEffect, Asked
  <2>7. faults = 0 => Final(q) /\ Recorded(q)
    BY <2>1, <2>4, <2>5 DEF RunsEffect, Final, Recorded
  <2> HIDE DEF all
  <2> QED BY <2>2, <2>5, <2>6, <2>7
<1> HIDE DEF all
<1> QED BY <1>1, <1>2, DownInv

\* The process dies between two writes of one handler of w.
LEMMA DiesAsInv ==
    ASSUME Inv, NEW w \in Workflows, NEW q, DiesAs(w, q), q \in Record,
           InOrder(q), Reported(q), Numbered(q, starts + 1), Asked(q),
           faults = 0 =>
              Final(q) /\ (Recorded(q) \/ q.status \notin Terminal \cup {"draft", "absent"})
    PROVE  Inv'
<1> DEFINE all == [wf EXCEPT ![w] = q]
<1>1. Alive /\ Down(all)
  BY DEF DiesAs
<1>2. \A v \in Workflows : all[v] = IF v = w THEN q ELSE wf[v]
  BY DEF Inv
<1> HIDE DEF all
<1>3. ASSUME NEW v \in Workflows
      PROVE  LET p == all[v] IN
             /\ p \in Record
             /\ InOrder(p) /\ Reported(p) /\ Numbered(p, starts + 1) /\ Asked(p)
             /\ faults = 0 =>
                   Final(p) /\ (Recorded(p) \/ p.status \notin Terminal \cup {"draft", "absent"})
  BY <1>1, <1>2, Dying
<1> QED BY <1>1, <1>3, DownInv

\* A crash inside create.
LEMMA DiesInCreateInv == ASSUME Inv, NEW w \in Workflows, DiesInCreate(w) PROVE Inv'
<1>1. PICK p \in {Planning, PlannerBound, PlannerRuns} : DiesAs(w, p)
  BY DEF DiesInCreate
<1>2. starts + 1 \in Processes
  BY OneOf
<1>3. /\ p \in Record /\ p.status = "planning" /\ InOrder(p) /\ Reported(p)
      /\ Numbered(p, starts + 1) /\ Asked(p) /\ Final(p)
  BY <1>2, CreateParts
<1>4. p.status \notin Terminal \cup {"draft", "absent"}
  BY <1>3 DEF Terminal
<1> QED BY <1>1, <1>3, <1>4, DiesAsInv

\* A crash inside approve.
LEMMA DiesInApproveInv == ASSUME Inv, NEW w \in Workflows, DiesInApprove(w) PROVE Inv'
<1> DEFINE n == starts + 1
<1>1. /\ Alive /\ wf[w].status = "draft" /\ ~ wf[w].approved
      /\ Good(wf[w], n, TRUE, FALSE) /\ n \in Processes /\ wf[w] \in Record
      /\ faults = 0 => Recorded(wf[w])
  BY ApprovableParts, OneOf, Dying DEF DiesInApprove
<1>2. \/ \E k \in Steps : DiesAs(w, FirstBound(wf[w], k, n))
      \/ LET p == Approved(wf[w], n)
         IN DiesAs(w, [p EXCEPT !.run[Min(Ready(p))] = "active"])
  BY DEF DiesInApprove
<1> HIDE DEF n
<1>3. ASSUME NEW k \in Steps, DiesAs(w, FirstBound(wf[w], k, n)) PROVE Inv'
  <2> DEFINE f == FirstBound(wf[w], k, n)
  <2>1. k \in 0 .. N
    BY WorkflowAssumption DEF Steps
  <2>2. FirstEffect(wf[w], k, n, f)
    BY <1>1, <2>1, FirstFields
  <2>3. DiesAs(w, f)
    BY <1>3
  <2> HIDE DEF f
  <2>4. /\ InOrder(wf[w]) /\ Reported(wf[w]) /\ Numbered(wf[w], n) /\ Asked(wf[w])
        /\ Owned(wf[w], n)
    BY <1>1, DraftParts
  <2>5. InOrder(f) /\ Reported(f) /\ Numbered(f, n) /\ Asked(f)
    BY <1>1, <2>1, <2>2, <2>4, FirstGood
  <2>6. f \in Record /\ Final(f) /\ (Recorded(wf[w]) => Recorded(f))
    BY <1>1, <2>2 DEF FirstEffect, Final, Recorded
  <2> QED BY <1>1, <2>3, <2>5, <2>6, DiesAsInv DEF n
<1>4. CASE LET p == Approved(wf[w], n)
           IN DiesAs(w, [p EXCEPT !.run[Min(Ready(p))] = "active"])
  <2> DEFINE a == Approved(wf[w], n)
             q == [a EXCEPT !.run[Min(Ready(a))] = "active"]
  <2>1. /\ a \in Record /\ a.status = "running"
        /\ InOrder(a) /\ Reported(a) /\ Numbered(a, n) /\ Asked(a) /\ Owned(a, n)
        /\ MayGoOn(a) /\ Ready(a) # {}
    BY <1>1, ApprovedGood
  <2>2. DiesAs(w, q)
    BY <1>4
  <2> HIDE DEF a
  <2>3. /\ q \in Record /\ q.status = "running"
        /\ InOrder(q) /\ Reported(q) /\ Numbered(q, n) /\ Asked(q)
    BY <1>1, <2>1, RunAddedGood
  <2> HIDE DEF q
  <2>4. Final(q) /\ q.status \notin Terminal \cup {"draft", "absent"}
    BY <2>3 DEF Final, Terminal
  <2> QED BY <2>2, <2>3, <2>4, DiesAsInv DEF n
<1> QED BY <1>2, <1>3, <1>4

\* A crash between a step's submit and its record.
LEMMA DiesInTurnInv == ASSUME Inv, NEW w \in Workflows, DiesInTurn(w) PROVE Inv'
<1>1. Alive /\ wf[w].pc = "stepClose" /\ Returned(wf[w])
  BY DEF DiesInTurn, Running
<1>2. PICK p \in Unrecorded(wf[w]) : DiesAs(w, p)
  BY DEF DiesInTurn
<1>3. starts + 1 \in Processes /\ wf[w] \in Record /\ Good(wf[w], starts + 1, TRUE, failure)
  BY <1>1, OneOf, AliveGood
<1>4. /\ p \in Record /\ p.status = "running"
      /\ InOrder(p) /\ Reported(p) /\ Numbered(p, starts + 1) /\ Asked(p)
  BY <1>1, <1>2, <1>3, UnrecordedGood
<1>5. Final(p) /\ p.status \notin Terminal \cup {"draft", "absent"}
  BY <1>4 DEF Final, Terminal
<1> QED BY <1>2, <1>4, <1>5, DiesAsInv

\* A restart reconciles every plan.
LEMMA StartInv == ASSUME Inv, Start PROVE Inv'
<1>1. /\ phase = "down" /\ phase' = "up" /\ starts < MaxStarts /\ starts' = starts + 1
      /\ Alive = FALSE /\ Alive' = TRUE /\ failure' = FALSE
      /\ awaited' = awaited /\ faults' = faults
      /\ wf' = [w \in Workflows |-> Reconciled(Recovered(wf[w]))]
  BY DEF Start, Alive
<1>2. starts \in Nat /\ starts' \in 0 .. MaxStarts /\ starts' + 1 \in Processes
  BY <1>1, WorkflowAssumption DEF Inv, TypeOK, Processes
<1>3. ASSUME NEW w \in Workflows
      PROVE  /\ Good(wf'[w], starts' + 1, TRUE, FALSE)
             /\ faults = 0 => Tidy(wf'[w], TRUE)
  <2> DEFINE n == starts + 1
  <2>1. n \in Processes /\ n + 1 \in Processes /\ wf[w] \in Record
        /\ Good(wf[w], n, FALSE, failure) /\ (faults = 0 => Tidy(wf[w], FALSE))
    BY <1>1, <1>2, OneOf
  <2>2. wf'[w] = Reconciled(Recovered(wf[w])) /\ starts' + 1 = n + 1
    BY <1>1
  <2> HIDE DEF n
  <2> QED BY <2>1, <2>2, ReconciledGood
<1>4. \A w \in Workflows : wf'[w] \in Record
  BY <1>3 DEF Good
<1>5. wf' \in [Workflows -> Record]
  BY <1>1, <1>4
<1>6. TypeOK'
  BY <1>1, <1>2, <1>4 DEF Inv, TypeOK
<1> QED BY <1>1, <1>3, <1>5, <1>6 DEF Inv

----------------------------------------------------------------------------
(* The invariant, and what follows from it *)

LEMMA InitInv == Init => Inv
<1> SUFFICES ASSUME Init PROVE Inv
  OBVIOUS
<1>1. /\ wf = [w \in Workflows |-> Absent] /\ phase = "up" /\ awaited = {}
      /\ failure = FALSE /\ starts = 0 /\ faults = 0 /\ Alive = TRUE
  BY DEF Init, Alive
<1>2. 1 \in Processes /\ starts + 1 = 1
  BY <1>1, WorkflowAssumption DEF Processes
<1>3. Absent \in Record /\ Good(Absent, 1, TRUE, failure) /\ Tidy(Absent, TRUE)
  BY <1>2, AbsentGood
<1>4. wf \in [Workflows -> Record] /\ \A w \in Workflows : wf[w] = Absent
  BY <1>1, <1>3
<1>5. TypeOK
  <2>1. starts \in 0 .. MaxStarts /\ faults \in 0 .. MaxFaults
    BY <1>1, WorkflowAssumption
  <2>2. failure \in BOOLEAN
    BY <1>1
  <2> QED BY <1>1, <1>4, <1>3, <2>1, <2>2 DEF TypeOK
<1> QED BY <1>1, <1>2, <1>3, <1>4, <1>5 DEF Inv

\* Every step keeps the invariant.
LEMMA NextInv == Inv /\ [Next]_vars => Inv'
<1> SUFFICES ASSUME Inv, [Next]_vars PROVE Inv'
  OBVIOUS
<1>1. ASSUME NEW w \in Workflows,
             \/ Create(w) \/ Approve(w) \/ ApproveRefused(w) \/ ApproveUnsaved(w)
             \/ ApproveConflict(w) \/ Cancel(w) \/ Wake(w) \/ SaveRefused(w)
             \/ UseTool(w) \/ DiesInCreate(w) \/ DiesInApprove(w) \/ DiesInTurn(w)
      PROVE  Inv'
  BY <1>1, CreateInv, ApproveInv, ApproveRefusedInv, ApproveUnsavedInv, ApproveConflictInv,
     CancelInv, WakeInv, SaveRefusedInv, UseToolInv, DiesInCreateInv, DiesInApproveInv,
     DiesInTurnInv
<1>2. ASSUME NEW w \in Workflows, NEW j \in Jobs, RunEnds(w, j) PROVE Inv'
  BY <1>2, RunEndsInv
<1>3. ASSUME NEW w \in Workflows, NEW t \in Sessions, SessionCloses(w, t) \/ SessionStuck(w, t)
      PROVE  Inv'
  BY <1>3, SessionClosesInv, SessionStuckInv
<1>4. CASE CloseService \/ CloseReturns \/ Crash \/ Start
  BY <1>4, CloseServiceInv, CloseReturnsInv, CrashInv, StartInv
<1>5. CASE UNCHANGED vars
  <2>1. /\ wf' = wf /\ phase' = phase /\ awaited' = awaited /\ failure' = failure
        /\ starts' = starts /\ faults' = faults
    BY <1>5 DEF vars
  <2> QED BY <2>1 DEF Inv, TypeOK, Alive
<1> QED BY <1>1, <1>2, <1>3, <1>4, <1>5 DEF Next

\* Inv holds in every reachable state, for any number of workflows, steps and restarts
\* (WorkflowService).
THEOREM Invariance == Spec => []Inv
BY InitInv, NextInv, PTL DEF Spec

\* One run at a time, each step after those it depends on (execute).
THEOREM RunsInOrder == Spec => []StepsInOrder
<1>1. Inv => StepsInOrder
  <2> SUFFICES ASSUME Inv PROVE StepsInOrder
    OBVIOUS
  <2>1. TypeOK
    BY DEF Inv
  <2>2. ASSUME NEW w \in Workflows
        PROVE  LET p == wf[w] IN
               /\ Cardinality({j \in Jobs : Busy(p, j)}) <= 1
               /\ \A x \in Steps : p.run[x] # "none" =>
                     p.run[Planner] = "completed" /\ \A d \in p.deps[x] : p.run[d] = "completed"
    <3> DEFINE p == wf[w]
               B == {j \in Jobs : Busy(p, j)}
    <3>1. InOrder(p)
      BY OneOf
    <3> HIDE DEF p
    <3>2. Cardinality(B) <= 1
      <4>1. CASE B = {}
        BY <4>1, FS_EmptySet
      <4>2. CASE B # {}
        <5>1. PICK j \in B : TRUE
          BY <4>2, Zenon
        <5>2. B = {j}
          BY <3>1, <5>1 DEF InOrder
        <5> HIDE DEF B
        <5> QED BY <5>2, FS_Singleton
      <4> QED BY <4>1, <4>2
    <3> QED BY <3>1, <3>2 DEF InOrder, p
  <2> QED BY <2>1, <2>2 DEF StepsInOrder
<1> QED BY <1>1, Invariance, PTL

\* Whichever write the process died before, a restart finds every submitted run (reconcile).
THEOREM RunsAreAdopted == Spec => []RunsAdopted
<1>1. Inv => RunsAdopted
  BY DEF Inv, RunsAdopted, Tidy, Recorded, Alive
<1> QED BY <1>1, Invariance, PTL

\* The record of an ended plan agrees with its runs (execute, finishCancelled, reconcile).
THEOREM RecordIsTruthful == Spec => []RecordTruthful
<1>1. Inv => RecordTruthful
  <2> SUFFICES ASSUME Inv, NEW w \in Workflows
               PROVE  LET p == wf[w] IN
                      /\ p.status = "completed" => \A x \in Steps : p.run[x] = "completed"
                      /\ p.status \in Terminal /\ p.approved /\ faults = 0
                         => \A x \in Steps : p.steps[x] \notin {"pending", "running"}
    BY DEF RecordTruthful
  <2>1. Reported(wf[w]) /\ (faults = 0 => Final(wf[w]))
    BY OneOf DEF Tidy
  <2> QED BY <2>1 DEF Reported, Final
<1> QED BY <1>1, Invariance, PTL

\* No task left behind a Session it did not try to close (closeOwnedSessions).
THEOREM SessionsAreReleased == Spec => []SessionsReleased
<1>1. Inv => SessionsReleased
  <2> SUFFICES ASSUME Inv, NEW w \in Workflows, Alive, wf[w].pc = "idle", NEW j \in Jobs
               PROVE  wf[w].session[<<j, starts + 1>>] \in {"none", "stuck", "closed"}
    BY DEF SessionsReleased
  <2>1. starts + 1 \in Processes /\ wf[w] \in Record /\ Good(wf[w], starts + 1, TRUE, failure)
    BY OneOf, AliveGood
  <2>2. <<j, starts + 1>> \in Sessions
    BY <2>1, SessionOf
  <2>3. wf[w].session[<<j, starts + 1>>] \notin {"open", "closing"}
    BY <2>1 DEF Good, Held
  <2> QED BY <2>1, <2>2, <2>3 DEF Record
<1> QED BY <1>1, Invariance, PTL

----------------------------------------------------------------------------
(* What a step may do *)

\* From p to q no run starts.
Calm(p, q) ==
    q.approved = p.approved /\ \A j \in Jobs : p.run[j] = "none" => q.run[j] = "none"

\* Closing Sessions starts no run and leaves the result alone.
LEMMA CloseCalm ==
    ASSUME NEW p \in Record, NEW T \in SUBSET Sessions,
           NEW pc \in LastPcs \cup {"planClose", "stepClose"}
    PROVE  Calm(p, CloseCall(p, T, pc)) /\ CloseCall(p, T, pc).status = p.status
<1>1. CloseEffect(p, T, pc, CloseCall(p, T, pc))
  BY CloseFields
<1> QED BY <1>1 DEF CloseEffect, Calm

\* The same for all the Sessions of a task.
LEMMA OwnCloseCalm ==
    ASSUME NEW p \in Record, NEW pc \in LastPcs
    PROVE  LET q == CloseCall(p, OwnSessions(p), pc) IN Calm(p, q) /\ q.status = p.status
BY CloseCalm, OwnSessionsType

\* Ending a plan starts no run.
LEMMA EndCalm ==
    ASSUME NEW p \in Record, NEW status \in Terminal, NEW pc \in LastPcs
    PROVE  LET e == SetSteps([p EXCEPT !.status = status], "pending", "blocked")
               q == CloseCall(e, OwnSessions(e), pc)
           IN Calm(p, e) /\ e.status = status /\ Calm(p, q) /\ q.status = status
<1> DEFINE e == SetSteps([p EXCEPT !.status = status], "pending", "blocked")
<1>1. EndEffect(p, status, e)
  BY EndFields
<1> HIDE DEF e
<1>2. e \in Record /\ e.status = status /\ Calm(p, e)
  BY <1>1 DEF EndEffect, Calm
<1> DEFINE q == CloseCall(e, OwnSessions(e), pc)
<1>3. Calm(e, q) /\ q.status = status
  BY <1>2, OwnCloseCalm
<1> HIDE DEF q
<1>4. Calm(p, q)
  BY <1>2, <1>3 DEF Calm
<1> QED BY <1>2, <1>3, <1>4 DEF e, q

\* launch's handler starts no run; it stores the result it names.
LEMMA CaughtCalm ==
    ASSUME NEW p \in Record, NEW closing \in BOOLEAN
    PROVE  /\ Calm(p, Caught(p, closing))
           /\ p.status # "cancelling" =>
                 Caught(p, closing).status = IF closing THEN "interrupted" ELSE "failed"
<1>0. {"caughtCancel", "cancelClose", "finalClose"} \subseteq LastPcs
  BY DEF LastPcs
<1>1. CASE p.status = "cancelling" /\ ~ closing
  BY <1>0, <1>1, OwnCloseCalm DEF Caught, CancelStarts
<1>2. CASE ~ (p.status = "cancelling" /\ ~ closing)
  <2> DEFINE status == IF closing THEN "interrupted" ELSE "failed"
             e == SetSteps([p EXCEPT !.status = status], "pending", "blocked")
             q == CloseCall(e, OwnSessions(e), "finalClose")
  <2>1. Caught(p, closing) = q
    BY <1>2 DEF Caught
  <2>2. status \in Terminal
    BY DEF Terminal
  <2> HIDE DEF status
  <2>3. Calm(p, q) /\ q.status = status
    BY <1>0, <2>2, EndCalm
  <2> QED BY <2>1, <2>3 DEF status
<1> QED BY <1>1, <1>2

\* finishCancelled starts no run.
LEMMA CancelStartsCalm ==
    ASSUME NEW p \in Record, NEW pc \in {"cancelClose", "caughtCancel"}
    PROVE  Calm(p, CancelStarts(p, pc)) /\ CancelStarts(p, pc).status = p.status
BY OwnCloseCalm DEF CancelStarts, LastPcs

\* A handler whose write is refused starts no run.
LEMMA CaughtUnsavedCalm ==
    ASSUME NEW p \in Record PROVE Calm(p, CaughtUnsaved(p)) /\ CaughtUnsaved(p).status = p.status
BY OwnCloseCalm DEF CaughtUnsaved, LastPcs

\* The end of a task starts no run.
LEMMA DoneCalm ==
    ASSUME NEW p \in Record PROVE Calm(p, TaskDone(p)) /\ TaskDone(p).status = p.status
BY DoneFields DEF DoneEffect, Calm

\* The Runtime starts no run by itself.
LEMMA RunsCalm ==
    ASSUME NEW p \in Record, NEW q, RunsEffect(p, q) PROVE Calm(p, q) /\ q.status = p.status
<1>1. \A j \in Jobs : p.run[j] = "none" => ~ Busy(p, j)
  BY DEF Busy
<1> QED BY <1>1 DEF RunsEffect, Calm

\* Two calm changes in a row are calm.
LEMMA CalmThrough == ASSUME NEW p, NEW r, NEW q, Calm(p, r), Calm(r, q) PROVE Calm(p, q)
BY DEF Calm

\* A turn of the loop submits only for a plan that is not cancelled, in a live service.
LEMMA TurnCalm ==
    ASSUME NEW p \in Record, NEW q \in ExecuteTurn(p, FALSE)
    PROVE  q.approved = p.approved /\ (Calm(p, q) \/ p.status # "cancelling")
<1>1. CASE q = CancelStarts(p, "cancelClose")
  BY <1>1, CancelStartsCalm DEF Calm
<1>2. CASE q = Caught(p, FALSE)
  BY <1>2, CaughtCalm DEF Calm
<1>3. CASE q = CloseCall(p, OwnSessions(p), "endClose")
  BY <1>3, OwnCloseCalm DEF Calm, LastPcs
<1>4. CASE p.status # "cancelling" /\ Ready(p) # {} /\ q = Submitted(p, Min(Ready(p)))
  <2>1. Min(Ready(p)) \in Steps
    BY <1>4, LeastStep DEF Ready
  <2>2. SubmitEffect(p, Min(Ready(p)), q)
    BY <1>4, <2>1, SubmitFields
  <2> QED BY <1>4, <2>2 DEF SubmitEffect
<1> QED BY <1>1, <1>2, <1>3, <1>4 DEF ExecuteTurn

\* What one step may do to a workflow.
Wanted(p, q) ==
    \A j \in Jobs : p.run[j] = "none" /\ q.run[j] # "none" =>
       /\ phase = "up" /\ ~ p.asked
       /\ j \in Steps => q.approved

Kept(p, q) ==
    p.status \in Terminal /\ q.status # p.status =>
       p.status = "failed" /\ q.status = "interrupted" /\ Closing /\ ~ AllClosed(p)

Honest == \A w \in Workflows : Wanted(wf[w], wf'[w]) /\ Kept(wf[w], wf'[w])

\* Where no run starts, none starts unwanted.
LEMMA CalmWanted == ASSUME NEW p, NEW q, Calm(p, q) PROVE Wanted(p, q)
BY DEF Calm, Wanted

\* A step that writes one record is honest if that record is.
LEMMA PutHonest ==
    ASSUME Inv, NEW w \in Workflows, NEW q, Put(w, q), Wanted(wf[w], q), Kept(wf[w], q)
    PROVE  Honest
<1>1. \A v \in Workflows : wf'[v] = IF v = w THEN q ELSE wf[v]
  BY DEF Put, Inv
<1> QED BY <1>1 DEF Honest, Wanted, Kept

\* Where the task of an ended plan can be.
LEMMA EndedAt ==
    ASSUME Inv, Alive, NEW w \in Workflows, wf[w].status \in Terminal
    PROVE  /\ wf[w].pc \in {"idle", "failClose", "finalClose"}
           /\ wf[w].pc = "failClose" => wf[w].status = "failed"
           /\ wf[w].status # "cancelling"
BY AliveGood DEF Good, StagedAt, Terminal

\* A plan that is neither ended nor being cancelled was not asked to stop.
LEMMA NotAsked ==
    ASSUME Inv, NEW w \in Workflows, wf[w].status \notin Terminal \cup {"cancelling"}
    PROVE  ~ wf[w].asked
BY OneOf DEF Asked

\* create starts the planner, in a live service.
LEMMA CreateHonest == ASSUME Inv, NEW w \in Workflows, Create(w) PROVE Honest
<1>1. PICK q \in {[PlannerRuns EXCEPT !.ran = {Planner}, !.pc = "planPoll"],
                  Caught(Planning, FALSE), Caught(PlannerBound, FALSE)} : Put(w, q)
  BY DEF Create
<1>2. phase = "up" /\ wf[w].status = "absent" /\ wf[w].status \notin Terminal \cup {"cancelling"}
  BY DEF Create, Terminal
<1>3. starts + 1 \in Processes
  BY OneOf
<1>4. \A x \in Steps : q.run[x] = "none"
  <2>1. \A p \in {Planning, PlannerBound, PlannerRuns} :
           p \in Record /\ \A x \in Steps : p.run[x] = "none"
    BY <1>3, CreateParts DEF InOrder
  <2>2. CASE q \in {Caught(Planning, FALSE), Caught(PlannerBound, FALSE)}
    <3>1. PICK p \in {Planning, PlannerBound} : q = Caught(p, FALSE)
      BY <2>2
    <3>2. p \in Record /\ FALSE \in BOOLEAN /\ \A x \in Steps : p.run[x] = "none"
      BY <2>1, <3>1
    <3>3. Calm(p, q)
      BY <3>1, <3>2, CaughtCalm
    <3> QED BY <3>2, <3>3 DEF Calm, Jobs
  <2>3. CASE q = [PlannerRuns EXCEPT !.ran = {Planner}, !.pc = "planPoll"]
    <3> DEFINE p == PlannerRuns
    <3>1. p \in Record /\ (\A x \in Steps : p.run[x] = "none")
          /\ q = [p EXCEPT !.ran = {Planner}, !.pc = "planPoll"]
      BY <2>1, <2>3
    <3> HIDE DEF p
    <3>2. q.run = p.run
      BY <3>1 DEF Record
    <3> QED BY <3>1, <3>2
  <2> QED BY <1>1, <2>2, <2>3
<1>5. Wanted(wf[w], q)
  BY <1>2, <1>4, NotAsked DEF Wanted
<1>6. Kept(wf[w], q)
  BY <1>2 DEF Kept
<1> QED BY <1>1, <1>5, <1>6, PutHonest

\* approve starts the first step of a plan it has approved.
LEMMA ApproveHonest ==
    ASSUME Inv, NEW w \in Workflows,
           Approve(w) \/ ApproveRefused(w) \/ ApproveUnsaved(w) \/ ApproveConflict(w)
    PROVE  Honest
<1> DEFINE n == starts + 1
<1>1. /\ phase = "up" /\ wf[w].status = "draft" /\ ~ wf[w].approved
      /\ wf[w].status \notin Terminal \cup {"cancelling"}
      /\ Good(wf[w], n, TRUE, FALSE) /\ n \in Processes /\ wf[w] \in Record
  BY ApprovableParts, OneOf
     DEF Approve, ApproveRefused, ApproveUnsaved, ApproveConflict, Approvable, Terminal
<1>2. ~ wf[w].asked /\ \A q : Kept(wf[w], q)
  BY <1>1, NotAsked DEF Kept
<1>3. CASE Approve(w)
  <2>1. PICK q \in ExecuteTurn(Approved(wf[w], n), FALSE) : Put(w, q)
    BY <1>3 DEF Approve
  <2>2. Approved(wf[w], n) \in Record /\ MayGoOn(Approved(wf[w], n))
    BY <1>1, ApprovedGood
  <2>3. q.approved
    BY <2>1, <2>2, TurnCalm DEF MayGoOn
  <2>4. Wanted(wf[w], q)
    BY <1>1, <1>2, <2>3 DEF Wanted
  <2> QED BY <1>2, <2>1, <2>4, PutHonest
<1>4. \A k \in 0 .. N : FirstBound(wf[w], k, n) \in Record
                        /\ FirstBound(wf[w], k, n).run = wf[w].run
                        /\ FirstBound(wf[w], k, n).approved = wf[w].approved
  BY <1>1, FirstFields DEF FirstEffect
<1>5. ASSUME NEW k \in 0 .. N
      PROVE  LET r == [FirstBound(wf[w], k, n) EXCEPT !.status = "failed"]
             IN Calm(wf[w], CloseCall(r, OwnSessions(r), "failClose"))
  <2> DEFINE f == FirstBound(wf[w], k, n)
             r == [f EXCEPT !.status = "failed"]
             q == CloseCall(r, OwnSessions(r), "failClose")
  <2>1. f \in Record /\ f.run = wf[w].run /\ f.approved = wf[w].approved
    BY <1>4
  <2> HIDE DEF f
  <2>2. r \in Record /\ r.run = wf[w].run /\ r.approved = wf[w].approved
    BY <2>1 DEF Record, Terminal
  <2> HIDE DEF r
  <2>3. Calm(r, q)
    BY <2>2, OwnCloseCalm DEF LastPcs
  <2> QED BY <2>2, <2>3 DEF Calm, r, f
<1>6. ASSUME NEW p \in Record, p.run = wf[w].run, p.approved = wf[w].approved, NEW j \in Jobs,
             NEW T \in SUBSET Sessions
      PROVE  Calm(wf[w], CloseCall(p, T, "failClose"))
  <2>1. Calm(p, CloseCall(p, T, "failClose"))
    BY CloseCalm DEF LastPcs
  <2> QED BY <1>6, <2>1 DEF Calm
<1>7. \A p \in Record : \A j \in Jobs :
         LET s == NewSession(p, j, n)
         IN s \in Record /\ s.run = p.run /\ s.approved = p.approved
            /\ OwnSessions(s) \in SUBSET Sessions
  BY <1>1, NewFields, OwnSessionsType DEF NewEffect
<1>8. \A k \in Steps : k \in 0 .. N /\ k - 1 \in 0 .. N /\ k \in Jobs
  BY WorkflowAssumption DEF Steps, Jobs
<1>9. CASE ApproveRefused(w)
  <2>1. PICK k \in Steps :
           LET p == [FirstBound(wf[w], k - 1, n) EXCEPT !.status = "failed"]
           IN Put(w, CloseCall(p, OwnSessions(p), "failClose"))
    BY <1>9 DEF ApproveRefused
  <2> QED BY <1>2, <1>5, <1>8, <2>1, CalmWanted, PutHonest
<1>10. CASE ApproveUnsaved(w)
  <2>1. PICK k \in Steps :
           \/ LET p == [FirstBound(wf[w], k, n) EXCEPT !.status = "failed"]
              IN Put(w, CloseCall(p, OwnSessions(p), "failClose"))
           \/ LET p == NewSession(FirstBound(wf[w], k - 1, n), k, n)
              IN Put(w, CloseCall(p, OwnSessions(p), "failClose"))
    BY <1>10 DEF ApproveUnsaved
  <2>2. CASE LET p == [FirstBound(wf[w], k, n) EXCEPT !.status = "failed"]
             IN Put(w, CloseCall(p, OwnSessions(p), "failClose"))
    BY <1>2, <1>5, <1>8, <2>2, CalmWanted, PutHonest
  <2>3. CASE LET p == NewSession(FirstBound(wf[w], k - 1, n), k, n)
             IN Put(w, CloseCall(p, OwnSessions(p), "failClose"))
    <3> DEFINE p == NewSession(FirstBound(wf[w], k - 1, n), k, n)
    <3>1. /\ p \in Record /\ p.run = wf[w].run /\ p.approved = wf[w].approved
          /\ OwnSessions(p) \in SUBSET Sessions
      BY <1>4, <1>7, <1>8
    <3>2. Put(w, CloseCall(p, OwnSessions(p), "failClose"))
      BY <2>3
    <3> HIDE DEF p
    <3>3. Calm(wf[w], CloseCall(p, OwnSessions(p), "failClose"))
      BY <1>6, <1>8, <3>1
    <3> QED BY <1>2, <3>2, <3>3, CalmWanted, PutHonest
  <2> QED BY <2>1, <2>2, <2>3
<1>11. CASE ApproveConflict(w)
  <2> DEFINE p == NewSession(wf[w], 1, n)
  <2>0. 1 \in Jobs
    BY WorkflowAssumption DEF Steps, Jobs
  <2>1. /\ p \in Record /\ p.run = wf[w].run /\ p.approved = wf[w].approved
        /\ OwnSessions(p) \in SUBSET Sessions
    BY <1>1, <1>7, <2>0
  <2>2. Put(w, CloseCall(p, OwnSessions(p) \ {Bound(p, 1)}, "failClose"))
    BY <1>11 DEF ApproveConflict
  <2> HIDE DEF p
  <2>3. Calm(wf[w], CloseCall(p, OwnSessions(p) \ {Bound(p, 1)}, "failClose"))
    BY <1>6, <2>0, <2>1
  <2> QED BY <1>2, <2>2, <2>3, CalmWanted, PutHonest
<1> QED BY <1>3, <1>9, <1>10, <1>11

\* No run starts, and the result stays.
LEMMA CalmPut ==
    ASSUME Inv, NEW w \in Workflows, NEW q, Put(w, q), Calm(wf[w], q),
           wf[w].status \in Terminal => q.status = wf[w].status
    PROVE  Honest
<1>1. Kept(wf[w], q)
  BY DEF Kept
<1> QED BY <1>1, CalmWanted, PutHonest

\* cancel starts nothing and is refused once the plan has its result.
LEMMA CancelHonest == ASSUME Inv, NEW w \in Workflows, Cancel(w) PROVE Honest
<1> DEFINE a == [wf[w] EXCEPT !.status = "cancelling", !.asked = TRUE]
           p == CancelRuns(a)
           q == IF p.pc = "idle" THEN CancelStarts(p, "cancelClose") ELSE p
<1>1. wf[w].status \notin Terminal /\ Put(w, q) /\ wf[w] \in Record
  BY OneOf DEF Cancel
<1>2. a \in Record /\ a.run = wf[w].run /\ a.approved = wf[w].approved
  BY <1>1 DEF Record, Terminal
<1> HIDE DEF a
<1>3. RunsEffect(a, p)
  BY <1>2, CancelRunsEffect
<1> HIDE DEF p
<1>4. p \in Record /\ Calm(a, p)
  BY <1>2, <1>3, RunsCalm DEF RunsEffect
<1>5. Calm(p, q)
  <2>1. Calm(p, p)
    BY DEF Calm
  <2> QED BY <1>4, <2>1, CancelStartsCalm
<1> HIDE DEF q
<1>6. Calm(wf[w], q)
  BY <1>2, <1>4, <1>5 DEF Calm
<1> QED BY <1>1, <1>6, CalmPut

\* A poll that cancels its run.
LEMMA PollWaitsHonest ==
    ASSUME Inv, NEW w \in Workflows, NEW j \in Jobs, PollWaits(w, j) PROVE Honest
<1> DEFINE r == [wf[w].run EXCEPT ![j] = "stopping"]
           q == [wf[w] EXCEPT !.run = r]
<1>1. wf[w] \in Record
  BY OneOf
<1>2. /\ r \in [Jobs -> Outcomes \cup {"none", "active", "stopping"}]
      /\ \A i \in Jobs : \/ r[i] = wf[w].run[i]
                         \/ Busy(wf[w], i) /\ r[i] \in Outcomes \cup {"stopping"}
  BY <1>1 DEF PollWaits, Record, Busy
<1>3. Put(w, q)
  BY DEF PollWaits, CancelRun
<1> HIDE DEF r
<1>4. RunsEffect(wf[w], q)
  BY <1>1, <1>2, RunsFields
<1> HIDE DEF q
<1> QED BY <1>1, <1>3, <1>4, RunsCalm, CalmPut

\* The planner's task starts no step.
LEMMA PlannerHonest ==
    ASSUME Inv, NEW w \in Workflows, PollPlanner(w) \/ PlanClosed(w) PROVE Honest
<1>1. /\ Alive /\ wf[w].pc \in {"planPoll", "planClose"} /\ wf[w] \in Record
      /\ Closing \in BOOLEAN /\ FALSE \in BOOLEAN
  BY OneOf DEF PollPlanner, PlanClosed, Running, Closing
<1>2. wf[w].status \notin Terminal
  BY <1>1, EndedAt
<1>3. ASSUME NEW q, Put(w, q), Calm(wf[w], q) PROVE Honest
  BY <1>2, <1>3, CalmPut
<1>4. ASSUME NEW closing \in BOOLEAN, Put(w, Caught(wf[w], closing)) PROVE Honest
  BY <1>1, <1>3, <1>4, CaughtCalm
<1>5. CASE Put(w, CancelStarts(wf[w], "cancelClose"))
  BY <1>1, <1>3, <1>5, CancelStartsCalm
<1>6. CASE PollPlanner(w)
  <2>1. CASE PollWaits(w, Planner)
    BY <2>1, PollWaitsHonest DEF Jobs
  <2>2. ASSUME NEW q \in PlanEnded(wf[w]), Put(w, q), wf[w].pc = "planPoll" PROVE Honest
    <3>1. CASE q = CloseCall(wf[w], {Bound(wf[w], Planner)}, "planClose")
      <4>1. {Bound(wf[w], Planner)} \in SUBSET Sessions
        <5>1. wf[w].bound[Planner] = starts + 1
          BY <1>1, <2>2, AliveGood DEF Good, Held
        <5>2. Planner \in Jobs /\ wf[w].bound[Planner] # 0
          BY <5>1, OneOf DEF Jobs, Processes
        <5> QED BY <1>1, <5>2, BoundSession
      <4> QED BY <1>1, <1>3, <2>2, <3>1, <4>1, CloseCalm
    <3> QED BY <1>1, <1>4, <1>5, <2>2, <3>1 DEF PlanEnded
  <2> QED BY <1>6, <2>1, <2>2 DEF PollPlanner
<1>7. CASE PlanClosed(w)
  <2>1. ASSUME NEW deps \in Plans,
               Put(w, TaskDone([wf[w] EXCEPT !.status = "draft", !.deps = deps,
                                             !.steps = [x \in Steps |-> "pending"]]))
        PROVE  Honest
    <3> DEFINE s == [x \in Steps |-> "pending"]
               d == [wf[w] EXCEPT !.status = "draft", !.deps = deps, !.steps = s]
    <3>1. s \in [Steps -> Terminal \cup {"none", "pending", "running", "blocked"}]
      OBVIOUS
    <3>2. Put(w, TaskDone(d))
      BY <2>1
    <3> HIDE DEF s
    <3>3. d \in Record /\ d.run = wf[w].run /\ d.approved = wf[w].approved
      BY <1>1, <3>1 DEF Record
    <3> HIDE DEF d
    <3>4. Calm(d, TaskDone(d))
      BY <3>3, DoneCalm
    <3>5. Calm(wf[w], TaskDone(d))
      BY <3>3, <3>4 DEF Calm
    <3> QED BY <1>3, <3>2, <3>5
  <2> QED BY <1>1, <1>4, <1>5, <1>7, <2>1 DEF PlanClosed
<1> QED BY <1>6, <1>7

\* The task of an approved plan starts its next step unless it was cancelled.
LEMMA StepHonest ==
    ASSUME Inv, NEW w \in Workflows, PollStep(w) \/ StepClosed(w) PROVE Honest
<1>1. /\ Alive /\ wf[w].pc \in {"stepPoll", "stepClose"} /\ wf[w] \in Record
      /\ Closing \in BOOLEAN /\ FALSE \in BOOLEAN
  BY OneOf DEF PollStep, StepClosed, Running, Closing
<1>2. wf[w].status \in {"running", "cancelling"} /\ wf[w].approved
  BY <1>1, AliveGood DEF Good, StagedAt
<1>3. wf[w].status \notin Terminal
  BY <1>2 DEF Terminal
<1>4. ASSUME NEW q, Put(w, q), Calm(wf[w], q) PROVE Honest
  BY <1>3, <1>4, CalmPut
<1>5. CASE PollStep(w)
  <2>1. CASE PollWaits(w, wf[w].at)
    BY <1>1, <2>1, PollWaitsHonest DEF Record, Jobs
  <2>2. CASE Ended(wf[w], wf[w].at)
             /\ LET p == [ApplyResult(wf[w], wf[w].at)
                           EXCEPT !.stale = (wf[w].status = "cancelling")]
                IN Put(w, CloseCall(p, {Bound(p, p.at)}, "stepClose"))
    <3> DEFINE b == (wf[w].status = "cancelling")
               s == [wf[w].steps EXCEPT ![wf[w].at] = ResultOf(@, wf[w].run[wf[w].at])]
               p == [[wf[w] EXCEPT !.steps = s] EXCEPT !.stale = b]
    <3>1. s \in [Steps -> Terminal \cup {"none", "pending", "running", "blocked"}]
      BY <1>1, ResultStep DEF Record
    <3>2. b \in BOOLEAN /\ Put(w, CloseCall(p, {Bound(p, p.at)}, "stepClose"))
      BY <2>2 DEF ApplyResult
    <3> HIDE DEF b, s
    <3>3. /\ p \in Record /\ p.run = wf[w].run /\ p.approved = wf[w].approved
          /\ p.at = wf[w].at /\ p.bound = wf[w].bound
      BY <1>1, <3>1, <3>2 DEF Record
    <3> HIDE DEF p
    <3>4. p.at \in Jobs /\ p.bound[p.at] # 0
      <4>1. wf[w].at \in Jobs /\ wf[w].run[wf[w].at] # "none"
        BY <1>1, <2>2 DEF Ended, Outcomes, Record, Jobs
      <4> QED BY <3>3, <4>1, OneOf DEF InOrder
    <3>5. {Bound(p, p.at)} \in SUBSET Sessions
      BY <3>3, <3>4, BoundSession
    <3>6. Calm(p, CloseCall(p, {Bound(p, p.at)}, "stepClose"))
      BY <3>3, <3>5, CloseCalm
    <3>7. Calm(wf[w], CloseCall(p, {Bound(p, p.at)}, "stepClose"))
      BY <3>3, <3>6 DEF Calm
    <3> QED BY <1>4, <3>2, <3>7
  <2> QED BY <1>5, <2>1, <2>2 DEF PollStep
<1>6. CASE StepClosed(w)
  <2>1. PICK q \in AfterStep(wf[w]) : Put(w, q)
    BY <1>6 DEF StepClosed
  <2>2. CASE q = Caught(wf[w], Closing)
    BY <1>1, <1>4, <2>1, <2>2, CaughtCalm
  <2>3. CASE q = CancelStarts(wf[w], "cancelClose")
    BY <1>1, <1>4, <2>1, <2>3, CancelStartsCalm
  <2>4. CASE q = StepFailed(wf[w])
    <3>1. Calm(wf[w], q)
      BY <1>1, <2>4, EndCalm DEF StepFailed, Terminal, LastPcs
    <3> QED BY <1>4, <2>1, <3>1
  <2>5. CASE ~ Closing /\ q \in ExecuteTurn(wf[w], FALSE)
    <3>1. q.approved = wf[w].approved /\ (Calm(wf[w], q) \/ wf[w].status # "cancelling")
      BY <1>1, <2>5, TurnCalm
    <3>2. CASE Calm(wf[w], q)
      BY <1>4, <2>1, <3>2
    <3>3. CASE wf[w].status # "cancelling"
      <4>1. ~ wf[w].asked
        BY <1>3, <3>3, NotAsked
      <4>2. phase = "up"
        BY <1>1, <2>5 DEF Alive, Closing, Inv, TypeOK
      <4>3. Wanted(wf[w], q) /\ Kept(wf[w], q)
        BY <1>2, <1>3, <3>1, <4>1, <4>2 DEF Wanted, Kept
      <4> QED BY <2>1, <4>3, PutHonest
    <3> QED BY <3>1, <3>2, <3>3
  <2> QED BY <2>1, <2>2, <2>3, <2>4, <2>5 DEF AfterStep
<1> QED BY <1>5, <1>6

\* The end of finishCancelled starts no run.
LEMMA CancelEndsCalm ==
    ASSUME NEW p \in Record PROVE CancelEnds(p) \in Record /\ Calm(p, CancelEnds(p))
BY CancelFields DEF CancelEffect, Calm

\* The last stages of a task; only here can a failed plan be marked interrupted.
LEMMA EndHonest ==
    ASSUME Inv, NEW w \in Workflows,
           \/ EndClosed(w) \/ FailClosed(w) \/ CancelClosed(w)
           \/ CaughtCancelClosed(w) \/ FinalClosed(w)
    PROVE  Honest
<1>1. /\ Alive /\ wf[w] \in Record /\ Closing \in BOOLEAN
      /\ wf[w].pc \in LastPcs /\ Returned(wf[w])
  BY OneOf DEF EndClosed, FailClosed, CancelClosed, CaughtCancelClosed, FinalClosed,
               Running, Closing, LastPcs
<1>2. ASSUME NEW q, Put(w, q), Calm(wf[w], q), wf[w].status \notin Terminal PROVE Honest
  BY <1>2, CalmPut
<1>3. ASSUME wf[w].status \notin Terminal, Put(w, Caught(wf[w], Closing)) PROVE Honest
  BY <1>1, <1>2, <1>3, CaughtCalm
<1>4. CASE EndClosed(w)
  <2>1. wf[w].status \notin Terminal
    BY <1>1, <1>4, EndedAt DEF EndClosed
  <2>2. CASE Put(w, CancelStarts(wf[w], "cancelClose"))
    BY <1>1, <1>2, <2>1, <2>2, CancelStartsCalm
  <2>3. CASE Put(w, TaskDone(Concluded(wf[w])))
    <3> DEFINE c == Concluded(wf[w])
    <3>1. c \in Record /\ Calm(wf[w], c)
      <4>1. CASE \A x \in Steps : wf[w].steps[x] = "completed"
        <5>1. c = [wf[w] EXCEPT !.status = "completed"]
          BY <4>1 DEF Concluded
        <5> HIDE DEF c
        <5>2. c \in Record /\ c.run = wf[w].run /\ c.approved = wf[w].approved
          BY <1>1, <5>1 DEF Record, Terminal
        <5> QED BY <5>2 DEF Calm
      <4>2. CASE ~ \A x \in Steps : wf[w].steps[x] = "completed"
        <5>1. c = SetSteps([wf[w] EXCEPT !.status = "failed"], "pending", "blocked")
          BY <4>2 DEF Concluded
        <5> HIDE DEF c
        <5>2. EndEffect(wf[w], "failed", c)
          BY <1>1, <5>1, EndFields DEF Terminal
        <5> QED BY <5>2 DEF EndEffect, Calm
      <4> QED BY <4>1, <4>2
    <3>2. Put(w, TaskDone(c))
      BY <2>3
    <3> HIDE DEF c
    <3>3. Calm(wf[w], TaskDone(c))
      BY <3>1, DoneCalm, CalmThrough
    <3> QED BY <1>2, <2>1, <3>2, <3>3
  <2> QED BY <1>3, <1>4, <2>1, <2>2, <2>3 DEF EndClosed
<1>5. CASE FailClosed(w)
  <2>1. CASE Put(w, TaskDone(wf[w]))
    BY <1>1, <2>1, DoneCalm, CalmPut
  <2>2. CASE ~ AllClosed(wf[w]) /\ Put(w, Caught(wf[w], Closing))
    <3>1. CASE wf[w].status \notin Terminal
      BY <1>3, <2>2, <3>1
    <3>2. CASE wf[w].status \in Terminal
      <4>1. wf[w].status = "failed" /\ wf[w].status # "cancelling"
        BY <1>1, <1>5, <3>2, EndedAt DEF FailClosed
      <4>2. Kept(wf[w], Caught(wf[w], Closing))
        BY <1>1, <2>2, <4>1, CaughtCalm DEF Kept
      <4>3. Wanted(wf[w], Caught(wf[w], Closing))
        BY <1>1, CaughtCalm, CalmWanted
      <4> QED BY <2>2, <4>2, <4>3, PutHonest
    <3> QED BY <3>1, <3>2
  <2> QED BY <1>5, <2>1, <2>2 DEF FailClosed
<1>6. CASE CancelClosed(w)
  <2>1. wf[w].status \notin Terminal
    BY <1>1, <1>6, EndedAt DEF CancelClosed
  <2>2. CASE Put(w, TaskDone(CancelEnds(wf[w])))
    <3>1. Calm(wf[w], TaskDone(CancelEnds(wf[w])))
      BY <1>1, CancelEndsCalm, DoneCalm, CalmThrough
    <3> QED BY <1>2, <2>1, <2>2, <3>1
  <2> QED BY <1>3, <1>6, <2>1, <2>2 DEF CancelClosed
<1>7. CASE CaughtCancelClosed(w)
  <2>1. wf[w].status \notin Terminal
    BY <1>1, <1>7, EndedAt DEF CaughtCancelClosed
  <2> DEFINE p == IF AllClosed(wf[w]) THEN CancelEnds(wf[w]) ELSE wf[w]
  <2>2. Put(w, CloseCall(p, OwnSessions(p), "finalClose"))
    BY <1>7 DEF CaughtCancelClosed
  <2>3. p \in Record /\ Calm(wf[w], p)
    <3>1. Calm(wf[w], wf[w])
      BY DEF Calm
    <3> QED BY <1>1, <3>1, CancelEndsCalm
  <2> HIDE DEF p
  <2>4. Calm(p, CloseCall(p, OwnSessions(p), "finalClose"))
    BY <2>3, OwnCloseCalm DEF LastPcs
  <2> QED BY <1>2, <2>1, <2>2, <2>3, <2>4, CalmThrough
<1>8. CASE FinalClosed(w)
  <2>1. Put(w, TaskDone(wf[w]))
    BY <1>8 DEF FinalClosed
  <2> QED BY <1>1, <2>1, DoneCalm, CalmPut
<1> QED BY <1>4, <1>5, <1>6, <1>7, <1>8

\* The step submitted but not recorded belongs to a plan nobody cancelled.
LEMMA UnrecordedWanted ==
    ASSUME Inv, Alive, NEW w \in Workflows, wf[w].pc = "stepClose", Returned(wf[w]),
           NEW p \in Unrecorded(wf[w])
    PROVE  /\ p \in Record /\ p.approved /\ phase = "up" /\ ~ wf[w].asked
           /\ wf[w].status \notin Terminal
<1>1. /\ wf[w].status \in {"running", "cancelling"} /\ wf[w].approved
      /\ ~ Closing /\ wf[w].status # "cancelling"
      /\ starts + 1 \in Processes /\ wf[w] \in Record /\ Good(wf[w], starts + 1, TRUE, failure)
  BY OneOf, AliveGood DEF Good, StagedAt, Unrecorded
<1>2. phase = "up" /\ wf[w].status \notin Terminal
  BY <1>1 DEF Alive, Closing, Inv, TypeOK, Terminal
<1>3. ~ wf[w].asked
  BY <1>1, <1>2, NotAsked
<1>4. p \in Record
  BY <1>1, UnrecordedGood
<1>5. p.approved = wf[w].approved
  BY <1>1 DEF Unrecorded, Record
<1> QED BY <1>1, <1>2, <1>3, <1>4, <1>5

\* A refused write may leave a wanted run unrecorded, never an unwanted one.
LEMMA SaveRefusedHonest == ASSUME Inv, NEW w \in Workflows, SaveRefused(w) PROVE Honest
<1>1. /\ Alive /\ wf[w] \in Record /\ Closing \in BOOLEAN
      /\ Refusable(wf[w]) \/ wf[w].pc = "caughtCancel"
  BY OneOf DEF SaveRefused, Running, Closing
<1>2. wf[w].status \notin Terminal
  BY <1>1, EndedAt DEF Refusable
<1>3. CASE Put(w, CaughtUnsaved(wf[w]))
  BY <1>1, <1>3, CaughtUnsavedCalm, CalmPut
<1>4. ASSUME NEW p \in {wf[w]} \cup Unrecorded(wf[w]), Refusable(wf[w]),
             NEW q \in {Caught(p, Closing), CaughtUnsaved(p)}, Put(w, q)
      PROVE  Honest
  <2>1. CASE p = wf[w]
    BY <1>1, <1>2, <1>4, <2>1, CaughtCalm, CaughtUnsavedCalm, CalmPut
  <2>2. CASE p \in Unrecorded(wf[w])
    <3>1. wf[w].pc = "stepClose" /\ Returned(wf[w])
      BY <2>2, AllClosedReturned DEF Unrecorded
    <3>2. p \in Record /\ p.approved /\ phase = "up" /\ ~ wf[w].asked
      BY <1>1, <2>2, <3>1, UnrecordedWanted
    <3>3. q.approved
      BY <1>1, <1>4, <3>2, CaughtCalm, CaughtUnsavedCalm DEF Calm
    <3>4. Wanted(wf[w], q) /\ Kept(wf[w], q)
      BY <1>2, <3>2, <3>3 DEF Wanted, Kept
    <3> QED BY <1>4, <3>4, PutHonest
  <2> QED BY <1>4, <2>1, <2>2
<1> QED BY <1>3, <1>4 DEF SaveRefused

\* Runs end and Sessions close.
LEMMA RuntimeHonest ==
    ASSUME Inv, NEW w \in Workflows,
           \/ \E j \in Jobs : RunEnds(w, j)
           \/ UseTool(w)
           \/ \E t \in Sessions : SessionCloses(w, t) \/ SessionStuck(w, t)
    PROVE  Honest
<1>1. wf[w] \in Record
  BY OneOf
<1>2. ASSUME NEW j \in Jobs, RunEnds(w, j) PROVE Honest
  <2>1. PICK outcome \in Outcomes :
           Busy(wf[w], j) /\ Put(w, [wf[w] EXCEPT !.run[j] = outcome])
    <3>1. CASE wf[w].run[j] = "active"
      BY <1>2, <3>1 DEF RunEnds, Busy, Outcomes
    <3>2. CASE wf[w].run[j] = "stopping"
      BY <1>2, <3>2 DEF RunEnds, Busy, Outcomes
    <3> QED BY <1>2, <3>1, <3>2 DEF RunEnds
  <2> DEFINE q == [wf[w] EXCEPT !.run[j] = outcome]
  <2>2. /\ q.status = wf[w].status /\ q.approved = wf[w].approved
        /\ \A i \in Jobs : q.run[i] = IF i = j THEN outcome ELSE wf[w].run[i]
    BY <1>1 DEF Record
  <2>3. Put(w, q)
    BY <2>1
  <2> HIDE DEF q
  <2>4. Calm(wf[w], q)
    BY <2>1, <2>2 DEF Calm, Busy
  <2> QED BY <2>2, <2>3, <2>4, CalmPut
<1>3. CASE UseTool(w)
  <2> DEFINE q == [wf[w] EXCEPT !.tools = TRUE]
  <2>1. Put(w, q)
    BY <1>3 DEF UseTool
  <2>2. q.status = wf[w].status /\ q.approved = wf[w].approved /\ q.run = wf[w].run
    BY <1>1 DEF Record
  <2> HIDE DEF q
  <2> QED BY <2>1, <2>2, CalmPut DEF Calm
<1>4. ASSUME NEW t \in Sessions, SessionCloses(w, t) \/ SessionStuck(w, t) PROVE Honest
  <2>1. PICK s \in {"closed", "stuck"} : Put(w, [wf[w] EXCEPT !.session[t] = s])
    BY <1>4 DEF SessionCloses, SessionStuck
  <2> DEFINE q == [wf[w] EXCEPT !.session[t] = s]
  <2>2. q.status = wf[w].status /\ q.approved = wf[w].approved /\ q.run = wf[w].run
    BY <1>1 DEF Record
  <2>3. Put(w, q)
    BY <2>1
  <2> HIDE DEF q
  <2> QED BY <2>2, <2>3, CalmPut DEF Calm
<1> QED BY <1>2, <1>3, <1>4

\* A dead process starts no run.
LEMMA DeadCalm ==
    ASSUME NEW p \in Record PROVE Calm(p, Dead(p)) /\ Dead(p).status = p.status
<1> DEFINE s == [t \in Sessions |-> IF p.session[t] = "closing" THEN "stuck" ELSE p.session[t]]
           d == TaskDone(p)
           q == [d EXCEPT !.session = s]
<1>1. DoneEffect(p, d)
  BY DoneFields
<1>2. Dead(p) = q
  BY DEF Dead
<1> HIDE DEF d, s
<1>3. q.status = p.status /\ q.run = p.run /\ q.approved = p.approved
  BY <1>1 DEF DoneEffect, Record
<1> HIDE DEF q
<1> QED BY <1>2, <1>3 DEF Calm

\* The process goes down with the records it had, or with what one handler left.
LEMMA DownHonest ==
    ASSUME NEW all, Down(all),
           \A w \in Workflows :
              /\ all[w] \in Record /\ Wanted(wf[w], all[w])
              /\ wf[w].status \in Terminal => all[w].status = wf[w].status
    PROVE  Honest
<1>1. ASSUME NEW w \in Workflows PROVE Wanted(wf[w], wf'[w]) /\ Kept(wf[w], wf'[w])
  <2>1. wf'[w] = Dead(all[w])
    BY DEF Down
  <2>2. Calm(all[w], wf'[w]) /\ wf'[w].status = all[w].status
    BY <2>1, DeadCalm
  <2>3. Wanted(wf[w], wf'[w])
    BY <2>2 DEF Wanted, Calm
  <2> QED BY <2>2, <2>3 DEF Kept
<1> QED BY <1>1 DEF Honest

\* A crash, or an orderly shutdown.
LEMMA CrashHonest == ASSUME Inv, Crash \/ CloseReturns PROVE Honest
<1>1. CASE Crash
  <2>1. \A w \in Workflows : wf[w] \in Record /\ Calm(wf[w], wf[w])
    BY OneOf DEF Calm
  <2> QED BY <1>1, <2>1, CalmWanted, DownHonest DEF Crash
<1>2. CASE CloseReturns
  <2> DEFINE run(w) == [j \in Jobs |-> IF Busy(wf[w], j) THEN "cancelled" ELSE wf[w].run[j]]
             all == [w \in Workflows |-> [wf[w] EXCEPT !.run = run(w)]]
  <2>1. Down(all)
    BY <1>2 DEF CloseReturns
  <2>2. ASSUME NEW w \in Workflows
        PROVE  /\ all[w] \in Record /\ Wanted(wf[w], all[w])
               /\ wf[w].status \in Terminal => all[w].status = wf[w].status
    <3> DEFINE r == run(w)
               q == [wf[w] EXCEPT !.run = r]
    <3>1. wf[w] \in Record /\ all[w] = q
      BY OneOf
    <3>2. /\ r \in [Jobs -> Outcomes \cup {"none", "active", "stopping"}]
          /\ \A j \in Jobs : \/ r[j] = wf[w].run[j]
                             \/ Busy(wf[w], j) /\ r[j] \in Outcomes \cup {"stopping"}
      BY <3>1 DEF Record, Outcomes
    <3> HIDE DEF r
    <3>3. RunsEffect(wf[w], q)
      BY <3>1, <3>2, RunsFields
    <3> HIDE DEF q
    <3>4. q \in Record /\ Calm(wf[w], q) /\ q.status = wf[w].status
      BY <3>1, <3>3, RunsCalm DEF RunsEffect
    <3> HIDE DEF all
    <3> QED BY <3>1, <3>4, CalmWanted
  <2> HIDE DEF all
  <2> QED BY <2>1, <2>2, DownHonest
<1> QED BY <1>1, <1>2

\* close cancels runs.
LEMMA CloseServiceHonest == ASSUME Inv, CloseService PROVE Honest
<1>1. ASSUME NEW w \in Workflows PROVE Wanted(wf[w], wf'[w]) /\ Kept(wf[w], wf'[w])
  <2>1. wf'[w] = CancelRuns(wf[w]) \/ wf'[w] = wf[w]
    BY DEF CloseService
  <2>2. wf[w] \in Record
    BY OneOf
  <2>3. Calm(wf[w], wf'[w]) /\ wf'[w].status = wf[w].status
    BY <2>1, <2>2, CancelRunsEffect, RunsCalm DEF Calm
  <2> QED BY <2>3, CalmWanted DEF Kept
<1> QED BY <1>1 DEF Honest

\* reconcile starts no run and leaves a result alone.
LEMMA ReconciledCalm ==
    ASSUME NEW c \in Record
    PROVE  /\ Calm(c, Reconciled(c))
           /\ c.status \in Terminal => Reconciled(c).status = c.status
<1>1. CASE c.status \in Terminal \cup {"draft", "absent"}
  BY <1>1 DEF Reconciled, Calm
<1>2. CASE c.status \notin Terminal \cup {"draft", "absent"}
  <2> DEFINE a == Adopted(c)
             ran == c.ran \cup {j \in Jobs : c.bound[j] # 0 /\ c.run[j] # "none"}
             s == [x \in Steps |->
                     LET old == IF x \in a.ran THEN ResultOf(a.steps[x], a.run[x])
                                ELSE a.steps[x]
                     IN CASE old = "running" -> "interrupted"
                          [] old = "pending" -> "blocked"
                          [] OTHER -> old]
             b == [a EXCEPT !.steps = s]
             status == IF \A x \in Steps : b.steps[x] = "completed"
                       THEN "completed" ELSE "interrupted"
             q == [b EXCEPT !.status = status]
  <2>1. Reconciled(c) = q
    BY <1>2 DEF Reconciled
  <2>2. a = [c EXCEPT !.ran = ran]
    BY DEF Adopted
  <2> HIDE DEF a, ran
  <2>3. q.run = a.run /\ q.approved = a.approved
    <3> HIDE DEF s, status
    <3> QED BY <2>2 DEF Record
  <2>4. a.run = c.run /\ a.approved = c.approved
    BY <2>2 DEF Record
  <2> HIDE DEF q
  <2> QED BY <1>2, <2>1, <2>3, <2>4 DEF Calm
<1> QED BY <1>1, <1>2

\* A restart resumes no plan.
LEMMA StartHonest == ASSUME Inv, Start PROVE Honest
<1>1. ASSUME NEW w \in Workflows PROVE Wanted(wf[w], wf'[w]) /\ Kept(wf[w], wf'[w])
  <2> DEFINE c == Recovered(wf[w])
  <2>1. starts + 1 \in Processes /\ wf[w] \in Record
        /\ Good(wf[w], starts + 1, FALSE, failure) /\ wf'[w] = Reconciled(c)
    BY OneOf DEF Start, Alive
  <2>2. /\ c \in Record /\ c.status = wf[w].status /\ c.approved = wf[w].approved
        /\ \A j \in Jobs : (c.run[j] = "none") <=> (wf[w].run[j] = "none")
    BY <2>1, RecoveredKeeps
  <2> HIDE DEF c
  <2>3. Calm(c, wf'[w]) /\ (c.status \in Terminal => wf'[w].status = c.status)
    BY <2>1, <2>2, ReconciledCalm
  <2>4. Calm(wf[w], wf'[w])
    BY <2>2, <2>3 DEF Calm
  <2> QED BY <2>2, <2>3, <2>4, CalmWanted DEF Kept
<1> QED BY <1>1 DEF Honest

\* The process dies between two writes of one handler of w.
LEMMA DiesAsHonest ==
    ASSUME Inv, NEW w \in Workflows, NEW q \in Record, DiesAs(w, q),
           wf[w].status \notin Terminal, Wanted(wf[w], q)
    PROVE  Honest
<1> DEFINE all == [wf EXCEPT ![w] = q]
<1>1. Down(all)
  BY DEF DiesAs
<1>2. \A v \in Workflows : all[v] = IF v = w THEN q ELSE wf[v]
  BY DEF Inv
<1> HIDE DEF all
<1>3. \A v \in Workflows : wf[v] \in Record /\ Wanted(wf[v], wf[v])
  BY OneOf DEF Wanted
<1> QED BY <1>1, <1>2, <1>3, DownHonest

\* The process dies inside a handler.
LEMMA DiesHonest ==
    ASSUME Inv, NEW w \in Workflows, DiesInCreate(w) \/ DiesInApprove(w) \/ DiesInTurn(w)
    PROVE  Honest
<1> DEFINE n == starts + 1
<1>1. CASE DiesInCreate(w)
  <2>1. PICK p \in {Planning, PlannerBound, PlannerRuns} : DiesAs(w, p)
    BY <1>1 DEF DiesInCreate
  <2>2. starts + 1 \in Processes
    BY OneOf
  <2>3. p \in Record /\ \A x \in Steps : p.run[x] = "none"
    BY <2>2, CreateParts DEF InOrder
  <2>4. phase = "up" /\ wf[w].status \notin Terminal \cup {"cancelling"}
    BY <1>1 DEF DiesInCreate, Terminal
  <2>5. Wanted(wf[w], p)
    BY <2>3, <2>4, NotAsked DEF Wanted
  <2> QED BY <2>1, <2>3, <2>4, <2>5, DiesAsHonest
<1>2. CASE DiesInApprove(w)
  <2>1. /\ phase = "up" /\ wf[w].status = "draft" /\ ~ wf[w].approved
        /\ wf[w].status \notin Terminal \cup {"cancelling"}
        /\ Good(wf[w], n, TRUE, FALSE) /\ n \in Processes /\ wf[w] \in Record
    BY <1>2, ApprovableParts, OneOf DEF DiesInApprove, Approvable, Terminal
  <2>2. ~ wf[w].asked
    BY <2>1, NotAsked
  <2>3. ASSUME NEW k \in Steps, DiesAs(w, FirstBound(wf[w], k, n)) PROVE Honest
    <3> DEFINE f == FirstBound(wf[w], k, n)
    <3>1. k \in 0 .. N
      BY WorkflowAssumption DEF Steps
    <3>2. f \in Record /\ f.run = wf[w].run
      BY <2>1, <3>1, FirstFields DEF FirstEffect
    <3>3. DiesAs(w, f)
      BY <2>3
    <3> HIDE DEF f
    <3>4. Wanted(wf[w], f)
      BY <3>2 DEF Wanted
    <3> QED BY <2>1, <3>2, <3>3, <3>4, DiesAsHonest
  <2>4. CASE LET p == Approved(wf[w], n)
             IN DiesAs(w, [p EXCEPT !.run[Min(Ready(p))] = "active"])
    <3> DEFINE a == Approved(wf[w], n)
               q == [a EXCEPT !.run[Min(Ready(a))] = "active"]
    <3>1. /\ a \in Record
          /\ InOrder(a) /\ Reported(a) /\ Numbered(a, n) /\ Asked(a) /\ Owned(a, n)
          /\ MayGoOn(a) /\ Ready(a) # {}
      BY <2>1, ApprovedGood
    <3>2. DiesAs(w, q)
      BY <2>4
    <3> HIDE DEF a
    <3>3. q \in Record /\ q.approved
      BY <2>1, <3>1, RunAddedGood DEF MayGoOn, Record
    <3> HIDE DEF q
    <3>4. Wanted(wf[w], q)
      BY <2>1, <2>2, <3>3 DEF Wanted
    <3> QED BY <2>1, <3>2, <3>3, <3>4, DiesAsHonest
  <2> QED BY <1>2, <2>3, <2>4 DEF DiesInApprove
<1>3. CASE DiesInTurn(w)
  <2>1. Alive /\ wf[w].pc = "stepClose" /\ Returned(wf[w])
    BY <1>3 DEF DiesInTurn, Running
  <2>2. PICK p \in Unrecorded(wf[w]) : DiesAs(w, p)
    BY <1>3 DEF DiesInTurn
  <2>3. /\ p \in Record /\ p.approved /\ phase = "up" /\ ~ wf[w].asked
        /\ wf[w].status \notin Terminal
    BY <2>1, <2>2, UnrecordedWanted
  <2>4. Wanted(wf[w], p)
    BY <2>3 DEF Wanted
  <2> QED BY <2>2, <2>3, <2>4, DiesAsHonest
<1> QED BY <1>1, <1>2, <1>3

\* Every step is an honest one.
LEMMA NextHonest == Inv /\ [Next]_vars => Honest
<1> SUFFICES ASSUME Inv, [Next]_vars PROVE Honest
  OBVIOUS
<1>1. ASSUME NEW w \in Workflows,
             \/ Create(w) \/ Approve(w) \/ ApproveRefused(w) \/ ApproveUnsaved(w)
             \/ ApproveConflict(w) \/ Cancel(w) \/ Wake(w) \/ SaveRefused(w)
             \/ DiesInCreate(w) \/ DiesInApprove(w) \/ DiesInTurn(w)
             \/ \E j \in Jobs : RunEnds(w, j)
             \/ UseTool(w)
             \/ \E t \in Sessions : SessionCloses(w, t) \/ SessionStuck(w, t)
      PROVE  Honest
  <2>1. CASE Wake(w)
    BY <2>1, PlannerHonest, StepHonest, EndHonest DEF Wake
  <2>2. CASE DiesInCreate(w) \/ DiesInApprove(w) \/ DiesInTurn(w)
    BY <2>2, DiesHonest
  <2>3. CASE \/ \E j \in Jobs : RunEnds(w, j)
             \/ UseTool(w)
             \/ \E t \in Sessions : SessionCloses(w, t) \/ SessionStuck(w, t)
    BY <2>3, RuntimeHonest
  <2> QED BY <1>1, <2>1, <2>2, <2>3, CreateHonest, ApproveHonest, CancelHonest,
             SaveRefusedHonest
<1>2. CASE CloseService \/ CloseReturns \/ Crash \/ Start
  BY <1>2, CloseServiceHonest, CrashHonest, StartHonest
<1>3. CASE UNCHANGED vars
  BY <1>3 DEF vars, Honest, Wanted, Kept
<1> QED BY <1>1, <1>2, <1>3 DEF Next

\* A cancelled plan, or one of a closing service, starts nothing more (execute, cancel).
THEOREM StartsOnlyWanted == Spec => StartsWhileWanted
<1>1. Inv /\ [Next]_vars =>
        [\A w \in Workflows : \A j \in Jobs :
            wf[w].run[j] = "none" /\ wf'[w].run[j] # "none" =>
               /\ phase = "up" /\ ~ wf[w].asked
               /\ j \in Steps => wf'[w].approved]_vars
  BY NextHonest DEF Honest, Wanted
<1> QED BY <1>1, Invariance, PTL DEF Spec, StartsWhileWanted

\* The result of a plan is final, but for the one shutdown that could not clean up (launch).
THEOREM ResultsFinal == Spec => ResultFinal
<1>1. Inv /\ [Next]_vars =>
        [\A w \in Workflows :
            wf[w].status \in Terminal /\ wf'[w].status # wf[w].status =>
               wf[w].status = "failed" /\ wf'[w].status = "interrupted"
               /\ Closing /\ ~ AllClosed(wf[w])]_vars
  BY NextHonest DEF Honest, Kept
<1> QED BY <1>1, Invariance, PTL DEF Spec, ResultFinal

=============================================================================

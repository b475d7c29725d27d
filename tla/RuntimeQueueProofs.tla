------------------------- MODULE RuntimeQueueProofs --------------------------
(***************************************************************************)
(* What the loops of module Runtime do: stopping all runs of a Session or  *)
(* of the program, registering all outputs of a run, and the turns of      *)
(* pump() over the queue; and what accepting a run does to the queue.      *)
(*                                                                         *)
(* A loop is a function from the number of turns taken to the state        *)
(* reached.  Its lemmas say that such a function exists for every number   *)
(* of turns, and what it keeps from one turn to the next; the least turn   *)
(* at which that fails would contradict the step.                          *)
(***************************************************************************)
EXTENDS RuntimeStepProofs

----------------------------------------------------------------------------
(* Stopping several runs *)

\* SetToSeq lists the elements of a finite set.
LEMMA SetListed ==
    ASSUME NEW S, IsFiniteSet(S)
    PROVE  LET q == SetToSeq(S) IN
           /\ q \in Seq(S)
           /\ \A x \in S : \E i \in 1 .. Len(q) : q[i] = x
<1> DEFINE n == Cardinality(S)
           q == SetToSeq(S)
<1>1. n \in Nat /\ ExistsBijection(1 .. n, S)
  BY FS_CardinalityType
<1>2. \E f \in [1 .. n -> S] : IsInjective(f)
  BY <1>1 DEF ExistsBijection, Bijection, Injection, IsInjective
<1>3. q \in [1 .. n -> S] /\ IsInjective(q)
  BY <1>2 DEF SetToSeq
<1>4. q \in Injection(1 .. n, S)
  BY <1>3 DEF Injection, IsInjective
<1>5. IsFiniteSet(1 .. n) /\ Cardinality(1 .. n) = n
  BY <1>1, FS_Interval
<1> HIDE DEF q, n
<1>6. q \in Surjection(1 .. n, S)
  BY <1>4, <1>5, FS_Injection DEF n
<1>7. q \in Seq(S) /\ Len(q) = n
  BY <1>1, <1>3
<1>8. \A x \in S : \E i \in 1 .. Len(q) : q[i] = x
  BY <1>6, <1>7 DEF Surjection
<1> QED BY <1>7, <1>8 DEF q

\* The turns of StopAll.
Stopping(f, st, q, n) ==
    f = [i \in 0 .. n |-> IF i = 0 THEN st ELSE Stop(f[i - 1], q[i], "cancelled")]

\* The turns of StopAll go one run further.
LEMMA StoppingExtends ==
    ASSUME NEW st, NEW q, NEW n \in Nat, NEW f, Stopping(f, st, q, n)
    PROVE  \E g : Stopping(g, st, q, n + 1)
<1> DEFINE g == [i \in 0 .. n + 1 |-> IF i = n + 1 THEN Stop(f[n], q[n + 1], "cancelled") ELSE f[i]]
           h == [i \in 0 .. n + 1 |-> IF i = 0 THEN st ELSE Stop(g[i - 1], q[i], "cancelled")]
<1>1. ASSUME NEW i \in 0 .. n + 1 PROVE g[i] = h[i]
  <2>1. CASE i = n + 1
    <3>1. g[i - 1] = f[n] /\ i # 0
      BY <2>1
    <3> QED BY <2>1, <3>1
  <2>2. CASE i \in 0 .. n
    <3>1. f[i] = IF i = 0 THEN st ELSE Stop(f[i - 1], q[i], "cancelled")
      BY <2>2 DEF Stopping
    <3>2. i # 0 => g[i - 1] = f[i - 1]
      BY <2>2
    <3> QED BY <2>2, <3>1, <3>2
  <2> QED BY <2>1, <2>2
<1>2. g = h
  BY <1>1
<1> HIDE DEF g
<1> QED BY <1>2 DEF Stopping

\* StopAll is the last of its turns.
LEMMA StopAllTurns ==
    ASSUME NEW st, NEW rs, NEW q, q = SetToSeq(rs), Len(q) \in Nat
    PROVE  \E f : Stopping(f, st, q, Len(q)) /\ StopAll(st, rs) = f[Len(q)]
<1> DEFINE bad == {n \in Nat : ~ \E f : Stopping(f, st, q, n)}
           k == Min(bad)
<1>1. bad = {}
  <2> SUFFICES ASSUME bad # {} PROVE FALSE
    OBVIOUS
  <2>1. k \in bad /\ \A n \in bad : k <= n
    BY LeastMember
  <2>2. k # 0
    <3>1. Stopping([i \in 0 .. 0 |-> st], st, q, 0)
      BY DEF Stopping
    <3> QED BY <2>1, <3>1
  <2> HIDE DEF k
  <2>3. k - 1 \in Nat /\ k - 1 \notin bad
    BY <2>1, <2>2
  <2>4. \E f : Stopping(f, st, q, k - 1)
    BY <2>3
  <2>5. \E g : Stopping(g, st, q, (k - 1) + 1)
    BY <2>3, <2>4, StoppingExtends
  <2>6. (k - 1) + 1 = k
    BY <2>1
  <2> QED BY <2>1, <2>5, <2>6
<1>2. \E f : Stopping(f, st, q, Len(q))
  BY <1>1
<1> QED BY <1>2 DEF Stopping, StopAll

\* stop() leaves every execute() where it waits.
Waits(st, x) == \A t \in Sessions : x.act[t].pc = st.act[t].pc

\* stop() moves no execute() on.
LEMMA StopWaits ==
    ASSUME NEW st, NEW r \in Runs, NEW reason \in {"cancelled", "timed_out"},
           Good(st), Accepted(st.db, r), st.act[st.db.run[r].session].pc # "begin"
    PROVE  Waits(st, Stop(st, r, reason))
<1> DEFINE s == st.db.run[r].session
           x == Stop(st, r, reason)
<1>1. Steps(st, x, s) /\ (st.act[s].run = r => Resumes(st.act[s], x.act[s]))
  BY StopSteps
<1>2. CASE st.act[s].run = r
  BY <1>1, <1>2 DEF Waits, Steps, Turn, Resumes
<1>3. CASE st.act[s].run # r
  <2>1. CASE IsTerminal(st.db, r)
    BY <2>1 DEF Stop, Waits
  <2>2. CASE ~ IsTerminal(st.db, r)
    <3> DEFINE y == Dequeue(st, r)
    <3>1. x = Disarm(End(y, r, reason, "confirmed"), r)
      BY <1>3, <2>2 DEF Stop
    <3>2. y.act = st.act
      BY DEF Dequeue, Good, States
    <3>3. y \in [db : {y.db}, queue : {y.queue}, armed : {y.armed}, act : {y.act},
                 worker : {y.worker}]
      BY DEF Dequeue, Good, States
    <3> HIDE DEF x, y
    <3>4. End(y, r, reason, "confirmed").act = y.act
      BY <3>3 DEF End
    <3>5. x.act = y.act
      BY <3>1, <3>3, <3>4 DEF End, Disarm
    <3> QED BY <3>2, <3>5 DEF Waits, x
  <2> QED BY <2>1, <2>2
<1> QED BY <1>2, <1>3

\* A run that is stopped stays stopped.
LEMMA StoppedKept ==
    ASSUME NEW st, NEW x, NEW r \in Runs, Good(st), Accepted(st.db, r), Advances(st, x),
           Stopped(st, r)
    PROVE  Stopped(x, r)
<1> DEFINE s == st.db.run[r].session
<1>1. Good(x) /\ Continues(st, x) /\ Onward(st.db, x.db) /\ x.db.run[r].session = s
      /\ s \in Sessions
  BY DEF Advances, Continues, Onward, Good, Referenced
<1>2. CASE IsTerminal(st.db, r)
  BY <1>1, <1>2 DEF Onward, IsTerminal, Stopped
<1>3. CASE IsTerminal(x.db, r)
  BY <1>3 DEF Stopped
<1>4. CASE ~ IsTerminal(st.db, r) /\ ~ IsTerminal(x.db, r)
  <2>1. st.act[s].run = r /\ st.act[s].stop # "none"
    BY <1>4 DEF Stopped
  <2>2. st.act[s] # Idle
    BY <2>1 DEF Idle
  <2>3. x.act[s].run = r /\ x.act[s] # Idle
    BY <1>1, <1>4, <2>1, <2>2, WorkedOn
  <2>4. x.act[s].stop = st.act[s].stop
    BY <1>1, <2>1, <2>3 DEF Continues
  <2> QED BY <1>1, <2>1, <2>3, <2>4 DEF Stopped
<1> QED BY <1>2, <1>3, <1>4

\* After some turns of StopAll.
HaveStopped(st, x, q, i) ==
    Advances(st, x) /\ Waits(st, x) /\ \A j \in 1 .. i : Stopped(x, q[j])

\* Runs that StopAll may stop.
Stoppable(st, r) ==
    r \in Runs /\ Accepted(st.db, r) /\ st.act[st.db.run[r].session].pc # "begin"

\* One turn of StopAll.
LEMMA StoppingTurn ==
    ASSUME NEW st, Good(st), NEW q, NEW n \in Nat, NEW f, Stopping(f, st, q, n),
           NEW i \in 0 .. n - 1, HaveStopped(st, f[i], q, i),
           \A j \in 1 .. n : Stoppable(st, q[j])
    PROVE  HaveStopped(st, f[i + 1], q, i + 1)
<1> DEFINE r == q[i + 1]
           y == f[i]
           x == Stop(y, r, "cancelled")
<1>1. f[i + 1] = x
  <2>1. i + 1 \in 0 .. n /\ i + 1 # 0 /\ (i + 1) - 1 = i
    OBVIOUS
  <2> QED BY <2>1 DEF Stopping
<1>2. i + 1 \in 1 .. n
  OBVIOUS
<1>3. Stoppable(st, r)
  BY <1>2
<1>4. Advances(st, y) /\ Good(y) /\ Waits(st, y)
  BY DEF HaveStopped, Advances
<1>5. \A j \in 1 .. i : Stopped(y, q[j])
  BY DEF HaveStopped
<1> HIDE DEF x, y, r
<1>6. r \in Runs /\ y.db.run[r].session = st.db.run[r].session
      /\ st.db.run[r].session \in Sessions
  BY <1>3, <1>4 DEF Stoppable, Advances, Continues, Onward, Good, Referenced
<1>7. Accepted(y.db, r) /\ y.act[y.db.run[r].session].pc # "begin"
  BY <1>3, <1>4, <1>6 DEF Stoppable, Waits, Good, Referenced
<1>8. Steps(y, x, y.db.run[r].session) /\ Stopped(x, r) /\ Waits(y, x)
  <2>1. "cancelled" \in {"cancelled", "timed_out"}
    OBVIOUS
  <2> QED BY <1>4, <1>6, <1>7, <2>1, StopSteps, StopWaits DEF x
<1>9. Advances(y, x)
  BY <1>4, <1>6, <1>8, StepsAdvances
<1>10. Advances(st, x) /\ Waits(st, x)
  BY <1>4, <1>8, <1>9, AdvancesTwice DEF Waits
<1>11. ASSUME NEW j \in 1 .. i + 1 PROVE Stopped(x, q[j])
  <2>1. CASE j = i + 1
    BY <1>8, <2>1 DEF r
  <2>2. CASE j \in 1 .. i
    <3>1. Stopped(y, q[j])
      BY <1>5, <2>2
    <3>2. Stoppable(st, q[j])
      BY <2>2
    <3>3. q[j] \in Runs /\ Accepted(y.db, q[j])
      BY <1>4, <3>2 DEF Stoppable, Advances, Continues, Onward, Good, Referenced
    <3> QED BY <1>4, <1>9, <3>1, <3>3, StoppedKept
  <2> QED BY <2>1, <2>2
<1> QED BY <1>1, <1>10, <1>11 DEF HaveStopped

\* All turns of StopAll.
LEMMA StoppingAll ==
    ASSUME NEW st, Good(st), NEW q, NEW n \in Nat, NEW f, Stopping(f, st, q, n),
           \A j \in 1 .. n : Stoppable(st, q[j])
    PROVE  HaveStopped(st, f[n], q, n)
<1> DEFINE bad == {i \in 0 .. n : ~ HaveStopped(st, f[i], q, i)}
           k == Min(bad)
<1>1. bad = {}
  <2> SUFFICES ASSUME bad # {} PROVE FALSE
    OBVIOUS
  <2>0. bad \in SUBSET Nat
    OBVIOUS
  <2>1. k \in bad /\ \A i \in bad : k <= i
    BY <2>0, LeastMember
  <2>2. k # 0
    <3>1. f[0] = st
      BY DEF Stopping
    <3>2. HaveStopped(st, st, q, 0)
      BY AdvancesSelf DEF HaveStopped, Waits
    <3> QED BY <2>1, <3>1, <3>2
  <2> HIDE DEF k
  <2>3. k - 1 \in 0 .. n - 1 /\ k - 1 \notin bad
    BY <2>1, <2>2
  <2>4. HaveStopped(st, f[k - 1], q, k - 1)
    BY <2>3
  <2>5. HaveStopped(st, f[(k - 1) + 1], q, (k - 1) + 1)
    BY <2>3, <2>4, StoppingTurn
  <2>6. (k - 1) + 1 = k
    BY <2>1
  <2> QED BY <2>1, <2>5, <2>6
<1> QED BY <1>1

\* StopAll() stops them all.
LEMMA StopAllSteps ==
    ASSUME NEW st, Good(st), NEW rs, \A r \in rs : Stoppable(st, r)
    PROVE  LET x == StopAll(st, rs) IN
           Advances(st, x) /\ Waits(st, x) /\ \A r \in rs : Stopped(x, r)
<1> DEFINE q == SetToSeq(rs)
           x == StopAll(st, rs)
<1>1. rs \subseteq {r \in Runs : Accepted(st.db, r)}
  BY DEF Stoppable
<1>2. IsFiniteSet(rs)
  BY <1>1, FS_Subset DEF Good, Referenced
<1>3. q \in Seq(rs) /\ \A r \in rs : \E i \in 1 .. Len(q) : q[i] = r
  BY <1>2, SetListed
<1>4. Len(q) \in Nat /\ \A j \in 1 .. Len(q) : q[j] \in rs
  BY <1>3
<1>5. PICK f : Stopping(f, st, q, Len(q)) /\ x = f[Len(q)]
  BY <1>4, StopAllTurns
<1> HIDE DEF q, x
<1>6. \A j \in 1 .. Len(q) : Stoppable(st, q[j])
  BY <1>4
<1>7. HaveStopped(st, x, q, Len(q))
  BY <1>4, <1>5, <1>6, StoppingAll
<1>8. \A r \in rs : Stopped(x, r)
  BY <1>3, <1>7 DEF HaveStopped
<1> QED BY <1>7, <1>8 DEF HaveStopped, x

\* Every Worker is told to close.
ShutteredAll(x) ==
    [x EXCEPT !.worker = [s \in Sessions |-> IF x.worker[s] = "live" THEN "closing"
                                             ELSE x.worker[s]]]

\* Sound: close() tells every live Worker to go.
LEMMA ShutteredAllAdvances ==
    ASSUME NEW x, Good(x)
    PROVE  Advances(x, ShutteredAll(x))
<1> DEFINE z == ShutteredAll(x)
<1>1. x \in States
  BY DEF Good
<1>2. /\ z.db = x.db /\ z.queue = x.queue /\ z.armed = x.armed /\ z.act = x.act
      /\ \A s \in Sessions : z.worker[s] = Shuttered(x.worker[s])
  BY <1>1 DEF ShutteredAll, States, Shuttered
<1>3. z \in States
  BY <1>1 DEF ShutteredAll, States, WorkerStates
<1> HIDE DEF z
<1>4. ASSUME NEW s \in Sessions PROVE Aright(z, s)
  <2> DEFINE y == CloseWorker(x, s)
  <2>1. Good(y)
    BY CloseWorkerSteps DEF Steps
  <2>2. Revised(x, y, s, x.act[s], Shuttered(x.worker[s]))
    BY <1>1, CloseWorkerRevises
  <2> HIDE DEF y
  <2>3. Aright(y, s)
    BY <2>1 DEF Good
  <2>4. y.db = z.db /\ y.act[s] = z.act[s] /\ y.worker[s] = z.worker[s] /\ y.armed = z.armed
    BY <1>2, <2>2 DEF Revised
  <2> QED BY <2>3, <2>4 DEF Aright
<1>5. Good(z)
  BY <1>2, <1>3, <1>4 DEF Good
<1>6. Onward(x.db, z.db)
  BY <1>2 DEF Onward
<1>7. Continues(x, z)
  BY <1>2, <1>6 DEF Continues, Moves
<1>8. Steadily(x, z)
  BY <1>2 DEF Steadily, Shuttered
<1> QED BY <1>5, <1>7, <1>8 DEF Advances, z

----------------------------------------------------------------------------
(* Collecting several artifacts *)

\* The turns of RegisterAll.
Registering(f, d, r, q, n) ==
    f = [i \in 0 .. n |-> IF i = 0 THEN d ELSE RegisterArtifact(f[i - 1], r, q[i])]

\* The turns of RegisterAll go one artifact further.
LEMMA RegisteringExtends ==
    ASSUME NEW d, NEW r, NEW q, NEW n \in Nat, NEW f, Registering(f, d, r, q, n)
    PROVE  \E g : Registering(g, d, r, q, n + 1)
<1> DEFINE g == [i \in 0 .. n + 1 |-> IF i = n + 1 THEN RegisterArtifact(f[n], r, q[n + 1])
                                      ELSE f[i]]
           h == [i \in 0 .. n + 1 |-> IF i = 0 THEN d ELSE RegisterArtifact(g[i - 1], r, q[i])]
<1>1. ASSUME NEW i \in 0 .. n + 1 PROVE g[i] = h[i]
  <2>1. CASE i = n + 1
    <3>1. g[i - 1] = f[n] /\ i # 0
      BY <2>1
    <3> QED BY <2>1, <3>1
  <2>2. CASE i \in 0 .. n
    <3>1. f[i] = IF i = 0 THEN d ELSE RegisterArtifact(f[i - 1], r, q[i])
      BY <2>2 DEF Registering
    <3>2. i # 0 => g[i - 1] = f[i - 1]
      BY <2>2
    <3> QED BY <2>2, <3>1, <3>2
  <2> QED BY <2>1, <2>2
<1>2. g = h
  BY <1>1
<1> HIDE DEF g
<1> QED BY <1>2 DEF Registering

\* RegisterAll is the last of its turns.
LEMMA RegisterAllTurns ==
    ASSUME NEW d, NEW r, NEW files, NEW q, q = SetToSeq(files), Len(q) \in Nat
    PROVE  \E f : Registering(f, d, r, q, Len(q)) /\ RegisterAll(d, r, files) = f[Len(q)]
<1> DEFINE bad == {n \in Nat : ~ \E f : Registering(f, d, r, q, n)}
           k == Min(bad)
<1>1. bad = {}
  <2> SUFFICES ASSUME bad # {} PROVE FALSE
    OBVIOUS
  <2>1. k \in bad /\ \A n \in bad : k <= n
    BY LeastMember
  <2>2. k # 0
    <3>1. Registering([i \in 0 .. 0 |-> d], d, r, q, 0)
      BY DEF Registering
    <3> QED BY <2>1, <3>1
  <2> HIDE DEF k
  <2>0. bad \in SUBSET Nat
    OBVIOUS
  <2> HIDE DEF bad
  <2>3. k - 1 \in Nat /\ k - 1 \notin bad
    BY <2>0, <2>1, <2>2
  <2>4. \E f : Registering(f, d, r, q, k - 1)
    BY <2>3 DEF bad
  <2>5. \E g : Registering(g, d, r, q, (k - 1) + 1)
    BY <2>3, <2>4, RegisteringExtends
  <2>6. (k - 1) + 1 = k
    BY <2>0, <2>1
  <2> QED BY <2>1, <2>5, <2>6 DEF bad
<1>2. \E f : Registering(f, d, r, q, Len(q))
  BY <1>1
<1> QED BY <1>2 DEF Registering, RegisterAll

\* The members of a sequence over a set are members of the set.
LEMMA SequenceMembers ==
    ASSUME NEW S, NEW q \in Seq(S)
    PROVE  Len(q) \in Nat /\ \A j \in 1 .. Len(q) : q[j] \in S
OBVIOUS

\* RegisterAll() files artifacts of the run that is worked on.
LEMMA RegisterAllBusy ==
    ASSUME NEW d \in Database, NEW r \in Runs, d.run[r].status \in Busy,
           NEW files \in SUBSET Artifacts, IsFiniteSet(files)
    PROVE  FilingWork(d, RegisterAll(d, r, files), r)
<1> DEFINE q == SetToSeq(files)
           n == Len(q)
<1>1. q \in Seq(files)
  BY SetListed
<1>3. n \in Nat => \E f : Registering(f, d, r, q, n) /\ RegisterAll(d, r, files) = f[n]
  BY RegisterAllTurns
<1> HIDE DEF q
<1>6. n \in Nat /\ \A j \in 1 .. n : q[j] \in files
  BY <1>1, SequenceMembers
<1>2. n \in Nat /\ \A j \in 1 .. n : q[j] \in Artifacts
  BY <1>6
<1>5. PICK f : Registering(f, d, r, q, n) /\ RegisterAll(d, r, files) = f[n]
  BY <1>2, <1>3
<1> DEFINE bad == {i \in 0 .. n : ~ FilingWork(d, f[i], r)}
           k == Min(bad)
<1> HIDE DEF n
<1>4. bad = {}
  <2> SUFFICES ASSUME bad # {} PROVE FALSE
    OBVIOUS
  <2>0. bad \in SUBSET Nat
    BY <1>2
  <2>1. k \in bad /\ \A i \in bad : k <= i
    BY <2>0, LeastMember
  <2>2. k # 0
    <3>1. f[0] = d
      BY <1>2, <1>5 DEF Registering
    <3>2. FilingWork(d, d, r)
      BY NotedSelf, NotedBusy DEF QuietWork, FilingWork
    <3> QED BY <2>1, <3>1, <3>2
  <2> HIDE DEF k
  <2>3. k - 1 \in 0 .. n /\ k - 1 \notin bad /\ k \in 1 .. n
    BY <1>2, <2>1, <2>2
  <2>4. FilingWork(d, f[k - 1], r)
    BY <2>3
  <2>5. f[k] = RegisterArtifact(f[k - 1], r, q[k])
    BY <1>2, <1>5, <2>3 DEF Registering
  <2>6. f[k - 1] \in Database /\ f[k - 1].run[r].status \in Busy
    BY <2>4 DEF FilingWork, Busywork
  <2>7. FilingWork(f[k - 1], f[k], r)
    BY <1>2, <2>3, <2>5, <2>6, RegisterBusy
  <2>8. FilingWork(d, f[k], r)
    BY <2>4, <2>7, BusyworkTwice DEF FilingWork
  <2> QED BY <2>1, <2>8
<1> QED BY <1>2, <1>4, <1>5

----------------------------------------------------------------------------
(* Accepting a run *)

\* Bounded numbers have a greatest one.
LEMMA GreatestMember ==
    ASSUME NEW U \in SUBSET Nat, U # {}, NEW m \in Nat, \A n \in U : n <= m
    PROVE  Max(U) \in U /\ \A n \in U : n <= Max(U)
<1> DEFINE V == {j \in Nat : \E n \in U : j = m - n}
           k == Min(V)
<1>1. V \in SUBSET Nat /\ V # {}
  <2>1. PICK n \in U : TRUE
    BY Zenon
  <2>2. m - n \in Nat /\ n \in Nat
    BY <2>1
  <2> QED BY <2>1, <2>2
<1>2. k \in V /\ \A n \in V : k <= n
  BY <1>1, LeastMember
<1> HIDE DEF k
<1>3. PICK g \in U : k = m - g
  BY <1>2
<1>4. ASSUME NEW n \in U PROVE g >= n
  <2>1. m - n \in V /\ n \in Nat /\ g \in Nat
    <3>1. n \in Nat /\ n <= m /\ g \in Nat
      OBVIOUS
    <3> QED BY <3>1
  <2>2. m - g <= m - n
    BY <1>2, <1>3, <2>1
  <2> QED BY <2>1, <2>2
<1>5. \E x \in U : \A y \in U : x >= y
  BY <1>4
<1>6. Max(U) \in U /\ \A y \in U : Max(U) >= y
  BY <1>5 DEF Max
<1> QED BY <1>6

\* From d, run r of Session s is accepted, after every other run of s.
Accepts(d, e, s, r) ==
    /\ e \in Database
    /\ e.perm = d.perm /\ e.artifact = d.artifact
    /\ \A t \in Sessions : e.session[t].status = d.session[t].status
    /\ \A t \in Runs \ {r} :
          /\ e.run[t].session = d.run[t].session
          /\ e.run[t].generation = d.run[t].generation
          /\ e.run[t].status = d.run[t].status
          /\ e.run[t].started = d.run[t].started
          /\ e.run[t].cleanup = d.run[t].cleanup
    /\ e.run[r].session = s /\ e.run[r].status = "queued" /\ ~ e.run[r].started
    /\ \A t \in Runs \ {r} : e.run[t].session = s =>
          e.run[t].generation < e.run[r].generation

\* What createRun() changes in the database.
LEMMA RunAccepts ==
    ASSUME NEW d, Referenced(d), NEW s \in Sessions, NEW r \in Runs,
           NEW k \in Keys \cup {None}, NEW h \in Hashes,
           d.session[s].status = "open", ~ Accepted(d, r), FindRunByKey(d, s, k) = {}
    PROVE  Accepts(d, Unlogged(AcceptRun(d, s, r, k, h)), s, r)
<1> DEFINE g == Generation(d, s)
           U == {0} \cup {d.run[t].generation : t \in RunsOf(d, s)}
           rec == [session |-> s, generation |-> g, key |-> k, hash |-> h,
                   status |-> "queued", started |-> FALSE, cleanup |-> "unconfirmed",
                   lastSeq |-> 0]
           c == AcceptRun(d, s, r, k, h)
           e == Unlogged(c)
<1>1. d \in Database
  BY DEF Referenced
<1>2. PICK m \in Nat : \A t \in Runs : d.run[t].generation <= m
  BY DEF Referenced
<1>3. \A t \in Runs : d.run[t].generation \in Nat
  BY <1>1 DEF Database, RunRecord
<1>4. U \in SUBSET Nat /\ 0 \in U /\ U # {} /\ \A n \in U : n <= m
  BY <1>2, <1>3 DEF RunsOf
<1>5. Max(U) \in Nat /\ \A n \in U : n <= Max(U)
  BY <1>4, GreatestMember
<1>6. g = Max(U) + 1
  BY DEF Generation
<1>10. c = InsertEvent(d, r, rec, 0, FALSE)
  BY DEF AcceptRun
<1>20. \A t \in RunsOf(d, s) : d.run[t].generation \in U
  OBVIOUS
<1> HIDE DEF g, U
<1>7. g \in Nat /\ \A n \in U : n < g
  BY <1>4, <1>5, <1>6
<1>8. \A t \in RunsOf(d, s) : d.run[t].generation < g
  BY <1>7, <1>20
<1>9. rec \in RunRecord
  BY <1>7 DEF RunRecord, Working, Cleanup
<1>11. /\ rec.session = s /\ rec.generation = g /\ rec.status = "queued" /\ rec.started = FALSE
  OBVIOUS
<1> HIDE DEF rec, c
<1>12. Wrote(d, c, r, rec)
  <2>1. 0 \in Nat /\ FALSE \in BOOLEAN
    OBVIOUS
  <2> QED BY <1>1, <1>9, <1>10, <2>1, Inserted
<1>13. Noted(c, e)
  BY <1>12, UnloggedNoted DEF Wrote
<1> HIDE DEF e
<1>14. ASSUME NEW t \in Runs \ {r}, e.run[t].session = s
       PROVE  e.run[t].generation < g
  <2>1. d.run[t].session = s /\ e.run[t].generation = d.run[t].generation
    BY <1>12, <1>13, <1>14 DEF Wrote, Noted
  <2>2. t \in RunsOf(d, s)
    BY <2>1 DEF Referenced, RunsOf
  <2> QED BY <1>8, <2>1, <2>2
<1>15. e.run[r].generation = g
  BY <1>11, <1>12, <1>13 DEF Wrote, Noted
<1>16. e.run[r].session = s /\ e.run[r].status = "queued" /\ ~ e.run[r].started
  BY <1>11, <1>12, <1>13 DEF Wrote, Noted
<1>17. \A t \in Runs \ {r} :
          /\ e.run[t].session = d.run[t].session
          /\ e.run[t].generation = d.run[t].generation
          /\ e.run[t].status = d.run[t].status
          /\ e.run[t].started = d.run[t].started
          /\ e.run[t].cleanup = d.run[t].cleanup
  BY <1>12, <1>13 DEF Wrote, Noted
<1>18. /\ e \in Database /\ e.perm = d.perm /\ e.artifact = d.artifact
       /\ \A t \in Sessions : e.session[t].status = d.session[t].status
  BY <1>12, <1>13 DEF Wrote, Noted
<1>19. Accepts(d, e, s, r)
  BY <1>14, <1>15, <1>16, <1>17, <1>18 DEF Accepts
<1> QED BY <1>19 DEF e, c

\* A run joins the end of the queue.
Joins(st, x, s, r) ==
    /\ x \in States
    /\ x.act = st.act /\ x.worker = st.worker
    /\ x.armed = st.armed \cup {r} /\ x.queue = Append(st.queue, r)
    /\ ~ Accepted(st.db, r) /\ st.db.session[s].status # "absent"
    /\ Accepts(st.db, x.db, s, r)

\* The references of the database stay sound when a run is accepted.
LEMMA JoinsReferenced ==
    ASSUME NEW st, NEW x, NEW s \in Sessions, NEW r \in Runs, Good(st), Joins(st, x, s, r)
    PROVE  Referenced(x.db)
<1> DEFINE d == st.db
           e == x.db
<1>1. Referenced(d) /\ Accepts(d, e, s, r) /\ ~ Accepted(d, r)
  BY DEF Good, Joins
<1>2. Accepted(e, r) /\ \A t \in Runs \ {r} : (Accepted(e, t)) <=> (Accepted(d, t))
  BY <1>1 DEF Accepts, Accepted
<1>3. d.session[s].status # "absent"
  BY DEF Joins
<1> HIDE DEF d, e
<1>4. \A t \in Runs : (Accepted(e, t)) <=> (e.run[t].session \in Sessions)
  BY <1>1, <1>2 DEF Referenced, Accepts
<1>5. \A t \in Runs : Accepted(e, t) => e.session[e.run[t].session].status # "absent"
  <2> SUFFICES ASSUME NEW t \in Runs, Accepted(e, t)
               PROVE  e.session[e.run[t].session].status # "absent"
    OBVIOUS
  <2>1. CASE t = r
    BY <1>1, <1>3, <2>1 DEF Accepts
  <2>2. CASE t # r
    <3>1. d.session[d.run[t].session].status # "absent" /\ d.run[t].session \in Sessions
      BY <1>1, <1>2, <2>2 DEF Referenced
    <3> QED BY <1>1, <2>2, <3>1 DEF Accepts
  <2> QED BY <2>1, <2>2
<1>6. \A t \in Runs : e.run[t].status = "queued" => ~ e.run[t].started
  BY <1>1 DEF Referenced, Accepts
<1>7. \A p \in Perms : e.perm[p].status # "absent" =>
          e.perm[p].run \in Runs /\ Accepted(e, e.perm[p].run)
  BY <1>1, <1>2 DEF Referenced, Accepts
<1>8. IsFiniteSet({t \in Runs : Accepted(e, t)})
  <2>1. {t \in Runs : Accepted(e, t)} = {t \in Runs : Accepted(d, t)} \cup {r}
    BY <1>1, <1>2
  <2> QED BY <1>1, <2>1, FS_AddElement DEF Referenced
<1>9. \E m \in Nat : \A t \in Runs : e.run[t].generation <= m
  <2>1. PICK m \in Nat : \A t \in Runs : d.run[t].generation <= m
    BY <1>1 DEF Referenced
  <2> DEFINE g == e.run[r].generation
  <2>2. g \in Nat
    BY <1>1 DEF Accepts, Database, RunRecord
  <2>3. \A t \in Runs : e.run[t].generation = d.run[t].generation \/ t = r
    BY <1>1 DEF Accepts
  <2>4. \A t \in Runs : d.run[t].generation \in Nat
    BY <1>1 DEF Referenced, Database, RunRecord
  <2> HIDE DEF g
  <2>5. \A t \in Runs : e.run[t].generation <= m + g
    BY <2>1, <2>2, <2>3, <2>4 DEF g
  <2> QED BY <2>2, <2>5
<1>10. e \in Database
  BY <1>1 DEF Accepts
<1>11. Referenced(e)
  BY <1>4, <1>5, <1>6, <1>7, <1>8, <1>9, <1>10 DEF Referenced
<1> QED BY <1>11 DEF e

\* The accepted run is the last of its Session in the queue.
LEMMA JoinsLine ==
    ASSUME NEW st, NEW x, NEW s \in Sessions, NEW r \in Runs, Good(st), Joins(st, x, s, r)
    PROVE  Line(x.db, x.queue)
<1> DEFINE d == st.db
           e == x.db
           q == st.queue
           y == x.queue
           n == Len(q)
<1>1. Line(d, q) /\ Accepts(d, e, s, r) /\ ~ Accepted(d, r) /\ q \in Seq(Runs) /\ y = Append(q, r)
  BY DEF Good, Joins, States
<1> HIDE DEF d, e, q, y
<1>2. n \in Nat /\ Len(y) = n + 1 /\ y[n + 1] = r /\ \A i \in 1 .. n : y[i] = q[i] /\ q[i] \in Runs
  BY <1>1
<1> HIDE DEF n
<1>3. \A i \in 1 .. n : q[i] # r /\ q[i] \in Runs \ {r}
  BY <1>1, <1>2 DEF Line, Accepted, n
<1>4. \A i \in 1 .. n + 1 : i \in 1 .. n \/ i = n + 1
  BY <1>2
<1>5. ASSUME NEW i \in 1 .. n + 1 PROVE e.run[y[i]].status = "queued"
  BY <1>1, <1>2, <1>3, <1>4 DEF Line, Accepts, n
<1>6. ASSUME NEW i \in 1 .. n + 1, NEW j \in 1 .. n + 1, i # j PROVE y[i] # y[j]
  <2>1. CASE i = n + 1 \/ j = n + 1
    BY <1>2, <1>3, <1>4, <1>6, <2>1
  <2>2. CASE i \in 1 .. n /\ j \in 1 .. n
    BY <1>1, <1>2, <1>6, <2>2 DEF Line, n
  <2> QED BY <1>4, <2>1, <2>2
<1>7. ASSUME NEW i \in 1 .. n + 1, NEW j \in 1 .. n + 1, i < j,
             e.run[y[i]].session = e.run[y[j]].session
      PROVE  e.run[y[i]].generation < e.run[y[j]].generation
  <2>1. i \in 1 .. n
    BY <1>2, <1>7
  <2>2. y[i] = q[i] /\ q[i] \in Runs \ {r}
    BY <1>2, <1>3, <2>1
  <2>3. CASE j = n + 1
    BY <1>1, <1>2, <1>7, <2>2, <2>3 DEF Accepts
  <2>4. CASE j \in 1 .. n
    <3>1. y[j] = q[j] /\ q[j] \in Runs \ {r}
      BY <1>2, <1>3, <2>4
    <3>2. d.run[q[i]].session = d.run[q[j]].session
      BY <1>1, <1>7, <2>2, <3>1 DEF Accepts
    <3>3. d.run[q[i]].generation < d.run[q[j]].generation
      BY <1>1, <1>7, <2>1, <2>4, <3>2 DEF Line, n
    <3> QED BY <1>1, <2>2, <3>1, <3>3 DEF Accepts
  <2> QED BY <1>4, <2>3, <2>4
<1>8. ASSUME NEW t \in Runs, e.run[t].status = "queued" PROVE \E i \in 1 .. n + 1 : y[i] = t
  <2>1. CASE t = r
    BY <1>2, <2>1
  <2>2. CASE t # r
    <3>1. d.run[t].status = "queued"
      BY <1>1, <1>8, <2>2 DEF Accepts
    <3>2. PICK i \in 1 .. n : q[i] = t
      BY <1>1, <3>1 DEF Line, n
    <3>3. i \in 1 .. n + 1 /\ y[i] = t
      BY <1>2, <3>2
    <3> QED BY <3>3
  <2> QED BY <2>1, <2>2
<1>9. Line(e, y)
  BY <1>2, <1>5, <1>6, <1>7, <1>8 DEF Line
<1> QED BY <1>9 DEF e, y

\* The Session of the accepted run stays consistent, and so do the others.
LEMMA JoinsAright ==
    ASSUME NEW st, NEW x, NEW s \in Sessions, NEW r \in Runs, Good(st), Joins(st, x, s, r)
    PROVE  Aright(x, s)
<1> DEFINE d == st.db
           e == x.db
           a == st.act[s]
           w == st.worker[s]
<1>1. Referenced(d) /\ Accepts(d, e, s, r) /\ ~ Accepted(d, r)
  BY DEF Good, Joins
<1>2. x.act[s] = a /\ x.worker[s] = w /\ x.armed = st.armed \cup {r}
  BY DEF Joins
<1>3. /\ Executing(d, a, s) /\ Staged(a, w, s) /\ Truthful(d, a, w, s) /\ Shut(d, a, w, s)
      /\ Asked(d, a, s) /\ Mine(d, a, s) /\ Timed(d, a, st.armed, s) /\ Ordered(d, s)
  BY DEF Good, Aright
<1> HIDE DEF d, e, a, w
<1>4. d.run[r].session \notin Sessions
  BY <1>1 DEF Referenced
<1>5. a # Idle => a.run # r
  BY <1>3, <1>4 DEF Executing
<1>6. \A t \in Runs \ {r} :
          /\ e.run[t].session = d.run[t].session /\ e.run[t].status = d.run[t].status
          /\ e.run[t].started = d.run[t].started /\ e.run[t].cleanup = d.run[t].cleanup
          /\ e.run[t].generation = d.run[t].generation
  BY <1>1 DEF Accepts
<1>7. /\ e.run[r].session = s /\ e.run[r].status = "queued" /\ ~ e.run[r].started
      /\ e.perm = d.perm /\ e.session[s].status = d.session[s].status
  BY <1>1 DEF Accepts
<1>8. Executing(e, a, s)
  BY <1>3, <1>5, <1>6 DEF Executing, IsTerminal
<1>9. Truthful(e, a, w, s)
  BY <1>3, <1>5, <1>6 DEF Truthful, Executing, Idle
<1>10. Shut(e, a, w, s)
  BY <1>3, <1>7 DEF Shut
<1>11. Asked(e, a, s)
  <2> SUFFICES ASSUME NEW p \in Perms, d.perm[p].status \in {"pending", "decided"},
                      e.run[d.perm[p].run].session = s
               PROVE  a.run = d.perm[p].run /\ InFlight(a) /\ a.handle
    BY <1>7 DEF Asked
  <2>1. d.perm[p].run \in Runs \ {r}
    BY <1>1 DEF Referenced
  <2> QED BY <1>3, <1>6, <2>1 DEF Asked
<1>12. Mine(e, a, s)
  BY <1>3, <1>6, <1>7 DEF Mine, Busy, Working
<1>13. Timed(e, a, x.armed, s)
  BY <1>2, <1>3, <1>6, <1>7 DEF Timed, IsTerminal
<1>14. Ordered(e, s)
  <2> SUFFICES ASSUME NEW u \in Runs, NEW t \in Runs, e.run[u].session = s,
                      e.run[t].session = s, e.run[u].started,
                      e.run[t].generation < e.run[u].generation
               PROVE  IsTerminal(e, t)
    BY DEF Ordered
  <2>1. u # r
    BY <1>7
  <2>2. t # r
    <3>1. e.run[u].generation < e.run[r].generation
      BY <1>1, <2>1 DEF Accepts
    <3>2. e.run[u].generation \in Nat /\ e.run[t].generation \in Nat
      BY <1>1 DEF Accepts, Database, RunRecord
    <3> QED BY <3>1, <3>2
  <2> QED BY <1>3, <1>6, <2>1, <2>2 DEF Ordered, IsTerminal
<1> QED BY <1>2, <1>3, <1>8, <1>9, <1>10, <1>11, <1>12, <1>13, <1>14 DEF Aright, d, e, a, w

\* Sound: a run is accepted, queued and given its timer.
LEMMA JoinsGood ==
    ASSUME NEW st, NEW x, NEW s \in Sessions, NEW r \in Runs, Good(st), Joins(st, x, s, r)
    PROVE  Good(x)
<1>1. Referenced(x.db) /\ Line(x.db, x.queue)
  BY JoinsReferenced, JoinsLine
<1>2. /\ x \in States /\ x.act = st.act /\ x.worker = st.worker
      /\ x.armed = st.armed \cup {r} /\ ~ Accepted(st.db, r)
      /\ Accepts(st.db, x.db, s, r) /\ Referenced(st.db)
  BY DEF Joins, Good
<1>3. st.db.run[r].session \notin Sessions
  BY <1>2 DEF Referenced
<1>4. Beside(st, x, s)
  BY <1>2, <1>3 DEF Beside, Accepts
<1>5. ASSUME NEW t \in Sessions PROVE Aright(x, t)
  <2>1. CASE t = s
    BY <2>1, JoinsAright
  <2>2. CASE t # s
    <3>1. Aright(st, t)
      BY DEF Good
    <3> QED BY <1>1, <1>4, <2>2, <3>1, BesideAright
  <2> QED BY <2>1, <2>2
<1>6. \A t \in x.armed : Accepted(x.db, t)
  <2> SUFFICES ASSUME NEW t \in x.armed PROVE Accepted(x.db, t)
    OBVIOUS
  <2>1. CASE t = r
    BY <1>2, <2>1 DEF Accepts, Accepted
  <2>2. CASE t # r
    <3>1. t \in st.armed /\ t \in Runs
      BY <1>2, <2>2 DEF States
    <3>2. Accepted(st.db, t)
      BY <3>1 DEF Good
    <3> QED BY <1>2, <2>2, <3>1, <3>2 DEF Accepts, Accepted
  <2> QED BY <2>1, <2>2
<1> QED BY <1>1, <1>2, <1>5, <1>6 DEF Good

\* What accepting run r of Session s leaves alone.
Undisturbed(st, x, s, r) ==
    /\ x.act = st.act /\ x.worker = st.worker
    /\ x.db.artifact = st.db.artifact
    /\ \A t \in Sessions : x.db.session[t].status = st.db.session[t].status
    /\ \A t \in Sessions : st.act[t] # Idle => st.act[t].run \in Runs \ {r}
    /\ \A t \in Runs \ {r} : x.db.run[t].status = st.db.run[t].status
    /\ \A t \in Sessions \ {s} : Unsettled(x.db, t) = Unsettled(st.db, t)
    /\ st.db.run[r].status = "absent"

\* What else the acceptance of a run leaves alone.
LEMMA JoinsKeeps ==
    ASSUME NEW st, NEW x, NEW s \in Sessions, NEW r \in Runs, Good(st), Joins(st, x, s, r)
    PROVE  Undisturbed(st, x, s, r)
<1>1. /\ x.act = st.act /\ x.worker = st.worker /\ ~ Accepted(st.db, r)
      /\ Accepts(st.db, x.db, s, r) /\ Referenced(st.db)
  BY DEF Joins, Good
<1>2. st.db.run[r].session \notin Sessions /\ st.db.run[r].status = "absent"
  BY <1>1 DEF Referenced, Accepted
<1>3. ASSUME NEW t \in Sessions, st.act[t] # Idle PROVE st.act[t].run \in Runs \ {r}
  <2>1. Executing(st.db, st.act[t], t)
    BY DEF Good, Aright
  <2> QED BY <1>2, <1>3, <2>1 DEF Executing
<1>4. ASSUME NEW t \in Sessions \ {s} PROVE Unsettled(x.db, t) = Unsettled(st.db, t)
  <2>1. ASSUME NEW u \in Runs
        PROVE  (u \in Unsettled(x.db, t)) <=> (u \in Unsettled(st.db, t))
    <3>1. CASE u = r
      BY <1>1, <1>2, <3>1 DEF Accepts, Unsettled, RunsOf
    <3>2. CASE u # r
      BY <1>1, <3>2 DEF Accepts, Unsettled, RunsOf, Accepted, IsTerminal
    <3> QED BY <3>1, <3>2
  <2>2. Unsettled(x.db, t) \subseteq Runs /\ Unsettled(st.db, t) \subseteq Runs
    BY DEF Unsettled, RunsOf
  <2> QED BY <2>1, <2>2
<1>5. \A t \in Sessions : x.db.session[t].status = st.db.session[t].status
  BY <1>1 DEF Accepts
<1>6. \A t \in Runs \ {r} : x.db.run[t].status = st.db.run[t].status
  BY <1>1 DEF Accepts
<1>7. x.db.artifact = st.db.artifact
  BY <1>1 DEF Accepts
<1> QED BY <1>1, <1>2, <1>3, <1>4, <1>5, <1>6, <1>7 DEF Undisturbed

\* The calls under way stay fit when a run is accepted.
LEMMA JoinsFit ==
    ASSUME NEW st, NEW x, NEW s \in Sessions, NEW r \in Runs, Good(st), Joins(st, x, s, r),
           NEW c, NEW ss \in SUBSET Sessions, s \notin ss,
           NEW ps \in SUBSET [run : Runs, artifact : Artifacts], Fit(st, c, ss, ps)
    PROVE  Fit(x, c, ss, ps) /\ Moves(st, x)
<1>0. Undisturbed(st, x, s, r)
  BY JoinsKeeps
<1>1. /\ x.act = st.act /\ x.worker = st.worker
      /\ x.db.artifact = st.db.artifact
      /\ \A t \in Sessions : x.db.session[t].status = st.db.session[t].status
      /\ \A t \in Sessions : st.act[t] # Idle => st.act[t].run \in Runs \ {r}
      /\ \A t \in Runs \ {r} : x.db.run[t].status = st.db.run[t].status
      /\ \A t \in Sessions \ {s} : Unsettled(x.db, t) = Unsettled(st.db, t)
      /\ st.db.run[r].status = "absent"
  BY <1>0 DEF Undisturbed
<1>2. \A t \in Sessions : Halting(x, t)
  BY <1>1 DEF Fit, Halting
<1>3. Slots(x)
  BY <1>1 DEF Fit, Slots, Active, Load, EngineLoad
<1>4. ClosersFit(x, c)
  <2>1. ASSUME NEW t \in Sessions PROVE CloserFit(x, c[t], t)
    <3>1. CloserFit(st, c[t], t)
      BY DEF Fit, ClosersFit
    <3>2. /\ x.db.session[t].status = st.db.session[t].status
          /\ x.act[t] = st.act[t] /\ x.worker[t] = st.worker[t]
      BY <1>1
    <3> QED BY <3>1, <3>2 DEF CloserFit
  <2> QED BY <2>1 DEF ClosersFit
<1>5. SuspendedFit(x, ss)
  BY <1>1 DEF Fit, SuspendedFit
<1>6. PublishingFit(x, ps)
  BY <1>1 DEF Fit, PublishingFit
<1>7. Moves(st, x)
  <2>1. ASSUME NEW t \in Sessions, st.act[t].stop # "none"
        PROVE  st.act[t].run \in Runs \ {r}
    BY <1>1, <2>1 DEF Idle
  <2>2. \A t \in Sessions : st.act[t].stop # "none" =>
            x.db.run[st.act[t].run].status = st.db.run[st.act[t].run].status
    BY <1>1, <2>1
  <2> QED BY <1>1, <2>2 DEF Moves, IsTerminal
<1> QED BY <1>2, <1>3, <1>4, <1>5, <1>6, <1>7 DEF Fit

----------------------------------------------------------------------------
(* The pump *)

\* The queue as it is after i turns: what was kept, and what is still to come.
Rest(k, q, i) ==
    [j \in 1 .. Len(k) + (Len(q) - i) |-> IF j <= Len(k) THEN k[j] ELSE q[(j - Len(k)) + i]]

Ahead(y, q, i) == [y EXCEPT !.queue = Rest(y.queue, q, i)]

\* An entry of a queue that is unchanged is that of the old one, a run.
LEMMA EntryOf ==
    ASSUME NEW k \in Seq(Runs), NEW q, q = k, NEW j \in 1 .. Len(q)
    PROVE  j \in 1 .. Len(k) /\ q[j] = k[j] /\ k[j] \in Runs
OBVIOUS

\* The queue that pump() is rebuilding: its length and its entries.
LEMMA RestQueue ==
    ASSUME NEW k \in Seq(Runs), NEW q \in Seq(Runs), NEW i \in 0 .. Len(q)
    PROVE  /\ Rest(k, q, i) \in Seq(Runs)
           /\ Len(Rest(k, q, i)) = Len(k) + (Len(q) - i)
           /\ \A j \in 1 .. Len(k) + (Len(q) - i) :
                 Rest(k, q, i)[j] = IF j <= Len(k) THEN k[j] ELSE q[(j - Len(k)) + i]
<1> DEFINE m == Len(k) + (Len(q) - i)
<1>1. Len(k) \in Nat /\ Len(q) \in Nat /\ i \in Nat /\ i <= Len(q)
  OBVIOUS
<1>2. m \in Nat
  BY <1>1
<1>3. ASSUME NEW j \in 1 .. m
      PROVE  (IF j <= Len(k) THEN k[j] ELSE q[(j - Len(k)) + i]) \in Runs
  <2>1. CASE j <= Len(k)
    <3>1. j \in 1 .. Len(k)
      BY <1>1, <1>3, <2>1
    <3> QED BY <2>1, <3>1
  <2>2. CASE ~ (j <= Len(k))
    <3>1. (j - Len(k)) + i \in 1 .. Len(q)
      BY <1>1, <1>3, <2>2
    <3> QED BY <2>2, <3>1
  <2> QED BY <2>1, <2>2
<1> DEFINE f == [j \in 1 .. m |-> IF j <= Len(k) THEN k[j] ELSE q[(j - Len(k)) + i]]
<1>4. f \in [1 .. m -> Runs]
  BY <1>3
<1>5. \A j \in 1 .. m : f[j] = IF j <= Len(k) THEN k[j] ELSE q[(j - Len(k)) + i]
  OBVIOUS
<1>6. f = Rest(k, q, i)
  BY DEF Rest
<1> HIDE DEF f, m
<1>7. f \in Seq(Runs) /\ Len(f) = m
  BY <1>2, <1>4
<1> QED BY <1>5, <1>6, <1>7 DEF m

\* Before the first turn, and after the last.
LEMMA RestEnds ==
    ASSUME NEW k \in Seq(Runs), NEW q \in Seq(Runs)
    PROVE  Rest(<<>>, q, 0) = q /\ Rest(k, q, Len(q)) = k
<1>1. Len(k) \in Nat /\ Len(q) \in Nat
  OBVIOUS
<1>2. Rest(<<>>, q, 0) = q
  <2>1. <<>> \in Seq(Runs) /\ Len(<<>>) = 0 /\ 0 \in 0 .. Len(q)
    BY <1>1
  <2> DEFINE y == Rest(<<>>, q, 0)
  <2>2. /\ y \in Seq(Runs) /\ Len(y) = Len(<<>>) + (Len(q) - 0)
        /\ \A j \in 1 .. Len(<<>>) + (Len(q) - 0) :
              y[j] = IF j <= Len(<<>>) THEN <<>>[j] ELSE q[(j - Len(<<>>)) + 0]
    BY <2>1, RestQueue
  <2> HIDE DEF y
  <2>3. Len(y) = Len(q) /\ \A j \in 1 .. Len(q) : y[j] = q[j]
    BY <1>1, <2>1, <2>2
  <2> QED BY <2>2, <2>3 DEF y
<1>3. Rest(k, q, Len(q)) = k
  <2>1. Len(q) \in 0 .. Len(q)
    BY <1>1
  <2> DEFINE y == Rest(k, q, Len(q))
  <2>2. /\ y \in Seq(Runs) /\ Len(y) = Len(k) + (Len(q) - Len(q))
        /\ \A j \in 1 .. Len(k) + (Len(q) - Len(q)) :
              y[j] = IF j <= Len(k) THEN k[j] ELSE q[(j - Len(k)) + Len(q)]
    BY <2>1, RestQueue
  <2> HIDE DEF y
  <2>3. Len(y) = Len(k) /\ \A j \in 1 .. Len(k) : y[j] = k[j]
    BY <1>1, <2>2
  <2> QED BY <2>2, <2>3 DEF y
<1> QED BY <1>2, <1>3

\* Sequences of the same length with the same entries are equal.
LEMMA SequencesEqual ==
    ASSUME NEW S, NEW y \in Seq(S), NEW z \in Seq(S), Len(z) = Len(y),
           \A j \in 1 .. Len(y) : z[j] = y[j]
    PROVE  z = y
OBVIOUS

\* An entry that is kept, and one that is not.
LEMMA RestKeeps ==
    ASSUME NEW k \in Seq(Runs), NEW q \in Seq(Runs), NEW i \in 0 .. Len(q) - 1
    PROVE  Rest(Append(k, q[i + 1]), q, i + 1) = Rest(k, q, i)
<1> DEFINE r == q[i + 1]
           c == Append(k, r)
           y == Rest(k, q, i)
           z == Rest(c, q, i + 1)
<1>1. /\ Len(k) \in Nat /\ Len(q) \in Nat /\ i \in Nat /\ i \in 0 .. Len(q) /\ i + 1 \in 0 .. Len(q)
      /\ i + 1 \in 1 .. Len(q)
  OBVIOUS
<1>2. c \in Seq(Runs) /\ Len(c) = Len(k) + 1 /\ c[Len(k) + 1] = r
      /\ \A j \in 1 .. Len(k) : c[j] = k[j]
  BY <1>1
<1> HIDE DEF c
<1>3. /\ y \in Seq(Runs) /\ Len(y) = Len(k) + (Len(q) - i)
      /\ \A j \in 1 .. Len(k) + (Len(q) - i) :
            y[j] = IF j <= Len(k) THEN k[j] ELSE q[(j - Len(k)) + i]
  BY <1>1, RestQueue
<1>4. /\ z \in Seq(Runs) /\ Len(z) = Len(c) + (Len(q) - (i + 1))
      /\ \A j \in 1 .. Len(c) + (Len(q) - (i + 1)) :
            z[j] = IF j <= Len(c) THEN c[j] ELSE q[(j - Len(c)) + (i + 1)]
  BY <1>1, <1>2, RestQueue
<1> HIDE DEF y, z
<1>5. Len(z) = Len(y)
  BY <1>1, <1>2, <1>3, <1>4
<1>6. ASSUME NEW j \in 1 .. Len(y) PROVE z[j] = y[j]
  <2>0. /\ j \in Nat /\ j >= 1 /\ j \in 1 .. Len(k) + (Len(q) - i)
        /\ j \in 1 .. Len(c) + (Len(q) - (i + 1))
    BY <1>1, <1>2, <1>3
  <2>1. CASE j <= Len(k)
    <3>1. j \in 1 .. Len(k) /\ j <= Len(c)
      BY <1>1, <1>2, <2>0, <2>1
    <3> QED BY <1>2, <1>3, <1>4, <2>0, <2>1, <3>1
  <2>2. CASE j = Len(k) + 1
    <3>1. j <= Len(c) /\ ~ (j <= Len(k)) /\ (j - Len(k)) + i = i + 1
      BY <1>1, <1>2, <2>2
    <3>2. z[j] = c[j] /\ y[j] = q[i + 1]
      BY <1>3, <1>4, <2>0, <3>1
    <3> QED BY <1>2, <2>2, <3>2 DEF r
  <2>3. CASE j > Len(k) + 1
    <3>1. ~ (j <= Len(c)) /\ ~ (j <= Len(k)) /\ (j - Len(c)) + (i + 1) = (j - Len(k)) + i
      BY <1>1, <1>2, <2>0, <2>3
    <3> QED BY <1>3, <1>4, <2>0, <3>1
  <2> QED BY <1>1, <2>0, <2>1, <2>2, <2>3
<1>7. z = y
  <2>1. y \in Seq(Runs) /\ z \in Seq(Runs)
    BY <1>3, <1>4
  <2>2. \A j \in 1 .. Len(y) : z[j] = y[j]
    BY <1>6
  <2> QED BY <1>5, <2>1, <2>2, SequencesEqual
<1> QED BY <1>7 DEF c, y, z

\* A turn of pump() that drops its entry takes it out of the queue.
LEMMA RestDrops ==
    ASSUME NEW k \in Seq(Runs), NEW q \in Seq(Runs), NEW i \in 0 .. Len(q) - 1
    PROVE  /\ Len(k) + 1 \in 1 .. Len(Rest(k, q, i))
           /\ Rest(k, q, i)[Len(k) + 1] = q[i + 1]
           /\ Without(Rest(k, q, i), Rest(k, q, i + 1), Len(k) + 1)
<1> DEFINE y == Rest(k, q, i)
           z == Rest(k, q, i + 1)
<1>1. /\ Len(k) \in Nat /\ Len(q) \in Nat /\ i \in Nat /\ i \in 0 .. Len(q) /\ i + 1 \in 0 .. Len(q)
      /\ i + 1 \in 1 .. Len(q) /\ i + 1 <= Len(q)
  OBVIOUS
<1>2. /\ y \in Seq(Runs) /\ Len(y) = Len(k) + (Len(q) - i)
      /\ \A j \in 1 .. Len(k) + (Len(q) - i) :
            y[j] = IF j <= Len(k) THEN k[j] ELSE q[(j - Len(k)) + i]
  BY <1>1, RestQueue
<1>3. /\ z \in Seq(Runs) /\ Len(z) = Len(k) + (Len(q) - (i + 1))
      /\ \A j \in 1 .. Len(k) + (Len(q) - (i + 1)) :
            z[j] = IF j <= Len(k) THEN k[j] ELSE q[(j - Len(k)) + (i + 1)]
  BY <1>1, RestQueue
<1> HIDE DEF y, z
<1>4. Len(k) + 1 \in 1 .. Len(y) /\ Len(z) = Len(y) - 1
  BY <1>1, <1>2, <1>3
<1>5. y[Len(k) + 1] = q[i + 1]
  <2>1. ~ (Len(k) + 1 <= Len(k)) /\ ((Len(k) + 1) - Len(k)) + i = i + 1
    BY <1>1
  <2> QED BY <1>2, <1>4, <2>1
<1>6. ASSUME NEW j \in 1 .. Len(z)
      PROVE  z[j] = IF j < Len(k) + 1 THEN y[j] ELSE y[j + 1]
  <2>0. /\ j \in Nat /\ j >= 1 /\ j \in 1 .. Len(k) + (Len(q) - (i + 1))
        /\ j \in 1 .. Len(k) + (Len(q) - i) /\ j + 1 \in 1 .. Len(k) + (Len(q) - i)
    BY <1>1, <1>3
  <2>1. CASE j <= Len(k)
    <3>1. j < Len(k) + 1
      BY <1>1, <2>0, <2>1
    <3> QED BY <1>2, <1>3, <2>0, <2>1, <3>1
  <2>2. CASE ~ (j <= Len(k))
    <3>1. /\ ~ (j < Len(k) + 1) /\ ~ (j + 1 <= Len(k))
          /\ (j - Len(k)) + (i + 1) = ((j + 1) - Len(k)) + i
      BY <1>1, <2>0, <2>2
    <3> QED BY <1>2, <1>3, <2>0, <2>2, <3>1
  <2> QED BY <2>1, <2>2
<1>7. Without(y, z, Len(k) + 1)
  BY <1>3, <1>4, <1>6 DEF Without
<1> QED BY <1>4, <1>5, <1>7 DEF y, z

\* Run r starts.
Starts(d, e, r) ==
    /\ e \in Database
    /\ e.session = d.session /\ e.perm = d.perm /\ e.artifact = d.artifact
    /\ \A t \in Runs :
          /\ e.run[t].session = d.run[t].session
          /\ e.run[t].generation = d.run[t].generation
          /\ e.run[t].cleanup = d.run[t].cleanup
          /\ t # r => /\ e.run[t].status = d.run[t].status
                      /\ e.run[t].started = d.run[t].started
    /\ e.run[r].status = "starting" /\ e.run[r].started

\* What setRunStatus(starting) changes in the database.
LEMMA StatusStarts ==
    ASSUME NEW d \in Database, NEW r \in Runs, d.run[r].status = "queued"
    PROVE  Starts(d, SetRunStatus(d, r, "starting"), r)
<1> DEFINE begun == d.run[r].started \/ "starting" = "starting"
           rec == [d.run[r] EXCEPT !.status = "starting", !.started = begun]
           e == InsertEvent(d, r, rec, 0, FALSE)
<1>1. d.run[r] \in RunRecord
  BY DEF Database
<1>2. begun \in BOOLEAN /\ begun
  OBVIOUS
<1>9. SetRunStatus(d, r, "starting") = e
  BY DEF SetRunStatus, IsTerminal, Terminal
<1> HIDE DEF begun
<1>4. /\ rec \in RunRecord
      /\ rec.session = d.run[r].session /\ rec.generation = d.run[r].generation
      /\ rec.status = "starting" /\ rec.started = begun
      /\ rec.cleanup = d.run[r].cleanup
  BY <1>1, <1>2 DEF RunRecord, Working
<1> HIDE DEF rec
<1>5. FALSE \in BOOLEAN /\ 0 \in Nat
  OBVIOUS
<1>6. Wrote(d, e, r, rec)
  BY <1>4, <1>5, Inserted
<1> HIDE DEF e
<1>7. e.run[r].started
  BY <1>2, <1>4, <1>6 DEF Wrote
<1>8. Starts(d, e, r)
  BY <1>4, <1>6, <1>7 DEF Wrote, Starts
<1> QED BY <1>8, <1>9

\* execute() begins with run r.
Begins(b, r) == \E pc \in {"inspect", "begin"} : b = [Idle EXCEPT !.run = r, !.pc = pc]

\* The oldest run of Session s leaves the queue for its execute().
Launches(st, x, s, r) ==
    /\ x \in States
    /\ x.armed = st.armed /\ x.worker = st.worker
    /\ Begins(x.act[s], r) /\ \A t \in Sessions \ {s} : x.act[t] = st.act[t]
    /\ st.act[s] = Idle /\ st.db.session[s].status = "open"
    /\ st.db.run[r].session = s /\ st.db.run[r].status = "queued"
    /\ \A t \in Runs : /\ st.db.run[t].session = s
                       /\ st.db.run[t].generation < st.db.run[r].generation
                       => IsTerminal(st.db, t)
    /\ Starts(st.db, x.db, r)
    /\ \E j \in 1 .. Len(st.queue) : st.queue[j] = r /\ Without(st.queue, x.queue, j)

\* Sound: the oldest waiting run of an idle, open Session starts.
LEMMA LaunchesGood ==
    ASSUME NEW st, NEW x, NEW s \in Sessions, NEW r \in Runs, Good(st), Launches(st, x, s, r)
    PROVE  Good(x)
<1> DEFINE d == st.db
           e == x.db
           a == st.act[s]
           b == x.act[s]
           w == st.worker[s]
<1>1. /\ Referenced(d) /\ Starts(d, e, r) /\ a = Idle /\ d.session[s].status = "open"
      /\ d.run[r].session = s /\ d.run[r].status = "queued"
  BY DEF Good, Launches
<1>2. /\ x \in States /\ x.armed = st.armed /\ x.worker = st.worker
      /\ \A t \in Sessions \ {s} : x.act[t] = st.act[t]
  BY DEF Launches
<1>3. \A t \in Runs : /\ d.run[t].session = s
                      /\ d.run[t].generation < d.run[r].generation
                      => IsTerminal(d, t)
  BY DEF Launches
<1>4. /\ Executing(d, a, s) /\ Staged(a, w, s) /\ Truthful(d, a, w, s) /\ Shut(d, a, w, s)
      /\ Asked(d, a, s) /\ Mine(d, a, s) /\ Timed(d, a, st.armed, s) /\ Ordered(d, s)
  BY DEF Good, Aright
<1>5. /\ b.run = r /\ b.pc \in {"inspect", "begin"} /\ b.stop = "none" /\ b.stopping = "none"
      /\ ~ b.handle /\ b.result = "pending" /\ ~ b.failed
  BY DEF Launches, Begins, Idle
<1>6. /\ Retained(d, e) /\ NoLongerWaits(d, e, r)
  <2>1. \A t \in Runs : /\ e.run[t].session = d.run[t].session
                        /\ e.run[t].generation = d.run[t].generation
                        /\ (Accepted(e, t)) <=> (Accepted(d, t))
                        /\ e.run[t].status = "queued" => ~ e.run[t].started
    <3> SUFFICES ASSUME NEW t \in Runs
                 PROVE  /\ e.run[t].session = d.run[t].session
                        /\ e.run[t].generation = d.run[t].generation
                        /\ (Accepted(e, t)) <=> (Accepted(d, t))
                        /\ e.run[t].status = "queued" => ~ e.run[t].started
      OBVIOUS
    <3>1. CASE t = r
      BY <1>1, <3>1 DEF Starts, Accepted
    <3>2. CASE t # r
      BY <1>1, <3>2 DEF Starts, Accepted, Referenced
    <3> QED BY <3>1, <3>2
  <2>2. \A p \in Perms : e.perm[p].status # "absent" =>
            e.perm[p].run \in Runs /\ Accepted(d, e.perm[p].run)
    BY <1>1 DEF Starts, Referenced
  <2>3. e \in Database /\ e.session = d.session
    BY <1>1 DEF Starts
  <2>4. Retained(d, e)
    BY <2>1, <2>2, <2>3 DEF Retained
  <2>5. NoLongerWaits(d, e, r)
    BY <1>1 DEF Starts, NoLongerWaits
  <2> QED BY <2>4, <2>5
<1>7. Line(e, x.queue)
  <2>1. PICK j \in 1 .. Len(st.queue) : st.queue[j] = r /\ Without(st.queue, x.queue, j)
    BY DEF Launches
  <2>2. Line(d, st.queue) /\ st.queue \in Seq(Runs)
    BY DEF Good, States
  <2> QED BY <1>6, <2>1, <2>2, LineWithout
<1>8. Beside(st, x, s)
  <2>1. \A p \in Perms : e.perm[p] = d.perm[p]
    BY <1>1 DEF Starts
  <2>2. \A t \in Runs : t # r \/ e.run[t].session = s
    BY <1>1 DEF Starts
  <2> QED BY <1>1, <1>2, <2>1, <2>2 DEF Starts, Beside
<1> HIDE DEF d, e, a, b, w
<1>9. Executing(e, b, s)
  BY <1>1, <1>5 DEF Executing, Starts, Busy, Working
<1>10. Staged(b, w, s)
  BY <1>4, <1>5 DEF Staged, Cleanup
<1>11. Truthful(e, b, w, s)
  BY <1>5 DEF Truthful
<1>12. Shut(e, b, w, s)
  BY <1>1 DEF Shut, Starts
<1>13. Asked(e, b, s)
  <2> SUFFICES ASSUME NEW p \in Perms, d.perm[p].status \in {"pending", "decided"},
                      e.run[d.perm[p].run].session = s
               PROVE  FALSE
    BY <1>1 DEF Asked, Starts
  <2>1. d.perm[p].run \in Runs
    BY <1>1 DEF Referenced
  <2>2. d.run[d.perm[p].run].session = s
    BY <1>1, <2>1 DEF Starts
  <2> QED BY <1>1, <1>4, <2>2 DEF Asked, InFlight, Idle
<1>14. Mine(e, b, s)
  <2> SUFFICES ASSUME NEW t \in Runs, e.run[t].session = s, e.run[t].status \in Busy, t # r
               PROVE  FALSE
    BY <1>5 DEF Mine
  <2>1. d.run[t].session = s /\ d.run[t].status \in Busy
    BY <1>1 DEF Starts
  <2>2. a.run = t
    BY <1>4, <2>1 DEF Mine
  <2> QED BY <1>1, <2>2, StoreAssumption DEF Idle
<1>15. Timed(e, b, x.armed, s)
  <2> SUFFICES ASSUME NEW t \in Runs, e.run[t].session = s, ~ IsTerminal(e, t)
               PROVE  t \in st.armed
    BY <1>2 DEF Timed
  <2>1. d.run[t].session = s
    BY <1>1 DEF Starts
  <2>2. ~ IsTerminal(d, t)
    BY <1>1 DEF Starts, IsTerminal, Terminal
  <2>3. a.stop = "none"
    BY <1>1 DEF Idle
  <2> QED BY <1>4, <2>1, <2>2, <2>3 DEF Timed
<1>16. Ordered(e, s)
  <2> SUFFICES ASSUME NEW u \in Runs, NEW t \in Runs, e.run[u].session = s,
                      e.run[t].session = s, e.run[u].started,
                      e.run[t].generation < e.run[u].generation
               PROVE  IsTerminal(e, t)
    BY DEF Ordered
  <2>1. /\ d.run[u].session = s /\ d.run[t].session = s
        /\ d.run[t].generation < d.run[u].generation
    BY <1>1 DEF Starts
  <2>2. IsTerminal(d, t)
    <3>1. CASE u = r
      BY <1>3, <2>1, <3>1
    <3>2. CASE u # r
      <4>1. d.run[u].started
        BY <1>1, <3>2 DEF Starts
      <4> QED BY <1>4, <2>1, <4>1 DEF Ordered
    <3> QED BY <3>1, <3>2
  <2>3. t # r
    BY <1>1, <2>2 DEF IsTerminal, Terminal
  <2> QED BY <1>1, <2>2, <2>3 DEF Starts, IsTerminal
<1>17. Aright(x, s)
  BY <1>2, <1>9, <1>10, <1>11, <1>12, <1>13, <1>14, <1>15, <1>16 DEF Aright, e, b, w
<1> QED BY <1>2, <1>6, <1>7, <1>8, <1>17, Assembled DEF d, e

\* Why an entry stays in the queue.
Blocked(x, s) ==
    \/ Load(x) >= MaxConcurrency
    \/ x.act[s] # Idle
    \/ EngineLoad(x, s) >= MaxPerEngine

\* What a number of turns may do.
Pumps(st, x) ==
    /\ Onward(st.db, x.db)
    /\ x.worker = st.worker /\ x.db.artifact = st.db.artifact
    /\ \A t \in Sessions : x.db.session[t].status = st.db.session[t].status
    /\ \A r \in Runs : st.db.run[r].status # "queued" =>
          x.db.run[r].status = st.db.run[r].status
    /\ \A t \in Sessions :
          \/ x.act[t] = st.act[t]
          \/ /\ st.act[t] = Idle /\ st.db.session[t].status = "open"
             /\ Unsettled(st.db, t) # {}

Pumped(st, y, q, i) ==
    /\ y \in States /\ Good(Ahead(y, q, i)) /\ Pumps(st, y) /\ Slots(y)
    /\ \A j \in 1 .. Len(y.queue) : Blocked(y, y.db.run[y.queue[j]].session)

\* Only the queue tells z from y.
Requeued(y, z, k) ==
    /\ z \in States /\ z.db = y.db /\ z.armed = y.armed /\ z.act = y.act
    /\ z.worker = y.worker /\ z.queue = k

\* Only the queue differs between the states in and after the turns.
LEMMA AheadFields ==
    ASSUME NEW y \in States, NEW q \in Seq(Runs), NEW i \in 0 .. Len(q)
    PROVE  Requeued(y, Ahead(y, q, i), Rest(y.queue, q, i))
<1>1. y.queue \in Seq(Runs)
  BY DEF States
<1>2. Rest(y.queue, q, i) \in Seq(Runs)
  BY <1>1, RestQueue
<1> QED BY <1>2 DEF Requeued, Ahead, States

\* What a turn leaves alone of execute().
Fuller(y, x) == \A t \in Sessions : y.act[t] # Idle => x.act[t] # Idle

Singly(y, x, s) == \A t \in Sessions \ {s} : x.act[t] = y.act[t]

\* A Session without a free slot has none when more of them are taken.
LEMMA BlockedKept ==
    ASSUME NEW y, NEW x, NEW s \in Sessions, IsFiniteSet(Active(x)), Fuller(y, x),
           Blocked(y, s)
    PROVE  Blocked(x, s)
<1> DEFINE A == Active(y)
           B == Active(x)
           E == {t \in Sessions : y.act[t] # Idle /\ EngineOf[t] = EngineOf[s]}
           F == {t \in Sessions : x.act[t] # Idle /\ EngineOf[t] = EngineOf[s]}
<1>1. A \subseteq B /\ E \subseteq F /\ F \subseteq B
  BY DEF Active, Fuller
<1>2. Load(y) = Cardinality(A) /\ Load(x) = Cardinality(B)
      /\ EngineLoad(y, s) = Cardinality(E) /\ EngineLoad(x, s) = Cardinality(F)
  BY DEF Active, Load, EngineLoad
<1> HIDE DEF A, B, E, F
<1>3. IsFiniteSet(B)
  BY DEF B
<1>4. IsFiniteSet(A) /\ IsFiniteSet(F) /\ Cardinality(A) <= Cardinality(B)
  BY <1>1, <1>3, FS_Subset
<1>5. IsFiniteSet(E) /\ Cardinality(E) <= Cardinality(F)
  BY <1>1, <1>4, FS_Subset
<1>6. /\ Cardinality(A) \in Nat /\ Cardinality(B) \in Nat
      /\ Cardinality(E) \in Nat /\ Cardinality(F) \in Nat
  BY <1>3, <1>4, <1>5, FS_CardinalityType
<1>7. MaxConcurrency \in Nat /\ MaxPerEngine \in Nat
  BY RuntimeAssumption
<1>8. \A t \in Sessions : y.act[t] # Idle => x.act[t] # Idle
  BY DEF Fuller
<1>9. Cardinality(A) >= MaxConcurrency => Cardinality(B) >= MaxConcurrency
  BY <1>4, <1>6, <1>7
<1>10. Cardinality(E) >= MaxPerEngine => Cardinality(F) >= MaxPerEngine
  BY <1>5, <1>6, <1>7
<1> QED BY <1>2, <1>8, <1>9, <1>10 DEF Blocked

\* A run that starts in a free slot keeps the limits.
LEMMA SlotsLaunch ==
    ASSUME NEW y, NEW x, NEW s \in Sessions, Slots(y), ~ Blocked(y, s), x.act[s] # Idle,
           Singly(y, x, s)
    PROVE  Slots(x)
<1> USE DEF Singly
<1> DEFINE E(z, t) == {u \in Sessions : z.act[u] # Idle /\ EngineOf[u] = EngineOf[t]}
<1>1. IsFiniteSet(Active(y)) /\ y.act[s] = Idle
      /\ \A t \in Sessions : EngineLoad(y, t) <= MaxPerEngine
  BY DEF Slots, Blocked
<1>2. Active(x) = Active(y) \cup {s} /\ s \notin Active(y)
  BY <1>1 DEF Active
<1>3. IsFiniteSet(Active(x)) /\ Cardinality(Active(x)) = Cardinality(Active(y)) + 1
  BY <1>1, <1>2, FS_AddElement
<1>4. Load(y) = Cardinality(Active(y)) /\ Load(x) = Cardinality(Active(x))
  BY DEF Active, Load
<1>5. Cardinality(Active(y)) \in Nat /\ MaxConcurrency \in Nat /\ MaxPerEngine \in Nat
  BY <1>1, FS_CardinalityType, RuntimeAssumption
<1>6. Load(x) <= MaxConcurrency
  BY <1>3, <1>4, <1>5 DEF Blocked
<1>7. ASSUME NEW t \in Sessions PROVE EngineLoad(x, t) <= MaxPerEngine
  <2>1. CASE EngineOf[t] = EngineOf[s]
    <3>1. E(x, t) = E(y, s) \cup {s} /\ s \notin E(y, s)
      BY <1>1, <2>1
    <3>2. E(y, s) \subseteq Active(y)
      BY DEF Active
    <3>3. EngineLoad(x, t) = Cardinality(E(x, t)) /\ EngineLoad(y, s) = Cardinality(E(y, s))
      BY DEF EngineLoad
    <3> HIDE DEF E
    <3>4. IsFiniteSet(E(y, s))
      BY <1>1, <3>2, FS_Subset
    <3>5. Cardinality(E(x, t)) = Cardinality(E(y, s)) + 1 /\ Cardinality(E(y, s)) \in Nat
      BY <3>1, <3>4, FS_AddElement, FS_CardinalityType
    <3> QED BY <1>5, <3>3, <3>5 DEF Blocked
  <2>2. CASE EngineOf[t] # EngineOf[s]
    <3>1. E(x, t) = E(y, t)
      BY <1>1, <2>2
    <3>2. EngineLoad(x, t) = EngineLoad(y, t)
      BY <3>1 DEF EngineLoad
    <3> QED BY <1>1, <3>2
  <2> QED BY <2>1, <2>2
<1> QED BY <1>3, <1>6, <1>7 DEF Slots

\* What some turns of pump() may do, more turns may do.
LEMMA PumpsTwice ==
    ASSUME NEW st, NEW y, NEW x, Good(st), Pumps(st, y), Pumps(y, x)
    PROVE  Pumps(st, x)
<1>1. Onward(st.db, x.db)
  BY DEF Pumps, Onward, IsTerminal
<1>2. ASSUME NEW t \in Sessions
      PROVE  \/ x.act[t] = st.act[t]
             \/ /\ st.act[t] = Idle /\ st.db.session[t].status = "open"
                /\ Unsettled(st.db, t) # {}
  <2>1. CASE y.act[t] # st.act[t]
    BY <2>1 DEF Pumps
  <2>2. CASE x.act[t] = y.act[t]
    BY <2>1, <2>2 DEF Pumps
  <2>3. CASE y.act[t] = st.act[t] /\ x.act[t] # y.act[t]
    <3>1. /\ y.act[t] = Idle /\ y.db.session[t].status = "open" /\ Unsettled(y.db, t) # {}
      BY <2>3 DEF Pumps
    <3>2. Unsettled(y.db, t) \subseteq Unsettled(st.db, t)
      BY UnsettledKept DEF Pumps
    <3>3. y.db.session[t].status = st.db.session[t].status
      BY DEF Pumps
    <3> QED BY <2>3, <3>1, <3>2, <3>3
  <2> QED BY <2>1, <2>2, <2>3
<1>3. \A r \in Runs : st.db.run[r].status # "queued" =>
          x.db.run[r].status = st.db.run[r].status
  BY DEF Pumps
<1>4. /\ x.worker = st.worker /\ x.db.artifact = st.db.artifact
      /\ \A t \in Sessions : x.db.session[t].status = st.db.session[t].status
  BY DEF Pumps
<1> QED BY <1>1, <1>2, <1>3, <1>4 DEF Pumps

\* The entry whose turn it is.
LEMMA TurnEntry ==
    ASSUME NEW y \in States, NEW q \in Seq(Runs), NEW i \in 0 .. Len(q) - 1,
           Good(Ahead(y, q, i))
    PROVE  LET z == Ahead(y, q, i)
               r == q[i + 1] IN
           /\ r \in Runs /\ y.db.run[r].status = "queued"
           /\ y.db.run[r].session \in Sessions
           /\ Len(y.queue) + 1 \in 1 .. Len(z.queue)
           /\ z.queue[Len(y.queue) + 1] = r
<1> DEFINE z == Ahead(y, q, i)
           r == q[i + 1]
           k == y.queue
<1>1. i \in 0 .. Len(q) /\ i + 1 \in 1 .. Len(q)
  OBVIOUS
<1>2. z.db = y.db /\ z.queue = Rest(k, q, i) /\ k \in Seq(Runs)
  BY <1>1, AheadFields DEF States, Requeued
<1>3. Len(k) + 1 \in 1 .. Len(z.queue) /\ z.queue[Len(k) + 1] = r
  BY <1>2, RestDrops
<1>4. r \in Runs
  BY <1>1
<1> HIDE DEF z
<1>5. Line(y.db, z.queue) /\ Referenced(y.db)
  BY <1>2 DEF Good, z
<1>6. y.db.run[r].status = "queued"
  BY <1>3, <1>5 DEF Line
<1>7. y.db.run[r].session \in Sessions
  BY <1>4, <1>5, <1>6 DEF Referenced, Accepted
<1> QED BY <1>3, <1>4, <1>6, <1>7 DEF z

\* The runs accepted before the one that starts have ended.
LEMMA TurnOldest ==
    ASSUME NEW y \in States, NEW q \in Seq(Runs), NEW i \in 0 .. Len(q) - 1,
           Good(Ahead(y, q, i)), NEW r, r = q[i + 1], NEW s, s = y.db.run[r].session,
           ~ Blocked(y, s),
           \A j \in 1 .. Len(y.queue) : Blocked(y, y.db.run[y.queue[j]].session),
           NEW t \in Runs, y.db.run[t].session = s,
           y.db.run[t].generation < y.db.run[r].generation
    PROVE  IsTerminal(y.db, t)
<1> DEFINE z == Ahead(y, q, i)
           k == y.queue
           d == y.db
<1>1. i \in 0 .. Len(q)
  OBVIOUS
<1>2. /\ z.db = d /\ z.queue = Rest(k, q, i) /\ z.act = y.act /\ k \in Seq(Runs)
      /\ d \in Database
  BY <1>1, AheadFields DEF States, Requeued
<1>3. /\ r \in Runs /\ s \in Sessions
      /\ Len(k) + 1 \in 1 .. Len(z.queue) /\ z.queue[Len(k) + 1] = r
  BY TurnEntry
<1>4. \A j \in 1 .. Len(k) : z.queue[j] = k[j]
  <2>1. Len(k) \in Nat /\ Len(q) \in Nat /\ i \in Nat /\ i <= Len(q)
    BY <1>2
  <2>2. \A j \in 1 .. Len(k) : j \in 1 .. Len(k) + (Len(q) - i) /\ j <= Len(k)
    BY <2>1
  <2> HIDE DEF z, k
  <2>3. \A j \in 1 .. Len(k) + (Len(q) - i) :
            Rest(k, q, i)[j] = IF j <= Len(k) THEN k[j] ELSE q[(j - Len(k)) + i]
    BY <1>1, <1>2, RestQueue
  <2> QED BY <1>2, <2>2, <2>3
<1> HIDE DEF z
<1>5. Line(d, z.queue) /\ Referenced(d) /\ Aright(z, s)
  BY SMTT(30), <1>2, <1>3 DEF Good, z
<1>6. y.act[s] = Idle
  BY DEF Blocked
<1> SUFFICES ASSUME ~ IsTerminal(d, t) PROVE FALSE
  OBVIOUS
<1>7. Accepted(d, t)
  BY <1>3, <1>5 DEF Referenced
<1>8. d.run[t].status \notin Busy
  <2>1. Mine(d, y.act[s], s)
    BY <1>2, <1>5 DEF Aright
  <2> QED BY SMTT(30), <1>6, <2>1, StoreAssumption DEF Mine, Idle
<1>9. d.run[t].status = "queued"
  <2>1. d.run[t] \in RunRecord
    BY <1>2 DEF Database
  <2> QED BY <1>7, <1>8, <2>1 DEF Accepted, IsTerminal, Busy, RunRecord
<1>10. PICK j \in 1 .. Len(z.queue) : z.queue[j] = t
  BY <1>5, <1>9 DEF Line
<1>11. Len(k) \in Nat /\ j \in Nat /\ j >= 1
  BY <1>2
<1>12. d.run[t].generation \in Nat /\ d.run[r].generation \in Nat
  BY <1>2, <1>3 DEF Database, RunRecord
<1>13. CASE j <= Len(k)
  <2>1. j \in 1 .. Len(k)
    BY <1>11, <1>13
  <2>2. k[j] = t
    BY <1>4, <1>10, <2>1
  <2> QED BY <2>1, <2>2
<1>14. CASE j = Len(k) + 1
  <2>1. t = r
    BY <1>3, <1>10, <1>14
  <2> QED BY <1>12, <2>1
<1>15. CASE j > Len(k) + 1
  <2>1. d.run[r].generation < d.run[t].generation
    BY <1>3, <1>5, <1>10, <1>15 DEF Line
  <2> QED BY <1>12, <2>1
<1> QED BY <1>11, <1>13, <1>14, <1>15

\* A turn that keeps its entry.
LEMMA KeepPumps ==
    ASSUME NEW st, NEW y, NEW q \in Seq(Runs), NEW i \in 0 .. Len(q) - 1, Pumped(st, y, q, i),
           Blocked(y, y.db.run[q[i + 1]].session)
    PROVE  Pumped(st, Keep(y, q[i + 1]), q, i + 1)
<1> DEFINE r == q[i + 1]
           k == y.queue
           c == Append(k, r)
           x == Keep(y, r)
<1>1. i \in 0 .. Len(q) /\ i + 1 \in 0 .. Len(q)
  OBVIOUS
<1>2. y \in States /\ Good(Ahead(y, q, i)) /\ Pumps(st, y) /\ Slots(y) /\ k \in Seq(Runs)
  BY DEF Pumped, States
<1>3. r \in Runs
  BY <1>2, TurnEntry
<1>4. c \in Seq(Runs) /\ Len(c) = Len(k) + 1 /\ c[Len(k) + 1] = r /\ Len(k) \in Nat
      /\ \A j \in 1 .. Len(k) : c[j] = k[j]
  BY <1>2, <1>3
<1>5. Rest(c, q, i + 1) = Rest(k, q, i)
  BY <1>2, RestKeeps
<1>6. x = [y EXCEPT !.queue = c]
  BY DEF Keep
<1> HIDE DEF c, x
<1>7. /\ x \in States /\ x.db = y.db /\ x.armed = y.armed /\ x.act = y.act
      /\ x.worker = y.worker /\ x.queue = c
  BY <1>2, <1>4, <1>6 DEF States
<1>8. Ahead(x, q, i + 1) = Ahead(y, q, i)
  BY <1>2, <1>5, <1>6, <1>7 DEF Ahead, States
<1>9. Pumps(st, x)
  BY <1>2, <1>7 DEF Pumps
<1>10. Slots(x)
  BY <1>2, <1>7 DEF Slots, Active, Load, EngineLoad
<1>11. \A s : Blocked(y, s) => Blocked(x, s)
  BY <1>7 DEF Blocked, Load, EngineLoad
<1>12. ASSUME NEW j \in 1 .. Len(x.queue) PROVE Blocked(x, x.db.run[x.queue[j]].session)
  <2>1. CASE j = Len(k) + 1
    BY <1>4, <1>7, <1>11, <2>1
  <2>2. CASE j \in 1 .. Len(k)
    BY SMTT(30), <1>4, <1>7, <1>11, <2>2 DEF Pumped
  <2> QED BY <1>4, <1>7, <2>1, <2>2
<1> QED BY <1>2, <1>7, <1>8, <1>9, <1>10, <1>12 DEF Pumped, x

\* A turn that cancels the run of a Session that is not open.
LEMMA CancelPumps ==
    ASSUME NEW st, NEW y, NEW q \in Seq(Runs), NEW i \in 0 .. Len(q) - 1, Good(st),
           Pumped(st, y, q, i), NEW r, r = q[i + 1], NEW x,
           x = Disarm([y EXCEPT !.db = FinishRun(y.db, r, "cancelled", "confirmed")], r)
    PROVE  Pumped(st, x, q, i + 1)
<1> DEFINE e == FinishRun(y.db, r, "cancelled", "confirmed")
           s == y.db.run[r].session
           k == y.queue
           z == Ahead(y, q, i)
           v == Ahead(x, q, i + 1)
<1>1. i \in 0 .. Len(q) /\ i + 1 \in 0 .. Len(q)
  OBVIOUS
<1>2. y \in States /\ Good(z) /\ Pumps(st, y) /\ Slots(y) /\ y.db \in Database
      /\ k \in Seq(Runs)
  BY DEF Pumped, States
<1>3. /\ r \in Runs /\ y.db.run[r].status = "queued" /\ s \in Sessions
      /\ Len(k) + 1 \in 1 .. Len(z.queue) /\ z.queue[Len(k) + 1] = r
  BY <1>2, TurnEntry
<1>4. "cancelled" \in Terminal /\ "confirmed" \in Cleanup /\ ~ IsTerminal(y.db, r)
  BY <1>3 DEF Terminal, Cleanup, IsTerminal
<1>5. Ended(y.db, e, r, "cancelled", "confirmed")
  BY <1>2, <1>3, <1>4, FinishEnds
<1>6. e \in Database
  BY <1>5 DEF Ended
<1> HIDE DEF e
<1>7. /\ x \in States /\ x.db = e /\ x.armed = y.armed \ {r} /\ x.act = y.act
      /\ x.worker = y.worker /\ x.queue = k
  BY <1>2, <1>6 DEF States, Disarm, e
<1>8. /\ z \in States /\ z.db = y.db /\ z.armed = y.armed /\ z.act = y.act
      /\ z.worker = y.worker /\ z.queue = Rest(k, q, i)
  <2>1. Requeued(y, z, Rest(k, q, i))
    BY <1>1, <1>2, AheadFields
  <2> QED BY <2>1 DEF Requeued
<1>9. /\ v \in States /\ v.db = e /\ v.armed = y.armed \ {r} /\ v.act = y.act
      /\ v.worker = y.worker /\ v.queue = Rest(k, q, i + 1)
  <2>1. Requeued(x, v, Rest(k, q, i + 1))
    BY <1>1, <1>7, AheadFields
  <2> QED BY <1>7, <2>1 DEF Requeued
<1>10. Without(z.queue, v.queue, Len(k) + 1)
  BY <1>2, <1>8, <1>9, RestDrops
<1> HIDE DEF z, v
<1>11. Drops(z, v, r, "cancelled", "confirmed")
  BY <1>3, <1>4, <1>5, <1>8, <1>9, <1>10 DEF Drops
<1>12. Steps(z, v, s)
  BY <1>2, <1>3, <1>8, <1>11, DropsSteps
<1>13. Pumps(y, x)
  <2>1. Onward(y.db, x.db)
    BY <1>7, <1>8, <1>9, <1>12 DEF Steps, Turn
  <2>2. /\ x.db.artifact = y.db.artifact
        /\ \A t \in Sessions : x.db.session[t].status = y.db.session[t].status
        /\ \A t \in Runs : t # r => x.db.run[t].status = y.db.run[t].status
    BY <1>5, <1>7 DEF Ended
  <2> QED BY <1>3, <1>7, <2>1, <2>2 DEF Pumps
<1>14. Pumps(st, x)
  BY <1>2, <1>13, PumpsTwice
<1>15. Slots(x)
  BY <1>2, <1>7 DEF Slots, Active, Load, EngineLoad
<1>16. \A t : Blocked(y, t) => Blocked(x, t)
  BY <1>7 DEF Blocked, Load, EngineLoad
<1>17. ASSUME NEW j \in 1 .. Len(x.queue) PROVE Blocked(x, x.db.run[x.queue[j]].session)
  <2>1. j \in 1 .. Len(k) /\ x.queue[j] = k[j] /\ k[j] \in Runs
    BY <1>2, <1>7
  <2>2. Blocked(y, y.db.run[k[j]].session)
    BY <2>1 DEF Pumped
  <2>3. x.db.run[k[j]].session = y.db.run[k[j]].session
    BY <1>5, <1>7, <2>1 DEF Ended
  <2> QED BY <1>16, <2>1, <2>2, <2>3
<1>18. Good(v)
  BY <1>12 DEF Steps
<1> QED BY <1>7, <1>14, <1>15, <1>17, <1>18 DEF Pumped, v

\* A turn that starts its run.
LEMMA LaunchPumps ==
    ASSUME NEW st, NEW y, NEW q \in Seq(Runs), NEW i \in 0 .. Len(q) - 1, Good(st),
           Pumped(st, y, q, i), NEW r, r = q[i + 1], NEW s, s = y.db.run[r].session,
           y.db.session[s].status = "open", ~ Blocked(y, s),
           NEW x, x = Launch(y, s, r)
    PROVE  Pumped(st, x, q, i + 1)
<1> DEFINE e == SetRunStatus(y.db, r, "starting")
           b == [Idle EXCEPT !.run = r,
                             !.pc = IF DriverOf[s] # "fake" /\ s \notin installed
                                    THEN "inspect" ELSE "begin"]
           c == [y.act EXCEPT ![s] = b]
           k == y.queue
           z == Ahead(y, q, i)
           v == Ahead(x, q, i + 1)
<1>1. i \in 0 .. Len(q) /\ i + 1 \in 0 .. Len(q)
  OBVIOUS
<1>2. y \in States /\ Good(z) /\ Pumps(st, y) /\ Slots(y) /\ y.db \in Database
      /\ k \in Seq(Runs)
  BY DEF Pumped, States
<1>3. /\ r \in Runs /\ y.db.run[r].status = "queued" /\ s \in Sessions
      /\ Len(k) + 1 \in 1 .. Len(z.queue) /\ z.queue[Len(k) + 1] = r
  BY <1>2, TurnEntry, Zenon
<1>4. Starts(y.db, e, r)
  BY <1>2, <1>3, StatusStarts, Zenon
<1>5. e \in Database
  BY <1>4 DEF Starts
<1>6. b \in ActiveRecord /\ b.run = r
  BY <1>3, Zenon DEF ActiveRecord, Idle, Pcs, Cleanup
<1>a. Begins(b, r)
  BY DEF Begins
<1>b. b # Idle
  BY <1>3, <1>6, StoreAssumption DEF Idle
<1>c. x = [y EXCEPT !.db = e, !.act[s] = b]
  BY DEF Launch
<1> HIDE DEF e, b, c
<1>7. /\ x \in States /\ x.db = e /\ x.armed = y.armed /\ x.act = c
      /\ x.worker = y.worker /\ x.queue = k
  <2> DEFINE u == [y EXCEPT !.db = e]
  <2>1. c \in [Sessions -> ActiveRecord]
    BY <1>2, <1>6 DEF States, c
  <2>2. /\ u \in States /\ u.db = e /\ u.armed = y.armed /\ u.act = y.act
        /\ u.worker = y.worker /\ u.queue = k
    BY <1>2, <1>5 DEF States
  <2>3. x = [u EXCEPT !.act = c]
    BY <1>c, <2>2 DEF c
  <2> HIDE DEF u
  <2>4. /\ x \in States /\ x.db = u.db /\ x.armed = u.armed /\ x.act = c
        /\ x.worker = u.worker /\ x.queue = u.queue
    BY <2>1, <2>2, <2>3, Zenon DEF States
  <2> QED BY <2>2, <2>4
<1>d. x.act[s] = b /\ \A t \in Sessions \ {s} : x.act[t] = y.act[t]
  BY <1>2, <1>3, <1>7, Zenon DEF States, c
<1>8. /\ z \in States /\ z.db = y.db /\ z.armed = y.armed /\ z.act = y.act
      /\ z.worker = y.worker /\ z.queue = Rest(k, q, i)
  <2>1. Requeued(y, z, Rest(k, q, i))
    BY <1>1, <1>2, AheadFields, Zenon
  <2> QED BY <2>1 DEF Requeued
<1>9. /\ v \in States /\ v.db = e /\ v.armed = y.armed /\ v.act = x.act
      /\ v.worker = y.worker /\ v.queue = Rest(k, q, i + 1)
  <2>1. Requeued(x, v, Rest(k, q, i + 1))
    BY <1>1, <1>7, AheadFields, Zenon
  <2> QED BY <1>7, <2>1, Zenon DEF Requeued
<1>10. Without(z.queue, v.queue, Len(k) + 1)
  <2>1. Without(Rest(k, q, i), Rest(k, q, i + 1), Len(k) + 1)
    <3>1. k \in Seq(Runs)
      BY <1>2, Zenon
    <3> HIDE DEF k
    <3> QED BY <3>1, RestDrops, Zenon
  <2> HIDE DEF z, v
  <2>2. z.queue = Rest(k, q, i) /\ v.queue = Rest(k, q, i + 1)
    BY <1>8, <1>9, Zenon
  <2> QED BY <2>1, <2>2, Zenon
<1>11. \A j \in 1 .. Len(k) : Blocked(y, y.db.run[k[j]].session)
  BY Zenon DEF Pumped
<1>12. \A t \in Runs : /\ y.db.run[t].session = s
                       /\ y.db.run[t].generation < y.db.run[r].generation
                       => IsTerminal(y.db, t)
  BY <1>2, <1>11, TurnOldest, Zenon
<1>13. y.act[s] = Idle
  BY Zenon DEF Blocked
<1> HIDE DEF z, v
<1>14. Launches(z, v, s, r)
  BY <1>3, <1>4, <1>8, <1>9, <1>10, <1>12, <1>13, <1>a, <1>d, Zenon DEF Launches
<1>15. Good(v)
  BY <1>2, <1>3, <1>14, LaunchesGood, Zenon
<1>16. Pumps(y, x)
  <2>1. Onward(y.db, x.db)
    BY <1>3, <1>4, <1>7, Zenon DEF Onward, Starts, IsTerminal, Terminal
  <2>2. /\ x.db.artifact = y.db.artifact
        /\ \A t \in Sessions : x.db.session[t].status = y.db.session[t].status
        /\ \A t \in Runs : t # r => x.db.run[t].status = y.db.run[t].status
    BY <1>4, <1>7, Zenon DEF Starts
  <2>3. r \in Unsettled(y.db, s)
    BY <1>3, Zenon DEF Unsettled, RunsOf, Accepted, IsTerminal, Terminal
  <2> QED BY <1>3, <1>7, <1>13, <1>d, <2>1, <2>2, <2>3, Zenon DEF Pumps
<1>17. Pumps(st, x)
  BY <1>2, <1>16, PumpsTwice, Zenon
<1>18. Slots(x)
  <2>1. x.act[s] # Idle /\ Singly(y, x, s)
    BY <1>b, <1>d, Zenon DEF Singly
  <2> QED BY <1>2, <1>3, <2>1, SlotsLaunch, Zenon
<1>19. Fuller(y, x)
  BY <1>13, <1>d, Zenon DEF Fuller
<1>20. ASSUME NEW j \in 1 .. Len(x.queue) PROVE Blocked(x, x.db.run[x.queue[j]].session)
  <2>1. j \in 1 .. Len(k) /\ x.queue[j] = k[j] /\ k[j] \in Runs
    <3>1. x.queue = k /\ k \in Seq(Runs)
      BY <1>2, <1>7, Zenon
    <3> QED BY <3>1, EntryOf, Zenon
  <2>2. Blocked(y, y.db.run[k[j]].session)
    BY <1>11, <2>1, Zenon
  <2>3. x.db.run[k[j]].session = y.db.run[k[j]].session
    BY <1>4, <1>7, <2>1, Zenon DEF Starts
  <2>4. y.db.run[k[j]].session \in Sessions
    <3> DEFINE u == k[j]
    <3>1. z.queue[j] = u /\ j \in 1 .. Len(z.queue)
      <4>1. Len(k) \in Nat /\ Len(q) \in Nat /\ i \in Nat /\ i <= Len(q)
        BY <1>2
      <4>2. j \in 1 .. Len(k) + (Len(q) - i) /\ j <= Len(k)
        BY <2>1, <4>1
      <4>3. /\ Len(Rest(k, q, i)) = Len(k) + (Len(q) - i)
            /\ \A m \in 1 .. Len(k) + (Len(q) - i) :
                  Rest(k, q, i)[m] = IF m <= Len(k) THEN k[m] ELSE q[(m - Len(k)) + i]
        BY <1>1, <1>2, RestQueue
      <4> QED BY <1>8, <4>2, <4>3
    <3>2. Line(y.db, z.queue) /\ Referenced(y.db)
      BY <1>2, <1>8 DEF Good
    <3>3. y.db.run[u].status = "queued"
      BY <3>1, <3>2 DEF Line
    <3> QED BY <2>1, <3>2, <3>3, Zenon DEF Referenced, Accepted
  <2>5. IsFiniteSet(Active(x))
    BY <1>18, Zenon DEF Slots
  <2>6. Blocked(x, y.db.run[k[j]].session)
    BY <1>19, <2>2, <2>4, <2>5, BlockedKept, Zenon
  <2> QED BY <2>1, <2>3, <2>6, Zenon
<1> QED BY <1>7, <1>15, <1>17, <1>18, <1>20, Zenon DEF Pumped, v

\* One turn of pump()'s loop.
LEMMA PumpTurn ==
    ASSUME NEW st, NEW y, NEW q \in Seq(Runs), NEW i \in 0 .. Len(q) - 1, Good(st),
           Pumped(st, y, q, i)
    PROVE  Pumped(st, PumpOne(y, q[i + 1]), q, i + 1)
<1> DEFINE r == q[i + 1]
           s == y.db.run[r].session
<1>1. y \in States /\ Good(Ahead(y, q, i)) /\ Pumps(st, y)
  BY DEF Pumped
<1>2. r \in Runs /\ y.db.run[r].status = "queued" /\ s \in Sessions
  BY <1>1, TurnEntry
<1>3. ~ IsTerminal(y.db, r)
  BY <1>2 DEF IsTerminal, Terminal
<1>4. CASE Load(y) >= MaxConcurrency
  <2>1. PumpOne(y, r) = Keep(y, r)
    BY <1>4 DEF PumpOne
  <2>2. Blocked(y, s)
    BY <1>4 DEF Blocked
  <2> QED BY <2>1, <2>2, KeepPumps
<1>5. CASE ~ (Load(y) >= MaxConcurrency) /\ y.db.session[s].status # "open"
  <2> DEFINE x == Disarm([y EXCEPT !.db = FinishRun(y.db, r, "cancelled", "confirmed")], r)
  <2>1. PumpOne(y, r) = x
    BY <1>3, <1>5 DEF PumpOne
  <2>2. Pumped(st, x, q, i + 1)
    BY CancelPumps
  <2> QED BY <2>1, <2>2
<1>6. CASE /\ ~ (Load(y) >= MaxConcurrency) /\ y.db.session[s].status = "open"
           /\ (y.act[s] # Idle \/ EngineLoad(y, s) >= MaxPerEngine)
  <2>1. PumpOne(y, r) = Keep(y, r)
    BY <1>3, <1>6 DEF PumpOne
  <2>2. Blocked(y, s)
    BY <1>6 DEF Blocked
  <2> QED BY <2>1, <2>2, KeepPumps
<1>7. CASE y.db.session[s].status = "open" /\ ~ Blocked(y, s)
  <2>1. PumpOne(y, r) = Launch(y, s, r)
    BY <1>3, <1>7 DEF PumpOne, Blocked
  <2>2. Pumped(st, Launch(y, s, r), q, i + 1)
    BY <1>2, <1>7, LaunchPumps
  <2> QED BY <2>1, <2>2
<1> QED BY <1>4, <1>5, <1>6, <1>7 DEF Blocked

\* The turns of pump()'s loop.
Pumping(f, st, q, n) ==
    f = [i \in 0 .. n |-> IF i = 0 THEN [st EXCEPT !.queue = <<>>] ELSE PumpOne(f[i - 1], q[i])]

\* The turns of pump() go one entry further.
LEMMA PumpingExtends ==
    ASSUME NEW st, NEW q, NEW n \in Nat, NEW f, Pumping(f, st, q, n)
    PROVE  \E g : Pumping(g, st, q, n + 1)
<1> DEFINE z == [st EXCEPT !.queue = <<>>]
           g == [i \in 0 .. n + 1 |-> IF i = n + 1 THEN PumpOne(f[n], q[n + 1])
                                      ELSE f[i]]
           h == [i \in 0 .. n + 1 |-> IF i = 0 THEN z ELSE PumpOne(g[i - 1], q[i])]
<1>0. f = [i \in 0 .. n |-> IF i = 0 THEN z ELSE PumpOne(f[i - 1], q[i])]
  BY DEF Pumping
<1> HIDE DEF z
<1>1. ASSUME NEW i \in 0 .. n + 1 PROVE g[i] = h[i]
  <2>1. CASE i = n + 1
    <3>1. g[i - 1] = f[n] /\ i # 0
      BY <2>1
    <3> QED BY <2>1, <3>1
  <2>2. CASE i \in 0 .. n
    <3>1. f[i] = IF i = 0 THEN z ELSE PumpOne(f[i - 1], q[i])
      BY <1>0, <2>2
    <3>2. i # 0 => g[i - 1] = f[i - 1]
      BY <2>2
    <3> QED BY <2>2, <3>1, <3>2
  <2> QED BY <2>1, <2>2
<1>2. g = h
  BY <1>1
<1> HIDE DEF g
<1> QED BY <1>2 DEF Pumping, z

\* PumpAll is the last of its turns.
LEMMA PumpAllTurns ==
    ASSUME NEW st, NEW q, Len(q) \in Nat
    PROVE  \E f : Pumping(f, st, q, Len(q)) /\ PumpAll(st, q) = f[Len(q)]
<1> DEFINE bad == {n \in Nat : ~ \E f : Pumping(f, st, q, n)}
           k == Min(bad)
<1>1. bad = {}
  <2> SUFFICES ASSUME bad # {} PROVE FALSE
    OBVIOUS
  <2>1. k \in bad /\ \A n \in bad : k <= n
    BY LeastMember
  <2>2. k # 0
    <3> DEFINE z == [st EXCEPT !.queue = <<>>]
    <3>1. Pumping([i \in 0 .. 0 |-> z], st, q, 0)
      BY DEF Pumping
    <3> QED BY <2>1, <3>1
  <2> HIDE DEF k
  <2>0. bad \in SUBSET Nat
    OBVIOUS
  <2> HIDE DEF bad
  <2>3. k - 1 \in Nat /\ k - 1 \notin bad
    BY <2>0, <2>1, <2>2
  <2>4. \E f : Pumping(f, st, q, k - 1)
    BY <2>3 DEF bad
  <2>5. \E g : Pumping(g, st, q, (k - 1) + 1)
    BY <2>3, <2>4, PumpingExtends
  <2>6. (k - 1) + 1 = k
    BY <2>0, <2>1
  <2> QED BY <2>1, <2>5, <2>6 DEF bad
<1>2. \E f : Pumping(f, st, q, Len(q))
  BY <1>1
<1> QED BY <1>2 DEF Pumping, PumpAll

\* Before the first turn.
LEMMA PumpStarts ==
    ASSUME NEW st \in States, Good(st), Slots(st)
    PROVE  Pumped(st, [st EXCEPT !.queue = <<>>], st.queue, 0)
<1> DEFINE y == [st EXCEPT !.queue = <<>>]
           q == st.queue
<1>1. q \in Seq(Runs) /\ <<>> \in Seq(Runs) /\ Len(<<>>) = 0
  BY DEF States
<1>2. /\ y \in States /\ y.db = st.db /\ y.armed = st.armed /\ y.act = st.act
      /\ y.worker = st.worker /\ y.queue = <<>>
  BY <1>1 DEF States
<1>3. Rest(<<>>, q, 0) = q
  BY <1>1, RestEnds
<1> HIDE DEF y
<1>4. Ahead(y, q, 0) = [y EXCEPT !.queue = q]
  BY <1>2, <1>3 DEF Ahead
<1>5. [y EXCEPT !.queue = q] = st
  BY <1>2 DEF y, States
<1>6. Slots(y)
  BY <1>2 DEF Slots, Active, Load, EngineLoad
<1>7. Onward(st.db, y.db)
  BY <1>2 DEF Onward
<1>8. Pumps(st, y)
  BY <1>2, <1>7 DEF Pumps
<1>9. \A j \in 1 .. Len(y.queue) : Blocked(y, y.db.run[y.queue[j]].session)
  BY <1>1, <1>2
<1> QED BY <1>2, <1>4, <1>5, <1>6, <1>8, <1>9 DEF Pumped, y

\* pump() over the whole queue keeps the state sound and within the limits.
LEMMA PumpAllPumps ==
    ASSUME NEW st \in States, Good(st), Slots(st)
    PROVE  LET x == PumpAll(st, st.queue) IN
           x \in States /\ Good(x) /\ Pumps(st, x) /\ Slots(x)
<1> DEFINE q == st.queue
           z == [st EXCEPT !.queue = <<>>]
<1>1. q \in Seq(Runs) /\ Len(q) \in Nat
  BY DEF States
<1>2. PICK f : Pumping(f, st, q, Len(q)) /\ PumpAll(st, q) = f[Len(q)]
  BY <1>1, PumpAllTurns
<1>3. \A i \in 0 .. Len(q) : f[i] = IF i = 0 THEN z ELSE PumpOne(f[i - 1], q[i])
  BY <1>2 DEF Pumping
<1>4. Pumped(st, z, q, 0)
  BY PumpStarts
<1> HIDE DEF q, z
<1> DEFINE bad == {n \in 0 .. Len(q) : ~ Pumped(st, f[n], q, n)}
           k == Min(bad)
<1>5. bad = {}
  <2> SUFFICES ASSUME bad # {} PROVE FALSE
    OBVIOUS
  <2>0. bad \in SUBSET Nat
    BY <1>1
  <2>1. k \in bad /\ \A n \in bad : k <= n
    BY <2>0, LeastMember
  <2>2. k # 0
    BY <1>1, <1>3, <1>4, <2>1
  <2> HIDE DEF k
  <2>3. k \in 0 .. Len(q) /\ ~ Pumped(st, f[k], q, k)
    BY <2>1
  <2> HIDE DEF bad
  <2>4. k - 1 \in 0 .. Len(q) - 1 /\ k - 1 \in 0 .. Len(q) /\ k - 1 \notin bad
        /\ (k - 1) + 1 = k
    BY <1>1, <2>1, <2>2, <2>3
  <2>5. Pumped(st, f[k - 1], q, k - 1)
    BY <2>4 DEF bad
  <2>6. Pumped(st, PumpOne(f[k - 1], q[(k - 1) + 1]), q, (k - 1) + 1)
    BY <1>1, <2>4, <2>5, PumpTurn
  <2>7. f[k] = PumpOne(f[k - 1], q[k])
    BY <1>3, <2>2, <2>3
  <2> QED BY <2>3, <2>4, <2>6, <2>7
<1> DEFINE x == f[Len(q)]
<1>6. Pumped(st, x, q, Len(q))
  BY <1>1, <1>5
<1> HIDE DEF x
<1>7. x \in States /\ Good(Ahead(x, q, Len(q))) /\ Pumps(st, x) /\ Slots(x)
  BY <1>6 DEF Pumped
<1>8. Rest(x.queue, q, Len(q)) = x.queue
  BY <1>1, <1>7, RestEnds DEF States
<1>9. Ahead(x, q, Len(q)) = x
  BY <1>7, <1>8 DEF Ahead, States
<1> QED BY <1>2, <1>7, <1>9 DEF x, q

\* What the turns of pump() leave fit.
LEMMA PumpsFit ==
    ASSUME NEW st, NEW x, NEW c, NEW ss \in SUBSET Sessions,
           NEW ps \in SUBSET [run : Runs, artifact : Artifacts],
           Good(st), Pumps(st, x), Slots(x), Fit(st, c, ss, ps)
    PROVE  Fit(x, c, ss, ps)
<1>1. \A t \in Sessions : Halting(x, t)
  BY DEF Fit, Halting, Pumps
<1>2. ASSUME NEW t \in Sessions PROVE CloserFit(x, c[t], t)
  <2>1. CloserFit(st, c[t], t)
    BY DEF Fit, ClosersFit
  <2>2. x.worker = st.worker /\ x.db.session[t].status = st.db.session[t].status
    BY DEF Pumps
  <2>3. st.db.session[t].status # "open" => x.act[t] = st.act[t]
    BY DEF Pumps
  <2> QED BY <2>1, <2>2, <2>3 DEF CloserFit
<1>3. SuspendedFit(x, ss)
  <2> SUFFICES ASSUME NEW t \in ss PROVE x.act[t] = Idle /\ Unsettled(x.db, t) = {}
    BY DEF SuspendedFit
  <2>1. st.act[t] = Idle /\ Unsettled(st.db, t) = {}
    BY DEF Fit, SuspendedFit
  <2>2. x.act[t] = Idle
    BY <2>1 DEF Pumps
  <2>3. Unsettled(x.db, t) \subseteq Unsettled(st.db, t)
    BY UnsettledKept DEF Pumps
  <2> QED BY <2>1, <2>2, <2>3
<1>4. PublishingFit(x, ps)
  <2>1. Onward(st.db, x.db)
    BY DEF Pumps
  <2> QED BY <2>1 DEF Fit, PublishingFit, Onward
<1> QED BY <1>1, <1>2, <1>3, <1>4 DEF Fit, ClosersFit

\* A run that is stopped is not in the queue, so no turn of pump() concerns it.
LEMMA PumpsMoves ==
    ASSUME NEW st, NEW x, Good(st), Pumps(st, x)
    PROVE  Moves(st, x)
<1>1. ASSUME NEW t \in Sessions, st.act[t].stop # "none"
      PROVE  /\ x.act[t] = st.act[t]
             /\ ~ (~ IsTerminal(st.db, st.act[t].run) /\ IsTerminal(x.db, st.act[t].run))
  <2>1. st.act[t] # Idle
    BY <1>1 DEF Idle
  <2>2. Executing(st.db, st.act[t], t)
    BY DEF Good, Aright
  <2>3. /\ st.act[t].run \in Runs
        /\ st.db.run[st.act[t].run].status # "queued"
    BY <2>1, <2>2 DEF Executing, IsTerminal, Busy, Working, Terminal
  <2>4. x.db.run[st.act[t].run].status = st.db.run[st.act[t].run].status
    BY <2>3 DEF Pumps
  <2>5. x.act[t] = st.act[t]
    BY <2>1 DEF Pumps
  <2> QED BY <2>4, <2>5 DEF IsTerminal
<1>2. x.db.artifact = st.db.artifact
  BY DEF Pumps
<1> QED BY <1>1, <1>2 DEF Moves

==============================================================================

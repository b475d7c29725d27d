-------------------------- MODULE RuntimeStepProofs --------------------------
(***************************************************************************)
(* What the operators of module Runtime do to the state they work on:      *)
(* stop(), the stages and the end of execute(), a failing or closing       *)
(* Worker, and the operators of the Store that they call.                  *)
(*                                                                         *)
(* Good(st) is what the database, the queue, the timers, every execute()   *)
(* and every Worker keep to among themselves.  A step of a Session is      *)
(* sound, Steps(st, x, s), when it keeps that, and is told apart by what   *)
(* it may do to the Session and must not do to the others: Turn and        *)
(* Steady.  The lemmas show that each operator is a sound step;            *)
(* RuntimeProofs shows that each action is made of them.                   *)
(***************************************************************************)
EXTENDS Runtime, FiniteSetTheorems, WellFoundedInduction, TLAPS

----------------------------------------------------------------------------
(* What each Session, the queue and the database keep to *)

\* Statuses of a run that execute() is working on, and states of a Worker that is gone.
Busy == Working \ {"queued"}

Gone == {"none", "unconfirmed", "failed"}

InFlight(a) == a.pc \notin {"idle", "final"}

\* What a step works on: the values of Here and of every state an operator builds from it.
States == [db : Database, queue : Seq(Runs), armed : SUBSET Runs,
           act : [Sessions -> ActiveRecord], worker : [Sessions -> WorkerStates]]

\* A Session with an execute() owns the run that execute() works on.
Executing(d, a, s) ==
    \/ a = Idle
    \/ /\ a.pc # "idle" /\ a.run \in Runs /\ d.run[a.run].session = s
       /\ IF a.pc = "final" THEN IsTerminal(d, a.run) ELSE d.run[a.run].status \in Busy

\* What each stage of execute() and of stop() knows of the result and of the Worker.
Staged(a, w, s) ==
    /\ w \notin {"orphan", "recovered"}
    /\ (a.stop = "none") <=> (a.stopping = "none")
    /\ a.stopping = "grace" => a.handle
    /\ a.stopping = "closing" => w # "live"
    /\ a.stopping \in Cleanup => w \in Gone /\ a.stopping = HostStatus(w)
    /\ a.pc = "begin" => a.stop = "none"
    /\ a.pc \in {"inspect", "begin"} => a.result = "pending" /\ ~ a.failed
    /\ a.pc = "result" => a.handle
    /\ a.pc \in {"settle", "reclaim", "collect", "discard"} => a.result \in Results
    /\ a.pc \in {"reclaim", "catchclose"} => w # "live"
    /\ a.pc \in {"stopwait", "catch"} => a.stop # "none"
    /\ a.pc \in {"collect", "discard"} /\ a.stop = "none" /\ (DriverOf[s] = "cli" \/ a.failed)
          => w \in Gone /\ a.cleanup = HostStatus(w)

\* A run that lost its Worker has recorded what the host reported of it.
Truthful(d, a, w, s) ==
    /\ a.pc = "final"
    /\ a.stop # "none" \/ a.failed \/ (DriverOf[s] = "cli" /\ a.result \in Results)
    => w \in Gone /\ d.run[a.run].cleanup = HostStatus(w)

\* A Session that does not exist or is closed is quiet.
Shut(d, a, w, s) ==
    d.session[s].status \in {"absent", "closed"} => a = Idle /\ w # "live"

\* Only the active run has permissions that can still be answered or applied.
Asked(d, a, s) ==
    \A p \in Perms :
        d.perm[p].status \in {"pending", "decided"} /\ d.run[d.perm[p].run].session = s =>
            a.run = d.perm[p].run /\ InFlight(a) /\ a.handle

\* Only the active run is worked on.
Mine(d, a, s) ==
    \A r \in Runs : d.run[r].session = s /\ d.run[r].status \in Busy => a.run = r

\* Every run that has not ended has a deadline timer, or is being stopped.
Timed(d, a, armd, s) ==
    \A r \in Runs : d.run[r].session = s /\ ~ IsTerminal(d, r)
                       => r \in armd \/ (a.run = r /\ a.stop # "none")

\* The runs of a Session start in the order they were accepted.
Ordered(d, s) ==
    \A r, t \in Runs :
        /\ d.run[r].session = s /\ d.run[t].session = s
        /\ d.run[r].started /\ d.run[t].generation < d.run[r].generation
        => IsTerminal(d, t)

Aright(st, s) ==
    LET d == st.db
        a == st.act[s]
        w == st.worker[s] IN
    /\ Executing(d, a, s) /\ Staged(a, w, s) /\ Truthful(d, a, w, s) /\ Shut(d, a, w, s)
    /\ Asked(d, a, s) /\ Mine(d, a, s) /\ Timed(d, a, st.armed, s) /\ Ordered(d, s)

\* The queue holds every queued run once; those of a Session in the order of acceptance.
Line(d, q) ==
    /\ \A i \in 1 .. Len(q) : d.run[q[i]].status = "queued"
    /\ \A i, j \in 1 .. Len(q) : i # j => q[i] # q[j]
    /\ \A i, j \in 1 .. Len(q) : i < j /\ d.run[q[i]].session = d.run[q[j]].session =>
          d.run[q[i]].generation < d.run[q[j]].generation
    /\ \A r \in Runs : d.run[r].status = "queued" => \E i \in 1 .. Len(q) : q[i] = r

\* References of the database lead somewhere, and it is finite.
Referenced(d) ==
    /\ d \in Database
    /\ \A r \in Runs : (Accepted(d, r)) <=> (d.run[r].session \in Sessions)
    /\ \A r \in Runs : Accepted(d, r) => d.session[d.run[r].session].status # "absent"
    /\ \A r \in Runs : d.run[r].status = "queued" => ~ d.run[r].started
    /\ \A p \in Perms : d.perm[p].status # "absent" =>
          d.perm[p].run \in Runs /\ Accepted(d, d.perm[p].run)
    /\ IsFiniteSet({r \in Runs : Accepted(d, r)})
    /\ \E m \in Nat : \A r \in Runs : d.run[r].generation <= m

Good(st) ==
    /\ st \in States
    /\ Referenced(st.db)
    /\ \A r \in st.armed : Accepted(st.db, r)
    /\ Line(st.db, st.queue)
    /\ \A s \in Sessions : Aright(st, s)

----------------------------------------------------------------------------
(* How a step relates the state before it to the state after it *)

\* The database moves on: no run or Session returns to an earlier part of its life.
Onward(d, e) ==
    /\ \A r \in Runs :
          /\ e.run[r].session = d.run[r].session
          /\ d.run[r].status \notin {"absent", "queued"} =>
                e.run[r].status \notin {"absent", "queued"}
          /\ IsTerminal(d, r) => e.run[r].status = d.run[r].status
    /\ \A s \in Sessions :
          /\ d.session[s].status # "absent" => e.session[s].status # "absent"
          /\ d.session[s].status \notin {"absent", "open"} =>
                e.session[s].status \notin {"absent", "open"}

\* A step of Session s leaves the other Sessions alone.
Turn(st, x, s) ==
    /\ Onward(st.db, x.db)
    /\ \A t \in Sessions \ {s} : x.act[t] = st.act[t] /\ x.worker[t] = st.worker[t]
    /\ \A r \in Runs : st.db.run[r].session # s => x.db.run[r].status = st.db.run[r].status
    /\ \/ x.act[s] = Idle
       \/ /\ st.act[s] # Idle /\ x.act[s].run = st.act[s].run
          /\ st.act[s].stop # "none" => x.act[s].stop = st.act[s].stop
          /\ st.act[s].pc = "final" => x.act[s].pc = "final"
    /\ \A r \in Runs : /\ r = st.act[s].run /\ st.act[s].stop # "none"
                       /\ ~ IsTerminal(st.db, r) /\ IsTerminal(x.db, r)
                       => x.db.run[r].status = st.act[s].stop
    /\ \A a \in Artifacts : x.db.artifact[a] # st.db.artifact[a] =>
          LET r == x.db.artifact[a] IN
          r \in Runs /\ r = st.act[s].run /\ ~ IsTerminal(st.db, r) /\ st.act[s].stop = "none"

\* No Session changes its status, unless s does once nothing executes in it, and the
\* Worker of s comes to life only for a run that is not being stopped.
Steady(st, x, s) ==
    /\ \A t \in Sessions : \/ x.db.session[t].status = st.db.session[t].status
                           \/ t = s /\ x.act[s] = Idle
    /\ x.worker[s] = "live" => \/ st.worker[s] = "live"
                               \/ InFlight(st.act[s]) /\ st.act[s].stop = "none"

\* A sound step of Session s.
Steps(st, x, s) == Good(x) /\ Turn(st, x, s) /\ Steady(st, x, s)

\* What other Sessions can tell of a step of Session s: nothing.
Beside(st, x, s) ==
    /\ \A t \in Sessions \ {s} :
          /\ x.act[t] = st.act[t] /\ x.worker[t] = st.worker[t]
          /\ x.db.session[t].status = st.db.session[t].status
    /\ \A r \in Runs : st.db.run[r].session \in Sessions =>
          x.db.run[r].session = st.db.run[r].session
    /\ \A r \in Runs : x.db.run[r].session # s =>
          /\ x.db.run[r].session = st.db.run[r].session
          /\ x.db.run[r].generation = st.db.run[r].generation
          /\ x.db.run[r].status = st.db.run[r].status
          /\ x.db.run[r].started = st.db.run[r].started
          /\ x.db.run[r].cleanup = st.db.run[r].cleanup
          /\ r \in st.armed => r \in x.armed
    /\ \A p \in Perms : x.db.perm[p].status \in {"pending", "decided"} =>
          \/ x.db.run[x.db.perm[p].run].session = s
          \/ x.db.perm[p].status = st.db.perm[p].status /\ x.db.perm[p].run = st.db.perm[p].run

\* What the database keeps when no run is accepted.
Retained(d, e) ==
    /\ e \in Database
    /\ \A s \in Sessions : d.session[s].status # "absent" => e.session[s].status # "absent"
    /\ \A r \in Runs :
          /\ e.run[r].session = d.run[r].session
          /\ e.run[r].generation = d.run[r].generation
          /\ (Accepted(e, r)) <=> (Accepted(d, r))
          /\ e.run[r].status = "queued" => ~ e.run[r].started
    /\ \A p \in Perms : e.perm[p].status # "absent" =>
          e.perm[p].run \in Runs /\ Accepted(d, e.perm[p].run)

\* No run joins those that wait, or leaves them.
SameQueued(d, e) ==
    \A r \in Runs : /\ e.run[r].session = d.run[r].session
                    /\ e.run[r].generation = d.run[r].generation
                    /\ (e.run[r].status = "queued") <=> (d.run[r].status = "queued")

\* The columns that the Runtime reads are those of d; only events were written.
Noted(d, e) ==
    /\ e \in Database
    /\ e.perm = d.perm /\ e.artifact = d.artifact
    /\ \A s \in Sessions : e.session[s].status = d.session[s].status
    /\ \A r \in Runs :
          /\ e.run[r].session = d.run[r].session
          /\ e.run[r].generation = d.run[r].generation
          /\ e.run[r].status = d.run[r].status
          /\ e.run[r].started = d.run[r].started
          /\ e.run[r].cleanup = d.run[r].cleanup

\* The record of run r, which is being worked on, or its permissions or artifacts changed.
Busywork(d, e, r) ==
    /\ e \in Database
    /\ \A s \in Sessions : e.session[s].status = d.session[s].status
    /\ \A t \in Runs :
          /\ e.run[t].session = d.run[t].session
          /\ e.run[t].generation = d.run[t].generation
          /\ e.run[t].started = d.run[t].started
          /\ e.run[t].cleanup = d.run[t].cleanup
          /\ t # r => e.run[t].status = d.run[t].status
    /\ e.run[r].status \in Busy
    /\ \A p \in Perms :
          \/ e.perm[p].status = d.perm[p].status /\ e.perm[p].run = d.perm[p].run
          \/ e.perm[p].run = r
    /\ \A a \in Artifacts : e.artifact[a] = d.artifact[a] \/ e.artifact[a] = r

\* The same, without an artifact, and without a permission.
AskingWork(d, e, r) == Busywork(d, e, r) /\ e.artifact = d.artifact

FilingWork(d, e, r) == Busywork(d, e, r) /\ e.perm = d.perm

QuietWork(d, e, r) == Busywork(d, e, r) /\ e.perm = d.perm /\ e.artifact = d.artifact

\* The permissions in ps expired.
Lapsed(d, e, ps) ==
    /\ e \in Database
    /\ e.session = d.session /\ e.artifact = d.artifact
    /\ \A t \in Runs :
          /\ e.run[t].session = d.run[t].session
          /\ e.run[t].generation = d.run[t].generation
          /\ e.run[t].status = d.run[t].status
          /\ e.run[t].started = d.run[t].started
          /\ e.run[t].cleanup = d.run[t].cleanup
    /\ \A p \in Perms :
          /\ e.perm[p].run = d.perm[p].run
          /\ e.perm[p].status = IF p \in ps THEN "expired" ELSE d.perm[p].status

\* Run r ended, and its open permissions expired.
Ended(d, e, r, status, cleanup) ==
    /\ e \in Database
    /\ \A s \in Sessions : e.session[s].status = d.session[s].status
    /\ e.artifact = d.artifact
    /\ \A t \in Runs :
          /\ e.run[t].session = d.run[t].session
          /\ e.run[t].generation = d.run[t].generation
          /\ e.run[t].started = d.run[t].started
          /\ t # r => /\ e.run[t].status = d.run[t].status
                      /\ e.run[t].cleanup = d.run[t].cleanup
    /\ e.run[r].status = status /\ e.run[r].cleanup = cleanup
    /\ \A p \in Perms :
          /\ e.perm[p].run = d.perm[p].run
          /\ e.perm[p].status = IF p \in OpenPerms(d, r) THEN "expired" ELSE d.perm[p].status

\* One permission is saved.
SavedPermission(d, c, p, v) == c = [d EXCEPT !.perm[p] = v]

\* Only the record of Session s and its Worker change, at the same run.
Adjusts(st, x, s) ==
    LET a == st.act[s]
        b == x.act[s] IN
    /\ x \in States
    /\ x.db = st.db /\ x.queue = st.queue /\ x.armed = st.armed
    /\ \A t \in Sessions \ {s} : x.act[t] = st.act[t] /\ x.worker[t] = st.worker[t]
    /\ \/ b = a
       \/ /\ a # Idle /\ b.pc # "idle" /\ b.run = a.run
          /\ (b.pc = "final") <=> (a.pc = "final")
          /\ a.stop # "none" => b.stop = a.stop
          /\ a.handle => b.handle
    /\ Staged(b, x.worker[s], s)
    /\ Truthful(st.db, b, x.worker[s], s)
    /\ Shut(st.db, b, x.worker[s], s)
    /\ x.worker[s] = "live" => st.worker[s] = "live" \/ (InFlight(a) /\ a.stop = "none")

\* Only the database changes, with the run that Session s works on.
Works(st, x, s) ==
    /\ x \in States
    /\ x.queue = st.queue /\ x.armed = st.armed /\ x.act = st.act /\ x.worker = st.worker
    /\ InFlight(st.act[s])
    /\ Busywork(st.db, x.db, st.act[s].run)
    /\ st.act[s].handle \/ x.db.perm = st.db.perm
    /\ st.act[s].stop = "none" \/ x.db.artifact = st.db.artifact

\* The run of Session s ends, and execute() enters its finally block.
Lands(st, x, s, status, cleanup) ==
    LET a == st.act[s]
        w == st.worker[s] IN
    /\ x \in States
    /\ x.queue = st.queue /\ x.armed = st.armed /\ x.worker = st.worker
    /\ x.act = [st.act EXCEPT ![s] = [a EXCEPT !.pc = "final"]]
    /\ InFlight(a)
    /\ status \in Terminal /\ cleanup \in Cleanup
    /\ Ended(st.db, x.db, a.run, status, cleanup)
    /\ a.stop # "none" => status = a.stop
    /\ a.stop # "none" \/ a.failed \/ (DriverOf[s] = "cli" /\ a.result \in Results)
       => w \in Gone /\ cleanup = HostStatus(w)

\* y is q without its element j.
Without(q, y, j) ==
    /\ y \in Seq(Runs) /\ Len(y) = Len(q) - 1
    /\ \A i \in 1 .. Len(y) : y[i] = IF i < j THEN q[i] ELSE q[i + 1]

\* Only run r may have changed its status, and it does not wait.
NoLongerWaits(d, e, r) ==
    /\ e.run[r].status # "queued"
    /\ \A t \in Runs : /\ e.run[t].session = d.run[t].session
                       /\ e.run[t].generation = d.run[t].generation
                       /\ t # r => e.run[t].status = d.run[t].status

\* A run that waits in the queue ends and leaves it.
Drops(st, x, r, status, cleanup) ==
    /\ x \in States
    /\ x.act = st.act /\ x.worker = st.worker /\ x.armed = st.armed \ {r}
    /\ st.db.run[r].status = "queued"
    /\ status \in Terminal /\ cleanup \in Cleanup
    /\ Ended(st.db, x.db, r, status, cleanup)
    /\ \E j \in 1 .. Len(st.queue) : st.queue[j] = r /\ Without(st.queue, x.queue, j)

\* The deadline timer of a run that needs none is cleared.
Disarms(st, x, r) ==
    /\ x \in States
    /\ x.db = st.db /\ x.queue = st.queue /\ x.act = st.act /\ x.worker = st.worker
    /\ x.armed = st.armed \ {r}
    /\ \/ IsTerminal(st.db, r)
       \/ LET a == st.act[st.db.run[r].session] IN a.run = r /\ a.stop # "none"

\* Session s gets the status v.
SessionSet(d, e, s, v) ==
    /\ e \in Database
    /\ e.run = d.run /\ e.perm = d.perm /\ e.artifact = d.artifact
    /\ \A t \in Sessions \ {s} : e.session[t] = d.session[t]
    /\ e.session[s].status = v

\* Session s starts to close, or closes once nothing works in it.
Closes(st, x, s, v) ==
    /\ x \in States
    /\ x.queue = st.queue /\ x.armed = st.armed /\ x.act = st.act /\ x.worker = st.worker
    /\ st.db.session[s].status # "absent"
    /\ SessionSet(st.db, x.db, s, v)
    /\ v = "closing" \/ (v = "closed" /\ st.act[s] = Idle /\ st.worker[s] # "live")
    /\ st.db.session[s].status = "closed" => v = "closed"

\* execute() returns, and the Session may be lost with it.
Leaves(st, x, s, v) ==
    /\ x \in States
    /\ x.queue = st.queue /\ x.worker = st.worker
    /\ st.act[s].pc = "final"
    /\ x.armed = st.armed \ {st.act[s].run}
    /\ x.act = [st.act EXCEPT ![s] = Idle]
    /\ SessionSet(st.db, x.db, s, v)
    /\ v = st.db.session[s].status \/ (v = "closed" /\ st.worker[s] # "live")

\* The Worker of Session s is told to close, if it lives.
Shuttered(w) == IF w = "live" THEN "closing" ELSE w

\* The record of Session s becomes b and its Worker w; nothing else changes.
Revised(st, x, s, b, w) ==
    /\ x \in States
    /\ x.db = st.db /\ x.queue = st.queue /\ x.armed = st.armed
    /\ \A t \in Sessions \ {s} : x.act[t] = st.act[t] /\ x.worker[t] = st.worker[t]
    /\ x.act[s] = b /\ x.worker[s] = w

\* The database becomes e; nothing else changes.
Rewritten(st, x, e) ==
    /\ x \in States
    /\ x.db = e /\ x.queue = st.queue /\ x.armed = st.armed
    /\ x.act = st.act /\ x.worker = st.worker

\* Record b continues record a: the same run, with the stop and the handle it had.
Carries(a, b) ==
    /\ b.run = a.run
    /\ a.stop # "none" => b.stop = a.stop
    /\ a.handle => b.handle

\* A run is stopped: it has ended, or its execute() knows.
Stopped(st, r) ==
    \/ IsTerminal(st.db, r)
    \/ LET a == st.act[st.db.run[r].session] IN a.run = r /\ a.stop # "none"

\* Writing events, or erasing them.
Same(x, y) ==
    /\ y \in States
    /\ y.queue = x.queue /\ y.armed = x.armed /\ y.act = x.act /\ y.worker = x.worker
    /\ Noted(x.db, y.db)

----------------------------------------------------------------------------
(* What calls under way keep to, and steps of several Sessions *)

\* A Session that is not open has stopped its run.
Halting(st, s) ==
    st.db.session[s].status # "open" =>
        st.act[s] = Idle \/ st.act[s].pc = "final" \/ st.act[s].stop # "none"

Active(st) == {s \in Sessions : st.act[s] # Idle}

Slots(st) ==
    /\ IsFiniteSet(Active(st))
    /\ Load(st) <= MaxConcurrency
    /\ \A s \in Sessions : EngineLoad(st, s) <= MaxPerEngine

\* closeSession() keeps its Session shut, and its Worker once it was told to go.
CloserFit(st, c, s) ==
    c.phase # "none" =>
        /\ st.db.session[s].status \notin {"absent", "open"}
        /\ st.act[s] = Idle \/ st.act[s].run = c.run
        /\ c.phase \in {"host", "settle"} => st.worker[s] # "live"

ClosersFit(st, c) == \A s \in Sessions : CloserFit(st, c[s], s)

SuspendedFit(st, ss) == \A s \in ss : st.act[s] = Idle /\ Unsettled(st.db, s) = {}

PublishingFit(st, ps) == \A x \in ps : st.db.run[x.run].status \notin {"absent", "queued"}

\* What holds of the calls under way around the state st.
Fit(st, c, ss, ps) ==
    /\ \A s \in Sessions : Halting(st, s)
    /\ Slots(st) /\ ClosersFit(st, c) /\ SuspendedFit(st, ss) /\ PublishingFit(st, ps)

\* No stop reason is replaced or overruled, and nothing is published past one.
Moves(st, x) ==
    /\ \A s \in Sessions : st.act[s].stop # "none" =>
          /\ x.act[s].run = st.act[s].run => x.act[s].stop = st.act[s].stop
          /\ ~ IsTerminal(st.db, st.act[s].run) /\ IsTerminal(x.db, st.act[s].run) =>
                x.db.run[st.act[s].run].status = st.act[s].stop
    /\ \A f \in Artifacts : st.db.artifact[f] # x.db.artifact[f] =>
          LET r == x.db.artifact[f] IN
          /\ r \in Runs /\ st.db.run[r].session \in Sessions
          /\ r = st.act[st.db.run[r].session].run
          /\ ~ IsTerminal(st.db, r) /\ st.act[st.db.run[r].session].stop = "none"

\* Steps of any Sessions: an execute() works on, or returns.
Continues(st, x) ==
    /\ Onward(st.db, x.db)
    /\ \A t \in Sessions :
          \/ x.act[t] = Idle
          \/ /\ st.act[t] # Idle /\ x.act[t].run = st.act[t].run
             /\ st.act[t].stop # "none" => x.act[t].stop = st.act[t].stop
             /\ st.act[t].pc = "final" => x.act[t].pc = "final"
    /\ Moves(st, x)

\* The same as Steady, for all Sessions.
Steadily(st, x) ==
    \A t \in Sessions :
        /\ x.db.session[t].status = st.db.session[t].status \/ x.act[t] = Idle
        /\ x.worker[t] = "live" => \/ st.worker[t] = "live"
                                   \/ InFlight(st.act[t]) /\ st.act[t].stop = "none"

\* Sound steps of any Sessions.
Advances(st, x) == Good(x) /\ Continues(st, x) /\ Steadily(st, x)

----------------------------------------------------------------------------
(* Sessions beside the one that steps *)

\* A step of another Session leaves a Session aright.
LEMMA BesideAright ==
    ASSUME NEW st, NEW x, NEW s \in Sessions, NEW t \in Sessions \ {s},
           Beside(st, x, s), Aright(st, t), Referenced(x.db)
    PROVE  Aright(x, t)
<1> DEFINE d == st.db
           e == x.db
           a == st.act[t]
           w == st.worker[t]
<1>1. x.act[t] = a /\ x.worker[t] = w /\ e.session[t].status = d.session[t].status
  BY DEF Beside
<1>2. ASSUME NEW r \in Runs, e.run[r].session = t
      PROVE  /\ d.run[r].session = t
             /\ e.run[r].generation = d.run[r].generation
             /\ e.run[r].status = d.run[r].status
             /\ e.run[r].started = d.run[r].started
             /\ e.run[r].cleanup = d.run[r].cleanup
             /\ r \in st.armed => r \in x.armed
  BY <1>2 DEF Beside
<1>3. \A r \in Runs : d.run[r].session = t => e.run[r].session = t
  BY DEF Beside
<1>4. /\ Executing(d, a, t) /\ Staged(a, w, t) /\ Truthful(d, a, w, t) /\ Shut(d, a, w, t)
      /\ Asked(d, a, t) /\ Mine(d, a, t) /\ Timed(d, a, st.armed, t) /\ Ordered(d, t)
  BY DEF Aright
<1> HIDE DEF d, e, a, w
<1>5. Executing(e, a, t)
  BY <1>2, <1>3, <1>4 DEF Executing, IsTerminal
<1>6. Truthful(e, a, w, t)
  BY <1>2, <1>3, <1>4 DEF Executing, Truthful, Idle
<1>7. Shut(e, a, w, t)
  BY <1>1, <1>4 DEF Shut
<1>8. Asked(e, a, t)
  <2> SUFFICES ASSUME NEW p \in Perms, e.perm[p].status \in {"pending", "decided"},
                      e.run[e.perm[p].run].session = t
               PROVE  a.run = e.perm[p].run /\ InFlight(a) /\ a.handle
    BY DEF Asked
  <2>1. e.perm[p].status = d.perm[p].status /\ e.perm[p].run = d.perm[p].run
    BY DEF Beside, d, e
  <2>2. e.perm[p].run \in Runs
    BY DEF Referenced, e
  <2> QED BY <1>2, <1>4, <2>1, <2>2 DEF Asked
<1>9. Mine(e, a, t)
  BY <1>2, <1>4 DEF Mine
<1>10. Timed(e, a, x.armed, t)
  BY <1>2, <1>4 DEF Timed, IsTerminal
<1>11. Ordered(e, t)
  BY <1>2, <1>4 DEF Ordered, IsTerminal
<1> QED BY <1>1, <1>4, <1>5, <1>6, <1>7, <1>8, <1>9, <1>10, <1>11 DEF Aright, d, e, a, w

\* References survive a step that accepts no run.
LEMMA RetainedReferenced ==
    ASSUME NEW d, NEW e, Referenced(d), Retained(d, e)
    PROVE  Referenced(e)
<1>1. {r \in Runs : Accepted(e, r)} = {r \in Runs : Accepted(d, r)}
  BY DEF Retained
<1>2. \A r \in Runs : (Accepted(e, r)) <=> (e.run[r].session \in Sessions)
  BY DEF Retained, Referenced
<1>3. \A r \in Runs : Accepted(e, r) => e.session[e.run[r].session].status # "absent"
  BY DEF Retained, Referenced
<1>4. \E m \in Nat : \A r \in Runs : e.run[r].generation <= m
  BY DEF Retained, Referenced
<1>5. \A p \in Perms : e.perm[p].status # "absent" =>
          e.perm[p].run \in Runs /\ Accepted(e, e.perm[p].run)
  BY DEF Retained
<1>6. \A r \in Runs : e.run[r].status = "queued" => ~ e.run[r].started
  BY DEF Retained
<1>7. e \in Database /\ IsFiniteSet({r \in Runs : Accepted(e, r)})
  BY <1>1 DEF Retained, Referenced
<1> QED BY <1>2, <1>3, <1>4, <1>5, <1>6, <1>7 DEF Referenced

\* The queue stays in line while no run joins or leaves those that wait.
LEMMA LineKept ==
    ASSUME NEW d, NEW e, NEW q \in Seq(Runs), Line(d, q), SameQueued(d, e)
    PROVE  Line(e, q)
<1>1. \A i \in 1 .. Len(q) : q[i] \in Runs
  OBVIOUS
<1> QED BY <1>1 DEF Line, SameQueued

----------------------------------------------------------------------------
(* What the Store's operators do to the columns that the Runtime reads *)

\* From d, the record of r is saved with the columns of rec; no other table changes.
Wrote(d, e, r, rec) ==
    /\ e \in Database
    /\ e.session = d.session /\ e.perm = d.perm /\ e.artifact = d.artifact
    /\ \A t \in Runs \ {r} : e.run[t] = d.run[t]
    /\ e.run[r].session = rec.session /\ e.run[r].generation = rec.generation
    /\ e.run[r].status = rec.status /\ e.run[r].started = rec.started
    /\ e.run[r].cleanup = rec.cleanup

\* insertEvent.
LEMMA Inserted ==
    ASSUME NEW d \in Database, NEW r \in Runs, NEW rec \in RunRecord,
           NEW src \in Nat, NEW terminal \in BOOLEAN
    PROVE  Wrote(d, InsertEvent(d, r, rec, src, terminal), r, rec)
<1> DEFINE row == [run |-> r, seq |-> rec.lastSeq + 1, src |-> src, terminal |-> terminal]
           new == [rec EXCEPT !.lastSeq = rec.lastSeq + 1]
           e == InsertEvent(d, r, rec, src, terminal)
<1>1. row \in EventRow
  BY DEF EventRow, RunRecord
<1>2. /\ new \in RunRecord
      /\ new.session = rec.session /\ new.generation = rec.generation
      /\ new.status = rec.status /\ new.started = rec.started /\ new.cleanup = rec.cleanup
  BY DEF RunRecord
<1>3. d.run \in [Runs -> RunRecord]
  BY DEF Database
<1>4. e = [d EXCEPT !.events = d.events \cup {row}, !.run = [d.run EXCEPT ![r] = new]]
  BY DEF InsertEvent
<1> HIDE DEF row, new, e
<1>5. /\ e \in Database
      /\ e.session = d.session /\ e.perm = d.perm /\ e.artifact = d.artifact
      /\ e.run = [d.run EXCEPT ![r] = new]
  BY <1>1, <1>2, <1>4 DEF Database
<1>6. e.run[r] = new /\ \A t \in Runs \ {r} : e.run[t] = d.run[t]
  BY <1>3, <1>5
<1>7. Wrote(d, e, r, rec)
  BY <1>2, <1>5, <1>6 DEF Wrote
<1> QED BY <1>7 DEF e

\* Writing nothing.
LEMMA NotedSelf ==
    ASSUME NEW d \in Database
    PROVE  Noted(d, d)
BY DEF Noted

\* Writing events twice is writing events.
LEMMA NotedTwice ==
    ASSUME NEW d, NEW e, NEW f, Noted(d, e), Noted(e, f)
    PROVE  Noted(d, f)
BY DEF Noted

\* An event without any other change of the run's record.
LEMMA EventNoted ==
    ASSUME NEW d \in Database, NEW r \in Runs, NEW src \in Nat
    PROVE  Noted(d, InsertEvent(d, r, d.run[r], src, FALSE))
<1> DEFINE e == InsertEvent(d, r, d.run[r], src, FALSE)
<1>1. d.run[r] \in RunRecord
  BY DEF Database
<1>2. FALSE \in BOOLEAN
  OBVIOUS
<1>3. Wrote(d, e, r, d.run[r])
  BY <1>1, <1>2, Inserted
<1> HIDE DEF e
<1>4. Noted(d, e)
  BY <1>3 DEF Wrote, Noted
<1> QED BY <1>4 DEF e

\* appendEvent.
LEMMA AppendNoted ==
    ASSUME NEW d \in Database, NEW r \in Runs, NEW src \in Nat
    PROVE  Noted(d, AppendEvent(d, r, src))
BY EventNoted, NotedSelf DEF AppendEvent

\* Erasing the log.
LEMMA UnloggedNoted ==
    ASSUME NEW d \in Database
    PROVE  Noted(d, Unlogged(d))
<1> DEFINE f == [r \in Runs |-> [d.run[r] EXCEPT !.lastSeq = 0]]
<1>1. \A r \in Runs : /\ f[r] \in RunRecord
                      /\ f[r].session = d.run[r].session
                      /\ f[r].generation = d.run[r].generation
                      /\ f[r].status = d.run[r].status
                      /\ f[r].started = d.run[r].started
                      /\ f[r].cleanup = d.run[r].cleanup
  BY DEF Database, RunRecord
<1>2. f \in [Runs -> RunRecord]
  BY <1>1
<1>3. Unlogged(d) = [d EXCEPT !.events = {}, !.run = f]
  BY DEF Unlogged
<1> HIDE DEF f
<1>4. /\ Unlogged(d) \in Database /\ Unlogged(d).run = f
      /\ Unlogged(d).session = d.session /\ Unlogged(d).perm = d.perm
      /\ Unlogged(d).artifact = d.artifact
  BY <1>2, <1>3 DEF Database
<1> QED BY <1>1, <1>4 DEF Noted, f

\* Events of a run that is worked on.
LEMMA NotedBusy ==
    ASSUME NEW d, NEW e, NEW r \in Runs, Noted(d, e), d.run[r].status \in Busy
    PROVE  QuietWork(d, e, r)
BY DEF Noted, Busywork, QuietWork

\* Two changes of the record of the same working run are one such change.
LEMMA BusyworkTwice ==
    ASSUME NEW d, NEW e, NEW f, NEW r \in Runs, Busywork(d, e, r), Busywork(e, f, r)
    PROVE  Busywork(d, f, r)
<1>1. /\ f \in Database /\ f.run[r].status \in Busy
      /\ \A s \in Sessions : f.session[s].status = d.session[s].status
  BY DEF Busywork
<1>2. \A p \in Perms :
          \/ f.perm[p].status = d.perm[p].status /\ f.perm[p].run = d.perm[p].run
          \/ f.perm[p].run = r
  BY DEF Busywork
<1>3. \A a \in Artifacts : f.artifact[a] = d.artifact[a] \/ f.artifact[a] = r
  BY DEF Busywork
<1>4. \A t \in Runs :
          /\ f.run[t].session = d.run[t].session
          /\ f.run[t].generation = d.run[t].generation
          /\ f.run[t].started = d.run[t].started
          /\ f.run[t].cleanup = d.run[t].cleanup
          /\ t # r => f.run[t].status = d.run[t].status
  BY DEF Busywork
<1> QED BY <1>1, <1>2, <1>3, <1>4 DEF Busywork

\* setRunStatus between two statuses of a run that is worked on.
LEMMA StatusBusy ==
    ASSUME NEW d \in Database, NEW r \in Runs, d.run[r].status \in Busy,
           NEW status \in Busy, status # "starting"
    PROVE  QuietWork(d, SetRunStatus(d, r, status), r)
<1> DEFINE begun == d.run[r].started \/ status = "starting"
           rec == [d.run[r] EXCEPT !.status = status, !.started = begun]
           e == InsertEvent(d, r, rec, 0, FALSE)
<1>1. d.run[r] \in RunRecord
  BY DEF Database
<1>2. begun \in BOOLEAN
  OBVIOUS
<1>3. begun = d.run[r].started
  BY <1>1 DEF RunRecord
<1> HIDE DEF begun
<1>4. /\ rec \in RunRecord
      /\ rec.session = d.run[r].session /\ rec.generation = d.run[r].generation
      /\ rec.status = status /\ rec.started = d.run[r].started
      /\ rec.cleanup = d.run[r].cleanup
  BY <1>1, <1>2, <1>3 DEF RunRecord, Busy
<1> HIDE DEF rec
<1>5. FALSE \in BOOLEAN /\ 0 \in Nat
  OBVIOUS
<1>6. Wrote(d, e, r, rec)
  BY <1>4, <1>5, Inserted
<1> HIDE DEF e
<1>7. Busywork(d, e, r) /\ e.perm = d.perm /\ e.artifact = d.artifact
  BY <1>4, <1>6 DEF Wrote, Busywork
<1>8. Busywork(d, d, r)
  BY NotedSelf, NotedBusy DEF QuietWork
<1>9. SetRunStatus(d, r, status) = d \/ SetRunStatus(d, r, status) = e
  BY DEF SetRunStatus, e, rec, begun
<1> QED BY <1>7, <1>8, <1>9 DEF QuietWork

\* The permission p of run r is saved, with an event.
LEMMA PermissionBusy ==
    ASSUME NEW d \in Database, NEW r \in Runs, d.run[r].status \in Busy,
           NEW p \in Perms, NEW v \in PermissionRecord, v.run = r,
           NEW c, SavedPermission(d, c, p, v)
    PROVE  AskingWork(d, InsertEvent(c, r, d.run[r], 0, FALSE), r)
<1> DEFINE e == InsertEvent(c, r, d.run[r], 0, FALSE)
<1>1. d.perm \in [Perms -> PermissionRecord]
  BY DEF Database
<1>2. /\ c \in Database
      /\ c.session = d.session /\ c.run = d.run /\ c.artifact = d.artifact
      /\ c.perm = [d.perm EXCEPT ![p] = v]
  BY <1>1 DEF Database, SavedPermission
<1>3. \A q \in Perms : q # p => c.perm[q] = d.perm[q]
  BY <1>1, <1>2
<1>4. c.perm[p] = v
  BY <1>1, <1>2
<1>5. d.run[r] \in RunRecord /\ FALSE \in BOOLEAN /\ 0 \in Nat
  BY DEF Database
<1>6. Wrote(c, e, r, d.run[r])
  BY <1>2, <1>5, Inserted
<1> HIDE DEF e
<1>7. e.perm = c.perm /\ e.artifact = d.artifact
  BY <1>2, <1>6 DEF Wrote
<1>8. \A q \in Perms : \/ e.perm[q].status = d.perm[q].status /\ e.perm[q].run = d.perm[q].run
                       \/ e.perm[q].run = r
  BY <1>3, <1>4, <1>7
<1>9. Busywork(d, e, r)
  BY <1>2, <1>6, <1>7, <1>8 DEF Wrote, Busywork
<1> QED BY <1>7, <1>9 DEF e, AskingWork

\* createPermission.
LEMMA CreateBusy ==
    ASSUME NEW d \in Database, NEW r \in Runs, d.run[r].status \in Busy, NEW p \in Perms,
           NEW late
    PROVE  AskingWork(d, CreatePermission(d, r, p, late), r)
<1> DEFINE v == [run |-> r, status |-> "pending", decision |-> None]
<1>1. v \in PermissionRecord /\ v.run = r
  BY DEF PermissionRecord
<1>2. AskingWork(d, d, r)
  BY NotedSelf, NotedBusy DEF AskingWork, QuietWork
<1>3. CASE CreateRefused(d, r, p, late)
  BY <1>2, <1>3 DEF CreatePermission
<1>4. CASE ~ CreateRefused(d, r, p, late)
  <2> DEFINE c == [d EXCEPT !.perm[p] = v]
  <2>1. CreatePermission(d, r, p, late) = InsertEvent(c, r, d.run[r], 0, FALSE)
    BY <1>4 DEF CreatePermission
  <2> HIDE DEF v
  <2>2. SavedPermission(d, c, p, v)
    BY DEF SavedPermission
  <2> HIDE DEF c
  <2> QED BY <1>1, <2>1, <2>2, PermissionBusy
<1> QED BY <1>3, <1>4

\* markPermissionApplied.
LEMMA ApplyBusy ==
    ASSUME NEW d \in Database, NEW r \in Runs, d.run[r].status \in Busy, NEW p \in Perms,
           d.perm[p].run = r, NEW late
    PROVE  AskingWork(d, MarkPermissionApplied(d, p, late), r)
<1> DEFINE v == [d.perm[p] EXCEPT !.status = "applied"]
<1>1. d.perm[p] \in PermissionRecord
  BY DEF Database
<1>2. v \in PermissionRecord /\ v.run = r
  BY <1>1 DEF PermissionRecord
<1>3. AskingWork(d, d, r)
  BY NotedSelf, NotedBusy DEF AskingWork, QuietWork
<1> DEFINE c == [d EXCEPT !.perm[p] = v]
<1>4. \/ MarkPermissionApplied(d, p, late) = d
      \/ MarkPermissionApplied(d, p, late) = InsertEvent(c, r, d.run[r], 0, FALSE)
  BY DEF MarkPermissionApplied
<1> HIDE DEF v
<1>5. SavedPermission(d, c, p, v)
  BY DEF SavedPermission
<1> HIDE DEF c
<1> QED BY <1>2, <1>3, <1>4, <1>5, PermissionBusy

\* registerArtifact.
LEMMA RegisterBusy ==
    ASSUME NEW d \in Database, NEW r \in Runs, d.run[r].status \in Busy, NEW a \in Artifacts
    PROVE  FilingWork(d, RegisterArtifact(d, r, a), r)
<1> DEFINE c == [d EXCEPT !.artifact[a] = r]
           e == InsertEvent(c, r, d.run[r], 0, FALSE)
<1>1. d.artifact \in [Artifacts -> Runs \cup {None}]
  BY DEF Database
<1>2. /\ c \in Database
      /\ c.session = d.session /\ c.run = d.run /\ c.perm = d.perm
      /\ c.artifact = [d.artifact EXCEPT ![a] = r]
  BY <1>1 DEF Database
<1> HIDE DEF c
<1>3. \A b \in Artifacts : c.artifact[b] = d.artifact[b] \/ c.artifact[b] = r
  BY <1>1, <1>2
<1>4. d.run[r] \in RunRecord /\ FALSE \in BOOLEAN /\ 0 \in Nat
  BY DEF Database
<1>5. Wrote(c, e, r, d.run[r])
  BY <1>2, <1>4, Inserted
<1> HIDE DEF e
<1>6. e.perm = d.perm /\ e.artifact = c.artifact
  BY <1>2, <1>5 DEF Wrote
<1>7. Busywork(d, e, r)
  BY <1>2, <1>3, <1>5, <1>6 DEF Wrote, Busywork
<1>8. Busywork(d, d, r)
  BY NotedSelf, NotedBusy DEF QuietWork
<1>9. RegisterArtifact(d, r, a) = d \/ RegisterArtifact(d, r, a) = e
  BY <1>2 DEF RegisterArtifact, e, c
<1> QED BY <1>6, <1>7, <1>8, <1>9 DEF FilingWork

\* Expiring a set of permissions of a run.
LEMMA PermissionsLapse ==
    ASSUME NEW d \in Database, NEW r \in Runs, NEW ps \in SUBSET Perms
    PROVE  Lapsed(d, ExpirePermissions(d, r, ps), ps)
<1> DEFINE n == Cardinality(ps)
           e == ExpirePermissions(d, r, ps)
           f == [p \in Perms |-> IF p \in ps THEN [d.perm[p] EXCEPT !.status = "expired"]
                                 ELSE d.perm[p]]
           rows == {[run |-> r, seq |-> d.run[r].lastSeq + i, src |-> 0,
                     terminal |-> FALSE] : i \in 1 .. n}
           rec == [d.run[r] EXCEPT !.lastSeq = d.run[r].lastSeq + n]
<1>1. n \in Nat
  BY StoreAssumption, FS_Subset, FS_CardinalityType
<1> HIDE DEF n
<1>2. \A t \in Runs : d.run[t] \in RunRecord
  BY DEF Database
<1>3. /\ rec \in RunRecord
      /\ rec.session = d.run[r].session /\ rec.generation = d.run[r].generation
      /\ rec.status = d.run[r].status /\ rec.started = d.run[r].started
      /\ rec.cleanup = d.run[r].cleanup
  BY <1>1, <1>2 DEF RunRecord
<1>4. \A p \in Perms : d.perm[p] \in PermissionRecord
  BY DEF Database
<1>5. \A p \in Perms :
         /\ f[p] \in PermissionRecord
         /\ f[p].run = d.perm[p].run
         /\ f[p].status = IF p \in ps THEN "expired" ELSE d.perm[p].status
  <2> TAKE p \in Perms
  <2>1. CASE p \in ps
    <3> DEFINE v == [d.perm[p] EXCEPT !.status = "expired"]
    <3>1. v \in PermissionRecord /\ v.run = d.perm[p].run /\ v.status = "expired"
      BY <1>4 DEF PermissionRecord
    <3>2. f[p] = v
      BY <2>1
    <3> HIDE DEF v, f
    <3> QED BY <2>1, <3>1, <3>2
  <2>2. CASE p \notin ps
    BY <1>4, <2>2
  <2> QED BY <2>1, <2>2
<1>6. f \in [Perms -> PermissionRecord]
  BY <1>5
<1>7. rows \subseteq EventRow
  <2> SUFFICES ASSUME NEW i \in 1 .. n
               PROVE  [run |-> r, seq |-> d.run[r].lastSeq + i, src |-> 0,
                       terminal |-> FALSE] \in EventRow
    OBVIOUS
  <2>1. d.run[r].lastSeq + i \in Nat
    BY <1>1, <1>2 DEF RunRecord
  <2> QED BY <2>1 DEF EventRow
<1>8. e = [d EXCEPT !.perm = f, !.events = d.events \cup rows, !.run = [d.run EXCEPT ![r] = rec]]
  BY DEF ExpirePermissions, n
<1> HIDE DEF e, f, rows, rec
<1>9. /\ e \in Database
      /\ e.session = d.session /\ e.artifact = d.artifact /\ e.perm = f
      /\ e.run = [d.run EXCEPT ![r] = rec]
  BY <1>3, <1>6, <1>7, <1>8 DEF Database
<1>10. \A t \in Runs : t # r => e.run[t] = d.run[t]
  BY <1>9 DEF Database
<1>11. e.run[r] = rec
  BY <1>9 DEF Database
<1>12. Lapsed(d, e, ps)
  BY <1>3, <1>5, <1>9, <1>10, <1>11 DEF Lapsed
<1> QED BY <1>12 DEF e

\* finishRun of a run that has not ended.
LEMMA FinishEnds ==
    ASSUME NEW d \in Database, NEW r \in Runs, ~ IsTerminal(d, r),
           NEW status \in Terminal, NEW cleanup \in Cleanup
    PROVE  Ended(d, FinishRun(d, r, status, cleanup), r, status, cleanup)
<1> DEFINE c == ExpirePermissions(d, r, OpenPerms(d, r))
           rec == [c.run[r] EXCEPT !.status = status, !.cleanup = cleanup]
           e == InsertEvent(c, r, rec, 0, TRUE)
<1>1. OpenPerms(d, r) \in SUBSET Perms
  BY DEF OpenPerms
<1>2. Lapsed(d, c, OpenPerms(d, r))
  BY <1>1, PermissionsLapse
<1> HIDE DEF c
<1>3. c \in Database
  BY <1>2 DEF Lapsed
<1>4. c.run[r] \in RunRecord
  BY <1>3 DEF Database
<1>5. /\ rec \in RunRecord
      /\ rec.session = c.run[r].session /\ rec.generation = c.run[r].generation
      /\ rec.status = status /\ rec.started = c.run[r].started /\ rec.cleanup = cleanup
  BY <1>4 DEF RunRecord, Terminal, Cleanup
<1> HIDE DEF rec
<1>6. TRUE \in BOOLEAN /\ 0 \in Nat
  OBVIOUS
<1>7. Wrote(c, e, r, rec)
  BY <1>3, <1>5, <1>6, Inserted
<1>8. FinishRun(d, r, status, cleanup) = e
  BY DEF FinishRun, e, rec, c
<1> HIDE DEF e
<1>9. \A t \in Runs :
         /\ e.run[t].session = d.run[t].session
         /\ e.run[t].generation = d.run[t].generation
         /\ e.run[t].started = d.run[t].started
         /\ t # r => /\ e.run[t].status = d.run[t].status
                     /\ e.run[t].cleanup = d.run[t].cleanup
  BY <1>2, <1>5, <1>7 DEF Wrote, Lapsed
<1>10. e.run[r].status = status /\ e.run[r].cleanup = cleanup
  BY <1>5, <1>7 DEF Wrote
<1>11. \A p \in Perms :
          /\ e.perm[p].run = d.perm[p].run
          /\ e.perm[p].status = IF p \in OpenPerms(d, r) THEN "expired" ELSE d.perm[p].status
  BY <1>2, <1>7 DEF Wrote, Lapsed
<1>12. e \in Database /\ e.artifact = d.artifact /\ e.session = d.session
  BY <1>2, <1>7 DEF Wrote, Lapsed
<1> QED BY <1>8, <1>9, <1>10, <1>11, <1>12 DEF Ended

\* recordCleanup and finish: the cleanup event goes before.
LEMMA EndEnds ==
    ASSUME NEW d \in Database, NEW r \in Runs, ~ IsTerminal(d, r),
           NEW status \in Terminal, NEW cleanup \in Cleanup
    PROVE  Ended(d, FinishRun(AppendEvent(d, r, 0), r, status, cleanup), r, status, cleanup)
<1> DEFINE c == AppendEvent(d, r, 0)
           e == FinishRun(c, r, status, cleanup)
<1>1. 0 \in Nat
  OBVIOUS
<1>2. Noted(d, c)
  BY <1>1, AppendNoted
<1> HIDE DEF c
<1>3. c \in Database /\ ~ IsTerminal(c, r)
  BY <1>2 DEF Noted, IsTerminal
<1>4. Ended(c, e, r, status, cleanup)
  BY <1>3, FinishEnds
<1> HIDE DEF e
<1>5. OpenPerms(c, r) = OpenPerms(d, r)
  BY <1>2 DEF Noted, OpenPerms
<1>6. Ended(d, e, r, status, cleanup)
  BY <1>2, <1>4, <1>5 DEF Noted, Ended
<1> QED BY <1>6 DEF e, c

\* bindBackendSession.
LEMMA BindBusy ==
    ASSUME NEW d \in Database, NEW r \in Runs, d.run[r].status \in Busy,
           d.run[r].session \in Sessions, NEW b \in BackendIds, NEW src \in Nat
    PROVE  QuietWork(d, BindBackendSession(d, r, b, src), r)
<1> DEFINE s == d.run[r].session
           v == [d.session[s] EXCEPT !.backend = b]
           c == [d EXCEPT !.session[s] = v]
           e == InsertEvent(c, r, d.run[r], src, FALSE)
<1>1. d.session \in [Sessions -> SessionRecord] /\ d.run[r] \in RunRecord
  BY DEF Database
<1>2. v \in SessionRecord /\ v.status = d.session[s].status
  BY <1>1 DEF SessionRecord
<1>3. \/ BindBackendSession(d, r, b, src) = d
      \/ BindBackendSession(d, r, b, src) = e
  BY DEF BindBackendSession
<1> HIDE DEF v
<1>4. /\ c \in Database
      /\ c.session = [d.session EXCEPT ![s] = v]
      /\ c.run = d.run /\ c.perm = d.perm /\ c.artifact = d.artifact
  BY <1>1, <1>2 DEF Database
<1> HIDE DEF c
<1>5. \A t \in Sessions : c.session[t].status = d.session[t].status
  BY <1>1, <1>2, <1>4
<1>6. FALSE \in BOOLEAN
  OBVIOUS
<1>7. Wrote(c, e, r, d.run[r])
  BY <1>1, <1>4, <1>6, Inserted
<1> HIDE DEF e
<1>8. QuietWork(d, e, r)
  BY <1>4, <1>5, <1>7 DEF Wrote, QuietWork, Busywork
<1>9. QuietWork(d, d, r)
  BY NotedSelf, NotedBusy
<1> QED BY <1>3, <1>8, <1>9

\* decidePermission, which lets the permission expire when its run no longer waits.
LEMMA DecideBusy ==
    ASSUME NEW d \in Database, NEW p \in Perms, d.perm[p].run \in Runs,
           d.run[d.perm[p].run].status \in Busy, NEW o \in Options, NEW gone
    PROVE  AskingWork(d, DecidePermission(d, p, o, gone), d.perm[p].run)
<1> DEFINE r == d.perm[p].run
           v == [d.perm[p] EXCEPT !.status = "decided", !.decision = o]
           c == [d EXCEPT !.perm[p] = v]
           x == ExpirePermissions(d, r, {p})
<1>1. d.perm[p] \in PermissionRecord
  BY DEF Database
<1>2. v \in PermissionRecord /\ v.run = r
  BY <1>1 DEF PermissionRecord
<1>3. SavedPermission(d, c, p, v)
  BY DEF SavedPermission
<1>4. ~ IsTerminal(d, r)
  BY DEF IsTerminal, Busy, Working, Terminal
<1>5. [d EXCEPT !.perm[p].status = "decided", !.perm[p].decision = o] = c
  OBVIOUS
<1>6. \/ DecidePermission(d, p, o, gone) = d
      \/ DecidePermission(d, p, o, gone) = x
      \/ DecidePermission(d, p, o, gone) = InsertEvent(c, r, d.run[r], 0, FALSE)
  BY <1>4, <1>5 DEF DecidePermission, ExpirePermission
<1> HIDE DEF c, v, x
<1>7. AskingWork(d, d, r)
  BY NotedSelf, NotedBusy DEF AskingWork, QuietWork
<1>8. AskingWork(d, InsertEvent(c, r, d.run[r], 0, FALSE), r)
  BY <1>2, <1>3, PermissionBusy
<1>9. AskingWork(d, x, r)
  <2>1. {p} \in SUBSET Perms
    OBVIOUS
  <2>2. Lapsed(d, x, {p})
    BY <2>1, PermissionsLapse DEF x
  <2> QED BY <2>2 DEF Lapsed, AskingWork, Busywork
<1> QED BY <1>6, <1>7, <1>8, <1>9

----------------------------------------------------------------------------
(* Sound steps of one Session *)

\* What there is to show of a step.
LEMMA Assembled ==
    ASSUME NEW st, NEW x, NEW s \in Sessions, Good(st),
           x \in States, Retained(st.db, x.db), Beside(st, x, s), x.armed \subseteq st.armed,
           Line(x.db, x.queue), Aright(x, s)
    PROVE  Good(x)
<1>1. Referenced(x.db)
  BY RetainedReferenced DEF Good
<1>2. \A t \in Sessions \ {s} : Aright(x, t)
  BY <1>1, BesideAright DEF Good
<1>3. x.armed \subseteq Runs
  BY DEF States
<1>4. \A r \in x.armed : Accepted(x.db, r)
  BY <1>3 DEF Good, Retained
<1> QED BY <1>1, <1>2, <1>4 DEF Good

\* Steps follow one another.
LEMMA StepsTwice ==
    ASSUME NEW st, NEW y, NEW x, NEW s \in Sessions,
           Good(st), Steps(st, y, s), Steps(y, x, s)
    PROVE  Steps(st, x, s)
<1> DEFINE a == st.act[s]
           b == y.act[s]
           c == x.act[s]
<1>1. Good(y) /\ Turn(st, y, s) /\ Good(x) /\ Turn(y, x, s)
  BY DEF Steps
<1>a. Steady(st, y, s) /\ Steady(y, x, s)
  BY DEF Steps
<1>2. Onward(st.db, x.db)
  BY <1>1 DEF Turn, Onward, IsTerminal
<1>3. \A t \in Sessions \ {s} : x.act[t] = st.act[t] /\ x.worker[t] = st.worker[t]
  BY <1>1 DEF Turn
<1>4. \A r \in Runs : st.db.run[r].session # s => x.db.run[r].status = st.db.run[r].status
  BY <1>1 DEF Turn, Onward
<1>5. \/ c = Idle
      \/ /\ a # Idle /\ c.run = a.run
         /\ a.stop # "none" => c.stop = a.stop
         /\ a.pc = "final" => c.pc = "final"
  BY <1>1 DEF Turn, Idle
<1>6. ASSUME NEW r \in Runs, r = a.run, a.stop # "none",
             ~ IsTerminal(st.db, r), IsTerminal(x.db, r)
      PROVE  x.db.run[r].status = a.stop
  <2>1. CASE IsTerminal(y.db, r)
    BY <1>1, <1>6, <2>1 DEF Turn, Onward
  <2>2. CASE ~ IsTerminal(y.db, r)
    <3>1. a # Idle /\ Executing(st.db, a, s)
      BY <1>6 DEF Good, Aright, Idle
    <3>2. st.db.run[r].session = s /\ st.db.run[r].status \in Busy
      BY <1>6, <3>1 DEF Executing
    <3>3. y.db.run[r].session = s /\ y.db.run[r].status \in Busy
      <4>1. y.db.run[r] \in RunRecord
        BY <1>1 DEF Good, States, Database
      <4> QED BY <1>1, <2>2, <3>2, <4>1
              DEF Turn, Onward, Busy, IsTerminal, Working, Terminal, RunRecord
    <3>4. b.run = r
      BY <1>1, <3>3 DEF Good, Aright, Mine
    <3>5. b # Idle
      BY <3>4, StoreAssumption DEF Idle
    <3>6. b.stop = a.stop
      BY <1>1, <1>6, <3>5 DEF Turn
    <3> QED BY <1>1, <1>6, <2>2, <3>4, <3>6 DEF Turn
  <2> QED BY <2>1, <2>2
<1>7. ASSUME NEW f \in Artifacts, x.db.artifact[f] # st.db.artifact[f]
      PROVE  LET r == x.db.artifact[f] IN
             r \in Runs /\ r = a.run /\ ~ IsTerminal(st.db, r) /\ a.stop = "none"
  <2> DEFINE r == x.db.artifact[f]
  <2>1. CASE r = y.db.artifact[f]
    BY <1>1, <1>7, <2>1 DEF Turn
  <2>2. CASE r # y.db.artifact[f]
    <3>1. r \in Runs /\ r = b.run /\ ~ IsTerminal(y.db, r) /\ b.stop = "none"
      BY <1>1, <2>2 DEF Turn
    <3> HIDE DEF r
    <3>2. b # Idle
      BY <3>1, StoreAssumption DEF Idle
    <3>3. r = a.run /\ a.stop = "none"
      BY <1>1, <3>1, <3>2 DEF Turn
    <3>4. ~ IsTerminal(st.db, r)
      BY <1>1, <3>1 DEF Turn, Onward, IsTerminal
    <3> QED BY <3>1, <3>3, <3>4 DEF r
  <2> QED BY <2>1, <2>2
<1>8. \A t \in Sessions : \/ x.db.session[t].status = st.db.session[t].status
                          \/ t = s /\ c = Idle
  BY <1>1, <1>a DEF Turn, Steady
<1>9. x.worker[s] = "live" => st.worker[s] = "live" \/ (InFlight(a) /\ a.stop = "none")
  <2> SUFFICES ASSUME InFlight(b), b.stop = "none" PROVE InFlight(a) /\ a.stop = "none"
    BY <1>a DEF Steady
  <2>1. b # Idle
    BY DEF InFlight, Idle
  <2>2. a # Idle /\ (a.stop # "none" => b.stop = a.stop) /\ (a.pc = "final" => b.pc = "final")
    BY <1>1, <2>1 DEF Turn
  <2>3. a.pc # "idle"
    BY <2>2 DEF Good, Aright, Executing
  <2> QED BY <2>2, <2>3 DEF InFlight
<1>10. Steady(st, x, s)
  BY <1>8, <1>9 DEF Steady
<1> QED BY <1>1, <1>2, <1>3, <1>4, <1>5, <1>6, <1>7, <1>10 DEF Steps, Turn

\* Nothing happened.
LEMMA StepsSelf ==
    ASSUME NEW st, NEW s \in Sessions, Good(st)
    PROVE  Steps(st, st, s)
BY DEF Steps, Turn, Onward, Steady

\* A change of the record or the Worker of a Session.
LEMMA AdjustsSteps ==
    ASSUME NEW st, NEW x, NEW s \in Sessions, Good(st), Adjusts(st, x, s)
    PROVE  Steps(st, x, s)
<1> DEFINE a == st.act[s]
           b == x.act[s]
           d == st.db
<1>1. x \in States /\ x.db = d /\ x.queue = st.queue /\ x.armed = st.armed
  BY DEF Adjusts
<1>2. Retained(d, x.db)
  BY <1>1 DEF Good, Referenced, Retained
<1>3. Beside(st, x, s)
  BY <1>1 DEF Adjusts, Beside
<1>4. Aright(st, s)
  BY DEF Good
<1>5. \/ b = a
      \/ /\ a # Idle /\ b.pc # "idle" /\ b.run = a.run
         /\ (b.pc = "final") <=> (a.pc = "final")
         /\ a.stop # "none" => b.stop = a.stop
         /\ a.handle => b.handle
  BY DEF Adjusts
<1>6. Staged(b, x.worker[s], s) /\ Truthful(d, b, x.worker[s], s) /\ Shut(d, b, x.worker[s], s)
  BY DEF Adjusts
<1>7. a \in ActiveRecord /\ b \in ActiveRecord
  BY <1>1 DEF Good, States
<1>8. Executing(d, a, s) /\ Asked(d, a, s) /\ Mine(d, a, s) /\ Timed(d, a, st.armed, s)
      /\ Ordered(d, s)
  BY <1>4 DEF Aright
<1> HIDE DEF a, b, d
<1>9. Executing(d, b, s)
  BY <1>5, <1>8 DEF Executing
<1>10. Asked(d, b, s)
  BY <1>5, <1>8 DEF Asked, InFlight
<1>11. Mine(d, b, s)
  BY <1>5, <1>8 DEF Mine
<1>12. Timed(d, b, st.armed, s)
  BY <1>5, <1>8 DEF Timed
<1>13. Aright(x, s)
  BY <1>1, <1>6, <1>8, <1>9, <1>10, <1>11, <1>12 DEF Aright, b, d
<1>14. Good(x)
  BY <1>1, <1>2, <1>3, <1>13, Assembled DEF Good, d
<1>15. \/ b = Idle
       \/ /\ a # Idle /\ b.run = a.run
          /\ a.stop # "none" => b.stop = a.stop
          /\ a.pc = "final" => b.pc = "final"
  BY <1>5
<1>16. Turn(st, x, s)
  BY <1>1, <1>3, <1>15 DEF Turn, Onward, Beside, a, b, d
<1>17. Steady(st, x, s)
  BY <1>1 DEF Adjusts, Steady, d
<1> QED BY <1>14, <1>16, <1>17 DEF Steps

\* The active run of a Session.
LEMMA ActiveRun ==
    ASSUME NEW st, NEW s \in Sessions, Good(st), InFlight(st.act[s])
    PROVE  /\ st.act[s] # Idle /\ st.act[s] \in ActiveRecord
           /\ st.act[s].run \in Runs
           /\ st.db.run[st.act[s].run].session = s
           /\ st.db.run[st.act[s].run].status \in Busy
           /\ ~ IsTerminal(st.db, st.act[s].run)
<1>1. st.act[s] # Idle
  BY DEF InFlight, Idle
<1>2. st.act[s] \in ActiveRecord
  BY DEF Good, States
<1>3. Executing(st.db, st.act[s], s)
  BY DEF Good, Aright
<1>4. /\ st.act[s].run \in Runs
      /\ st.db.run[st.act[s].run].session = s
      /\ st.db.run[st.act[s].run].status \in Busy
  BY <1>1, <1>3 DEF Executing, InFlight
<1> QED BY <1>1, <1>2, <1>4 DEF IsTerminal, Busy, Working, Terminal

\* A change of what the database records of the run that is worked on.
LEMMA WorksSteps ==
    ASSUME NEW st, NEW x, NEW s \in Sessions, Good(st), Works(st, x, s)
    PROVE  Steps(st, x, s)
<1> DEFINE a == st.act[s]
           r == a.run
           d == st.db
           e == x.db
           w == st.worker[s]
<1>1. /\ x \in States /\ x.queue = st.queue /\ x.armed = st.armed
      /\ x.act = st.act /\ x.worker = st.worker
      /\ InFlight(a)
      /\ Busywork(d, e, r)
      /\ a.handle \/ e.perm = d.perm
      /\ a.stop = "none" \/ e.artifact = d.artifact
  BY DEF Works
<1>2. /\ a # Idle /\ a \in ActiveRecord /\ r \in Runs /\ d.run[r].session = s
      /\ d.run[r].status \in Busy /\ ~ IsTerminal(d, r)
  BY <1>1, ActiveRun
<1>3. Executing(d, a, s) /\ Staged(a, w, s) /\ Truthful(d, a, w, s) /\ Shut(d, a, w, s)
      /\ Asked(d, a, s) /\ Mine(d, a, s) /\ Timed(d, a, st.armed, s) /\ Ordered(d, s)
  BY DEF Good, Aright
<1>4. Referenced(d) /\ Line(d, st.queue) /\ st.queue \in Seq(Runs)
  BY DEF Good, States
<1> HIDE DEF a, r, d, e, w
<1>5. /\ e \in Database
      /\ \A t \in Sessions : e.session[t].status = d.session[t].status
      /\ \A t \in Runs :
            /\ e.run[t].session = d.run[t].session
            /\ e.run[t].generation = d.run[t].generation
            /\ e.run[t].started = d.run[t].started
            /\ e.run[t].cleanup = d.run[t].cleanup
            /\ t # r => e.run[t].status = d.run[t].status
      /\ e.run[r].status \in Busy
      /\ \A p \in Perms :
            \/ e.perm[p].status = d.perm[p].status /\ e.perm[p].run = d.perm[p].run
            \/ e.perm[p].run = r
      /\ \A f \in Artifacts : e.artifact[f] = d.artifact[f] \/ e.artifact[f] = r
  BY <1>1 DEF Busywork
<1>6. \A y \in Busy : y # "absent" /\ y # "queued" /\ y \notin Terminal
  BY DEF Busy, Working, Terminal
<1>7. \A t \in Runs : /\ (Accepted(e, t)) <=> (Accepted(d, t))
                      /\ (IsTerminal(e, t)) <=> (IsTerminal(d, t))
                      /\ (e.run[t].status = "queued") <=> (d.run[t].status = "queued")
                      /\ (e.run[t].status \in Busy) <=> (d.run[t].status \in Busy)
  BY <1>2, <1>5, <1>6 DEF Accepted, IsTerminal
<1>8. Retained(d, e)
  <2>1. Accepted(d, r)
    BY <1>2, <1>6 DEF Accepted
  <2>2. \A p \in Perms : e.perm[p].status # "absent" =>
          e.perm[p].run \in Runs /\ Accepted(d, e.perm[p].run)
    BY <1>2, <1>4, <1>5, <2>1 DEF Referenced
  <2> QED BY <1>4, <1>5, <1>7, <2>2 DEF Retained, Referenced
<1>9. Beside(st, x, s)
  <2>1. \A t \in Runs : e.run[t].session # s => t # r
    BY <1>2, <1>5
  <2>2. \A p \in Perms : e.perm[p].status \in {"pending", "decided"} =>
          \/ e.run[e.perm[p].run].session = s
          \/ e.perm[p].status = d.perm[p].status /\ e.perm[p].run = d.perm[p].run
    BY <1>2, <1>5
  <2> QED BY <1>1, <1>5, <2>1, <2>2 DEF Beside, d, e
<1>10. Line(e, x.queue)
  <2>1. SameQueued(d, e)
    BY <1>5, <1>7 DEF SameQueued
  <2> QED BY <1>1, <1>4, <2>1, LineKept
<1>11. Executing(e, a, s)
  BY <1>1, <1>2, <1>5 DEF Executing, InFlight, r
<1>12. Truthful(e, a, w, s) /\ Shut(e, a, w, s)
  BY <1>1, <1>3, <1>5 DEF Truthful, Shut, InFlight
<1>13. Asked(e, a, s)
  <2> SUFFICES ASSUME NEW p \in Perms, e.perm[p].status \in {"pending", "decided"},
                      e.run[e.perm[p].run].session = s
               PROVE  a.run = e.perm[p].run /\ InFlight(a) /\ a.handle
    BY DEF Asked
  <2>1. e.perm[p].run \in Runs
    BY <1>8 DEF Retained
  <2>2. CASE e.perm[p].status = d.perm[p].status /\ e.perm[p].run = d.perm[p].run
    BY <1>3, <1>5, <2>1, <2>2 DEF Asked
  <2>3. CASE e.perm[p].run = r /\ a.handle
    BY <1>1, <2>3 DEF r
  <2> QED BY <1>1, <1>5, <2>2, <2>3
<1>14. Mine(e, a, s) /\ Timed(e, a, x.armed, s) /\ Ordered(e, s)
  BY <1>1, <1>3, <1>5, <1>7 DEF Mine, Timed, Ordered
<1>15. Aright(x, s)
  BY <1>1, <1>3, <1>11, <1>12, <1>13, <1>14 DEF Aright, a, d, e, w
<1>16. Good(x)
  BY <1>1, <1>8, <1>9, <1>10, <1>15, Assembled DEF d, e
<1>17. Onward(d, e)
  BY <1>5, <1>6, <1>7, <1>2 DEF Onward, IsTerminal
<1>18. \A f \in Artifacts : e.artifact[f] # d.artifact[f] =>
          e.artifact[f] = r /\ a.stop = "none"
  BY <1>1, <1>5
<1>19. Turn(st, x, s)
  <2>1. \A t \in Runs : d.run[t].session # s => e.run[t].status = d.run[t].status
    BY <1>2, <1>5
  <2> QED BY <1>1, <1>2, <1>7, <1>17, <1>18, <2>1 DEF Turn, InFlight, a, d, e, r
<1>20. Steady(st, x, s)
  BY <1>1 DEF Busywork, Steady, d, e
<1> QED BY <1>16, <1>19, <1>20 DEF Steps

\* What the end of a run leaves as it was.
LEMMA EndedKeeps ==
    ASSUME NEW d, NEW e, NEW r \in Runs, Referenced(d), Accepted(d, r), ~ IsTerminal(d, r),
           NEW status \in Terminal, NEW cleanup, Ended(d, e, r, status, cleanup)
    PROVE  /\ Retained(d, e) /\ Onward(d, e)
           /\ IsTerminal(e, r)
           /\ \A t \in Runs : IsTerminal(d, t) => IsTerminal(e, t)
           /\ \A t \in Runs \ {r} : e.run[t].status = d.run[t].status
           /\ \A t \in Runs : /\ e.run[t].session = d.run[t].session
                              /\ e.run[t].generation = d.run[t].generation
                              /\ e.run[t].started = d.run[t].started
<1>1. \A y \in Terminal : y # "absent" /\ y # "queued"
  BY DEF Terminal
<1>2. /\ \A t \in Runs : /\ e.run[t].session = d.run[t].session
                         /\ e.run[t].generation = d.run[t].generation
                         /\ e.run[t].started = d.run[t].started
      /\ \A t \in Runs \ {r} : e.run[t].status = d.run[t].status
      /\ e.run[r].status = status /\ e \in Database
      /\ \A s \in Sessions : e.session[s].status = d.session[s].status
  BY DEF Ended
<1>3. \A t \in Runs : IsTerminal(d, t) => t # r /\ e.run[t].status = d.run[t].status
  BY <1>2
<1>4. IsTerminal(e, r) /\ \A t \in Runs : IsTerminal(d, t) => IsTerminal(e, t)
  BY <1>2, <1>3 DEF IsTerminal
<1>5. Onward(d, e)
  BY <1>1, <1>2, <1>3 DEF Onward
<1>6. \A p \in Perms : e.perm[p].status # "absent" =>
          d.perm[p].status # "absent" /\ e.perm[p].run = d.perm[p].run
  BY DEF Ended, OpenPerms
<1>7. \A p \in Perms : e.perm[p].status # "absent" =>
          e.perm[p].run \in Runs /\ Accepted(d, e.perm[p].run)
  BY <1>6 DEF Referenced
<1>8. \A t \in Runs : /\ (Accepted(e, t)) <=> (Accepted(d, t))
                      /\ e.run[t].status = "queued" => ~ e.run[t].started
  BY <1>1, <1>2 DEF Accepted, Referenced
<1>9. Retained(d, e)
  BY <1>2, <1>7, <1>8 DEF Retained
<1> QED BY <1>2, <1>4, <1>5, <1>9

\* No permission of the run that ended is left open.
LEMMA EndedAsked ==
    ASSUME NEW d, NEW e, NEW r, NEW status, NEW cleanup, Ended(d, e, r, status, cleanup),
           NEW p \in Perms, e.perm[p].status \in {"pending", "decided"}
    PROVE  e.perm[p].status = d.perm[p].status /\ e.perm[p].run = d.perm[p].run
           /\ d.perm[p].run # r
BY DEF Ended, OpenPerms

\* The end of a run is of no concern to other Sessions.
LEMMA EndedBeside ==
    ASSUME NEW st, NEW x, NEW s \in Sessions, NEW r \in Runs, NEW status, NEW cleanup,
           Ended(st.db, x.db, r, status, cleanup), st.db.run[r].session = s,
           \A t \in Sessions \ {s} : x.act[t] = st.act[t] /\ x.worker[t] = st.worker[t],
           st.armed \ {r} \subseteq x.armed
    PROVE  Beside(st, x, s)
<1>1. \A p \in Perms : x.db.perm[p].status \in {"pending", "decided"} =>
         x.db.perm[p].status = st.db.perm[p].status /\ x.db.perm[p].run = st.db.perm[p].run
  BY EndedAsked
<1>2. \A t \in Runs : x.db.run[t].session # s => t # r
  BY DEF Ended
<1> QED BY <1>1, <1>2 DEF Ended, Beside

\* The active run of a Session ends.
LEMMA LandsSteps ==
    ASSUME NEW st, NEW x, NEW s \in Sessions, NEW status, NEW cleanup,
           Good(st), Lands(st, x, s, status, cleanup)
    PROVE  Steps(st, x, s)
<1> DEFINE a == st.act[s]
           b == x.act[s]
           r == a.run
           d == st.db
           e == x.db
           w == st.worker[s]
<1>1. /\ x \in States /\ x.queue = st.queue /\ x.armed = st.armed /\ x.worker = st.worker
      /\ x.act = [st.act EXCEPT ![s] = [a EXCEPT !.pc = "final"]]
      /\ InFlight(a)
      /\ status \in Terminal /\ cleanup \in Cleanup
      /\ Ended(d, e, r, status, cleanup)
      /\ a.stop # "none" => status = a.stop
      /\ a.stop # "none" \/ a.failed \/ (DriverOf[s] = "cli" /\ a.result \in Results)
         => w \in Gone /\ cleanup = HostStatus(w)
  BY DEF Lands
<1>2. /\ a # Idle /\ a \in ActiveRecord /\ r \in Runs /\ d.run[r].session = s
      /\ d.run[r].status \in Busy /\ ~ IsTerminal(d, r)
  BY <1>1, ActiveRun
<1>3. Executing(d, a, s) /\ Staged(a, w, s) /\ Truthful(d, a, w, s) /\ Shut(d, a, w, s)
      /\ Asked(d, a, s) /\ Mine(d, a, s) /\ Timed(d, a, st.armed, s) /\ Ordered(d, s)
  BY DEF Good, Aright
<1>4. Referenced(d) /\ Line(d, st.queue) /\ st.queue \in Seq(Runs)
      /\ st.act \in [Sessions -> ActiveRecord]
  BY DEF Good, States
<1>5. \A t \in Sessions \ {s} : x.act[t] = st.act[t] /\ x.worker[t] = st.worker[t]
  BY <1>1, <1>4
<1>6. b = [a EXCEPT !.pc = "final"]
  BY <1>1, <1>4
<1>7. /\ b.pc = "final" /\ b.run = r /\ b.stop = a.stop /\ b.stopping = a.stopping
      /\ b.handle = a.handle /\ b.failed = a.failed /\ b.result = a.result
      /\ b.cleanup = a.cleanup
  BY <1>2, <1>6 DEF ActiveRecord
<1> HIDE DEF a, b, r, d, e, w
<1>8. Accepted(d, r)
  BY <1>2 DEF Accepted, Busy, Working
<1>9. /\ Retained(d, e) /\ Onward(d, e)
      /\ IsTerminal(e, r)
      /\ \A t \in Runs : IsTerminal(d, t) => IsTerminal(e, t)
      /\ \A t \in Runs \ {r} : e.run[t].status = d.run[t].status
      /\ \A t \in Runs : /\ e.run[t].session = d.run[t].session
                         /\ e.run[t].generation = d.run[t].generation
                         /\ e.run[t].started = d.run[t].started
  BY <1>1, <1>2, <1>4, <1>8, EndedKeeps
<1>10. st.armed \ {r} \subseteq x.armed
  BY <1>1
<1>11. Beside(st, x, s)
  BY <1>1, <1>2, <1>5, <1>10, EndedBeside DEF d, e
<1>12. \A y \in Terminal : y # "queued" /\ y \notin Busy
  BY DEF Terminal, Busy, Working
<1>13. SameQueued(d, e)
  <2>1. d.run[r].status # "queued" /\ e.run[r].status # "queued"
    BY <1>2, <1>9, <1>12 DEF IsTerminal, Busy
  <2> QED BY <1>9, <2>1 DEF SameQueued
<1>14. Line(e, x.queue)
  BY <1>1, <1>4, <1>13, LineKept
<1>15. Executing(e, b, s)
  BY <1>2, <1>7, <1>9 DEF Executing
<1>16. Staged(b, w, s)
  BY <1>3, <1>7 DEF Staged
<1>17. Truthful(e, b, w, s)
  BY <1>1, <1>7 DEF Truthful, Ended
<1>18. Shut(e, b, w, s)
  BY <1>1, <1>2, <1>3 DEF Shut, Ended
<1>19. Asked(e, b, s)
  <2> SUFFICES ASSUME NEW p \in Perms, e.perm[p].status \in {"pending", "decided"},
                      e.run[e.perm[p].run].session = s
               PROVE  FALSE
    BY DEF Asked
  <2>1. e.perm[p].status = d.perm[p].status /\ e.perm[p].run = d.perm[p].run
        /\ d.perm[p].run # r
    BY <1>1, EndedAsked
  <2>2. d.perm[p].run \in Runs
    BY <1>9, <2>1 DEF Retained
  <2>3. d.run[d.perm[p].run].session = s
    BY <1>9, <2>1, <2>2
  <2> QED BY <1>3, <2>1, <2>3 DEF Asked, r
<1>20. Mine(e, b, s)
  BY <1>3, <1>7, <1>9, <1>12 DEF Mine, IsTerminal, r
<1>21. Timed(e, b, x.armed, s)
  BY <1>1, <1>3, <1>7, <1>9 DEF Timed, IsTerminal, r
<1>22. Ordered(e, s)
  BY <1>3, <1>9 DEF Ordered
<1>23. Aright(x, s)
  BY <1>1, <1>15, <1>16, <1>17, <1>18, <1>19, <1>20, <1>21, <1>22 DEF Aright, b, e, w
<1>24. Good(x)
  BY <1>1, <1>9, <1>11, <1>14, <1>23, Assembled DEF d, e
<1>25. Turn(st, x, s)
  <2>1. \A t \in Runs : d.run[t].session # s => e.run[t].status = d.run[t].status
    BY <1>2, <1>9
  <2>2. \A t \in Runs : t = a.run /\ a.stop # "none" => e.run[t].status = a.stop
    BY <1>1 DEF Ended, r
  <2>3. e.artifact = d.artifact
    BY <1>1 DEF Ended
  <2> QED BY <1>2, <1>5, <1>7, <1>9, <2>1, <2>2, <2>3 DEF Turn, a, b, d, e, r
<1>26. Steady(st, x, s)
  BY <1>1 DEF Ended, Steady, d, e
<1> QED BY <1>24, <1>25, <1>26 DEF Steps

\* The queue stays in line when the element j ends and leaves it.
LEMMA LineWithout ==
    ASSUME NEW d, NEW e, NEW q \in Seq(Runs), NEW y, NEW j \in 1 .. Len(q),
           Line(d, q), Without(q, y, j), NoLongerWaits(d, e, q[j])
    PROVE  Line(e, y)
<1> DEFINE at(i) == IF i < j THEN i ELSE i + 1
<1>1. Len(q) \in Nat /\ Len(y) = Len(q) - 1 /\ y \in Seq(Runs)
  BY DEF Without
<1>2. \A i \in 1 .. Len(y) : /\ at(i) \in 1 .. Len(q) /\ at(i) # j /\ y[i] = q[at(i)]
                             /\ y[i] \in Runs
  BY <1>1 DEF Without
<1>3. \A i, k \in 1 .. Len(y) : i < k => at(i) < at(k)
  BY <1>1
<1>4. \A i \in 1 .. Len(q) : i # j => \E k \in 1 .. Len(y) : at(k) = i
  <2> SUFFICES ASSUME NEW i \in 1 .. Len(q), i # j
               PROVE  \E k \in 1 .. Len(y) : at(k) = i
    OBVIOUS
  <2>1. CASE i < j
    <3>1. i \in 1 .. Len(y) /\ at(i) = i
      BY <1>1, <2>1
    <3> QED BY <3>1
  <2>2. CASE i > j
    <3>1. i - 1 \in 1 .. Len(y) /\ at(i - 1) = i
      BY <1>1, <2>2
    <3> QED BY <3>1
  <2> QED BY <2>1, <2>2
<1>5. \A i \in 1 .. Len(y) : y[i] # q[j] /\ e.run[y[i]].status = d.run[y[i]].status
  BY <1>2 DEF Line, NoLongerWaits
<1> HIDE DEF at
<1>6. ASSUME NEW i \in 1 .. Len(y) PROVE e.run[y[i]].status = "queued"
  <2>1. at(i) \in 1 .. Len(q) /\ y[i] = q[at(i)]
    BY <1>2
  <2>2. d.run[q[at(i)]].status = "queued"
    BY <2>1 DEF Line
  <2> QED BY <1>5, <2>1, <2>2
<1>7. \A i, k \in 1 .. Len(y) : i # k => y[i] # y[k]
  <2> SUFFICES ASSUME NEW i \in 1 .. Len(y), NEW k \in 1 .. Len(y), i # k
               PROVE  y[i] # y[k]
    OBVIOUS
  <2>1. at(i) # at(k)
    BY <1>1, <1>2, <1>3
  <2> QED BY <1>2, <2>1 DEF Line
<1>8. \A i, k \in 1 .. Len(y) : i < k /\ e.run[y[i]].session = e.run[y[k]].session =>
         e.run[y[i]].generation < e.run[y[k]].generation
  <2> SUFFICES ASSUME NEW i \in 1 .. Len(y), NEW k \in 1 .. Len(y), i < k,
                      e.run[y[i]].session = e.run[y[k]].session
               PROVE  e.run[y[i]].generation < e.run[y[k]].generation
    OBVIOUS
  <2>1. /\ at(i) \in 1 .. Len(q) /\ at(k) \in 1 .. Len(q) /\ at(i) < at(k)
        /\ y[i] = q[at(i)] /\ y[k] = q[at(k)] /\ y[i] \in Runs /\ y[k] \in Runs
    BY <1>2, <1>3
  <2>2. d.run[q[at(i)]].session = d.run[q[at(k)]].session =>
          d.run[q[at(i)]].generation < d.run[q[at(k)]].generation
    BY <2>1 DEF Line
  <2> QED BY <2>1, <2>2 DEF NoLongerWaits
<1>9. \A r \in Runs : e.run[r].status = "queued" => \E i \in 1 .. Len(y) : y[i] = r
  <2> SUFFICES ASSUME NEW r \in Runs, e.run[r].status = "queued"
               PROVE  \E i \in 1 .. Len(y) : y[i] = r
    OBVIOUS
  <2>1. r # q[j] /\ d.run[r].status = "queued"
    BY DEF NoLongerWaits
  <2>2. PICK i \in 1 .. Len(q) : q[i] = r
    BY <2>1 DEF Line
  <2>3. PICK k \in 1 .. Len(y) : at(k) = i
    BY <1>4, <2>1, <2>2
  <2> QED BY <1>2, <2>2, <2>3
<1> QED BY <1>6, <1>7, <1>8, <1>9 DEF Line

\* A run that waits ends.
LEMMA DropsSteps ==
    ASSUME NEW st, NEW x, NEW r \in Runs, NEW status, NEW cleanup,
           Good(st), Drops(st, x, r, status, cleanup)
    PROVE  Steps(st, x, st.db.run[r].session)
<1> DEFINE s == st.db.run[r].session
           a == st.act[s]
           d == st.db
           e == x.db
           w == st.worker[s]
<1>1. /\ x \in States
      /\ x.act = st.act /\ x.worker = st.worker /\ x.armed = st.armed \ {r}
      /\ d.run[r].status = "queued"
      /\ status \in Terminal /\ cleanup \in Cleanup
      /\ Ended(d, e, r, status, cleanup)
  BY DEF Drops
<1>2. PICK j \in 1 .. Len(st.queue) : st.queue[j] = r /\ Without(st.queue, x.queue, j)
  BY DEF Drops
<1>3. Referenced(d) /\ Line(d, st.queue) /\ st.queue \in Seq(Runs)
  BY DEF Good, States
<1>4. Accepted(d, r) /\ ~ IsTerminal(d, r)
  BY <1>1 DEF Accepted, IsTerminal, Terminal
<1>5. s \in Sessions
  BY <1>3, <1>4 DEF Referenced
<1>6. Executing(d, a, s) /\ Staged(a, w, s) /\ Truthful(d, a, w, s) /\ Shut(d, a, w, s)
      /\ Asked(d, a, s) /\ Mine(d, a, s) /\ Timed(d, a, st.armed, s) /\ Ordered(d, s)
  BY <1>5 DEF Good, Aright
<1>7. d.run[r].session = s
  OBVIOUS
<1> HIDE DEF s, a, d, e, w
<1>8. /\ Retained(d, e) /\ Onward(d, e)
      /\ IsTerminal(e, r)
      /\ \A t \in Runs : IsTerminal(d, t) => IsTerminal(e, t)
      /\ \A t \in Runs \ {r} : e.run[t].status = d.run[t].status
      /\ \A t \in Runs : /\ e.run[t].session = d.run[t].session
                         /\ e.run[t].generation = d.run[t].generation
                         /\ e.run[t].started = d.run[t].started
  BY <1>1, <1>3, <1>4, EndedKeeps
<1>9. Beside(st, x, s)
  <2>1. st.armed \ {r} \subseteq x.armed
    BY <1>1
  <2>2. \A t \in Sessions \ {s} : x.act[t] = st.act[t] /\ x.worker[t] = st.worker[t]
    BY <1>1
  <2> QED BY <1>1, <1>5, <1>7, <2>1, <2>2, EndedBeside DEF d, e
<1>10. \A y \in Terminal : y # "queued" /\ y \notin Busy
  BY DEF Terminal, Busy, Working
<1>11. Line(e, x.queue)
  <2>1. NoLongerWaits(d, e, st.queue[j])
    BY <1>2, <1>8, <1>10 DEF IsTerminal, NoLongerWaits
  <2> QED BY <1>2, <1>3, <2>1, LineWithout
<1>12. a.run # r
  <2>1. a = Idle => a.run # r
    BY StoreAssumption DEF Idle
  <2>2. a # Idle => d.run[a.run].status # "queued"
    BY <1>6, <1>10 DEF Executing, IsTerminal, Busy
  <2> QED BY <1>1, <2>1, <2>2
<1>13. Executing(e, a, s)
  BY <1>6, <1>8, <1>12 DEF Executing, IsTerminal
<1>14. Truthful(e, a, w, s)
  <2>1. a.pc = "final" => a.run \in Runs
    BY <1>6 DEF Executing, Idle
  <2>2. a.pc = "final" => e.run[a.run].cleanup = d.run[a.run].cleanup
    BY <1>1, <1>12, <2>1 DEF Ended
  <2> QED BY <1>6, <2>2 DEF Truthful
<1>15. Shut(e, a, w, s)
  BY <1>1, <1>5, <1>6 DEF Shut, Ended
<1>16. Asked(e, a, s)
  <2> SUFFICES ASSUME NEW p \in Perms, e.perm[p].status \in {"pending", "decided"},
                      e.run[e.perm[p].run].session = s
               PROVE  a.run = e.perm[p].run /\ InFlight(a) /\ a.handle
    BY DEF Asked
  <2>1. e.perm[p].status = d.perm[p].status /\ e.perm[p].run = d.perm[p].run
        /\ d.perm[p].run # r
    BY <1>1, EndedAsked
  <2>2. d.perm[p].run \in Runs
    BY <1>8, <2>1 DEF Retained
  <2>3. d.run[d.perm[p].run].session = s
    BY <1>8, <2>1, <2>2
  <2> QED BY <1>6, <2>1, <2>3 DEF Asked
<1>17. Mine(e, a, s)
  BY <1>6, <1>8, <1>10 DEF Mine, IsTerminal
<1>18. Timed(e, a, x.armed, s)
  BY <1>1, <1>6, <1>8 DEF Timed, IsTerminal
<1>19. Ordered(e, s)
  BY <1>6, <1>8 DEF Ordered
<1>20. Aright(x, s)
  BY <1>1, <1>6, <1>13, <1>14, <1>15, <1>16, <1>17, <1>18, <1>19 DEF Aright, a, e, w
<1>21. Good(x)
  BY <1>1, <1>5, <1>8, <1>9, <1>11, <1>20, Assembled DEF d, e
<1>22. Turn(st, x, s)
  <2>1. \A t \in Runs : d.run[t].session # s => e.run[t].status = d.run[t].status
    BY <1>7, <1>8
  <2>2. \A t \in Runs : t = a.run /\ IsTerminal(e, t) => IsTerminal(d, t)
    BY <1>8, <1>12 DEF IsTerminal
  <2>3. e.artifact = d.artifact
    BY <1>1 DEF Ended
  <2>4. a = Idle \/ a # Idle
    OBVIOUS
  <2> QED BY <1>1, <1>8, <2>1, <2>2, <2>3, <2>4 DEF Turn, a, d, e
<1>23. Steady(st, x, s)
  BY <1>1 DEF Ended, Steady, d, e
<1> QED BY <1>21, <1>22, <1>23 DEF Steps, s

\* A timer is cleared that the run does not need.
LEMMA DisarmsSteps ==
    ASSUME NEW st, NEW x, NEW r \in Runs, Good(st), Accepted(st.db, r), Disarms(st, x, r)
    PROVE  Steps(st, x, st.db.run[r].session)
<1> DEFINE s == st.db.run[r].session
           a == st.act[s]
           d == st.db
           w == st.worker[s]
<1>1. /\ x \in States
      /\ x.db = st.db /\ x.queue = st.queue /\ x.act = st.act /\ x.worker = st.worker
      /\ x.armed = st.armed \ {r}
      /\ IsTerminal(d, r) \/ (a.run = r /\ a.stop # "none")
  BY DEF Disarms
<1>2. s \in Sessions
  BY DEF Good, Referenced
<1>3. Executing(d, a, s) /\ Staged(a, w, s) /\ Truthful(d, a, w, s) /\ Shut(d, a, w, s)
      /\ Asked(d, a, s) /\ Mine(d, a, s) /\ Timed(d, a, st.armed, s) /\ Ordered(d, s)
  BY <1>2 DEF Good, Aright
<1>4. d.run[r].session = s
  OBVIOUS
<1> HIDE DEF s, a, d, w
<1>5. Timed(d, a, x.armed, s)
  BY <1>1, <1>3 DEF Timed
<1>6. Aright(x, s)
  BY <1>1, <1>3, <1>5 DEF Aright, a, d, w
<1>7. Retained(d, d) /\ Beside(st, x, s)
  BY <1>1, <1>4 DEF Good, Referenced, Retained, Beside, d
<1>8. Good(x)
  BY <1>1, <1>2, <1>6, <1>7, Assembled DEF Good, d
<1>9. Turn(st, x, s)
  BY <1>1 DEF Turn, Onward
<1>10. Steady(st, x, s)
  BY <1>1 DEF Steady
<1> QED BY <1>8, <1>9, <1>10 DEF Steps, s

\* A Session starts to close, or is closed.
LEMMA ClosesSteps ==
    ASSUME NEW st, NEW x, NEW s \in Sessions, NEW v, Good(st), Closes(st, x, s, v)
    PROVE  Good(x) /\ Turn(st, x, s) /\ (st.act[s] = Idle => Steps(st, x, s))
<1> DEFINE a == st.act[s]
           d == st.db
           e == x.db
           w == st.worker[s]
<1>1. /\ x \in States
      /\ x.queue = st.queue /\ x.armed = st.armed /\ x.act = st.act /\ x.worker = st.worker
      /\ d.session[s].status # "absent"
      /\ SessionSet(d, e, s, v)
      /\ v = "closing" \/ (v = "closed" /\ a = Idle /\ w # "live")
  BY DEF Closes
<1>2. Executing(d, a, s) /\ Staged(a, w, s) /\ Truthful(d, a, w, s) /\ Shut(d, a, w, s)
      /\ Asked(d, a, s) /\ Mine(d, a, s) /\ Timed(d, a, st.armed, s) /\ Ordered(d, s)
  BY DEF Good, Aright
<1> HIDE DEF a, d, e, w
<1>3. /\ e \in Database
      /\ e.run = d.run /\ e.perm = d.perm /\ e.artifact = d.artifact
      /\ \A t \in Sessions \ {s} : e.session[t] = d.session[t]
      /\ e.session[s].status = v
  BY <1>1 DEF SessionSet
<1>4. Shut(e, a, w, s)
  BY <1>1, <1>3 DEF Shut
<1>5. Executing(e, a, s) /\ Truthful(e, a, w, s) /\ Asked(e, a, s) /\ Mine(e, a, s)
      /\ Timed(e, a, st.armed, s) /\ Ordered(e, s)
  BY <1>2, <1>3 DEF Executing, Truthful, Asked, Mine, Timed, Ordered, IsTerminal
<1>6. Aright(x, s)
  BY <1>1, <1>2, <1>4, <1>5 DEF Aright, a, e, w
<1>7. Retained(d, e)
  BY <1>1, <1>3 DEF Good, Referenced, Retained, Accepted, d
<1>8. Beside(st, x, s)
  BY <1>1, <1>3 DEF Beside, d, e
<1>9. Line(e, x.queue)
  BY <1>1, <1>3 DEF Good, Line, d
<1>10. Good(x)
  BY <1>1, <1>6, <1>7, <1>8, <1>9, Assembled DEF d, e
<1>11. Onward(d, e)
  BY <1>1, <1>3 DEF Onward, IsTerminal
<1>12. Turn(st, x, s)
  BY <1>1, <1>3, <1>11 DEF Turn, IsTerminal, d, e
<1>13. st.act[s] = Idle => Steady(st, x, s)
  BY <1>1, <1>3 DEF Steady, d, e
<1> QED BY <1>10, <1>12, <1>13 DEF Steps

\* execute() returns.
LEMMA LeavesSteps ==
    ASSUME NEW st, NEW x, NEW s \in Sessions, NEW v, Good(st), Leaves(st, x, s, v)
    PROVE  Steps(st, x, s)
<1> DEFINE a == st.act[s]
           r == a.run
           d == st.db
           e == x.db
           w == st.worker[s]
<1>1. /\ x \in States
      /\ x.queue = st.queue /\ x.worker = st.worker
      /\ a.pc = "final"
      /\ x.armed = st.armed \ {r}
      /\ x.act = [st.act EXCEPT ![s] = Idle]
      /\ SessionSet(d, e, s, v)
      /\ v = d.session[s].status \/ (v = "closed" /\ w # "live")
  BY DEF Leaves
<1>2. Executing(d, a, s) /\ Staged(a, w, s) /\ Truthful(d, a, w, s) /\ Shut(d, a, w, s)
      /\ Asked(d, a, s) /\ Mine(d, a, s) /\ Timed(d, a, st.armed, s) /\ Ordered(d, s)
  BY DEF Good, Aright
<1>3. st.act \in [Sessions -> ActiveRecord]
  BY DEF Good, States
<1>4. x.act[s] = Idle /\ \A t \in Sessions \ {s} : x.act[t] = st.act[t]
  BY <1>1, <1>3
<1>5. a # Idle /\ r \in Runs /\ d.run[r].session = s /\ IsTerminal(d, r)
  BY <1>1, <1>2 DEF Executing, Idle
<1> HIDE DEF a, r, d, e, w
<1>6. /\ e \in Database
      /\ e.run = d.run /\ e.perm = d.perm /\ e.artifact = d.artifact
      /\ \A t \in Sessions \ {s} : e.session[t] = d.session[t]
      /\ e.session[s].status = v
  BY <1>1 DEF SessionSet
<1>7. d.session[s].status \notin {"absent", "closed"}
  BY <1>2, <1>5 DEF Shut
<1>8. Executing(e, Idle, s)
  BY DEF Executing
<1>9. Staged(Idle, w, s) /\ Truthful(e, Idle, w, s)
  BY <1>2 DEF Staged, Truthful, Idle, Cleanup
<1>10. Shut(e, Idle, w, s)
  BY <1>1, <1>6, <1>7 DEF Shut
<1>11. Asked(e, Idle, s)
  BY <1>1, <1>2, <1>6 DEF Asked, InFlight
<1>12. Mine(e, Idle, s)
  <2>1. d.run[r].status \notin Busy
    BY <1>5 DEF IsTerminal, Terminal, Busy, Working
  <2> QED BY <1>2, <1>6, <2>1 DEF Mine, r
<1>13. Timed(e, Idle, x.armed, s)
  BY <1>1, <1>2, <1>5, <1>6 DEF Timed, IsTerminal, r
<1>14. Ordered(e, s)
  BY <1>2, <1>6 DEF Ordered, IsTerminal
<1>15. Aright(x, s)
  BY <1>1, <1>4, <1>8, <1>9, <1>10, <1>11, <1>12, <1>13, <1>14 DEF Aright, e, w
<1>16. Retained(d, e)
  BY <1>1, <1>6, <1>7 DEF Good, Referenced, Retained, Accepted, d
<1>17. Beside(st, x, s)
  BY <1>1, <1>4, <1>5, <1>6 DEF Beside, d, e
<1>18. Line(e, x.queue)
  BY <1>1, <1>6 DEF Good, Line, d
<1>19. Good(x)
  BY <1>1, <1>15, <1>16, <1>17, <1>18, Assembled DEF d, e
<1>20. Onward(d, e)
  BY <1>1, <1>6, <1>7 DEF Onward, IsTerminal
<1>21. Turn(st, x, s)
  BY <1>1, <1>4, <1>6, <1>20 DEF Turn, IsTerminal, d, e
<1>22. Steady(st, x, s)
  BY <1>1, <1>4, <1>6 DEF Steady, d, e
<1> QED BY <1>19, <1>21, <1>22 DEF Steps

\* setSessionStatus.
LEMMA SessionStatusSet ==
    ASSUME NEW d \in Database, NEW s \in Sessions, NEW v \in {"closing", "closed"}
    PROVE  SessionSet(d, SetSessionStatus(d, s, v), s,
                      IF d.session[s].status = "closed" THEN "closed" ELSE v)
<1> DEFINE q == [d.session[s] EXCEPT !.status = v]
           e == [d EXCEPT !.session[s] = q]
<1>1. d.session \in [Sessions -> SessionRecord]
  BY DEF Database
<1>2. q \in SessionRecord /\ q.status = v
  BY <1>1 DEF SessionRecord
<1>3. CASE SessionConflict(d, s, v) \/ d.session[s].status = v
  <2>1. SetSessionStatus(d, s, v) = d
    <3>1. CASE SessionConflict(d, s, v)
      BY <3>1 DEF SetSessionStatus
    <3>2. CASE ~ SessionConflict(d, s, v)
      <4>1. q = d.session[s]
        BY <1>1, <1>3, <3>2 DEF SessionRecord
      <4>2. SetSessionStatus(d, s, v) = e
        BY <3>2 DEF SetSessionStatus
      <4> HIDE DEF q
      <4>3. e = d
        BY <1>1, <4>1 DEF Database
      <4> QED BY <4>2, <4>3
    <3> QED BY <3>1, <3>2
  <2>2. d.session[s].status = IF d.session[s].status = "closed" THEN "closed" ELSE v
    BY <1>3 DEF SessionConflict
  <2> QED BY <2>1, <2>2 DEF SessionSet
<1>4. CASE ~ SessionConflict(d, s, v) /\ d.session[s].status # v
  <2>1. d.session[s].status # "closed"
    BY <1>4 DEF SessionConflict
  <2>2. SetSessionStatus(d, s, v) = e
    BY <1>4 DEF SetSessionStatus
  <2> HIDE DEF q
  <2>3. /\ e \in Database /\ e.run = d.run /\ e.perm = d.perm /\ e.artifact = d.artifact
        /\ e.session = [d.session EXCEPT ![s] = q]
    BY <1>1, <1>2 DEF Database
  <2>4. e.session[s].status = v /\ \A t \in Sessions \ {s} : e.session[t] = d.session[t]
    BY <1>1, <1>2, <2>3
  <2> QED BY <2>1, <2>2, <2>3, <2>4 DEF SessionSet
<1> QED BY <1>3, <1>4

----------------------------------------------------------------------------
(* Parts of steps *)

\* host.closeSession() only tells a live Worker of its Session to go.
LEMMA CloseWorkerRevises ==
    ASSUME NEW st \in States, NEW s \in Sessions
    PROVE  Revised(st, CloseWorker(st, s), s, st.act[s], Shuttered(st.worker[s]))
<1> DEFINE f == [st.worker EXCEPT ![s] = "closing"]
           x == [st EXCEPT !.worker = f]
<1>1. st.worker \in [Sessions -> WorkerStates]
  BY DEF States
<1>2. f \in [Sessions -> WorkerStates] /\ f[s] = "closing"
      /\ \A t \in Sessions \ {s} : f[t] = st.worker[t]
  BY <1>1 DEF WorkerStates
<1>3. CloseWorker(st, s) = IF st.worker[s] = "live" THEN x ELSE st
  BY DEF CloseWorker
<1> HIDE DEF f
<1>4. /\ x \in States /\ x.db = st.db /\ x.queue = st.queue /\ x.armed = st.armed
      /\ x.act = st.act /\ x.worker = f
  BY <1>2 DEF States
<1> HIDE DEF x
<1> QED BY <1>2, <1>3, <1>4 DEF Revised, Shuttered

\* Replacing the ActiveRun of a Session leaves the rest of the state as it is.
LEMMA RecordRevises ==
    ASSUME NEW st \in States, NEW s \in Sessions, NEW b \in ActiveRecord
    PROVE  Revised(st, [st EXCEPT !.act[s] = b], s, b, st.worker[s])
<1> DEFINE f == [st.act EXCEPT ![s] = b]
           x == [st EXCEPT !.act = f]
<1>1. st.act \in [Sessions -> ActiveRecord]
  BY DEF States
<1>2. f \in [Sessions -> ActiveRecord] /\ f[s] = b
      /\ \A t \in Sessions \ {s} : f[t] = st.act[t]
  BY <1>1
<1>3. [st EXCEPT !.act[s] = b] = x
  OBVIOUS
<1> HIDE DEF f
<1>4. /\ x \in States /\ x.db = st.db /\ x.queue = st.queue /\ x.armed = st.armed
      /\ x.act = f /\ x.worker = st.worker
  BY <1>2 DEF States
<1> HIDE DEF x
<1>5. Revised(st, x, s, b, st.worker[s])
  BY <1>2, <1>4 DEF Revised
<1> QED BY <1>3, <1>5

\* Replacing the database leaves the memory of the Runtime as it is.
LEMMA DatabaseRewritten ==
    ASSUME NEW st \in States, NEW e \in Database
    PROVE  Rewritten(st, [st EXCEPT !.db = e], e)
<1> DEFINE x == [st EXCEPT !.db = e]
<1>1. /\ x \in States /\ x.db = e /\ x.queue = st.queue /\ x.armed = st.armed
      /\ x.act = st.act /\ x.worker = st.worker
  BY DEF States
<1> HIDE DEF x
<1>2. Rewritten(st, x, e)
  BY <1>1 DEF Rewritten
<1> QED BY <1>2 DEF x

\* Two changes to what the Runtime holds of a Session are one such change.
LEMMA RevisedTwice ==
    ASSUME NEW st, NEW y, NEW x, NEW s, NEW b, NEW v, NEW c, NEW w,
           Revised(st, y, s, b, v), Revised(y, x, s, c, w)
    PROVE  Revised(st, x, s, c, w)
BY DEF Revised

\* A record in flight changes, perhaps with its Worker, and stays in flight.
LEMMA FlightSteps ==
    ASSUME NEW st, NEW x, NEW s \in Sessions, NEW b, NEW w, Good(st),
           InFlight(st.act[s]), Revised(st, x, s, b, w),
           InFlight(b), Carries(st.act[s], b), Staged(b, w, s),
           w = "live" => st.worker[s] = "live" \/ st.act[s].stop = "none"
    PROVE  Steps(st, x, s)
<1>1. st.act[s] # Idle
  BY DEF InFlight, Idle
<1>2. Shut(st.db, st.act[s], st.worker[s], s)
  BY DEF Good, Aright
<1>3. Shut(st.db, b, w, s)
  BY <1>1, <1>2 DEF Shut
<1>4. Truthful(st.db, b, w, s)
  BY DEF InFlight, Truthful
<1>5. Adjusts(st, x, s)
  BY <1>1, <1>3, <1>4 DEF Adjusts, Revised, Carries, InFlight
<1> QED BY <1>5, AdjustsSteps

\* The database changes with the run that a Session works on.
LEMMA QuietSteps ==
    ASSUME NEW st, NEW x, NEW e, NEW s \in Sessions, Good(st),
           InFlight(st.act[s]), Rewritten(st, x, e), QuietWork(st.db, e, st.act[s].run)
    PROVE  Steps(st, x, s)
<1>1. Works(st, x, s)
  BY DEF Works, Rewritten, QuietWork
<1> QED BY <1>1, WorksSteps

\* Sound: execute() moves on while a permission of its run is written.
LEMMA AskingSteps ==
    ASSUME NEW st, NEW x, NEW e, NEW s \in Sessions, Good(st),
           InFlight(st.act[s]), Rewritten(st, x, e), AskingWork(st.db, e, st.act[s].run),
           st.act[s].handle
    PROVE  Steps(st, x, s)
<1>1. Works(st, x, s)
  BY DEF Works, Rewritten, AskingWork
<1> QED BY <1>1, WorksSteps

\* Sound: execute() moves on while an artifact of its run is registered.
LEMMA FilingSteps ==
    ASSUME NEW st, NEW x, NEW e, NEW s \in Sessions, Good(st),
           InFlight(st.act[s]), Rewritten(st, x, e), FilingWork(st.db, e, st.act[s].run),
           st.act[s].stop = "none"
    PROVE  Steps(st, x, s)
<1>1. Works(st, x, s)
  BY DEF Works, Rewritten, FilingWork
<1> QED BY <1>1, WorksSteps

\* Events alone change nothing.
LEMMA SameGood ==
    ASSUME NEW x, NEW y, Good(x), Same(x, y)
    PROVE  Good(y) /\ \A s \in Sessions : Turn(x, y, s) /\ Steady(x, y, s)
<1> DEFINE d == x.db
           e == y.db
<1>1. /\ y \in States
      /\ y.queue = x.queue /\ y.armed = x.armed /\ y.act = x.act /\ y.worker = x.worker
  BY DEF Same
<1>2. /\ e \in Database
      /\ e.perm = d.perm /\ e.artifact = d.artifact
      /\ \A s \in Sessions : e.session[s].status = d.session[s].status
      /\ \A r \in Runs :
            /\ e.run[r].session = d.run[r].session
            /\ e.run[r].generation = d.run[r].generation
            /\ e.run[r].status = d.run[r].status
            /\ e.run[r].started = d.run[r].started
            /\ e.run[r].cleanup = d.run[r].cleanup
  BY DEF Same, Noted
<1>3. /\ Referenced(d) /\ Line(d, x.queue) /\ x.queue \in Seq(Runs)
      /\ \A s \in Sessions : Aright(x, s)
      /\ \A r \in x.armed : Accepted(d, r)
  BY DEF Good, States
<1> HIDE DEF d, e
<1>4. Retained(d, e)
  BY <1>2, <1>3 DEF Retained, Referenced, Accepted
<1>5. Referenced(e)
  BY <1>3, <1>4, RetainedReferenced
<1>6. Line(e, y.queue)
  <2>1. SameQueued(d, e)
    BY <1>2 DEF SameQueued
  <2> QED BY <1>1, <1>3, <2>1, LineKept
<1>7. ASSUME NEW s \in Sessions PROVE Aright(y, s)
  <2> DEFINE a == x.act[s]
             w == x.worker[s]
  <2>1. Executing(d, a, s) /\ Staged(a, w, s) /\ Truthful(d, a, w, s) /\ Shut(d, a, w, s)
        /\ Asked(d, a, s) /\ Mine(d, a, s) /\ Timed(d, a, x.armed, s) /\ Ordered(d, s)
    BY <1>3 DEF Aright, d
  <2> HIDE DEF a, w
  <2>2. Executing(e, a, s) /\ Shut(e, a, w, s) /\ Mine(e, a, s)
        /\ Timed(e, a, x.armed, s) /\ Ordered(e, s)
    BY <1>2, <2>1 DEF Executing, Shut, Mine, Timed, Ordered, IsTerminal
  <2>3. Truthful(e, a, w, s)
    BY <1>2, <2>1 DEF Executing, Truthful, Idle
  <2>4. Asked(e, a, s)
    BY <1>2, <1>5, <2>1 DEF Asked, Referenced
  <2> QED BY <1>1, <2>1, <2>2, <2>3, <2>4 DEF Aright, e, a, w
<1>8. \A r \in y.armed : Accepted(e, r)
  <2>1. x.armed \subseteq Runs
    BY DEF Good, States
  <2> SUFFICES ASSUME NEW r \in y.armed PROVE Accepted(e, r)
    OBVIOUS
  <2>2. r \in Runs /\ Accepted(d, r)
    BY <1>1, <1>3, <2>1
  <2> QED BY <1>2, <2>2 DEF Accepted
<1>9. Good(y)
  BY <1>1, <1>5, <1>6, <1>7, <1>8 DEF Good, e
<1>10. Onward(d, e)
  BY <1>2 DEF Onward, IsTerminal
<1>11. ASSUME NEW s \in Sessions PROVE Turn(x, y, s)
  BY <1>1, <1>2, <1>10 DEF Turn, IsTerminal, d, e
<1>12. ASSUME NEW s \in Sessions PROVE Steady(x, y, s)
  BY <1>1, <1>2 DEF Steady, d, e
<1> QED BY <1>9, <1>11, <1>12

\* Writing events, or erasing them, is sound for every Session.
LEMMA SameSteps ==
    ASSUME NEW x, NEW y, NEW s \in Sessions, Good(x), Same(x, y)
    PROVE  Steps(x, y, s)
BY SameGood DEF Steps

\* A run that is queued is not the one its Session works on.
LEMMA QueuedRun ==
    ASSUME NEW st, NEW r \in Runs, Good(st), Accepted(st.db, r), ~ IsTerminal(st.db, r),
           st.act[st.db.run[r].session].run # r
    PROVE  /\ st.db.run[r].status = "queued"
           /\ \E i \in 1 .. Len(st.queue) : st.queue[i] = r
<1> DEFINE s == st.db.run[r].session
<1>1. s \in Sessions
  BY DEF Good, Referenced
<1>2. Mine(st.db, st.act[s], s)
  BY <1>1 DEF Good, Aright
<1>3. st.db.run[r].status \notin Busy
  BY <1>2 DEF Mine
<1>4. st.db.run[r] \in RunRecord
  BY DEF Good, States, Database
<1>5. st.db.run[r].status = "queued"
  BY <1>3, <1>4 DEF RunRecord, Accepted, IsTerminal, Busy
<1> QED BY <1>5 DEF Good, Line

\* Numbers have a least one.
LEMMA LeastMember ==
    ASSUME NEW U \in SUBSET Nat, U # {}
    PROVE  Min(U) \in U /\ \A n \in U : Min(U) <= n
<1>1. U \subseteq Nat
  OBVIOUS
<1>2. PICK k \in U : \A n \in U : ~ (<<n, k>> \in OpToRel(<, Nat))
  BY <1>1, NatLessThanWellFounded, WFMin
<1>3. \A n \in U : ~ (n < k)
  BY <1>1, <1>2 DEF OpToRel
<1>4. \E m \in U : \A n \in U : m =< n
  BY <1>1, <1>3
<1> QED BY <1>4 DEF Min

\* Removing an element of a queue by its place.
LEMMA RemovedWithout ==
    ASSUME NEW q \in Seq(Runs), NEW k \in 1 .. Len(q)
    PROVE  Without(q, RemoveAt(q, k), k)
<1> DEFINE a == SubSeq(q, 1, k - 1)
           b == SubSeq(q, k + 1, Len(q))
<1>1. /\ a \in Seq(Runs) /\ Len(a) = k - 1 /\ \A i \in 1 .. k - 1 : a[i] = q[i]
      /\ b \in Seq(Runs) /\ Len(b) = Len(q) - k
      /\ \A i \in 1 .. Len(q) - k : b[i] = q[k + i]
  OBVIOUS
<1>2. RemoveAt(q, k) = a \o b
  BY DEF RemoveAt
<1> HIDE DEF a, b
<1>a. k \in Nat /\ Len(q) \in Nat /\ 1 <= k /\ k <= Len(q)
  OBVIOUS
<1>3. a \o b \in Seq(Runs) /\ Len(a \o b) = Len(q) - 1
  <2>1. a \in Seq(Runs) /\ b \in Seq(Runs)
    BY <1>1
  <2>2. a \o b \in Seq(Runs) /\ Len(a \o b) = Len(a) + Len(b)
    BY <2>1
  <2> QED BY <1>1, <1>a, <2>2
<1>4. ASSUME NEW i \in 1 .. Len(a \o b)
      PROVE  (a \o b)[i] = IF i < k THEN q[i] ELSE q[i + 1]
  <2>1. CASE i < k
    BY <1>1, <1>3, <2>1
  <2>2. CASE i >= k
    <3> DEFINE m == i - (k - 1)
    <3>1. (a \o b)[i] = b[m]
      BY <1>1, <1>3, <2>2
    <3>2. m \in 1 .. Len(q) - k /\ k + m = i + 1 /\ ~ (i < k)
      BY <1>3, <1>a, <2>2
    <3> HIDE DEF m
    <3>3. b[m] = q[i + 1]
      BY <1>1, <3>2
    <3> QED BY <3>1, <3>2, <3>3
  <2> QED BY <1>3, <2>1, <2>2
<1> QED BY <1>2, <1>3, <1>4 DEF Without

\* A run that waits leaves the queue.
LEMMA DequeueWithout ==
    ASSUME NEW st \in States, NEW r, \E i \in 1 .. Len(st.queue) : st.queue[i] = r
    PROVE  \E j \in 1 .. Len(st.queue) :
              /\ st.queue[j] = r
              /\ Dequeue(st, r) = [st EXCEPT !.queue = RemoveAt(st.queue, j)]
<1> DEFINE I == {i \in 1 .. Len(st.queue) : st.queue[i] = r}
<1>0. I # {} /\ I \subseteq Nat
  OBVIOUS
<1>2. Min(I) \in I
  BY <1>0, LeastMember
<1>3. Dequeue(st, r) = [st EXCEPT !.queue = RemoveAt(st.queue, Min(I))]
  BY <1>0 DEF Dequeue
<1> QED BY <1>2, <1>3

\* The record of an active run with a reason to stop.
Told(st, s, reason, e, to) ==
    [[st EXCEPT !.act[s].stop = reason, !.db = e] EXCEPT !.act[s].stopping = to]

Puts(st, y, e) == y = [st EXCEPT !.db = e]

Tells(a, b, reason, to) == b = [a EXCEPT !.stop = reason, !.stopping = to]

Put(y, s, b) == [y EXCEPT !.act[s] = b]

\* Two changes of a record are one.
LEMMA Twofold ==
    ASSUME NEW st \in States, NEW s \in Sessions, NEW e, NEW reason, NEW to, NEW y, NEW b,
           Puts(st, y, e), Tells(st.act[s], b, reason, to)
    PROVE  Told(st, s, reason, e, to) = Put(y, s, b)
<1>0. y = [st EXCEPT !.db = e] /\ b = [st.act[s] EXCEPT !.stop = reason, !.stopping = to]
  BY DEF Puts, Tells
<1> DEFINE c == [st.act[s] EXCEPT !.stop = reason]
<1>1. st.act \in [Sessions -> ActiveRecord]
  BY DEF States
<1>2. b = [c EXCEPT !.stopping = to]
  BY <1>0, <1>1 DEF ActiveRecord
<1> HIDE DEF c
<1> DEFINE f == [st.act EXCEPT ![s] = c]
           g == [f EXCEPT ![s] = [f[s] EXCEPT !.stopping = to]]
<1>3. g = [st.act EXCEPT ![s] = b]
  BY <1>1, <1>2
<1>4. [st EXCEPT !.act[s].stop = reason, !.db = e] = [st EXCEPT !.act = f, !.db = e]
  BY DEF States, c
<1> HIDE DEF f
<1>5. [[st EXCEPT !.act = f, !.db = e] EXCEPT !.act[s].stopping = to]
      = [st EXCEPT !.act = g, !.db = e]
  BY DEF States
<1>6. [y EXCEPT !.act[s] = b] = [st EXCEPT !.act = g, !.db = e]
  BY <1>0, <1>3 DEF States
<1> QED BY <1>4, <1>5, <1>6 DEF Told, Put

\* The record and the Worker of an active run that is told to stop.
StopRecord(a, reason) ==
    [a EXCEPT !.stop = reason, !.stopping = IF a.handle THEN "grace" ELSE "closing"]

StopWorker(a, w) == IF a.handle THEN w ELSE Shuttered(w)

\* Record b differs from a in what it says of the stop at most.
Resumes(a, b) ==
    /\ b.run = a.run /\ b.pc = a.pc /\ b.handle = a.handle /\ b.result = a.result
    /\ b.failed = a.failed /\ b.cleanup = a.cleanup

\* stop() of an active run: the status, then the record and the Worker.
LEMMA StopTells ==
    ASSUME NEW st, NEW r \in Runs, NEW s \in Sessions, NEW reason \in {"cancelled", "timed_out"},
           Good(st), st.db.run[r].session = s, ~ IsTerminal(st.db, r),
           st.act[s].run = r, st.act[s].stop = "none"
    PROVE  LET a == st.act[s]
               b == StopRecord(a, reason) IN
           /\ InFlight(a)
           /\ \E y : /\ Rewritten(st, y, y.db) /\ Steps(st, y, s)
                     /\ Revised(y, Stop(st, r, reason), s, b, StopWorker(a, st.worker[s]))
           /\ b \in ActiveRecord /\ b.stop = reason
           /\ b.stopping = IF a.handle THEN "grace" ELSE "closing"
           /\ Resumes(a, b)
<1> DEFINE a == st.act[s]
           w == st.worker[s]
           x == Stop(st, r, reason)
           e == SetRunStatus(st.db, r, "cancelling")
           y == [st EXCEPT !.db = e]
           to == IF a.handle THEN "grace" ELSE "closing"
           b == [a EXCEPT !.stop = reason, !.stopping = to]
           v == IF a.handle THEN w ELSE Shuttered(w)
<1>0. st \in States /\ st.db \in Database /\ a \in ActiveRecord
  BY DEF Good, States
<1>1. InFlight(a)
  <2>1. a # Idle
    BY StoreAssumption DEF Idle
  <2>2. Executing(st.db, a, s)
    BY DEF Good, Aright
  <2> QED BY <2>1, <2>2 DEF Executing, InFlight
<1>2. QuietWork(st.db, e, r)
  <2>1. st.db.run[r].status \in Busy
    BY <1>1, ActiveRun
  <2>2. "cancelling" \in Busy /\ "cancelling" # "starting"
    BY DEF Busy, Working
  <2> QED BY <1>0, <2>1, <2>2, StatusBusy
<1>3. e \in Database
  BY <1>2 DEF QuietWork, Busywork
<1>4. Rewritten(st, y, e)
  BY <1>0, <1>3, DatabaseRewritten
<1>5. Steps(st, y, s)
  BY <1>1, <1>2, <1>4, QuietSteps
<1>6. Good(y) /\ y \in States /\ y.act = st.act /\ y.worker = st.worker
  BY <1>4, <1>5 DEF Steps, Rewritten
<1>7. /\ b \in ActiveRecord /\ b.run = r /\ b.pc = a.pc /\ b.stop = reason
      /\ b.stopping = to /\ b.handle = a.handle /\ b.result = a.result
      /\ b.failed = a.failed /\ b.cleanup = a.cleanup
  BY <1>0 DEF ActiveRecord
<1>8. Revised(y, x, s, b, v)
  <2> DEFINE z == [y EXCEPT !.act[s] = b]
  <2>1. Revised(y, z, s, b, w)
    <3> HIDE DEF b, y
    <3>1. Revised(y, [y EXCEPT !.act[s] = b], s, b, y.worker[s])
      BY <1>6, <1>7, RecordRevises
    <3> QED BY <1>6, <3>1
  <2>2. z \in States /\ z.act[s] = b /\ z.worker[s] = w
    BY <2>1 DEF Revised
  <2>3. Revised(z, CloseWorker(z, s), s, b, Shuttered(w))
    <3> HIDE DEF z
    <3>1. Revised(z, CloseWorker(z, s), s, z.act[s], Shuttered(z.worker[s]))
      BY <2>2, CloseWorkerRevises
    <3> QED BY <2>2, <3>1
  <2>4. x = IF a.handle THEN z ELSE CloseWorker(z, s)
    <3>1. x = IF a.handle THEN Told(st, s, reason, e, "grace")
              ELSE CloseWorker(Told(st, s, reason, e, "closing"), s)
      BY DEF Stop, Told
    <3>2. x = IF a.handle THEN Told(st, s, reason, e, to)
              ELSE CloseWorker(Told(st, s, reason, e, to), s)
      BY <3>1
    <3>3. Puts(st, y, e) /\ Tells(st.act[s], b, reason, to)
      BY DEF Puts, Tells
    <3> HIDE DEF e, to, b, y
    <3>4. Told(st, s, reason, e, to) = Put(y, s, b)
      BY <1>0, <3>3, Twofold
    <3>5. Told(st, s, reason, e, to) = z
      BY <3>4 DEF Put
    <3> HIDE DEF z
    <3> QED BY <3>2, <3>5
  <2> HIDE DEF z, y, b
  <2>5. CASE a.handle
    BY <2>1, <2>4, <2>5
  <2>6. CASE ~ a.handle
    <3>1. Revised(y, CloseWorker(z, s), s, b, Shuttered(w))
      BY <2>1, <2>3, RevisedTwice
    <3> QED BY <2>4, <2>6, <3>1
  <2> QED BY <2>5, <2>6
<1>9. b = StopRecord(a, reason) /\ v = StopWorker(a, w)
  BY DEF StopRecord, StopWorker
<1>10. Rewritten(st, y, y.db)
  BY <1>4 DEF Rewritten
<1> HIDE DEF b, e, y, x, v, to
<1>11. Resumes(a, b)
  BY <1>7 DEF Resumes
<1>12. b.stopping = IF a.handle THEN "grace" ELSE "closing"
  BY <1>7 DEF to
<1>13. Revised(y, x, s, StopRecord(a, reason), StopWorker(a, w))
  BY <1>8, <1>9
<1> QED BY <1>1, <1>5, <1>7, <1>9, <1>10, <1>11, <1>12, <1>13 DEF x

\* stop().
LEMMA StopSteps ==
    ASSUME NEW st, NEW r \in Runs, NEW reason \in {"cancelled", "timed_out"},
           Good(st), Accepted(st.db, r), st.act[st.db.run[r].session].pc # "begin"
    PROVE  /\ Steps(st, Stop(st, r, reason), st.db.run[r].session)
           /\ Stopped(Stop(st, r, reason), r)
           /\ LET s == st.db.run[r].session IN
              st.act[s].run = r => Resumes(st.act[s], Stop(st, r, reason).act[s])
<1> DEFINE s == st.db.run[r].session
           a == st.act[s]
           w == st.worker[s]
           x == Stop(st, r, reason)
<1>1. s \in Sessions
  BY DEF Good, Referenced
<1>2. st \in States /\ st.db \in Database /\ a \in ActiveRecord
  BY <1>1 DEF Good, States
<1>3. Steps(st, st, s)
  BY <1>1, StepsSelf
<1>4. CASE IsTerminal(st.db, r)
  BY <1>3, <1>4 DEF Stop, Stopped, Resumes
<1>5. CASE ~ IsTerminal(st.db, r) /\ a.run # r
  <2> DEFINE e == FinishRun(AppendEvent(st.db, r, 0), r, reason, "confirmed")
  <2>1. PICK j \in 1 .. Len(st.queue) :
            /\ st.queue[j] = r
            /\ Dequeue(st, r) = [st EXCEPT !.queue = RemoveAt(st.queue, j)]
    BY <1>2, <1>5, QueuedRun, DequeueWithout
  <2> DEFINE q == RemoveAt(st.queue, j)
  <2>2. Without(st.queue, q, j)
    BY <1>2, RemovedWithout DEF States
  <2>a. x = [st EXCEPT !.queue = q, !.db = e, !.armed = st.armed \ {r}]
    <3>1. Dequeue(st, r).db = st.db
      BY <1>2, <2>1 DEF States
    <3> QED BY <1>2, <1>5, <2>1, <3>1 DEF Stop, End, Disarm, States
  <2>3. reason \in Terminal /\ "confirmed" \in Cleanup
    BY DEF Terminal, Cleanup
  <2>4. Ended(st.db, e, r, reason, "confirmed")
    BY <1>2, <1>5, <2>3, EndEnds
  <2> HIDE DEF e, x, q
  <2>5. q \in Seq(Runs) /\ e \in Database
    BY <2>2, <2>4 DEF Without, Ended
  <2>6. /\ x \in States /\ x.db = e /\ x.queue = q
        /\ x.armed = st.armed \ {r} /\ x.act = st.act /\ x.worker = st.worker
    BY <1>2, <2>a, <2>5 DEF States
  <2>7. st.db.run[r].status = "queued"
    BY <1>5, QueuedRun
  <2>8. Drops(st, x, r, reason, "confirmed")
    BY <2>1, <2>2, <2>3, <2>4, <2>6, <2>7 DEF Drops
  <2>9. IsTerminal(x.db, r)
    BY <2>3, <2>4, <2>6 DEF Ended, IsTerminal
  <2> QED BY <1>5, <2>8, <2>9, DropsSteps DEF Stopped, x
<1>6. CASE ~ IsTerminal(st.db, r) /\ a.run = r /\ a.stop # "none"
  <2>1. x = st
    BY <1>6 DEF Stop
  <2> QED BY <1>3, <1>6, <2>1 DEF Stopped, Resumes
<1>7. CASE ~ IsTerminal(st.db, r) /\ a.run = r /\ a.stop = "none"
  <2> DEFINE b == StopRecord(a, reason)
             v == StopWorker(a, w)
  <2>1. /\ InFlight(a) /\ b \in ActiveRecord /\ b.stop = reason
        /\ b.stopping = IF a.handle THEN "grace" ELSE "closing"
        /\ Resumes(a, b)
    BY <1>1, <1>7, StopTells
  <2>2. PICK y : Rewritten(st, y, y.db) /\ Steps(st, y, s) /\ Revised(y, x, s, b, v)
    BY <1>1, <1>7, StopTells
  <2>3. v = "live" => w = "live"
    BY DEF StopWorker, Shuttered
  <2>4. v = IF a.handle THEN w ELSE Shuttered(w)
    BY DEF StopWorker
  <2> HIDE DEF b, v, x
  <2>6. Good(y) /\ y.act = st.act /\ y.worker = st.worker
    BY <2>2 DEF Steps, Rewritten
  <2>9. Staged(a, w, s)
    BY <1>1 DEF Good, Aright
  <2>10. Staged(b, v, s)
    BY <1>7, <2>1, <2>4, <2>9 DEF Resumes, Staged, Shuttered, Cleanup, Gone
  <2>11. InFlight(b) /\ Carries(a, b)
    BY <1>7, <2>1 DEF Resumes, InFlight, Carries
  <2>12. Steps(y, x, s)
    BY <1>1, <2>1, <2>2, <2>3, <2>6, <2>10, <2>11, FlightSteps
  <2>13. Steps(st, x, s)
    BY <1>1, <2>2, <2>12, StepsTwice
  <2>14. x.act[s] = b
    BY <2>2 DEF Revised
  <2>15. Stopped(x, r)
    <3>1. x.db.run[r].session = s
      BY <2>13 DEF Steps, Turn, Onward
    <3>2. x.act[s].run = r /\ x.act[s].stop # "none"
      BY <1>7, <2>1, <2>14 DEF Resumes
    <3> QED BY <3>1, <3>2 DEF Stopped
  <2> QED BY <2>1, <2>13, <2>14, <2>15 DEF x
<1> QED BY <1>4, <1>5, <1>6, <1>7

----------------------------------------------------------------------------
(* The stages of execute() *)

\* Putting a record in its place, in the form the steps write it.
LEMMA PutRevises ==
    ASSUME NEW st \in States, NEW s \in Sessions, NEW b \in ActiveRecord
    PROVE  Revised(st, Put(st, s, b), s, b, st.worker[s])
BY RecordRevises DEF Put

\* host.closeSession.
LEMMA CloseWorkerSteps ==
    ASSUME NEW st, NEW s \in Sessions, Good(st)
    PROVE  Steps(st, CloseWorker(st, s), s)
<1> DEFINE a == st.act[s]
           w == st.worker[s]
           x == CloseWorker(st, s)
<1>1. Revised(st, x, s, a, Shuttered(w))
  BY CloseWorkerRevises DEF Good
<1>2. Staged(a, w, s) /\ Truthful(st.db, a, w, s) /\ Shut(st.db, a, w, s)
  BY DEF Good, Aright
<1> HIDE DEF x
<1>3. Staged(a, Shuttered(w), s)
  BY <1>2 DEF Staged, Shuttered, Gone, Cleanup
<1>4. Truthful(st.db, a, Shuttered(w), s) /\ Shut(st.db, a, Shuttered(w), s)
  BY <1>2 DEF Truthful, Shut, Shuttered, Gone
<1>5. x.worker[s] = "live" => w = "live"
  BY <1>1 DEF Revised, Shuttered
<1>6. Adjusts(st, x, s)
  BY <1>1, <1>3, <1>4, <1>5 DEF Adjusts, Revised
<1> QED BY <1>6, AdjustsSteps DEF x

\* The record and the Worker that the catch block leaves.
CatchRecord(a) ==
    [a EXCEPT !.failed = TRUE, !.pc = IF a.stopping # "none" THEN "catch" ELSE "catchclose"]

CatchWorker(a, w) == IF a.stopping # "none" THEN w ELSE Shuttered(w)

\* What catch leaves of the ActiveRun: it waits for the stop, or for the Worker.
LEMMA CatchRecordFields ==
    ASSUME NEW a \in ActiveRecord
    PROVE  LET b == CatchRecord(a) IN
           /\ b \in ActiveRecord /\ b.run = a.run /\ b.stop = a.stop
           /\ b.stopping = a.stopping /\ b.handle = a.handle /\ b.result = a.result
           /\ b.cleanup = a.cleanup /\ b.failed = TRUE
           /\ b.pc = IF a.stopping # "none" THEN "catch" ELSE "catchclose"
<1> DEFINE p == IF a.stopping # "none" THEN "catch" ELSE "catchclose"
<1>1. p \in Pcs /\ TRUE \in BOOLEAN
  BY DEF Pcs
<1> HIDE DEF p
<1>2. CatchRecord(a) = [a EXCEPT !.failed = TRUE, !.pc = p]
  BY DEF CatchRecord, p
<1> QED BY <1>1, <1>2 DEF ActiveRecord, p

\* The catch block.
LEMMA CatchRevises ==
    ASSUME NEW st \in States, NEW s \in Sessions
    PROVE  Revised(st, Catch(st, s), s, CatchRecord(st.act[s]),
                   CatchWorker(st.act[s], st.worker[s]))
<1> DEFINE a == st.act[s]
           w == st.worker[s]
           x == Catch(st, s)
           b == [a EXCEPT !.failed = TRUE]
           t == Put(st, s, b)
<1>1. a \in ActiveRecord
  BY DEF States
<1>2. b \in ActiveRecord /\ b.stopping = a.stopping
  BY <1>1 DEF ActiveRecord
<1>4. x = IF a.stopping # "none" THEN [t EXCEPT !.act[s].pc = "catch"]
          ELSE CloseWorker([t EXCEPT !.act[s].pc = "catchclose"], s)
  BY DEF Catch, Put
<1>5. Revised(st, t, s, b, w)
  <2> HIDE DEF b
  <2> QED BY <1>2, PutRevises
<1> HIDE DEF t, x
<1>6. t \in States /\ t.act[s] = b /\ t.worker[s] = w
  BY <1>5 DEF Revised
<1>7. CatchRecord(a) \in ActiveRecord
  BY <1>1, CatchRecordFields
<1>8. CASE a.stopping # "none"
  <2>1. CatchRecord(a) = [b EXCEPT !.pc = "catch"]
    BY <1>1, <1>8 DEF CatchRecord, ActiveRecord
  <2> HIDE DEF b
  <2>2. x = Put(t, s, CatchRecord(a))
    BY <1>4, <1>6, <1>8, <2>1 DEF Put
  <2>3. Revised(t, x, s, CatchRecord(a), w)
    BY <1>6, <1>7, <2>2, PutRevises
  <2>4. Revised(st, x, s, CatchRecord(a), w)
    BY <1>5, <2>3, RevisedTwice
  <2> QED BY <1>8, <2>4 DEF CatchWorker, x
<1>9. CASE a.stopping = "none"
  <2>1. CatchRecord(a) = [b EXCEPT !.pc = "catchclose"]
    BY <1>1, <1>9 DEF CatchRecord, ActiveRecord
  <2> HIDE DEF b
  <2> DEFINE u == Put(t, s, CatchRecord(a))
  <2>2. x = CloseWorker(u, s)
    BY <1>4, <1>6, <1>9, <2>1 DEF Put
  <2>3. Revised(t, u, s, CatchRecord(a), w)
    BY <1>6, <1>7, PutRevises
  <2> HIDE DEF u
  <2>4. u \in States /\ u.act[s] = CatchRecord(a) /\ u.worker[s] = w
    BY <2>3 DEF Revised
  <2>5. Revised(u, x, s, CatchRecord(a), Shuttered(w))
    BY <2>2, <2>4, CloseWorkerRevises
  <2>6. Revised(st, x, s, CatchRecord(a), Shuttered(w))
    BY <1>5, <2>3, <2>5, RevisedTwice
  <2> QED BY <1>9, <2>6 DEF CatchWorker, x
<1> QED BY <1>8, <1>9

\* Sound: the catch block of execute(), for a run that is worked on.
LEMMA CatchSteps ==
    ASSUME NEW st, NEW s \in Sessions, Good(st), InFlight(st.act[s])
    PROVE  Steps(st, Catch(st, s), s)
<1> DEFINE a == st.act[s]
           w == st.worker[s]
           b == CatchRecord(a)
           v == CatchWorker(a, w)
<1>1. Revised(st, Catch(st, s), s, b, v)
  BY CatchRevises DEF Good
<1>2. a \in ActiveRecord
  BY DEF Good, States
<1>3. /\ b.run = a.run /\ b.stop = a.stop
      /\ b.stopping = a.stopping /\ b.handle = a.handle
      /\ b.pc = IF a.stopping # "none" THEN "catch" ELSE "catchclose"
  BY <1>2, CatchRecordFields
<1>4. Staged(a, w, s)
  BY DEF Good, Aright
<1>5. v = IF a.stopping # "none" THEN w ELSE Shuttered(w)
  BY DEF CatchWorker
<1> HIDE DEF b, v
<1>6. Staged(b, v, s)
  BY <1>3, <1>4, <1>5 DEF Staged, Shuttered, Gone, Cleanup
<1>7. InFlight(b) /\ Carries(a, b) /\ (v = "live" => w = "live")
  BY <1>3, <1>5 DEF InFlight, Carries, Shuttered
<1> QED BY <1>1, <1>6, <1>7, FlightSteps

\* A run that ends, as execute() does it.
Finished(st, s, status, cleanup) ==
    [End(st, st.act[s].run, status, cleanup) EXCEPT !.act[s].pc = "final"]

\* Sound: execute() ends its run and enters its finally block.
LEMMA FinishedSteps ==
    ASSUME NEW st, NEW s \in Sessions, Good(st), InFlight(st.act[s]),
           NEW status \in Terminal, NEW cleanup \in Cleanup,
           st.act[s].stop # "none" => status = st.act[s].stop,
           st.act[s].stop # "none" \/ st.act[s].failed
               \/ (DriverOf[s] = "cli" /\ st.act[s].result \in Results)
               => st.worker[s] \in Gone /\ cleanup = HostStatus(st.worker[s])
    PROVE  Steps(st, Finished(st, s, status, cleanup), s)
<1> DEFINE a == st.act[s]
           x == Finished(st, s, status, cleanup)
           e == FinishRun(AppendEvent(st.db, a.run, 0), a.run, status, cleanup)
           f == [st.act EXCEPT ![s] = [a EXCEPT !.pc = "final"]]
<1>1. a \in ActiveRecord /\ a.run \in Runs /\ ~ IsTerminal(st.db, a.run)
  BY ActiveRun
<1>2. st \in States /\ st.db \in Database /\ st.act \in [Sessions -> ActiveRecord]
  BY DEF Good, States
<1>3. Ended(st.db, e, a.run, status, cleanup)
  BY <1>1, <1>2, EndEnds
<1>4. x = [st EXCEPT !.db = e, !.act = f]
  BY <1>2 DEF Finished, End, States
<1>5. f \in [Sessions -> ActiveRecord]
  <2>1. [a EXCEPT !.pc = "final"] \in ActiveRecord
    BY <1>1 DEF ActiveRecord, Pcs
  <2> QED BY <1>2, <2>1
<1>6. e \in Database
  BY <1>3 DEF Ended
<1> HIDE DEF e, x, f
<1>7. /\ x \in States /\ x.db = e /\ x.act = f
      /\ x.queue = st.queue /\ x.armed = st.armed /\ x.worker = st.worker
  BY <1>2, <1>4, <1>5, <1>6 DEF States
<1>8. Lands(st, x, s, status, cleanup)
  BY <1>3, <1>7 DEF Lands, f
<1> QED BY <1>8, LandsSteps DEF x

\* stop() at a deadline that has passed.
LEMMA StopIfPastSteps ==
    ASSUME NEW st, NEW s \in Sessions, Good(st), InFlight(st.act[s]), st.act[s].pc # "begin"
    PROVE  LET x == StopIfPast(st, s) IN
           /\ Steps(st, x, s) /\ InFlight(x.act[s]) /\ Resumes(st.act[s], x.act[s])
           /\ x.act[s].stop = "none" => x = st
<1> DEFINE a == st.act[s]
           r == a.run
           x == StopIfPast(st, s)
<1>1. r \in Runs /\ st.db.run[r].session = s /\ ~ IsTerminal(st.db, r) /\ Accepted(st.db, r)
  BY ActiveRun DEF Busy, Working, Accepted
<1>2. CASE ~ (a.stop = "none" /\ r \in past)
  <2>1. x = st
    BY <1>2 DEF StopIfPast
  <2> QED BY <2>1, StepsSelf DEF Resumes
<1>3. CASE a.stop = "none" /\ r \in past
  <2>1. x = Stop(st, r, "timed_out")
    BY <1>3 DEF StopIfPast
  <2>2. "timed_out" \in {"cancelled", "timed_out"}
    OBVIOUS
  <2> HIDE DEF x
  <2>3. Steps(st, x, s) /\ Stopped(x, r) /\ Resumes(a, x.act[s])
    BY <1>1, <2>1, <2>2, StopSteps
  <2>4. InFlight(x.act[s])
    BY <2>3 DEF Resumes, InFlight
  <2>5. x.act[s].run = r
    BY <2>3 DEF Resumes
  <2>6. Good(x)
    BY <2>3 DEF Steps
  <2>7. ~ IsTerminal(x.db, r) /\ x.db.run[r].session = s
    BY <2>4, <2>5, <2>6, ActiveRun
  <2>8. x.act[s].stop # "none"
    BY <2>3, <2>7 DEF Stopped
  <2> QED BY <2>3, <2>4, <2>8 DEF x
<1> QED BY <1>2, <1>3

\* The result is settled, and the Worker gone where it has to be.
Judged(a, w, s) ==
    /\ a.result \in Results
    /\ a.stop = "none" /\ (DriverOf[s] = "cli" \/ a.failed)
       => w \in Gone /\ a.cleanup = HostStatus(w)

\* A stage of execute() follows another.
LEMMA StageSteps ==
    ASSUME NEW st, NEW s \in Sessions, NEW pc \in Pcs, Good(st), InFlight(st.act[s]),
           NEW b, b = [st.act[s] EXCEPT !.pc = pc], InFlight(b),
           Staged(b, st.worker[s], s)
    PROVE  Steps(st, Put(st, s, b), s)
<1>1. st.act[s] \in ActiveRecord /\ st \in States
  BY DEF Good, States
<1>2. b \in ActiveRecord /\ Carries(st.act[s], b)
  BY <1>1 DEF ActiveRecord, Carries
<1>3. Revised(st, Put(st, s, b), s, b, st.worker[s])
  BY <1>1, <1>2, PutRevises
<1> QED BY <1>2, <1>3, FlightSteps

\* The end of the try block.
LEMMA ConcludeSteps ==
    ASSUME NEW st, NEW s \in Sessions, Good(st), InFlight(st.act[s]),
           Judged(st.act[s], st.worker[s], s)
    PROVE  Steps(st, Conclude(st, s), s)
<1> DEFINE a == st.act[s]
           w == st.worker[s]
<1>1. a \in ActiveRecord
  BY DEF Good, States
<1>2. CASE a.stop # "none"
  <2> DEFINE b == [a EXCEPT !.pc = "stopwait"]
  <2>1. Conclude(st, s) = Put(st, s, b)
    BY <1>2 DEF Conclude, Put
  <2>2. Staged(a, w, s)
    BY DEF Good, Aright
  <2>3. /\ b.pc = "stopwait" /\ b.stop = a.stop /\ b.stopping = a.stopping
        /\ b.handle = a.handle /\ b.result = a.result /\ b.failed = a.failed
        /\ b.cleanup = a.cleanup
    BY <1>1 DEF ActiveRecord
  <2>4. b = [a EXCEPT !.pc = "stopwait"] /\ "stopwait" \in Pcs
    BY DEF Pcs
  <2> HIDE DEF b
  <2>5. Staged(b, w, s) /\ InFlight(b)
    BY <1>2, <2>2, <2>3 DEF Staged, InFlight
  <2> QED BY <2>1, <2>4, <2>5, StageSteps
<1>3. CASE a.stop = "none"
  <2> DEFINE status == IF a.result = "model_failed" THEN "failed" ELSE a.result
  <2>1. Conclude(st, s) = Finished(st, s, status, a.cleanup)
    BY <1>3 DEF Conclude, Finished
  <2>2. status \in Terminal /\ a.cleanup \in Cleanup
    BY <1>1 DEF Judged, Results, Terminal, ActiveRecord
  <2> HIDE DEF status
  <2>3. a.failed \/ (DriverOf[s] = "cli" /\ a.result \in Results)
        => w \in Gone /\ a.cleanup = HostStatus(w)
    BY <1>3 DEF Judged
  <2> QED BY <1>3, <2>1, <2>2, <2>3, FinishedSteps
<1> QED BY <1>2, <1>3

\* From the reclaim to the collection of outputs.
LEMMA AfterReclaimSteps ==
    ASSUME NEW st, NEW s \in Sessions, Good(st), InFlight(st.act[s]), st.act[s].pc # "begin",
           Judged(st.act[s], st.worker[s], s)
    PROVE  Steps(st, AfterReclaim(st, s), s)
<1> DEFINE t == StopIfPast(st, s)
           a == t.act[s]
           x == AfterReclaim(st, s)
<1>1. Steps(st, t, s) /\ InFlight(a) /\ Resumes(st.act[s], a) /\ (a.stop = "none" => t = st)
  BY StopIfPastSteps
<1>2. Good(t)
  BY <1>1 DEF Steps
<1>3. CASE a.stop = "none" /\ a.result = "completed" /\ a.run \in WithOutputs
  <2> DEFINE e == SetRunStatus(st.db, a.run, "finalizing")
             y == [st EXCEPT !.db = e]
             b == [a EXCEPT !.pc = "collect"]
  <2>1. t = st
    BY <1>1, <1>3
  <2>2. x = [st EXCEPT !.db = e, !.act[s].pc = "collect"]
    BY <1>3, <2>1 DEF AfterReclaim
  <2>3. st \in States /\ st.db \in Database /\ a \in ActiveRecord
        /\ st.act \in [Sessions -> ActiveRecord]
    BY <2>1 DEF Good, States
  <2>4. QuietWork(st.db, e, a.run)
    <3>1. "finalizing" \in Busy /\ "finalizing" # "starting"
      BY DEF Busy, Working
    <3>2. a.run \in Runs /\ st.db.run[a.run].status \in Busy
      BY <1>1, <2>1, ActiveRun
    <3> QED BY <2>3, <3>1, <3>2, StatusBusy
  <2>5. Rewritten(st, y, e)
    BY <2>3, <2>4, DatabaseRewritten DEF QuietWork, Busywork
  <2>6. x = Put(y, s, b)
    BY <2>1, <2>2, <2>3 DEF Put, States
  <2>7. b = [a EXCEPT !.pc = "collect"] /\ "collect" \in Pcs
    BY DEF Pcs
  <2>8. /\ b.pc = "collect" /\ b.stop = a.stop /\ b.stopping = a.stopping
        /\ b.handle = a.handle /\ b.result = a.result /\ b.failed = a.failed
        /\ b.cleanup = a.cleanup
    BY <2>3 DEF ActiveRecord
  <2> HIDE DEF t, x, y, e, b
  <2>9. Steps(st, y, s)
    BY <1>1, <2>1, <2>4, <2>5, QuietSteps
  <2>10. Good(y) /\ y.act = st.act /\ y.worker = st.worker
    BY <2>5, <2>9 DEF Steps, Rewritten
  <2>11. Staged(a, st.worker[s], s)
    BY <2>1 DEF Good, Aright
  <2>12. InFlight(b) /\ Staged(b, y.worker[s], s)
    BY <1>1, <2>1, <2>8, <2>10, <2>11 DEF Staged, InFlight, Judged
  <2>13. Steps(y, x, s)
    BY <1>1, <2>1, <2>6, <2>7, <2>10, <2>12, StageSteps
  <2> QED BY <2>9, <2>13, StepsTwice DEF x
<1>4. CASE ~ (a.stop = "none" /\ a.result = "completed" /\ a.run \in WithOutputs)
  <2> DEFINE u == StopIfPast(t, s)
  <2>1. x = Conclude(u, s)
    BY <1>4 DEF AfterReclaim
  <2>2. a.pc # "begin"
    BY <1>1 DEF Resumes
  <2> HIDE DEF t, x
  <2>3. Steps(t, u, s) /\ InFlight(u.act[s]) /\ Resumes(a, u.act[s])
        /\ (u.act[s].stop = "none" => u = t)
    BY <1>1, <1>2, <2>2, StopIfPastSteps
  <2> HIDE DEF u
  <2>4. Judged(u.act[s], u.worker[s], s)
    BY <1>1, <2>3 DEF Judged, Resumes
  <2>5. Good(u)
    BY <2>3 DEF Steps
  <2>6. Steps(u, x, s)
    BY <2>1, <2>3, <2>4, <2>5, ConcludeSteps
  <2>7. Steps(st, u, s)
    BY <1>1, <2>3, StepsTwice
  <2> QED BY <2>6, <2>7, StepsTwice DEF x
<1> QED BY <1>3, <1>4

\* A settled backend result.
LEMMA AfterResultSteps ==
    ASSUME NEW st, NEW s \in Sessions, Good(st), st.act[s].pc \in {"result", "settle"},
           st.act[s].result \in Results
    PROVE  Steps(st, AfterResult(st, s), s)
<1> DEFINE a == st.act[s]
           w == st.worker[s]
           f == a.result = "failed"
           b == [a EXCEPT !.failed = f]
           t == Put(st, s, b)
           x == AfterResult(st, s)
<1>1. st \in States /\ a \in ActiveRecord /\ Staged(a, w, s) /\ InFlight(a)
  BY DEF Good, States, Aright, InFlight
<1>2. f \in BOOLEAN
  OBVIOUS
<1>3. x = IF a.stop = "none" /\ (DriverOf[s] = "cli" \/ f)
          THEN CloseWorker([t EXCEPT !.act[s].pc = "reclaim"], s) ELSE AfterReclaim(t, s)
  BY DEF AfterResult, Put
<1> HIDE DEF f
<1>4. /\ b \in ActiveRecord /\ b.run = a.run /\ b.pc = a.pc /\ b.stop = a.stop
      /\ b.stopping = a.stopping /\ b.handle = a.handle /\ b.result = a.result
      /\ b.failed = f /\ b.cleanup = a.cleanup
  BY <1>1, <1>2 DEF ActiveRecord
<1> HIDE DEF b
<1>5. Revised(st, t, s, b, w)
  BY <1>1, <1>4, PutRevises
<1> HIDE DEF t, x
<1>6. Staged(b, w, s) /\ InFlight(b) /\ Carries(a, b)
  BY <1>1, <1>4 DEF Staged, InFlight, Carries
<1>7. Steps(st, t, s)
  BY <1>1, <1>5, <1>6, FlightSteps
<1>8. Good(t) /\ t \in States /\ t.act[s] = b /\ t.worker[s] = w
  BY <1>5, <1>7 DEF Steps, Revised
<1>9. CASE a.stop = "none" /\ (DriverOf[s] = "cli" \/ f)
  <2> DEFINE c == [b EXCEPT !.pc = "reclaim"]
             u == Put(t, s, c)
  <2>1. x = CloseWorker(u, s)
    BY <1>3, <1>8, <1>9 DEF Put
  <2>2. /\ c \in ActiveRecord /\ c.run = b.run /\ c.pc = "reclaim" /\ c.stop = b.stop
        /\ c.stopping = b.stopping /\ c.handle = b.handle /\ c.result = b.result
        /\ c.failed = b.failed /\ c.cleanup = b.cleanup
    BY <1>4 DEF ActiveRecord, Pcs
  <2> HIDE DEF c
  <2>3. Revised(t, u, s, c, w)
    BY <1>8, <2>2, PutRevises
  <2> HIDE DEF u
  <2>4. u \in States /\ u.act[s] = c /\ u.worker[s] = w
    BY <2>3 DEF Revised
  <2>5. Revised(u, x, s, c, Shuttered(w))
    BY <2>1, <2>4, CloseWorkerRevises
  <2>6. Revised(t, x, s, c, Shuttered(w))
    BY <2>3, <2>5, RevisedTwice
  <2>7. Staged(c, Shuttered(w), s)
    BY <1>4, <1>6, <1>9, <2>2 DEF Staged, Shuttered, Gone, Cleanup
  <2>8. InFlight(c) /\ Carries(b, c) /\ (Shuttered(w) = "live" => w = "live")
    BY <2>2 DEF InFlight, Carries, Shuttered
  <2>9. Steps(t, x, s)
    BY <1>6, <1>8, <2>6, <2>7, <2>8, FlightSteps
  <2> QED BY <1>7, <2>9, StepsTwice DEF x
<1>10. CASE ~ (a.stop = "none" /\ (DriverOf[s] = "cli" \/ f))
  <2>1. x = AfterReclaim(t, s)
    BY <1>3, <1>10
  <2>2. Judged(b, w, s) /\ b.pc # "begin"
    BY <1>4, <1>10 DEF Judged
  <2>3. Steps(t, x, s)
    BY <1>6, <1>8, <2>1, <2>2, AfterReclaimSteps
  <2> QED BY <1>7, <2>3, StepsTwice DEF x
<1> QED BY <1>9, <1>10

\* host.fail.
FailRecord(a) ==
    [a EXCEPT !.result = IF a.pc = "result" /\ a.result = "pending" THEN "rejected" ELSE @]

\* What a failing Worker leaves of the ActiveRun: a rejected result, if it was pending.
LEMMA FailRecordFields ==
    ASSUME NEW a \in ActiveRecord
    PROVE  LET b == FailRecord(a) IN
           /\ b \in ActiveRecord /\ b.run = a.run /\ b.pc = a.pc /\ b.stop = a.stop
           /\ b.stopping = a.stopping /\ b.handle = a.handle /\ b.cleanup = a.cleanup
           /\ b.failed = a.failed
           /\ b = a \/ (a.pc = "result" /\ b.result = "rejected")
<1> DEFINE v == IF a.pc = "result" /\ a.result = "pending" THEN "rejected" ELSE a.result
           b == [a EXCEPT !.result = v]
<1>1. FailRecord(a) = b
  BY DEF FailRecord
<1>2. v \in {"pending", "rejected"} \cup Results
  BY DEF ActiveRecord
<1>3. v = a.result \/ (a.pc = "result" /\ v = "rejected")
  OBVIOUS
<1> HIDE DEF v
<1>4. b = a \/ (a.pc = "result" /\ b.result = "rejected")
  BY <1>3 DEF ActiveRecord
<1>5. /\ b \in ActiveRecord /\ b.run = a.run /\ b.pc = a.pc /\ b.stop = a.stop
      /\ b.stopping = a.stopping /\ b.handle = a.handle /\ b.cleanup = a.cleanup
      /\ b.failed = a.failed
  BY <1>2 DEF ActiveRecord
<1> QED BY <1>1, <1>4, <1>5

\* Sound: host.fail() on the Worker of a Session.
LEMMA FailWorkerSteps ==
    ASSUME NEW st, NEW s \in Sessions, Good(st)
    PROVE  /\ Steps(st, FailWorker(st, s), s)
           /\ Revised(st, FailWorker(st, s), s, FailRecord(st.act[s]), Shuttered(st.worker[s]))
<1> DEFINE a == st.act[s]
           w == st.worker[s]
           b == FailRecord(a)
           t == Put(st, s, b)
           x == FailWorker(st, s)
<1>1. st \in States /\ a \in ActiveRecord
  BY DEF Good, States
<1>2. Staged(a, w, s) /\ Truthful(st.db, a, w, s) /\ Shut(st.db, a, w, s)
  BY DEF Good, Aright
<1>3. x = CloseWorker(t, s)
  BY DEF FailWorker, Put, FailRecord
<1>4. /\ b \in ActiveRecord /\ b.run = a.run /\ b.pc = a.pc /\ b.stop = a.stop
      /\ b.stopping = a.stopping /\ b.handle = a.handle /\ b.cleanup = a.cleanup
      /\ b.failed = a.failed
      /\ b = a \/ (a.pc = "result" /\ b.result = "rejected")
  BY <1>1, FailRecordFields
<1> HIDE DEF b
<1>5. Revised(st, t, s, b, w)
  BY <1>1, <1>4, PutRevises
<1> HIDE DEF t
<1>6. Revised(t, x, s, b, Shuttered(w))
  <2>1. t \in States /\ t.act[s] = b /\ t.worker[s] = w
    BY <1>5 DEF Revised
  <2> QED BY <1>3, <2>1, CloseWorkerRevises
<1>7. Revised(st, x, s, b, Shuttered(w))
  BY <1>5, <1>6, RevisedTwice
<1> HIDE DEF x
<1>8. Staged(b, Shuttered(w), s)
  BY <1>2, <1>4 DEF Staged, Shuttered, Gone, Cleanup
<1>9. Truthful(st.db, b, Shuttered(w), s) /\ Shut(st.db, b, Shuttered(w), s)
  BY <1>2, <1>4 DEF Truthful, Shut, Shuttered, Gone, Idle
<1>10. Shuttered(w) = "live" => w = "live"
  BY DEF Shuttered
<1>11. b = a \/ (a # Idle /\ a.pc # "idle")
  BY <1>4 DEF Idle
<1>12. Adjusts(st, x, s)
  BY <1>4, <1>7, <1>8, <1>9, <1>10, <1>11 DEF Adjusts, Revised
<1> QED BY <1>7, <1>12, AdjustsSteps DEF x, b

----------------------------------------------------------------------------
(* Steps of several Sessions *)

\* No Session that continues takes a slot.
LEMMA SlotsKept ==
    ASSUME NEW st, NEW x, Continues(st, x), Slots(st)
    PROVE  Slots(x)
<1>1. \A t \in Sessions : x.act[t] # Idle => st.act[t] # Idle
  BY DEF Continues
<1>2. Active(x) \subseteq Active(st)
  BY <1>1 DEF Active
<1>3. IsFiniteSet(Active(st)) /\ Cardinality(Active(st)) <= MaxConcurrency
  BY DEF Slots, Load, Active
<1>4. /\ IsFiniteSet(Active(x)) /\ Cardinality(Active(x)) \in Nat
      /\ Cardinality(Active(st)) \in Nat /\ Cardinality(Active(x)) <= Cardinality(Active(st))
  BY <1>2, <1>3, FS_Subset, FS_CardinalityType
<1>5. Cardinality(Active(x)) <= MaxConcurrency
  BY <1>3, <1>4, RuntimeAssumption
<1>6. ASSUME NEW t \in Sessions PROVE EngineLoad(x, t) <= MaxPerEngine
  <2> DEFINE A == {u \in Sessions : st.act[u] # Idle /\ EngineOf[u] = EngineOf[t]}
             B == {u \in Sessions : x.act[u] # Idle /\ EngineOf[u] = EngineOf[t]}
  <2>1. B \subseteq A /\ A \subseteq Active(st)
    BY <1>1 DEF Active
  <2>2. Cardinality(A) <= MaxPerEngine
    BY DEF Slots, EngineLoad
  <2> HIDE DEF A, B
  <2>3. /\ IsFiniteSet(A) /\ Cardinality(A) \in Nat /\ Cardinality(B) \in Nat
        /\ Cardinality(B) <= Cardinality(A)
    BY <1>3, <2>1, FS_Subset, FS_CardinalityType
  <2>4. Cardinality(B) <= MaxPerEngine
    BY <2>2, <2>3, RuntimeAssumption
  <2> QED BY <2>4 DEF EngineLoad, B
<1> QED BY <1>4, <1>5, <1>6 DEF Slots, Load, Active

\* A run of a database that moved on and is not settled was not settled before.
LEMMA UnsettledKept ==
    ASSUME NEW st, NEW x, Good(st), Onward(st.db, x.db), NEW s \in Sessions
    PROVE  Unsettled(x.db, s) \subseteq Unsettled(st.db, s)
<1> SUFFICES ASSUME NEW r \in Runs, x.db.run[r].session = s, ~ IsTerminal(x.db, r)
             PROVE  r \in Unsettled(st.db, s)
  BY DEF Unsettled, RunsOf
<1>1. st.db.run[r].session = s
  BY DEF Onward
<1>2. Accepted(st.db, r)
  BY <1>1 DEF Good, Referenced
<1>3. ~ IsTerminal(st.db, r)
  BY DEF Onward, IsTerminal
<1> QED BY <1>1, <1>2, <1>3 DEF Unsettled, RunsOf

\* A step of a Session, seen from all of them.
LEMMA TurnContinues ==
    ASSUME NEW st, NEW x, NEW s \in Sessions, Good(st), Turn(st, x, s)
    PROVE  Continues(st, x)
<1>1. ASSUME NEW t \in Sessions, st.act[t].stop # "none",
             NEW r, r = st.act[t].run
      PROVE  /\ x.act[t].run = r => x.act[t].stop = st.act[t].stop
             /\ ~ IsTerminal(st.db, r) /\ IsTerminal(x.db, r) =>
                   x.db.run[r].status = st.act[t].stop
  <2>1. st.act[t] # Idle
    BY <1>1 DEF Idle
  <2>2. r \in Runs /\ st.db.run[r].session = t
    BY <1>1, <2>1 DEF Good, Aright, Executing
  <2>3. Idle.run # r
    BY <2>2, StoreAssumption DEF Idle
  <2>4. CASE t = s
    BY <1>1, <2>2, <2>3, <2>4 DEF Turn
  <2>5. CASE t # s
    BY <1>1, <2>2, <2>5 DEF Turn, IsTerminal
  <2> QED BY <2>4, <2>5
<1>2. ASSUME NEW f \in Artifacts, st.db.artifact[f] # x.db.artifact[f],
             NEW r, r = x.db.artifact[f]
      PROVE  /\ r \in Runs /\ st.db.run[r].session \in Sessions
             /\ r = st.act[st.db.run[r].session].run
             /\ ~ IsTerminal(st.db, r) /\ st.act[st.db.run[r].session].stop = "none"
  <2>1. r \in Runs /\ r = st.act[s].run /\ ~ IsTerminal(st.db, r) /\ st.act[s].stop = "none"
    BY <1>2 DEF Turn
  <2>2. st.act[s] # Idle
    BY <2>1, StoreAssumption DEF Idle
  <2>3. st.db.run[r].session = s
    BY <2>1, <2>2 DEF Good, Aright, Executing
  <2> QED BY <2>1, <2>3
<1>3. Moves(st, x)
  BY <1>1, <1>2 DEF Moves
<1>4. ASSUME NEW t \in Sessions
      PROVE  \/ x.act[t] = Idle
             \/ /\ st.act[t] # Idle /\ x.act[t].run = st.act[t].run
                /\ st.act[t].stop # "none" => x.act[t].stop = st.act[t].stop
                /\ st.act[t].pc = "final" => x.act[t].pc = "final"
  BY DEF Turn
<1> QED BY <1>3, <1>4 DEF Continues, Turn

\* A sound step of one Session, seen from all of them.
LEMMA StepsAdvances ==
    ASSUME NEW st, NEW x, NEW s \in Sessions, Good(st), Steps(st, x, s)
    PROVE  Advances(st, x)
<1>1. Good(x) /\ Turn(st, x, s) /\ Steady(st, x, s)
  BY DEF Steps
<1>2. Continues(st, x)
  BY <1>1, TurnContinues
<1>3. Steadily(st, x)
  BY <1>1 DEF Turn, Steady, Steadily
<1> QED BY <1>1, <1>2, <1>3 DEF Advances

\* A run that is worked on stays the run of its Session until it ends.
LEMMA WorkedOn ==
    ASSUME NEW st, NEW y, NEW t \in Sessions, NEW r, Good(st), Good(y), Onward(st.db, y.db),
           r = st.act[t].run, st.act[t] # Idle, ~ IsTerminal(y.db, r)
    PROVE  y.act[t].run = r /\ y.act[t] # Idle /\ r \in Runs /\ st.db.run[r].session = t
<1>1. Executing(st.db, st.act[t], t)
  BY DEF Good, Aright
<1>2. r \in Runs /\ st.db.run[r].session = t /\ st.db.run[r].status \notin {"absent", "queued"}
  BY <1>1 DEF Executing, IsTerminal, Busy, Working, Terminal
<1>3. y.db.run[r].session = t /\ y.db.run[r].status \notin {"absent", "queued"}
  BY <1>2 DEF Onward
<1>4. y.db.run[r] \in RunRecord
  BY <1>2 DEF Good, States, Database
<1>5. y.db.run[r].status \in Busy
  BY <1>3, <1>4 DEF RunRecord, Busy, IsTerminal
<1>6. y.act[t].run = r
  BY <1>2, <1>3, <1>5 DEF Good, Aright, Mine
<1> QED BY <1>2, <1>6, StoreAssumption DEF Idle

\* Two steps in which every execute() works on are one such step.
LEMMA ContinuesTwice ==
    ASSUME NEW st, NEW y, NEW x, Good(st), Good(y), Continues(st, y), Continues(y, x)
    PROVE  Continues(st, x)
<1>1. Onward(st.db, y.db) /\ Onward(y.db, x.db)
  BY DEF Continues
<1>2. Onward(st.db, x.db)
  BY <1>1 DEF Onward, IsTerminal
<1>3. ASSUME NEW t \in Sessions
      PROVE  \/ x.act[t] = Idle
             \/ /\ st.act[t] # Idle /\ x.act[t].run = st.act[t].run
                /\ st.act[t].stop # "none" => x.act[t].stop = st.act[t].stop
                /\ st.act[t].pc = "final" => x.act[t].pc = "final"
  BY DEF Continues
<1>4. ASSUME NEW t \in Sessions, st.act[t].stop # "none",
             NEW r, r = st.act[t].run
      PROVE  /\ x.act[t].run = r => x.act[t].stop = st.act[t].stop
             /\ ~ IsTerminal(st.db, r) /\ IsTerminal(x.db, r) =>
                   x.db.run[r].status = st.act[t].stop
  <2>1. st.act[t] # Idle
    BY <1>4 DEF Idle
  <2>2. r \in Runs
    BY <1>4, <2>1 DEF Good, Aright, Executing
  <2>3. x.act[t].run = r => x.act[t].stop = st.act[t].stop
    BY <1>3, <1>4, <2>2, StoreAssumption DEF Idle
  <2>4. ASSUME ~ IsTerminal(st.db, r), IsTerminal(x.db, r)
        PROVE  x.db.run[r].status = st.act[t].stop
    <3>1. CASE IsTerminal(y.db, r)
      <4>1. y.db.run[r].status = st.act[t].stop
        BY <1>4, <2>4, <3>1 DEF Continues, Moves
      <4> QED BY <1>1, <2>2, <3>1, <4>1 DEF Onward
    <3>2. CASE ~ IsTerminal(y.db, r)
      <4>1. y.act[t].run = r /\ y.act[t] # Idle
        BY <1>1, <1>4, <2>1, <3>2, WorkedOn
      <4>2. y.act[t].stop = st.act[t].stop
        BY <1>4, <4>1 DEF Continues
      <4> QED BY <1>4, <2>4, <3>2, <4>1, <4>2 DEF Continues, Moves
    <3> QED BY <3>1, <3>2
  <2> QED BY <2>3, <2>4
<1>5. ASSUME NEW f \in Artifacts, st.db.artifact[f] # x.db.artifact[f],
             NEW r, r = x.db.artifact[f]
      PROVE  /\ r \in Runs /\ st.db.run[r].session \in Sessions
             /\ r = st.act[st.db.run[r].session].run
             /\ ~ IsTerminal(st.db, r) /\ st.act[st.db.run[r].session].stop = "none"
  <2>1. CASE y.db.artifact[f] = x.db.artifact[f]
    BY <1>5, <2>1 DEF Continues, Moves
  <2>2. CASE y.db.artifact[f] # x.db.artifact[f]
    <3> DEFINE t == y.db.run[r].session
    <3>1. r \in Runs /\ r = y.act[t].run /\ ~ IsTerminal(y.db, r) /\ y.act[t].stop = "none"
      BY <1>5, <2>2 DEF Continues, Moves
    <3>2. st.db.run[r].session = t /\ ~ IsTerminal(st.db, r)
      BY <1>1, <3>1 DEF Onward, IsTerminal
    <3>3. t \in Sessions
      BY <1>5, <2>2 DEF Continues, Moves
    <3>4. y.act[t] # Idle
      BY <3>1, StoreAssumption DEF Idle
    <3>5. st.act[t].run = r
      BY <3>1, <3>3, <3>4 DEF Continues
    <3>6. st.act[t].stop = "none"
      BY <3>1, <3>3, <3>4 DEF Continues
    <3> QED BY <3>1, <3>2, <3>3, <3>5, <3>6
  <2> QED BY <2>1, <2>2
<1>6. Moves(st, x)
  BY <1>4, <1>5 DEF Moves
<1> QED BY <1>2, <1>3, <1>6 DEF Continues

\* Two sound steps of any Sessions are one.
LEMMA AdvancesTwice ==
    ASSUME NEW st, NEW y, NEW x, Good(st), Advances(st, y), Advances(y, x)
    PROVE  Advances(st, x)
<1>1. Good(y) /\ Good(x) /\ Continues(st, y) /\ Continues(y, x)
      /\ Steadily(st, y) /\ Steadily(y, x)
  BY DEF Advances
<1>2. Continues(st, x)
  BY <1>1, ContinuesTwice
<1>3. ASSUME NEW t \in Sessions
      PROVE  /\ x.db.session[t].status = st.db.session[t].status \/ x.act[t] = Idle
             /\ x.worker[t] = "live" => \/ st.worker[t] = "live"
                                        \/ InFlight(st.act[t]) /\ st.act[t].stop = "none"
  <2>1. y.act[t] = Idle => x.act[t] = Idle
    BY <1>1 DEF Continues
  <2>2. InFlight(y.act[t]) /\ y.act[t].stop = "none"
        => InFlight(st.act[t]) /\ st.act[t].stop = "none"
    <3> SUFFICES ASSUME InFlight(y.act[t]), y.act[t].stop = "none"
                 PROVE  InFlight(st.act[t]) /\ st.act[t].stop = "none"
      OBVIOUS
    <3>1. y.act[t] # Idle /\ y.act[t].pc # "final"
      BY DEF InFlight, Idle
    <3>2. st.act[t] # Idle /\ st.act[t].pc # "final" /\ st.act[t].stop = "none"
      BY <1>1, <3>1 DEF Continues
    <3>3. Executing(st.db, st.act[t], t)
      BY DEF Good, Aright
    <3> QED BY <3>2, <3>3 DEF Executing, InFlight
  <2>3. x.db.session[t].status = st.db.session[t].status \/ x.act[t] = Idle
    BY <1>1, <2>1 DEF Steadily
  <2>4. x.worker[t] = "live" => \/ st.worker[t] = "live"
                                \/ InFlight(st.act[t]) /\ st.act[t].stop = "none"
    BY <1>1, <2>2 DEF Steadily
  <2> QED BY <2>3, <2>4
<1>4. Steadily(st, x)
  BY <1>3 DEF Steadily
<1> QED BY <1>1, <1>2, <1>4 DEF Advances

\* Standing still is sound.
LEMMA AdvancesSelf ==
    ASSUME NEW st, Good(st)
    PROVE  Advances(st, st)
<1>1. Onward(st.db, st.db)
  BY DEF Onward
<1>2. Continues(st, st)
  BY <1>1 DEF Continues, Moves
<1>3. Steadily(st, st)
  BY DEF Steadily
<1> QED BY <1>2, <1>3 DEF Advances

\* A sound step leaves the run of a Session that is not open stopped.
LEMMA HaltingKept ==
    ASSUME NEW st, NEW x, NEW t \in Sessions, Advances(st, x), Halting(st, t)
    PROVE  Halting(x, t)
BY DEF Halting, Advances, Continues, Steadily

\* A Session that is being closed stays fit.
LEMMA CloserKept ==
    ASSUME NEW st, NEW x, NEW t \in Sessions, NEW c, Advances(st, x), Halting(st, t),
           CloserFit(st, c, t)
    PROVE  CloserFit(x, c, t)
<1> SUFFICES ASSUME c.phase # "none"
             PROVE  /\ x.db.session[t].status \notin {"absent", "open"}
                    /\ x.act[t] = Idle \/ x.act[t].run = c.run
                    /\ c.phase \in {"host", "settle"} => x.worker[t] # "live"
  BY DEF CloserFit
<1>1. /\ st.db.session[t].status \notin {"absent", "open"}
      /\ st.act[t] = Idle \/ st.act[t].run = c.run
      /\ c.phase \in {"host", "settle"} => st.worker[t] # "live"
  BY DEF CloserFit
<1>2. st.act[t] = Idle \/ st.act[t].pc = "final" \/ st.act[t].stop # "none"
  BY <1>1 DEF Halting
<1>3. ~ (InFlight(st.act[t]) /\ st.act[t].stop = "none")
  BY <1>2 DEF InFlight, Idle
<1>4. x.worker[t] = "live" => st.worker[t] = "live"
  BY <1>3 DEF Advances, Steadily
<1>5. x.act[t] = Idle \/ x.act[t].run = c.run
  BY <1>1 DEF Advances, Continues
<1> QED BY <1>1, <1>4, <1>5 DEF Advances, Continues, Onward

\* A sound step gives a Session that is being suspended nothing to run.
LEMMA SuspendedKept ==
    ASSUME NEW st, NEW x, NEW ss \in SUBSET Sessions, Good(st), Continues(st, x),
           SuspendedFit(st, ss)
    PROVE  SuspendedFit(x, ss)
<1> SUFFICES ASSUME NEW t \in ss PROVE x.act[t] = Idle /\ Unsettled(x.db, t) = {}
  BY DEF SuspendedFit
<1>1. st.act[t] = Idle /\ Unsettled(st.db, t) = {}
  BY DEF SuspendedFit
<1>2. Onward(st.db, x.db) /\ x.act[t] = Idle
  BY <1>1 DEF Continues
<1> QED BY <1>1, <1>2, UnsettledKept

\* A sound step keeps the runs of artifacts on their way started.
LEMMA PublishingKept ==
    ASSUME NEW st, NEW x, NEW ps \in SUBSET [run : Runs, artifact : Artifacts],
           Continues(st, x), PublishingFit(st, ps)
    PROVE  PublishingFit(x, ps)
BY DEF PublishingFit, Continues, Onward

\* The calls under way stay fit.
LEMMA FitKept ==
    ASSUME NEW st, NEW x, NEW c, NEW ss \in SUBSET Sessions,
           NEW ps \in SUBSET [run : Runs, artifact : Artifacts],
           Good(st), Advances(st, x), Fit(st, c, ss, ps)
    PROVE  Fit(x, c, ss, ps)
<1>1. Continues(st, x)
  BY DEF Advances
<1>2. \A t \in Sessions : Halting(x, t)
  BY HaltingKept DEF Fit
<1>3. ClosersFit(x, c)
  BY CloserKept DEF Fit, ClosersFit
<1> QED BY <1>1, <1>2, <1>3, SlotsKept, SuspendedKept, PublishingKept DEF Fit

\* Erasing the log after a step.
LEMMA BecomeSame ==
    ASSUME NEW x \in States, Become(x)
    PROVE  Same(x, Here')
<1>1. x.db \in Database
  BY DEF States
<1>2. Noted(x.db, Unlogged(x.db))
  BY <1>1, UnloggedNoted
<1> HIDE DEF Unlogged
<1>3. Unlogged(x.db) \in Database
  BY <1>2 DEF Noted
<1>4. Here' = [db |-> Unlogged(x.db), queue |-> x.queue, armed |-> x.armed, act |-> x.act,
               worker |-> x.worker]
  BY DEF Become, Here
<1> QED BY <1>2, <1>3, <1>4 DEF Same, States

----------------------------------------------------------------------------
(* Parts of actions *)

\* The installation event.
LEMMA InspectionSteps ==
    ASSUME NEW st, NEW s \in Sessions, Good(st), InFlight(st.act[s])
    PROVE  LET x == Inspection(st, s) IN
           Steps(st, x, s) /\ x \in States /\ x.act = st.act /\ x.worker = st.worker
<1> DEFINE e == AppendEvent(st.db, st.act[s].run, 0)
           x == [st EXCEPT !.db = e]
<1>0. st \in States /\ st.db \in Database
  BY DEF Good, States
<1>1. CASE DriverOf[s] = "fake"
  BY <1>0, <1>1, StepsSelf DEF Inspection
<1>2. CASE DriverOf[s] # "fake"
  <2>1. st.act[s].run \in Runs /\ st.db.run[st.act[s].run].status \in Busy
    BY ActiveRun
  <2>2. Noted(st.db, e)
    BY <1>0, <2>1, AppendNoted, 0 \in Nat
  <2>3. QuietWork(st.db, e, st.act[s].run)
    BY <2>1, <2>2, NotedBusy
  <2>4. Rewritten(st, x, e)
    BY <1>0, <2>2, DatabaseRewritten DEF Noted
  <2>5. Inspection(st, s) = x
    BY <1>2 DEF Inspection
  <2> HIDE DEF x, e
  <2>6. Steps(st, x, s)
    BY <2>3, <2>4, QuietSteps
  <2> QED BY <2>4, <2>5, <2>6 DEF Rewritten
<1> QED BY <1>1, <1>2

\* Sound: execute() moves on without touching the database.
LEMMA PutSteps ==
    ASSUME NEW st, NEW s \in Sessions, Good(st), InFlight(st.act[s]),
           NEW b \in ActiveRecord, InFlight(b), Carries(st.act[s], b),
           Staged(b, st.worker[s], s)
    PROVE  Steps(st, Put(st, s, b), s)
<1>1. Revised(st, Put(st, s, b), s, b, st.worker[s])
  BY PutRevises DEF Good
<1> QED BY <1>1, FlightSteps

\* What the host reports of a Worker that is gone is a cleanup status.
LEMMA HostStatusCleanup ==
    ASSUME NEW w \in WorkerStates, w \in Gone
    PROVE  HostStatus(w) \in Cleanup
BY DEF HostStatus, Gone, Cleanup

\* A record that stays at its pc, its Worker possibly told to close.
LEMMA RecordSteps ==
    ASSUME NEW st, NEW x, NEW s \in Sessions, NEW b, NEW v, Good(st),
           st.act[s] # Idle, Revised(st, x, s, b, v),
           v = st.worker[s] \/ v = Shuttered(st.worker[s]),
           Carries(st.act[s], b), b.pc = st.act[s].pc, b.stop = st.act[s].stop,
           b.failed = st.act[s].failed, b.result = st.act[s].result, Staged(b, v, s)
    PROVE  Steps(st, x, s)
<1> DEFINE a == st.act[s]
           w == st.worker[s]
<1>1. Staged(a, w, s) /\ Truthful(st.db, a, w, s) /\ Shut(st.db, a, w, s)
      /\ Executing(st.db, a, s)
  BY DEF Good, Aright
<1>2. a.pc # "idle" /\ b.pc # "idle"
  BY <1>1 DEF Executing
<1>3. v = "live" => w = "live"
  BY DEF Shuttered
<1>4. Truthful(st.db, b, v, s)
  BY <1>1 DEF Truthful, Shuttered, Gone, Carries
<1>5. Shut(st.db, b, v, s)
  BY <1>1 DEF Shut
<1>6. Adjusts(st, x, s)
  BY <1>2, <1>3, <1>4, <1>5 DEF Adjusts, Revised, Carries
<1> QED BY <1>6, AdjustsSteps

\* Clearing a timer and closing a Worker do not disturb each other.
LEMMA DisarmClose ==
    ASSUME NEW st \in States, NEW r, NEW s \in Sessions
    PROVE  CloseWorker(Disarm(st, r), s) = Disarm(CloseWorker(st, s), r)
BY DEF CloseWorker, Disarm, States

\* Clearing a timer and changing an ActiveRun commute.
LEMMA DisarmPut ==
    ASSUME NEW st \in States, NEW r, NEW s \in Sessions, NEW b \in ActiveRecord
    PROVE  Put(Disarm(st, r), s, b) = Disarm(Put(st, s, b), r)
BY DEF Put, Disarm, States

\* Clearing a timer and writing to the database commute.
LEMMA DisarmDatabase ==
    ASSUME NEW st \in States, NEW r, NEW d
    PROVE  [Disarm(st, r) EXCEPT !.db = d] = Disarm([st EXCEPT !.db = d], r)
BY DEF Disarm, States

\* Clearing a timer and leaving the queue commute.
LEMMA DisarmDequeue ==
    ASSUME NEW st \in States, NEW r, NEW t
    PROVE  Dequeue(Disarm(st, r), t) = Disarm(Dequeue(st, t), r)
<1> DEFINE at == {i \in 1 .. Len(st.queue) : st.queue[i] = t}
           q == RemoveAt(st.queue, Min(at))
           y == Disarm(st, r)
<1>1. y.queue = st.queue
  BY DEF Disarm, States
<1>2. Dequeue(y, t) = IF at = {} THEN y ELSE [y EXCEPT !.queue = q]
  BY <1>1 DEF Dequeue
<1>3. Dequeue(st, t) = IF at = {} THEN st ELSE [st EXCEPT !.queue = q]
  BY DEF Dequeue
<1> HIDE DEF at, q
<1>4. [y EXCEPT !.queue = q] = Disarm([st EXCEPT !.queue = q], r)
  BY DEF Disarm, States
<1> QED BY <1>2, <1>3, <1>4

\* Clearing the timer of a run before or after it is stopped is the same.
LEMMA StopDisarmed ==
    ASSUME NEW st, NEW r \in Runs, NEW reason \in {"cancelled", "timed_out"}, Good(st),
           Accepted(st.db, r)
    PROVE  Stop(Disarm(st, r), r, reason) = Disarm(Stop(st, r, reason), r)
<1> DEFINE y == Disarm(st, r)
           s == st.db.run[r].session
           a == st.act[s]
           e == SetRunStatus(st.db, r, "cancelling")
           told == [st EXCEPT !.act[s].stop = reason, !.db = e]
<1>1. st \in States /\ s \in Sessions /\ a \in ActiveRecord
      /\ st.act \in [Sessions -> ActiveRecord]
  BY DEF Good, States, Referenced
<1>2. y.db = st.db /\ y.act = st.act /\ y.queue = st.queue /\ y \in States
  BY <1>1 DEF Disarm, States
<1>3. CASE IsTerminal(st.db, r)
  BY <1>2, <1>3 DEF Stop
<1>4. CASE ~ IsTerminal(st.db, r) /\ a.run # r
  <2> DEFINE u == Dequeue(st, r)
             f == FinishRun(AppendEvent(u.db, r, 0), r, reason, "confirmed")
  <2>1. Stop(st, r, reason) = Disarm(End(u, r, reason, "confirmed"), r)
    BY <1>4 DEF Stop
  <2>2. Stop(y, r, reason) = Disarm(End(Dequeue(y, r), r, reason, "confirmed"), r)
    BY <1>2, <1>4 DEF Stop
  <2>3. Dequeue(y, r) = Disarm(u, r)
    BY <1>1, DisarmDequeue
  <2>4. u \in States
    <3>1. CASE \E i \in 1 .. Len(st.queue) : st.queue[i] = r
      <4>1. PICK j \in 1 .. Len(st.queue) : u = [st EXCEPT !.queue = RemoveAt(st.queue, j)]
        BY <1>1, <3>1, DequeueWithout
      <4>2. RemoveAt(st.queue, j) \in Seq(Runs)
        BY <1>1, RemovedWithout DEF Without, States
      <4> HIDE DEF u
      <4> QED BY <1>1, <4>1, <4>2 DEF States
    <3>2. CASE ~ \E i \in 1 .. Len(st.queue) : st.queue[i] = r
      <4>1. {i \in 1 .. Len(st.queue) : st.queue[i] = r} = {}
        BY <3>2
      <4> QED BY <1>1, <4>1 DEF Dequeue
    <3> QED BY <3>1, <3>2
  <2> HIDE DEF u
  <2>5. Disarm(u, r).db = u.db
    BY <2>4 DEF Disarm, States
  <2>6. End(Disarm(u, r), r, reason, "confirmed") = [Disarm(u, r) EXCEPT !.db = f]
    BY <2>5 DEF End
  <2>7. End(u, r, reason, "confirmed") = [u EXCEPT !.db = f]
    BY DEF End
  <2>8. [Disarm(u, r) EXCEPT !.db = f] = Disarm([u EXCEPT !.db = f], r)
    BY <2>4, DisarmDatabase
  <2> QED BY <2>1, <2>2, <2>3, <2>6, <2>7, <2>8
<1>5. CASE ~ IsTerminal(st.db, r) /\ a.run = r /\ a.stop # "none"
  BY <1>2, <1>5 DEF Stop
<1>6. CASE ~ IsTerminal(st.db, r) /\ a.run = r /\ a.stop = "none"
  <2> DEFINE d == [y EXCEPT !.act[s].stop = reason, !.db = e]
  <2>1. Stop(st, r, reason) =
          IF a.handle THEN [told EXCEPT !.act[s].stopping = "grace"]
          ELSE CloseWorker([told EXCEPT !.act[s].stopping = "closing"], s)
    BY <1>6 DEF Stop
  <2>2. Stop(y, r, reason) =
          IF a.handle THEN [d EXCEPT !.act[s].stopping = "grace"]
          ELSE CloseWorker([d EXCEPT !.act[s].stopping = "closing"], s)
    BY <1>2, <1>6 DEF Stop
  <2>3. ASSUME NEW v \in {"grace", "closing"}
        PROVE  /\ [d EXCEPT !.act[s].stopping = v] = Disarm([told EXCEPT !.act[s].stopping = v], r)
               /\ [told EXCEPT !.act[s].stopping = v] \in States
    <3> DEFINE w == [st EXCEPT !.db = e]
               z == [y EXCEPT !.db = e]
               g == [a EXCEPT !.stop = reason, !.stopping = v]
    <3>0. Puts(st, w, e) /\ Puts(y, z, e) /\ Tells(st.act[s], g, reason, v)
          /\ Tells(y.act[s], g, reason, v)
      BY <1>2 DEF Puts, Tells
    <3> HIDE DEF w, z, g, e, y
    <3>a. Told(st, s, reason, e, v) = Put(w, s, g)
      BY <1>1, <3>0, Twofold
    <3>b. Told(y, s, reason, e, v) = Put(z, s, g)
      BY <1>1, <1>2, <3>0, Twofold
    <3>1. [told EXCEPT !.act[s].stopping = v] = Put(w, s, g)
      BY <3>a DEF Told
    <3>2. [d EXCEPT !.act[s].stopping = v] = Put(z, s, g)
      BY <3>b DEF Told
    <3>3. e \in Database
      <4>1. Executing(st.db, a, s)
        BY <1>1 DEF Good, Aright
      <4>2. st.db.run[r].status \in Busy
        BY <1>6, <4>1, StoreAssumption DEF Executing, Idle
      <4>3. "cancelling" \in Busy /\ "cancelling" # "starting"
        BY DEF Busy, Working
      <4>4. QuietWork(st.db, e, r)
        BY <1>1, <4>2, <4>3, StatusBusy DEF States, e
      <4> QED BY <4>4 DEF QuietWork, Busywork
    <3>4. z = Disarm(w, r) /\ w \in States
      BY <1>1, <3>3, DisarmDatabase DEF States, z, w, y
    <3>5. g \in ActiveRecord
      BY <1>1 DEF ActiveRecord, g
    <3>6. Put(Disarm(w, r), s, g) = Disarm(Put(w, s, g), r)
      BY <1>1, <3>4, <3>5, DisarmPut
    <3>7. Put(w, s, g) \in States
      BY <1>1, <3>4, <3>5, PutRevises DEF Revised
    <3> QED BY <3>1, <3>2, <3>4, <3>6, <3>7
  <2> HIDE DEF told, d, y
  <2>4. CASE a.handle
    <3>1. "grace" \in {"grace", "closing"}
      OBVIOUS
    <3>2. [d EXCEPT !.act[s].stopping = "grace"]
          = Disarm([told EXCEPT !.act[s].stopping = "grace"], r)
      BY <2>3, <3>1
    <3> QED BY <2>1, <2>2, <2>4, <3>2 DEF y
  <2>5. CASE ~ a.handle
    <3> DEFINE w == [told EXCEPT !.act[s].stopping = "closing"]
    <3>0. "closing" \in {"grace", "closing"}
      OBVIOUS
    <3>1. [d EXCEPT !.act[s].stopping = "closing"] = Disarm(w, r) /\ w \in States
      BY <2>3, <3>0
    <3> HIDE DEF w
    <3>2. CloseWorker(Disarm(w, r), s) = Disarm(CloseWorker(w, s), r)
      BY <1>1, <3>1, DisarmClose
    <3> QED BY <2>1, <2>2, <2>5, <3>1, <3>2 DEF w, y
  <2> QED BY <2>4, <2>5
<1> QED BY <1>3, <1>4, <1>5, <1>6

\* A permission, then the status.
LEMMA AskThenStatus ==
    ASSUME NEW d, NEW e, NEW r \in Runs, AskingWork(d, e, r), NEW status \in Busy,
           status # "starting"
    PROVE  AskingWork(d, SetRunStatus(e, r, status), r)
<1> DEFINE f == SetRunStatus(e, r, status)
<1>1. Busywork(d, e, r) /\ e.artifact = d.artifact
  BY DEF AskingWork
<1>2. QuietWork(e, f, r)
  BY <1>1, StatusBusy DEF Busywork
<1> HIDE DEF f
<1>3. Busywork(e, f, r) /\ f.artifact = e.artifact
  BY <1>2 DEF QuietWork
<1>4. Busywork(d, f, r)
  BY <1>1, <1>3, BusyworkTwice
<1> QED BY <1>1, <1>3, <1>4 DEF AskingWork, f

\* A call of Session s that changed its closer.
LEMMA CloserChanged ==
    ASSUME NEW st, NEW s \in Sessions, NEW b, NEW c, NEW ss, NEW ps, Fit(st, c, ss, ps),
           c \in [Sessions -> [phase : {"none", "stop", "host", "settle"}, run : Runs \cup {None}]],
           CloserFit(st, b, s)
    PROVE  Fit(st, [c EXCEPT ![s] = b], ss, ps)
<1> DEFINE e == [c EXCEPT ![s] = b]
<1>1. e[s] = b /\ \A t \in Sessions \ {s} : e[t] = c[t]
  OBVIOUS
<1> HIDE DEF e
<1>2. ClosersFit(st, e)
  BY <1>1 DEF Fit, ClosersFit
<1> QED BY <1>2 DEF Fit, e

==============================================================================

-------------------------- MODULE WorkerIpcProofs --------------------------
(***************************************************************************)
(* What the host and its Worker promise, for any number of runs, events    *)
(* and Workers (module WorkerIpc).                                         *)
(*                                                                         *)
(* The argument follows one token: between a delivery and its              *)
(* acknowledgement the current message is in toHost, in the sink, or on    *)
(* its way back as an acknowledgement, and in one of these places only.    *)
(* From this follow the numbering at both ends (InOrder), that a run       *)
(* command never overtakes the acknowledgement before it (Between), and    *)
(* that what the sink has seen is what the driver produced (Counted).      *)
(***************************************************************************)
EXTENDS WorkerIpc, TLAPS

Command == [type : {"run", "ack", "cancel", "permission", "shutdown"},
            run : Runs \cup {0}, seq : Nat]
Report == [type : {"ready", "event", "permission", "applied", "result"},
           run : Runs \cup {0}, seq : Nat]
Kind == {"event", "permission", "applied", "result"}

Has(q, type) == \E i \in 1 .. Len(q) : q[i].type = type

\* The host still trusts its Worker.
Trusts(h) == h.known /\ ~ h.failed /\ ~ h.exited

\* The Worker still delivers.
Live(w) == w.life \in {"boot", "up"} /\ (w.run # 0 \/ ~ w.down)

\* What the host remembers of its Worker, and who waits for a result.
HostOwns ==
    /\ ~ host.known => /\ host.exited /\ host.closing = "no" /\ ~ host.connected
                       /\ host.run = 0 /\ host.busy = "no" /\ ~ host.timer
                       /\ toHost = <<>> /\ start.pc # "ready"
                       /\ worker.life \in {"none", "dead"} /\ worker.stray \subseteq {"lost"}
    /\ host.known /\ host.exited => host.ready # "pending" /\ worker.life = "dead"
    /\ ~ host.known \/ host.closing = "sweep" => ~ worker.group /\ host.exited
    /\ host.closing \in Cleanup => host.failed
    /\ \A r \in Runs : result[r] = "pending" =>
          /\ host.known /\ host.run = r /\ ~ host.failed
          /\ host.exited => start.run = r /\ start.pc \in {"ready", "lost"}
    /\ \A q, r \in Runs : q <= r /\ result[q] = "none" => result[r] = "none"

\* The Worker's own fields.
WorkerOwns ==
    /\ worker.life \in {"none", "boot", "dead"} => worker.run = 0
    /\ worker.life = "boot" => toHost = <<>> /\ ~ worker.down /\ host.ready # "resolved"
    /\ worker.run = 0 => worker.ack = 0 /\ worker.out = <<>> /\ ~ worker.driving
    /\ worker.ack # 0 => worker.ack = worker.seq
    /\ worker.run # 0 /\ worker.last => worker.ack # 0 /\ ~ worker.driving
    /\ \A i \in 1 .. Len(toWorker) : toWorker[i].type = "permission" => toWorker[i].run # 0

\* The commands on their way: one acknowledgement, the one awaited, and one run behind it.
Queue(q, w) ==
    /\ \A i \in 1 .. Len(q) : q[i].type = "ack" =>
          w.ack # 0 /\ q[i].run = w.run /\ q[i].seq = w.ack
    /\ \A i, j \in 1 .. Len(q) : q[i].type = "ack" /\ q[j].type = "ack" => i = j
    /\ \A i, j \in 1 .. Len(q) : q[i].type = "run" /\ q[j].type = "run" => i = j
    /\ \A i \in 1 .. Len(q) : q[i].type = "run" =>
          w.run = 0 \/ (w.last /\ \E j \in 1 .. Len(q) : j < i /\ q[j].type = "ack")

\* A message waits at one place.
Token ==
    /\ Len(toHost) <= 1
    /\ Live(worker) =>
       /\ Queue(toWorker, worker)
       /\ toHost # <<>> /\ toHost[1].type # "ready" =>
            /\ worker.ack # 0 /\ toHost[1].run = worker.run /\ toHost[1].seq = worker.ack
            /\ (toHost[1].type = "result") <=> worker.last
            /\ ~ Has(toWorker, "ack") /\ host.busy # "sink"
       /\ host.busy = "sink" =>
            /\ worker.ack # 0 /\ host.run = worker.run /\ host.seq = worker.ack
            /\ host.last <=> worker.last
            /\ toHost = <<>> /\ ~ Has(toWorker, "ack")

\* Before the handshake nothing else is said.
Early ==
    /\ host.known /\ host.ready # "resolved" =>
         /\ host.busy = "no" /\ host.seq = 0 /\ worker.run = 0 /\ ~ Has(toWorker, "run")
         /\ toHost # <<>> => toHost[1].type = "ready"
    /\ toHost # <<>> /\ toHost[1].type = "ready" => host.known /\ host.ready # "resolved"

\* Both ends count alike.
InOrder ==
    Trusts(host) =>
      /\ host.ready # "rejected"
      /\ host.ready = "pending" => host.run # 0
      /\ toHost # <<>> /\ toHost[1].type # "ready" =>
           /\ host.run # 0 /\ toHost[1].run = host.run /\ toHost[1].seq = host.seq + 1
           /\ host.busy # "sink" /\ (host.busy = "ack" => ~ host.last)
      /\ host.run = 0 => host.busy = "no"
      /\ start.pc = "ready" =>
           host.busy = "no" /\ host.seq = 0 /\ host.run = start.run /\ host.run # 0
      /\ Live(worker) =>
          /\ \A i \in 1 .. Len(toWorker) : toWorker[i].type = "run" =>
               /\ toWorker[i].run = host.run /\ host.run # 0
               /\ host.seq = 0 /\ host.busy = "no"
          /\ worker.run # 0 /\ ~ (worker.last /\ Has(toWorker, "ack")) =>
               /\ host.run = worker.run
               /\ worker.seq = IF toHost # <<>> THEN host.seq + 1 ELSE host.seq

\* Between two runs: no command is sent, and the Worker is idle or about to be.
Between ==
    Live(worker) /\ (start.pc = "ready" \/ host.run = 0 \/ (host.busy = "ack" /\ host.last)) =>
       /\ ~ Has(toWorker, "run")
       /\ worker.run = 0 \/ (worker.last /\ Has(toWorker, "ack"))

\* What was produced and what was seen.
Open(res, r) == r \in Runs /\ res[r] \in {"pending", "rejected"}

\* Nothing of a run that was never taken, and everything of one that was handed over.
Untouched == \A r \in Runs : result[r] = "none" => seen[r] = 0 /\ produced[r] = 0
Complete == \A r \in Runs : result[r] = "resolved" => seen[r] = produced[r] /\ host.run # r

\* The host counts what the sink has seen of its run.
Taken == host.run # 0 => seen[host.run] = host.seq /\ result[host.run] # "none"

\* A run that is not yet with the Worker has produced nothing.
Prepared == start.pc = "ready" => Open(result, start.run) /\ produced[start.run] = 0
Sent == Live(worker) => \A i \in 1 .. Len(toWorker) : toWorker[i].type = "run" =>
          Open(result, toWorker[i].run) /\ produced[toWorker[i].run] = 0

\* A result on its way is the last message of its run.
Final ==
    /\ toHost # <<>> /\ toHost[1].type = "result" =>
         /\ toHost[1].run # 0 /\ produced[toHost[1].run] = toHost[1].seq
         /\ ~ (worker.driving /\ worker.run = toHost[1].run)
    /\ host.busy \in {"sink", "ack"} /\ host.last /\ ~ host.exited =>
         /\ host.run # 0 /\ produced[host.run] = host.seq
         /\ ~ (worker.driving /\ worker.run = host.run)

Counted == Untouched /\ Complete /\ Taken /\ Prepared /\ Sent /\ Final

\* What the Worker has delivered and will deliver is what its driver produced.
Driven ==
    /\ worker.run # 0 => result[worker.run] # "none"
    /\ worker.driving =>
         /\ Open(result, worker.run)
         /\ \A i \in 1 .. Len(worker.out) : worker.out[i] # "result"
         /\ produced[worker.run] = worker.seq + Len(worker.out)
    /\ worker.run # 0 /\ ~ worker.driving /\ ~ worker.last =>
         \E k \in 1 .. Len(worker.out) :
            /\ produced[worker.run] = worker.seq + k
            /\ \A i \in 1 .. Len(worker.out) : (worker.out[i] = "result") <=> (i = k)
    /\ worker.run # 0 /\ worker.last => produced[worker.run] = worker.seq

Inv ==
    /\ TypeOK /\ HostOwns /\ WorkerOwns
    /\ Token /\ Early /\ InOrder /\ Between
    /\ Counted /\ Driven

----------------------------------------------------------------------------
(* Sequences *)

\* What is appended comes last.
LEMMA AppendOf ==
    ASSUME NEW S, NEW q \in Seq(S), NEW e \in S
    PROVE  LET p == Append(q, e) IN
           /\ p \in Seq(S) /\ Len(p) = Len(q) + 1 /\ p # <<>>
           /\ \A i \in 1 .. Len(q) : p[i] = q[i] /\ i \in 1 .. Len(p)
           /\ p[Len(q) + 1] = e /\ Len(q) + 1 \in 1 .. Len(p)
OBVIOUS

\* What is left after the head.
LEMMA TailOf ==
    ASSUME NEW S, NEW q \in Seq(S), q # <<>>
    PROVE  LET p == Tail(q) IN
           /\ p \in Seq(S) /\ Len(q) = Len(p) + 1 /\ Head(q) = q[1] /\ q[1] \in S
           /\ 1 \in 1 .. Len(q)
           /\ \A i \in 1 .. Len(p) : p[i] = q[i + 1] /\ i + 1 \in 1 .. Len(q)
OBVIOUS

\* A sequence with no element is the empty one.
LEMMA EmptyOf ==
    ASSUME NEW S, NEW q \in Seq(S)
    PROVE  (q = <<>>) <=> (Len(q) = 0)
OBVIOUS

\* Nothing is a sequence of anything.
LEMMA NoneOf == ASSUME NEW S PROVE <<>> \in Seq(S) /\ Len(<<>>) = 0
OBVIOUS

\* The type of an element.
LEMMA ElementOf ==
    ASSUME NEW S, NEW q \in Seq(S), NEW i \in 1 .. Len(q)
    PROVE  q[i] \in S
OBVIOUS

----------------------------------------------------------------------------
(* What the operators make of a host record *)

\* From h to g the run, its count and the process are the same; a failure, a rejection and
\* the end of a message may come.
Steady(h, g) ==
    /\ g \in Host
    /\ g.known = h.known /\ g.run = h.run /\ g.seq = h.seq
    /\ g.exited = h.exited /\ g.last = h.last
    /\ h.failed => g.failed
    /\ g.ready = h.ready \/ (h.ready = "pending" /\ g.ready = "rejected" /\ g.failed)
    /\ g.busy = h.busy \/ (g.busy = "no" /\ (g.failed \/ (h.busy = "ack" /\ ~ h.last)))
    /\ g.connected => h.connected
    /\ g.timer => h.timer

\* closeSession starts the end of a Worker once.
LEMMA CloseFields ==
    ASSUME NEW h \in Host
    PROVE  LET g == CloseSession(h) IN
           /\ Steady(h, g) /\ g.failed = h.failed /\ g.ready = h.ready /\ g.busy = h.busy
           /\ g.connected = h.connected
           /\ g.closing = IF h.known /\ h.closing = "no" THEN "snapshot" ELSE h.closing
<1> DEFINE g == [h EXCEPT !.closing = "snapshot", !.timer = FALSE]
<1>1. CASE h.known /\ h.closing = "no"
  <2>1. CloseSession(h) = g
    BY <1>1 DEF CloseSession
  <2>2. /\ g \in Host
        /\ g.known = h.known /\ g.run = h.run /\ g.seq = h.seq /\ g.exited = h.exited
        /\ g.last = h.last /\ g.failed = h.failed /\ g.ready = h.ready /\ g.busy = h.busy
        /\ g.connected = h.connected /\ ~ g.timer /\ g.closing = "snapshot"
    BY DEF Host
  <2> HIDE DEF g
  <2> QED BY <1>1, <2>1, <2>2 DEF Steady
<1>2. CASE ~ (h.known /\ h.closing = "no")
  BY <1>2 DEF CloseSession, Steady
<1> QED BY <1>1, <1>2

\* fail() rejects the handshake and closes the Worker.
LEMMA FailFields ==
    ASSUME NEW h \in Host
    PROVE  LET g == FailWorker(h) IN
           /\ Steady(h, g) /\ g.failed /\ ~ g.timer /\ g.busy = h.busy
           /\ g.connected = h.connected
           /\ g.closing = IF ~ h.failed /\ h.known /\ h.closing = "no"
                          THEN "snapshot" ELSE h.closing
           /\ ~ h.failed => g.ready # "pending"
<1>1. CASE h.failed
  <2> DEFINE g == [h EXCEPT !.timer = FALSE]
  <2>1. FailWorker(h) = g
    BY <1>1 DEF FailWorker
  <2>2. /\ g \in Host
        /\ g.known = h.known /\ g.run = h.run /\ g.seq = h.seq /\ g.exited = h.exited
        /\ g.last = h.last /\ g.failed = h.failed /\ g.ready = h.ready /\ g.busy = h.busy
        /\ g.connected = h.connected /\ ~ g.timer /\ g.closing = h.closing
    BY DEF Host
  <2> HIDE DEF g
  <2> QED BY <1>1, <2>1, <2>2 DEF Steady
<1>2. CASE ~ h.failed
  <2> DEFINE a == [h EXCEPT !.failed = TRUE, !.timer = FALSE]
             v == IF a.ready = "pending" THEN "rejected" ELSE a.ready
             b == [a EXCEPT !.ready = v]
  <2>1. FailWorker(h) = CloseSession(b)
    BY <1>2 DEF FailWorker, RejectReady
  <2>2. /\ a \in Host
        /\ a.known = h.known /\ a.run = h.run /\ a.seq = h.seq /\ a.exited = h.exited
        /\ a.last = h.last /\ a.failed /\ a.ready = h.ready /\ a.busy = h.busy
        /\ a.connected = h.connected /\ ~ a.timer /\ a.closing = h.closing
    BY DEF Host
  <2> HIDE DEF a
  <2>3. v \in {"pending", "resolved", "rejected"} /\ v # "pending"
        /\ (v = h.ready \/ (h.ready = "pending" /\ v = "rejected"))
    BY <2>2 DEF Host
  <2> HIDE DEF v
  <2>4. /\ b \in Host
        /\ b.known = a.known /\ b.run = a.run /\ b.seq = a.seq /\ b.exited = a.exited
        /\ b.last = a.last /\ b.failed = a.failed /\ b.ready = v /\ b.busy = a.busy
        /\ b.connected = a.connected /\ b.timer = a.timer /\ b.closing = a.closing
    BY <2>2, <2>3 DEF Host
  <2> HIDE DEF b
  <2> DEFINE g == CloseSession(b)
  <2>5. /\ Steady(b, g) /\ g.failed = b.failed /\ g.ready = b.ready /\ g.busy = b.busy
        /\ g.connected = b.connected
        /\ g.closing = IF b.known /\ b.closing = "no" THEN "snapshot" ELSE b.closing
    BY <2>4, CloseFields
  <2> HIDE DEF g
  <2>6. Steady(h, g)
    BY <1>2, <2>2, <2>3, <2>4, <2>5 DEF Steady
  <2>7. g.failed /\ ~ g.timer /\ g.busy = h.busy /\ g.connected = h.connected
        /\ g.ready # "pending"
    BY <2>2, <2>3, <2>4, <2>5 DEF Steady
  <2>8. g.closing = IF ~ h.failed /\ h.known /\ h.closing = "no"
                    THEN "snapshot" ELSE h.closing
    BY <1>2, <2>2, <2>4, <2>5
  <2> QED BY <2>1, <2>6, <2>7, <2>8 DEF g
<1> QED BY <1>1, <1>2

\* Every result somebody waited for is rejected.
Rejected ==
    /\ result' \in [Runs -> {"none", "pending", "resolved", "rejected"}]
    /\ \A r \in Runs : result'[r] = IF result[r] = "pending" THEN "rejected" ELSE result[r]

\* The one run that can be waited for is the host's.
LEMMA SettleRejects ==
    ASSUME Inv, result' = Settle(result, host.run, "rejected") PROVE Rejected
<1>1. result \in [Runs -> {"none", "pending", "resolved", "rejected"}] /\ host \in Host
  BY DEF Inv, TypeOK
<1>2. \A r \in Runs : result[r] = "pending" => host.run = r
  BY DEF Inv, HostOwns
<1>3. host.run \in Runs \cup {0}
  BY <1>1 DEF Host
<1> QED BY <1>1, <1>2, <1>3 DEF Settle, Rejected, Runs

\* fail() rejects all that waits; a Worker that has failed before leaves nobody waiting.
LEMMA FailRejects ==
    ASSUME Inv, NEW h \in Host, Steady(host, h), h.failed = host.failed, Fail(h) PROVE Rejected
<1>1. result \in [Runs -> {"none", "pending", "resolved", "rejected"}]
  BY DEF Inv, TypeOK
<1>2. CASE host.failed
  <2>1. result' = result
    BY <1>2 DEF Fail, FailResult
  <2>2. \A r \in Runs : result[r] # "pending"
    BY <1>2 DEF Inv, HostOwns
  <2> QED BY <1>1, <2>1, <2>2 DEF Rejected
<1>3. CASE ~ host.failed
  <2>1. result' = Settle(result, host.run, "rejected")
    BY <1>3 DEF Fail, FailResult, Steady
  <2> QED BY <2>1, SettleRejects
<1> QED BY <1>2, <1>3

----------------------------------------------------------------------------
(* Quiet steps of the host: nothing is read, acknowledged or started *)

\* A command that neither starts a run nor acknowledges.
Said(q, p) ==
    \/ p = q
    \/ \E c \in Command : /\ c.type \notin {"run", "ack"} /\ (c.type = "permission" => c.run # 0)
                          /\ p = Append(q, c)

SameWorker ==
    /\ worker' \in Worker
    /\ worker'.life = worker.life /\ worker'.run = worker.run /\ worker'.seq = worker.seq
    /\ worker'.ack = worker.ack /\ worker'.last = worker.last /\ worker'.out = worker.out
    /\ worker'.driving = worker.driving /\ worker'.down = worker.down
    /\ worker'.group => worker.group
    /\ worker.stray \subseteq {"lost"} => worker'.stray \subseteq {"lost"}

\* terminate() goes on.
Stage ==
    \/ host'.closing = host.closing
    \/ host.known /\ host'.closing \in {"snapshot", "grace", "term", "kill"}
    \/ host.known /\ host'.closing = "sweep" /\ GroupGone
    \/ host.known /\ host'.closing \in Cleanup /\ host'.failed

Given ==
    \/ start' = start
    \/ /\ start'.pc \in {"none", "closing"}
       /\ start' \in [run : Runs \cup {0}, pc : {"none", "closing"}]
       /\ start.pc \notin {"ready", "lost"} \/ host'.failed

\* The results of a step: a refused start, or all that waits.
Told ==
    /\ result' \in [Runs -> {"none", "pending", "resolved", "rejected"}]
    /\ \/ result' = result /\ host'.failed = host.failed
       \/ Rejected /\ host'.failed
       \/ \E r \in Runs : MayStart(r) /\ result' = [result EXCEPT ![r] = "rejected"]
                          /\ host' = host

Quiet ==
    /\ Steady(host, host') /\ SameWorker /\ Stage /\ Given /\ Told
    /\ toHost' = toHost \/ (toHost' = <<>> /\ host'.failed)
    /\ Said(toWorker, toWorker') \/ (toWorker' = <<>> /\ worker.life = "dead")
    /\ UNCHANGED <<spawns, produced, seen>>

\* The types, in the form in which the lemmas use them.
LEMMA SameFields ==
    ASSUME Inv
    PROVE  /\ host \in Host /\ worker \in Worker /\ Steady(host, host)
           /\ result \in [Runs -> {"none", "pending", "resolved", "rejected"}]
           /\ start \in [run : Runs \cup {0}, pc : {"none", "ready", "sending", "lost", "closing"}]
           /\ toWorker \in Seq(Command) /\ toHost \in Seq(Report)
           /\ produced \in [Runs -> Nat] /\ seen \in [Runs -> Nat]
           /\ host.run \in Runs \cup {0}
BY DEF Inv, TypeOK, Steady, Command, Report, Host

\* fail() is quiet, whatever message ends with it.
LEMMA FailQuiet ==
    ASSUME Inv, NEW h \in Host, Steady(host, h), h.failed = host.failed,
           h.closing = host.closing, Fail(h),
           worker' = worker, spawns' = spawns, produced' = produced, seen' = seen,
           toHost' \in {toHost, <<>>},
           toWorker' = toWorker \/ (toWorker' = <<>> /\ worker.life = "dead"),
           \/ start' = start
           \/ start' \in [run : Runs \cup {0}, pc : {"closing"}]
    PROVE  Quiet
<1>1. host' = FailWorker(h) /\ Rejected
  BY FailRejects DEF Fail
<1>2. /\ Steady(h, host') /\ host'.failed
      /\ host'.closing = IF ~ h.failed /\ h.known /\ h.closing = "no"
                         THEN "snapshot" ELSE h.closing
  BY <1>1, FailFields
<1>3. Steady(host, host')
  BY <1>2 DEF Steady
<1>4. SameWorker
  BY SameFields DEF SameWorker
<1>5. Stage
  BY <1>2 DEF Stage, Steady
<1>6. Given
  BY <1>2 DEF Given
<1>7. Told
  BY <1>1, <1>2 DEF Told, Rejected
<1> QED BY <1>2, <1>3, <1>4, <1>5, <1>6, <1>7 DEF Quiet, Said

\* The end of a message with an error.
LEMMA BusyFields ==
    ASSUME Inv
    PROVE  LET h == [host EXCEPT !.busy = "no"] IN
           /\ h \in Host /\ h.failed = host.failed /\ h.closing = host.closing
           /\ h.known = host.known /\ h.run = host.run /\ h.seq = host.seq
           /\ h.exited = host.exited /\ h.last = host.last /\ h.ready = host.ready
           /\ h.busy = "no" /\ h.connected = host.connected /\ h.timer = host.timer
BY SameFields DEF Host

\* fail() is quiet also when it ends the current message.
LEMMA FailBusyQuiet ==
    ASSUME Inv, Fail([host EXCEPT !.busy = "no"]),
           worker' = worker, spawns' = spawns, produced' = produced, seen' = seen,
           toHost' = toHost, toWorker' = toWorker, start' = start
    PROVE  Quiet
<1> DEFINE h == [host EXCEPT !.busy = "no"]
<1>1. /\ h \in Host /\ h.failed = host.failed /\ h.closing = host.closing
      /\ h.known = host.known /\ h.run = host.run /\ h.seq = host.seq
      /\ h.exited = host.exited /\ h.last = host.last /\ h.ready = host.ready
      /\ h.busy = "no" /\ h.connected = host.connected /\ h.timer = host.timer
  BY BusyFields
<1>2. Fail(h)
  OBVIOUS
<1> HIDE DEF h
<1>3. host' = FailWorker(h) /\ Steady(h, host') /\ host'.failed
      /\ host'.closing = IF ~ h.failed /\ h.known /\ h.closing = "no"
                         THEN "snapshot" ELSE h.closing
  BY <1>1, <1>2, FailFields DEF Fail
<1>4. Steady(host, host')
  BY <1>1, <1>3 DEF Steady
<1>5. Rejected
  <2>1. result' = FailResult(host)
    BY <1>1, <1>2 DEF Fail, FailResult
  <2> DEFINE g == FailWorker(host)
  <2>2. CASE host.failed
    <3>1. result' = result /\ \A r \in Runs : result[r] # "pending"
      BY <2>1, <2>2 DEF FailResult, Inv, HostOwns
    <3> QED BY <3>1, SameFields DEF Rejected
  <2>3. CASE ~ host.failed
    BY <2>1, <2>3, SettleRejects DEF FailResult
  <2> QED BY <2>2, <2>3
<1>6. SameWorker
  BY SameFields DEF SameWorker
<1>7. Stage
  BY <1>1, <1>3 DEF Stage
<1>8. Told
  BY <1>3, <1>5 DEF Told, Rejected
<1> QED BY <1>3, <1>4, <1>6, <1>7, <1>8 DEF Quiet, Given, Said

\* A Worker that cannot be proved gone is quarantined.
LEMMA EndedFields ==
    ASSUME Inv, NEW outcome \in {"failed", "unconfirmed"}, Ended(outcome)
    PROVE  Steady(host, host') /\ host'.closing = outcome /\ host'.failed /\ Rejected
<1> DEFINE a == [host EXCEPT !.failed = TRUE, !.closing = outcome]
           v == IF a.ready = "pending" THEN "rejected" ELSE a.ready
           b == [a EXCEPT !.ready = v]
<1>1. host' = b /\ result' = Settle(result, host.run, "rejected")
  BY DEF Ended, RejectReady
<1>2. /\ a \in Host
      /\ a.known = host.known /\ a.run = host.run /\ a.seq = host.seq
      /\ a.exited = host.exited /\ a.last = host.last /\ a.failed /\ a.ready = host.ready
      /\ a.busy = host.busy /\ a.connected = host.connected /\ a.timer = host.timer
      /\ a.closing = outcome
  BY SameFields DEF Host, Cleanup
<1> HIDE DEF a
<1>3. v \in {"pending", "resolved", "rejected"}
      /\ (v = host.ready \/ (host.ready = "pending" /\ v = "rejected"))
  BY <1>2 DEF Host
<1> HIDE DEF v
<1>4. /\ b \in Host
      /\ b.known = a.known /\ b.run = a.run /\ b.seq = a.seq /\ b.exited = a.exited
      /\ b.last = a.last /\ b.failed = a.failed /\ b.ready = v /\ b.busy = a.busy
      /\ b.connected = a.connected /\ b.timer = a.timer /\ b.closing = a.closing
  BY <1>2, <1>3 DEF Host
<1> HIDE DEF b
<1>5. Steady(host, b)
  BY <1>2, <1>3, <1>4 DEF Steady
<1>6. Rejected
  BY <1>1, SettleRejects
<1> QED BY <1>1, <1>2, <1>4, <1>5, <1>6

\* A refused start, the report of a write, and the end of a failed start.
LEMMA StartQuiet ==
    ASSUME Inv, (\E r \in Runs : StartRefused(r)) \/ StartSent \/ StartThrows PROVE Quiet
<1>1. CASE \E r \in Runs : StartRefused(r)
  <2>1. PICK r \in Runs : StartRefused(r)
    BY <1>1
  <2>2. Told
    BY <2>1, SameFields DEF StartRefused, Told
  <2> QED BY <2>1, <2>2, SameFields DEF StartRefused, Quiet, SameWorker, Stage, Given, Said
<1>2. CASE StartSent
  <2>1. CASE StartCatch /\ start.pc \in {"sending", "lost"}
    <3>1. start' \in [run : Runs \cup {0}, pc : {"closing"}]
      BY <2>1, SameFields DEF StartCatch
    <3>2. Fail(host)
      BY <2>1 DEF StartCatch
    <3> QED BY <1>2, <3>1, <3>2, SameFields, FailQuiet DEF StartSent, WorkerSide
  <2>2. CASE start.pc = "sending" /\ start' = [run |-> 0, pc |-> "none"]
             /\ UNCHANGED <<host, result>>
    BY <1>2, <2>2, SameFields
       DEF StartSent, WorkerSide, Quiet, SameWorker, Stage, Given, Said, Told
  <2> QED BY <1>2, <2>1, <2>2 DEF StartSent
<1>3. CASE StartThrows
  BY <1>3, SameFields DEF StartThrows, WorkerSide, Quiet, SameWorker, Stage, Given, Said, Told
<1> QED BY <1>1, <1>2, <1>3

\* start() finds its Worker failed, closed or gone.
LEMMA StartReadyQuiet ==
    ASSUME Inv, StartReady,
           ~ (host.ready = "resolved" /\ host.closing = "no" /\ ~ host.failed /\ host.connected)
    PROVE  Quiet
<1>1. StartCatch /\ toWorker' = toWorker
  BY DEF StartReady
<1>2. start' \in [run : Runs \cup {0}, pc : {"closing"}]
  BY <1>1, SameFields DEF StartCatch
<1>3. Fail(host)
  BY <1>1 DEF StartCatch
<1> QED BY <1>1, <1>2, <1>3, SameFields, FailQuiet DEF StartReady, WorkerSide

\* The handle's commands.
LEMMA ClientQuiet == ASSUME Inv, Cancel \/ RespondPermission PROVE Quiet
<1>1. /\ \E type \in {"cancel", "permission"} :
            toWorker' = Append(toWorker, Message(type, host.run, 0))
      /\ host.run # 0
      /\ start' = start /\ result' = result /\ worker' = worker /\ toHost' = toHost
      /\ produced' = produced /\ spawns' = spawns /\ seen' = seen
      /\ \/ host' = [host EXCEPT !.told = TRUE]
         \/ host' = [host EXCEPT !.asks = "answered"]
  BY DEF Cancel, RespondPermission, WorkerSide, HasHandle
<1>2. Steady(host, host') /\ host'.closing = host.closing /\ host'.failed = host.failed
  BY <1>1, SameFields DEF Steady, Host
<1>3. Said(toWorker, toWorker')
  BY <1>1, SameFields DEF Said, Message, Command
<1> QED BY <1>1, <1>2, <1>3, SameFields DEF Quiet, SameWorker, Stage, Given, Told

\* The timers of the handshake and of the initialization.
LEMMA TimersQuiet == ASSUME Inv, HandshakeTimeout \/ InitializeTimeout PROVE Quiet
BY SameFields, FailQuiet DEF HandshakeTimeout, InitializeTimeout, WorkerSide

\* The sink threw, or the channel was gone.
LEMMA SinkQuiet ==
    ASSUME Inv, SinkThrows \/ (SinkReturns /\ ~ host.connected) PROVE Quiet
BY FailBusyQuiet DEF SinkThrows, SinkReturns, WorkerSide

\* The report of an acknowledgement, but for the one that ends a run.
LEMMA AckQuiet ==
    ASSUME Inv, AckSent,
           \/ Fail([host EXCEPT !.busy = "no"])
           \/ ~ host.last /\ result' = result /\ host'= [host EXCEPT !.busy = "no"]
    PROVE  Quiet
<1>1. CASE Fail([host EXCEPT !.busy = "no"])
  BY <1>1, FailBusyQuiet DEF AckSent, WorkerSide
<1>2. CASE ~ host.last /\ result' = result /\ host' = [host EXCEPT !.busy = "no"]
  <2>1. /\ start' = start /\ worker' = worker /\ toHost' = toHost /\ toWorker' = toWorker
        /\ produced' = produced /\ spawns' = spawns /\ seen' = seen /\ host.busy = "ack"
    BY DEF AckSent, WorkerSide
  <2>2. Steady(host, host') /\ host'.closing = host.closing /\ host'.failed = host.failed
    BY <1>2, <2>1, BusyFields DEF Steady
  <2> QED BY <1>2, <2>1, <2>2, SameFields DEF Quiet, SameWorker, Stage, Given, Told, Said
<1> QED BY <1>1, <1>2

\* The channel has ended.
LEMMA DisconnectedQuiet == ASSUME Inv, Disconnected PROVE Quiet
<1> DEFINE h == [host EXCEPT !.connected = FALSE]
<1>1. /\ start' = start /\ worker' = worker /\ toHost' = toHost /\ toWorker' = <<>>
      /\ produced' = produced /\ spawns' = spawns /\ seen' = seen /\ worker.life = "dead"
      /\ \/ Fail(h)
         \/ host' = h /\ result' = result
  BY DEF Disconnected, WorkerSide
<1>2. h \in Host /\ Steady(host, h) /\ h.failed = host.failed /\ h.closing = host.closing
  BY SameFields DEF Steady, Host
<1> HIDE DEF h
<1>3. CASE Fail(h)
  BY <1>1, <1>2, <1>3, FailQuiet
<1>4. CASE host' = h /\ result' = result
  BY <1>1, <1>2, <1>4, SameFields DEF Quiet, SameWorker, Stage, Given, Told, Said
<1> QED BY <1>1, <1>3, <1>4

\* closeSession and the stages of terminate(), but for a confirmed end.
LEMMA CloseQuiet == ASSUME Inv, Close PROVE Quiet
<1>1. /\ start' = start /\ worker' = worker /\ toHost' = toHost /\ toWorker' = toWorker
      /\ produced' = produced /\ spawns' = spawns /\ seen' = seen /\ result' = result
      /\ host' = CloseSession(host) /\ host.known
  BY DEF Close, WorkerSide
<1>2. Steady(host, host') /\ host'.failed = host.failed
      /\ (host'.closing = host.closing \/ host'.closing = "snapshot")
  BY <1>1, SameFields, CloseFields
<1> QED BY <1>1, <1>2, SameFields DEF Quiet, SameWorker, Stage, Given, Told, Said

\* The first stage of terminate() asks the Worker to shut down.
LEMMA SnapshotQuiet == ASSUME Inv, Snapshot PROVE Quiet
<1>1. PICK recorded \in BOOLEAN :
         /\ host' = [host EXCEPT !.closing = "grace", !.tree = recorded]
         /\ worker' \in {[worker EXCEPT !.stray = s] :
                           s \in {worker.stray} \cup (IF recorded THEN {Traced(worker.stray)} ELSE {})}
  BY DEF Snapshot
<1>2. /\ start' = start /\ toHost' = toHost
      /\ produced' = produced /\ spawns' = spawns /\ seen' = seen /\ result' = result
      /\ toWorker' \in {toWorker, Append(toWorker, Message("shutdown", 0, 0))}
      /\ host.known
  BY DEF Snapshot, Inv, HostOwns
<1>3. Steady(host, host') /\ host'.failed = host.failed /\ host'.closing = "grace"
  BY <1>1, SameFields DEF Steady, Host
<1>4. Said(toWorker, toWorker')
  BY <1>2, SameFields DEF Said, Message, Command
<1>5. SameWorker
  <2>1. PICK s \in {worker.stray, Traced(worker.stray)} : worker' = [worker EXCEPT !.stray = s]
    BY <1>1
  <2>2. s \subseteq Strays /\ (worker.stray \subseteq {"lost"} => s \subseteq {"lost"})
    BY SameFields DEF Traced, Strays, Worker
  <2> QED BY <2>1, <2>2, SameFields DEF SameWorker, Worker
<1> QED BY <1>2, <1>3, <1>4, <1>5, SameFields DEF Quiet, Stage, Given, Told

\* What happens among the descendants outside the group disturbs nothing else.
LEMMA StrayQuiet == ASSUME Inv, StrayForks \/ ParentEnds PROVE Quiet
<1>1. /\ host' = host /\ start' = start /\ result' = result /\ toHost' = toHost
      /\ toWorker' = toWorker /\ produced' = produced /\ spawns' = spawns /\ seen' = seen
      /\ ~ worker.stray \subseteq {"lost"}
  BY DEF StrayForks, ParentEnds, HostStays, HostSide
<1>2. PICK s \in SUBSET Strays : worker' = [worker EXCEPT !.stray = s]
  <2>1. worker.stray \subseteq Strays
    BY SameFields DEF Worker
  <2>2. CASE StrayForks
    BY <2>1, <2>2 DEF StrayForks, Strays
  <2>3. CASE ParentEnds
    BY <2>1, <2>3 DEF ParentEnds, Strays
  <2> QED BY <2>2, <2>3
<1>3. SameWorker
  BY <1>1, <1>2, SameFields DEF SameWorker, Worker
<1> QED BY <1>1, <1>3, SameFields DEF Quiet, Stage, Given, Told, Said

\* The waits after SIGTERM and SIGKILL, and what they end with.
LEMMA SignalQuiet == ASSUME Inv, GraceOver \/ SignalOver PROVE Quiet
<1>1. /\ start' = start /\ worker' = worker /\ toHost' = toHost /\ toWorker' = toWorker
      /\ produced' = produced /\ spawns' = spawns /\ seen' = seen /\ host.known
      /\ \/ result' = result /\ \E stage \in {"term", "kill"} :
               host' = [host EXCEPT !.closing = stage]
         \/ result' = result /\ GroupGone /\ host' = [host EXCEPT !.closing = "sweep"]
         \/ \E outcome \in {"failed", "unconfirmed"} : Ended(outcome)
  BY DEF GraceOver, SignalOver, WorkerSide, Inv, HostOwns
<1>2. CASE result' = result /\ \E stage \in {"term", "kill"} :
             host' = [host EXCEPT !.closing = stage]
  <2>1. PICK stage \in {"term", "kill"} : host' = [host EXCEPT !.closing = stage]
    BY <1>2
  <2>2. Steady(host, host') /\ host'.failed = host.failed /\ host'.closing = stage
    BY <2>1, SameFields DEF Steady, Host
  <2> QED BY <1>1, <1>2, <2>2, SameFields DEF Quiet, SameWorker, Stage, Given, Told, Said
<1>3. CASE result' = result /\ GroupGone /\ host' = [host EXCEPT !.closing = "sweep"]
  <2>1. Steady(host, host') /\ host'.failed = host.failed /\ host'.closing = "sweep"
    BY <1>3, SameFields DEF Steady, Host
  <2> QED BY <1>1, <1>3, <2>1, SameFields DEF Quiet, SameWorker, Stage, Given, Told, Said
<1>4. CASE \E outcome \in {"failed", "unconfirmed"} : Ended(outcome)
  <2>1. Steady(host, host') /\ host'.failed /\ host'.closing \in Cleanup /\ Rejected
    BY <1>4, EndedFields DEF Cleanup
  <2> QED BY <1>1, <2>1, SameFields DEF Quiet, SameWorker, Stage, Given, Told, Said, Rejected
<1> QED BY <1>1, <1>2, <1>3, <1>4

\* The last stage, when the Worker cannot be forgotten.
LEMMA SweepQuiet ==
    ASSUME Inv, Sweep, NEW outcome \in {"failed", "unconfirmed"}, Ended(outcome),
           worker' \in {worker, [worker EXCEPT !.stray = Unfound(@)]},
           toHost' = toHost, toWorker' = toWorker
    PROVE  Quiet
<1>1. /\ start' = start /\ produced' = produced /\ spawns' = spawns /\ seen' = seen
      /\ host.known
  BY DEF Sweep, Inv, HostOwns
<1>2. Steady(host, host') /\ host'.failed /\ host'.closing \in Cleanup /\ Rejected
  BY EndedFields DEF Cleanup
<1>3. SameWorker
  <2>1. PICK s \in {worker.stray, Unfound(worker.stray)} : worker' = [worker EXCEPT !.stray = s]
    <3>1. worker = [worker EXCEPT !.stray = worker.stray]
      BY SameFields DEF Worker
    <3> QED BY <3>1
  <2>2. s \subseteq Strays /\ (worker.stray \subseteq {"lost"} => s \subseteq {"lost"})
    BY SameFields DEF Unfound, Strays, Worker
  <2> QED BY <2>1, <2>2, SameFields DEF SameWorker, Worker
<1> QED BY <1>1, <1>2, <1>3, SameFields DEF Quiet, Stage, Given, Told, Said, Rejected

\* A quiet command changes no acknowledgement and no run on its way.
LEMMA SaidSame ==
    ASSUME NEW q \in Seq(Command), NEW p, Said(q, p)
    PROVE  /\ p \in Seq(Command)
           /\ \A i \in 1 .. Len(q) : p[i] = q[i] /\ i \in 1 .. Len(p)
           /\ \A i \in 1 .. Len(p) :
                 p[i].type \in {"run", "ack"} => i \in 1 .. Len(q) /\ p[i] = q[i]
<1>1. CASE p = q
  BY <1>1
<1>2. ASSUME NEW c \in Command, c.type \notin {"run", "ack"},
             c.type = "permission" => c.run # 0, p = Append(q, c)
      PROVE  /\ p \in Seq(Command)
             /\ \A i \in 1 .. Len(q) : p[i] = q[i] /\ i \in 1 .. Len(p)
             /\ \A i \in 1 .. Len(p) :
                   p[i].type \in {"run", "ack"} => i \in 1 .. Len(q) /\ p[i] = q[i]
  <2>1. /\ p \in Seq(Command) /\ Len(p) = Len(q) + 1
        /\ \A i \in 1 .. Len(q) : p[i] = q[i] /\ i \in 1 .. Len(p)
        /\ p[Len(q) + 1] = c
    BY <1>2, AppendOf
  <2>2. Len(q) \in Nat
    OBVIOUS
  <2>3. \A i \in 1 .. Len(p) : i \in 1 .. Len(q) \/ i = Len(q) + 1
    BY <2>1, <2>2
  <2> HIDE <1>2
  <2> QED BY <2>1, <2>3, <1>2
<1> QED BY <1>1, <1>2 DEF Said

\* A quiet command names the run of a permission.
LEMMA SaidNamed ==
    ASSUME NEW q \in Seq(Command), NEW p, Said(q, p),
           \A i \in 1 .. Len(q) : q[i].type = "permission" => q[i].run # 0
    PROVE  \A i \in 1 .. Len(p) : p[i].type = "permission" => p[i].run # 0
<1>1. CASE p = q
  BY <1>1
<1>2. ASSUME NEW c \in Command, c.type = "permission" => c.run # 0, p = Append(q, c)
      PROVE  \A i \in 1 .. Len(p) : p[i].type = "permission" => p[i].run # 0
  <2>1. Len(p) = Len(q) + 1 /\ (\A i \in 1 .. Len(q) : p[i] = q[i]) /\ p[Len(q) + 1] = c
    BY <1>2, AppendOf
  <2>2. \A i \in 1 .. Len(p) : i \in 1 .. Len(q) \/ i = Len(q) + 1
    BY <2>1
  <2> HIDE <1>2
  <2> QED BY <2>1, <2>2, <1>2
<1> QED BY <1>1, <1>2 DEF Said

\* No run and no acknowledgement comes or goes with such a command.
LEMMA SaidHas ==
    ASSUME NEW q \in Seq(Command), NEW p, Said(q, p), NEW type \in {"run", "ack"}
    PROVE  Has(p, type) <=> Has(q, type)
BY SaidSame DEF Has

\* So the commands on their way stay in order.
LEMMA SaidQueue ==
    ASSUME NEW q \in Seq(Command), NEW p, Said(q, p), NEW w, Queue(q, w)
    PROVE  Queue(p, w)
<1>1. /\ \A i \in 1 .. Len(q) : p[i] = q[i] /\ i \in 1 .. Len(p)
      /\ \A i \in 1 .. Len(p) :
            p[i].type \in {"run", "ack"} => i \in 1 .. Len(q) /\ p[i] = q[i]
  BY SaidSame
<1> HIDE DEF Said
<1> QED BY <1>1 DEF Queue

\* The Worker's record is as good as before.
LEMMA SameLive ==
    ASSUME SameWorker, NEW q, Queue(q, worker) PROVE Queue(q, worker')
BY DEF SameWorker, Queue

\* A quiet step keeps the types.
LEMMA QuietType == ASSUME Inv, Quiet PROVE TypeOK'
<1>1. toWorker' \in Seq(Command)
  BY SameFields, SaidSame, NoneOf DEF Quiet
<1>2. start' \in [run : Runs \cup {0}, pc : {"none", "ready", "sending", "lost", "closing"}]
  BY SameFields DEF Quiet, Given
<1>3. result' \in [Runs -> {"none", "pending", "resolved", "rejected"}]
  BY DEF Quiet, Told
<1>4. host' \in Host /\ worker' \in Worker
  BY DEF Quiet, Steady, SameWorker
<1>5. toHost' \in Seq(Report)
  BY SameFields, NoneOf DEF Quiet
<1>6. spawns' \in 0 .. MaxSpawns /\ produced' \in [Runs -> Nat] /\ seen' \in [Runs -> Nat]
  BY DEF Quiet, Inv, TypeOK
<1> QED BY <1>1, <1>2, <1>3, <1>4, <1>5, <1>6 DEF TypeOK, Command, Report

\* What becomes of the results in a quiet step.
LEMMA QuietResults ==
    ASSUME Inv, Quiet
    PROVE  /\ \A r \in Runs :
                 \/ result'[r] = result[r]
                 \/ result[r] \in {"none", "pending"} /\ result'[r] = "rejected"
           /\ \A r \in Runs : result'[r] = "pending" =>
                 result[r] = "pending" /\ ~ host'.failed
           /\ \A r \in Runs : result[r] = "none" /\ result'[r] # "none" =>
                 \A q \in 1 .. r - 1 : result'[q] # "none"
<1>1. /\ result \in [Runs -> {"none", "pending", "resolved", "rejected"}]
      /\ \A r \in Runs : result[r] = "pending" => ~ host.failed
  BY SameFields DEF Inv, HostOwns
<1>2. CASE result' = result /\ host'.failed = host.failed
  BY <1>1, <1>2
<1>3. CASE Rejected /\ host'.failed
  BY <1>1, <1>3 DEF Rejected
<1>4. ASSUME NEW r \in Runs, MayStart(r), result' = [result EXCEPT ![r] = "rejected"],
             host' = host
      PROVE  /\ \A s \in Runs :
                   \/ result'[s] = result[s]
                   \/ result[s] \in {"none", "pending"} /\ result'[s] = "rejected"
             /\ \A s \in Runs : result'[s] = "pending" =>
                   result[s] = "pending" /\ ~ host'.failed
             /\ \A s \in Runs : result[s] = "none" /\ result'[s] # "none" =>
                   \A q \in 1 .. s - 1 : result'[q] # "none"
  <2>1. \A s \in Runs : result'[s] = IF s = r THEN "rejected" ELSE result[s]
    BY <1>1, <1>4
  <2>2. /\ result[r] = "none" /\ r \in Nat
        /\ \A q \in 1 .. r - 1 : q \in Runs /\ result[q] \in {"resolved", "rejected"}
    BY <1>4, IpcAssumption DEF MayStart, Runs
  <2> QED BY <1>1, <1>4, <2>1, <2>2
<1> QED BY <1>2, <1>3, <1>4 DEF Quiet, Told

\* It keeps what the host remembers of its Worker and of who waits.
LEMMA QuietOwns == ASSUME Inv, Quiet PROVE HostOwns' /\ WorkerOwns'
<1>1. HostOwns /\ WorkerOwns
  BY DEF Inv
<1>2. /\ host'.known = host.known /\ host'.run = host.run /\ host'.exited = host.exited
      /\ host'.connected => host.connected
      /\ host'.timer => host.timer
      /\ host'.ready = host.ready \/ (host.ready = "pending" /\ host'.ready = "rejected")
      /\ host'.busy = host.busy \/ host'.busy = "no"
      /\ host.failed => host'.failed
  BY DEF Quiet, Steady
<1>3. /\ worker'.life = worker.life /\ (worker'.group => worker.group)
      /\ (worker.stray \subseteq {"lost"} => worker'.stray \subseteq {"lost"})
  BY DEF Quiet, SameWorker
<1>4. ~ host.known =>
         /\ host'.exited /\ host'.closing = "no" /\ ~ host'.connected
         /\ host'.run = 0 /\ host'.busy = "no" /\ ~ host'.timer
         /\ toHost' = <<>> /\ start'.pc # "ready"
         /\ worker'.life \in {"none", "dead"} /\ worker'.stray \subseteq {"lost"}
  BY <1>1, <1>2, <1>3 DEF HostOwns, Quiet, Stage, Given
<1>5. ~ host'.known \/ host'.closing = "sweep" => ~ worker'.group /\ host'.exited
  BY <1>1, <1>2, <1>3 DEF HostOwns, Quiet, Stage, GroupGone, Cleanup
<1>6. host'.closing \in Cleanup => host'.failed
  BY <1>1, <1>2 DEF HostOwns, Quiet, Stage, Cleanup
<1>7. \A r \in Runs : result'[r] = "pending" =>
         /\ host'.known /\ host'.run = r /\ ~ host'.failed
         /\ host'.exited => start'.run = r /\ start'.pc \in {"ready", "lost"}
  BY <1>1, <1>2, QuietResults DEF HostOwns, Quiet, Given
<1>8. \A q, r \in Runs : q <= r /\ result'[q] = "none" => result'[r] = "none"
  <2>1. ASSUME NEW q \in Runs, NEW r \in Runs, q <= r, result'[q] = "none"
        PROVE  result'[r] = "none"
    <3>1. result[q] = "none"
      BY <2>1, QuietResults
    <3>2. result[r] = "none"
      BY <1>1, <2>1, <3>1 DEF HostOwns
    <3>3. CASE q = r
      BY <2>1, <3>3
    <3>4. CASE q # r
      <4>1. q \in 1 .. r - 1
        BY <2>1, <3>4, IpcAssumption DEF Runs
      <4> QED BY <2>1, <3>2, <4>1, QuietResults
    <3> QED BY <3>3, <3>4
  <2> QED BY <2>1
<1>9. HostOwns'
  BY <1>1, <1>2, <1>3, <1>4, <1>5, <1>6, <1>7, <1>8 DEF HostOwns
<1>10. WorkerOwns'
  <2>1. \A i \in 1 .. Len(toWorker') : toWorker'[i].type = "permission" => toWorker'[i].run # 0
    <3>1. CASE Said(toWorker, toWorker')
      BY <1>1, <3>1, SameFields, SaidNamed DEF WorkerOwns
    <3>2. CASE toWorker' = <<>>
      BY <3>2
    <3> QED BY <3>1, <3>2 DEF Quiet
  <2>2. /\ worker'.run = worker.run /\ worker'.ack = worker.ack /\ worker'.out = worker.out
        /\ worker'.driving = worker.driving /\ worker'.seq = worker.seq
        /\ worker'.last = worker.last /\ worker'.life = worker.life
        /\ worker'.down = worker.down
        /\ toHost' = toHost \/ toHost' = <<>>
    BY DEF Quiet, SameWorker
  <2> QED BY <1>1, <1>2, <2>1, <2>2 DEF WorkerOwns
<1> QED BY <1>9, <1>10

\* In a quiet step the channels say what they said, or the Worker is dead.
LEMMA QuietChannels ==
    ASSUME Inv, Quiet
    PROVE  /\ Live(worker') <=> Live(worker)
           /\ toHost' # <<>> => toHost' = toHost
           /\ \A i \in 1 .. Len(toWorker') : toWorker'[i].type \in {"run", "ack"} =>
                 i \in 1 .. Len(toWorker) /\ toWorker'[i] = toWorker[i]
           /\ Has(toWorker', "run") => Has(toWorker, "run")
           /\ Has(toWorker', "ack") => Has(toWorker, "ack")
           /\ Live(worker) => (Has(toWorker, "ack") => Has(toWorker', "ack"))
           /\ Live(worker) => (Queue(toWorker, worker) => Queue(toWorker', worker'))
<1>1. Live(worker') <=> Live(worker)
  BY DEF Quiet, SameWorker, Live
<1>2. CASE Said(toWorker, toWorker')
  BY <1>1, <1>2, SameFields, SaidSame, SaidHas, SaidQueue, SameLive DEF Quiet
<1>3. CASE toWorker' = <<>> /\ worker.life = "dead"
  BY <1>1, <1>3 DEF Has, Live, Quiet
<1> QED BY <1>2, <1>3 DEF Quiet

\* It keeps the token where it is.
LEMMA QuietLink == ASSUME Inv, Quiet PROVE Token' /\ Early' /\ InOrder' /\ Between'
<1>1. Token /\ Early /\ InOrder /\ Between
  BY DEF Inv
<1>2. /\ host'.known = host.known /\ host'.run = host.run /\ host'.exited = host.exited
      /\ host'.seq = host.seq /\ host'.last = host.last
      /\ host'.ready = host.ready
         \/ (host.ready = "pending" /\ host'.ready = "rejected" /\ host'.failed)
      /\ host'.busy = host.busy
         \/ (host'.busy = "no" /\ (host'.failed \/ (host.busy = "ack" /\ ~ host.last)))
      /\ host.failed => host'.failed
  BY DEF Quiet, Steady
<1>3. /\ worker'.run = worker.run /\ worker'.seq = worker.seq /\ worker'.ack = worker.ack
      /\ worker'.last = worker.last
  BY DEF Quiet, SameWorker
<1>4. start' = start \/ start'.pc # "ready"
  BY DEF Quiet, Given
<1>5. Len(toHost') <= 1 /\ (toHost' = toHost \/ (toHost' = <<>> /\ host'.failed))
  BY <1>1 DEF Quiet, Token
<1>6. Token'
  BY <1>1, <1>2, <1>3, <1>5, QuietChannels DEF Token
<1>7. Early'
  BY <1>1, <1>2, <1>3, <1>5, QuietChannels DEF Early
<1>8. InOrder'
  <2> SUFFICES ASSUME Trusts(host)' PROVE InOrder'
    BY DEF InOrder
  <2>1. Trusts(host) /\ toHost' = toHost
    BY <1>2, <1>5 DEF Trusts
  <2> QED BY <1>1, <1>2, <1>3, <1>4, <2>1, QuietChannels DEF InOrder, Trusts
<1>9. Between'
  BY <1>1, <1>2, <1>3, <1>4, QuietChannels DEF Between
<1> QED BY <1>6, <1>7, <1>8, <1>9

\* It counts nothing.
LEMMA QuietCounts == ASSUME Inv, Quiet PROVE Counted' /\ Driven'
<1>1. Counted /\ Driven /\ Token
  BY DEF Inv
<1>2. /\ host'.run = host.run /\ host'.exited = host.exited
      /\ host'.seq = host.seq /\ host'.last = host.last
      /\ host'.busy = host.busy \/ host'.busy = "no"
      /\ produced' = produced /\ seen' = seen
  BY DEF Quiet, Steady
<1>3. /\ worker'.run = worker.run /\ worker'.seq = worker.seq /\ worker'.out = worker.out
      /\ worker'.last = worker.last /\ worker'.driving = worker.driving
      /\ host.run \in Runs \cup {0} /\ worker.run \in Runs \cup {0}
      /\ result \in [Runs -> {"none", "pending", "resolved", "rejected"}]
  BY SameFields DEF Quiet, SameWorker, Worker
<1>4. \A r : Open(result, r) => Open(result', r)
  BY QuietResults DEF Open
<1>5. start' = start \/ start'.pc # "ready"
  BY DEF Quiet, Given
<1>6. \A r \in Runs : result[r] # "none" => result'[r] # "none"
  BY <1>3, QuietResults
<1>7. Driven'
  BY <1>1, <1>2, <1>3, <1>4, <1>6 DEF Driven
<1>8. \A r \in Runs : result'[r] = "none" => result[r] = "none"
  BY <1>6
<1>9. \A r \in Runs : result'[r] = "resolved" => result[r] = "resolved"
  BY QuietResults
<1>10. Counted'
  <2>1. Untouched'
    BY <1>1, <1>2, <1>8 DEF Counted, Untouched
  <2>2. Complete'
    BY <1>1, <1>2, <1>9 DEF Counted, Complete
  <2>3. Taken'
    BY <1>1, <1>2, <1>3, <1>6 DEF Counted, Taken
  <2>4. Prepared'
    BY <1>1, <1>2, <1>4, <1>5 DEF Counted, Prepared
  <2>5. Sent'
    BY <1>1, <1>2, <1>4, QuietChannels DEF Counted, Sent
  <2>6. Final'
    BY <1>1, <1>2, <1>3, QuietChannels DEF Counted, Final
  <2> QED BY <2>1, <2>2, <2>3, <2>4, <2>5, <2>6 DEF Counted
<1> QED BY <1>7, <1>10

\* So it keeps the invariant.
LEMMA QuietInv == ASSUME Inv, Quiet PROVE Inv'
BY QuietType, QuietOwns, QuietLink, QuietCounts DEF Inv

----------------------------------------------------------------------------
(* The other steps of the host *)

\* A living Worker is one the host knows and has not seen exit.
LEMMA Alive ==
    ASSUME Inv, worker.life \in {"boot", "up"}
    PROVE  host.known /\ ~ host.exited /\ host.closing # "sweep"
BY DEF Inv, HostOwns

\* The types of the channels' elements.
LEMMA Elements ==
    ASSUME Inv
    PROVE  /\ toHost # <<>> => /\ toHost[1] \in Report /\ 1 \in 1 .. Len(toHost)
                               /\ Head(toHost) = toHost[1] /\ Tail(toHost) = <<>>
           /\ \A i \in 1 .. Len(toWorker) : toWorker[i] \in Command
<1>1. toHost \in Seq(Report) /\ toWorker \in Seq(Command) /\ Len(toHost) <= 1
  BY SameFields DEF Inv, Token
<1>2. ASSUME toHost # <<>>
      PROVE  /\ toHost[1] \in Report /\ 1 \in 1 .. Len(toHost)
             /\ Head(toHost) = toHost[1] /\ Tail(toHost) = <<>>
  <2> DEFINE p == Tail(toHost)
  <2>1. /\ p \in Seq(Report) /\ Len(toHost) = Len(p) + 1
        /\ Head(toHost) = toHost[1] /\ toHost[1] \in Report /\ 1 \in 1 .. Len(toHost)
    BY <1>1, <1>2, TailOf
  <2> HIDE DEF p
  <2>2. Len(p) = 0
    BY <1>1, <2>1
  <2>3. p = <<>>
    BY <2>1, <2>2, EmptyOf
  <2> QED BY <2>1, <2>3 DEF p
<1>5. \A i \in 1 .. Len(toWorker) : toWorker[i] \in Command
  BY <1>1, ElementOf
<1> QED BY <1>2, <1>5

\* A message the host does not expect.
LEMMA ReadFailsQuiet ==
    ASSUME Inv, HostReads, Fail(host), seen' = seen PROVE Quiet
<1>1. toHost' = <<>>
  BY Elements DEF HostReads
<1>2. /\ start' = start /\ worker' = worker /\ toWorker' = toWorker
      /\ spawns' = spawns /\ produced' = produced
  BY DEF HostReads
<1> QED BY <1>1, <1>2, SameFields, FailQuiet

\* The host may settle other results while the driver works.
LEMMA DrivenStill ==
    ASSUME Driven, worker' = worker, produced' = produced,
           worker.driving /\ Open(result, worker.run) => Open(result', worker.run),
           worker.run # 0 => result'[worker.run] # "none"
    PROVE  Driven'
BY DEF Driven

\* A run of an idle Worker.
LEMMA StartIdleInv == ASSUME Inv, NEW r \in Runs, StartIdle(r) PROVE Inv'
<1>1. /\ worker' = worker /\ toHost' = toHost /\ toWorker' = toWorker
      /\ produced' = produced /\ spawns' = spawns /\ seen' = seen
      /\ host.known /\ ~ host.failed /\ host.run = 0 /\ host.closing = "no"
      /\ result[r] = "none" /\ r # 0 /\ r \in Nat
      /\ \A q \in 1 .. r - 1 : result[q] \in {"resolved", "rejected"}
      /\ result' = [result EXCEPT ![r] = "pending"]
      /\ start' = [run |-> r, pc |-> "ready"]
  BY IpcAssumption DEF StartIdle, MayStart, Runs
<1>2. /\ host' \in Host /\ host'.run = r /\ host'.seq = 0 /\ host'.known
      /\ host'.failed = host.failed /\ host'.exited = host.exited /\ host'.closing = "no"
      /\ host'.ready = host.ready /\ host'.busy = host.busy /\ host'.last = host.last
      /\ host'.timer = host.timer /\ host'.connected = host.connected
  BY <1>1, SameFields DEF StartIdle, Host
<1>3. \A s \in Runs : result'[s] = IF s = r THEN "pending" ELSE result[s]
  BY <1>1, SameFields
<1>4. start'.pc = "ready" /\ start'.run = r
  BY <1>1
<1>5. TypeOK'
  BY <1>1, <1>2, SameFields DEF Inv, TypeOK, Command, Report
<1>6. HostOwns /\ WorkerOwns /\ Token /\ Early /\ InOrder /\ Between /\ Counted /\ Driven
  BY DEF Inv
<1>7. \A s \in Runs : result[s] # "pending" /\ s # 0
  BY <1>1, <1>6, IpcAssumption DEF HostOwns, Runs
<1>8. HostOwns'
  <2>1. \A s \in Runs : result'[s] = "pending" => s = r
    BY <1>3, <1>7
  <2>2. ASSUME NEW q \in Runs, NEW s \in Runs, q <= s, result'[q] = "none"
        PROVE  result'[s] = "none"
    <3>1. q # r /\ result[q] = "none" /\ result[s] = "none"
      BY <1>3, <1>6, <2>2 DEF HostOwns
    <3>2. s # r
      BY <1>1, <2>2, <3>1, IpcAssumption DEF Runs
    <3> QED BY <1>3, <3>1, <3>2
  <2> QED BY <1>1, <1>2, <1>4, <1>6, <2>1, <2>2 DEF HostOwns, Cleanup
<1>9. WorkerOwns'
  BY <1>1, <1>2, <1>6 DEF WorkerOwns
<1>10. Live(worker) => Trusts(host)
  BY <1>1, Alive DEF Trusts, Live
<1>11. Trusts(host) => host.busy = "no"
  BY <1>1, <1>6 DEF InOrder
<1>12. Token'
  BY <1>1, <1>2, <1>6, <1>10, <1>11 DEF Token
<1>13. Early'
  BY <1>1, <1>2, <1>6 DEF Early
<1>14. InOrder'
  BY <1>1, <1>2, <1>4, <1>6, <1>11 DEF InOrder, Between, Trusts, Has
<1>15. Between'
  BY <1>1, <1>2, <1>6 DEF Between
<1>16. worker.run # 0 => result[worker.run] # "none" /\ worker.run \in Runs
  BY <1>6, SameFields DEF Driven, Worker
<1>17. \A s : Open(result, s) => Open(result', s)
  BY <1>1, <1>3 DEF Open
<1>18. Driven'
  <2>1. worker.run # 0 => result'[worker.run] # "none"
    BY <1>3, <1>16
  <2> QED BY <1>1, <1>6, <1>17, <2>1, DrivenStill
<1>19. Counted'
  <2>1. seen[r] = 0 /\ produced[r] = 0 /\ Open(result', r)
    BY <1>1, <1>3, <1>6 DEF Counted, Untouched, Open
  <2>2. host.busy \in {"sink", "ack"} => host.exited
    BY <1>1, <1>11 DEF Trusts
  <2>3. Untouched' /\ Complete'
    BY <1>1, <1>2, <1>3, <1>6, <2>1 DEF Counted, Untouched, Complete
  <2>4. Taken' /\ Prepared'
    BY <1>1, <1>2, <1>3, <1>4, <1>6, <2>1 DEF Counted, Taken, Prepared
  <2>5. Sent'
    BY <1>1, <1>6, <1>17 DEF Counted, Sent
  <2>6. Final'
    BY <1>1, <1>2, <1>6, <2>2 DEF Counted, Final
  <2> QED BY <2>3, <2>4, <2>5, <2>6 DEF Counted
<1> QED BY <1>5, <1>8, <1>9, <1>12, <1>13, <1>14, <1>15, <1>18, <1>19 DEF Inv

\* What a step of the host that leaves the Worker alone must establish again.
LEMMA FromParts ==
    ASSUME TypeOK', HostOwns', WorkerOwns', Token', Early', InOrder', Between',
           Untouched', Complete', Taken', Prepared', Sent', Final', Driven'
    PROVE  Inv'
BY DEF Inv, Counted

\* The record of a new Worker.
LEMMA FreshFields ==
    ASSUME NEW r \in Runs \cup {0}
    PROVE  LET h == Fresh(r) IN
           /\ h \in Host /\ h.known /\ h.ready = "pending" /\ ~ h.failed /\ ~ h.exited
           /\ h.run = r /\ h.seq = 0 /\ h.busy = "no" /\ ~ h.last /\ h.closing = "no"
           /\ h.connected
BY DEF Fresh, Host

\* A new process has done nothing.
LEMMA ForkedFields ==
    /\ Forked \in Worker /\ Forked.life = "boot" /\ Forked.run = 0 /\ Forked.ack = 0
    /\ Forked.out = <<>> /\ ~ Forked.driving /\ ~ Forked.down
<1>1. <<>> \in Seq({"event", "permission", "applied", "result"})
  BY NoneOf
<1> QED BY <1>1 DEF Forked, Worker

\* A Worker is forked for the run, or its lease cannot be saved.
LEMMA StartForksInv == ASSUME Inv, NEW r \in Runs, StartForks(r) PROVE Inv'
<1>1. /\ worker' = Forked /\ toHost' = <<>> /\ toWorker' = <<>>
      /\ produced' = produced /\ seen' = seen /\ spawns' = spawns + 1 /\ spawns < MaxSpawns
      /\ ~ host.known /\ result[r] = "none" /\ r # 0 /\ r \in Nat
      /\ \A q \in 1 .. r - 1 : result[q] \in {"resolved", "rejected"}
  BY IpcAssumption DEF StartForks, MayStart, Runs
<1>2. HostOwns /\ Counted
  BY DEF Inv
<1>3. \A s \in Runs : result[s] # "pending" /\ s # 0
  BY <1>1, <1>2, IpcAssumption DEF HostOwns, Runs
<1>4. /\ worker'.life = "boot" /\ worker'.run = 0 /\ worker'.ack = 0 /\ worker'.out = <<>>
      /\ ~ worker'.driving /\ ~ worker'.down /\ worker' \in Worker
  BY <1>1, ForkedFields
<1>5. /\ ~ Has(toWorker', "run") /\ Len(toHost') = 0 /\ Len(toWorker') = 0
      /\ toWorker' \in Seq(Command) /\ toHost' \in Seq(Report)
      /\ Queue(toWorker', worker')
  <2>1. Len(toHost') = 0 /\ Len(toWorker') = 0
        /\ toWorker' \in Seq(Command) /\ toHost' \in Seq(Report)
    BY <1>1, NoneOf
  <2>2. 1 .. Len(toWorker') = {}
    BY <2>1
  <2> QED BY <2>1, <2>2 DEF Has, Queue
<1>6. /\ host' \in Host /\ host'.known /\ ~ host'.exited /\ host'.seq = 0
      /\ host'.busy = "no" /\ ~ host'.last
      /\ \/ /\ host'.ready = "pending" /\ ~ host'.failed /\ host'.run = r
            /\ host'.closing = "no" /\ start' = [run |-> r, pc |-> "ready"]
            /\ result' = [result EXCEPT ![r] = "pending"]
         \/ /\ host'.ready = "rejected" /\ host'.failed /\ host'.run = 0
            /\ host'.closing = "snapshot" /\ start' = [run |-> r, pc |-> "closing"]
            /\ result' = [result EXCEPT ![r] = "rejected"]
  <2>1. CASE host' = Fresh(r) /\ result' = [result EXCEPT ![r] = "pending"]
             /\ start' = [run |-> r, pc |-> "ready"]
    BY <2>1, FreshFields
  <2>2. CASE host' = FailWorker(Fresh(0)) /\ result' = [result EXCEPT ![r] = "rejected"]
             /\ start' = [run |-> r, pc |-> "closing"]
    <3> DEFINE h == Fresh(0)
    <3>1. /\ h \in Host /\ h.known /\ h.ready = "pending" /\ ~ h.failed /\ ~ h.exited
          /\ h.run = 0 /\ h.seq = 0 /\ h.busy = "no" /\ ~ h.last /\ h.closing = "no"
      BY FreshFields
    <3> HIDE DEF h
    <3>2. host' = FailWorker(h)
      BY <2>2 DEF h
    <3>3. /\ Steady(h, host') /\ host'.failed /\ host'.busy = h.busy
          /\ host'.closing = "snapshot" /\ host'.ready # "pending"
      BY <3>1, <3>2, FailFields
    <3> QED BY <2>2, <3>1, <3>3 DEF Steady
  <2> QED BY <2>1, <2>2 DEF StartForks
<1>7. \A s \in Runs : IF s = r THEN result'[s] = (IF host'.failed THEN "rejected" ELSE "pending")
                      ELSE result'[s] = result[s]
  BY <1>6, SameFields
<1>8. /\ start'.run = r /\ start'.pc \in {"ready", "closing"}
      /\ start'.pc = "ready" <=> ~ host'.failed
  BY <1>6
<1>9. TypeOK'
  <2>1. result' \in [Runs -> {"none", "pending", "resolved", "rejected"}]
    <3>1. result' \in {[result EXCEPT ![r] = "pending"], [result EXCEPT ![r] = "rejected"]}
      BY <1>6
    <3> QED BY <3>1, SameFields
  <2>4. start' \in [run : Runs \cup {0}, pc : {"none", "ready", "sending", "lost", "closing"}]
    <3>1. start' \in {[run |-> r, pc |-> "ready"], [run |-> r, pc |-> "closing"]}
      BY <1>6
    <3> QED BY <3>1
  <2>2. spawns' \in 0 .. MaxSpawns
    BY <1>1, IpcAssumption DEF Inv, TypeOK
  <2>3. produced' \in [Runs -> Nat] /\ seen' \in [Runs -> Nat]
    BY <1>1, SameFields
  <2> QED BY <1>4, <1>5, <1>6, <2>1, <2>2, <2>3, <2>4 DEF TypeOK, Command, Report
<1>10. HostOwns'
  <2>1. ASSUME NEW q \in Runs, NEW s \in Runs, q <= s, result'[q] = "none"
        PROVE  result'[s] = "none"
    <3>1. q # r /\ result[q] = "none" /\ result[s] = "none"
      BY <1>2, <1>7, <2>1 DEF HostOwns
    <3>2. s # r
      BY <1>1, <2>1, <3>1, IpcAssumption DEF Runs
    <3> QED BY <1>7, <3>1, <3>2
  <2>2. \A s \in Runs : result'[s] = "pending" => s = r /\ ~ host'.failed
    BY <1>3, <1>7
  <2> QED BY <1>6, <2>1, <2>2 DEF HostOwns, Cleanup
<1>11. WorkerOwns'
  BY <1>1, <1>4, <1>5, <1>6 DEF WorkerOwns
<1>12. Token' /\ Early'
  BY <1>1, <1>4, <1>5, <1>6 DEF Token, Early
<1>13. InOrder' /\ Between'
  BY <1>1, <1>3, <1>4, <1>5, <1>6, <1>8 DEF InOrder, Between, Trusts, Has
<1>14. seen[r] = 0 /\ produced[r] = 0 /\ Open(result', r)
  BY <1>1, <1>2, <1>7 DEF Counted, Untouched, Open
<1>15. Untouched' /\ Complete'
  BY <1>1, <1>2, <1>6, <1>7, <1>14, <1>3 DEF Counted, Untouched, Complete
<1>16. Taken' /\ Prepared'
  BY <1>1, <1>6, <1>7, <1>8, <1>14 DEF Taken, Prepared
<1>17. Sent' /\ Final'
  BY <1>1, <1>5, <1>6 DEF Sent, Final, Has
<1>18. Driven'
  BY <1>4 DEF Driven
<1> QED BY <1>9, <1>10, <1>11, <1>12, <1>13, <1>15, <1>16, <1>17, <1>18, FromParts

\* The run command is written.
LEMMA StartReadyInv ==
    ASSUME Inv, StartReady,
           host.ready = "resolved" /\ host.closing = "no" /\ ~ host.failed /\ host.connected
    PROVE  Inv'
<1> DEFINE c == Message("run", start.run, 0)
<1>1. /\ worker' = worker /\ toHost' = toHost /\ result' = result
      /\ produced' = produced /\ spawns' = spawns /\ seen' = seen
      /\ start.pc = "ready" /\ host' = [host EXCEPT !.timer = InitTimer]
      /\ toWorker' = Append(toWorker, c)
      /\ start' = [start EXCEPT !.pc = IF worker.life = "dead" THEN "lost" ELSE "sending"]
  BY DEF StartReady, WorkerSide
<1>2. HostOwns /\ WorkerOwns /\ Token /\ Early /\ InOrder /\ Between /\ Counted /\ Driven
  BY DEF Inv
<1>3. /\ host' \in Host /\ host'.run = host.run /\ host'.seq = host.seq /\ host'.known = host.known
      /\ host'.failed = host.failed /\ host'.exited = host.exited
      /\ host'.closing = host.closing /\ host'.connected = host.connected
      /\ host'.ready = host.ready /\ host'.busy = host.busy /\ host'.last = host.last
  BY <1>1, SameFields, IpcAssumption DEF Host
<1>4. /\ start'.run = start.run /\ start'.pc \in {"sending", "lost"}
      /\ worker.life = "dead" => start'.pc = "lost"
      /\ start' \in [run : Runs \cup {0}, pc : {"none", "ready", "sending", "lost", "closing"}]
  BY <1>1, SameFields
<1>5. c \in Command /\ c.type = "run" /\ c.run = start.run
  BY SameFields DEF Message, Command
<1> HIDE DEF c
<1>6. /\ toWorker' \in Seq(Command) /\ Len(toWorker') = Len(toWorker) + 1
      /\ \A i \in 1 .. Len(toWorker) : toWorker'[i] = toWorker[i] /\ i \in 1 .. Len(toWorker')
      /\ toWorker'[Len(toWorker) + 1] = c /\ Len(toWorker) \in Nat
  BY <1>1, <1>5, SameFields, AppendOf
<1>7. \A i \in 1 .. Len(toWorker') : i \in 1 .. Len(toWorker) \/ i = Len(toWorker) + 1
  BY <1>6
<1>8. host.known
  BY <1>1, <1>2 DEF HostOwns
<1>9. Live(worker) => Trusts(host)
  BY <1>8, Alive DEF Trusts, Live
<1>10. Trusts(host) => host.busy = "no" /\ host.seq = 0 /\ host.run = start.run /\ host.run # 0
  BY <1>1, <1>2 DEF InOrder
<1>11. Live(worker) => ~ Has(toWorker, "run")
                       /\ (worker.run = 0 \/ (worker.last /\ Has(toWorker, "ack")))
  BY <1>1, <1>2 DEF Between
<1>12. (Has(toWorker', "ack")) <=> (Has(toWorker, "ack"))
  BY <1>5, <1>6, <1>7 DEF Has
<1>13. TypeOK'
  BY <1>1, <1>3, <1>4, <1>6, SameFields DEF Inv, TypeOK, Command, Report
<1>14. HostOwns'
  BY <1>1, <1>2, <1>3, <1>4, <1>8 DEF HostOwns
<1>15. WorkerOwns'
  <2>1. \A i \in 1 .. Len(toWorker') :
           toWorker'[i].type = "permission" => toWorker'[i].run # 0
    BY <1>2, <1>5, <1>6, <1>7 DEF WorkerOwns
  <2> QED BY <1>1, <1>2, <1>3, <2>1 DEF WorkerOwns
<1>16. Live(worker) => Queue(toWorker', worker)
  <2> SUFFICES ASSUME Live(worker) PROVE Queue(toWorker', worker)
    OBVIOUS
  <2>1. Queue(toWorker, worker)
    BY <1>2 DEF Token
  <2>2. \A i \in 1 .. Len(toWorker') : toWorker'[i].type = "ack" =>
           i \in 1 .. Len(toWorker) /\ toWorker'[i] = toWorker[i]
    BY <1>5, <1>6, <1>7
  <2>3. \A i \in 1 .. Len(toWorker') : toWorker'[i].type = "run" => i = Len(toWorker) + 1
    BY <1>6, <1>7, <1>11 DEF Has
  <2>4. worker.run = 0 \/ (worker.last /\ \E j \in 1 .. Len(toWorker') :
           j < Len(toWorker) + 1 /\ toWorker'[j].type = "ack")
    BY <1>6, <1>11 DEF Has
  <2>5. \A i \in 1 .. Len(toWorker') : toWorker'[i].type = "ack" =>
          worker.ack # 0 /\ toWorker'[i].run = worker.run /\ toWorker'[i].seq = worker.ack
    BY <2>1, <2>2 DEF Queue
  <2>6. \A i, j \in 1 .. Len(toWorker') :
           toWorker'[i].type = "ack" /\ toWorker'[j].type = "ack" => i = j
    BY <2>1, <2>2 DEF Queue
  <2> QED BY <2>3, <2>4, <2>5, <2>6 DEF Queue
<1>17. Token'
  BY <1>1, <1>2, <1>3, <1>12, <1>16 DEF Token
<1>18. Early'
  BY <1>1, <1>2, <1>3 DEF Early
<1>19. InOrder'
  <2>1. Live(worker) => \A i \in 1 .. Len(toWorker') : toWorker'[i].type = "run" =>
           toWorker'[i].run = start.run
    BY <1>5, <1>6, <1>7, <1>11 DEF Has
  <2>2. Trusts(host) => InOrder'
    BY <1>1, <1>2, <1>3, <1>4, <1>10, <1>12, <2>1 DEF InOrder, Trusts
  <2> QED BY <1>3, <2>2 DEF InOrder, Trusts
<1>20. Between'
  BY <1>1, <1>3, <1>4, <1>9, <1>10 DEF Between
<1>21. Untouched' /\ Complete' /\ Taken' /\ Prepared' /\ Final'
  BY <1>1, <1>2, <1>3, <1>4 DEF Counted, Untouched, Complete, Taken, Prepared, Final
<1>22. Sent'
  <2>1. Open(result, start.run) /\ produced[start.run] = 0
    BY <1>1, <1>2 DEF Counted, Prepared
  <2> QED BY <1>1, <1>5, <1>6, <1>7, <1>11, <2>1 DEF Sent, Has
<1>23. Driven'
  BY <1>1, <1>2 DEF Driven
<1> QED BY <1>13, <1>14, <1>15, <1>17, <1>18, <1>19, <1>20, <1>21, <1>22, <1>23, FromParts

\* The handshake is read.
LEMMA ReadReadyInv ==
    ASSUME Inv, HostReads, toHost[1].type = "ready", seen' = seen, result' = result,
           host' = [host EXCEPT !.ready = IF @ = "pending" THEN "resolved" ELSE @],
           ~ (host.ready = "resolved" \/ host.run = 0 \/ host.seq # 0)
    PROVE  Inv'
<1> DEFINE v == IF host.ready = "pending" THEN "resolved" ELSE host.ready
<1>1. /\ worker' = worker /\ toHost' = <<>> /\ toWorker' = toWorker /\ start' = start
      /\ produced' = produced /\ spawns' = spawns /\ toHost # <<>> /\ host.known
  BY Elements DEF HostReads
<1>2. HostOwns /\ WorkerOwns /\ Token /\ Early /\ InOrder /\ Between /\ Counted /\ Driven
  BY DEF Inv
<1>3. /\ v \in {"pending", "resolved", "rejected"} /\ v # "pending"
      /\ v = "resolved" \/ (v = "rejected" /\ host.ready = "rejected")
  BY SameFields DEF Host
<1>4. host' = [host EXCEPT !.ready = v]
  BY SameFields DEF Host
<1> HIDE DEF v
<1>5. /\ host' \in Host /\ host'.run = host.run /\ host'.seq = host.seq /\ host'.known
      /\ host'.failed = host.failed /\ host'.exited = host.exited
      /\ host'.closing = host.closing /\ host'.connected = host.connected
      /\ host'.ready = v /\ host'.busy = host.busy /\ host'.last = host.last
  BY <1>1, <1>3, <1>4, SameFields DEF Host
<1>6. /\ host.busy = "no" /\ host.seq = 0 /\ worker.run = 0 /\ ~ Has(toWorker, "run")
      /\ host.run # 0 /\ worker.life # "boot"
  BY <1>1, <1>2 DEF Early, WorkerOwns
<1>7. Len(toHost') = 0 /\ toHost' \in Seq(Report)
  BY <1>1, NoneOf
<1>8. TypeOK'
  BY <1>1, <1>5, <1>7, SameFields DEF Inv, TypeOK, Command, Report
<1>9. HostOwns' /\ WorkerOwns'
  BY <1>1, <1>2, <1>3, <1>5, <1>6 DEF HostOwns, WorkerOwns
<1>10. Token' /\ Early'
  BY <1>1, <1>2, <1>5, <1>6, <1>7 DEF Token, Early
<1>11. InOrder'
  BY <1>1, <1>2, <1>3, <1>5, <1>6 DEF InOrder, Trusts, Has
<1>12. Between'
  BY <1>1, <1>2, <1>5 DEF Between
<1>13. Untouched' /\ Complete' /\ Taken' /\ Prepared' /\ Sent' /\ Final'
  BY <1>1, <1>2, <1>5, <1>6
     DEF Counted, Untouched, Complete, Taken, Prepared, Sent, Final
<1>14. Driven'
  BY <1>6, <1>1, <1>2 DEF Driven, WorkerOwns
<1> QED BY <1>8, <1>9, <1>10, <1>11, <1>12, <1>13, <1>14, FromParts

\* The handshake is read before the run is written.
LEMMA NotReady ==
    ASSUME Inv, Turn, host.known, host.ready # "pending"
    PROVE  start.pc \notin {"ready", "lost"}
BY DEF Turn

\* The record of a message on its way to the sink.
NextRecord(h, m, t) ==
    [h EXCEPT !.seq = m.seq, !.busy = "sink", !.last = m.type = "result",
              !.asks = IF m.type = "permission" THEN "asked" ELSE @,
              !.timer = t]

\* What a message changes: the count, and whether it is the last one.
Takes(h, m, g) ==
    /\ g \in Host /\ g.run = h.run /\ g.seq = m.seq /\ g.known = h.known
    /\ g.failed = h.failed /\ g.exited = h.exited /\ g.closing = h.closing
    /\ g.connected = h.connected /\ g.ready = h.ready /\ g.busy = "sink"
    /\ (g.last) <=> (m.type = "result")

\* Only these fields change.
LEMMA NextFields ==
    ASSUME NEW h \in Host, NEW m \in Report, NEW t \in BOOLEAN
    PROVE  Takes(h, m, NextRecord(h, m, t))
<1> DEFINE n == m.seq
           l == m.type = "result"
           a == IF m.type = "permission" THEN "asked" ELSE h.asks
           g == [h EXCEPT !.seq = n, !.busy = "sink", !.last = l, !.asks = a, !.timer = t]
<1>1. n \in Nat /\ l \in BOOLEAN /\ a \in {"no", "asked", "answered"}
  BY DEF Report, Host
<1>2. NextRecord(h, m, t) = g
  BY DEF NextRecord
<1> HIDE DEF n, l, a
<1>3. /\ g \in Host /\ g.run = h.run /\ g.seq = n /\ g.known = h.known
      /\ g.failed = h.failed /\ g.exited = h.exited /\ g.closing = h.closing
      /\ g.connected = h.connected /\ g.ready = h.ready /\ g.busy = "sink"
      /\ g.last = l
  BY <1>1 DEF Host
<1> HIDE DEF g
<1> QED BY <1>2, <1>3 DEF Takes, n, l

\* The next message of the run is read.
LEMMA ReadNextInv ==
    ASSUME Inv, HostReads, toHost[1].type # "ready", Expected(toHost[1]), result' = result,
           seen' = [seen EXCEPT ![toHost[1].run] = @ + 1],
           Takes(host, toHost[1], host')
    PROVE  Inv'
<1> DEFINE m == toHost[1]
<1>1. /\ worker' = worker /\ toHost' = <<>> /\ toWorker' = toWorker /\ start' = start
      /\ produced' = produced /\ spawns' = spawns /\ toHost # <<>> /\ host.known /\ Turn
      /\ m \in Report
  BY Elements DEF HostReads
<1>2. HostOwns /\ WorkerOwns /\ Token /\ Early /\ InOrder /\ Between /\ Counted /\ Driven
  BY DEF Inv
<1>3. /\ host.run # 0 /\ ~ host.failed /\ m.run = host.run /\ m.seq = host.seq + 1
      /\ host.busy = "no" /\ m.type # "ready"
  BY DEF Expected
<1>4. /\ host' \in Host /\ host'.run = host.run /\ host'.seq = m.seq /\ host'.known
      /\ host'.failed = host.failed /\ host'.exited = host.exited
      /\ host'.closing = host.closing /\ host'.connected = host.connected
      /\ host'.ready = host.ready /\ host'.busy = "sink"
      /\ (host'.last) <=> (m.type = "result")
      /\ m.seq \in Nat /\ m.seq # 0 /\ host.seq \in Nat
  BY <1>1, <1>3, SameFields DEF Host, Report, Takes
<1>5. seen' \in [Runs -> Nat]
      /\ \A r \in Runs : seen'[r] = IF r = host.run THEN seen[r] + 1 ELSE seen[r]
  BY <1>3, SameFields
<1>6. /\ ~ host.exited => m.run = host.run /\ m.seq = host.seq + 1
      /\ Live(worker) => /\ worker.ack # 0 /\ m.run = worker.run /\ m.seq = worker.ack
                         /\ (m.type = "result") <=> worker.last
                         /\ ~ Has(toWorker, "ack") /\ Queue(toWorker, worker)
      /\ (m.type = "result") => /\ produced[host.run] = m.seq
                              /\ ~ (worker.driving /\ worker.run = host.run)
  <2>1. Final
    BY <1>2 DEF Counted
  <2> QED BY <1>1, <1>2, <1>3, <2>1 DEF Token, Final
<1> HIDE DEF m
<1>7. host.ready = "resolved" /\ start.pc \notin {"ready", "lost"}
  <2>1. host.ready = "resolved"
    BY <1>1, <1>2, <1>3 DEF Early, m
  <2> QED BY <1>1, <2>1, NotReady
<1>8. Len(toHost') = 0 /\ toHost' \in Seq(Report)
  BY <1>1, NoneOf
<1>9. TypeOK'
  BY <1>1, <1>4, <1>5, <1>8, SameFields DEF Inv, TypeOK, Command, Report
<1>10. HostOwns' /\ WorkerOwns'
  BY <1>1, <1>2, <1>4, <1>7 DEF HostOwns, WorkerOwns
<1>11. Live(worker) => worker.run # 0 /\ worker.seq = m.seq /\ ~ Has(toWorker, "run")
  <2> SUFFICES ASSUME Live(worker)
               PROVE  worker.run # 0 /\ worker.seq = m.seq /\ ~ Has(toWorker, "run")
    OBVIOUS
  <2>1. worker.run # 0 /\ worker.seq = m.seq
    BY <1>2, <1>6 DEF WorkerOwns
  <2>2. ~ Has(toWorker, "run")
    BY <1>6, <2>1 DEF Queue, Has
  <2> QED BY <2>1, <2>2
<1>12. Token' /\ Early'
  <2>1. Token'
    BY <1>1, <1>3, <1>4, <1>6, <1>8 DEF Token
  <2>2. Early'
    BY <1>1, <1>4, <1>7 DEF Early
  <2> QED BY <2>1, <2>2
<1>13. InOrder'
  BY <1>1, <1>3, <1>4, <1>6, <1>7, <1>11 DEF InOrder, Trusts, Has
<1>14. Between'
  BY <1>1, <1>3, <1>4, <1>7 DEF Between
<1>15. Untouched' /\ Complete'
  <2>1. result[host.run] # "none" /\ result[host.run] # "resolved" /\ host.run \in Runs
    BY <1>2, <1>3, SameFields DEF Counted, Taken, Complete
  <2> QED BY <1>1, <1>2, <1>4, <1>5, <2>1 DEF Counted, Untouched, Complete
<1>16. Taken' /\ Prepared' /\ Sent'
  <2>1. host.run \in Runs
    BY <1>3, SameFields
  <2> QED BY <1>1, <1>2, <1>3, <1>4, <1>5, <1>7, <2>1 DEF Counted, Taken, Prepared, Sent
<1>17. Final'
  BY <1>1, <1>3, <1>4, <1>6 DEF Final
<1>18. Driven'
  BY <1>1, <1>2 DEF Driven
<1> QED BY <1>9, <1>10, <1>12, <1>13, <1>14, <1>15, <1>16, <1>17, <1>18, FromParts

\* Every read of the host.
LEMMA HostReadsInv == ASSUME Inv, HostReads PROVE Inv'
<1>1. Head(toHost) = toHost[1] /\ toHost[1] \in Report
  BY Elements DEF HostReads
<1>2. CASE toHost[1].type = "ready"
  BY <1>1, <1>2, ReadFailsQuiet, QuietInv, ReadReadyInv DEF HostReads
<1>3. CASE toHost[1].type # "ready" /\ Expected(toHost[1])
  <2> DEFINE m == Head(toHost)
             T == IF m.type = "result" THEN {FALSE} ELSE {FALSE, host.timer}
  <2>1. m.type # "ready" /\ Expected(m)
    BY <1>1, <1>3
  <2>2. /\ host' \in {NextRecord(host, m, t) : t \in T}
        /\ result' = result /\ seen' = [seen EXCEPT ![m.run] = @ + 1]
    BY <2>1 DEF HostReads, NextRecord
  <2>3. PICK t \in {FALSE, host.timer} : host' = NextRecord(host, m, t)
    BY <2>2
  <2>4. host \in Host /\ t \in BOOLEAN /\ m \in Report /\ m = toHost[1]
    BY <1>1, SameFields DEF Host
  <2> HIDE DEF m
  <2>5. Takes(host, m, host')
    BY <2>3, <2>4, NextFields
  <2> QED BY <1>3, <2>2, <2>4, <2>5, ReadNextInv
<1>4. CASE toHost[1].type # "ready" /\ ~ Expected(toHost[1])
  BY <1>1, <1>4, ReadFailsQuiet, QuietInv DEF HostReads
<1> QED BY <1>2, <1>3, <1>4

\* The sink returned: the acknowledgement is written.
LEMMA SinkReturnsInv == ASSUME Inv, SinkReturns, host.connected PROVE Inv'
<1> DEFINE c == Message("ack", host.run, host.seq)
<1>1. /\ worker' = worker /\ toHost' = toHost /\ result' = result /\ start' = start
      /\ produced' = produced /\ spawns' = spawns /\ seen' = seen
      /\ host.busy = "sink" /\ Turn /\ host' = [host EXCEPT !.busy = "ack"]
      /\ toWorker' = Append(toWorker, c)
  BY DEF SinkReturns, WorkerSide
<1>2. HostOwns /\ WorkerOwns /\ Token /\ Early /\ InOrder /\ Between /\ Counted /\ Driven
  BY DEF Inv
<1>3. /\ host' \in Host /\ host'.run = host.run /\ host'.seq = host.seq /\ host'.known = host.known
      /\ host'.failed = host.failed /\ host'.exited = host.exited
      /\ host'.closing = host.closing /\ host'.connected = host.connected
      /\ host'.ready = host.ready /\ host'.busy = "ack" /\ host'.last = host.last
  BY <1>1, SameFields DEF Host
<1>4. c \in Command /\ c.type = "ack" /\ c.run = host.run /\ c.seq = host.seq
  BY SameFields DEF Message, Command, Host
<1> HIDE DEF c
<1>5. /\ toWorker' \in Seq(Command) /\ Len(toWorker') = Len(toWorker) + 1
      /\ \A i \in 1 .. Len(toWorker) : toWorker'[i] = toWorker[i] /\ i \in 1 .. Len(toWorker')
      /\ toWorker'[Len(toWorker) + 1] = c /\ Len(toWorker) + 1 \in 1 .. Len(toWorker')
      /\ Len(toWorker) \in Nat
  BY <1>1, <1>4, SameFields, AppendOf
<1>6. \A i \in 1 .. Len(toWorker') : i \in 1 .. Len(toWorker) \/ i = Len(toWorker) + 1
  BY <1>5
<1>7. host.known /\ host.ready = "resolved"
  BY <1>1, <1>2 DEF HostOwns, Early
<1>8. start.pc \notin {"ready", "lost"}
  BY <1>1, <1>7, NotReady
<1>9. toHost # <<>> => toHost[1].type # "ready"
  BY <1>2, <1>7 DEF Early
<1>10. Live(worker) =>
         /\ worker.ack # 0 /\ host.run = worker.run /\ host.seq = worker.ack
         /\ (host.last) <=> (worker.last)
         /\ toHost = <<>> /\ ~ Has(toWorker, "ack") /\ Queue(toWorker, worker)
         /\ worker.run # 0
  <2>1. Live(worker) =>
         /\ worker.ack # 0 /\ host.run = worker.run /\ host.seq = worker.ack
         /\ (host.last) <=> (worker.last)
         /\ toHost = <<>> /\ ~ Has(toWorker, "ack") /\ Queue(toWorker, worker)
    BY <1>1, <1>2 DEF Token
  <2> QED BY <1>2, <2>1 DEF WorkerOwns
<1>11. Live(worker) => ~ Has(toWorker, "run")
  BY <1>10 DEF Queue, Has
<1>12. Has(toWorker', "ack") /\ (Has(toWorker', "run") => Has(toWorker, "run"))
  BY <1>4, <1>5, <1>6 DEF Has
<1>13. TypeOK'
  BY <1>1, <1>3, <1>5, SameFields DEF Inv, TypeOK, Command, Report
<1>14. HostOwns'
  BY <1>1, <1>2, <1>3, <1>7 DEF HostOwns
<1>15. WorkerOwns'
  <2>1. \A i \in 1 .. Len(toWorker') :
           toWorker'[i].type = "permission" => toWorker'[i].run # 0
    BY <1>2, <1>4, <1>5, <1>6 DEF WorkerOwns
  <2> QED BY <1>1, <1>2, <1>3, <2>1 DEF WorkerOwns
<1>16. Live(worker) => Queue(toWorker', worker)
  <2> SUFFICES ASSUME Live(worker) PROVE Queue(toWorker', worker)
    OBVIOUS
  <2>1. \A i \in 1 .. Len(toWorker') : toWorker'[i].type = "ack" => i = Len(toWorker) + 1
    BY <1>5, <1>6, <1>10 DEF Has
  <2>2. \A i \in 1 .. Len(toWorker') : toWorker'[i].type # "run"
    BY <1>4, <1>5, <1>6, <1>11 DEF Has
  <2> QED BY <1>4, <1>5, <1>10, <2>1, <2>2 DEF Queue
<1>17. Token'
  BY <1>1, <1>2, <1>3, <1>10, <1>16 DEF Token
<1>18. Early'
  BY <1>1, <1>2, <1>3, <1>7 DEF Early
<1>19. InOrder'
  <2>1. Trusts(host) => toHost = <<>>
    BY <1>1, <1>2, <1>9 DEF InOrder
  <2>2. Live(worker) => \A i \in 1 .. Len(toWorker') : toWorker'[i].type # "run"
    BY <1>11, <1>12 DEF Has
  <2>3. Trusts(host) => host.run # 0
    BY <1>1, <1>2 DEF InOrder
  <2>4. Live(worker) /\ Trusts(host) /\ worker.run # 0 =>
           host.run = worker.run /\ worker.seq = host.seq
    BY <1>2, <1>10, <2>1 DEF InOrder
  <2> QED BY <1>1, <1>3, <1>7, <1>8, <2>1, <2>2, <2>3, <2>4 DEF InOrder, Trusts
<1>20. Between'
  BY <1>1, <1>3, <1>8, <1>10, <1>11, <1>12 DEF Between
<1>21. Untouched' /\ Complete' /\ Taken' /\ Prepared' /\ Final'
  BY <1>1, <1>2, <1>3 DEF Counted, Untouched, Complete, Taken, Prepared, Final
<1>22. Sent'
  BY <1>1, <1>11, <1>12 DEF Sent, Has
<1>23. Driven'
  BY <1>1, <1>2 DEF Driven
<1> QED BY <1>13, <1>14, <1>15, <1>17, <1>18, <1>19, <1>20, <1>21, <1>22, <1>23, FromParts

\* The acknowledgement of the result is written: the run is over, its promise resolved.
LEMMA AckLastInv ==
    ASSUME Inv, AckSent, host.last, host' = [host EXCEPT !.busy = "no", !.run = 0],
           result' = Settle(result, host.run, "resolved")
    PROVE  Inv'
<1>1. /\ worker' = worker /\ toHost' = toHost /\ toWorker' = toWorker /\ start' = start
      /\ produced' = produced /\ spawns' = spawns /\ seen' = seen
      /\ host.busy = "ack" /\ Turn
  BY DEF AckSent, WorkerSide
<1>2. HostOwns /\ WorkerOwns /\ Token /\ Early /\ InOrder /\ Between /\ Counted /\ Driven
  BY DEF Inv
<1>3. /\ host' \in Host /\ host'.run = 0 /\ host'.seq = host.seq /\ host'.known = host.known
      /\ host'.failed = host.failed /\ host'.exited = host.exited
      /\ host'.closing = host.closing /\ host'.connected = host.connected
      /\ host'.ready = host.ready /\ host'.busy = "no" /\ host'.last = host.last
      /\ host'.timer = host.timer
  BY SameFields DEF Host
<1>4. host.known /\ host.ready = "resolved"
  BY <1>1, <1>2 DEF HostOwns, Early
<1>5. start.pc \notin {"ready", "lost"}
  BY <1>1, <1>4, NotReady
<1>6. \A r \in Runs : result[r] = "pending" => r = host.run /\ ~ host.exited /\ r # 0
  BY <1>2, <1>5, IpcAssumption DEF HostOwns, Runs
<1>7. /\ result' \in [Runs -> {"none", "pending", "resolved", "rejected"}]
      /\ \A r \in Runs : result'[r] = IF result[r] = "pending" THEN "resolved" ELSE result[r]
  BY <1>6, SameFields DEF Settle
<1>8. TypeOK'
  BY <1>1, <1>3, <1>7, SameFields DEF Inv, TypeOK, Command, Report
<1>9. HostOwns'
  BY <1>1, <1>2, <1>3, <1>4, <1>7 DEF HostOwns
<1>10. WorkerOwns' /\ Token' /\ Early'
  BY <1>1, <1>2, <1>3 DEF WorkerOwns, Token, Early
<1>11. Live(worker) => ~ Has(toWorker, "run")
                       /\ (worker.run = 0 \/ (worker.last /\ Has(toWorker, "ack")))
  BY <1>1, <1>2 DEF Between
<1>12. InOrder'
  <2>1. Trusts(host) => toHost = <<>>
    BY <1>1, <1>2, <1>4 DEF InOrder, Early
  <2> QED BY <1>1, <1>3, <1>4, <1>5, <1>11, <2>1 DEF InOrder, Trusts, Has
<1>13. Between'
  BY <1>1, <1>11 DEF Between
<1>14. ~ host.exited => /\ host.run # 0 /\ produced[host.run] = host.seq
                        /\ ~ (worker.driving /\ worker.run = host.run)
                        /\ seen[host.run] = host.seq
  <2>1. Final /\ Taken
    BY <1>2 DEF Counted
  <2> QED BY <1>1, <2>1 DEF Final, Taken
<1>15. Untouched' /\ Complete'
  BY <1>1, <1>2, <1>3, <1>6, <1>7, <1>14, IpcAssumption
     DEF Counted, Untouched, Complete, Runs
<1>16. Taken' /\ Prepared' /\ Sent' /\ Final'
  BY <1>1, <1>2, <1>3, <1>5, <1>11 DEF Counted, Taken, Prepared, Sent, Final, Has
<1>17. Driven'
  <2>1. worker.run # 0 => worker.run \in Runs /\ result'[worker.run] # "none"
    BY <1>2, <1>7, SameFields DEF Driven, Worker
  <2>2. worker.driving => ~ host.exited
    BY <1>2, <1>4 DEF HostOwns, WorkerOwns
  <2>3. worker.driving /\ Open(result, worker.run) => Open(result', worker.run)
    BY <1>6, <1>7, <1>14, <2>2 DEF Open
  <2> QED BY <1>1, <1>2, <2>1, <2>3, DrivenStill
<1> QED BY <1>8, <1>9, <1>10, <1>12, <1>13, <1>15, <1>16, <1>17, FromParts

\* The end of the process is seen: what waits is rejected.
LEMMA ExitSeenInv == ASSUME Inv, ExitSeen PROVE Inv'
<1> DEFINE a == [host EXCEPT !.exited = TRUE, !.timer = FALSE, !.run = 0]
           v == IF a.ready = "pending" THEN "rejected" ELSE a.ready
           b == [a EXCEPT !.ready = v]
<1>1. /\ worker' = worker /\ toHost' = toHost /\ toWorker' = toWorker /\ start' = start
      /\ produced' = produced /\ spawns' = spawns /\ seen' = seen
      /\ Turn /\ worker.life = "dead" /\ ~ host.exited /\ host' = b
      /\ result' = Settle(result, host.run, "rejected")
  BY DEF ExitSeen, WorkerSide, RejectReady
<1>2. HostOwns /\ WorkerOwns /\ Token /\ Early /\ InOrder /\ Between /\ Counted /\ Driven
  BY DEF Inv
<1>3. /\ a \in Host /\ a.run = 0 /\ a.seq = host.seq /\ a.known = host.known
      /\ a.failed = host.failed /\ a.exited /\ a.closing = host.closing
      /\ a.connected = host.connected /\ a.ready = host.ready /\ a.busy = host.busy
      /\ a.last = host.last /\ ~ a.timer
  BY SameFields DEF Host
<1> HIDE DEF a
<1>4. /\ v \in {"resolved", "rejected"} /\ v # "pending"
      /\ v = "resolved" => host.ready = "resolved"
      /\ host.ready = "resolved" => v = "resolved"
  BY <1>3 DEF Host
<1> HIDE DEF v
<1>5. /\ b \in Host /\ b.run = a.run /\ b.seq = a.seq /\ b.known = a.known
      /\ b.failed = a.failed /\ b.exited /\ b.closing = a.closing
      /\ b.connected = a.connected /\ b.ready = v /\ b.busy = a.busy
      /\ b.last = a.last /\ ~ b.timer
  BY <1>3, <1>4 DEF Host
<1> HIDE DEF b
<1>6. host.known /\ ~ Live(worker) /\ worker.run = 0
  BY <1>1, <1>2 DEF HostOwns, Live, WorkerOwns
<1>7. Rejected
  BY <1>1, SettleRejects
<1>8. start.pc = "ready" => host.ready = "pending"
  BY <1>1 DEF Turn
<1>9. TypeOK'
  BY <1>1, <1>5, <1>7, SameFields DEF Inv, TypeOK, Command, Report, Rejected
<1>10. HostOwns'
  <2>1. \A r \in Runs : result'[r] # "pending"
    BY <1>7 DEF Rejected
  <2>2. \A r \in Runs : (result'[r] = "none") <=> (result[r] = "none")
    BY <1>7 DEF Rejected
  <2> QED BY <1>1, <1>2, <1>3, <1>4, <1>5, <1>6, <2>1, <2>2 DEF HostOwns
<1>11. WorkerOwns' /\ Token'
  BY <1>1, <1>2, <1>6 DEF WorkerOwns, Token, Live
<1>12. Early'
  BY <1>1, <1>2, <1>3, <1>4, <1>5, <1>6 DEF Early
<1>13. InOrder' /\ Between'
  BY <1>1, <1>5, <1>6 DEF InOrder, Between, Trusts
<1>14. Untouched' /\ Complete'
  <2>1. \A r \in Runs : r # 0
    BY IpcAssumption DEF Runs
  <2> QED BY <1>1, <1>2, <1>3, <1>5, <1>7, <2>1 DEF Counted, Untouched, Complete, Rejected
<1>15. Taken' /\ Sent'
  BY <1>1, <1>3, <1>5, <1>6 DEF Taken, Sent
<1>16. Prepared'
  BY <1>1, <1>2, <1>7 DEF Counted, Prepared, Open, Rejected
<1>17. Final'
  BY <1>1, <1>2, <1>5 DEF Counted, Final
<1>18. Driven'
  BY <1>1, <1>2, <1>6 DEF Driven, WorkerOwns
<1> QED BY <1>9, <1>10, <1>11, <1>12, <1>13, <1>14, <1>15, <1>16, <1>17, <1>18, FromParts

\* The Worker is gone and what the sweep found of its descendants: it is forgotten.
LEMMA SweepInv ==
    ASSUME Inv, Sweep, host' = NoWorker, result' = result, toHost' = <<>>, toWorker' = <<>>,
           worker' = [worker EXCEPT !.stray = Unfound(@)]
    PROVE  Inv'
<1>1. /\ start' = start /\ produced' = produced /\ spawns' = spawns /\ seen' = seen
      /\ Turn /\ host.closing = "sweep"
  BY DEF Sweep
<1>2. HostOwns /\ WorkerOwns /\ Counted
  BY DEF Inv
<1>3. /\ host.known /\ host.exited /\ host.ready # "pending" /\ worker.life = "dead"
      /\ ~ worker.group
  BY <1>1, <1>2 DEF HostOwns
<1>4. start.pc \notin {"ready", "lost"}
  BY <1>1, <1>3, NotReady
<1>5. \A r \in Runs : result[r] # "pending" /\ r # 0
  BY <1>2, <1>3, <1>4, IpcAssumption DEF HostOwns, Runs
<1>6. /\ worker' \in Worker /\ worker'.life = "dead" /\ worker'.run = worker.run
      /\ worker'.ack = worker.ack /\ worker'.out = worker.out /\ worker'.seq = worker.seq
      /\ worker'.driving = worker.driving /\ worker'.last = worker.last
      /\ ~ worker'.group /\ worker'.stray \subseteq {"lost"}
  BY <1>3, SameFields DEF Worker, Unfound, Strays
<1>7. /\ host' \in Host /\ ~ host'.known /\ host'.exited /\ ~ host'.connected /\ ~ host'.timer
      /\ host'.run = 0 /\ host'.busy = "no" /\ host'.closing = "no" /\ ~ host'.failed
  <2> DEFINE h == Fresh(0)
  <2>1. h \in Host /\ h.run = 0 /\ h.busy = "no" /\ h.closing = "no" /\ ~ h.failed /\ ~ h.timer
    BY DEF Fresh, Host
  <2>2. host' = [h EXCEPT !.known = FALSE, !.connected = FALSE, !.exited = TRUE]
    BY DEF NoWorker
  <2> HIDE DEF h
  <2> QED BY <2>1, <2>2 DEF Host
<1>8. /\ ~ Has(toWorker', "run") /\ Len(toHost') = 0 /\ Len(toWorker') = 0
      /\ toWorker' \in Seq(Command) /\ toHost' \in Seq(Report)
  BY NoneOf DEF Has
<1>9. worker'.run = 0 /\ ~ Live(worker')
  BY <1>2, <1>3, <1>6 DEF WorkerOwns, Live
<1>10. TypeOK'
  BY <1>1, <1>6, <1>7, <1>8, SameFields DEF Inv, TypeOK, Command, Report
<1>11. HostOwns' /\ WorkerOwns'
  BY <1>1, <1>2, <1>3, <1>4, <1>5, <1>6, <1>7, <1>8 DEF HostOwns, WorkerOwns, Cleanup
<1>12. Token' /\ Early' /\ InOrder' /\ Between'
  BY <1>7, <1>8, <1>9 DEF Token, Early, InOrder, Between, Trusts
<1>13. Untouched' /\ Complete' /\ Taken' /\ Prepared' /\ Sent' /\ Final'
  BY <1>1, <1>2, <1>4, <1>5, <1>7, <1>8, <1>9
     DEF Counted, Untouched, Complete, Taken, Prepared, Sent, Final
<1>14. Driven'
  BY <1>9, <1>2, <1>3, <1>6 DEF Driven, WorkerOwns
<1> QED BY <1>10, <1>11, <1>12, <1>13, <1>14, FromParts

----------------------------------------------------------------------------
(* The steps of the Worker *)

\* What is left after a command was read.
LEMMA RestOf ==
    ASSUME NEW q \in Seq(Command), q # <<>>
    PROVE  LET p == Tail(q) IN
           /\ p \in Seq(Command) /\ q[1] \in Command /\ Head(q) = q[1]
           /\ \A i \in 1 .. Len(p) : p[i] = q[i + 1] /\ i + 1 \in 1 .. Len(q)
           /\ \A i \in 1 .. Len(q) : i = 1 \/ (i - 1 \in 1 .. Len(p) /\ p[i - 1] = q[i])
           /\ 1 \in 1 .. Len(q) /\ Len(p) \in Nat
<1> DEFINE p == Tail(q)
<1>1. /\ p \in Seq(Command) /\ Len(q) = Len(p) + 1 /\ Head(q) = q[1] /\ q[1] \in Command
      /\ 1 \in 1 .. Len(q)
      /\ \A i \in 1 .. Len(p) : p[i] = q[i + 1] /\ i + 1 \in 1 .. Len(q)
  BY TailOf
<1>2. Len(p) \in Nat
  BY <1>1
<1> HIDE DEF p
<1>3. ASSUME NEW i \in 1 .. Len(q), i # 1
      PROVE  i - 1 \in 1 .. Len(p) /\ p[i - 1] = q[i]
  <2>1. i - 1 \in 1 .. Len(p) /\ (i - 1) + 1 = i
    BY <1>1, <1>2, <1>3
  <2> QED BY <1>1, <2>1
<1> QED BY <1>1, <1>2, <1>3 DEF p

\* A read brings no new command.
LEMMA RestHas ==
    ASSUME NEW q \in Seq(Command), q # <<>>, NEW type
    PROVE  /\ Has(Tail(q), type) => Has(q, type)
           /\ q[1].type # type => (Has(q, type) => Has(Tail(q), type))
BY RestOf DEF Has

\* Neither an acknowledgement nor a run was read.
LEMMA RestQueue ==
    ASSUME NEW q \in Seq(Command), q # <<>>, NEW w, Queue(q, w), q[1].type \notin {"run", "ack"}
    PROVE  Queue(Tail(q), w)
<1> DEFINE p == Tail(q)
<1>1. /\ \A i \in 1 .. Len(p) : p[i] = q[i + 1] /\ i + 1 \in 1 .. Len(q)
      /\ \A i \in 1 .. Len(q) : i = 1 \/ (i - 1 \in 1 .. Len(p) /\ p[i - 1] = q[i])
      /\ Len(p) \in Nat
  BY RestOf
<1> HIDE DEF p
<1>2. \A i \in 1 .. Len(p) : p[i].type = "ack" =>
         w.ack # 0 /\ p[i].run = w.run /\ p[i].seq = w.ack
  BY <1>1 DEF Queue
<1>3. \A i, j \in 1 .. Len(p) : p[i].type = "ack" /\ p[j].type = "ack" => i = j
  <2>1. ASSUME NEW i \in 1 .. Len(p), NEW j \in 1 .. Len(p),
               p[i].type = "ack", p[j].type = "ack"
        PROVE  i = j
    <3>1. /\ i + 1 \in 1 .. Len(q) /\ q[i + 1].type = "ack"
          /\ j + 1 \in 1 .. Len(q) /\ q[j + 1].type = "ack"
      BY <1>1, <2>1
    <3>2. i + 1 = j + 1
      BY <3>1 DEF Queue
    <3> QED BY <1>1, <3>2
  <2> QED BY <2>1
<1>4. \A i, j \in 1 .. Len(p) : p[i].type = "run" /\ p[j].type = "run" => i = j
  <2>1. ASSUME NEW i \in 1 .. Len(p), NEW j \in 1 .. Len(p),
               p[i].type = "run", p[j].type = "run"
        PROVE  i = j
    <3>1. /\ i + 1 \in 1 .. Len(q) /\ q[i + 1].type = "run"
          /\ j + 1 \in 1 .. Len(q) /\ q[j + 1].type = "run"
      BY <1>1, <2>1
    <3>2. i + 1 = j + 1
      BY <3>1 DEF Queue
    <3> QED BY <1>1, <3>2
  <2> QED BY <2>1
<1>5. ASSUME NEW i \in 1 .. Len(p), p[i].type = "run", w.run # 0
      PROVE  w.last /\ \E j \in 1 .. Len(p) : j < i /\ p[j].type = "ack"
  <2>1. i + 1 \in 1 .. Len(q) /\ q[i + 1].type = "run"
    BY <1>1, <1>5
  <2>2. w.last /\ \E j \in 1 .. Len(q) : j < i + 1 /\ q[j].type = "ack"
    BY <1>5, <2>1 DEF Queue
  <2>3. PICK j \in 1 .. Len(q) : j < i + 1 /\ q[j].type = "ack"
    BY <2>2
  <2>4. j - 1 \in 1 .. Len(p) /\ p[j - 1] = q[j] /\ j - 1 < i
    BY <1>1, <1>5, <2>3
  <2> QED BY <2>2, <2>3, <2>4
<1> QED BY <1>2, <1>3, <1>4, <1>5 DEF Queue, p

\* The commands after a step of the Worker.
Rest == toWorker' = toWorker \/ (toWorker # <<>> /\ toWorker' = Tail(toWorker))

\* They were among the commands before it.
LEMMA RestFacts ==
    ASSUME Inv, Rest
    PROVE  /\ toWorker' \in Seq(Command)
           /\ Has(toWorker', "run") => Has(toWorker, "run")
           /\ Has(toWorker', "ack") => Has(toWorker, "ack")
           /\ \A i \in 1 .. Len(toWorker') :
                 \E j \in 1 .. Len(toWorker) : toWorker'[i] = toWorker[j]
           /\ \A i \in 1 .. Len(toWorker') :
                 toWorker'[i].type = "permission" => toWorker'[i].run # 0
<1>1. toWorker \in Seq(Command) /\ WorkerOwns
  BY SameFields DEF Inv
<1>2. CASE toWorker' = toWorker
  BY <1>1, <1>2 DEF WorkerOwns
<1>3. CASE toWorker # <<>> /\ toWorker' = Tail(toWorker)
  <2>1. /\ toWorker' \in Seq(Command)
        /\ \A i \in 1 .. Len(toWorker') :
              toWorker'[i] = toWorker[i + 1] /\ i + 1 \in 1 .. Len(toWorker)
    BY <1>1, <1>3, RestOf
  <2>2. \A i \in 1 .. Len(toWorker') :
           toWorker'[i].type = "permission" => toWorker'[i].run # 0
    BY <1>1, <2>1 DEF WorkerOwns
  <2> QED BY <2>1, <2>2 DEF Has
<1> QED BY <1>2, <1>3 DEF Rest

\* What the host remembers stays true while its Worker works or dies.
LEMMA HostOwnsStill ==
    ASSUME Inv, HostStays,
           worker.life \in {"boot", "up"} \/ (worker.group /\ worker'.life = worker.life)
    PROVE  HostOwns'
<1>1. HostOwns /\ host' = host /\ start' = start /\ result' = result
  BY DEF Inv, HostStays, HostSide
<1>2. host.known /\ host.closing # "sweep"
  BY <1>1, Alive DEF HostOwns
<1>3. host.exited => worker'.life = "dead"
  BY <1>1, <1>2, Alive DEF HostOwns
<1> QED BY <1>1, <1>2, <1>3 DEF HostOwns

\* A Worker that drives a run has nothing else to do.
LEMMA Driving ==
    ASSUME Inv, worker.driving
    PROVE  /\ worker.life = "up" /\ worker.run # 0 /\ worker.run \in Runs /\ ~ worker.last
           /\ Live(worker) /\ start.pc # "ready" /\ ~ Has(toWorker, "run")
           /\ Open(result, worker.run)
<1>1. WorkerOwns /\ Between /\ Token /\ Driven /\ worker \in Worker
  BY SameFields DEF Inv
<1>2. worker.life = "up" /\ worker.run # 0 /\ ~ worker.last /\ worker.run \in Runs
  BY <1>1 DEF WorkerOwns, Worker
<1>3. Live(worker)
  BY <1>2 DEF Live
<1>4. start.pc # "ready"
  BY <1>1, <1>2, <1>3 DEF Between
<1>5. ~ Has(toWorker, "run")
  BY <1>1, <1>2, <1>3 DEF Token, Queue, Has
<1> QED BY <1>1, <1>2, <1>3, <1>4, <1>5 DEF Driven

\* A step that delivers nothing, takes no run and no acknowledgement.
LEMMA WorksInv ==
    ASSUME Inv, HostStays, toHost' = toHost, Rest,
           Live(worker) /\ toWorker' # toWorker => toWorker[1].type \notin {"run", "ack"},
           worker' \in Worker, worker'.life = worker.life, worker'.run = worker.run,
           worker'.seq = worker.seq, worker'.ack = worker.ack, worker'.last = worker.last,
           worker'.down = worker.down \/ (worker'.down /\ worker.life = "up"),
           worker'.driving => worker.driving,
           worker.life = "up" \/ worker.group,
           worker.run = 0 => worker'.out = <<>>,
           \/ produced' = produced
           \/ worker.driving /\ produced' = [produced EXCEPT ![worker.run] = @ + 1],
           Driven'
    PROVE  Inv'
<1>1. /\ host' = host /\ start' = start /\ result' = result /\ spawns' = spawns /\ seen' = seen
  BY DEF HostStays, HostSide
<1>2. HostOwns /\ WorkerOwns /\ Token /\ Early /\ InOrder /\ Between /\ Counted /\ Driven
  BY DEF Inv
<1>3. Live(worker') => Live(worker)
  BY DEF Live
<1>4. produced' \in [Runs -> Nat]
      /\ \A r \in Runs : produced'[r] = produced[r] \/ (worker.driving /\ r = worker.run)
  <2>1. CASE produced' = produced
    BY <2>1, SameFields
  <2>2. CASE worker.driving /\ produced' = [produced EXCEPT ![worker.run] = @ + 1]
    <3>1. worker.run \in Runs /\ produced \in [Runs -> Nat]
      BY <2>2, Driving, SameFields
    <3> QED BY <2>2, <3>1
  <2> QED BY <2>1, <2>2
<1>5. Live(worker) =>
        /\ Queue(toWorker', worker')
        /\ Has(toWorker, "ack") => Has(toWorker', "ack")
  <2> SUFFICES ASSUME Live(worker)
               PROVE  Queue(toWorker', worker') /\ (Has(toWorker, "ack") => Has(toWorker', "ack"))
    OBVIOUS
  <2>1. Queue(toWorker, worker) /\ toWorker \in Seq(Command)
    BY <1>2, SameFields DEF Token
  <2>2. Queue(toWorker', worker) /\ (Has(toWorker, "ack") => Has(toWorker', "ack"))
    <3>1. CASE toWorker' = toWorker
      BY <2>1, <3>1
    <3>2. CASE toWorker' # toWorker
      <4>1. toWorker # <<>> /\ toWorker' = Tail(toWorker)
            /\ toWorker[1].type \notin {"run", "ack"}
        BY <3>2 DEF Rest
      <4> QED BY <2>1, <4>1, RestQueue, RestHas
    <3> QED BY <3>1, <3>2
  <2> QED BY <2>2 DEF Queue
<1>6. TypeOK'
  BY <1>1, <1>4, RestFacts DEF Inv, TypeOK, Command
<1>7. HostOwns'
  BY HostOwnsStill
<1>8. WorkerOwns'
  BY <1>1, <1>2, RestFacts DEF WorkerOwns
<1>9. Token'
  BY <1>1, <1>2, <1>3, <1>5, RestFacts DEF Token
<1>10. Early'
  BY <1>1, <1>2, RestFacts DEF Early
<1>11. InOrder'
  <2>1. Live(worker) => \A i \in 1 .. Len(toWorker') :
           \E j \in 1 .. Len(toWorker) : toWorker'[i] = toWorker[j]
    BY RestFacts
  <2> QED BY <1>1, <1>2, <1>3, <1>5, <2>1 DEF InOrder
<1>12. Between'
  BY <1>1, <1>2, <1>3, <1>5, RestFacts DEF Between
<1>13. Untouched' /\ Complete'
  BY <1>1, <1>2, <1>4, Driving DEF Counted, Untouched, Complete, Open
<1>14. Taken'
  BY <1>1, <1>2 DEF Counted, Taken
<1>15. Prepared'
  BY <1>1, <1>2, <1>4, Driving DEF Counted, Prepared, Open
<1>16. Sent'
  <2> SUFFICES ASSUME Live(worker'), NEW i \in 1 .. Len(toWorker'), toWorker'[i].type = "run"
               PROVE  Open(result, toWorker'[i].run) /\ produced'[toWorker'[i].run] = 0
    BY <1>1 DEF Sent
  <2>1. PICK j \in 1 .. Len(toWorker) : toWorker'[i] = toWorker[j]
    BY RestFacts
  <2>2. Open(result, toWorker[j].run) /\ produced[toWorker[j].run] = 0
    BY <1>2, <1>3, <2>1 DEF Counted, Sent
  <2>3. ~ worker.driving
    BY <2>1, Driving DEF Has
  <2> QED BY <1>4, <2>1, <2>2, <2>3 DEF Open
<1>17. Final'
  <2>1. host.run \in Runs \cup {0} /\ (toHost # <<>> => toHost[1].run \in Runs \cup {0})
    BY SameFields, Elements DEF Report
  <2> QED BY <1>1, <1>2, <1>4, <2>1 DEF Counted, Final
<1> QED BY <1>6, <1>7, <1>8, <1>9, <1>10, <1>11, <1>12, <1>13, <1>14, <1>15, <1>16, <1>17,
           FromParts

\* The Worker dies, or gives its run up.
LEMMA StopsInv ==
    ASSUME Inv, HostStays, toHost' = toHost, Rest, produced' = produced,
           worker.life \in {"boot", "up"}, worker' \in Worker,
           worker'.life = "dead" \/ (worker'.life = "up" /\ worker'.down),
           worker'.run = 0, worker'.ack = 0, worker'.out = <<>>, ~ worker'.driving
    PROVE  Inv'
<1>1. /\ host' = host /\ start' = start /\ result' = result /\ spawns' = spawns /\ seen' = seen
  BY DEF HostStays, HostSide
<1>2. HostOwns /\ WorkerOwns /\ Token /\ Early /\ InOrder /\ Between /\ Counted /\ Driven
  BY DEF Inv
<1>3. ~ Live(worker')
  BY DEF Live
<1>4. TypeOK'
  BY <1>1, RestFacts DEF Inv, TypeOK, Command
<1>5. HostOwns'
  BY HostOwnsStill
<1>6. WorkerOwns'
  BY RestFacts DEF WorkerOwns
<1>7. Token' /\ Early'
  BY <1>1, <1>2, <1>3, RestFacts DEF Token, Early
<1>8. InOrder' /\ Between'
  BY <1>1, <1>2, <1>3 DEF InOrder, Between, Trusts
<1>9. Untouched' /\ Complete' /\ Taken' /\ Prepared' /\ Sent' /\ Final'
  BY <1>1, <1>2, <1>3 DEF Counted, Untouched, Complete, Taken, Prepared, Sent, Final
<1>10. Driven'
  BY DEF Driven
<1> QED BY <1>4, <1>5, <1>6, <1>7, <1>8, <1>9, <1>10, FromParts

\* The types of the Worker's fields.
LEMMA WorkerFields ==
    ASSUME Inv
    PROVE  /\ worker.out \in Seq(Kind) /\ Len(worker.out) \in Nat
           /\ worker.seq \in Nat /\ worker.ack \in Nat /\ worker.run \in Runs \cup {0}
           /\ worker.last \in BOOLEAN /\ worker.driving \in BOOLEAN
           /\ worker.down \in BOOLEAN
<1>1. worker.out \in Seq(Kind) /\ worker.seq \in Nat /\ worker.ack \in Nat
      /\ worker.run \in Runs \cup {0} /\ worker.last \in BOOLEAN /\ worker.driving \in BOOLEAN
      /\ worker.down \in BOOLEAN
  BY SameFields DEF Worker, Kind
<1> QED BY <1>1

\* One delivery more, but not the result.
LEMMA GrowsDriven ==
    ASSUME Inv, result' = result, NEW e \in {"event", "permission", "applied"},
           worker.run # 0, worker'.run = worker.run, worker'.seq = worker.seq,
           worker'.last = worker.last, worker'.driving = worker.driving,
           worker'.out = Append(worker.out, e),
           produced' = IF worker.driving THEN [produced EXCEPT ![worker.run] = @ + 1]
                       ELSE produced
    PROVE  Driven'
<1> DEFINE n == Len(worker.out)
           p == worker'.out
<1>1. Driven /\ WorkerOwns /\ produced \in [Runs -> Nat]
  BY SameFields DEF Inv
<1>2. /\ n \in Nat /\ Len(p) = n + 1 /\ p[n + 1] = e
      /\ \A i \in 1 .. n : p[i] = worker.out[i] /\ i \in 1 .. Len(p)
  <2>1. worker.out \in Seq(Kind) /\ e \in Kind
    BY WorkerFields DEF Kind
  <2> QED BY <2>1, AppendOf
<1>3. \A i \in 1 .. Len(p) : i \in 1 .. n \/ i = n + 1
  BY <1>2
<1>4. worker.run \in Runs /\ worker.seq \in Nat
  BY WorkerFields
<1>5. CASE worker.driving
  <2>1. /\ Open(result, worker.run) /\ produced[worker.run] = worker.seq + n
        /\ \A i \in 1 .. n : worker.out[i] # "result"
        /\ ~ worker.last /\ result[worker.run] # "none"
    BY <1>1, <1>5, Driving DEF Driven
  <2>2. produced'[worker.run] = worker.seq + Len(p)
    BY <1>1, <1>2, <1>4, <1>5, <2>1
  <2>3. \A i \in 1 .. Len(p) : p[i] # "result"
    BY <1>2, <1>3, <2>1
  <2> HIDE DEF p, n
  <2>4. worker'.out = p
    BY DEF p
  <2> QED BY <1>5, <2>1, <2>2, <2>3, <2>4 DEF Driven
<1>6. CASE ~ worker.driving
  <2>1. produced' = produced /\ ~ worker'.driving /\ result'[worker'.run] # "none"
    BY <1>1, <1>6 DEF Driven
  <2>2. worker.last => produced[worker.run] = worker.seq
    BY <1>1 DEF Driven
  <2>3. ASSUME ~ worker.last
        PROVE  \E k \in 1 .. Len(p) :
                  /\ produced[worker.run] = worker.seq + k
                  /\ \A i \in 1 .. Len(p) : (p[i] = "result") <=> (i = k)
    <3>1. PICK k \in 1 .. n :
             /\ produced[worker.run] = worker.seq + k
             /\ \A i \in 1 .. n : (worker.out[i] = "result") <=> (i = k)
      BY <1>1, <1>6, <2>3 DEF Driven
    <3>2. k \in 1 .. Len(p) /\ k # n + 1
      BY <1>2, <3>1
    <3>3. \A i \in 1 .. Len(p) : (p[i] = "result") <=> (i = k)
      BY <1>2, <1>3, <3>1, <3>2
    <3> QED BY <3>1, <3>2, <3>3
  <2> HIDE DEF p, n
  <2>4. worker'.out = p
    BY DEF p
  <2> QED BY <2>1, <2>2, <2>3, <2>4 DEF Driven
<1> QED BY <1>5, <1>6

\* Driven does not look at the other fields of the Worker.
LEMMA DrivenSame ==
    ASSUME Inv, result' = result, produced' = produced,
           worker'.run = worker.run, worker'.seq = worker.seq, worker'.last = worker.last,
           worker'.driving = worker.driving, worker'.out = worker.out
    PROVE  Driven'
BY DEF Driven, Inv

\* The driver emits an event or asks.
LEMMA DriverGrowsInv == ASSUME Inv, DriverEmits \/ DriverAsks PROVE Inv'
<1>1. /\ worker.life = "up" /\ worker.driving /\ HostStays
      /\ toHost' = toHost /\ toWorker' = toWorker
      /\ produced' = [produced EXCEPT ![worker.run] = @ + 1]
  BY DEF DriverEmits, DriverAsks, Drives, Emits
<1>2. PICK e \in {"event", "permission"} :
         \/ worker' = [worker EXCEPT !.out = Append(@, e)]
         \/ worker' = [worker EXCEPT !.out = Append(@, e), !.perm = "open"]
  BY DEF DriverEmits, DriverAsks, Emits
<1> DEFINE p == Append(worker.out, e)
<1>3. p \in Seq({"event", "permission", "applied", "result"}) /\ worker.run # 0
  <2>1. e \in Kind /\ worker.out \in Seq(Kind)
    BY WorkerFields DEF Kind
  <2>2. p \in Seq(Kind)
    BY <2>1, AppendOf
  <2> QED BY <1>1, <2>2, Driving DEF Kind
<1>4. \/ worker' = [worker EXCEPT !.out = p]
      \/ worker' = [worker EXCEPT !.out = p, !.perm = "open"]
  BY <1>2, SameFields DEF Worker
<1> HIDE DEF p
<1>5. /\ worker' \in Worker /\ worker'.life = worker.life /\ worker'.run = worker.run
      /\ worker'.seq = worker.seq /\ worker'.ack = worker.ack /\ worker'.last = worker.last
      /\ worker'.down = worker.down /\ worker'.driving = worker.driving /\ worker'.out = p
  BY <1>3, <1>4, SameFields DEF Worker
<1>6. result' = result /\ Rest
  BY <1>1 DEF HostStays, HostSide, Rest
<1>7. Driven'
  BY <1>1, <1>3, <1>5, <1>6, GrowsDriven DEF p
<1> QED BY <1>1, <1>3, <1>5, <1>6, <1>7, WorksInv

\* The engine withdraws its request, or its descendants leave the group.
LEMMA QuietWorkInv == ASSUME Inv, DriverWithdraws \/ EngineLeaves PROVE Inv'
<1>1. /\ worker.life = "up" \/ worker.group
      /\ HostStays /\ toHost' = toHost /\ toWorker' = toWorker /\ produced' = produced
  BY DEF DriverWithdraws, EngineLeaves, Drives
<1>2. /\ worker' \in Worker /\ worker'.life = worker.life /\ worker'.run = worker.run
      /\ worker'.seq = worker.seq /\ worker'.ack = worker.ack /\ worker'.last = worker.last
      /\ worker'.down = worker.down /\ worker'.driving = worker.driving
      /\ worker'.out = worker.out
  <2>1. CASE DriverWithdraws
    <3>1. worker' = [worker EXCEPT !.perm = "gone"]
      BY <2>1 DEF DriverWithdraws
    <3> QED BY <3>1, SameFields DEF Worker
  <2>2. CASE EngineLeaves
    <3>1. PICK left \in SUBSET Leaving :
             worker' = [worker EXCEPT !.group = FALSE, !.stray = @ \cup left]
      BY <2>2 DEF EngineLeaves
    <3> QED BY <3>1, SameFields, IpcAssumption DEF Worker, Strays
  <2> QED BY <2>1, <2>2
<1>3. result' = result /\ Rest
  BY <1>1 DEF HostStays, HostSide, Rest
<1>4. worker.run = 0 => worker'.out = <<>>
  BY <1>2 DEF Inv, WorkerOwns
<1>5. Driven'
  BY <1>1, <1>2, <1>3, DrivenSame
<1> QED BY <1>1, <1>2, <1>3, <1>4, <1>5, WorksInv

\* The driver returns: the result goes behind all deliveries.
LEMMA DriverEndsInv == ASSUME Inv, DriverEnds PROVE Inv'
<1> DEFINE p == Append(worker.out, "result")
           n == Len(worker.out)
<1>1. /\ worker.life = "up" /\ worker.driving /\ HostStays
      /\ toHost' = toHost /\ toWorker' = toWorker
      /\ produced' = [produced EXCEPT ![worker.run] = @ + 1]
      /\ worker' = [worker EXCEPT !.driving = FALSE, !.out = p]
  BY SameFields DEF DriverEnds, Drives, Worker
<1>2. /\ p \in Seq({"event", "permission", "applied", "result"})
      /\ n \in Nat /\ Len(p) = n + 1 /\ p[n + 1] = "result"
      /\ \A i \in 1 .. n : p[i] = worker.out[i] /\ i \in 1 .. Len(p)
  <2>1. "result" \in Kind /\ worker.out \in Seq(Kind)
    BY WorkerFields DEF Kind
  <2>2. /\ p \in Seq(Kind) /\ n \in Nat /\ Len(p) = n + 1 /\ p[n + 1] = "result"
        /\ \A i \in 1 .. n : p[i] = worker.out[i] /\ i \in 1 .. Len(p)
    BY <2>1, AppendOf
  <2> QED BY <2>2 DEF Kind
<1> HIDE DEF p
<1>3. /\ worker' \in Worker /\ worker'.life = worker.life /\ worker'.run = worker.run
      /\ worker'.seq = worker.seq /\ worker'.ack = worker.ack /\ worker'.last = worker.last
      /\ worker'.down = worker.down /\ ~ worker'.driving /\ worker'.out = p
  BY <1>1, <1>2, SameFields DEF Worker
<1>4. result' = result /\ Rest
  BY <1>1 DEF HostStays, HostSide, Rest
<1>5. /\ produced[worker.run] = worker.seq + n /\ worker.run \in Runs /\ worker.run # 0
      /\ \A i \in 1 .. n : worker.out[i] # "result"
      /\ ~ worker.last /\ result[worker.run] # "none" /\ worker.seq \in Nat
      /\ produced \in [Runs -> Nat]
  BY <1>1, Driving, WorkerFields, SameFields DEF Driven, Inv
<1>6. /\ produced'[worker.run] = worker.seq + (n + 1) /\ n + 1 \in 1 .. Len(p)
      /\ \A i \in 1 .. Len(p) : (p[i] = "result") <=> (i = n + 1)
  <2>1. \A i \in 1 .. Len(p) : i \in 1 .. n \/ i = n + 1
    BY <1>2
  <2>2. produced'[worker.run] = (worker.seq + n) + 1
    BY <1>1, <1>5
  <2>3. \A i \in 1 .. n : i # n + 1 /\ p[i] # "result"
    BY <1>2, <1>5
  <2>4. \A i \in 1 .. Len(p) : (p[i] = "result") <=> (i = n + 1)
    BY <1>2, <2>1, <2>3
  <2>5. n + 1 \in 1 .. Len(p) /\ (worker.seq + n) + 1 = worker.seq + (n + 1)
    BY <1>2, <1>5
  <2> QED BY <2>2, <2>4, <2>5
<1>7. \E k \in 1 .. Len(p) : /\ produced'[worker.run] = worker.seq + k
                             /\ \A i \in 1 .. Len(p) : (p[i] = "result") <=> (i = k)
  BY <1>6
<1>8. Driven'
  BY <1>3, <1>4, <1>5, <1>7 DEF Driven
<1> QED BY <1>1, <1>3, <1>4, <1>5, <1>8, WorksInv

\* The Worker process ends.
LEMMA DiesInv == ASSUME Inv, WorkerExits \/ WorkerDies PROVE Inv'
<1>1. /\ worker.life \in {"boot", "up"} /\ worker' = Dead(worker)
      /\ HostStays /\ toHost' = toHost /\ toWorker' = toWorker /\ produced' = produced
  BY DEF WorkerExits, WorkerDies
<1>2. /\ worker' \in Worker /\ worker'.life = "dead" /\ worker'.run = 0 /\ worker'.ack = 0
      /\ worker'.out = <<>> /\ ~ worker'.driving
  <2>1. <<>> \in Seq({"event", "permission", "applied", "result"})
    BY NoneOf
  <2> QED BY <1>1, <2>1, SameFields DEF Worker, Dead
<1> QED BY <1>1, <1>2, StopsInv DEF Rest

\* The handshake is sent.
LEMMA BootInv == ASSUME Inv, Boot PROVE Inv'
<1> DEFINE m == Message("ready", 0, 0)
<1>1. /\ host' = host /\ start' = start /\ result' = result /\ spawns' = spawns /\ seen' = seen
      /\ toWorker' = toWorker /\ produced' = produced /\ worker.life = "boot"
      /\ worker' = [worker EXCEPT !.life = "up"] /\ toHost' = Append(toHost, m) /\ HostStays
  BY DEF Boot, HostStays, HostSide
<1>2. HostOwns /\ WorkerOwns /\ Token /\ Early /\ InOrder /\ Between /\ Counted /\ Driven
  BY DEF Inv
<1>3. /\ worker' \in Worker /\ worker'.life = "up" /\ worker'.run = worker.run
      /\ worker'.seq = worker.seq /\ worker'.ack = worker.ack /\ worker'.last = worker.last
      /\ worker'.down = worker.down /\ worker'.driving = worker.driving
      /\ worker'.out = worker.out
  BY <1>1, SameFields DEF Worker
<1>4. m \in Report /\ m.type = "ready"
  BY DEF Message, Report
<1> HIDE DEF m
<1>5. /\ toHost' \in Seq(Report) /\ Len(toHost') = 1 /\ toHost'[1] = m
  <2>1. toHost = <<>> /\ Len(toHost) = 0
    BY <1>1, <1>2, NoneOf DEF WorkerOwns
  <2>2. toHost' \in Seq(Report) /\ Len(toHost') = Len(toHost) + 1
        /\ toHost'[Len(toHost) + 1] = m
    BY <1>1, <1>4, SameFields, AppendOf
  <2> QED BY <2>1, <2>2
<1>6. /\ host.known /\ worker.run = 0 /\ ~ worker.down /\ host.ready # "resolved"
      /\ worker.ack = 0 /\ ~ worker.driving
  BY <1>1, <1>2, Alive DEF WorkerOwns
<1>7. (Live(worker')) <=> (Live(worker))
  BY <1>1, <1>3 DEF Live
<1>8. host.busy = "no" /\ host.seq = 0
  BY <1>2, <1>6 DEF Early
<1>9. TypeOK'
  BY <1>1, <1>3, <1>5 DEF Inv, TypeOK, Report
<1>10. HostOwns'
  BY <1>1, HostOwnsStill
<1>11. WorkerOwns'
  BY <1>1, <1>2, <1>3 DEF WorkerOwns
<1>12. Token' /\ Early'
  <2>1. Live(worker) => Queue(toWorker', worker')
    BY <1>1, <1>2, <1>3 DEF Token, Queue
  <2> QED BY <1>1, <1>2, <1>3, <1>4, <1>5, <1>6, <1>7, <1>8, <2>1 DEF Token, Early
<1>13. InOrder' /\ Between'
  BY <1>1, <1>2, <1>3, <1>4, <1>5, <1>6, <1>7 DEF InOrder, Between
<1>14. Untouched' /\ Complete' /\ Taken' /\ Prepared' /\ Sent' /\ Final'
  BY <1>1, <1>2, <1>3, <1>4, <1>5, <1>7
     DEF Counted, Untouched, Complete, Taken, Prepared, Sent, Final
<1>15. Driven'
  BY <1>1, <1>3, DrivenSame
<1> QED BY <1>9, <1>10, <1>11, <1>12, <1>13, <1>14, <1>15, FromParts

\* A delivery leaves: the token goes to the host.
LEMMA DeliverInv == ASSUME Inv, Deliver PROVE Inv'
<1> DEFINE e == worker.out[1]
           p == Tail(worker.out)
           n == worker.seq + 1
           m == Message(e, worker.run, n)
           l == e = "result"
<1>1. /\ host' = host /\ start' = start /\ result' = result /\ spawns' = spawns /\ seen' = seen
      /\ toWorker' = toWorker /\ produced' = produced /\ HostStays
      /\ worker.life = "up" /\ worker.run # 0 /\ worker.out # <<>> /\ worker.ack = 0
      /\ toHost' = Append(toHost, m)
      /\ worker' = [worker EXCEPT !.seq = n, !.ack = n, !.out = p, !.last = l]
  <2>1. Head(worker.out) = e
    BY WorkerFields, TailOf DEF Deliver
  <2> QED BY <2>1, SameFields DEF Deliver, HostStays, HostSide, Worker
<1>2. HostOwns /\ WorkerOwns /\ Token /\ Early /\ InOrder /\ Between /\ Counted /\ Driven
  BY DEF Inv
<1>3. /\ e \in Kind /\ n \in Nat /\ n # 0 /\ l \in BOOLEAN /\ worker.seq \in Nat
      /\ p \in Seq({"event", "permission", "applied", "result"})
      /\ Len(worker.out) = Len(p) + 1 /\ Len(p) \in Nat
      /\ 1 \in 1 .. Len(worker.out)
      /\ \A i \in 1 .. Len(p) : p[i] = worker.out[i + 1] /\ i + 1 \in 1 .. Len(worker.out)
  <2>1. worker.out \in Seq(Kind) /\ worker.seq \in Nat
    BY WorkerFields
  <2>2. /\ p \in Seq(Kind) /\ Len(worker.out) = Len(p) + 1 /\ e \in Kind
        /\ 1 \in 1 .. Len(worker.out)
        /\ \A i \in 1 .. Len(p) : p[i] = worker.out[i + 1] /\ i + 1 \in 1 .. Len(worker.out)
    BY <1>1, <2>1, TailOf
  <2>3. Len(p) \in Nat
    BY <2>2
  <2> QED BY <2>1, <2>2, <2>3 DEF Kind
<1>4. worker.run \in Runs
  BY <1>1, WorkerFields
<1>5. m \in Report /\ m.type = e /\ m.run = worker.run /\ m.seq = n /\ m.type # "ready"
  BY <1>3, <1>4 DEF Message, Report, Kind
<1> HIDE DEF m, p, n, l
<1>6. /\ worker' \in Worker /\ worker'.life = "up" /\ worker'.run = worker.run
      /\ worker'.seq = n /\ worker'.ack = n /\ worker'.out = p /\ worker'.last = l
      /\ worker'.down = worker.down /\ worker'.driving = worker.driving
  BY <1>1, <1>3, SameFields DEF Worker
<1>7. Live(worker) /\ Live(worker') /\ host.known /\ host.ready = "resolved"
  BY <1>1, <1>2, <1>6, Alive DEF Live, Early
<1>8. /\ toHost = <<>> /\ ~ Has(toWorker, "ack") /\ ~ worker.last /\ ~ Has(toWorker, "run")
      /\ host.busy # "sink"
  <2>1. toHost = <<>> /\ ~ Has(toWorker, "ack") /\ ~ worker.last /\ host.busy # "sink"
    BY <1>1, <1>2, <1>7 DEF Token, Early, Queue, Has, WorkerOwns
  <2>2. ~ Has(toWorker, "run")
    BY <1>1, <1>2, <1>7, <2>1 DEF Token, Queue, Has
  <2> QED BY <2>1, <2>2
<1>9. toHost' \in Seq(Report) /\ Len(toHost') = 1 /\ toHost'[1] = m
  <2>1. toHost' \in Seq(Report) /\ Len(toHost') = Len(toHost) + 1
        /\ toHost'[Len(toHost) + 1] = m
    BY <1>1, <1>5, SameFields, AppendOf
  <2>2. Len(toHost) = 0
    BY <1>8, NoneOf
  <2> QED BY <2>1, <2>2
<1>10. ~ (start.pc = "ready" \/ host.run = 0 \/ (host.busy = "ack" /\ host.last))
  BY <1>1, <1>2, <1>7, <1>8 DEF Between
<1>11. Trusts(host) => host.run = worker.run /\ n = host.seq + 1
  BY <1>1, <1>2, <1>7, <1>8 DEF InOrder, n
<1>12. TypeOK'
  BY <1>1, <1>6, <1>9 DEF Inv, TypeOK, Report
<1>13. HostOwns'
  BY <1>1, HostOwnsStill
<1>14. worker.driving => ~ l
  BY <1>2, <1>3 DEF Driven, l
<1>15. WorkerOwns'
  BY <1>1, <1>2, <1>3, <1>6, <1>14 DEF WorkerOwns
<1>16. Token'
  <2>1. (toHost'[1].type = "result") <=> worker'.last
    BY <1>5, <1>6, <1>9 DEF l
  <2>2. Queue(toWorker', worker')
    BY <1>1, <1>8 DEF Queue, Has
  <2>3. worker'.ack # 0 /\ toHost'[1].run = worker'.run /\ toHost'[1].seq = worker'.ack
    BY <1>3, <1>5, <1>6, <1>9
  <2> QED BY <1>1, <1>8, <1>9, <2>1, <2>2, <2>3 DEF Token
<1>17. Early'
  BY <1>1, <1>5, <1>7, <1>9 DEF Early
<1>18. InOrder'
  BY <1>1, <1>2, <1>5, <1>6, <1>7, <1>8, <1>9, <1>10, <1>11 DEF InOrder, Trusts, Has
<1>19. Between'
  BY <1>1, <1>10 DEF Between
<1>20. Untouched' /\ Complete' /\ Taken' /\ Prepared' /\ Sent'
  BY <1>1, <1>2, <1>7 DEF Counted, Untouched, Complete, Taken, Prepared, Sent
<1>21. ~ worker.driving =>
          \E k \in 1 .. Len(worker.out) :
            /\ produced[worker.run] = worker.seq + k
            /\ \A i \in 1 .. Len(worker.out) : (worker.out[i] = "result") <=> (i = k)
  BY <1>1, <1>2, <1>8 DEF Driven
<1>22. l => produced[worker.run] = n /\ ~ worker.driving
  BY <1>3, <1>14, <1>21 DEF l, n
<1>23. Final'
  BY <1>1, <1>2, <1>4, <1>5, <1>6, <1>9, <1>22, IpcAssumption DEF Counted, Final, Runs, l
<1>24. Driven'
  <2>1. result'[worker'.run] # "none"
    BY <1>1, <1>2, <1>6 DEF Driven
  <2>4. worker.seq \in Nat /\ Len(p) \in Nat /\ Len(worker.out) = Len(p) + 1
    BY <1>3
  <2>2. ASSUME worker.driving
        PROVE  /\ Open(result, worker.run) /\ produced[worker.run] = n + Len(p)
               /\ \A i \in 1 .. Len(p) : p[i] # "result"
    <3>1. /\ Open(result, worker.run) /\ produced[worker.run] = worker.seq + Len(worker.out)
          /\ \A i \in 1 .. Len(worker.out) : worker.out[i] # "result"
      BY <1>2, <2>2 DEF Driven
    <3>2. worker.seq + Len(worker.out) = n + Len(p)
      BY <2>4 DEF n
    <3> QED BY <1>3, <3>1, <3>2
  <2>3. ASSUME ~ worker.driving, ~ l
        PROVE  \E k \in 1 .. Len(p) :
                  /\ produced[worker.run] = n + k
                  /\ \A i \in 1 .. Len(p) : (p[i] = "result") <=> (i = k)
    <3>1. PICK k \in 1 .. Len(worker.out) :
             /\ produced[worker.run] = worker.seq + k
             /\ \A i \in 1 .. Len(worker.out) : (worker.out[i] = "result") <=> (i = k)
      BY <1>21, <2>3
    <3>2. k # 1
      BY <1>3, <2>3, <3>1 DEF l
    <3>3. k - 1 \in 1 .. Len(p) /\ produced[worker.run] = n + (k - 1)
      <4>1. k \in 2 .. Len(p) + 1 /\ produced[worker.run] = worker.seq + k
        BY <2>4, <3>1, <3>2
      <4> QED BY <2>4, <4>1 DEF n
    <3>4. ASSUME NEW i \in 1 .. Len(p)
          PROVE  (p[i] = "result") <=> (i = k - 1)
      <4>1. p[i] = worker.out[i + 1] /\ i + 1 \in 1 .. Len(worker.out)
        BY <1>3
      <4>2. (worker.out[i + 1] = "result") <=> (i + 1 = k)
        BY <3>1, <4>1
      <4>3. (i + 1 = k) <=> (i = k - 1)
        BY <3>1, <1>3
      <4> QED BY <4>1, <4>2, <4>3
    <3> QED BY <3>3, <3>4
  <2> QED BY <1>1, <1>6, <1>22, <2>1, <2>2, <2>3 DEF Driven
<1> QED BY <1>12, <1>13, <1>15, <1>16, <1>17, <1>18, <1>19, <1>20, <1>23, <1>24, FromParts

\* The command the Worker reads, and what is left.
LEMMA ReadFacts ==
    ASSUME Inv, WorkerReads
    PROVE  LET c == toWorker[1] IN
           /\ worker.life = "up" /\ toWorker # <<>> /\ toWorker' = Tail(toWorker) /\ Rest
           /\ c \in Command /\ Head(toWorker) = c /\ 1 \in 1 .. Len(toWorker)
           /\ HostStays /\ toHost' = toHost
           /\ host' = host /\ start' = start /\ result' = result
           /\ spawns' = spawns /\ seen' = seen
           /\ worker' = Handle(worker, c)
<1>1. toWorker \in Seq(Command) /\ toWorker # <<>>
  BY SameFields DEF WorkerReads
<1>2. toWorker[1] \in Command /\ Head(toWorker) = toWorker[1] /\ 1 \in 1 .. Len(toWorker)
  BY <1>1, RestOf
<1> QED BY <1>1, <1>2 DEF WorkerReads, HostStays, HostSide, Rest

\* A read that gives the driver nothing to deliver.
LEMMA SameProduced ==
    ASSUME Inv, WorkerReads, worker'.driving = worker.driving,
           worker.driving => worker'.run = worker.run /\ worker'.out = worker.out
    PROVE  produced' = produced
<1>1. CASE ~ worker.driving
  <2>1. produced' = IF ~ worker'.driving THEN produced
           ELSE [produced EXCEPT ![worker'.run] = @ + Len(worker'.out) - Len(worker.out)]
    BY DEF WorkerReads
  <2> QED BY <1>1, <2>1
<1>2. CASE worker.driving
  <2>1. produced' = IF ~ worker'.driving THEN produced
           ELSE [produced EXCEPT ![worker'.run] = @ + Len(worker'.out) - Len(worker.out)]
    BY DEF WorkerReads
  <2>2. worker.run \in Runs /\ produced \in [Runs -> Nat] /\ Len(worker.out) \in Nat
    BY <1>2, Driving, SameFields, WorkerFields
  <2> DEFINE n == produced[worker.run]
             v == n + Len(worker.out) - Len(worker.out)
  <2>3. n \in Nat
    BY <2>2
  <2>4. produced' = [produced EXCEPT ![worker.run] = v]
    BY <1>2, <2>1, <2>2
  <2>5. v = n
    <3> HIDE DEF n
    <3> QED BY <2>2, <2>3
  <2> HIDE DEF v
  <2> QED BY <2>2, <2>4, <2>5
<1> QED BY <1>1, <1>2

\* A command that changes neither the run nor the delivery that waits.
LEMMA ReadIdleInv ==
    ASSUME Inv, WorkerReads, worker' \in {worker, ShutDown(worker)},
           Live(worker) => toWorker[1].type \notin {"run", "ack"}
    PROVE  Inv'
<1>1. /\ worker' \in Worker /\ worker'.life = worker.life /\ worker'.run = worker.run
      /\ worker'.seq = worker.seq /\ worker'.ack = worker.ack /\ worker'.last = worker.last
      /\ worker'.down = worker.down \/ worker'.down
      /\ worker'.driving = worker.driving /\ worker'.out = worker.out
  BY SameFields DEF Worker, ShutDown
<1>2. produced' = produced
  BY <1>1, SameProduced
<1>3. worker.run = 0 => worker'.out = <<>>
  BY <1>1 DEF Inv, WorkerOwns
<1>4. result' = result /\ HostStays /\ toHost' = toHost /\ worker.life = "up" /\ Rest
  BY ReadFacts
<1>5. Driven'
  BY <1>1, <1>2, <1>4, DrivenSame
<1> QED BY <1>1, <1>2, <1>3, <1>4, <1>5, WorksInv

\* A Worker that gives its run up.
LEMMA FatalFields ==
    ASSUME NEW w \in Worker, w.ack # 0
    PROVE  LET v == Fatal(w) IN
           /\ v \in Worker /\ v.life = w.life /\ v.down
           /\ v.run = 0 /\ v.ack = 0 /\ v.out = <<>> /\ ~ v.driving
<1> DEFINE z == <<>>
           v == [w EXCEPT !.down = TRUE, !.run = 0, !.ack = 0, !.out = z, !.driving = FALSE]
<1>1. Fatal(w) = v
  BY DEF Fatal, ShutDown, Worker
<1>2. z \in Seq({"event", "permission", "applied", "result"})
  BY NoneOf
<1> HIDE DEF z
<1>3. /\ v \in Worker /\ v.life = w.life /\ v.down
      /\ v.run = 0 /\ v.ack = 0 /\ v.out = z /\ ~ v.driving
  BY <1>2 DEF Worker
<1> HIDE DEF v
<1> QED BY <1>1, <1>3 DEF z

\* A command the Worker does not expect.
LEMMA ReadFatalInv ==
    ASSUME Inv, WorkerReads, worker' = Fatal(worker),
           Live(worker) => toWorker[1].type \notin {"run", "ack"}
    PROVE  Inv'
<1>1. CASE worker.ack = 0
  BY <1>1, ReadIdleInv DEF Fatal
<1>2. CASE worker.ack # 0
  <2>1. /\ worker' \in Worker /\ worker'.life = worker.life /\ worker'.down
        /\ worker'.run = 0 /\ worker'.ack = 0 /\ worker'.out = <<>> /\ ~ worker'.driving
    BY <1>2, SameFields, FatalFields
  <2>2. produced' = produced
    BY <2>1 DEF WorkerReads
  <2> QED BY <2>1, <2>2, ReadFacts, StopsInv
<1> QED BY <1>1, <1>2

\* A run that finds the Worker free.
LEMMA TakeRunInv ==
    ASSUME Inv, WorkerReads, toWorker[1].type = "run", worker.run = 0, ~ worker.down
    PROVE  Inv'
<1> DEFINE c == toWorker[1]
           p == <<"event">>
<1>1. /\ host' = host /\ start' = start /\ result' = result /\ spawns' = spawns /\ seen' = seen
      /\ worker.life = "up" /\ toWorker # <<>> /\ toWorker' = Tail(toWorker) /\ Rest
      /\ HostStays /\ toHost' = toHost /\ c \in Command /\ 1 \in 1 .. Len(toWorker)
      /\ worker' = [worker EXCEPT !.run = c.run, !.seq = 0, !.out = p, !.driving = TRUE,
                                  !.perm = "none", !.group = TRUE, !.last = FALSE]
  BY ReadFacts DEF Handle, TakeRun
<1>2. HostOwns /\ WorkerOwns /\ Token /\ Early /\ InOrder /\ Between /\ Counted /\ Driven
  BY DEF Inv
<1>3. /\ p \in Seq({"event", "permission", "applied", "result"}) /\ Len(p) = 1
      /\ \A i \in 1 .. Len(p) : p[i] # "result"
  OBVIOUS
<1>4. c.run \in Runs \cup {0}
  BY <1>1 DEF Command
<1>5. Live(worker) /\ worker.ack = 0 /\ ~ worker.driving /\ worker.out = <<>>
  BY <1>1, <1>2 DEF Live, WorkerOwns
<1>6. Has(toWorker, "run") /\ Queue(toWorker, worker) /\ ~ Has(toWorker, "ack")
  BY <1>1, <1>2, <1>5 DEF Has, Token, Queue
<1>7. Open(result, c.run) /\ produced[c.run] = 0 /\ c.run \in Runs /\ c.run # 0
  <2>1. Open(result, c.run) /\ produced[c.run] = 0
    BY <1>1, <1>2, <1>5 DEF Counted, Sent
  <2> QED BY <2>1, IpcAssumption DEF Open, Runs
<1>8. /\ toHost = <<>> /\ host.busy # "sink" /\ start.pc # "ready" /\ host.run # 0
      /\ ~ (host.busy = "ack" /\ host.last) /\ host.known /\ host.ready = "resolved"
  <2>1. start.pc # "ready" /\ host.run # 0 /\ ~ (host.busy = "ack" /\ host.last)
    BY <1>2, <1>5, <1>6 DEF Between
  <2>2. host.known /\ host.ready = "resolved"
    BY <1>1, <1>2, <1>6, Alive DEF Early
  <2>3. toHost = <<>> /\ host.busy # "sink"
    BY <1>2, <1>5, <2>2 DEF Token, Early
  <2> QED BY <2>1, <2>2, <2>3
<1>9. Trusts(host) => c.run = host.run /\ host.seq = 0
  BY <1>1, <1>2, <1>5 DEF InOrder
<1>10. produced' = [produced EXCEPT ![c.run] = 1]
  <2>1. worker'.driving /\ worker'.run = c.run /\ worker'.out = p
    BY <1>1, SameFields DEF Worker
  <2>2. produced' = [produced EXCEPT ![c.run] = @ + Len(p) - Len(worker.out)]
    BY <2>1 DEF WorkerReads
  <2>3. Len(worker.out) = 0
    BY <1>5, NoneOf
  <2> HIDE DEF c, p
  <2>4. produced[c.run] + Len(p) - Len(worker.out) = 1
    BY <1>3, <1>7, <2>3
  <2>5. [produced EXCEPT ![c.run] = @ + Len(p) - Len(worker.out)]
          = [produced EXCEPT ![c.run] = produced[c.run] + Len(p) - Len(worker.out)]
    BY <1>7, SameFields
  <2> QED BY <2>2, <2>4, <2>5
<1> HIDE DEF c, p
<1>11. /\ worker' \in Worker /\ worker'.life = "up" /\ worker'.run = c.run
       /\ worker'.seq = 0 /\ worker'.ack = 0 /\ worker'.out = p /\ ~ worker'.last
       /\ worker'.down = worker.down /\ worker'.driving
  BY <1>1, <1>3, <1>4, <1>5, SameFields DEF Worker
<1>12. produced' \in [Runs -> Nat]
       /\ \A r \in Runs : produced'[r] = IF r = c.run THEN 1 ELSE produced[r]
  BY <1>7, <1>10, SameFields
<1>13. ~ Has(toWorker', "run") /\ ~ Has(toWorker', "ack")
  <2>1. ~ Has(toWorker', "ack")
    BY <1>1, <1>6, RestFacts
  <2>2. ASSUME NEW i \in 1 .. Len(toWorker'), toWorker'[i].type = "run"
        PROVE  FALSE
    <3>1. toWorker'[i] = toWorker[i + 1] /\ i + 1 \in 1 .. Len(toWorker)
      BY <1>1, SameFields, RestOf
    <3>2. i + 1 = 1
      BY <1>1, <1>6, <2>2, <3>1 DEF Queue
    <3> QED BY <3>2
  <2> QED BY <2>1, <2>2 DEF Has
<1>14. TypeOK'
  BY <1>1, <1>11, <1>12, RestFacts DEF Inv, TypeOK, Command
<1>15. HostOwns'
  BY <1>1, HostOwnsStill
<1>16. WorkerOwns'
  BY <1>1, <1>7, <1>11, RestFacts DEF WorkerOwns
<1>17. Token' /\ Early'
  BY <1>1, <1>2, <1>8, <1>11, <1>13 DEF Token, Early, Queue, Has
<1>18. InOrder'
  BY <1>1, <1>2, <1>8, <1>9, <1>11, <1>13 DEF InOrder, Trusts, Has
<1>19. Between'
  BY <1>1, <1>8 DEF Between
<1>20. Untouched' /\ Complete' /\ Taken'
  BY <1>1, <1>2, <1>7, <1>12 DEF Counted, Untouched, Complete, Taken, Open
<1>21. Prepared' /\ Sent' /\ Final'
  BY <1>1, <1>8, <1>13 DEF Prepared, Sent, Final, Has
<1>22. Driven'
  <2>1. result'[c.run] # "none" /\ Open(result', c.run)
    BY <1>1, <1>7 DEF Open
  <2>2. produced'[c.run] = 0 + Len(p)
    BY <1>3, <1>7, <1>12
  <2> QED BY <1>3, <1>11, <2>1, <2>2 DEF Driven
<1> QED BY <1>14, <1>15, <1>16, <1>17, <1>18, <1>19, <1>20, <1>21, <1>22, FromParts

\* The record of a Worker whose delivery was acknowledged.
Freed(w, r, z) == [w EXCEPT !.ack = 0, !.run = r, !.out = z]

\* Nothing else changes.
LEMMA FreedFields ==
    ASSUME NEW w \in Worker, NEW r \in Runs \cup {0},
           NEW z \in Seq({"event", "permission", "applied", "result"})
    PROVE  LET v == Freed(w, r, z) IN
           /\ v \in Worker /\ v.life = w.life /\ v.run = r /\ v.seq = w.seq
           /\ v.ack = 0 /\ v.out = z /\ v.last = w.last
           /\ v.down = w.down /\ v.driving = w.driving
BY DEF Freed, Worker

\* The acknowledgement the Worker waits for, of a living run.
LEMMA TakeAckInv ==
    ASSUME Inv, WorkerReads, toWorker[1].type = "ack", Live(worker)
    PROVE  Inv'
<1> DEFINE c == toWorker[1]
<1>1. /\ host' = host /\ start' = start /\ result' = result /\ spawns' = spawns /\ seen' = seen
      /\ worker.life = "up" /\ toWorker # <<>> /\ toWorker' = Tail(toWorker) /\ Rest
      /\ HostStays /\ toHost' = toHost /\ c \in Command /\ 1 \in 1 .. Len(toWorker)
      /\ worker' = TakeAck(worker, c)
  BY ReadFacts DEF Handle
<1>2. HostOwns /\ WorkerOwns /\ Token /\ Early /\ InOrder /\ Between /\ Counted /\ Driven
  BY DEF Inv
<1>3. Queue(toWorker, worker) /\ Has(toWorker, "ack")
  BY <1>1, <1>2 DEF Token, Has
<1>4. worker.ack # 0 /\ c.run = worker.run /\ c.seq = worker.ack /\ worker.run # 0
  BY <1>1, <1>2, <1>3 DEF Queue, WorkerOwns
<1> DEFINE z == IF worker.last THEN <<>> ELSE worker.out
           r == IF worker.last THEN 0 ELSE worker.run
<1>5. worker' = [worker EXCEPT !.ack = 0, !.run = r, !.out = z]
  BY <1>1, <1>4, SameFields DEF TakeAck, Worker
<1>6. /\ z \in Seq({"event", "permission", "applied", "result"}) /\ r \in Runs \cup {0}
      /\ worker.last => z = <<>> /\ r = 0
      /\ ~ worker.last => z = worker.out /\ r = worker.run
  BY WorkerFields, NoneOf DEF Kind
<1> HIDE DEF c, z, r
<1>7. /\ worker' \in Worker /\ worker'.life = "up" /\ worker'.run = r /\ worker'.seq = worker.seq
      /\ worker'.ack = 0 /\ worker'.out = z /\ worker'.last = worker.last
      /\ worker'.down = worker.down /\ worker'.driving = worker.driving
  <2>1. worker' = Freed(worker, r, z) /\ worker \in Worker
    BY <1>5, SameFields DEF Freed
  <2> DEFINE v == Freed(worker, r, z)
  <2>2. /\ v \in Worker /\ v.life = worker.life /\ v.run = r /\ v.seq = worker.seq
        /\ v.ack = 0 /\ v.out = z /\ v.last = worker.last
        /\ v.down = worker.down /\ v.driving = worker.driving
    BY <1>6, <2>1, FreedFields
  <2>3. worker' = v /\ worker.life = "up"
    BY <1>1, <2>1
  <2> HIDE DEF v
  <2> QED BY <2>2, <2>3
<1>8. /\ toHost = <<>> /\ host.busy # "sink" /\ host.known /\ host.ready = "resolved"
  <2>1. host.known /\ host.ready = "resolved"
    BY <1>1, <1>2, <1>4, Alive DEF Early
  <2> QED BY <1>2, <1>3, <2>1 DEF Token, Early
<1>9. worker.last => ~ worker.driving
  BY <1>2, <1>4 DEF WorkerOwns
<1>10. ~ Has(toWorker', "ack")
  <2>1. ASSUME NEW i \in 1 .. Len(toWorker'), toWorker'[i].type = "ack"
        PROVE  FALSE
    <3>1. toWorker'[i] = toWorker[i + 1] /\ i + 1 \in 1 .. Len(toWorker)
      BY <1>1, SameFields, RestOf
    <3>2. toWorker[i + 1].type = "ack"
      BY <2>1, <3>1
    <3>3. i + 1 = 1
      BY <1>1, <1>3, <3>1, <3>2 DEF Queue
    <3> QED BY <3>3
  <2> QED BY <2>1 DEF Has
<1>11. ~ worker.last => ~ Has(toWorker, "run") /\ ~ Has(toWorker', "run")
  <2>1. ~ worker.last => ~ Has(toWorker, "run")
    BY <1>3, <1>4 DEF Queue, Has
  <2> QED BY <1>1, <2>1, RestFacts
<1>12. produced' = produced
  <2>1. worker.driving => worker'.run = worker.run /\ worker'.out = worker.out
    BY <1>6, <1>7, <1>9
  <2> QED BY <1>7, <2>1, SameProduced
<1>13. Queue(toWorker', worker')
  <2>1. ASSUME NEW i \in 1 .. Len(toWorker'), NEW j \in 1 .. Len(toWorker'),
               toWorker'[i].type = "run", toWorker'[j].type = "run"
        PROVE  i = j
    <3>1. /\ toWorker'[i] = toWorker[i + 1] /\ i + 1 \in 1 .. Len(toWorker)
          /\ toWorker'[j] = toWorker[j + 1] /\ j + 1 \in 1 .. Len(toWorker)
      BY <1>1, SameFields, RestOf
    <3>2. toWorker[i + 1].type = "run" /\ toWorker[j + 1].type = "run"
      BY <2>1, <3>1
    <3>3. i + 1 = j + 1
      BY <1>3, <3>1, <3>2 DEF Queue
    <3>4. i \in Nat /\ j \in Nat
      BY <1>1, SameFields, RestOf
    <3> QED BY <3>3, <3>4
  <2>2. \A i \in 1 .. Len(toWorker') : toWorker'[i].type = "run" => worker'.run = 0
    BY <1>6, <1>7, <1>11 DEF Has
  <2> QED BY <1>10, <2>1, <2>2 DEF Queue, Has
<1>14. TypeOK'
  BY <1>1, <1>7, <1>12, RestFacts DEF Inv, TypeOK, Command
<1>15. HostOwns'
  BY <1>1, HostOwnsStill
<1>16. WorkerOwns'
  <2>1. worker'.run = 0 => worker'.out = <<>> /\ ~ worker'.driving
    BY <1>4, <1>6, <1>7, <1>9
  <2>2. worker'.run # 0 => ~ worker'.last
    BY <1>6, <1>7
  <2> QED BY <1>1, <1>7, <2>1, <2>2, RestFacts DEF WorkerOwns
<1>17. Token'
  BY <1>1, <1>8, <1>13, NoneOf DEF Token
<1>18. Early'
  BY <1>1, <1>8 DEF Early
<1>19. InOrder'
  <2>1. \A i \in 1 .. Len(toWorker') :
           \E j \in 1 .. Len(toWorker) : toWorker'[i] = toWorker[j]
    BY <1>1, RestFacts
  <2>2. worker'.run # 0 => ~ worker.last /\ worker'.run = worker.run
    BY <1>6, <1>7
  <2> QED BY <1>1, <1>2, <1>7, <1>8, <2>1, <2>2 DEF InOrder
<1>20. Between'
  BY <1>1, <1>2, <1>4, <1>6, <1>7, RestFacts DEF Between
<1>21. Untouched' /\ Complete' /\ Taken' /\ Prepared'
  BY <1>1, <1>2, <1>12 DEF Counted, Untouched, Complete, Taken, Prepared
<1>22. Sent'
  <2>1. \A i \in 1 .. Len(toWorker') :
           \E j \in 1 .. Len(toWorker) : toWorker'[i] = toWorker[j]
    BY <1>1, RestFacts
  <2> QED BY <1>1, <1>2, <1>12, <2>1 DEF Counted, Sent
<1>23. Final'
  BY <1>1, <1>2, <1>6, <1>7, <1>8, <1>9, <1>12 DEF Counted, Final
<1>24. Driven'
  <2>1. CASE worker.last
    BY <1>6, <1>7, <1>9, <2>1 DEF Driven
  <2>2. CASE ~ worker.last
    <3>1. worker'.run = worker.run /\ worker'.out = worker.out
      BY <1>6, <1>7, <2>2
    <3> QED BY <1>1, <1>7, <1>12, <3>1, DrivenSame
  <2> QED BY <2>1, <2>2
<1> QED BY <1>14, <1>15, <1>16, <1>17, <1>18, <1>19, <1>20, <1>21, <1>22, <1>23, <1>24,
           FromParts

\* The answer of a permission that is still open: it is applied, and reported.
LEMMA TakePermissionInv ==
    ASSUME Inv, WorkerReads, toWorker[1].type = "permission",
           worker.run = toWorker[1].run, worker.perm = "open"
    PROVE  Inv'
<1> DEFINE p == Append(worker.out, "applied")
           n == Len(worker.out)
<1>1. /\ result' = result /\ worker.life = "up" /\ Rest /\ HostStays /\ toHost' = toHost
      /\ worker' = TakePermission(worker, toWorker[1]) /\ 1 \in 1 .. Len(toWorker)
  BY ReadFacts DEF Handle
<1>2. worker' = [worker EXCEPT !.perm = "answered", !.out = p]
  BY <1>1, SameFields DEF TakePermission, Worker
<1>3. worker.run # 0
  BY <1>1 DEF Inv, WorkerOwns
<1>4. /\ p \in Seq({"event", "permission", "applied", "result"})
      /\ n \in Nat /\ Len(p) = n + 1
  <2>1. "applied" \in Kind /\ worker.out \in Seq(Kind) /\ n \in Nat
    BY WorkerFields DEF Kind
  <2>2. p \in Seq(Kind) /\ Len(p) = n + 1
    BY <2>1, AppendOf
  <2> QED BY <2>1, <2>2 DEF Kind
<1> HIDE DEF p, n
<1>5. /\ worker' \in Worker /\ worker'.life = worker.life /\ worker'.run = worker.run
      /\ worker'.seq = worker.seq /\ worker'.ack = worker.ack /\ worker'.last = worker.last
      /\ worker'.down = worker.down /\ worker'.driving = worker.driving /\ worker'.out = p
  BY <1>2, <1>4, SameFields DEF Worker
<1>6. produced' = IF worker.driving THEN [produced EXCEPT ![worker.run] = @ + 1] ELSE produced
  <2>1. CASE ~ worker.driving
    BY <1>5, <2>1 DEF WorkerReads
  <2>2. CASE worker.driving
    <3> DEFINE m == produced[worker.run]
    <3>1. m \in Nat /\ worker.run \in Runs /\ produced \in [Runs -> Nat]
      BY <2>2, Driving, SameFields
    <3>2. produced' = [produced EXCEPT ![worker'.run] = @ + Len(worker'.out) - Len(worker.out)]
      BY <1>5, <2>2 DEF WorkerReads
    <3>3. produced' = [produced EXCEPT ![worker.run] = m + Len(p) - n]
      BY <1>5, <3>1, <3>2 DEF n
    <3> HIDE DEF m
    <3>4. m + Len(p) - n = m + 1
      BY <1>4, <3>1
    <3>5. produced' = [produced EXCEPT ![worker.run] = m + 1]
      BY <3>3, <3>4
    <3> QED BY <2>2, <3>1, <3>5 DEF m
  <2> QED BY <2>1, <2>2
<1>7. Driven'
  BY <1>1, <1>3, <1>5, <1>6, GrowsDriven DEF p
<1>8. toWorker[1].type \notin {"run", "ack"}
  OBVIOUS
<1> QED BY <1>1, <1>3, <1>5, <1>6, <1>7, <1>8, WorksInv

\* Every read of the Worker.
LEMMA WorkerReadsInv == ASSUME Inv, WorkerReads PROVE Inv'
<1> DEFINE c == toWorker[1]
<1>1. /\ c \in Command /\ worker' = Handle(worker, c) /\ worker.life = "up" /\ toHost' = toHost
      /\ HostStays /\ Rest /\ 1 \in 1 .. Len(toWorker)
  BY ReadFacts
<1>2. /\ Live(worker) => Queue(toWorker, worker)
      /\ worker.run = 0 => worker.ack = 0 /\ worker.out = <<>> /\ ~ worker.driving
  BY DEF Inv, Token, WorkerOwns
<1>3. CASE c.type = "shutdown"
  BY <1>1, <1>3, ReadIdleInv DEF Handle
<1>4. CASE c.type = "run"
  <2>1. CASE worker.run = 0 /\ ~ worker.down
    BY <1>4, <2>1, TakeRunInv
  <2>2. CASE worker.run # 0 \/ worker.down
    <3>1. worker' = Fatal(worker)
      BY <1>1, <1>4, <2>2 DEF Handle, TakeRun
    <3>2. ~ Live(worker)
      <4>1. ASSUME Live(worker) PROVE FALSE
        <5>1. worker.run # 0 /\ Queue(toWorker, worker)
          BY <1>2, <2>2, <4>1 DEF Live
        <5>2. PICK j \in 1 .. Len(toWorker) : j < 1 /\ toWorker[j].type = "ack"
          BY <1>1, <1>4, <5>1 DEF Queue
        <5> QED BY <5>2
      <4> QED BY <4>1
    <3> QED BY <3>1, <3>2, ReadFatalInv
  <2> QED BY <2>1, <2>2
<1>5. CASE c.type = "ack"
  <2>1. CASE Live(worker)
    BY <1>5, <2>1, TakeAckInv
  <2>2. CASE ~ Live(worker)
    <3>1. worker.run = 0 /\ worker.down /\ worker.ack = 0
      BY <1>1, <1>2, <2>2 DEF Live
    <3>2. worker' = TakeAck(worker, c)
      BY <1>1, <1>5 DEF Handle
    <3>3. CASE worker' = Fatal(worker)
      BY <2>2, <3>3, ReadFatalInv
    <3>4. CASE worker' # Fatal(worker)
      <4>1. \/ worker' = [worker EXCEPT !.ack = 0]
            \/ worker' = [worker EXCEPT !.ack = 0, !.run = 0, !.out = <<>>]
        BY <3>2, <3>4 DEF TakeAck
      <4>2. <<>> \in Seq({"event", "permission", "applied", "result"})
        BY NoneOf
      <4>3. /\ worker' \in Worker /\ worker'.life = "up" /\ worker'.down /\ worker'.run = 0
            /\ worker'.ack = 0 /\ worker'.out = <<>> /\ ~ worker'.driving
        <5> DEFINE z == worker.out
                   r == worker.run
                   v == Freed(worker, r, z)
        <5>1. worker.out = <<>> /\ ~ worker.driving /\ worker \in Worker
          BY <1>2, <3>1, SameFields
        <5>2. worker' = v
          BY <3>1, <4>1, <5>1 DEF Freed, Worker
        <5>3. z \in Seq({"event", "permission", "applied", "result"}) /\ r \in Runs \cup {0}
          BY <5>1 DEF Worker
        <5>4. worker \in Worker /\ worker.life = "up" /\ worker.down /\ ~ worker.driving
          BY <1>1, <3>1, <5>1
        <5>5. r = 0 /\ z = <<>>
          BY <3>1, <5>1
        <5> HIDE DEF r, z
        <5>6. /\ v \in Worker /\ v.life = "up" /\ v.down /\ v.run = r /\ v.ack = 0
              /\ v.out = z /\ ~ v.driving
          BY <5>3, <5>4 DEF Freed, Worker
        <5> HIDE DEF v
        <5> QED BY <5>2, <5>5, <5>6
      <4>4. produced' = produced
        BY <4>3 DEF WorkerReads
      <4> QED BY <1>1, <4>3, <4>4, StopsInv
    <3> QED BY <3>3, <3>4
  <2> QED BY <2>1, <2>2
<1>6. CASE c.type = "cancel"
  <2>1. worker' \in {worker, Fatal(worker)}
    BY <1>1, <1>6 DEF Handle, TakeCancel
  <2> QED BY <1>6, <2>1, ReadIdleInv, ReadFatalInv
<1>7. CASE c.type = "permission"
  <2>1. CASE worker.run = c.run /\ worker.perm = "open"
    BY <1>7, <2>1, TakePermissionInv
  <2>2. CASE ~ (worker.run = c.run /\ worker.perm = "open")
    <3>1. worker' = Fatal(worker)
      BY <1>1, <1>7, <2>2 DEF Handle, TakePermission
    <3> QED BY <1>7, <3>1, ReadFatalInv
  <2> QED BY <2>1, <2>2
<1> QED BY <1>1, <1>3, <1>4, <1>5, <1>6, <1>7 DEF Command

----------------------------------------------------------------------------
(* The invariant holds *)

\* At first there is no Worker and nothing was said.
LEMMA InitInv == Init => Inv
<1> SUFFICES ASSUME Init PROVE Inv
  OBVIOUS
<1> DEFINE h == Fresh(0)
           z == <<>>
<1>1. /\ host \in Host /\ ~ host.known /\ host.exited /\ ~ host.connected /\ ~ host.timer
      /\ host.run = 0 /\ host.busy = "no" /\ host.closing = "no" /\ ~ host.failed
  <2>1. h \in Host /\ h.run = 0 /\ h.busy = "no" /\ h.closing = "no" /\ ~ h.failed /\ ~ h.timer
    BY DEF Fresh, Host
  <2>2. host = [h EXCEPT !.known = FALSE, !.connected = FALSE, !.exited = TRUE]
    BY DEF Init, NoWorker
  <2> HIDE DEF h
  <2> QED BY <2>1, <2>2 DEF Host
<1>2. /\ worker \in Worker /\ worker.life = "none" /\ worker.run = 0 /\ worker.ack = 0
      /\ worker.out = <<>> /\ ~ worker.driving /\ worker.stray = {} /\ ~ worker.group
  <2>1. z \in Seq({"event", "permission", "applied", "result"})
    BY NoneOf
  <2> DEFINE w == [life |-> "boot", run |-> 0, seq |-> 0, ack |-> 0, last |-> FALSE, out |-> z,
                   driving |-> FALSE, perm |-> "none", down |-> FALSE, group |-> FALSE,
                   stray |-> {}]
  <2>2. worker = [w EXCEPT !.life = "none"]
    BY DEF Init, Forked
  <2> HIDE DEF z
  <2>3. w \in Worker /\ w.run = 0 /\ w.ack = 0 /\ w.out = z /\ ~ w.driving /\ w.stray = {}
        /\ ~ w.group
    BY <2>1 DEF Worker
  <2> HIDE DEF w
  <2>4. /\ worker \in Worker /\ worker.life = "none" /\ worker.run = 0 /\ worker.ack = 0
        /\ worker.out = z /\ ~ worker.driving /\ worker.stray = {} /\ ~ worker.group
    BY <2>2, <2>3 DEF Worker
  <2> QED BY <2>4 DEF z
<1>3. /\ toHost = <<>> /\ toWorker = <<>> /\ Len(toHost) = 0 /\ Len(toWorker) = 0
      /\ toHost \in Seq(Report) /\ toWorker \in Seq(Command)
      /\ spawns = 0 /\ start.pc = "none"
      /\ start \in [run : Runs \cup {0}, pc : {"none", "ready", "sending", "lost", "closing"}]
      /\ result \in [Runs -> {"none", "pending", "resolved", "rejected"}]
      /\ produced \in [Runs -> Nat] /\ seen \in [Runs -> Nat]
      /\ \A r \in Runs : result[r] = "none" /\ produced[r] = 0 /\ seen[r] = 0
  BY NoneOf DEF Init
<1>4. TypeOK
  BY <1>1, <1>2, <1>3, IpcAssumption DEF TypeOK, Command, Report
<1>5. HostOwns /\ WorkerOwns
  BY <1>1, <1>2, <1>3 DEF HostOwns, WorkerOwns, Cleanup
<1>6. ~ Live(worker)
  BY <1>2 DEF Live
<1>7. Token /\ Early /\ InOrder /\ Between
  BY <1>1, <1>3, <1>6 DEF Token, Early, InOrder, Between, Trusts
<1>8. Counted
  BY <1>1, <1>3, <1>6 DEF Counted, Untouched, Complete, Taken, Prepared, Sent, Final
<1>9. Driven
  BY <1>2 DEF Driven
<1> QED BY <1>4, <1>5, <1>7, <1>8, <1>9 DEF Inv

\* Every step keeps it.
LEMMA NextInv == Inv /\ [Next]_vars => Inv'
<1> SUFFICES ASSUME Inv, [Next]_vars PROVE Inv'
  OBVIOUS
<1>1. CASE Starting
  <2>1. CASE StartReady
    BY <2>1, StartReadyInv, StartReadyQuiet, QuietInv
  <2>2. CASE StartSent \/ StartThrows
    BY <2>2, StartQuiet, QuietInv
  <2>3. ASSUME NEW r \in Runs, StartRefused(r) \/ StartIdle(r) \/ StartForks(r) PROVE Inv'
    BY <2>3, StartQuiet, QuietInv, StartIdleInv, StartForksInv
  <2> QED BY <1>1, <2>1, <2>2, <2>3 DEF Starting
<1>2. CASE Client
  BY <1>2, ClientQuiet, CloseQuiet, QuietInv DEF Client
<1>3. CASE HostLoop
  <2>1. CASE SinkReturns
    BY <2>1, SinkReturnsInv, SinkQuiet, QuietInv
  <2>2. CASE AckSent
    <3>1. CASE Fail([host EXCEPT !.busy = "no"])
      BY <2>2, <3>1, AckQuiet, QuietInv
    <3>2. CASE /\ host' = [host EXCEPT !.busy = "no", !.run = IF host.last THEN 0 ELSE @]
               /\ result' = IF host.last THEN Settle(result, host.run, "resolved") ELSE result
      <4>1. CASE host.last
        <5>1. host' = [host EXCEPT !.busy = "no", !.run = 0]
          BY <3>2, <4>1
        <5>2. result' = Settle(result, host.run, "resolved")
          BY <3>2, <4>1
        <5> QED BY <2>2, <4>1, <5>1, <5>2, AckLastInv
      <4>2. CASE ~ host.last
        <5>1. host' = [host EXCEPT !.busy = "no"]
          BY <3>2, <4>2, SameFields DEF Host
        <5>2. result' = result
          BY <3>2, <4>2
        <5> QED BY <2>2, <4>2, <5>1, <5>2, AckQuiet, QuietInv
      <4> QED BY <4>1, <4>2
    <3> QED BY <2>2, <3>1, <3>2 DEF AckSent
  <2> QED BY <1>3, <2>1, <2>2, HostReadsInv, SinkQuiet, QuietInv DEF HostLoop
<1>4. CASE Events
  BY <1>4, ExitSeenInv, DisconnectedQuiet, QuietInv DEF Events
<1>5. CASE Timers
  BY <1>5, TimersQuiet, QuietInv DEF Timers
<1>6. CASE Terminate
  <2>1. CASE Sweep
    <3>1. CASE /\ worker' = [worker EXCEPT !.stray = Unfound(@)]
               /\ Ended("confirmed") /\ toHost' = <<>> /\ toWorker' = <<>>
      BY <2>1, <3>1, SweepInv DEF Ended
    <3>2. CASE /\ worker' = [worker EXCEPT !.stray = Unfound(@)]
               /\ Ended("failed") /\ UNCHANGED <<toHost, toWorker>>
      BY <2>1, <3>2, SweepQuiet, QuietInv
    <3>3. CASE \E outcome \in {"failed", "unconfirmed"} :
                 Ended(outcome) /\ UNCHANGED <<worker, toHost, toWorker>>
      BY <2>1, <3>3, SweepQuiet, QuietInv
    <3> QED BY <2>1, <3>1, <3>2, <3>3 DEF Sweep
  <2> QED BY <1>6, <2>1, SnapshotQuiet, SignalQuiet, QuietInv DEF Terminate
<1>7. CASE Process
  BY <1>7, BootInv, WorkerReadsInv, DeliverInv, DiesInv DEF Process
<1>8. CASE Driver
  BY <1>8, DriverGrowsInv, QuietWorkInv, DriverEndsInv DEF Driver
<1>9. CASE WorkerDies
  BY <1>9, DiesInv
<1>10. CASE Descendants
  BY <1>10, QuietWorkInv, StrayQuiet, QuietInv DEF Descendants
<1>11. CASE UNCHANGED vars
  <2>1. Quiet
    BY <1>11, SameFields DEF vars, Quiet, SameWorker, Stage, Given, Told, Said
  <2> QED BY <2>1, QuietInv
<1> QED BY <1>1, <1>2, <1>3, <1>4, <1>5, <1>6, <1>7, <1>8, <1>9, <1>10, <1>11 DEF Next

\* Host and Worker keep the token, the counts and the ownership of results, for any number of
\* runs, events, Workers, failures and interleavings of the two processes.
THEOREM Invariance == Spec => []Inv
BY InitInv, NextInv, PTL DEF Spec

----------------------------------------------------------------------------
(* The promise to the Runtime *)

\* The state of the Worker as the Runtime may know it.
Phase(h) == IF ~ h.known THEN "none"
            ELSE IF h.closing = "no" THEN "live"
            ELSE IF h.closing \in Cleanup THEN "quarantined"
            ELSE "closing"

Waits == {r \in Runs : result[r] = "pending"}

\* The steps of the abstract host, and the one that changes nothing there.
Moves ==
    \/ Phase(host') = Phase(host) /\ result' = result
    \/ /\ Rejected
       /\ Phase(host') = Phase(host) \/ (Phase(host) = "live" /\ Phase(host') = "closing")
    \/ Phase(host) = "live" /\ Phase(host') = "closing" /\ result' = result
    \/ Phase(host) = "closing" /\ Phase(host') \in {"none", "quarantined"} /\ Rejected
    \/ \E r \in Runs : result[r] = "pending" /\ result' = [result EXCEPT ![r] = "resolved"]
                       /\ Phase(host') = Phase(host)
    \/ \E r \in Runs :
          /\ result[r] = "none" /\ Waits = {}
          /\ \/ /\ Phase(host) \in {"none", "live"} /\ Phase(host') = "live"
                /\ result' = [result EXCEPT ![r] = "pending"]
             \/ /\ result' = [result EXCEPT ![r] = "rejected"]
                /\ \/ Phase(host') = Phase(host)
                   \/ Phase(host) = "none" /\ Phase(host') = "closing"

\* A run starts when nobody waits for another.
LEMMA NobodyWaits == ASSUME Inv, NEW r \in Runs, MayStart(r) PROVE Waits = {} /\ result[r] = "none"
<1>1. /\ result[r] = "none"
      /\ \A q \in 1 .. r - 1 : result[q] \in {"resolved", "rejected"}
  BY DEF MayStart
<1>2. \A s \in Runs : r <= s => result[s] = "none"
  BY <1>1 DEF Inv, HostOwns
<1>3. ASSUME NEW s \in Runs, result[s] = "pending" PROVE FALSE
  <2>1. ~ r <= s
    BY <1>2, <1>3
  <2>2. s \in 1 .. r - 1
    BY <2>1, IpcAssumption DEF Runs
  <2> QED BY <1>1, <1>3, <2>2
<1> QED BY <1>1, <1>3 DEF Waits

\* The host refuses a run, or takes it.
LEMMA StartMoves ==
    ASSUME Inv, NEW r \in Runs, StartRefused(r) \/ StartIdle(r) \/ StartForks(r) PROVE Moves
<1>1. Waits = {} /\ result[r] = "none"
  BY NobodyWaits DEF StartRefused, StartIdle, StartForks
<1>2. CASE StartRefused(r)
  BY <1>1, <1>2 DEF StartRefused, Moves
<1>3. CASE StartIdle(r)
  <2>1. /\ host.known /\ host.closing = "no" /\ host'.known /\ host'.closing = "no"
        /\ result' = [result EXCEPT ![r] = "pending"]
    BY <1>3, SameFields DEF StartIdle, Host
  <2> QED BY <1>1, <2>1 DEF Moves, Phase
<1>4. CASE StartForks(r)
  <2>1. CASE host' = Fresh(r) /\ result' = [result EXCEPT ![r] = "pending"]
    <3>1. host'.known /\ host'.closing = "no" /\ ~ host.known
      BY <1>4, <2>1, FreshFields DEF StartForks
    <3> QED BY <1>1, <2>1, <3>1 DEF Moves, Phase
  <2>2. CASE host' = FailWorker(Fresh(0)) /\ result' = [result EXCEPT ![r] = "rejected"]
    <3> DEFINE h == Fresh(0)
    <3>1. /\ h \in Host /\ h.known /\ ~ h.failed /\ h.closing = "no"
      BY FreshFields
    <3> HIDE DEF h
    <3>2. host' = FailWorker(h)
      BY <2>2 DEF h
    <3>3. host'.known /\ host'.closing = "snapshot" /\ ~ host.known
      BY <1>4, <3>1, <3>2, FailFields DEF StartForks, Steady
    <3> QED BY <1>1, <2>2, <3>3 DEF Moves, Phase, Cleanup
  <2> QED BY <1>4, <2>1, <2>2 DEF StartForks
<1> QED BY <1>2, <1>3, <1>4

\* fail() rejects what waits and closes a Worker that is not being closed.
LEMMA FailMoves ==
    ASSUME Inv, NEW h \in Host, h.failed = host.failed, h.closing = host.closing,
           h.known = host.known, h.run = host.run, Fail(h)
    PROVE  Moves
<1>1. host' = FailWorker(h) /\ Steady(h, host')
      /\ host'.closing = IF ~ h.failed /\ h.known /\ h.closing = "no"
                         THEN "snapshot" ELSE h.closing
  BY FailFields DEF Fail
<1>2. Rejected
  <2>1. CASE host.failed
    <3>1. result' = result
      BY <2>1 DEF Fail, FailResult
    <3>2. \A r \in Runs : result[r] # "pending"
      BY <2>1 DEF Inv, HostOwns
    <3> QED BY <3>1, <3>2, SameFields DEF Rejected
  <2>2. CASE ~ host.failed
    <3>1. result' = Settle(result, host.run, "rejected")
      BY <2>2 DEF Fail, FailResult
    <3> QED BY <3>1, SettleRejects
  <2> QED BY <2>1, <2>2
<1>3. host'.known = host.known
  BY <1>1 DEF Steady
<1>4. Phase(host') = Phase(host) \/ (Phase(host) = "live" /\ Phase(host') = "closing")
  BY <1>1, <1>3 DEF Phase, Cleanup
<1> QED BY <1>2, <1>4 DEF Moves

\* The same after the end of a message.
LEMMA FailBusyMoves == ASSUME Inv, Fail([host EXCEPT !.busy = "no"]) PROVE Moves
<1> DEFINE h == [host EXCEPT !.busy = "no"]
<1>1. /\ h \in Host /\ h.failed = host.failed /\ h.closing = host.closing
      /\ h.known = host.known /\ h.run = host.run
  BY BusyFields
<1>2. Fail(h)
  OBVIOUS
<1> HIDE DEF h
<1> QED BY <1>1, <1>2, FailMoves

\* A step that settles nothing and closes nothing.
LEMMA StillMoves ==
    ASSUME host'.known = host.known, host'.closing = host.closing, result' = result
    PROVE  Moves
BY DEF Moves, Phase

\* The rest of start().
LEMMA StartingMoves == ASSUME Inv, StartReady \/ StartSent \/ StartThrows PROVE Moves
<1>1. CASE StartCatch
  BY <1>1, SameFields, FailMoves DEF StartCatch
<1>2. CASE host' = [host EXCEPT !.timer = InitTimer] /\ result' = result
  BY <1>2, SameFields, StillMoves DEF Host
<1>3. CASE host' = host /\ result' = result
  BY <1>3, StillMoves
<1> QED BY <1>1, <1>2, <1>3 DEF StartReady, StartSent, StartThrows

\* The handle, and closeSession.
LEMMA ClientMoves == ASSUME Inv, Client PROVE Moves
<1>1. CASE Cancel
  BY <1>1, SameFields, StillMoves DEF Cancel, Host
<1>2. CASE RespondPermission
  BY <1>2, SameFields, StillMoves DEF RespondPermission, Host
<1>3. CASE Close
  <2>1. host'.known = host.known /\ host'.closing = "snapshot" /\ result' = result
        /\ host.known /\ host.closing = "no"
    BY <1>3, SameFields, CloseFields DEF Close, Steady
  <2> QED BY <2>1 DEF Moves, Phase, Cleanup
<1> QED BY <1>1, <1>2, <1>3 DEF Client

\* A message of the Worker settles nothing, unless it fails the Worker.
LEMMA ReadMoves == ASSUME Inv, HostReads PROVE Moves
<1>1. Head(toHost) = toHost[1] /\ toHost[1] \in Report
  BY Elements DEF HostReads
<1>2. Fail(host) => Moves
  BY SameFields, FailMoves
<1>3. CASE toHost[1].type = "ready"
  <2>1. \/ Fail(host)
        \/ /\ result' = result
           /\ host' = [host EXCEPT !.ready = IF @ = "pending" THEN "resolved" ELSE @]
    BY <1>1, <1>3 DEF HostReads
  <2>2. CASE /\ result' = result
             /\ host' = [host EXCEPT !.ready = IF @ = "pending" THEN "resolved" ELSE @]
    BY <2>2, SameFields, StillMoves DEF Host
  <2> QED BY <1>2, <2>1, <2>2
<1>4. CASE toHost[1].type # "ready" /\ Expected(toHost[1])
  <2> DEFINE m == Head(toHost)
             T == IF m.type = "result" THEN {FALSE} ELSE {FALSE, host.timer}
  <2>1. m.type # "ready" /\ Expected(m)
    BY <1>1, <1>4
  <2>2. host' \in {NextRecord(host, m, t) : t \in T} /\ result' = result
    BY <2>1 DEF HostReads, NextRecord
  <2>3. PICK t \in {FALSE, host.timer} : host' = NextRecord(host, m, t)
    BY <2>2
  <2>4. host \in Host /\ t \in BOOLEAN /\ m \in Report
    BY <1>1, SameFields DEF Host
  <2> HIDE DEF m
  <2>5. Takes(host, m, host')
    BY <2>3, <2>4, NextFields
  <2> QED BY <2>2, <2>5, StillMoves DEF Takes
<1>5. CASE toHost[1].type # "ready" /\ ~ Expected(toHost[1])
  BY <1>1, <1>2, <1>5 DEF HostReads
<1> QED BY <1>3, <1>4, <1>5

\* Only the acknowledgement of a result resolves.
LEMMA LoopMoves == ASSUME Inv, HostLoop PROVE Moves
<1>2. CASE Fail([host EXCEPT !.busy = "no"])
  BY <1>2, FailBusyMoves
<1>4. CASE SinkReturns /\ host.connected
  BY <1>4, SameFields, StillMoves DEF SinkReturns, Host
<1>5. CASE AckSent /\ ~ Fail([host EXCEPT !.busy = "no"])
  <2>1. /\ host' = [host EXCEPT !.busy = "no", !.run = IF host.last THEN 0 ELSE @]
        /\ result' = IF host.last THEN Settle(result, host.run, "resolved") ELSE result
    BY <1>5 DEF AckSent
  <2>2. host'.known = host.known /\ host'.closing = host.closing
    BY <2>1, SameFields DEF Host
  <2>3. \/ result' = result
        \/ /\ host.run # 0 /\ result[host.run] = "pending"
           /\ result' = [result EXCEPT ![host.run] = "resolved"]
    BY <2>1 DEF Settle
  <2>4. Phase(host') = Phase(host)
    BY <2>2 DEF Phase
  <2>5. host.run \in Runs \cup {0}
    BY SameFields
  <2> QED BY <2>3, <2>4, <2>5 DEF Moves
<1> QED BY <1>2, <1>4, <1>5, ReadMoves DEF HostLoop, SinkThrows, SinkReturns

\* The events of the process.
LEMMA EventMoves == ASSUME Inv, Events PROVE Moves
<1>1. CASE ExitSeen
  <2> DEFINE a == [host EXCEPT !.exited = TRUE, !.timer = FALSE, !.run = 0]
             v == IF a.ready = "pending" THEN "rejected" ELSE a.ready
             b == [a EXCEPT !.ready = v]
  <2>1. host' = b /\ result' = Settle(result, host.run, "rejected")
    BY <1>1 DEF ExitSeen, RejectReady
  <2>2. a \in Host /\ a.known = host.known /\ a.closing = host.closing
    BY SameFields DEF Host
  <2> HIDE DEF a
  <2>3. b.known = a.known /\ b.closing = a.closing
    BY <2>2 DEF Host
  <2> HIDE DEF b
  <2>4. Rejected
    BY <2>1, SettleRejects
  <2>5. Phase(host') = Phase(host)
    BY <2>1, <2>2, <2>3 DEF Phase
  <2> QED BY <2>4, <2>5 DEF Moves
<1>2. CASE Disconnected
  <2> DEFINE h == [host EXCEPT !.connected = FALSE]
  <2>1. Fail(h) \/ (host' = h /\ result' = result)
    BY <1>2 DEF Disconnected
  <2>2. /\ h \in Host /\ h.failed = host.failed /\ h.closing = host.closing
        /\ h.known = host.known /\ h.run = host.run
    BY SameFields DEF Host
  <2> HIDE DEF h
  <2> QED BY <2>1, <2>2, FailMoves, StillMoves
<1> QED BY <1>1, <1>2 DEF Events

\* The stages of terminate(), and its end: nobody is left to wait.
LEMMA TerminateMoves == ASSUME Inv, Terminate PROVE Moves
<1>1. /\ host.closing \in {"snapshot", "grace", "term", "kill", "sweep"} /\ host.known
      /\ Phase(host) = "closing" /\ Turn
  <2>1. host.closing \in {"snapshot", "grace", "term", "kill", "sweep"} /\ Turn
    BY DEF Terminate, Snapshot, GraceOver, SignalOver, Sweep
  <2>2. host.known
    BY <2>1 DEF Inv, HostOwns
  <2> QED BY <2>1, <2>2 DEF Phase, Cleanup
<1>2. CASE result' = result /\ \E stage \in {"grace", "term", "kill", "sweep"} :
             \/ host' = [host EXCEPT !.closing = stage]
             \/ \E recorded \in BOOLEAN :
                   host' = [host EXCEPT !.closing = stage, !.tree = recorded]
  <2> DEFINE Later(h) == h.known /\ h.closing \in {"grace", "term", "kill", "sweep"}
  <2>1. Later(host')
    <3>1. \A stage \in {"grace", "term", "kill", "sweep"} :
             Later([host EXCEPT !.closing = stage])
      BY <1>1, SameFields DEF Host
    <3>2. \A stage \in {"grace", "term", "kill", "sweep"}, recorded \in BOOLEAN :
             Later([host EXCEPT !.closing = stage, !.tree = recorded])
      BY <1>1, SameFields DEF Host
    <3> HIDE DEF Later
    <3> QED BY <1>2, <3>1, <3>2
  <2>2. Phase(host') = "closing"
    BY <2>1 DEF Phase, Cleanup
  <2> QED BY <1>1, <1>2, <2>2 DEF Moves
<1>3. CASE \E outcome \in {"failed", "unconfirmed"} : Ended(outcome)
  <2>1. Steady(host, host') /\ host'.closing \in Cleanup /\ Rejected
    BY <1>3, EndedFields DEF Cleanup
  <2>2. Phase(host') = "quarantined"
    BY <1>1, <2>1 DEF Phase, Steady, Cleanup
  <2> QED BY <1>1, <2>1, <2>2 DEF Moves
<1>4. CASE host.closing = "sweep" /\ Ended("confirmed")
  <2>1. host' = NoWorker /\ result' = result
    BY <1>4 DEF Ended
  <2>2. ~ host'.known
    <3> DEFINE h == Fresh(0)
    <3>1. h \in Host
      BY FreshFields
    <3>2. host' = [h EXCEPT !.known = FALSE, !.connected = FALSE, !.exited = TRUE]
      BY <2>1 DEF NoWorker
    <3> HIDE DEF h
    <3> QED BY <3>1, <3>2 DEF Host
  <2>3. host.exited /\ host.ready # "pending"
    BY <1>1, <1>4 DEF Inv, HostOwns
  <2>4. start.pc \notin {"ready", "lost"}
    BY <1>1, <2>3 DEF Turn
  <2>5. \A r \in Runs : result[r] # "pending"
    BY <2>3, <2>4 DEF Inv, HostOwns
  <2>6. Rejected
    BY <2>1, <2>5, SameFields DEF Rejected
  <2> QED BY <1>1, <2>2, <2>6 DEF Moves, Phase
<1>5. CASE Snapshot
  BY <1>2, <1>5 DEF Snapshot
<1>6. CASE GraceOver
  BY <1>2, <1>3, <1>6 DEF GraceOver
<1>7. CASE SignalOver
  BY <1>2, <1>3, <1>7 DEF SignalOver
<1>8. CASE Sweep
  BY <1>3, <1>4, <1>8 DEF Sweep
<1> QED BY <1>5, <1>6, <1>7, <1>8 DEF Terminate

\* Every step of host and Worker is one the Runtime may expect.
LEMMA NextMoves == ASSUME Inv, [Next]_vars PROVE Moves
<1>1. CASE Starting
  BY <1>1, StartMoves, StartingMoves DEF Starting
<1>2. CASE Timers
  BY <1>2, SameFields, FailMoves DEF Timers, HandshakeTimeout, InitializeTimeout
<1>3. CASE Process \/ Driver \/ WorkerDies \/ Descendants
  <2>1. host' = host /\ result' = result
    BY <1>3 DEF Process, Driver, Boot, WorkerReads, Deliver, WorkerExits, DriverEmits, DriverAsks,
                DriverWithdraws, DriverEnds, Emits, WorkerDies, Descendants, EngineLeaves,
                StrayForks, ParentEnds, HostStays, HostSide
  <2> QED BY <2>1, StillMoves
<1>4. CASE UNCHANGED vars
  BY <1>4, StillMoves DEF vars
<1> QED BY <1>1, <1>2, <1>3, <1>4, ClientMoves, LoopMoves, EventMoves, TerminateMoves DEF Next

\* At first the Runtime knows no Worker.
LEMMA InitPromise == Init => Service!Init
<1> SUFFICES ASSUME Init PROVE Service!Init
  OBVIOUS
<1> DEFINE h == Fresh(0)
<1>1. h \in Host
  BY FreshFields
<1>2. host = [h EXCEPT !.known = FALSE, !.connected = FALSE, !.exited = TRUE]
  BY DEF Init, NoWorker
<1> HIDE DEF h
<1>3. ~ host.known
  BY <1>1, <1>2 DEF Host
<1> QED BY <1>3 DEF Init, Service!Init

\* And its step is a step of the abstract host, or none.
LEMMA MovesService ==
    ASSUME Inv, Moves
    PROVE  [Service!Next]_<<IF ~ host.known THEN "none"
                            ELSE IF host.closing = "no" THEN "live"
                            ELSE IF host.closing \in Cleanup THEN "quarantined"
                            ELSE "closing", result>>
<1>1. Rejected => result' = [r \in Runs |-> IF result[r] = "pending" THEN "rejected" ELSE result[r]]
  BY SameFields DEF Rejected
<1>2. CASE Phase(host') = Phase(host) /\ result' = result
  BY <1>2 DEF Phase
<1>3. CASE Rejected /\ (Phase(host') = Phase(host)
                        \/ (Phase(host) = "live" /\ Phase(host') = "closing"))
  <2>1. Service!Reject
    BY <1>1, <1>3 DEF Phase, Service!Reject
  <2> QED BY <2>1 DEF Service!Next
<1>4. CASE Phase(host) = "live" /\ Phase(host') = "closing" /\ result' = result
  <2>1. Service!Close
    BY <1>4 DEF Phase, Service!Close
  <2> QED BY <2>1 DEF Service!Next
<1>5. CASE Phase(host) = "closing" /\ Phase(host') \in {"none", "quarantined"} /\ Rejected
  <2>1. Service!Closed
    BY <1>5 DEF Phase, Rejected, Service!Closed
  <2> QED BY <2>1 DEF Service!Next
<1>6. ASSUME NEW r \in Runs, result[r] = "pending",
             result' = [result EXCEPT ![r] = "resolved"], Phase(host') = Phase(host)
      PROVE  Service!Next
  <2>1. Service!Resolve(r)
    BY <1>6 DEF Phase, Service!Resolve
  <2> QED BY <2>1 DEF Service!Next
<1>7. ASSUME NEW r \in Runs, result[r] = "none", Waits = {},
             \/ /\ Phase(host) \in {"none", "live"} /\ Phase(host') = "live"
                /\ result' = [result EXCEPT ![r] = "pending"]
             \/ /\ result' = [result EXCEPT ![r] = "rejected"]
                /\ \/ Phase(host') = Phase(host)
                   \/ Phase(host) = "none" /\ Phase(host') = "closing"
      PROVE  Service!Next
  <2>1. Service!Waiting = {}
    BY <1>7 DEF Waits, Service!Waiting
  <2>2. Service!Start(r)
    BY <1>7, <2>1 DEF Phase, Service!Start
  <2> QED BY <2>2 DEF Service!Next
<1> QED BY <1>2, <1>3, <1>4, <1>5, <1>6, <1>7 DEF Moves

\* The host keeps its promise: the Runtime sees runs executed one at a time, results settled
\* once, a Worker closed once and nobody left waiting when it is closed.
THEOREM PromiseKept == Spec => KeepsPromise
<1> DEFINE Step == [Service!Next]_<<IF ~ host.known THEN "none"
                                    ELSE IF host.closing = "no" THEN "live"
                                    ELSE IF host.closing \in Cleanup THEN "quarantined"
                                    ELSE "closing", result>>
<1>1. Inv /\ [Next]_vars => Step
  BY NextMoves, MovesService
<1> QED BY <1>1, InitPromise, Invariance, PTL DEF Spec, KeepsPromise, Service!Spec

----------------------------------------------------------------------------
(* The properties *)

\* The invariant says what either side finds at the head of its channel.
LEMMA HeadsInStep == Inv => InStep
<1> SUFFICES ASSUME Inv PROVE InStep
  OBVIOUS
<1>1. TypeOK /\ Token /\ Early /\ InOrder
  BY DEF Inv
<1>2. ASSUME host.known, ~ host.failed, ~ host.exited, toHost # <<>>, host.busy # "ack"
      PROVE  LET m == Head(toHost) IN
             IF m.type = "ready" THEN host.ready = "pending" /\ host.run # 0 /\ host.seq = 0
             ELSE Expected(m)
  <2>1. Head(toHost) = toHost[1]
    BY <1>2, Elements
  <2>2. host.busy \in {"no", "sink", "ack"} /\ host.ready \in {"pending", "resolved", "rejected"}
    BY SameFields DEF Host
  <2>3. CASE toHost[1].type = "ready"
    BY <1>1, <1>2, <2>1, <2>2, <2>3 DEF Early, InOrder, Trusts
  <2>4. CASE toHost[1].type # "ready"
    BY <1>1, <1>2, <2>1, <2>2, <2>4 DEF InOrder, Trusts, Expected
  <2> QED BY <2>3, <2>4
<1>3. ASSUME worker.life = "up", ~ worker.down, toWorker # <<>>
      PROVE  LET c == Head(toWorker) IN
             /\ c.type = "ack" => c.run = worker.run /\ c.seq = worker.ack
             /\ c.type = "run" => worker.run = 0
  <2>1. Head(toWorker) = toWorker[1] /\ 1 \in 1 .. Len(toWorker)
    BY <1>3, SameFields, TailOf
  <2>2. Queue(toWorker, worker)
    BY <1>1, <1>3 DEF Token, Live
  <2>3. \A j \in 1 .. Len(toWorker) : ~ j < 1
    OBVIOUS
  <2> QED BY <2>1, <2>2, <2>3 DEF Queue
<1> QED BY <1>1, <1>2, <1>3 DEF InStep

\* Neither side ever meets a message out of order, stale or unawaited while both are well:
\* the checks that fail a Worker (assertActive and the host's numbering) fail none that works.
THEOREM StaysInStep == Spec => []InStep
BY Invariance, HeadsInStep, PTL

\* A result is handed over after all its driver produced has reached the sink.
THEOREM NothingIsLost == Spec => []NothingLost
<1>1. Inv => NothingLost
  BY DEF Inv, Counted, Complete, NothingLost
<1> QED BY <1>1, Invariance, PTL

\* Every result that is waited for belongs to the host's current run, or to a start() that
\* is about to throw.
THEOREM PendingIsOwned == Spec => []PendingOwned
<1>1. Inv => PendingOwned
  BY DEF Inv, HostOwns, PendingOwned
<1> QED BY <1>1, Invariance, PTL

\* The host forgets a Worker only when the process and its group are gone, and every
\* descendant outside the group that its scans can attribute: those whose environment does
\* not show the marker and whose parent ended before a scan linked them may remain.
THEOREM CleanupIsProven == Spec => []CleanupProven
<1>1. Inv => CleanupProven
  BY DEF Inv, HostOwns, CleanupProven
<1> QED BY <1>1, Invariance, PTL

=============================================================================

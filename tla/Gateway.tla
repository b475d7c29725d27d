------------------------------ MODULE Gateway ------------------------------
(***************************************************************************)
(* The model gateway (packages/gateway): one handler serves the calls of   *)
(* several Gateway Keys.  A call reserves from its key's budget (Quotas),  *)
(* walks its planned candidates (routeCall), asks the breaker of each      *)
(* credential (Breakers), waits for one of its slots (Slots), sends the    *)
(* request, fails over or retries, commits its ledger entry and answers.   *)
(* The calls of a session key belong to the Session's active run           *)
(* (ModelSessions), whose end aborts them and reports a summary.           *)
(*                                                                         *)
(* The handler is one event loop: what a call does between two awaits of   *)
(* I/O or a timer is not interleaved with another call.  loop names the    *)
(* call whose synchronous code is running; every other action waits until  *)
(* it is None.  Reads of the SQLite store only yield to microtasks, so the *)
(* admission and the planning of a call are one step.                      *)
(*                                                                         *)
(* Abstracted: the protocols and the bodies, the order of the candidates   *)
(* (any of Plans), stickiness and rules, times.  A rest is measured in     *)
(* units of PROVISIONAL_MS: 1 is up to a minute, 2 is longer.  A budget    *)
(* has one cap, of tokens or of cost; a reservation and the usage of a     *)
(* call are any numbers up to a bound.                                     *)
(***************************************************************************)
EXTENDS Integers, FiniteSets, Sequences

CONSTANTS
    Calls,          \* calls that can be in flight together
    Keys,           \* Gateway Keys
    Creds,          \* provider credentials
    None,
    KeyOf,          \* the key of each call
    SessionKeys,    \* the keys that belong to a Session
    Plans,          \* the candidate lists a request may be planned with
    HostOf,         \* the API (and vendor) a credential belongs to
    NeedsVision,    \* credentials whose model takes no images
    Searching,      \* credentials whose model searches the web through the gateway
    Unsendable,     \* credentials whose secret may be one that no header can hold
    Kinds,          \* failure kinds of an upstream
    Cap,            \* the budget of a key without a Session
    MaxReserve,     \* the most a request can reserve: the bytes of its body, the mean output
    MaxUse,         \* bound: the usage of a call
    SlotLimit,      \* maxConcurrentPerCredential
    SlotQueue,      \* the calls that may wait for a slot of a credential
    PerCandidate, TotalAttempts,   \* the retry policy
    OpensAt,        \* consecutive counted failures that open a breaker
    MaxCalls,       \* bound: calls of one run of the model
    MaxFaults       \* bound: ledger writes that fail

AllKinds == {"other", "headers", "rate", "credit", "auth", "model", "policy", "shape", "request"}

ASSUME GatewayAssumption ==
    /\ IsFiniteSet(Calls) /\ KeyOf \in [Calls -> Keys] /\ SessionKeys \subseteq Keys
    /\ Plans \subseteq Seq(Creds) \ {<<>>} /\ HostOf \in [Creds -> Creds]
    /\ {NeedsVision, Searching, Unsendable} \subseteq SUBSET Creds /\ Kinds \subseteq AllKinds
    /\ {Cap, MaxReserve, MaxUse, PerCandidate, MaxCalls, MaxFaults} \subseteq Nat
    /\ SlotQueue \in [Creds -> Nat]
    /\ {SlotLimit, TotalAttempts, OpensAt} \subseteq Nat \ {0}

VARIABLES
    call,       \* each call
    loop,       \* the call whose synchronous code runs, or None
    breaker,    \* each credential's breaker
    mark,       \* each credential's model mark
    slots,      \* each credential's Slots: calls counted active, calls waiting and their order
    quota,      \* each key's reservations, and its cached and its unrecorded usage
    reserved,   \* what each call will release of its key's reservations
    ledger,     \* committed usage of each key in the budget window it is now
    run,        \* the Session's run and its call summary
    calls,      \* bound: calls begun
    faults,     \* bound: ledger writes that failed
    drift,      \* history: slots leaked less slots given back twice, by credential
    blame,      \* history: the failures of each credential since its breaker last closed
    spent,      \* history: usage of each key's calls in the window, recorded or not
    excess      \* history: the part of it that calls used beyond their reservations

vars == <<call, loop, breaker, mark, slots, quota, reserved, ledger, run, calls, faults, drift,
          blame, spent, excess>>

LongRest == 2
Provisional == 1

Idle ==
    [pc |-> "idle", queue |-> <<>>, at |-> 1, attempts |-> 0, retries |-> 0, headerRetries |-> 0,
     barred |-> {}, refused |-> 0, vision |-> "none",
     slot |-> FALSE, probe |-> FALSE, sent |-> FALSE, again |-> FALSE, aborted |-> FALSE,
     outcome |-> "none", old |-> FALSE]

Closed ==
    [state |-> "closed", failures |-> 0, opened |-> FALSE, rest |-> 0, probing |-> FALSE,
     by |-> None, ref |-> "unset", last |-> "none"]

NoMark == [rest |-> 0, by |-> None]

\* The keys that asked for a long rest, and how often the breaker opened, up to two times.
NoBlame == [asked |-> {}, opens |-> 0]

Init ==
    /\ call = [c \in Calls |-> Idle] /\ loop = None
    /\ breaker = [d \in Creds |-> Closed] /\ mark = [d \in Creds |-> NoMark]
    /\ slots = [d \in Creds |-> [active |-> 0, waiting |-> {}, before |-> {}]]
    /\ quota = [k \in Keys |-> [held |-> 0, cached |-> FALSE, used |-> 0, lost |-> 0]]
    /\ reserved = [c \in Calls |-> 0] /\ ledger = [k \in Keys |-> 0] /\ calls = 0 /\ faults = 0
    /\ run = [phase |-> "none", calls |-> 0, recorded |-> 0, summary |-> 0]
    /\ blame = [d \in Creds |-> NoBlame] /\ drift = [d \in Creds |-> 0]
    /\ spent = [k \in Keys |-> 0] /\ excess = [k \in Keys |-> 0]

Cred(r) == r.queue[r.at]
InFlight(k) == {c \in Calls : KeyOf[c] = k /\ call[c].pc # "idle"}
Step(c, r) == [call EXCEPT ![c] = r]

----------------------------------------------------------------------------
(* Breakers: pure functions of a breaker or a mark *)

\* A mark set provisionally holds for the key that set it only.
Marked(m, k) == m.rest > 0 /\ m.by \in {None, k}

Blocked(b, m, k) == Marked(m, k) \/ (b.state = "open" /\ b.rest > 0)

\* What admit leaves of a breaker it lets a request through; a breaker that an auth failure
\* opened closes when the credential's reference has changed.
Admitted(b) ==
    IF b.state = "open" /\ b.ref = "changed" THEN Closed
    ELSE IF b.state = "closed" THEN b
    ELSE [b EXCEPT !.state = "half-open", !.probing = TRUE, !.ref = "unset", !.last = "none"]

Admits(b, m, k) ==
    /\ ~Marked(m, k)
    /\ \/ b.state = "closed"
       \/ b.state = "open" /\ (b.rest = 0 \/ b.ref = "changed")
       \/ b.state = "half-open" /\ ~b.probing

Succeeded(b) == Closed

Released(b) == [b EXCEPT !.probing = FALSE]

\* What a failure of a kind means: classify.
RetryOf(kind) ==
    IF kind \in {"other", "rate"} THEN "yes" ELSE IF kind = "headers" THEN "once" ELSE "no"

FailsOver(kind) == kind # "request"

EffectOf(kind) ==
    CASE kind \in {"other", "headers"} -> "count"
      [] kind \in {"rate", "credit", "auth"} -> "rest"
      [] kind = "model" -> "model"
      [] OTHER -> "none"

RestOf(kind) == IF kind = "rate" THEN Provisional ELSE LongRest

\* A rest longer than a minute is cut to one unless another key asked for it before.
\* Mutant: it is cut the first time only.
CutShort_Once(by, k) == by = None

CutShort(by, k) == by \in {None, k}

\* A rest doubles with every opening that no success came between.
Doubled(opened) == IF opened THEN LongRest ELSE Provisional

Opened(rest, by, kind) ==
    [state |-> "open", failures |-> 0, opened |-> TRUE, rest |-> rest,
     probing |-> FALSE, by |-> by, ref |-> IF kind = "auth" THEN "same" ELSE "unset", last |-> kind]

\* Whether a failure opens a breaker, or opens it again.
Opens(b, kind) ==
    \/ EffectOf(kind) = "rest"
    \/ EffectOf(kind) = "count" /\ (b.state = "half-open" \/ b.failures + 1 >= OpensAt)

Failed(b, kind, k) ==
    CASE EffectOf(kind) \in {"none", "model"} -> Released(b)
      [] EffectOf(kind) = "count" ->
            IF Opens(b, kind)
            THEN Opened(Doubled(b.opened), b.by, kind)
            ELSE [b EXCEPT !.failures = @ + 1, !.probing = FALSE]
      [] EffectOf(kind) = "rest" ->
            IF RestOf(kind) > Provisional /\ CutShort(b.by, k)
            THEN Opened(Provisional, k, kind)
            ELSE Opened(RestOf(kind), None, kind)

MarkedBy(m, kind, k) ==
    IF EffectOf(kind) # "model" THEN m
    ELSE IF CutShort(m.by, k) THEN [rest |-> Provisional, by |-> k]
    ELSE [rest |-> LongRest, by |-> None]

\* The history of a breaker that has not closed since, with one more failure.
Blamed(h, b, kind, k) ==
    [asked |-> IF EffectOf(kind) = "rest" /\ RestOf(kind) > Provisional
               THEN h.asked \cup {k} ELSE h.asked,
     opens |-> IF Opens(b, kind) /\ h.opens < 2 THEN h.opens + 1 ELSE h.opens]

----------------------------------------------------------------------------
(* Slots of a credential *)

Load(cs, d, k) ==
    Cardinality({c \in Calls : cs[c].slot /\ cs[c].pc # "idled" /\ Cred(cs[c]) = d /\ KeyOf[c] = k})

\* The waiting call of the key that holds the fewest slots, the earliest of those.
NextWaiter(x, cs, d) ==
    LET load(y) == Load(cs, d, KeyOf[y])
    IN  /\ x \in slots[d].waiting
        /\ \A y \in slots[d].waiting \ {x} :
            load(x) < load(y) \/ (load(x) = load(y) /\ <<x, y>> \in slots[d].before)

Joined(q, c) == [q EXCEPT !.waiting = @ \cup {c}, !.before = @ \cup (q.waiting \X {c})]

Left(q, cs) ==
    [q EXCEPT !.waiting = @ \ cs, !.before = {p \in @ : p[1] \notin cs /\ p[2] \notin cs}]

\* release(): the slot goes to the next waiter, or comes free.  cs is call with the slot given
\* back.
\* Mutant: it always comes free.
GiveBack_Frees(d, cs) ==
    /\ slots' = [slots EXCEPT ![d].active = @ - 1]
    /\ call' = cs

GiveBack(d, cs) ==
    \/ /\ slots[d].waiting = {}
       /\ slots' = [slots EXCEPT ![d].active = @ - 1]
       /\ call' = cs
    \/ \E x \in Calls :
        /\ NextWaiter(x, cs, d)
        /\ slots' = [slots EXCEPT ![d] = Left(@, {x})]
        /\ call' = [cs EXCEPT ![x].slot = TRUE, ![x].pc = "upstream"]

Full(d) == slots[d].active >= SlotLimit
Busy(d) == Full(d) /\ Cardinality(slots[d].waiting) >= SlotQueue[d]

\* acquire(): now, or in the queue.
Acquire(c, r) ==
    LET d == Cred(r)
    IN  \/ /\ ~Full(d)
           /\ slots' = [slots EXCEPT ![d].active = @ + 1]
           /\ call' = Step(c, [r EXCEPT !.slot = TRUE, !.pc = "upstream"])
        \/ /\ Full(d) /\ ~Busy(d)
           /\ slots' = [slots EXCEPT ![d] = Joined(@, c)]
           /\ call' = Step(c, [r EXCEPT !.pc = "slot"])

----------------------------------------------------------------------------
(* Quotas *)

Budgeted(k) == k \notin SessionKeys

\* The sums admit reads: the cached ones, while they are fresh, or the ledger with the usage
\* kept for entries it did not take.
ReadSums(k) == [quota[k] EXCEPT !.cached = TRUE, !.used = ledger[k] + quota[k].lost]

\* A key is admitted while used plus reserved is under its cap, whatever the request itself
\* then reserves.  A key without a budget reserves nothing.
Reserved(k, n) ==
    IF ~Budgeted(k) THEN {quota[k]}
    ELSE LET loaded == {ReadSums(k)} \cup (IF quota[k].cached THEN {quota[k]} ELSE {})
         IN  {[q EXCEPT !.held = @ + n] : q \in {l \in loaded : l.used + l.held < Cap}}

\* record(): a committed entry is counted in the cached sums of the window it belongs to.
Recorded(q, old, u) == IF old \/ ~q.cached THEN q ELSE [q EXCEPT !.used = @ + u]

\* unrecorded(): kept apart for the entry's window, which replaces what was kept for another.
\* Mutant: it is only counted in the cached sums.
Unrecorded_CachedOnly(q, old, u) == Recorded(q, old, u)

Unrecorded(q, old, u) ==
    IF old THEN [q EXCEPT !.lost = 0] ELSE Recorded([q EXCEPT !.lost = @ + u], old, u)

----------------------------------------------------------------------------
(* A call: modelCall and routeCall *)

TriesLeft(r) == r.attempts < TotalAttempts

\* publishFailure and the end of an attempt that published: the entry is committed next.  What
\* the call does not need any more is forgotten.
Publish(r, outcome) ==
    [Idle EXCEPT !.pc = "commit", !.outcome = outcome, !.queue = r.queue, !.at = r.at,
                 !.slot = r.slot, !.probe = r.probe, !.old = r.old]

\* On to the next candidate.
Reset(r) ==
    [r EXCEPT !.at = @ + 1, !.retries = 0, !.headerRetries = 0, !.probe = FALSE, !.pc = "try"]

Running(c) == loop = c

\* The code of c stops at an await, or ends.
Yields == loop' = None

Unbroken == UNCHANGED <<breaker, mark, blame>>
Unspent == UNCHANGED <<quota, reserved, ledger, faults, spent, excess>>
Uncounted == Unspent /\ UNCHANGED <<run, calls, drift>>

Report(d, b) == breaker' = [breaker EXCEPT ![d] = b]

\* A request with a body read: its budget admits it, the plan is made, and its candidates are
\* tried.  A refused request takes nothing.
Begin(c) ==
    LET k == KeyOf[c]
    IN  /\ loop = None /\ call[c].pc = "idle" /\ calls < MaxCalls
        /\ k \in SessionKeys => run.phase = "active"
        /\ \E queue \in Plans, n \in (IF Budgeted(k) THEN 0 .. MaxReserve ELSE {0}) :
            /\ \E q \in Reserved(k, n) : quota' = [quota EXCEPT ![k] = q]
            /\ reserved' = [reserved EXCEPT ![c] = n]
            /\ call' = Step(c, [Idle EXCEPT !.pc = "try", !.queue = queue])
        /\ calls' = calls + 1 /\ loop' = c
        /\ Unbroken /\ UNCHANGED <<slots, ledger, run, faults, spent, excess, drift>>

\* The loop has no candidate left, or the call is aborted or out of attempts.
GiveUp(c) ==
    LET r == call[c]
    IN  /\ Running(c) /\ r.pc = "try"
        /\ \/ r.at > Len(r.queue)
           \/ r.at <= Len(r.queue) /\ Cred(r) \notin r.barred /\ (r.aborted \/ ~TriesLeft(r))
        /\ call' = Step(c, Publish(r, "failure")) /\ Yields
        /\ Unbroken /\ Uncounted /\ UNCHANGED slots

Tries(c) ==
    LET r == call[c]
    IN  Running(c) /\ r.pc = "try" /\ r.at <= Len(r.queue)

PassOver(c) ==
    LET r == call[c]
    IN  /\ Tries(c)
        /\ \/ Cred(r) \in r.barred
           \/ /\ ~r.aborted /\ TriesLeft(r) /\ r.retries = 0
              /\ ~Admits(breaker[Cred(r)], mark[Cred(r)], KeyOf[c])
        /\ call' = Step(c, Reset(r))
        /\ Unbroken /\ Uncounted /\ UNCHANGED <<slots, loop>>

\* Only the first try of a candidate asks its breaker.
Admit(c) ==
    LET r == call[c]
        d == Cred(r)
        b == Admitted(breaker[d])
    IN  /\ Tries(c) /\ d \notin r.barred /\ ~r.aborted /\ TriesLeft(r)
        /\ IF r.retries = 0
           THEN /\ Admits(breaker[d], mark[d], KeyOf[c])
                /\ Report(d, b)
                /\ blame' = IF b = Closed THEN [blame EXCEPT ![d] = NoBlame] ELSE blame
                /\ call' = Step(c, [r EXCEPT !.pc = "prepare", !.probe = (b.state = "half-open")])
           ELSE call' = Step(c, [r EXCEPT !.pc = "prepare"]) /\ UNCHANGED <<breaker, blame>>
        /\ Uncounted /\ UNCHANGED <<slots, mark, loop>>

Prepares(c) == Running(c) /\ call[c].pc = "prepare"

MustDescribe(r) == Cred(r) \in NeedsVision /\ r.vision = "none"
Undescribed(r) == Cred(r) \in NeedsVision /\ r.vision = "failed"

\* The images go to the vision model first, through the gateway itself.
Describe(c) ==
    /\ Prepares(c) /\ MustDescribe(call[c])
    /\ call' = Step(c, [call[c] EXCEPT !.pc = "describing"]) /\ Yields
    /\ Unbroken /\ Uncounted /\ UNCHANGED slots

\* describe() returns, with or without a description of this turn's images.
Described(c) ==
    LET r == call[c]
    IN  /\ loop = None /\ r.pc = "describing" /\ ~r.aborted
        /\ \E v \in {"told", "failed"} :
            call' = Step(c, [r EXCEPT !.pc = "prepare", !.vision = v])
        /\ loop' = c
        /\ Unbroken /\ Uncounted /\ UNCHANGED slots

\* prepare() finds that this candidate cannot take the request, or its images have no
\* description.
Skip(c) ==
    LET r == call[c]
    IN  /\ Prepares(c) /\ ~MustDescribe(r)
        /\ call' = Step(c, Reset(r)) /\ Report(Cred(r), Released(breaker[Cred(r)]))
        /\ Uncounted /\ UNCHANGED <<slots, loop, mark, blame>>

\* An exception that leaves routeCall: redaction over its time budget in prepare(), and
\* describe() when the call is aborted.  modelCall answers it; the breaker is told nothing.
Escapes(c) ==
    LET r == call[c]
    IN  /\ \/ Prepares(c) /\ ~MustDescribe(r)
           \/ loop = None /\ r.pc = "describing" /\ r.aborted
        /\ call' = Step(c, Publish(r, "failure")) /\ Yields
        /\ Unbroken /\ Uncounted /\ UNCHANGED slots

\* The attempt asks for a slot of its credential.
Send(c) ==
    LET r == call[c]
    IN  /\ Prepares(c) /\ ~MustDescribe(r) /\ ~Undescribed(r) /\ ~Busy(Cred(r))
        /\ Acquire(c, [r EXCEPT !.attempts = @ + 1]) /\ Yields
        /\ Unbroken /\ Uncounted

----------------------------------------------------------------------------
(* How an attempt ends *)

\* shape: no other credential of this API; policy: no other account of this vendor.
BarredBy(r, kind) ==
    IF kind \in {"shape", "policy"} THEN {d \in Creds : HostOf[d] = HostOf[Cred(r)]} ELSE {}

\* The breakers and the marks when failure() of the call's credential returns.
Told(c, kind) == [breaker EXCEPT ![Cred(call[c])] = Failed(@, kind, KeyOf[c])]
Noted(c, kind) == [mark EXCEPT ![Cred(call[c])] = MarkedBy(@, kind, KeyOf[c])]

Avoids(c, kind, d) == Blocked(Told(c, kind)[d], Noted(c, kind)[d], KeyOf[c])

Retries(c, r, kind) ==
    /\ TriesLeft(r) /\ r.retries < PerCandidate
    /\ RetryOf(kind) = "yes" \/ (RetryOf(kind) = "once" /\ r.headerRetries < 1)
    /\ kind = "rate" \/ ~Avoids(c, kind, Cred(r))

\* What routeCall decides after a failure before the first byte.  often: the key was refused by
\* safety filters too often to ask another vendor.  patient: the wait is short enough.
Decisions(c, r, kind) ==
    LET p == [r EXCEPT !.barred = @ \cup BarredBy(r, kind),
                       !.refused = IF kind = "policy" THEN @ + 1 ELSE @,
                       !.probe = FALSE, !.slot = FALSE, !.again = FALSE]
        others == \E j \in r.at + 1 .. Len(r.queue) :
                    r.queue[j] \notin p.barred /\ ~Avoids(c, kind, r.queue[j])
        over(often) == FailsOver(kind) /\ ~(kind = "policy" /\ (often \/ p.refused > 1))
    IN  {IF TriesLeft(p) /\ over(often) /\ others THEN Reset(p)
         ELSE IF patient /\ Retries(c, p, kind)
         THEN [p EXCEPT !.pc = "sleep", !.retries = @ + 1,
                        !.headerRetries = IF kind = "headers" THEN @ + 1 ELSE @]
         ELSE Publish(p, "failure") : often, patient \in BOOLEAN}

\* The breaker is told of a failure, and the call goes on as p or gives up.
TakeFailure(c, kind, p) ==
    /\ breaker' = Told(c, kind) /\ mark' = Noted(c, kind)
    /\ blame' = [blame EXCEPT ![Cred(call[c])] =
                   Blamed(@, breaker[Cred(call[c])], kind, KeyOf[c])]
    /\ loop' = IF p.pc = "try" THEN c ELSE None
    /\ Uncounted

\* Once the client was sent output a failure is reported in the answer: it is committed and
\* written before the slot and the breaker hear of it.
TakeLateFailure(c, kind) ==
    /\ call' = Step(c, Publish(call[c], kind)) /\ loop' = loop
    /\ Unbroken /\ Uncounted

\* acquire() rejects at once.
RefusedSlot(c) ==
    LET r == call[c]
    IN  /\ Prepares(c) /\ ~MustDescribe(r) /\ ~Undescribed(r) /\ Busy(Cred(r))
        /\ \E p \in Decisions(c, [r EXCEPT !.attempts = @ + 1], "local") :
            TakeFailure(c, "local", p) /\ call' = Step(c, p)
        /\ UNCHANGED slots

\* slotWaitMs passes.  In a search round the error comes as one of the upstream's with the
\* status 429.
SlotTimesOut(c) ==
    LET r == call[c]
        d == Cred(r)
        kind == IF r.pc = "slotAgain" THEN "rate" ELSE "local"
    IN  /\ loop = None /\ r.pc \in {"slot", "slotAgain"} /\ ~r.aborted
        /\ slots' = [slots EXCEPT ![d] = Left(@, {c})]
        /\ IF r.sent THEN TakeLateFailure(c, kind)
           ELSE \E p \in Decisions(c, r, kind) : TakeFailure(c, kind, p) /\ call' = Step(c, p)

Upstream(c) == loop = None /\ call[c].pc = "upstream" /\ ~call[c].aborted

\* The credential's secret is not resolved, the upstream refuses, or a timer ends the attempt.
Fail(c) ==
    /\ Upstream(c) /\ ~call[c].sent
    /\ \E kind \in Kinds \cup {"local"} : \E p \in Decisions(c, call[c], kind) :
        TakeFailure(c, kind, p) /\ GiveBack(Cred(call[c]), Step(c, p))

FailLate(c) ==
    /\ Upstream(c) /\ call[c].sent
    /\ \E kind \in Kinds : TakeLateFailure(c, kind)
    /\ UNCHANGED slots

\* The same candidate is asked again without what it refused (sealed items, a short reply).
Resend(c) ==
    LET r == call[c]
        d == Cred(r)
    IN  /\ Upstream(c) /\ ~r.sent /\ TriesLeft(r)
        /\ Report(d, Released(breaker[d]))
        /\ GiveBack(d, Step(c, [r EXCEPT !.pc = "try", !.retries = 0,
                                     !.slot = FALSE, !.probe = FALSE, !.again = FALSE]))
        /\ loop' = c
        /\ Uncounted /\ UNCHANGED <<mark, blame>>

\* The model asked for a search: the slot is given back, and asked for again, for a request of
\* its own.
SearchAgain(c) ==
    LET d == Cred(call[c])
        cs == Step(c, [call[c] EXCEPT !.slot = FALSE, !.pc = "slotAgain", !.again = TRUE])
    IN  /\ Upstream(c) /\ d \in Searching /\ ~call[c].again
        /\ \/ /\ slots[d].waiting = {}
              /\ call' = Step(c, [call[c] EXCEPT !.again = TRUE]) /\ UNCHANGED slots
           \/ \E x \in Calls :
                /\ NextWaiter(x, cs, d)
                /\ slots' = [slots EXCEPT ![d] = Joined(Left(@, {x}), c)]
                /\ call' = [cs EXCEPT ![x].slot = TRUE, ![x].pc = "upstream"]
        /\ Unbroken /\ Uncounted /\ UNCHANGED loop

\* The headers of that request's answer.
HeadersAgain(c) ==
    /\ Upstream(c) /\ call[c].again
    /\ call' = Step(c, [call[c] EXCEPT !.again = FALSE])
    /\ Unbroken /\ Uncounted /\ UNCHANGED <<slots, loop>>

\* The idle timer of the round before is still armed and aborts that request: send() gives the
\* slot back and throws, and the attempt gives it back when it ends.
IdleInSearch(c) ==
    LET d == Cred(call[c])
    IN  /\ Upstream(c) /\ call[c].again
        /\ GiveBack(d, Step(c, [call[c] EXCEPT !.pc = "idled", !.again = FALSE]))
        /\ drift' = [drift EXCEPT ![d] = @ - 1]
        /\ Unbroken /\ Unspent /\ UNCHANGED <<loop, run, calls>>

IdleEnds(c) ==
    /\ loop = None /\ call[c].pc = "idled" /\ ~call[c].aborted
    /\ IF call[c].sent THEN TakeLateFailure(c, "other") /\ UNCHANGED slots
       ELSE \E p \in Decisions(c, call[c], "other") :
                TakeFailure(c, "other", p) /\ GiveBack(Cred(call[c]), Step(c, p))

\* The headers of the request cannot be built: the exception leaves send() with the slot taken,
\* and routeCall with the breaker told nothing.
Unsent(c) ==
    LET r == call[c]
        d == Cred(r)
    IN  /\ Upstream(c) /\ ~r.sent /\ ~r.again /\ d \in Unsendable
        /\ call' = Step(c, Publish([r EXCEPT !.slot = FALSE], "failure"))
        /\ drift' = [drift EXCEPT ![d] = @ + 1]
        /\ Unbroken /\ Unspent /\ UNCHANGED <<slots, loop, run, calls>>

FirstByte(c) ==
    /\ Upstream(c) /\ ~call[c].sent
    /\ call' = Step(c, [call[c] EXCEPT !.sent = TRUE])
    /\ Unbroken /\ Uncounted /\ UNCHANGED <<slots, loop>>

Answer(c) ==
    /\ Upstream(c) /\ ~call[c].again
    /\ call' = Step(c, Publish(call[c], "answer"))
    /\ Unbroken /\ Uncounted /\ UNCHANGED <<slots, loop>>

\* An aborted attempt ends without a verdict, and an aborted wait ends the call.
Cancelled(c) ==
    LET r == call[c]
        d == Cred(r)
        p == Publish([r EXCEPT !.slot = FALSE, !.probe = FALSE], "failure")
    IN  /\ loop = None /\ r.aborted
        /\ \/ /\ r.pc \in {"slot", "slotAgain", "upstream", "idled"}
              /\ Report(d, Released(breaker[d]))
              /\ IF r.slot THEN GiveBack(d, Step(c, p)) ELSE call' = Step(c, p) /\ UNCHANGED slots
           \/ /\ r.pc = "sleep"
              /\ call' = Step(c, p) /\ UNCHANGED <<breaker, slots>>
        /\ Uncounted /\ UNCHANGED <<loop, mark, blame>>

\* A retry's wait is over.
Retry(c) ==
    /\ loop = None /\ call[c].pc = "sleep" /\ ~call[c].aborted
    /\ call' = Step(c, [call[c] EXCEPT !.pc = "try"]) /\ loop' = c
    /\ Unbroken /\ Uncounted /\ UNCHANGED slots

----------------------------------------------------------------------------
(* The end of a call *)

\* A committed call of the Session, in the summary while the run is known.
Counted(r) ==
    [r EXCEPT !.recorded = @ + 1,
              !.calls = IF r.phase \in {"active", "ending"} THEN @ + 1 ELSE @]

\* The entry is appended to the ledger, or kept apart when the write fails; the call of a
\* Session is counted in its run while the run is known.
Commit(c) ==
    LET k == KeyOf[c]
        old == call[c].old
        now(u) == IF old THEN 0 ELSE u
        over(u) == IF now(u) > reserved[c] THEN now(u) - reserved[c] ELSE 0
    IN  /\ loop = None /\ call[c].pc = "commit"
        /\ \E u \in IF Budgeted(k) THEN 0 .. MaxUse ELSE {0} :
            /\ \/ /\ ledger' = [ledger EXCEPT ![k] = @ + now(u)]
                  /\ quota' = [quota EXCEPT ![k] = Recorded(@, old, u)]
                  /\ run' = IF Budgeted(k) THEN run ELSE Counted(run)
                  /\ UNCHANGED faults
               \/ /\ faults < MaxFaults /\ faults' = faults + 1
                  /\ quota' = [quota EXCEPT ![k] = IF Budgeted(k) THEN Unrecorded(@, old, u) ELSE @]
                  /\ UNCHANGED <<ledger, run>>
            /\ spent' = [spent EXCEPT ![k] = @ + now(u)]
            /\ excess' = [excess EXCEPT ![k] = @ + over(u)]
        /\ call' = Step(c, [call[c] EXCEPT !.pc = "write"])
        /\ Unbroken /\ UNCHANGED <<slots, loop, reserved, calls, drift>>

\* The rest of the answer was written, or the client is gone: the slot is given back, the
\* breaker hears of the attempt, the reservation is released.
Finish(c) ==
    LET r == call[c]
        k == KeyOf[c]
    IN  /\ loop = None /\ r.pc = "write"
        /\ IF r.outcome = "failure" THEN Unbroken
           ELSE LET d == Cred(r)
                    good == r.outcome = "answer"
                IN  /\ Report(d, IF good THEN Succeeded(breaker[d]) ELSE Failed(breaker[d], r.outcome, k))
                    /\ mark' = [mark EXCEPT ![d] = IF good THEN NoMark ELSE MarkedBy(@, r.outcome, k)]
                    /\ blame' = [blame EXCEPT ![d] =
                                   IF good THEN NoBlame ELSE Blamed(@, breaker[d], r.outcome, k)]
        /\ IF r.slot THEN GiveBack(Cred(r), Step(c, Idle)) ELSE call' = Step(c, Idle) /\ UNCHANGED slots
        /\ quota' = [quota EXCEPT ![k].held = @ - reserved[c]]
        /\ reserved' = [reserved EXCEPT ![c] = 0]
        /\ UNCHANGED <<loop, ledger, run, calls, faults, spent, excess, drift>>

----------------------------------------------------------------------------
(* Disconnects, the Session's run, the operator, time *)

Waiting == {"describing", "slot", "slotAgain", "upstream", "idled", "sleep"}

\* The signal of the calls of cs: a waiting call leaves its queue at once.  A call that is
\* past its attempts goes on.
AbortAll(cs) ==
    LET gone == {c \in cs : call[c].pc \in Waiting /\ ~call[c].aborted}
    IN  /\ call' = [c \in Calls |-> IF c \in gone THEN [call[c] EXCEPT !.aborted = TRUE] ELSE call[c]]
        /\ slots' = [d \in Creds |-> Left(slots[d], gone)]

Disconnect(c) ==
    /\ loop = None /\ call[c].pc \in Waiting /\ ~call[c].aborted
    /\ AbortAll({c})
    /\ Unbroken /\ Uncounted /\ UNCHANGED loop

SessionCalls == {c \in Calls : KeyOf[c] \in SessionKeys /\ call[c].pc # "idle"}

BeginRun ==
    /\ loop = None /\ run.phase \in {"none", "over"}
    /\ run' = [phase |-> "active", calls |-> 0, recorded |-> 0, summary |-> 0]
    /\ Unbroken /\ Unspent /\ UNCHANGED <<call, loop, slots, calls, drift>>

\* end(): the Session has no active run any more, and its calls are aborted.
EndRun ==
    /\ loop = None /\ run.phase = "active"
    /\ run' = [run EXCEPT !.phase = "ending"]
    /\ AbortAll(SessionCalls)
    /\ Unbroken /\ Unspent /\ UNCHANGED <<loop, calls, drift>>

\* awaitSessionIdle() returns.
\* Mutant: the summary is taken at once.
RunOver_AtOnce ==
    /\ loop = None /\ run.phase = "ending"
    /\ run' = [run EXCEPT !.phase = "over", !.summary = run.calls]
    /\ Unbroken /\ Unspent /\ UNCHANGED <<call, loop, slots, calls, drift>>

RunOver ==
    /\ loop = None /\ run.phase = "ending" /\ SessionCalls = {}
    /\ run' = [run EXCEPT !.phase = "over", !.summary = run.calls]
    /\ Unbroken /\ Unspent /\ UNCHANGED <<call, loop, slots, calls, drift>>

\* Switching a credential off and on, or the provider: its rests and marks are forgotten.
Lift(d) ==
    /\ loop = None
    /\ Report(d, Closed) /\ mark' = [mark EXCEPT ![d] = NoMark]
    /\ blame' = [blame EXCEPT ![d] = NoBlame]
    /\ Uncounted /\ UNCHANGED <<call, loop, slots>>

\* The reference of a credential that failed to authenticate is changed.
ChangeReference(d) ==
    /\ loop = None /\ breaker[d].ref = "same"
    /\ Report(d, [breaker[d] EXCEPT !.ref = "changed"])
    /\ Uncounted /\ UNCHANGED <<call, loop, slots, mark, blame>>

Less(n) == IF n = 0 THEN 0 ELSE n - 1

\* A minute passes.
Tick ==
    /\ loop = None /\ \E d \in Creds : breaker[d].rest > 0 \/ mark[d].rest > 0
    /\ breaker' = [d \in Creds |-> [breaker[d] EXCEPT !.rest = Less(@)]]
    /\ mark' = [d \in Creds |-> [mark[d] EXCEPT !.rest = Less(@)]]
    /\ Uncounted /\ UNCHANGED <<call, loop, slots, blame>>

\* The budgets' window ends: the sums of the next one begin at nothing, and the calls in
\* flight belong to the one that ended.
Roll ==
    LET budgeted == {k \in Keys : Budgeted(k)} IN
    /\ loop = None
    /\ call' = [c \in Calls |-> [call[c] EXCEPT !.old = c \in UNION {InFlight(k) : k \in budgeted}]]
    /\ quota' = [k \in Keys |-> [quota[k] EXCEPT !.cached = FALSE, !.used = 0, !.lost = 0]]
    /\ ledger' = [k \in Keys |-> 0]
    /\ spent' = [k \in Keys |-> 0] /\ excess' = [k \in Keys |-> 0]
    /\ Unbroken /\ UNCHANGED <<loop, slots, reserved, run, calls, faults, drift>>

----------------------------------------------------------------------------
Sync(c) ==
    GiveUp(c) \/ PassOver(c) \/ Admit(c) \/ Describe(c) \/ Skip(c) \/ Escapes(c) \/ Send(c) \/ RefusedSlot(c)

Settle(c) == Fail(c) \/ FailLate(c) \/ Answer(c) \/ Cancelled(c)

CallStep(c) ==
    \/ Begin(c) \/ Sync(c) \/ Settle(c) \/ Disconnect(c)
    \/ Described(c) \/ SlotTimesOut(c) \/ Resend(c) \/ FirstByte(c) \/ Retry(c)
    \/ SearchAgain(c) \/ HeadersAgain(c) \/ IdleInSearch(c) \/ IdleEnds(c) \/ Unsent(c)
    \/ Commit(c) \/ Finish(c)

Next ==
    \/ \E c \in Calls : CallStep(c)
    \/ \E d \in Creds : Lift(d) \/ ChangeReference(d)
    \/ BeginRun \/ EndRun \/ RunOver \/ Tick \/ Roll

Spec == Init /\ [][Next]_vars

----------------------------------------------------------------------------
(* Safety *)

CallRecord ==
    [pc : {"idle", "try", "prepare", "commit", "write"} \cup Waiting,
     queue : Plans \cup {<<>>}, at : Nat \ {0},
     attempts : 0 .. TotalAttempts, retries : 0 .. PerCandidate, headerRetries : 0 .. 1,
     barred : SUBSET Creds, refused : Nat, vision : {"none", "told", "failed"},
     slot : BOOLEAN, probe : BOOLEAN, sent : BOOLEAN, again : BOOLEAN, aborted : BOOLEAN,
     outcome : AllKinds \cup {"local", "failure", "answer", "none"}, old : BOOLEAN]

BreakerRecord ==
    [state : {"closed", "open", "half-open"}, failures : 0 .. OpensAt - 1, opened : BOOLEAN,
     rest : 0 .. LongRest, probing : BOOLEAN, by : Keys \cup {None},
     ref : {"unset", "same", "changed"}, last : AllKinds \cup {"local", "none"}]

TypeOK ==
    /\ call \in [Calls -> CallRecord] /\ loop \in Calls \cup {None}
    /\ breaker \in [Creds -> BreakerRecord]
    /\ blame \in [Creds -> [asked : SUBSET Keys, opens : 0 .. 2]]
    /\ mark \in [Creds -> [rest : 0 .. LongRest, by : Keys \cup {None}]]
    /\ slots \in [Creds -> [active : Int, waiting : SUBSET Calls, before : SUBSET (Calls \X Calls)]]
    /\ drift \in [Creds -> Int]
    /\ quota \in [Keys -> [held : Int, cached : BOOLEAN, used : Nat, lost : Nat]]
    /\ reserved \in [Calls -> 0 .. MaxReserve]
    /\ ledger \in [Keys -> Nat] /\ spent \in [Keys -> Nat] /\ excess \in [Keys -> Nat]
    /\ run \in [phase : {"none", "active", "ending", "over"},
                calls : Nat, recorded : Nat, summary : Nat]
    /\ calls \in 0 .. MaxCalls /\ faults \in 0 .. MaxFaults

Holding(d) == {c \in Calls : call[c].slot /\ Cred(call[c]) = d}

\* The slots of a credential counted active are those that its calls hold, but for the leaks and
\* the double returns of drift; and none stands free while a call waits for one, whichever
\* way the calls end (Slots, send).
SlotsBalanced ==
    /\ TypeOK
    /\ \A d \in Creds :
        /\ slots[d].active = Cardinality(Holding(d)) + drift[d]
        /\ slots[d].active <= SlotLimit
        /\ slots[d].waiting # {} => slots[d].active = SlotLimit
        /\ \A c \in slots[d].waiting :
            call[c].pc \in {"slot", "slotAgain"} /\ ~call[c].aborted /\ Cred(call[c]) = d

\* What the calls in flight of a key have reserved, unit by unit.
Pledged(k) == {p \in InFlight(k) \X (1 .. MaxReserve) : p[2] <= reserved[p[1]]}

\* A key's calls pass its budget in a window by less than one reservation, and by what they
\* used beyond their own reservations; a budget of 0 is never used.  Concurrent calls, cached
\* sums and a ledger entry that could not be written add nothing to that, because what is
\* reserved is what the calls in flight will give back (Quotas: calls in flight together
\* overshoot by about one call).
BudgetHeld ==
    \A k \in Keys : Budgeted(k) =>
        /\ spent[k] > 0 => Cap > 0 /\ spent[k] < Cap + MaxReserve + excess[k]
        /\ quota[k].held = Cardinality(Pledged(k))

RestsLong(d) == breaker[d].state = "open" /\ breaker[d].rest > Provisional

TwoAsked(d) == \E j, k \in blame[d].asked : j # k

\* No single failure rests a credential for longer than a minute.  Either failures of two keys
\* asked for it (a cooldown or an auth failure, cut short at first), or a counted failure
\* opened a breaker again that had opened before without a success since, and its rest
\* doubled (Breakers).  The second takes no more than one key: OneKeyRestsShort.
LongRestsEarned ==
    \A d \in Creds : RestsLong(d) =>
        TwoAsked(d) \/ (EffectOf(breaker[d].last) = "count" /\ blame[d].opens > 1)

\* routing.ts, of Breakers: a rest longer than PROVISIONAL_MS is given in full only by "a
\* failure that asks for one again from another Gateway Key", "so one key cannot rest a
\* shared credential for long".
OneKeyRestsShort == \A d \in Creds : RestsLong(d) => TwoAsked(d)

\* The summary a run ends with counts every call of it that the ledger has
\* (ModelSessions.end, awaitSessionIdle).
SummaryComplete == run.phase = "over" => run.summary = run.recorded

\* docs/features/model-plane/credentials.md: a credential has so many upstream requests at the
\* same time, and more wait.
LimitKept ==
    \A d \in Creds : Cardinality({c \in Holding(d) : call[c].pc = "upstream"}) <= SlotLimit

============================================================================

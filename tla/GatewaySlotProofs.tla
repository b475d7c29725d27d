------------------------- MODULE GatewaySlotProofs -------------------------
(***************************************************************************)
(* Lemmas about Gateway, for any number of calls, keys and credentials:    *)
(* the types of what its steps are built from, and the count of slots      *)
(* (SlotInv), which every step keeps.                                      *)
(***************************************************************************)
EXTENDS Gateway, FiniteSetTheorems, TLAPS

Ends == AllKinds \cup {"local", "failure", "answer", "none"}
Failures == AllKinds \cup {"local"}
MarkRecord == [rest : 0 .. LongRest, by : Keys \cup {None}]
SlotsRecord == [active : Int, waiting : SUBSET Calls, before : SUBSET (Calls \X Calls)]
QuotaRecord == [held : Int, cached : BOOLEAN, used : Nat, lost : Nat]

----------------------------------------------------------------------------
(* Types of the parts of a step *)

\* A call that is not in flight is typed.
LEMMA IdleType == Idle \in CallRecord /\ ~Idle.aborted
BY GatewayAssumption DEF Idle, CallRecord, Waiting

\* A call record that publishes keeps what the end of the call needs.
LEMMA PublishType ==
    ASSUME NEW r \in CallRecord, NEW o \in Ends
    PROVE  LET p == Publish(r, o) IN
           /\ p \in CallRecord /\ p.pc = "commit" /\ p.outcome = o /\ ~p.aborted
           /\ p.queue = r.queue /\ p.at = r.at /\ p.slot = r.slot /\ p.old = r.old
<1>1. ASSUME NEW i \in CallRecord, ~i.aborted
      PROVE  LET p == [i EXCEPT !.pc = "commit", !.outcome = o, !.queue = r.queue, !.at = r.at,
                                !.slot = r.slot, !.probe = r.probe, !.old = r.old]
             IN  /\ p \in CallRecord /\ p.pc = "commit" /\ p.outcome = o /\ ~p.aborted
                 /\ p.queue = r.queue /\ p.at = r.at /\ p.slot = r.slot /\ p.old = r.old
  BY ZenonT(60), <1>1 DEF CallRecord, Ends, Waiting
<1> QED BY <1>1, IdleType DEF Publish

\* On to the next candidate.
LEMMA ResetType ==
    ASSUME NEW r \in CallRecord
    PROVE  LET p == Reset(r) IN
           /\ p \in CallRecord /\ p.pc = "try" /\ p.slot = r.slot /\ p.old = r.old
           /\ p.aborted = r.aborted
<1>1. r.at + 1 \in Nat \ {0} /\ 0 \in 0 .. PerCandidate /\ 0 \in 0 .. 1
  BY GatewayAssumption DEF CallRecord
<1>2. ASSUME NEW at \in Nat \ {0}, NEW y \in 0 .. PerCandidate, NEW z \in 0 .. 1
      PROVE  LET p == [r EXCEPT !.at = at, !.retries = y, !.headerRetries = z,
                                !.probe = FALSE, !.pc = "try"]
             IN  /\ p \in CallRecord /\ p.pc = "try" /\ p.slot = r.slot /\ p.old = r.old
                 /\ p.aborted = r.aborted
  BY DEF CallRecord
<1> QED BY <1>1, <1>2 DEF Reset

\* What a breaker can become.
LEMMA BreakerTypes ==
    ASSUME NEW b \in BreakerRecord
    PROVE  /\ Closed \in BreakerRecord /\ Released(b) \in BreakerRecord
           /\ Admitted(b) \in BreakerRecord
<1>1. Closed \in BreakerRecord
  BY GatewayAssumption DEF BreakerRecord, Closed, LongRest
<1>2. Released(b) \in BreakerRecord
  BY DEF BreakerRecord, Released
<1>3. [b EXCEPT !.state = "half-open", !.probing = TRUE, !.ref = "unset", !.last = "none"]
        \in BreakerRecord
  BY DEF BreakerRecord
<1> QED BY <1>1, <1>2, <1>3 DEF Admitted

\* What an opened breaker can become.
LEMMA OpenedType ==
    ASSUME NEW rest \in 0 .. LongRest, NEW by \in Keys \cup {None}, NEW kind \in Failures
    PROVE  Opened(rest, by, kind) \in BreakerRecord
BY GatewayAssumption DEF Opened, BreakerRecord, Failures

\* What the effects of failures are, and of which.
LEMMA KindEffects ==
    ASSUME NEW kind
    PROVE  /\ EffectOf(kind) \in {"count", "rest", "model", "none"}
           /\ EffectOf(kind) \in {"count", "rest"} => kind \in Failures
BY DEF EffectOf, Failures, AllKinds

\* The breaker after a failure.
LEMMA FailedType ==
    ASSUME NEW b \in BreakerRecord, NEW kind \in Ends, NEW k \in Keys
    PROVE  Failed(b, kind, k) \in BreakerRecord
<1>1. b.by \in Keys \cup {None} /\ b.failures \in Nat
  BY DEF BreakerRecord
<1>2. Doubled(b.opened) \in 0 .. LongRest /\ RestOf(kind) \in 0 .. LongRest
      /\ Provisional \in 0 .. LongRest
  BY DEF Doubled, RestOf, LongRest, Provisional
<1>3. CASE EffectOf(kind) \in {"none", "model"}
  BY <1>3, BreakerTypes DEF Failed
<1>4. CASE EffectOf(kind) = "count"
  <2>0. kind \in Failures
    BY <1>4, KindEffects
  <2>1. CASE Opens(b, kind)
    BY <1>1, <1>2, <1>4, <2>0, <2>1, OpenedType DEF Failed
  <2>2. CASE ~Opens(b, kind)
    <3>1. b.failures + 1 \in 0 .. OpensAt - 1
      BY <1>1, <1>4, <2>2, GatewayAssumption DEF Opens
    <3>2. [b EXCEPT !.failures = b.failures + 1, !.probing = FALSE] \in BreakerRecord
      BY <3>1 DEF BreakerRecord
    <3> QED BY <1>4, <2>2, <3>2 DEF Failed
  <2> QED BY <2>1, <2>2
<1>5. CASE EffectOf(kind) = "rest"
  <2>1. kind \in Failures
    BY <1>5, KindEffects
  <2> QED BY <1>1, <1>2, <1>5, <2>1, OpenedType DEF Failed
<1> QED BY <1>3, <1>4, <1>5, KindEffects

\* A mark after a failure.
LEMMA MarkedByType ==
    ASSUME NEW m \in MarkRecord, NEW kind, NEW k \in Keys
    PROVE  MarkedBy(m, kind, k) \in MarkRecord
BY DEF MarkedBy, MarkRecord, LongRest, Provisional

\* A failure that is not late leaves the call without a slot.
LEMMA DecisionsType ==
    ASSUME NEW c \in Calls, NEW r \in CallRecord, NEW kind \in Failures,
           NEW p \in Decisions(c, r, kind)
    PROVE  /\ p \in CallRecord /\ p.pc \in {"try", "sleep", "commit"} /\ ~p.slot
           /\ p.old = r.old /\ (p.aborted => r.aborted)
<1> DEFINE barred == r.barred \cup BarredBy(r, kind)
           refused == IF kind = "policy" THEN r.refused + 1 ELSE r.refused
           q == [r EXCEPT !.barred = barred, !.refused = refused,
                          !.probe = FALSE, !.slot = FALSE, !.again = FALSE]
           headers == IF kind = "headers" THEN q.headerRetries + 1 ELSE q.headerRetries
           z == [q EXCEPT !.pc = "sleep", !.retries = q.retries + 1, !.headerRetries = headers]
<1>1. barred \in SUBSET Creds /\ refused \in Nat
  BY DEF BarredBy, CallRecord
<1>2. p \in {Reset(q), Publish(q, "failure")} \/ (Retries(c, q, kind) /\ p = z)
  BY DEF Decisions
<1> HIDE DEF barred, refused
<1>3. q \in CallRecord /\ ~q.slot /\ q.old = r.old /\ q.aborted = r.aborted
  BY <1>1 DEF CallRecord
<1> HIDE DEF q
<1>4. ASSUME Retries(c, q, kind) PROVE q.retries + 1 \in 0 .. PerCandidate
  <2>1. q.retries \in Nat /\ q.retries < PerCandidate /\ PerCandidate \in Nat
    BY <1>3, <1>4, GatewayAssumption DEF Retries, CallRecord
  <2> QED BY <2>1
<1>5. ASSUME Retries(c, q, kind) PROVE headers \in 0 .. 1
  <2>1. q.headerRetries \in 0 .. 1 /\ (kind = "headers" => q.headerRetries < 1)
    BY <1>3, <1>5 DEF Retries, RetryOf, CallRecord
  <2> QED BY <2>1
<1> HIDE DEF headers
<1>6. Retries(c, q, kind) => /\ z \in CallRecord /\ z.pc = "sleep" /\ ~z.slot
                             /\ z.old = r.old /\ z.aborted = r.aborted
  BY <1>3, <1>4, <1>5 DEF CallRecord, Waiting
<1>7. "failure" \in Ends
  BY DEF Ends
<1> HIDE DEF z
<1> QED BY <1>2, <1>3, <1>6, <1>7, ResetType, PublishType

----------------------------------------------------------------------------
(* Calls, slots and the queue *)

\* Where a call is tells whether it has a slot, and what it works with is a credential.
Sound(r) ==
    /\ r.pc \in {"prepare", "describing"} => TriesLeft(r)
    /\ r.aborted => r.pc \in Waiting
    /\ r.pc \in {"upstream", "idled"} => r.slot
    /\ r.pc \in {"idle", "try", "prepare", "describing", "slot", "slotAgain", "sleep"} => ~r.slot
    /\ r.pc \in {"prepare", "describing", "slot", "slotAgain"} \/ r.slot => Cred(r) \in Creds

Waits(r, d) == r.pc \in {"slot", "slotAgain"} /\ ~r.aborted /\ Cred(r) = d

CallsOK ==
    /\ call \in [Calls -> CallRecord] /\ slots \in [Creds -> SlotsRecord]
    /\ drift \in [Creds -> Int]
    /\ \A c \in Calls : Sound(call[c])
    /\ \A d \in Creds : \A c \in slots[d].waiting : Waits(call[c], d)

Balanced ==
    \A d \in Creds :
        /\ slots[d].active = Cardinality(Holding(d)) + drift[d]
        /\ slots[d].active <= SlotLimit
        /\ slots[d].waiting # {} => slots[d].active = SlotLimit

SlotInv == CallsOK /\ Balanced

\* As far as budgets go, a call is begun, committed or in between.
Alike(r, q) ==
    /\ q.pc = "idle" <=> r.pc = "idle"
    /\ q.pc = "write" <=> r.pc = "write"
    /\ q.old = r.old

OthersAlike(c) == \A y \in Calls \ {c} : Alike(call[y], call'[y])

\* The calls that hold a slot are finitely many.
LEMMA HoldingFinite ==
    ASSUME NEW d PROVE IsFiniteSet(Holding(d)) /\ Cardinality(Holding(d)) \in Nat
<1>1. Holding(d) \subseteq Calls
  BY DEF Holding
<1> QED BY <1>1, GatewayAssumption, FS_Subset, FS_CardinalityType

\* A call that does not wait moves on with or without its slot.
LEMMA MoveStep ==
    ASSUME SlotInv, NEW c \in Calls, NEW p \in CallRecord, Sound(p),
           p.slot = call[c].slot, p.slot => Cred(p) = Cred(call[c]),
           ~(call[c].pc \in {"slot", "slotAgain"} /\ ~call[c].aborted),
           call' = Step(c, p), slots' = slots, drift' = drift
    PROVE  SlotInv' /\ OthersAlike(c) /\ call'[c] = p
<1>1. /\ call' \in [Calls -> CallRecord] /\ call'[c] = p
      /\ \A y \in Calls \ {c} : call'[y] = call[y]
  BY DEF SlotInv, CallsOK, Step
<1>2. CallsOK'
  <2>1. \A d \in Creds : c \notin slots[d].waiting
    BY DEF SlotInv, CallsOK, Waits
  <2>2. \A d \in Creds : slots[d].waiting \subseteq Calls
    BY DEF SlotInv, CallsOK, SlotsRecord
  <2>3. \A y \in Calls : Sound(call'[y])
    BY <1>1 DEF SlotInv, CallsOK
  <2>4. \A d \in Creds : \A y \in slots[d].waiting : Waits(call'[y], d)
    BY <1>1, <2>1, <2>2 DEF SlotInv, CallsOK
  <2> QED BY <1>1, <2>3, <2>4 DEF SlotInv, CallsOK
<1>3. \A d : Holding(d)' = Holding(d)
  BY <1>1 DEF Holding
<1>4. Balanced'
  BY <1>3 DEF SlotInv, Balanced
<1> QED BY <1>1, <1>2, <1>4 DEF SlotInv, OthersAlike, Alike

\* The next waiter takes over a slot of its own credential.
LEMMA HandOver ==
    ASSUME CallsOK, NEW d \in Creds, NEW x \in slots[d].waiting
    PROVE  LET p == [call[x] EXCEPT !.slot = TRUE, !.pc = "upstream"]
           IN  /\ x \in Calls /\ p \in CallRecord /\ Sound(p) /\ p.slot /\ p.pc = "upstream"
               /\ Cred(p) = d /\ Cred(call[x]) = d /\ ~call[x].slot /\ Alike(call[x], p)
               /\ call[x].pc \in {"slot", "slotAgain"}
<1> DEFINE r == call[x]
           p == [r EXCEPT !.slot = TRUE, !.pc = "upstream"]
<1>1. x \in Calls /\ r \in CallRecord /\ Sound(r) /\ Waits(r, d)
  BY DEF CallsOK, SlotsRecord
<1> HIDE DEF r
<1>2. /\ p \in CallRecord /\ p.slot /\ p.pc = "upstream" /\ p.old = r.old
      /\ p.queue = r.queue /\ p.at = r.at
  BY <1>1 DEF CallRecord, Waiting
<1> HIDE DEF p
<1>3. Sound(p) /\ Cred(p) = d /\ Cred(r) = d /\ ~r.slot /\ Alike(r, p)
  BY <1>1, <1>2 DEF Sound, Waits, Cred, Alike, Waiting
<1> QED BY <1>1, <1>2, <1>3 DEF r, p, Waits

\* A slot goes from one call to another.
LEMMA Swapped ==
    ASSUME NEW d, NEW H, NEW c \in Holding(d), NEW x, x \notin Holding(d), x # c,
           H = (Holding(d) \ {c}) \cup {x}
    PROVE  Cardinality(H) = Cardinality(Holding(d))
<1>1. IsFiniteSet(Holding(d) \ {c})
      /\ Cardinality(Holding(d) \ {c}) = Cardinality(Holding(d)) - 1
  BY HoldingFinite, FS_RemoveElement
<1>2. Cardinality(H) = Cardinality(Holding(d) \ {c}) + 1
  BY <1>1, FS_AddElement
<1> QED BY <1>1, <1>2, HoldingFinite

\* A slot is given back, to the next waiter or for good; a call that keeps the mark of it gives
\* it back again later.
LEMMA BackStep ==
    ASSUME SlotInv, NEW c \in Calls, NEW d, d = Cred(call[c]), call[c].slot,
           call[c].pc \notin {"slot", "slotAgain"},
           NEW p \in CallRecord, Sound(p), p.slot => Cred(p) = d,
           GiveBack(d, Step(c, p)),
           drift' = [drift EXCEPT ![d] = IF p.slot THEN @ - 1 ELSE @]
    PROVE  SlotInv' /\ OthersAlike(c) /\ call'[c] = p
<1> DEFINE own == IF p.slot THEN 1 ELSE 0
<1>1. /\ d \in Creds /\ c \in Holding(d) /\ slots \in [Creds -> SlotsRecord]
      /\ drift \in [Creds -> Int] /\ call \in [Calls -> CallRecord]
      /\ \A e \in Creds : c \notin slots[e].waiting
      /\ \A e \in Creds : slots[e].waiting \subseteq Calls
  BY DEF SlotInv, CallsOK, Sound, Holding, Waits, SlotsRecord
<1>2. /\ drift' \in [Creds -> Int] /\ drift'[d] = drift[d] - own
      /\ \A e \in Creds \ {d} : drift'[e] = drift[e]
  BY <1>1
<1>3. CASE /\ slots[d].waiting = {}
           /\ slots' = [slots EXCEPT ![d].active = @ - 1]
           /\ call' = Step(c, p)
  <2>1. /\ call' \in [Calls -> CallRecord] /\ call'[c] = p
        /\ \A y \in Calls \ {c} : call'[y] = call[y]
    BY <1>1, <1>3 DEF Step
  <2>2. /\ slots' \in [Creds -> SlotsRecord] /\ slots'[d].active = slots[d].active - 1
        /\ \A e \in Creds : slots'[e].waiting = slots[e].waiting
        /\ \A e \in Creds \ {d} : slots'[e] = slots[e]
    BY <1>1, <1>3 DEF SlotsRecord
  <2>3. CallsOK'
    BY <1>1, <1>2, <2>1, <2>2 DEF SlotInv, CallsOK
  <2>4. Holding(d)' = IF p.slot THEN Holding(d) ELSE Holding(d) \ {c}
    BY <1>1, <2>1 DEF Holding
  <2>5. Cardinality(Holding(d) \ {c}) = Cardinality(Holding(d)) - 1
    BY <1>1, HoldingFinite, FS_RemoveElement
  <2>6. Cardinality(Holding(d)') = Cardinality(Holding(d)) - 1 + own
    BY <2>4, <2>5, HoldingFinite
  <2>7. \A e \in Creds \ {d} : Holding(e)' = Holding(e)
    BY <1>1, <2>1 DEF Holding
  <2>8. slots[d].active \in Int /\ drift[d] \in Int /\ SlotLimit \in Int
    BY <1>1, GatewayAssumption DEF SlotsRecord
  <2>9. Balanced'
    BY <1>1, <1>2, <1>3, <2>2, <2>6, <2>7, <2>8, HoldingFinite DEF SlotInv, Balanced
  <2> QED BY <2>1, <2>3, <2>9 DEF SlotInv, OthersAlike, Alike
<1>4. ASSUME NEW x \in Calls, NextWaiter(x, Step(c, p), d),
             slots' = [slots EXCEPT ![d] = Left(@, {x})],
             call' = [Step(c, p) EXCEPT ![x].slot = TRUE, ![x].pc = "upstream"]
      PROVE  SlotInv' /\ OthersAlike(c) /\ call'[c] = p
  <2> DEFINE q == [call[x] EXCEPT !.slot = TRUE, !.pc = "upstream"]
  <2>1. x \in slots[d].waiting /\ x # c
    BY <1>1, <1>4 DEF NextWaiter
  <2>2. /\ q \in CallRecord /\ Sound(q) /\ q.slot /\ Cred(q) = d
        /\ Cred(call[x]) = d /\ ~call[x].slot /\ Alike(call[x], q)
    BY <1>1, <2>1, HandOver DEF SlotInv
  <2>3. Step(c, p) \in [Calls -> CallRecord] /\ Step(c, p)[x] = call[x]
    BY <1>1, <2>1 DEF Step
  <2>4. call' = [Step(c, p) EXCEPT ![x] = q]
    BY <1>4, <2>3
  <2> HIDE DEF q
  <2>5. /\ call' \in [Calls -> CallRecord] /\ call'[c] = p /\ call'[x] = q
        /\ \A y \in Calls \ {c, x} : call'[y] = call[y]
    BY <1>1, <2>1, <2>2, <2>4 DEF Step
  <2>6. /\ slots' \in [Creds -> SlotsRecord] /\ slots'[d].active = slots[d].active
        /\ slots'[d].waiting = slots[d].waiting \ {x}
        /\ \A e \in Creds \ {d} : slots'[e] = slots[e]
    BY ZenonT(60), <1>1, <1>4 DEF Left, SlotsRecord
  <2>7. \A e \in Creds : x \notin slots'[e].waiting /\ slots'[e].waiting \subseteq slots[e].waiting
    BY <1>1, <2>2, <2>6 DEF SlotInv, CallsOK, Waits
  <2>8. CallsOK'
    <3>1. \A y \in Calls : Sound(call'[y])
      BY <2>2, <2>5 DEF SlotInv, CallsOK
    <3>2. \A e \in Creds : \A y \in slots'[e].waiting : Waits(call'[y], e)
      BY <1>1, <2>5, <2>7 DEF SlotInv, CallsOK
    <3> QED BY <1>2, <2>5, <2>6, <3>1, <3>2 DEF CallsOK
  <2>9. x \notin Holding(d)
    BY <2>2 DEF Holding
  <2>10. Holding(d)' = IF p.slot THEN Holding(d) \cup {x} ELSE (Holding(d) \ {c}) \cup {x}
    BY <1>1, <2>1, <2>2, <2>5 DEF Holding
  <2>11. Cardinality(Holding(d)') = Cardinality(Holding(d)) + own
    <3>1. CASE p.slot
      BY <2>9, <2>10, <3>1, HoldingFinite, FS_AddElement
    <3>2. CASE ~p.slot
      BY <1>1, <2>1, <2>9, <2>10, <3>2, HoldingFinite, Swapped
    <3> QED BY <3>1, <3>2
  <2>12. \A e \in Creds \ {d} : Holding(e)' = Holding(e)
    BY <1>1, <2>2, <2>5 DEF Holding
  <2>13. drift'[d] + Cardinality(Holding(d)') = drift[d] + Cardinality(Holding(d))
    BY <1>1, <1>2, <2>11, HoldingFinite
  <2>14. slots'[d].waiting # {} => slots[d].waiting # {}
    BY <2>6
  <2>15. Balanced'
    <3>1. /\ slots'[d].active = Cardinality(Holding(d)') + drift'[d]
          /\ slots'[d].active <= SlotLimit
          /\ slots'[d].waiting # {} => slots'[d].active = SlotLimit
      <4>1. /\ drift'[d] \in Int /\ Cardinality(Holding(d)') \in Int
            /\ drift[d] \in Int /\ Cardinality(Holding(d)) \in Int
        BY <1>1, <1>2, <2>11, HoldingFinite
      <4> QED BY <1>1, <2>6, <2>13, <2>14, <4>1 DEF SlotInv, Balanced
    <3>2. ASSUME NEW e \in Creds \ {d}
          PROVE  /\ slots'[e].active = Cardinality(Holding(e)') + drift'[e]
                 /\ slots'[e].active <= SlotLimit
                 /\ slots'[e].waiting # {} => slots'[e].active = SlotLimit
      BY <1>2, <2>6, <2>12 DEF SlotInv, Balanced
    <3> QED BY <3>1, <3>2 DEF Balanced
  <2> QED BY <2>2, <2>5, <2>8, <2>15 DEF SlotInv, OthersAlike, Alike
<1> QED BY <1>3, <1>4 DEF GiveBack

\* acquire(): at once, or in the queue.
LEMMA AcquireStep ==
    ASSUME SlotInv, NEW c \in Calls, NEW r \in CallRecord,
           call[c].pc = "prepare", r.pc = "prepare", ~r.slot, Cred(r) \in Creds,
           ~r.aborted, r.old = call[c].old, Acquire(c, r), drift' = drift
    PROVE  SlotInv' /\ (\A y \in Calls : Alike(call[y], call'[y])) /\ call'[c] \in CallRecord
<1> DEFINE d == Cred(r)
<1>1. /\ d \in Creds /\ slots \in [Creds -> SlotsRecord] /\ drift \in [Creds -> Int]
      /\ call \in [Calls -> CallRecord] /\ c \notin Holding(d)
      /\ \A e \in Creds : c \notin slots[e].waiting
      /\ \A e \in Creds : slots[e].waiting \subseteq Calls
      /\ slots[d].active \in Int /\ drift[d] \in Int /\ SlotLimit \in Nat
  BY GatewayAssumption DEF SlotInv, CallsOK, Sound, Holding, Waits, SlotsRecord
<1>2. CASE /\ ~Full(d)
           /\ slots' = [slots EXCEPT ![d].active = @ + 1]
           /\ call' = Step(c, [r EXCEPT !.slot = TRUE, !.pc = "upstream"])
  <2> DEFINE p == [r EXCEPT !.slot = TRUE, !.pc = "upstream"]
  <2>1. /\ p \in CallRecord /\ p.pc = "upstream" /\ p.slot /\ p.queue = r.queue /\ p.at = r.at
        /\ p.old = r.old
    BY DEF CallRecord, Waiting
  <2>2. call' = Step(c, p)
    BY <1>2
  <2> HIDE DEF p
  <2>3. Sound(p) /\ Cred(p) = d
    BY <1>1, <2>1 DEF Sound, Cred, Waiting
  <2>4. /\ call' \in [Calls -> CallRecord] /\ call'[c] = p
        /\ \A y \in Calls \ {c} : call'[y] = call[y]
    BY <1>1, <2>1, <2>2 DEF Step
  <2>5. /\ slots' \in [Creds -> SlotsRecord] /\ slots'[d].active = slots[d].active + 1
        /\ \A e \in Creds : slots'[e].waiting = slots[e].waiting
        /\ \A e \in Creds \ {d} : slots'[e] = slots[e]
    BY <1>1, <1>2 DEF SlotsRecord
  <2>6. CallsOK'
    BY <1>1, <2>3, <2>4, <2>5 DEF SlotInv, CallsOK
  <2>7. Holding(d)' = Holding(d) \cup {c}
    BY <2>1, <2>3, <2>4 DEF Holding
  <2>8. Cardinality(Holding(d)') = Cardinality(Holding(d)) + 1
    BY <1>1, <2>7, HoldingFinite, FS_AddElement
  <2>9. \A e \in Creds \ {d} : Holding(e)' = Holding(e)
    <3>1. ~call[c].slot
      BY DEF SlotInv, CallsOK, Sound
    <3> QED BY <2>3, <2>4, <3>1 DEF Holding
  <2>10. Balanced'
    <3>1. slots[d].waiting = {} /\ slots[d].active + 1 <= SlotLimit
      BY <1>1, <1>2 DEF SlotInv, Balanced, Full
    <3>2. Cardinality(Holding(d)) \in Int
      BY HoldingFinite
    <3>3. /\ slots'[d].active = Cardinality(Holding(d)') + drift'[d]
          /\ slots'[d].active <= SlotLimit /\ slots'[d].waiting = {}
      BY <1>1, <2>5, <2>8, <3>1, <3>2 DEF SlotInv, Balanced
    <3>4. ASSUME NEW e \in Creds \ {d}
          PROVE  /\ slots'[e].active = Cardinality(Holding(e)') + drift'[e]
                 /\ slots'[e].active <= SlotLimit
                 /\ slots'[e].waiting # {} => slots'[e].active = SlotLimit
      BY <2>5, <2>9 DEF SlotInv, Balanced
    <3> QED BY <3>3, <3>4 DEF Balanced
  <2> QED BY <2>1, <2>4, <2>6, <2>10 DEF SlotInv, Alike
<1>3. CASE /\ Full(d)
           /\ slots' = [slots EXCEPT ![d] = Joined(@, c)]
           /\ call' = Step(c, [r EXCEPT !.pc = "slot"])
  <2> DEFINE p == [r EXCEPT !.pc = "slot"]
  <2>1. /\ p \in CallRecord /\ p.pc = "slot" /\ ~p.slot /\ p.queue = r.queue /\ p.at = r.at
        /\ p.old = r.old /\ ~p.aborted
    BY DEF CallRecord, Waiting
  <2>2. call' = Step(c, p)
    BY <1>3
  <2> HIDE DEF p
  <2>3. Sound(p) /\ Waits(p, d)
    BY <1>1, <2>1 DEF Sound, Cred, Waits, Waiting
  <2>4. /\ call' \in [Calls -> CallRecord] /\ call'[c] = p
        /\ \A y \in Calls \ {c} : call'[y] = call[y]
    BY <1>1, <2>1, <2>2 DEF Step
  <2>5. /\ slots' \in [Creds -> SlotsRecord] /\ slots'[d].active = slots[d].active
        /\ slots'[d].waiting = slots[d].waiting \cup {c}
        /\ \A e \in Creds \ {d} : slots'[e] = slots[e]
    BY ZenonT(60), <1>1, <1>3 DEF Joined, SlotsRecord
  <2>6. CallsOK'
    <3>1. \A y \in Calls : Sound(call'[y])
      BY <2>3, <2>4 DEF SlotInv, CallsOK
    <3>2. \A e \in Creds : \A y \in slots'[e].waiting : Waits(call'[y], e)
      BY <1>1, <2>3, <2>4, <2>5 DEF SlotInv, CallsOK
    <3> QED BY <1>1, <2>4, <2>5, <3>1, <3>2 DEF CallsOK
  <2>7. \A e : Holding(e)' = Holding(e)
    <3>1. ~call[c].slot
      BY DEF SlotInv, CallsOK, Sound
    <3> QED BY <2>1, <2>4, <3>1 DEF Holding
  <2>8. slots[d].active = SlotLimit
    BY <1>1, <1>3 DEF Full, SlotInv, Balanced
  <2>9. Balanced'
    BY <1>1, <2>5, <2>7, <2>8 DEF SlotInv, Balanced
  <2> QED BY <2>1, <2>4, <2>6, <2>9 DEF SlotInv, Alike
<1> QED BY <1>2, <1>3 DEF Acquire

\* What joining a queue changes.
LEMMA JoinedType ==
    ASSUME NEW q \in SlotsRecord, NEW c \in Calls
    PROVE  /\ Joined(q, c) \in SlotsRecord /\ Joined(q, c).active = q.active
           /\ Joined(q, c).waiting = q.waiting \cup {c}
BY DEF Joined, SlotsRecord

\* What leaving a queue changes.
LEMMA LeftType ==
    ASSUME NEW q \in SlotsRecord, NEW cs
    PROVE  /\ Left(q, cs) \in SlotsRecord /\ Left(q, cs).active = q.active
           /\ Left(q, cs).waiting = q.waiting \ cs
BY DEF Left, SlotsRecord

\* A search gives the slot to a waiter and waits for another.
LEMMA SearchStep ==
    ASSUME SlotInv, NEW c \in Calls, SearchAgain(c), NEW d, d = Cred(call[c])
    PROVE  SlotInv' /\ \A y \in Calls : Alike(call[y], call'[y])
<1> DEFINE r == call[c]
<1>1. /\ d \in Creds /\ slots \in [Creds -> SlotsRecord] /\ drift \in [Creds -> Int]
      /\ call \in [Calls -> CallRecord] /\ c \in Holding(d) /\ r \in CallRecord
      /\ r.pc = "upstream" /\ ~r.aborted /\ drift' = drift
      /\ \A e \in Creds : c \notin slots[e].waiting
      /\ \A e \in Creds : slots[e].waiting \subseteq Calls
  BY DEF SlotInv, CallsOK, Sound, Holding, Waits, SlotsRecord, SearchAgain, Upstream, Uncounted
<1>2. CASE call' = Step(c, [r EXCEPT !.again = TRUE]) /\ slots' = slots
  <2> DEFINE p == [r EXCEPT !.again = TRUE]
  <2>1. /\ p \in CallRecord /\ p.pc = r.pc /\ p.slot = r.slot /\ p.old = r.old
        /\ p.queue = r.queue /\ p.at = r.at
    BY <1>1 DEF CallRecord
  <2>2. call' = Step(c, p)
    BY <1>2
  <2> HIDE DEF p
  <2>3. Sound(p) /\ Cred(p) = Cred(call[c])
    BY <1>1, <2>1 DEF Sound, Cred, SlotInv, CallsOK, Waiting
  <2>4. SlotInv' /\ OthersAlike(c) /\ call'[c] = p
    BY <1>1, <1>2, <2>1, <2>2, <2>3, MoveStep
  <2> QED BY <2>1, <2>4 DEF OthersAlike, Alike
<1>3. ASSUME NEW x \in Calls, NEW p,
             p = [r EXCEPT !.slot = FALSE, !.pc = "slotAgain", !.again = TRUE],
             NextWaiter(x, Step(c, p), d),
             slots' = [slots EXCEPT ![d] = Joined(Left(@, {x}), c)],
             call' = [Step(c, p) EXCEPT ![x].slot = TRUE, ![x].pc = "upstream"]
      PROVE  SlotInv' /\ \A y \in Calls : Alike(call[y], call'[y])
  <2>1. /\ p \in CallRecord /\ p.pc = "slotAgain" /\ ~p.slot /\ p.old = r.old /\ ~p.aborted
        /\ p.queue = r.queue /\ p.at = r.at
    BY <1>1, <1>3 DEF CallRecord, Waiting
  <2>2. Sound(p) /\ Waits(p, d) /\ Alike(r, p)
    BY <1>1, <2>1 DEF Sound, Cred, Waits, Alike, Waiting
  <2> DEFINE q == [call[x] EXCEPT !.slot = TRUE, !.pc = "upstream"]
  <2>3. x \in slots[d].waiting /\ x # c
    BY <1>1, <1>3 DEF NextWaiter
  <2>4. /\ q \in CallRecord /\ Sound(q) /\ q.slot /\ Cred(q) = d
        /\ Cred(call[x]) = d /\ ~call[x].slot /\ Alike(call[x], q)
    BY <1>1, <2>3, HandOver DEF SlotInv
  <2>5. Step(c, p) \in [Calls -> CallRecord] /\ Step(c, p)[x] = call[x]
    BY <1>1, <2>1, <2>3 DEF Step
  <2>6. call' = [Step(c, p) EXCEPT ![x] = q]
    BY <1>3, <2>5
  <2> HIDE DEF q
  <2>7. /\ call' \in [Calls -> CallRecord] /\ call'[c] = p /\ call'[x] = q
        /\ \A y \in Calls \ {c, x} : call'[y] = call[y]
    BY <1>1, <2>1, <2>3, <2>4, <2>6 DEF Step
  <2>8. /\ slots' \in [Creds -> SlotsRecord] /\ slots'[d].active = slots[d].active
        /\ slots'[d].waiting = (slots[d].waiting \ {x}) \cup {c}
        /\ \A e \in Creds \ {d} : slots'[e] = slots[e]
    <3>1. slots[d] \in SlotsRecord
      BY <1>1
    <3>2. /\ Left(slots[d], {x}) \in SlotsRecord
          /\ Left(slots[d], {x}).active = slots[d].active
          /\ Left(slots[d], {x}).waiting = slots[d].waiting \ {x}
      BY <3>1, LeftType
    <3>3. slots'[d] = Joined(Left(slots[d], {x}), c)
      BY <1>1, <1>3
    <3>4. slots'[d] \in SlotsRecord
      BY <3>2, <3>3, JoinedType
    <3>5. /\ slots'[d].active = Left(slots[d], {x}).active
          /\ slots'[d].waiting = Left(slots[d], {x}).waiting \cup {c}
      BY ZenonT(60), <3>2, <3>3, JoinedType
    <3>6. \A e \in Creds \ {d} : slots'[e] = slots[e]
      BY <1>1, <1>3
    <3>7. slots' \in [Creds -> SlotsRecord]
      <4>1. \A e \in Creds : slots'[e] \in SlotsRecord
        BY <1>1, <3>4, <3>6
      <4> QED BY <1>1, <1>3, <4>1
    <3> QED BY <3>2, <3>5, <3>6, <3>7
  <2>9. \A e \in Creds : x \notin slots'[e].waiting
    BY <1>1, <2>3, <2>4, <2>8 DEF SlotInv, CallsOK, Waits
  <2>10. CallsOK'
    <3>1. \A y \in Calls : Sound(call'[y])
      BY <2>2, <2>4, <2>7 DEF SlotInv, CallsOK
    <3>2. \A e \in Creds : \A y \in slots'[e].waiting : Waits(call'[y], e)
      BY <1>1, <2>2, <2>7, <2>8, <2>9 DEF SlotInv, CallsOK
    <3> QED BY <1>1, <2>7, <2>8, <3>1, <3>2 DEF CallsOK
  <2>11. Holding(d)' = (Holding(d) \ {c}) \cup {x}
    BY <1>1, <2>1, <2>3, <2>4, <2>7 DEF Holding
  <2>12. x \notin Holding(d)
    BY <2>4 DEF Holding
  <2>13. Cardinality(Holding(d)') = Cardinality(Holding(d))
    BY <1>1, <2>3, <2>11, <2>12, Swapped
  <2>14. \A e \in Creds \ {d} : Holding(e)' = Holding(e)
    BY <1>1, <2>1, <2>4, <2>7 DEF Holding
  <2>15. Balanced'
    <3>1. slots[d].active = SlotLimit
      BY <1>1, <2>3 DEF SlotInv, Balanced
    <3> QED BY <1>1, <2>8, <2>13, <2>14, <3>1 DEF SlotInv, Balanced
  <2> QED BY <2>2, <2>4, <2>7, <2>10, <2>15 DEF SlotInv, Alike
<1> QED BY <1>1, <1>2, <1>3 DEF SearchAgain

\* A waiter's time is up.
LEMMA LeaveStep ==
    ASSUME SlotInv, NEW c \in Calls, call[c].pc \in {"slot", "slotAgain"}, ~call[c].aborted,
           NEW p \in CallRecord, Sound(p), ~p.slot,
           slots' = [slots EXCEPT ![Cred(call[c])] = Left(@, {c})],
           call' = Step(c, p), drift' = drift
    PROVE  SlotInv' /\ OthersAlike(c) /\ call'[c] = p
<1> DEFINE d == Cred(call[c])
<1>1. /\ d \in Creds /\ slots \in [Creds -> SlotsRecord] /\ ~call[c].slot
      /\ call' \in [Calls -> CallRecord] /\ call'[c] = p
      /\ \A y \in Calls \ {c} : call'[y] = call[y]
      /\ \A e \in Creds \ {d} : c \notin slots[e].waiting
      /\ \A e \in Creds : slots[e].waiting \subseteq Calls
  BY DEF SlotInv, CallsOK, Sound, Waits, SlotsRecord, Step
<1>2. /\ slots' \in [Creds -> SlotsRecord] /\ slots'[d].active = slots[d].active
      /\ slots'[d].waiting = slots[d].waiting \ {c}
      /\ \A e \in Creds \ {d} : slots'[e] = slots[e]
  <2>1. slots[d] \in SlotsRecord /\ slots'[d] = Left(slots[d], {c})
    BY <1>1
  <2>2. \A e \in Creds \ {d} : slots'[e] = slots[e]
    BY <1>1
  <2>3. /\ slots'[d] \in SlotsRecord /\ slots'[d].active = slots[d].active
        /\ slots'[d].waiting = slots[d].waiting \ {c}
    BY <2>1, LeftType
  <2>4. slots' \in [Creds -> SlotsRecord]
    <3>1. \A e \in Creds : slots'[e] \in SlotsRecord
      BY <1>1, <2>2, <2>3
    <3> QED BY <1>1, <3>1
  <2> QED BY <2>2, <2>3, <2>4
<1>3. CallsOK'
  <2>1. \A y \in Calls : Sound(call'[y])
    BY <1>1 DEF SlotInv, CallsOK
  <2>2. \A e \in Creds : \A y \in slots'[e].waiting : Waits(call'[y], e)
    BY ZenonT(60), <1>1, <1>2 DEF SlotInv, CallsOK
  <2> QED BY <1>1, <1>2, <2>1, <2>2 DEF SlotInv, CallsOK
<1>4. \A e : Holding(e)' = Holding(e)
  BY <1>1 DEF Holding
<1>5. Balanced'
  BY <1>2, <1>4 DEF SlotInv, Balanced
<1> QED BY <1>1, <1>3, <1>5 DEF SlotInv, OthersAlike, Alike

\* An aborted call waits in no queue.
LEMMA AbortStep ==
    ASSUME SlotInv, NEW cs \in SUBSET Calls, AbortAll(cs), drift' = drift
    PROVE  SlotInv' /\ \A y \in Calls : Alike(call[y], call'[y])
<1> DEFINE gone == {c \in cs : call[c].pc \in Waiting /\ ~call[c].aborted}
<1>1. ASSUME NEW y \in Calls
      PROVE  /\ call'[y] \in CallRecord /\ call'[y].pc = call[y].pc /\ call'[y].old = call[y].old
             /\ call'[y].slot = call[y].slot /\ Cred(call'[y]) = Cred(call[y])
             /\ TriesLeft(call'[y]) = TriesLeft(call[y])
             /\ y \in gone => call[y].pc \in Waiting
             /\ y \notin gone => call'[y] = call[y]
  <2>1. call[y] \in CallRecord
    BY DEF SlotInv, CallsOK
  <2>2. ASSUME NEW r \in CallRecord
        PROVE  LET p == [r EXCEPT !.aborted = TRUE] IN
               /\ p \in CallRecord /\ p.pc = r.pc /\ p.old = r.old /\ p.slot = r.slot
               /\ p.queue = r.queue /\ p.at = r.at /\ p.attempts = r.attempts
    BY DEF CallRecord
  <2>3. call'[y] = IF y \in gone THEN [call[y] EXCEPT !.aborted = TRUE] ELSE call[y]
    BY DEF AbortAll
  <2>4. y \in gone => call[y].pc \in Waiting
    OBVIOUS
  <2> HIDE DEF gone
  <2> QED BY <2>1, <2>2, <2>3, <2>4 DEF Cred, TriesLeft
<1>2. ASSUME NEW d \in Creds
      PROVE  /\ slots'[d] \in SlotsRecord /\ slots'[d].active = slots[d].active
             /\ slots'[d].waiting = slots[d].waiting \ gone
             /\ slots[d].waiting \subseteq Calls
  <2>1. slots[d] \in SlotsRecord /\ slots'[d] = Left(slots[d], gone)
    BY DEF SlotInv, CallsOK, AbortAll
  <2> HIDE DEF gone
  <2> QED BY <2>1 DEF Left, SlotsRecord
<1>3. call' \in [Calls -> CallRecord] /\ slots' \in [Creds -> SlotsRecord]
  <2>1. call' = [c \in Calls |-> call'[c]] /\ slots' = [d \in Creds |-> slots'[d]]
    BY DEF AbortAll
  <2> QED BY <1>1, <1>2, <2>1
<1> HIDE DEF gone
<1>4. \A y \in Calls : Sound(call'[y])
  BY <1>1 DEF SlotInv, CallsOK, Sound
<1>5. \A d \in Creds : \A y \in slots'[d].waiting : Waits(call'[y], d)
  BY <1>1, <1>2 DEF SlotInv, CallsOK
<1>6. \A d : Holding(d)' = Holding(d)
  BY <1>1 DEF Holding
<1>7. Balanced'
  BY <1>2, <1>6 DEF SlotInv, Balanced
<1> QED BY <1>1, <1>3, <1>4, <1>5, <1>7 DEF SlotInv, CallsOK, Alike

----------------------------------------------------------------------------
(* The steps of a call *)

\* What an edit of a call's record leaves alone.
Kept(r, p) ==
    /\ p.queue = r.queue /\ p.at = r.at /\ p.attempts = r.attempts
    /\ p.old = r.old /\ p.aborted = r.aborted /\ p.slot = r.slot

\* Where a call goes next in routeCall.
LEMMA PlaceType ==
    ASSUME NEW r \in CallRecord, NEW x \in {"try", "prepare", "describing", "write"}
    PROVE  LET p == [r EXCEPT !.pc = x] IN p \in CallRecord /\ Kept(r, p) /\ p.pc = x
<1>1. x \in {"idle", "try", "prepare", "commit", "write"} \cup Waiting
  BY DEF Waiting
<1> QED BY <1>1 DEF CallRecord, Kept

\* A candidate is taken, as a probe or not.
LEMMA ProbeType ==
    ASSUME NEW r \in CallRecord, NEW b \in BOOLEAN
    PROVE  LET p == [r EXCEPT !.pc = "prepare", !.probe = b]
           IN  p \in CallRecord /\ Kept(r, p) /\ p.pc = "prepare"
BY DEF CallRecord, Kept

\* The images are described, or cannot be.
LEMMA VisionType ==
    ASSUME NEW r \in CallRecord, NEW v \in {"none", "told", "failed"}
    PROVE  LET p == [r EXCEPT !.pc = "prepare", !.vision = v]
           IN  p \in CallRecord /\ Kept(r, p) /\ p.pc = "prepare"
BY DEF CallRecord, Kept

\* What a call learns while it is at its upstream.
LEMMA UpstreamTypes ==
    ASSUME NEW r \in CallRecord, NEW b \in BOOLEAN
    PROVE  LET p == [r EXCEPT !.again = b]
               q == [r EXCEPT !.sent = TRUE]
               s == [r EXCEPT !.pc = "idled", !.again = FALSE]
           IN  /\ p \in CallRecord /\ Kept(r, p) /\ p.pc = r.pc
               /\ q \in CallRecord /\ Kept(r, q) /\ q.pc = r.pc
               /\ s \in CallRecord /\ Kept(r, s) /\ s.pc = "idled"
BY ZenonT(60) DEF CallRecord, Waiting, Kept

\* How a call gives up its slot.
LEMMA SlotTypes ==
    ASSUME NEW r \in CallRecord
    PROVE  LET p == [r EXCEPT !.slot = FALSE]
               q == [r EXCEPT !.slot = FALSE, !.probe = FALSE]
               s == [r EXCEPT !.pc = "try", !.retries = 0,
                              !.slot = FALSE, !.probe = FALSE, !.again = FALSE]
           IN  /\ p \in CallRecord /\ ~p.slot /\ p.old = r.old
               /\ q \in CallRecord /\ ~q.slot /\ q.old = r.old
               /\ s \in CallRecord /\ ~s.slot /\ s.old = r.old /\ s.pc = "try"
<1>1. 0 \in 0 .. PerCandidate
  BY GatewayAssumption
<1> QED BY ZenonT(60), <1>1 DEF CallRecord, Waiting

\* An attempt is counted.
LEMMA AttemptType ==
    ASSUME NEW r \in CallRecord, TriesLeft(r)
    PROVE  LET p == [r EXCEPT !.attempts = @ + 1] IN
           /\ p \in CallRecord /\ p.pc = r.pc /\ p.slot = r.slot /\ p.old = r.old
           /\ p.queue = r.queue /\ p.at = r.at /\ p.aborted = r.aborted
<1>1. r.attempts + 1 \in 0 .. TotalAttempts
  <2>1. r.attempts \in 0 .. TotalAttempts
    BY DEF CallRecord
  <2>2. r.attempts < TotalAttempts
    BY DEF TriesLeft
  <2> QED BY <2>1, <2>2, GatewayAssumption
<1> QED BY <1>1 DEF CallRecord

\* A record that keeps its place and slot is as sound as it was.
LEMMA KeptSound ==
    ASSUME NEW r, NEW p, Sound(r), Kept(r, p), p.pc = r.pc
    PROVE  Sound(p) /\ Alike(r, p) /\ Cred(p) = Cred(r)
BY DEF Sound, Kept, Alike, Cred, TriesLeft

\* A candidate of the plan is a credential.
LEMMA CandidateType ==
    ASSUME NEW r \in CallRecord, r.at <= Len(r.queue)
    PROVE  Cred(r) \in Creds
<1>1. r.queue \in Seq(Creds) /\ r.at \in Nat \ {0}
  <2>1. <<>> \in Seq(Creds)
    OBVIOUS
  <2> QED BY <2>1, GatewayAssumption DEF CallRecord
<1> QED BY <1>1 DEF Cred

\* The published record of a call, once its slot is settled, is sound.
LEMMA PublishSound ==
    ASSUME NEW r \in CallRecord, NEW o \in Ends, r.slot => Cred(r) \in Creds,
           r.pc \notin {"idle", "write"}
    PROVE  LET p == Publish(r, o) IN
           /\ p \in CallRecord /\ Sound(p) /\ Alike(r, p) /\ p.slot = r.slot /\ Cred(p) = Cred(r)
BY PublishType DEF Sound, Alike, Cred

\* What routeCall decides leaves the call sound.
LEMMA DecisionsSound ==
    ASSUME NEW c \in Calls, NEW r \in CallRecord, NEW kind \in Failures,
           NEW p \in Decisions(c, r, kind), ~r.aborted, r.pc \notin {"idle", "write"}
    PROVE  p \in CallRecord /\ Sound(p) /\ Alike(r, p) /\ ~p.slot /\ ~p.aborted
BY DecisionsType DEF Sound, Alike

----------------------------------------------------------------------------
\* A slot is lost with the call that had it.
LEMMA LeakStep ==
    ASSUME SlotInv, NEW c \in Calls, NEW d, d = Cred(call[c]), call[c].slot,
           call[c].pc \notin {"slot", "slotAgain"},
           NEW p \in CallRecord, Sound(p), ~p.slot,
           call' = Step(c, p), slots' = slots, drift' = [drift EXCEPT ![d] = @ + 1]
    PROVE  SlotInv' /\ OthersAlike(c) /\ call'[c] = p
<1>1. /\ d \in Creds /\ c \in Holding(d) /\ drift \in [Creds -> Int]
      /\ call' \in [Calls -> CallRecord] /\ call'[c] = p
      /\ \A y \in Calls \ {c} : call'[y] = call[y]
      /\ \A e \in Creds : c \notin slots[e].waiting /\ slots[e].waiting \subseteq Calls
  BY DEF SlotInv, CallsOK, Sound, Holding, Waits, SlotsRecord, Step
<1>2. /\ drift' \in [Creds -> Int] /\ drift'[d] = drift[d] + 1
      /\ \A e \in Creds \ {d} : drift'[e] = drift[e]
  BY <1>1
<1>3. CallsOK'
  <2>1. \A y \in Calls : Sound(call'[y])
    BY <1>1 DEF SlotInv, CallsOK
  <2>2. \A e \in Creds : \A y \in slots[e].waiting : Waits(call'[y], e)
    BY <1>1 DEF SlotInv, CallsOK
  <2> QED BY <1>1, <1>2, <2>1, <2>2 DEF SlotInv, CallsOK
<1>4. Holding(d)' = Holding(d) \ {c}
  BY <1>1 DEF Holding
<1>5. Cardinality(Holding(d)') = Cardinality(Holding(d)) - 1
  BY ZenonT(60), <1>1, <1>4, HoldingFinite, FS_RemoveElement
<1>6. \A e \in Creds \ {d} : Holding(e)' = Holding(e)
  BY <1>1 DEF Holding
<1>7. Balanced'
  <2>1. Cardinality(Holding(d)) \in Int /\ drift[d] \in Int
    BY <1>1, HoldingFinite
  <2>2. Cardinality(Holding(d)') + drift'[d] = Cardinality(Holding(d)) + drift[d]
    BY <1>2, <1>5, <2>1
  <2> QED BY <1>2, <1>6, <2>2 DEF SlotInv, Balanced
<1> QED BY <1>1, <1>3, <1>7 DEF SlotInv, OthersAlike, Alike

\* The calls in flight are now those of a window that has ended.
LEMMA AgedStep ==
    ASSUME SlotInv, NEW S,
           call' = [c \in Calls |-> [call[c] EXCEPT !.old = c \in S]],
           slots' = slots, drift' = drift
    PROVE  SlotInv' /\ \A y \in Calls : call'[y].pc = call[y].pc /\ call'[y].old = (y \in S)
<1>1. ASSUME NEW y \in Calls
      PROVE  /\ call'[y] \in CallRecord /\ call'[y].pc = call[y].pc /\ call'[y].old = (y \in S)
             /\ call'[y].slot = call[y].slot /\ Cred(call'[y]) = Cred(call[y])
             /\ TriesLeft(call'[y]) = TriesLeft(call[y])
             /\ call'[y].aborted = call[y].aborted
  <2>1. call[y] \in CallRecord /\ (y \in S) \in BOOLEAN
    BY DEF SlotInv, CallsOK
  <2>2. ASSUME NEW r \in CallRecord, NEW b \in BOOLEAN
        PROVE  LET p == [r EXCEPT !.old = b] IN
               /\ p \in CallRecord /\ p.pc = r.pc /\ p.old = b /\ p.slot = r.slot
               /\ p.queue = r.queue /\ p.at = r.at /\ p.attempts = r.attempts
               /\ p.aborted = r.aborted
    BY DEF CallRecord
  <2>3. call'[y] = [call[y] EXCEPT !.old = y \in S]
    OBVIOUS
  <2> QED BY <2>1, <2>2, <2>3 DEF Cred, TriesLeft
<1>2. call' \in [Calls -> CallRecord]
  <2>1. call' = [c \in Calls |-> call'[c]]
    OBVIOUS
  <2> QED BY <1>1, <2>1
<1>3. CallsOK'
  <2>1. \A y \in Calls : Sound(call'[y])
    BY <1>1 DEF SlotInv, CallsOK, Sound
  <2>2. \A d \in Creds : slots[d].waiting \subseteq Calls
    BY DEF SlotInv, CallsOK, SlotsRecord
  <2>3. \A d \in Creds : \A y \in slots[d].waiting : Waits(call'[y], d)
    BY <1>1, <2>2 DEF SlotInv, CallsOK, Waits
  <2> QED BY <1>2, <2>1, <2>3 DEF SlotInv, CallsOK
<1>4. \A d : Holding(d)' = Holding(d)
  BY <1>1 DEF Holding
<1>5. Balanced'
  BY <1>4 DEF SlotInv, Balanced
<1> QED BY <1>1, <1>3, <1>5 DEF SlotInv

\* A step of one call, that looks to the others like any other step of it.
LEMMA AllAlike ==
    ASSUME NEW c \in Calls, NEW p, OthersAlike(c), call'[c] = p, Alike(call[c], p)
    PROVE  \A y \in Calls : Alike(call[y], call'[y])
BY DEF OthersAlike

Quiet == SlotInv' /\ \A y \in Calls : Alike(call[y], call'[y])

\* What is known of a call before each of its steps.
LEMMA CallTypes ==
    ASSUME SlotInv, NEW c \in Calls
    PROVE  /\ call[c] \in CallRecord /\ Sound(call[c])
           /\ call[c].slot => Cred(call[c]) \in Creds
           /\ call[c].queue \in Seq(Creds) /\ call[c].at \in Nat \ {0}
<1>1. call[c] \in CallRecord /\ Sound(call[c])
  BY DEF SlotInv, CallsOK
<1>2. <<>> \in Seq(Creds)
  OBVIOUS
<1> QED BY <1>1, <1>2, GatewayAssumption DEF CallRecord, Sound

\* The synchronous part of a call: the loop of routeCall over the candidates.
LEMMA SyncSlots ==
    ASSUME SlotInv, NEW c \in Calls, Sync(c)
    PROVE  Quiet
<1>0. /\ call[c] \in CallRecord /\ Sound(call[c])
      /\ call[c].slot => Cred(call[c]) \in Creds
  BY CallTypes
<1>1. CASE GiveUp(c)
  <2> DEFINE p == Publish(call[c], "failure")
  <2>1. "failure" \in Ends
    BY DEF Ends
  <2>2. call[c].pc = "try" /\ call' = Step(c, p) /\ slots' = slots /\ drift' = drift
    BY <1>1 DEF GiveUp, Uncounted
  <2>3. /\ p \in CallRecord /\ Sound(p) /\ Alike(call[c], p)
        /\ p.slot = call[c].slot /\ Cred(p) = Cred(call[c])
    BY <1>0, <2>1, <2>2, PublishSound
  <2> HIDE DEF p
  <2> QED BY <2>2, <2>3, MoveStep, AllAlike DEF Quiet
<1>2. CASE PassOver(c) \/ Skip(c)
  <2> DEFINE p == Reset(call[c])
  <2>1. /\ call[c].pc \in {"try", "prepare"} /\ call' = Step(c, p)
        /\ slots' = slots /\ drift' = drift
    BY <1>2 DEF PassOver, Skip, Tries, Prepares, Uncounted
  <2>2. /\ p \in CallRecord /\ Sound(p) /\ Alike(call[c], p) /\ p.slot = call[c].slot /\ ~p.slot
    BY <1>0, <2>1, ResetType DEF Sound, Alike, Waiting
  <2> HIDE DEF p
  <2> QED BY <2>1, <2>2, MoveStep, AllAlike DEF Quiet
<1>3. CASE Admit(c)
  <2>1. /\ call[c].pc = "try" /\ call[c].at <= Len(call[c].queue) /\ TriesLeft(call[c])
        /\ slots' = slots /\ drift' = drift
    BY <1>3 DEF Admit, Tries, Uncounted
  <2>2. Cred(call[c]) \in Creds
    BY <1>0, <2>1, CandidateType
  <2>3. PICK p \in CallRecord : Kept(call[c], p) /\ p.pc = "prepare" /\ call' = Step(c, p)
    <3> DEFINE b == Admitted(breaker[Cred(call[c])]).state = "half-open"
               p == [call[c] EXCEPT !.pc = "prepare", !.probe = b]
               q == [call[c] EXCEPT !.pc = "prepare"]
    <3>1. b \in BOOLEAN
      OBVIOUS
    <3> HIDE DEF b
    <3>2. p \in CallRecord /\ Kept(call[c], p) /\ p.pc = "prepare"
      BY <1>0, <3>1, ProbeType
    <3>3. q \in CallRecord /\ Kept(call[c], q) /\ q.pc = "prepare"
      BY <1>0, PlaceType
    <3>4. call' = Step(c, p) \/ call' = Step(c, q)
      BY <1>3 DEF Admit, b
    <3> HIDE DEF p, q
    <3> QED BY <3>2, <3>3, <3>4
  <2>4. Sound(p) /\ Alike(call[c], p) /\ p.slot = call[c].slot /\ ~p.slot
    BY <1>0, <2>1, <2>2, <2>3 DEF Sound, Alike, Kept, Cred, TriesLeft, Waiting
  <2> QED BY <2>1, <2>3, <2>4, MoveStep, AllAlike DEF Quiet
<1>4. CASE Describe(c)
  <2> DEFINE p == [call[c] EXCEPT !.pc = "describing"]
  <2>1. call[c].pc = "prepare" /\ call' = Step(c, p) /\ slots' = slots /\ drift' = drift
    BY <1>4 DEF Describe, Prepares, Uncounted
  <2>2. p \in CallRecord /\ Kept(call[c], p) /\ p.pc = "describing"
    BY <1>0, PlaceType
  <2> HIDE DEF p
  <2>3. Sound(p) /\ Alike(call[c], p) /\ p.slot = call[c].slot /\ ~p.slot
    BY <1>0, <2>1, <2>2 DEF Sound, Alike, Kept, Cred, TriesLeft, Waiting
  <2> QED BY <2>1, <2>2, <2>3, MoveStep, AllAlike DEF Quiet
<1>5. CASE Escapes(c)
  <2> DEFINE p == Publish(call[c], "failure")
  <2>1. "failure" \in Ends
    BY DEF Ends
  <2>2. /\ call[c].pc \in {"prepare", "describing"}
        /\ call' = Step(c, p) /\ slots' = slots /\ drift' = drift
    BY <1>5 DEF Escapes, Prepares, Uncounted
  <2>3. /\ p \in CallRecord /\ Sound(p) /\ Alike(call[c], p)
        /\ p.slot = call[c].slot /\ Cred(p) = Cred(call[c])
    BY <1>0, <2>1, <2>2, PublishSound
  <2> HIDE DEF p
  <2> QED BY <2>2, <2>3, MoveStep, AllAlike DEF Quiet
<1>6. CASE Send(c)
  <2> DEFINE p == [call[c] EXCEPT !.attempts = @ + 1]
  <2>1. call[c].pc = "prepare" /\ Acquire(c, p) /\ drift' = drift
    BY <1>6 DEF Send, Prepares, Uncounted
  <2>2. TriesLeft(call[c]) /\ ~call[c].slot /\ ~call[c].aborted /\ Cred(call[c]) \in Creds
    BY <1>0, <2>1 DEF Sound, Waiting
  <2>3. /\ p \in CallRecord /\ p.pc = call[c].pc /\ p.slot = call[c].slot /\ p.old = call[c].old
        /\ p.queue = call[c].queue /\ p.at = call[c].at /\ p.aborted = call[c].aborted
    BY <1>0, <2>2, AttemptType
  <2> HIDE DEF p
  <2>4. Cred(p) \in Creds
    BY <2>2, <2>3 DEF Cred
  <2> QED BY <2>1, <2>2, <2>3, <2>4, AcquireStep DEF Quiet
<1>7. CASE RefusedSlot(c)
  <2> DEFINE q == [call[c] EXCEPT !.attempts = @ + 1]
  <2>1. call[c].pc = "prepare" /\ slots' = slots /\ drift' = drift
    BY <1>7 DEF RefusedSlot, Prepares, TakeFailure, Uncounted
  <2>2. TriesLeft(call[c]) /\ ~call[c].slot /\ ~call[c].aborted
    BY <1>0, <2>1 DEF Sound, Waiting
  <2>3. q \in CallRecord /\ q.pc = "prepare" /\ q.old = call[c].old /\ ~q.aborted
    BY <1>0, <2>1, <2>2, AttemptType
  <2>4. PICK p \in Decisions(c, q, "local") : call' = Step(c, p)
    BY <1>7 DEF RefusedSlot
  <2> HIDE DEF q
  <2>5. "local" \in Failures
    BY DEF Failures
  <2>6. p \in CallRecord /\ Sound(p) /\ Alike(q, p) /\ ~p.slot
    BY <2>3, <2>4, <2>5, DecisionsSound
  <2>7. Alike(call[c], p) /\ p.slot = call[c].slot
    BY <1>0, <2>1, <2>2, <2>3, <2>6 DEF Alike, CallRecord
  <2> QED BY <2>1, <2>2, <2>4, <2>6, <2>7, MoveStep, AllAlike DEF Quiet
<1> QED BY <1>1, <1>2, <1>3, <1>4, <1>5, <1>6, <1>7 DEF Sync

\* A failure that is told at once gives the slot back.
LEMMA FailureSlots ==
    ASSUME SlotInv, NEW c \in Calls, NEW kind \in Failures,
           call[c].pc \in {"upstream", "idled"}, ~call[c].aborted,
           NEW p \in Decisions(c, call[c], kind),
           GiveBack(Cred(call[c]), Step(c, p)), drift' = drift
    PROVE  Quiet
<1>1. /\ call[c] \in CallRecord /\ call[c].slot /\ Cred(call[c]) \in Creds
      /\ drift \in [Creds -> Int]
  BY CallTypes DEF Sound, SlotInv, CallsOK
<1>2. p \in CallRecord /\ Sound(p) /\ Alike(call[c], p) /\ ~p.slot
  BY <1>1, DecisionsSound
<1>3. drift' = [drift EXCEPT ![Cred(call[c])] = IF p.slot THEN @ - 1 ELSE @]
  BY <1>1, <1>2
<1> QED BY <1>1, <1>2, <1>3, BackStep, AllAlike DEF Quiet

\* A failure that is told after the answer keeps the slot until then.
LEMMA LateSlots ==
    ASSUME SlotInv, NEW c \in Calls, NEW o \in Ends,
           call[c].pc \in {"upstream", "idled"},
           call' = Step(c, Publish(call[c], o)), slots' = slots, drift' = drift
    PROVE  Quiet
<1> DEFINE p == Publish(call[c], o)
<1>1. call[c] \in CallRecord /\ (call[c].slot => Cred(call[c]) \in Creds)
  BY CallTypes
<1>2. /\ p \in CallRecord /\ Sound(p) /\ Alike(call[c], p)
      /\ p.slot = call[c].slot /\ Cred(p) = Cred(call[c])
  BY <1>1, PublishSound
<1>3. call' = Step(c, p)
  OBVIOUS
<1> HIDE DEF p
<1> QED BY <1>2, <1>3, MoveStep, AllAlike DEF Quiet

\* What a call learns at its upstream.
LEMMA UpstreamSlots ==
    ASSUME SlotInv, NEW c \in Calls,
           Described(c) \/ FirstByte(c) \/ Retry(c) \/ HeadersAgain(c)
    PROVE  Quiet
<1>1. call[c] \in CallRecord /\ Sound(call[c])
  BY CallTypes
<1>2. slots' = slots /\ drift' = drift
  BY DEF Described, FirstByte, Retry, HeadersAgain, Uncounted
<1>3. ASSUME NEW p \in CallRecord, Sound(p), Alike(call[c], p), call' = Step(c, p),
             p.slot = call[c].slot, Cred(p) = Cred(call[c]),
             call[c].pc \in {"upstream", "describing", "sleep"}
      PROVE  Quiet
  BY <1>2, <1>3, MoveStep, AllAlike DEF Quiet
<1>4. CASE Described(c)
  <2>1. PICK v \in {"told", "failed"} :
            call' = Step(c, [call[c] EXCEPT !.pc = "prepare", !.vision = v])
    BY <1>4 DEF Described
  <2> DEFINE p == [call[c] EXCEPT !.pc = "prepare", !.vision = v]
  <2>2. p \in CallRecord /\ Kept(call[c], p) /\ p.pc = "prepare"
    BY <1>1, VisionType
  <2>3. call' = Step(c, p) /\ call[c].pc = "describing" /\ ~call[c].aborted
    BY <1>4, <2>1 DEF Described
  <2> HIDE DEF p
  <2>4. Sound(p) /\ Alike(call[c], p) /\ p.slot = call[c].slot /\ Cred(p) = Cred(call[c])
    BY <1>1, <2>2, <2>3 DEF Sound, Alike, Kept, Cred, TriesLeft
  <2> QED BY <1>3, <2>2, <2>3, <2>4
<1>5. CASE Retry(c)
  <2> DEFINE p == [call[c] EXCEPT !.pc = "try"]
  <2>1. p \in CallRecord /\ Kept(call[c], p) /\ p.pc = "try"
    BY <1>1, PlaceType
  <2>2. call' = Step(c, p) /\ call[c].pc = "sleep" /\ ~call[c].aborted
    BY <1>5 DEF Retry
  <2> HIDE DEF p
  <2>3. Sound(p) /\ Alike(call[c], p) /\ p.slot = call[c].slot /\ Cred(p) = Cred(call[c])
    BY <1>1, <2>1, <2>2 DEF Sound, Alike, Kept, Cred
  <2> QED BY <1>3, <2>1, <2>2, <2>3
<1>6. CASE FirstByte(c)
  <2> DEFINE p == [call[c] EXCEPT !.sent = TRUE]
  <2>1. p \in CallRecord /\ Kept(call[c], p) /\ p.pc = call[c].pc
    BY <1>1, UpstreamTypes
  <2>2. call' = Step(c, p) /\ call[c].pc = "upstream"
    BY <1>6 DEF FirstByte, Upstream
  <2> HIDE DEF p
  <2>3. Sound(p) /\ Alike(call[c], p) /\ Cred(p) = Cred(call[c]) /\ p.slot = call[c].slot
    BY <1>1, <2>1, KeptSound DEF Kept
  <2> QED BY <1>3, <2>1, <2>2, <2>3
<1>7. CASE HeadersAgain(c)
  <2> DEFINE p == [call[c] EXCEPT !.again = FALSE]
  <2>1. p \in CallRecord /\ Kept(call[c], p) /\ p.pc = call[c].pc
    BY <1>1, UpstreamTypes
  <2>2. call' = Step(c, p) /\ call[c].pc = "upstream"
    BY <1>7 DEF HeadersAgain, Upstream
  <2> HIDE DEF p
  <2>3. Sound(p) /\ Alike(call[c], p) /\ Cred(p) = Cred(call[c]) /\ p.slot = call[c].slot
    BY <1>1, <2>1, KeptSound DEF Kept
  <2> QED BY <1>3, <2>1, <2>2, <2>3
<1> QED BY <1>4, <1>5, <1>6, <1>7

\* A slot is given back, lost, or waited for no more.
LEMMA GivenSlots ==
    ASSUME SlotInv, NEW c \in Calls,
           SlotTimesOut(c) \/ Resend(c) \/ IdleInSearch(c) \/ Unsent(c) \/ Cancelled(c)
    PROVE  Quiet
<1> DEFINE r == call[c]
<1>1. /\ call[c] \in CallRecord /\ Sound(call[c]) /\ drift \in [Creds -> Int]
      /\ call[c].slot => Cred(call[c]) \in Creds
  BY CallTypes DEF SlotInv, CallsOK
<1>2. "failure" \in Ends /\ "local" \in Failures /\ "rate" \in Failures
      /\ Failures \subseteq Ends
  BY DEF Ends, Failures, AllKinds
<1>3. CASE SlotTimesOut(c)
  <2> DEFINE kind == IF call[c].pc = "slotAgain" THEN "rate" ELSE "local"
  <2>1. /\ call[c].pc \in {"slot", "slotAgain"} /\ ~call[c].aborted /\ ~call[c].slot
        /\ slots' = [slots EXCEPT ![Cred(call[c])] = Left(@, {c})] /\ drift' = drift
    BY <1>1, <1>3 DEF SlotTimesOut, TakeLateFailure, TakeFailure, Uncounted, Sound
  <2>2. kind \in Failures /\ kind \in Ends
    BY <1>2
  <2>3. call' = Step(c, Publish(call[c], kind))
        \/ \E p \in Decisions(c, call[c], kind) : call' = Step(c, p)
    BY <1>3 DEF SlotTimesOut, TakeLateFailure
  <2> HIDE DEF kind
  <2>4. PICK p \in CallRecord : Sound(p) /\ Alike(call[c], p) /\ ~p.slot /\ call' = Step(c, p)
    BY <1>1, <2>1, <2>2, <2>3, PublishSound, DecisionsSound
  <2> QED BY <2>1, <2>4, LeaveStep, AllAlike DEF Quiet
<1>4. CASE Resend(c)
  <2> DEFINE p == [call[c] EXCEPT !.pc = "try", !.retries = 0,
                                  !.slot = FALSE, !.probe = FALSE, !.again = FALSE]
  <2>1. p \in CallRecord /\ ~p.slot /\ p.old = call[c].old /\ p.pc = "try"
    BY <1>1, SlotTypes
  <2>2. p.aborted = call[c].aborted
    OBVIOUS
  <2>3. /\ call[c].pc = "upstream" /\ ~call[c].aborted
        /\ GiveBack(Cred(call[c]), Step(c, p)) /\ drift' = drift
    BY <1>4 DEF Resend, Upstream, Uncounted
  <2> HIDE DEF p
  <2>4. Sound(p) /\ Alike(call[c], p) /\ call[c].slot
    BY <1>1, <2>1, <2>2, <2>3 DEF Sound, Alike
  <2>5. drift' = [drift EXCEPT ![Cred(call[c])] = IF p.slot THEN @ - 1 ELSE @]
    BY <1>1, <2>1, <2>3
  <2> QED BY <2>1, <2>3, <2>4, <2>5, BackStep, AllAlike DEF Quiet
<1>5. CASE IdleInSearch(c)
  <2> DEFINE p == [call[c] EXCEPT !.pc = "idled", !.again = FALSE]
  <2>1. p \in CallRecord /\ Kept(call[c], p) /\ p.pc = "idled"
    BY <1>1, UpstreamTypes
  <2>2. /\ call[c].pc = "upstream" /\ ~call[c].aborted
        /\ GiveBack(Cred(call[c]), Step(c, p))
        /\ drift' = [drift EXCEPT ![Cred(call[c])] = @ - 1]
    BY <1>5 DEF IdleInSearch, Upstream
  <2> HIDE DEF p
  <2>3. Sound(p) /\ Alike(call[c], p) /\ call[c].slot /\ p.slot /\ Cred(p) = Cred(call[c])
    BY <1>1, <2>1, <2>2 DEF Sound, Alike, Kept, Cred
  <2>4. drift' = [drift EXCEPT ![Cred(call[c])] = IF p.slot THEN @ - 1 ELSE @]
    BY <2>2, <2>3
  <2> QED BY <2>1, <2>2, <2>3, <2>4, BackStep, AllAlike DEF Quiet
<1>6. CASE Unsent(c)
  <2> DEFINE q == [call[c] EXCEPT !.slot = FALSE]
             p == Publish(q, "failure")
  <2>1. q \in CallRecord /\ ~q.slot /\ q.old = call[c].old
    BY <1>1, SlotTypes
  <2>2. q.pc = call[c].pc
    OBVIOUS
  <2>3. /\ call[c].pc = "upstream" /\ call' = Step(c, p) /\ slots' = slots
        /\ drift' = [drift EXCEPT ![Cred(call[c])] = @ + 1]
    BY <1>6 DEF Unsent, Upstream
  <2> HIDE DEF q
  <2>4. p \in CallRecord /\ Sound(p) /\ Alike(q, p) /\ p.slot = q.slot
    BY <1>2, <2>1, <2>2, <2>3, PublishSound
  <2> HIDE DEF p
  <2>5. Alike(call[c], p) /\ ~p.slot /\ call[c].slot
    BY <1>1, <2>1, <2>2, <2>3, <2>4 DEF Alike, Sound
  <2> QED BY <2>3, <2>4, <2>5, LeakStep, AllAlike DEF Quiet
<1>7. CASE Cancelled(c)
  <2> DEFINE q == [call[c] EXCEPT !.slot = FALSE, !.probe = FALSE]
             p == Publish(q, "failure")
  <2>1. q \in CallRecord /\ ~q.slot /\ q.old = call[c].old
    BY <1>1, SlotTypes
  <2>2. q.pc = call[c].pc
    OBVIOUS
  <2>3. /\ call[c].pc \in {"slot", "slotAgain", "upstream", "idled", "sleep"}
        /\ call[c].aborted /\ drift' = drift
        /\ \/ call[c].slot /\ GiveBack(Cred(call[c]), Step(c, p))
           \/ ~(call[c].slot /\ call[c].pc # "sleep") /\ call' = Step(c, p) /\ slots' = slots
    BY <1>7 DEF Cancelled, Uncounted
  <2> HIDE DEF q
  <2>4. p \in CallRecord /\ Sound(p) /\ Alike(q, p) /\ p.slot = q.slot
    BY <1>2, <2>1, <2>2, <2>3, PublishSound
  <2> HIDE DEF p
  <2>5. Alike(call[c], p) /\ ~p.slot
    BY <2>1, <2>2, <2>4 DEF Alike
  <2>6. CASE call[c].slot /\ GiveBack(Cred(call[c]), Step(c, p))
    <3>1. call[c].pc \notin {"slot", "slotAgain"}
      BY <1>1, <2>6 DEF Sound
    <3>2. drift' = [drift EXCEPT ![Cred(call[c])] = IF p.slot THEN @ - 1 ELSE @]
      BY <1>1, <2>3, <2>5
    <3> QED BY <2>4, <2>5, <2>6, <3>1, <3>2, BackStep, AllAlike DEF Quiet
  <2>7. CASE ~(call[c].slot /\ call[c].pc # "sleep") /\ call' = Step(c, p) /\ slots' = slots
    <3>1. ~call[c].slot /\ p.slot = call[c].slot
      BY <1>1, <2>4, <2>5, <2>7 DEF Sound, CallRecord
    <3> QED BY <2>3, <2>4, <2>5, <2>7, <3>1, MoveStep, AllAlike DEF Quiet
  <2> QED BY <2>3, <2>6, <2>7
<1> QED BY <1>3, <1>4, <1>5, <1>6, <1>7

\* Every step of a call but its first, its commit and its last.
LEMMA QuietSlots ==
    ASSUME SlotInv, NEW c \in Calls, CallStep(c), ~Begin(c), ~Commit(c), ~Finish(c)
    PROVE  Quiet
<1>1. CASE Fail(c)
  <2>1. PICK kind \in Kinds \cup {"local"} : \E p \in Decisions(c, call[c], kind) :
            TakeFailure(c, kind, p) /\ GiveBack(Cred(call[c]), Step(c, p))
    BY <1>1 DEF Fail
  <2>2. kind \in Failures
    BY GatewayAssumption DEF Failures
  <2>3. call[c].pc = "upstream" /\ ~call[c].aborted /\ drift' = drift
    BY <1>1, <2>1 DEF Fail, Upstream, TakeFailure, Uncounted
  <2> QED BY <2>1, <2>2, <2>3, FailureSlots
<1>2. CASE FailLate(c) \/ Answer(c)
  <2>1. /\ call[c].pc = "upstream" /\ slots' = slots /\ drift' = drift
        /\ \/ \E kind \in Kinds : call' = Step(c, Publish(call[c], kind))
           \/ call' = Step(c, Publish(call[c], "answer"))
    BY <1>2 DEF FailLate, Answer, Upstream, TakeLateFailure, Uncounted
  <2>2. Kinds \cup {"answer"} \subseteq Ends
    BY GatewayAssumption DEF Ends
  <2> QED BY <2>1, <2>2, LateSlots
<1>3. CASE IdleEnds(c)
  <2>1. call[c].pc = "idled" /\ ~call[c].aborted /\ drift' = drift
    BY <1>3 DEF IdleEnds, TakeLateFailure, TakeFailure, Uncounted
  <2>2. "other" \in Failures /\ "other" \in Ends
    BY DEF Failures, Ends, AllKinds
  <2>3. CASE call[c].sent
    BY <1>3, <2>1, <2>2, <2>3, LateSlots DEF IdleEnds, TakeLateFailure
  <2>4. CASE ~call[c].sent
    BY <1>3, <2>1, <2>2, <2>4, FailureSlots DEF IdleEnds
  <2> QED BY <2>3, <2>4
<1>4. CASE Disconnect(c)
  BY <1>4, AbortStep DEF Disconnect, Uncounted, Quiet
<1>5. CASE SearchAgain(c)
  BY <1>5, SearchStep DEF Quiet
<1> QED BY <1>1, <1>2, <1>3, <1>4, <1>5, SyncSlots, UpstreamSlots, GivenSlots DEF CallStep, Settle

\* A call begins without a slot.
LEMMA BeginSlots ==
    ASSUME SlotInv, NEW c \in Calls, Begin(c)
    PROVE  SlotInv' /\ OthersAlike(c) /\ call'[c].pc = "try" /\ ~call'[c].old
<1>1. PICK queue \in Plans : call' = Step(c, [Idle EXCEPT !.pc = "try", !.queue = queue])
  BY DEF Begin
<1> DEFINE p == [Idle EXCEPT !.pc = "try", !.queue = queue]
<1>2. /\ p \in CallRecord /\ p.pc = "try" /\ ~p.slot /\ ~p.old /\ ~p.aborted
  <2>1. ASSUME NEW i \in CallRecord, ~i.slot, ~i.old, ~i.aborted
        PROVE  LET q == [i EXCEPT !.pc = "try", !.queue = queue] IN
               q \in CallRecord /\ q.pc = "try" /\ ~q.slot /\ ~q.old /\ ~q.aborted
    BY <2>1 DEF CallRecord
  <2>2. ~Idle.slot /\ ~Idle.old
    BY DEF Idle
  <2> QED BY <2>1, <2>2, IdleType
<1>3. call' = Step(c, p) /\ call[c].pc = "idle" /\ slots' = slots /\ drift' = drift
  BY <1>1 DEF Begin
<1> HIDE DEF p
<1>4. call[c] \in CallRecord /\ ~call[c].slot
  BY <1>3, CallTypes DEF Sound
<1>5. Sound(p) /\ p.slot = call[c].slot
  BY <1>2, <1>4 DEF Sound, CallRecord
<1> QED BY <1>2, <1>3, <1>4, <1>5, MoveStep

\* The commit of a call touches no slot.
LEMMA CommitSlots ==
    ASSUME SlotInv, NEW c \in Calls, Commit(c)
    PROVE  SlotInv' /\ OthersAlike(c) /\ call'[c].pc = "write" /\ call'[c].old = call[c].old
<1> DEFINE p == [call[c] EXCEPT !.pc = "write"]
<1>1. call' = Step(c, p) /\ call[c].pc = "commit" /\ slots' = slots /\ drift' = drift
  BY DEF Commit
<1>2. call[c] \in CallRecord /\ Sound(call[c])
  BY CallTypes
<1>3. p \in CallRecord /\ Kept(call[c], p) /\ p.pc = "write"
  BY <1>2, PlaceType
<1> HIDE DEF p
<1>4. Sound(p) /\ p.slot = call[c].slot /\ Cred(p) = Cred(call[c]) /\ p.old = call[c].old
  BY <1>1, <1>2, <1>3 DEF Sound, Kept, Cred, Waiting
<1> QED BY <1>1, <1>3, <1>4, MoveStep

\* The last step of a call gives back the slot it still has.
LEMMA FinishSlots ==
    ASSUME SlotInv, NEW c \in Calls, Finish(c)
    PROVE  SlotInv' /\ OthersAlike(c) /\ call'[c].pc = "idle"
<1>1. /\ call[c].pc = "write" /\ drift' = drift
      /\ IF call[c].slot THEN GiveBack(Cred(call[c]), Step(c, Idle))
                         ELSE call' = Step(c, Idle) /\ slots' = slots
  BY DEF Finish
<1>2. /\ call[c] \in CallRecord /\ (call[c].slot => Cred(call[c]) \in Creds)
      /\ drift \in [Creds -> Int]
  BY CallTypes DEF SlotInv, CallsOK
<1>3. Idle \in CallRecord /\ Sound(Idle) /\ ~Idle.slot /\ Idle.pc = "idle"
  BY IdleType DEF Sound, Idle
<1>4. CASE call[c].slot
  <2>1. drift' = [drift EXCEPT ![Cred(call[c])] = IF Idle.slot THEN @ - 1 ELSE @]
    BY <1>1, <1>2, <1>3, <1>4
  <2> QED BY <1>1, <1>3, <1>4, <2>1, BackStep
<1>5. CASE ~call[c].slot
  <2>1. Idle.slot = call[c].slot
    BY <1>2, <1>3, <1>5 DEF CallRecord
  <2> QED BY <1>1, <1>3, <1>5, <2>1, MoveStep
<1> QED BY <1>4, <1>5

\* A step that touches no call.
LEMMA StillSlots ==
    ASSUME SlotInv, call' = call, slots' = slots, drift' = drift
    PROVE  SlotInv'
<1>1. \A d : Holding(d)' = Holding(d)
  BY DEF Holding
<1> QED BY <1>1 DEF SlotInv, CallsOK, Balanced

\* No step makes a slot count wrong.
LEMMA NextSlots ==
    ASSUME SlotInv, [Next]_vars
    PROVE  SlotInv'
<1>1. ASSUME NEW c \in Calls, CallStep(c) PROVE SlotInv'
  BY <1>1, QuietSlots, BeginSlots, CommitSlots, FinishSlots DEF Quiet
<1>2. ASSUME NEW d \in Creds, Lift(d) \/ ChangeReference(d) PROVE SlotInv'
  BY <1>2, StillSlots DEF Lift, ChangeReference, Uncounted
<1>3. CASE BeginRun \/ RunOver \/ Tick
  BY <1>3, StillSlots DEF BeginRun, RunOver, Tick, Uncounted
<1>4. CASE EndRun
  <2>1. SessionCalls \in SUBSET Calls
    BY DEF SessionCalls
  <2> QED BY <1>4, <2>1, AbortStep DEF EndRun
<1>5. CASE Roll
  BY <1>5, AgedStep DEF Roll
<1>6. CASE UNCHANGED vars
  BY <1>6, StillSlots DEF vars
<1> QED BY <1>1, <1>2, <1>3, <1>4, <1>5, <1>6 DEF Next

\* No slot is held and no call waits to begin with.
LEMMA InitSlots == Init => SlotInv
<1> SUFFICES ASSUME Init PROVE SlotInv
  OBVIOUS
<1>1. Idle \in CallRecord /\ Sound(Idle) /\ ~Idle.slot
  BY IdleType DEF Sound, Idle
<1>2. \A d \in Creds : Holding(d) = {}
  BY <1>1 DEF Init, Holding
<1>3. CallsOK
  BY <1>1 DEF Init, CallsOK, SlotsRecord
<1>4. Balanced
  <2>1. \A d \in Creds : slots[d].active = 0 /\ slots[d].waiting = {} /\ drift[d] = 0
    BY DEF Init
  <2>2. Cardinality({}) = 0
    BY FS_EmptySet
  <2>3. \A d \in Creds : Cardinality(Holding(d)) = 0
    BY <1>2, <2>2
  <2>4. SlotLimit \in Nat
    BY GatewayAssumption
  <2> QED BY <2>1, <2>3, <2>4 DEF Balanced
<1> QED BY <1>3, <1>4 DEF SlotInv

============================================================================

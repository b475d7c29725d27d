--------------------------- MODULE GatewayProofs ---------------------------
(***************************************************************************)
(* Theorems about Gateway, for any number of calls, keys and credentials:  *)
(* the slots, the rests, the budgets and the summary of a run.             *)
(***************************************************************************)
EXTENDS GatewaySlotProofs

----------------------------------------------------------------------------
(* Rests *)

BlameRecord == [asked : SUBSET Keys, opens : 0 .. 2]

\* Only who asked for a long rest is remembered, a breaker remembers that it opened only if it
\* did, and a long rest was asked for by two or doubled.
Fair(b, h) ==
    /\ b.by # None => b.by \in h.asked
    /\ b.opened => h.opens > 0
    /\ b.state = "open" /\ b.rest > Provisional
       => (\E j, k \in h.asked : j # k) \/ (EffectOf(b.last) = "count" /\ h.opens > 1)

Marks ==
    /\ breaker \in [Creds -> BreakerRecord] /\ mark \in [Creds -> MarkRecord]
    /\ blame \in [Creds -> BlameRecord]
    /\ \A d \in Creds : Fair(breaker[d], blame[d])

\* A closed breaker is fair whatever happened.
LEMMA ClosedFair == ASSUME NEW h PROVE Fair(Closed, h)
BY DEF Fair, Closed

\* The end of a probe and a request let through change no rest.
LEMMA AdmittedFair ==
    ASSUME NEW b \in BreakerRecord, NEW h, Fair(b, h)
    PROVE  Fair(Released(b), h) /\ Fair(Admitted(b), h)
<1>1. Fair(Released(b), h)
  BY DEF Fair, Released, BreakerRecord
<1>2. Fair([b EXCEPT !.state = "half-open", !.probing = TRUE, !.ref = "unset", !.last = "none"], h)
  BY DEF Fair, BreakerRecord
<1> QED BY <1>1, <1>2, ClosedFair DEF Admitted

\* The history with one more failure.
LEMMA BlamedType ==
    ASSUME NEW h \in BlameRecord, NEW b, NEW kind, NEW k \in Keys
    PROVE  /\ Blamed(h, b, kind, k) \in BlameRecord
           /\ h.asked \subseteq Blamed(h, b, kind, k).asked
           /\ h.opens <= Blamed(h, b, kind, k).opens
           /\ Opens(b, kind) =>
                /\ Blamed(h, b, kind, k).opens > 0
                /\ h.opens > 0 => Blamed(h, b, kind, k).opens > 1
           /\ EffectOf(kind) = "rest" /\ RestOf(kind) > Provisional
                => k \in Blamed(h, b, kind, k).asked
<1>1. h.asked \in SUBSET Keys /\ h.opens \in 0 .. 2
  BY DEF BlameRecord
<1> QED BY <1>1 DEF Blamed, BlameRecord

\* A failure opens a breaker for long only as the second key's to ask for it, or as a counted
\* one that opens it again.
LEMMA FailedFair ==
    ASSUME NEW b \in BreakerRecord, NEW h \in BlameRecord, Fair(b, h), NEW kind, NEW k \in Keys
    PROVE  Fair(Failed(b, kind, k), Blamed(h, b, kind, k))
<1> DEFINE g == Blamed(h, b, kind, k)
<1>1. /\ g \in BlameRecord /\ h.asked \subseteq g.asked /\ h.opens <= g.opens
      /\ Opens(b, kind) => g.opens > 0 /\ (h.opens > 0 => g.opens > 1)
      /\ EffectOf(kind) = "rest" /\ RestOf(kind) > Provisional => k \in g.asked
      /\ h.opens \in 0 .. 2 /\ g.opens \in 0 .. 2
  BY BlamedType DEF BlameRecord
<1> HIDE DEF g
<1>2. Fair(b, g)
  BY <1>1 DEF Fair
<1>3. CASE EffectOf(kind) \in {"none", "model"}
  BY <1>2, <1>3, AdmittedFair DEF Failed, g
<1>4. CASE EffectOf(kind) = "count"
  <2>1. CASE Opens(b, kind)
    <3>1. Fair(Opened(Doubled(b.opened), b.by, kind), g)
      <4>1. b.opened \in BOOLEAN
        BY DEF BreakerRecord
      <4> QED BY <1>1, <1>2, <1>4, <2>1, <4>1 DEF Fair, Opened, Doubled, Provisional
    <3> QED BY <1>4, <2>1, <3>1 DEF Failed, g
  <2>2. CASE ~Opens(b, kind)
    <3>1. Fair([b EXCEPT !.failures = @ + 1, !.probing = FALSE], g)
      BY <1>2 DEF Fair, BreakerRecord
    <3> QED BY <1>4, <2>2, <3>1 DEF Failed, g
  <2> QED BY <2>1, <2>2
<1>5. CASE EffectOf(kind) = "rest"
  <2>0. g.opens > 0
    BY <1>1, <1>5 DEF Opens
  <2>1. CASE RestOf(kind) > Provisional /\ CutShort(b.by, k)
    <3>1. Fair(Opened(Provisional, k, kind), g)
      BY <1>1, <1>5, <2>0, <2>1 DEF Fair, Opened, Provisional
    <3> QED BY <1>5, <2>1, <3>1 DEF Failed, g
  <2>2. CASE RestOf(kind) > Provisional /\ ~CutShort(b.by, k)
    <3>1. k \in g.asked /\ b.by \in g.asked /\ b.by # k
      BY <1>1, <1>2, <1>5, <2>2 DEF Fair, CutShort
    <3>2. Fair(Opened(RestOf(kind), None, kind), g)
      BY <2>0, <3>1 DEF Fair, Opened
    <3> QED BY <1>5, <2>2, <3>2 DEF Failed, g
  <2>3. CASE ~(RestOf(kind) > Provisional)
    <3>1. Fair(Opened(RestOf(kind), None, kind), g)
      BY <2>0, <2>3 DEF Fair, Opened
    <3> QED BY <1>5, <2>3, <3>1 DEF Failed, g
  <2> QED BY <2>1, <2>2, <2>3
<1> QED BY <1>3, <1>4, <1>5, KindEffects

\* A verdict on one credential.
LEMMA SetMarks ==
    ASSUME Marks, NEW d, NEW b, NEW m, NEW h,
           d \in Creds => /\ b \in BreakerRecord /\ m \in MarkRecord
                          /\ h \in BlameRecord /\ Fair(b, h),
           breaker' = [breaker EXCEPT ![d] = b], mark' = [mark EXCEPT ![d] = m],
           blame' = [blame EXCEPT ![d] = h]
    PROVE  Marks'
<1>1. \A e \in Creds : /\ breaker'[e] = IF e = d THEN b ELSE breaker[e]
                       /\ blame'[e] = IF e = d THEN h ELSE blame[e]
  BY DEF Marks
<1>2. /\ breaker' \in [Creds -> BreakerRecord] /\ mark' \in [Creds -> MarkRecord]
      /\ blame' \in [Creds -> BlameRecord]
  BY DEF Marks
<1> QED BY <1>1, <1>2 DEF Marks

\* A verdict that leaves marks and history alone.
LEMMA SetBreaker ==
    ASSUME Marks, NEW d, NEW b,
           d \in Creds => b \in BreakerRecord /\ Fair(b, blame[d]),
           breaker' = [breaker EXCEPT ![d] = b], mark' = mark, blame' = blame
    PROVE  Marks'
<1>1. \A e \in Creds : breaker'[e] = IF e = d THEN b ELSE breaker[e]
  BY DEF Marks
<1>2. breaker' \in [Creds -> BreakerRecord]
  BY DEF Marks
<1> QED BY <1>1, <1>2 DEF Marks

\* A failure told at once.
LEMMA FailureMarks ==
    ASSUME Marks, NEW c \in Calls, NEW kind \in Ends, NEW p, TakeFailure(c, kind, p)
    PROVE  Marks'
<1> DEFINE d == Cred(call[c])
           k == KeyOf[c]
<1>1. k \in Keys
  BY GatewayAssumption
<1>2. d \in Creds => /\ Failed(breaker[d], kind, k) \in BreakerRecord
                     /\ MarkedBy(mark[d], kind, k) \in MarkRecord
                     /\ Blamed(blame[d], breaker[d], kind, k) \in BlameRecord
                     /\ Fair(Failed(breaker[d], kind, k), Blamed(blame[d], breaker[d], kind, k))
  <2>1. SUFFICES ASSUME d \in Creds
                 PROVE  /\ Failed(breaker[d], kind, k) \in BreakerRecord
                        /\ MarkedBy(mark[d], kind, k) \in MarkRecord
                        /\ Blamed(blame[d], breaker[d], kind, k) \in BlameRecord
                        /\ Fair(Failed(breaker[d], kind, k), Blamed(blame[d], breaker[d], kind, k))
    OBVIOUS
  <2> HIDE DEF d, k
  <2>2. /\ breaker[d] \in BreakerRecord /\ mark[d] \in MarkRecord
        /\ blame[d] \in BlameRecord /\ Fair(breaker[d], blame[d])
    BY <2>1 DEF Marks
  <2>3. Blamed(blame[d], breaker[d], kind, k) \in BlameRecord
    BY <1>1, <2>2, BlamedType
  <2> QED BY <1>1, <2>2, <2>3, FailedType, MarkedByType, FailedFair
<1>3. /\ breaker' = [breaker EXCEPT ![d] = Failed(breaker[d], kind, k)]
      /\ mark' = [mark EXCEPT ![d] = MarkedBy(mark[d], kind, k)]
      /\ blame' = [blame EXCEPT ![d] = Blamed(blame[d], breaker[d], kind, k)]
  BY DEF TakeFailure, Told, Noted
<1> HIDE DEF d, k
<1> QED BY <1>2, <1>3, SetMarks

\* The steps of a call.
LEMMA CallMarks ==
    ASSUME Marks, call \in [Calls -> CallRecord], NEW c \in Calls, CallStep(c)
    PROVE  Marks'
<1> DEFINE d == Cred(call[c])
<1>0. d \in Creds => breaker[d] \in BreakerRecord /\ Fair(breaker[d], blame[d])
  BY DEF Marks
<1>1. ASSUME Unbroken PROVE Marks'
  BY <1>1 DEF Unbroken, Marks
<1>2. CASE Begin(c) \/ GiveUp(c) \/ PassOver(c) \/ Describe(c) \/ Described(c) \/ Escapes(c)
           \/ Send(c) \/ SearchAgain(c) \/ HeadersAgain(c) \/ IdleInSearch(c) \/ Unsent(c)
  <2>1. Unbroken
    BY Zenon, <1>2 DEF Begin, GiveUp, PassOver, Describe, Described, Escapes, Send, SearchAgain,
                       HeadersAgain, IdleInSearch, Unsent
  <2> QED BY <1>1, <2>1
<1>3. CASE FirstByte(c) \/ Answer(c) \/ Retry(c) \/ Commit(c) \/ FailLate(c) \/ Disconnect(c)
  BY <1>1, <1>3 DEF FirstByte, Answer, Retry, Commit, FailLate, TakeLateFailure, Disconnect
<1>4. CASE Skip(c) \/ Resend(c) \/ Cancelled(c)
  <2>1. d \in Creds => /\ Released(breaker[d]) \in BreakerRecord
                       /\ Fair(Released(breaker[d]), blame[d])
    BY <1>0, BreakerTypes, AdmittedFair
  <2>2. \/ breaker' = [breaker EXCEPT ![d] = Released(breaker[d])]
        \/ breaker' = breaker
    BY <1>4 DEF Skip, Resend, Cancelled, Report
  <2>3. mark' = mark /\ blame' = blame
    BY <1>4 DEF Skip, Resend, Cancelled
  <2>4. CASE breaker' = breaker
    BY <2>3, <2>4 DEF Marks
  <2> HIDE DEF d
  <2>5. CASE breaker' = [breaker EXCEPT ![d] = Released(breaker[d])]
    BY <2>1, <2>3, <2>5, SetBreaker
  <2> QED BY <2>2, <2>4, <2>5
<1>5. CASE Admit(c)
  <2> DEFINE b == Admitted(breaker[d])
  <2>1. d \in Creds => b \in BreakerRecord /\ Fair(b, blame[d]) /\ (b = Closed => Fair(b, NoBlame))
    BY <1>0, BreakerTypes, AdmittedFair, ClosedFair
  <2>2. mark' = mark
    BY <1>5 DEF Admit
  <2>3. \/ breaker' = breaker /\ blame' = blame
        \/ breaker' = [breaker EXCEPT ![d] = b] /\ blame' = blame
        \/ /\ b = Closed /\ breaker' = [breaker EXCEPT ![d] = b]
           /\ blame' = [blame EXCEPT ![d] = NoBlame]
    BY <1>5 DEF Admit, Report
  <2>4. mark' = [mark EXCEPT ![d] = mark[d]] /\ (d \in Creds => mark[d] \in MarkRecord)
    BY <2>2 DEF Marks
  <2> HIDE DEF b, d
  <2>5. CASE breaker' = breaker /\ blame' = blame
    BY <2>2, <2>5 DEF Marks
  <2>6. CASE breaker' = [breaker EXCEPT ![d] = b] /\ blame' = blame
    BY <2>1, <2>2, <2>6, SetBreaker
  <2>7. CASE /\ b = Closed /\ breaker' = [breaker EXCEPT ![d] = b]
             /\ blame' = [blame EXCEPT ![d] = NoBlame]
    <3>1. NoBlame \in BlameRecord
      BY DEF NoBlame, BlameRecord
    <3> QED BY <2>1, <2>4, <2>7, <3>1, SetMarks
  <2> QED BY <2>3, <2>5, <2>6, <2>7
<1>6. CASE RefusedSlot(c) \/ SlotTimesOut(c) \/ Fail(c) \/ IdleEnds(c)
  <2>1. Kinds \cup {"local", "rate", "other"} \subseteq Ends
    BY GatewayAssumption DEF Ends, AllKinds
  <2>2. \/ Unbroken
        \/ \E kind \in Kinds \cup {"local", "rate", "other"} : \E p : TakeFailure(c, kind, p)
    <3>1. CASE RefusedSlot(c)
      BY <3>1 DEF RefusedSlot
    <3>2. CASE SlotTimesOut(c)
      BY <3>2 DEF SlotTimesOut, TakeLateFailure
    <3>3. CASE Fail(c)
      BY <3>3 DEF Fail
    <3>4. CASE IdleEnds(c)
      BY <3>4 DEF IdleEnds, TakeLateFailure
    <3> QED BY <1>6, <3>1, <3>2, <3>3, <3>4
  <2> QED BY <1>1, <2>1, <2>2, FailureMarks
<1>7. CASE Finish(c)
  <2> DEFINE o == call[c].outcome
             k == KeyOf[c]
  <2>1. o \in Ends /\ k \in Keys
    <3>1. call[c] \in CallRecord
      OBVIOUS
    <3> QED BY <3>1, GatewayAssumption DEF CallRecord, Ends
  <2>2. CASE o = "failure"
    BY <1>1, <1>7, <2>2 DEF Finish
  <2>3. CASE o = "answer"
    <3>1. /\ breaker' = [breaker EXCEPT ![d] = Closed] /\ mark' = [mark EXCEPT ![d] = NoMark]
          /\ blame' = [blame EXCEPT ![d] = NoBlame]
      BY <1>7, <2>3 DEF Finish, Report, Succeeded
    <3>2. d \in Creds => Closed \in BreakerRecord
      BY <1>0, BreakerTypes
    <3>3. NoMark \in MarkRecord /\ NoBlame \in BlameRecord
      BY DEF NoMark, MarkRecord, LongRest, NoBlame, BlameRecord
    <3> HIDE DEF d
    <3> QED BY <3>1, <3>2, <3>3, ClosedFair, SetMarks
  <2>4. CASE o \notin {"failure", "answer"}
    <3>1. /\ breaker' = [breaker EXCEPT ![d] = Failed(breaker[d], o, k)]
          /\ mark' = [mark EXCEPT ![d] = MarkedBy(mark[d], o, k)]
          /\ blame' = [blame EXCEPT ![d] = Blamed(blame[d], breaker[d], o, k)]
      BY <1>7, <2>4 DEF Finish, Report
    <3> HIDE DEF d, o, k
    <3>2. d \in Creds => /\ Failed(breaker[d], o, k) \in BreakerRecord
                         /\ MarkedBy(mark[d], o, k) \in MarkRecord
                         /\ Blamed(blame[d], breaker[d], o, k) \in BlameRecord
                         /\ Fair(Failed(breaker[d], o, k), Blamed(blame[d], breaker[d], o, k))
      <4>1. SUFFICES ASSUME d \in Creds
                     PROVE  /\ Failed(breaker[d], o, k) \in BreakerRecord
                            /\ MarkedBy(mark[d], o, k) \in MarkRecord
                            /\ Blamed(blame[d], breaker[d], o, k) \in BlameRecord
                            /\ Fair(Failed(breaker[d], o, k), Blamed(blame[d], breaker[d], o, k))
        OBVIOUS
      <4>2. mark[d] \in MarkRecord /\ blame[d] \in BlameRecord
        BY <4>1 DEF Marks
      <4>3. Blamed(blame[d], breaker[d], o, k) \in BlameRecord
        BY <2>1, <4>2, BlamedType
      <4> QED BY <1>0, <2>1, <4>1, <4>2, <4>3, FailedType, MarkedByType, FailedFair
    <3> QED BY <3>1, <3>2, SetMarks
  <2> QED BY <2>2, <2>3, <2>4
<1> QED BY <1>2, <1>3, <1>4, <1>5, <1>6, <1>7 DEF CallStep, Sync, Settle

\* No single failure rests a credential for long.
LEMMA NextMarks ==
    ASSUME Marks, call \in [Calls -> CallRecord], [Next]_vars
    PROVE  Marks'
<1>1. ASSUME Unbroken PROVE Marks'
  BY <1>1 DEF Unbroken, Marks
<1>2. ASSUME NEW d \in Creds, Lift(d) PROVE Marks'
  <2>1. Closed \in BreakerRecord /\ NoMark \in MarkRecord /\ NoBlame \in BlameRecord
    BY <1>2, BreakerTypes DEF Marks, NoMark, MarkRecord, LongRest, NoBlame, BlameRecord
  <2> QED BY <1>2, <2>1, ClosedFair, SetMarks DEF Lift, Report
<1>3. ASSUME NEW d \in Creds, ChangeReference(d) PROVE Marks'
  <2>1. ASSUME NEW b \in BreakerRecord, NEW h, Fair(b, h)
        PROVE  LET q == [b EXCEPT !.ref = "changed"] IN q \in BreakerRecord /\ Fair(q, h)
    BY <2>1 DEF BreakerRecord, Fair
  <2>2. breaker[d] \in BreakerRecord /\ Fair(breaker[d], blame[d])
    BY DEF Marks
  <2> QED BY <1>3, <2>1, <2>2, SetBreaker DEF ChangeReference, Report
<1>4. CASE Tick
  <2>1. ASSUME NEW b \in BreakerRecord, NEW h, Fair(b, h)
        PROVE  LET q == [b EXCEPT !.rest = Less(@)] IN q \in BreakerRecord /\ Fair(q, h)
    <3>1. b.rest \in 0 .. LongRest
      BY DEF BreakerRecord
    <3>2. Less(b.rest) \in 0 .. LongRest /\ (Less(b.rest) > Provisional => b.rest > Provisional)
      BY <3>1 DEF Less, LongRest, Provisional
    <3>3. ASSUME NEW n \in 0 .. LongRest, n > Provisional => b.rest > Provisional
          PROVE  LET q == [b EXCEPT !.rest = n] IN q \in BreakerRecord /\ Fair(q, h)
      BY <2>1, <3>3 DEF BreakerRecord, Fair
    <3> QED BY <3>2, <3>3
  <2>2. ASSUME NEW m \in MarkRecord PROVE [m EXCEPT !.rest = Less(@)] \in MarkRecord
    BY DEF MarkRecord, Less, LongRest
  <2>3. \A d \in Creds : /\ breaker'[d] \in BreakerRecord /\ Fair(breaker'[d], blame[d])
                         /\ mark'[d] \in MarkRecord
    BY <1>4, <2>1, <2>2 DEF Tick, Marks
  <2>4. breaker' \in [Creds -> BreakerRecord] /\ mark' \in [Creds -> MarkRecord]
    BY <1>4, <2>3 DEF Tick
  <2> QED BY <1>4, <2>3, <2>4 DEF Tick, Marks
<1>5. CASE BeginRun \/ EndRun \/ RunOver \/ Roll
  <2>1. Unbroken
    BY Zenon, <1>5 DEF BeginRun, EndRun, RunOver, Roll
  <2> QED BY <1>1, <2>1
<1>6. CASE UNCHANGED vars
  BY <1>1, <1>6 DEF vars, Unbroken
<1> QED BY <1>2, <1>3, <1>4, <1>5, <1>6, CallMarks DEF Next

\* Nothing is blamed and nothing rests to begin with.
LEMMA InitMarks == Init => Marks
<1>1. Closed \in BreakerRecord
  BY GatewayAssumption DEF BreakerRecord, Closed, LongRest
<1>2. NoMark \in MarkRecord
  BY DEF NoMark, MarkRecord, LongRest
<1>3. NoBlame \in BlameRecord
  BY DEF NoBlame, BlameRecord
<1> QED BY <1>1, <1>2, <1>3, ClosedFair DEF Init, Marks

----------------------------------------------------------------------------
(* Budgets *)

\* The units reserved by calls that may still charge the present window.
Due(k) == {p \in Pledged(k) : call[p[1]].pc # "write" /\ ~call[p[1]].old}

\* What is used and what may still be charged within its reservation passes the budget by less
\* than the reservation of the call admitted last, and by what calls used beyond theirs.
Budget(k) ==
    /\ quota[k].held = Cardinality(Pledged(k))
    /\ spent[k] = ledger[k] + quota[k].lost
    /\ quota[k].cached => quota[k].used = spent[k]
    /\ Cap > 0 => spent[k] + Cardinality(Due(k)) < Cap + MaxReserve + excess[k]
    /\ Cap = 0 => spent[k] = 0 /\ InFlight(k) = {}

\* A key whose budget is sure to hold: one write may fail.
Certain(k) == Budgeted(k) /\ MaxFaults <= 1

Sums ==
    /\ quota \in [Keys -> QuotaRecord] /\ ledger \in [Keys -> Nat] /\ spent \in [Keys -> Nat]
    /\ reserved \in [Calls -> 0 .. MaxReserve] /\ excess \in [Keys -> Nat]
    /\ faults \in 0 .. MaxFaults
    /\ faults = 0 => \A k \in Keys : quota[k].lost = 0
    /\ \A k \in Keys : Certain(k) => Budget(k)

\* What calls in flight reserve is finite.
LEMMA PledgedFinite ==
    ASSUME NEW k
    PROVE  /\ IsFiniteSet(Pledged(k)) /\ Cardinality(Pledged(k)) \in Nat
           /\ IsFiniteSet(Due(k)) /\ Cardinality(Due(k)) \in Nat
           /\ Cardinality(Due(k)) <= Cardinality(Pledged(k))
<1>1. IsFiniteSet(1 .. MaxReserve)
  BY FS_Interval, GatewayAssumption
<1>2. IsFiniteSet(Calls \X (1 .. MaxReserve))
  BY <1>1, FS_Product, GatewayAssumption
<1>3. Pledged(k) \subseteq Calls \X (1 .. MaxReserve) /\ Due(k) \subseteq Pledged(k)
  BY DEF Pledged, Due, InFlight
<1> QED BY <1>2, <1>3, FS_Subset, FS_CardinalityType

\* A call adds what it reserved to what others did.
LEMMA UnitsAdd ==
    ASSUME NEW P, IsFiniteSet(P), NEW c, NEW n \in Nat, \A p \in P : p[1] # c
    PROVE  Cardinality(P \cup ({c} \X (1 .. n))) = Cardinality(P) + n
<1> DEFINE U == {c} \X (1 .. n)
<1>1. IsFiniteSet(1 .. n) /\ Cardinality(1 .. n) = n
  BY FS_Interval
<1>2. IsFiniteSet({c}) /\ Cardinality({c}) = 1
  BY FS_Singleton
<1>3. IsFiniteSet(U) /\ Cardinality(U) = n
  <2>1. IsFiniteSet(U) /\ Cardinality(U) = Cardinality({c}) * Cardinality(1 .. n)
    BY <1>1, <1>2, FS_Product
  <2> HIDE DEF U
  <2>2. Cardinality(U) = 1 * n
    BY <1>1, <1>2, <2>1
  <2> QED BY <2>1, <2>2
<1>4. Cardinality(P \cap U) = 0
  <2>1. P \cap U = {}
    OBVIOUS
  <2> QED BY <2>1, FS_EmptySet
<1>5. Cardinality(P) \in Nat
  BY FS_CardinalityType
<1> HIDE DEF U
<1>6. Cardinality(P \cup U) = Cardinality(P) + Cardinality(U) - Cardinality(P \cap U)
  BY <1>3, FS_Union
<1>7. Cardinality(P \cup U) = Cardinality(P) + n
  BY <1>3, <1>4, <1>5, <1>6
<1> QED BY <1>7 DEF U

\* A step between the first and the commit of a call, and after it, changes no budget.
LEMMA QuietSums ==
    ASSUME Sums, \A y \in Calls : Alike(call[y], call'[y]), quota' = quota,
           reserved' = reserved, ledger' = ledger, spent' = spent, excess' = excess,
           faults' = faults
    PROVE  Sums'
<1>1. ASSUME NEW k
      PROVE  InFlight(k)' = InFlight(k) /\ Pledged(k)' = Pledged(k) /\ Due(k)' = Due(k)
  <2>1. InFlight(k)' = InFlight(k)
    BY DEF InFlight, Alike
  <2>2. Pledged(k)' = Pledged(k)
    BY <2>1 DEF Pledged
  <2>3. \A p \in Pledged(k) : p[1] \in Calls
    BY DEF Pledged, InFlight
  <2> QED BY <2>1, <2>2, <2>3 DEF Due, Alike
<1> QED BY <1>1 DEF Sums, Budget, Certain, Budgeted

\* A call of one key changes no other key's budget.
LEMMA OtherFlights ==
    ASSUME NEW c \in Calls, OthersAlike(c), \A y \in Calls \ {c} : reserved'[y] = reserved[y],
           NEW k, k # KeyOf[c]
    PROVE  InFlight(k)' = InFlight(k) /\ Pledged(k)' = Pledged(k) /\ Due(k)' = Due(k)
<1>1. InFlight(k)' = InFlight(k) /\ InFlight(k) \subseteq Calls \ {c}
  BY DEF InFlight, OthersAlike, Alike
<1>2. \A p \in InFlight(k) \X (1 .. MaxReserve) :
        /\ p[1] \in Calls \ {c} /\ reserved'[p[1]] = reserved[p[1]]
        /\ Alike(call[p[1]], call'[p[1]])
  BY <1>1 DEF OthersAlike
<1>3. Pledged(k)' = Pledged(k)
  BY <1>1, <1>2 DEF Pledged
<1>4. \A p \in Pledged(k) : Alike(call[p[1]], call'[p[1]])
  BY <1>2 DEF Pledged
<1> QED BY <1>1, <1>3, <1>4 DEF Due, Alike

\* What one call of a key reserved.
Units(c) == {c} \X (1 .. reserved[c])

\* The units of a key are those of a call of it in flight and those of its other calls.
LEMMA UnitsOf ==
    ASSUME NEW c \in Calls, reserved \in [Calls -> 0 .. MaxReserve], call[c].pc # "idle"
    PROVE  LET k == KeyOf[c]
               others == {p \in Pledged(k) : p[1] # c}
           IN  /\ Pledged(k) = others \cup Units(c)
               /\ Due(k) = {p \in Due(k) : p[1] # c}
                           \cup (IF call[c].pc # "write" /\ ~call[c].old THEN Units(c) ELSE {})
<1> DEFINE k == KeyOf[c]
<1>1. c \in InFlight(k) /\ reserved[c] \in 0 .. MaxReserve /\ MaxReserve \in Nat
  BY GatewayAssumption DEF InFlight
<1>2. \A i : i \in 1 .. reserved[c] <=> i \in 1 .. MaxReserve /\ i <= reserved[c]
  BY <1>1
<1> HIDE DEF k
<1>3. ASSUME NEW p PROVE p \in Units(c) <=> p \in Pledged(k) /\ p[1] = c
  <2>1. p \in Units(c) => p = <<c, p[2]>> /\ p[1] = c /\ p[2] \in 1 .. reserved[c]
    BY DEF Units
  <2>2. p \in Pledged(k) /\ p[1] = c
        => p = <<c, p[2]>> /\ p[2] \in 1 .. MaxReserve /\ p[2] <= reserved[c]
    BY DEF Pledged
  <2>3. ASSUME NEW i \in 1 .. reserved[c], p = <<c, i>>
        PROVE  p \in Units(c) /\ p \in Pledged(k) /\ p[1] = c
    BY <1>1, <1>2, <2>3 DEF Units, Pledged
  <2> QED BY <1>2, <2>1, <2>2, <2>3
<1>4. Pledged(k) = {p \in Pledged(k) : p[1] # c} \cup Units(c)
  BY <1>3
<1>5. \A p \in Units(c) : p \in Due(k) <=> call[c].pc # "write" /\ ~call[c].old
  BY <1>3 DEF Due
<1>6. \A p \in Due(k) : p[1] = c => p \in Units(c)
  BY <1>3 DEF Due
<1>7. Due(k) = {p \in Due(k) : p[1] # c}
               \cup (IF call[c].pc # "write" /\ ~call[c].old THEN Units(c) ELSE {})
  BY <1>5, <1>6
<1> QED BY <1>4, <1>7 DEF k

\* What the key's other calls reserved, counted with what this one did.
LEMMA UnitsCount ==
    ASSUME NEW c \in Calls, reserved \in [Calls -> 0 .. MaxReserve], call[c].pc # "idle"
    PROVE  LET k == KeyOf[c]
               n == IF call[c].pc # "write" /\ ~call[c].old THEN reserved[c] ELSE 0
           IN  /\ Cardinality(Pledged(k))
                     = Cardinality({p \in Pledged(k) : p[1] # c}) + reserved[c]
               /\ Cardinality(Due(k)) = Cardinality({p \in Due(k) : p[1] # c}) + n
<1> DEFINE k == KeyOf[c]
           P == {p \in Pledged(k) : p[1] # c}
           D == {p \in Due(k) : p[1] # c}
<1>1. reserved[c] \in Nat
  BY GatewayAssumption
<1>2. IsFiniteSet(P) /\ IsFiniteSet(D)
  <2>1. P \in SUBSET Pledged(k) /\ D \in SUBSET Due(k)
    OBVIOUS
  <2> HIDE DEF P, D, k
  <2> QED BY <2>1, PledgedFinite, FS_Subset
<1>3. /\ Pledged(k) = P \cup Units(c)
      /\ Due(k) = D \cup (IF call[c].pc # "write" /\ ~call[c].old THEN Units(c) ELSE {})
  BY UnitsOf
<1>4. (\A p \in P : p[1] # c) /\ (\A p \in D : p[1] # c)
  OBVIOUS
<1> HIDE DEF P, D, k
<1>5. Cardinality(P \cup Units(c)) = Cardinality(P) + reserved[c]
  BY <1>1, <1>2, <1>4, UnitsAdd DEF Units
<1>6. Cardinality(D \cup Units(c)) = Cardinality(D) + reserved[c]
  BY <1>1, <1>2, <1>4, UnitsAdd DEF Units
<1>7. Cardinality(D) \in Nat
  BY <1>2, FS_CardinalityType
<1>8. Cardinality(Due(k)) = Cardinality(D)
        + (IF call[c].pc # "write" /\ ~call[c].old THEN reserved[c] ELSE 0)
  <2>1. CASE call[c].pc # "write" /\ ~call[c].old
    BY <1>3, <1>6, <2>1
  <2>2. CASE ~(call[c].pc # "write" /\ ~call[c].old)
    <3>1. Due(k) = D
      BY <1>3, <2>2
    <3> QED BY <1>7, <2>2, <3>1
  <2> QED BY <2>1, <2>2
<1> QED BY <1>3, <1>5, <1>8 DEF P, D, k

\* A step of one call leaves what the key's other calls reserved.
LEMMA OthersKeep ==
    ASSUME NEW c \in Calls, OthersAlike(c), \A y \in Calls \ {c} : reserved'[y] = reserved[y],
           NEW k
    PROVE  /\ {p \in Pledged(k)' : p[1] # c} = {p \in Pledged(k) : p[1] # c}
           /\ {p \in Due(k)' : p[1] # c} = {p \in Due(k) : p[1] # c}
<1>1. \A y \in Calls \ {c} : /\ y \in InFlight(k)' <=> y \in InFlight(k)
                             /\ reserved'[y] = reserved[y] /\ Alike(call[y], call'[y])
  BY DEF InFlight, OthersAlike, Alike
<1>2. InFlight(k) \subseteq Calls /\ InFlight(k)' \subseteq Calls
  BY DEF InFlight
<1>3. \A p : p[1] # c => (p \in Pledged(k)' <=> p \in Pledged(k))
  BY <1>1, <1>2 DEF Pledged
<1>4. \A p \in Pledged(k) : p[1] # c => Alike(call[p[1]], call'[p[1]])
  BY <1>1, <1>2 DEF Pledged
<1>5. \A p : p[1] # c => (p \in Due(k)' <=> p \in Due(k))
  BY <1>3, <1>4 DEF Due, Alike
<1> QED BY <1>3, <1>5

\* A call that begins adds what it reserves.
LEMMA BegunFlights ==
    ASSUME Sums, NEW c \in Calls, call[c].pc = "idle", call'[c].pc = "try", ~call'[c].old,
           OthersAlike(c), NEW n \in 0 .. MaxReserve, reserved' = [reserved EXCEPT ![c] = n]
    PROVE  LET k == KeyOf[c] IN
           /\ Cardinality(Pledged(k)') = Cardinality(Pledged(k)) + n
           /\ Cardinality(Due(k)') = Cardinality(Due(k)) + n
<1> DEFINE k == KeyOf[c]
           U == {c} \X (1 .. n)
<1>1. /\ \A y \in Calls \ {c} : reserved'[y] = reserved[y]
      /\ reserved'[c] = n /\ n \in Nat /\ MaxReserve \in Nat
  BY GatewayAssumption DEF Sums
<1>2. c \notin InFlight(k) /\ c \in InFlight(k)'
  BY DEF InFlight
<1>3. \A i : i \in 1 .. n <=> i \in 1 .. MaxReserve /\ i <= n
  BY <1>1
<1> HIDE DEF k
<1>4. /\ {p \in Pledged(k)' : p[1] # c} = Pledged(k)
      /\ {p \in Due(k)' : p[1] # c} = Due(k)
      /\ (\A p \in Pledged(k) : p[1] # c) /\ (\A p \in Due(k) : p[1] # c)
  <2>1. (\A p \in Pledged(k) : p[1] # c) /\ (\A p \in Due(k) : p[1] # c)
    BY <1>2 DEF Pledged, Due
  <2> QED BY <1>1, <2>1, OthersKeep
<1>5. ASSUME NEW p PROVE p \in U <=> p \in Pledged(k)' /\ p[1] = c
  <2>1. p \in U => p = <<c, p[2]>> /\ p[1] = c /\ p[2] \in 1 .. n
    OBVIOUS
  <2>2. p \in Pledged(k)' /\ p[1] = c
        => p = <<c, p[2]>> /\ p[2] \in 1 .. MaxReserve /\ p[2] <= n
    BY <1>1 DEF Pledged
  <2>3. ASSUME NEW i \in 1 .. n, p = <<c, i>>
        PROVE  p \in U /\ p \in Pledged(k)' /\ p[1] = c
    BY <1>1, <1>2, <1>3, <2>3 DEF Pledged
  <2> QED BY <1>3, <2>1, <2>2, <2>3
<1>6. \A p \in Pledged(k)' : p[1] = c => p \in Due(k)'
  BY DEF Due
<1>7. Due(k)' \subseteq Pledged(k)'
  BY DEF Due
<1> HIDE DEF U
<1>8. Pledged(k)' = Pledged(k) \cup U
  BY <1>4, <1>5
<1>9. Due(k)' = Due(k) \cup U
  BY <1>4, <1>5, <1>6, <1>7
<1>10. /\ Cardinality(Pledged(k) \cup U) = Cardinality(Pledged(k)) + n
       /\ Cardinality(Due(k) \cup U) = Cardinality(Due(k)) + n
  <2>1. ASSUME NEW P, IsFiniteSet(P), \A p \in P : p[1] # c
        PROVE  Cardinality(P \cup U) = Cardinality(P) + n
    BY <1>1, <2>1, UnitsAdd DEF U
  <2> QED BY <1>4, <2>1, PledgedFinite
<1> QED BY <1>8, <1>9, <1>10 DEF k

\* What admitting a request leaves of its key's sums.
LEMMA ReservedType ==
    ASSUME NEW k \in Keys, quota[k] \in QuotaRecord, ledger[k] \in Nat, NEW n \in Nat,
           NEW q \in Reserved(k, n)
    PROVE  /\ q \in QuotaRecord /\ q.lost = quota[k].lost
           /\ Budgeted(k) => /\ q.held = quota[k].held + n
                             /\ q.used + quota[k].held < Cap
                             /\ \/ quota[k].cached /\ q.cached /\ q.used = quota[k].used
                                \/ q.cached /\ q.used = ledger[k] + quota[k].lost
<1>1. ASSUME NEW l \in QuotaRecord
      PROVE  LET m == [l EXCEPT !.held = @ + n]
             IN  /\ m \in QuotaRecord /\ m.held = l.held + n
                 /\ m.lost = l.lost /\ m.used = l.used /\ m.cached = l.cached
  BY DEF QuotaRecord
<1>2. /\ ReadSums(k) \in QuotaRecord /\ ReadSums(k).lost = quota[k].lost
      /\ ReadSums(k).held = quota[k].held /\ ReadSums(k).cached
      /\ ReadSums(k).used = ledger[k] + quota[k].lost
  <2>1. ASSUME NEW m \in QuotaRecord, NEW u \in Nat
        PROVE  LET l == [m EXCEPT !.cached = TRUE, !.used = u]
               IN  /\ l \in QuotaRecord /\ l.lost = m.lost /\ l.held = m.held
                   /\ l.cached /\ l.used = u
    BY DEF QuotaRecord
  <2>2. ledger[k] + quota[k].lost \in Nat
    BY DEF QuotaRecord
  <2> QED BY <2>1, <2>2 DEF ReadSums
<1>3. CASE ~Budgeted(k)
  BY <1>3 DEF Reserved
<1>4. CASE Budgeted(k)
  <2>1. PICK l : /\ l = ReadSums(k) \/ (l = quota[k] /\ quota[k].cached)
                 /\ l.used + l.held < Cap /\ q = [l EXCEPT !.held = @ + n]
    BY <1>4 DEF Reserved
  <2>2. l \in QuotaRecord /\ l.held = quota[k].held /\ l.lost = quota[k].lost /\ l.cached
    BY <1>2, <2>1
  <2> QED BY <1>1, <1>2, <2>1, <2>2
<1> QED BY <1>3, <1>4

\* The first step of a call reserves for it.
LEMMA BeginSums ==
    ASSUME Sums, SlotInv, NEW c \in Calls, Begin(c)
    PROVE  Sums'
<1> DEFINE k == KeyOf[c]
<1>1. /\ k \in Keys /\ quota \in [Keys -> QuotaRecord] /\ Cap \in Nat /\ MaxReserve \in Nat
      /\ ledger[k] \in Nat /\ spent[k] \in Nat /\ excess[k] \in Nat /\ quota[k] \in QuotaRecord
      /\ reserved \in [Calls -> 0 .. MaxReserve]
  BY GatewayAssumption DEF Sums
<1>2. PICK n \in 0 .. MaxReserve :
        /\ \E q \in Reserved(k, n) : quota' = [quota EXCEPT ![k] = q]
        /\ reserved' = [reserved EXCEPT ![c] = n]
  <2>1. PICK n \in IF Budgeted(k) THEN 0 .. MaxReserve ELSE {0} :
          /\ \E q \in Reserved(k, n) : quota' = [quota EXCEPT ![k] = q]
          /\ reserved' = [reserved EXCEPT ![c] = n]
    BY Zenon DEF Begin
  <2>2. n \in 0 .. MaxReserve
    BY <1>1
  <2> QED BY <2>1, <2>2
<1>3. PICK q \in Reserved(k, n) : quota' = [quota EXCEPT ![k] = q]
  BY <1>2
<1>4. /\ ledger' = ledger /\ spent' = spent /\ excess' = excess /\ faults' = faults
      /\ call[c].pc = "idle"
  BY Zenon DEF Begin
<1>5. OthersAlike(c) /\ call'[c].pc = "try" /\ ~call'[c].old
  BY BeginSlots
<1>6. n \in Nat
  BY <1>1
<1>7. /\ q \in QuotaRecord /\ q.lost = quota[k].lost
      /\ Budgeted(k) => /\ q.held = quota[k].held + n
                        /\ q.used + quota[k].held < Cap
                        /\ \/ quota[k].cached /\ q.cached /\ q.used = quota[k].used
                           \/ q.cached /\ q.used = ledger[k] + quota[k].lost
  <2> HIDE DEF k
  <2> QED BY <1>1, <1>6, ReservedType
<1>8. /\ Cardinality(Pledged(k)') = Cardinality(Pledged(k)) + n
      /\ Cardinality(Due(k)') = Cardinality(Due(k)) + n
  BY <1>2, <1>4, <1>5, BegunFlights
<1>9. /\ \A y \in Calls \ {c} : reserved'[y] = reserved[y]
      /\ reserved' \in [Calls -> 0 .. MaxReserve]
  BY <1>1, <1>2
<1> HIDE DEF k
<1>10. quota' \in [Keys -> QuotaRecord] /\ quota'[k] = q
      /\ \A j \in Keys \ {k} : quota'[j] = quota[j]
  BY <1>1, <1>3, <1>7
<1>11. ASSUME Certain(k) PROVE Budget(k)'
  <2>1. Budget(k) /\ Budgeted(k)
    BY <1>1, <1>11 DEF Sums, Certain
  <2>2. q.used = spent[k] /\ q.cached
    BY <1>7, <2>1 DEF Budget
  <2>3. /\ spent[k] + Cardinality(Pledged(k)) < Cap
        /\ q.held = Cardinality(Pledged(k)) + n
    BY <1>7, <2>1, <2>2 DEF Budget
  <2>4. /\ Cardinality(Due(k)) <= Cardinality(Pledged(k)) /\ Cardinality(Due(k)) \in Nat
        /\ Cardinality(Pledged(k)) \in Nat /\ n <= MaxReserve
    BY <1>1, PledgedFinite
  <2>5. Cap > 0 /\ spent[k] + Cardinality(Due(k)') < Cap + MaxReserve + excess[k]
    BY <1>1, <1>6, <1>8, <2>3, <2>4
  <2>6. spent[k] = ledger[k] + q.lost
    BY <1>7, <2>1 DEF Budget
  <2> QED BY <1>1, <1>4, <1>8, <1>10, <2>2, <2>3, <2>5, <2>6 DEF Budget
<1>12. ASSUME NEW j \in Keys, j # k, Certain(j) PROVE Budget(j)'
  BY <1>4, <1>5, <1>9, <1>10, <1>12, OtherFlights DEF Sums, Budget, k
<1>13. faults = 0 => \A j \in Keys : quota'[j].lost = 0
  BY <1>1, <1>7, <1>10 DEF Sums
<1> QED BY <1>4, <1>9, <1>10, <1>11, <1>12, <1>13 DEF Sums, Certain, Budgeted

\* The last step of a call gives its reservation back.
LEMMA FinishSums ==
    ASSUME Sums, SlotInv, NEW c \in Calls, Finish(c)
    PROVE  Sums'
<1> DEFINE k == KeyOf[c]
           h == quota[k].held - reserved[c]
<1>1. /\ k \in Keys /\ quota[k] \in QuotaRecord /\ quota \in [Keys -> QuotaRecord]
      /\ reserved \in [Calls -> 0 .. MaxReserve] /\ MaxReserve \in Nat
  BY GatewayAssumption DEF Sums
<1>2. /\ quota' = [quota EXCEPT ![k].held = @ - reserved[c]]
      /\ reserved' = [reserved EXCEPT ![c] = 0]
      /\ ledger' = ledger /\ spent' = spent /\ excess' = excess /\ faults' = faults
      /\ call[c].pc = "write"
  BY DEF Finish
<1>3. OthersAlike(c) /\ call'[c].pc = "idle"
  BY FinishSlots
<1>4. /\ \A y \in Calls \ {c} : reserved'[y] = reserved[y]
      /\ reserved' \in [Calls -> 0 .. MaxReserve] /\ reserved[c] \in Nat
  BY <1>1, <1>2
<1>5. quota' = [quota EXCEPT ![k] = [quota[k] EXCEPT !.held = h]]
  BY <1>2
<1> HIDE DEF k
<1>6. h \in Int
  BY <1>1, <1>4 DEF QuotaRecord
<1> HIDE DEF h
<1>7. /\ quota' \in [Keys -> QuotaRecord] /\ quota'[k].held = h
      /\ quota'[k].lost = quota[k].lost /\ quota'[k].cached = quota[k].cached
      /\ quota'[k].used = quota[k].used
      /\ \A j \in Keys \ {k} : quota'[j] = quota[j]
  <2>1. ASSUME NEW n \in QuotaRecord, NEW i \in Int
        PROVE  LET m == [n EXCEPT !.held = i]
               IN  /\ m \in QuotaRecord /\ m.held = i
                   /\ m.lost = n.lost /\ m.cached = n.cached /\ m.used = n.used
    BY DEF QuotaRecord
  <2>2. quota'[k] = [quota[k] EXCEPT !.held = h] /\ quota'[k] \in QuotaRecord
    BY <1>1, <1>5, <1>6, <2>1
  <2>3. /\ quota' \in [Keys -> QuotaRecord]
        /\ \A j \in Keys \ {k} : quota'[j] = quota[j]
    BY <1>1, <1>5, <2>2
  <2> QED BY <1>1, <1>6, <2>1, <2>2, <2>3
<1>8. ASSUME Certain(k) PROVE Budget(k)'
  <2>1. Budget(k)
    BY <1>1, <1>8 DEF Sums
  <2>2. /\ Pledged(k)' = {p \in Pledged(k) : p[1] # c}
        /\ Due(k)' = {p \in Due(k) : p[1] # c}
    <3>1. c \notin InFlight(k)'
      BY <1>3 DEF InFlight
    <3>2. (\A p \in Pledged(k)' : p[1] # c) /\ (\A p \in Due(k)' : p[1] # c)
      BY <3>1 DEF Pledged, Due
    <3> QED BY <1>3, <1>4, <3>2, OthersKeep
  <2>3. /\ Cardinality(Pledged(k)) = Cardinality(Pledged(k)') + reserved[c]
        /\ Cardinality(Due(k)) = Cardinality(Due(k)') + 0
    BY <1>1, <1>2, <2>2, UnitsCount DEF k
  <2>4. Cardinality(Pledged(k)') \in Nat /\ Cardinality(Due(k)') \in Nat
    <3>1. Pledged(k)' \in SUBSET Pledged(k) /\ Due(k)' \in SUBSET Due(k)
      BY <2>2
    <3> QED BY <3>1, PledgedFinite, FS_Subset, FS_CardinalityType
  <2>5. h = Cardinality(Pledged(k)')
    BY <1>4, <2>1, <2>3, <2>4 DEF Budget, h
  <2>6. InFlight(k)' \subseteq InFlight(k)
    BY <1>2, <1>3 DEF InFlight, OthersAlike, Alike
  <2> QED BY <1>2, <1>7, <2>1, <2>3, <2>4, <2>5, <2>6 DEF Budget
<1>9. ASSUME NEW j \in Keys, j # k, Certain(j) PROVE Budget(j)'
  BY <1>2, <1>3, <1>4, <1>7, <1>9, OtherFlights DEF Sums, Budget, k
<1>10. faults = 0 => \A j \in Keys : quota'[j].lost = 0
  BY <1>1, <1>7 DEF Sums
<1> QED BY <1>2, <1>4, <1>7, <1>8, <1>9, <1>10 DEF Sums, Certain, Budgeted

\* What committing an entry leaves of a key's sums.
LEMMA RecordedType ==
    ASSUME NEW q \in QuotaRecord, NEW old \in BOOLEAN, NEW u \in Nat
    PROVE  /\ Recorded(q, old, u) \in QuotaRecord
           /\ Recorded(q, old, u).held = q.held /\ Recorded(q, old, u).lost = q.lost
           /\ Recorded(q, old, u).cached = q.cached
           /\ Recorded(q, old, u).used = IF old \/ ~q.cached THEN q.used ELSE q.used + u
<1>1. ASSUME NEW v \in Nat
      PROVE  LET r == [q EXCEPT !.used = v]
             IN  /\ r \in QuotaRecord /\ r.held = q.held /\ r.lost = q.lost
                 /\ r.cached = q.cached /\ r.used = v
  BY DEF QuotaRecord
<1>2. q.used + u \in Nat
  BY DEF QuotaRecord
<1>3. CASE old \/ ~q.cached
  BY <1>3 DEF Recorded
<1>4. CASE ~(old \/ ~q.cached)
  <2>1. Recorded(q, old, u) = [q EXCEPT !.used = q.used + u]
    BY <1>4 DEF Recorded
  <2> QED BY <1>1, <1>2, <1>4, <2>1
<1> QED BY <1>3, <1>4

\* What an entry that cannot be committed leaves of them.
LEMMA UnrecordedType ==
    ASSUME NEW q \in QuotaRecord, NEW old \in BOOLEAN, NEW u \in Nat
    PROVE  /\ Unrecorded(q, old, u) \in QuotaRecord
           /\ Unrecorded(q, old, u).held = q.held
           /\ Unrecorded(q, old, u).lost = IF old THEN 0 ELSE q.lost + u
           /\ Unrecorded(q, old, u).cached = q.cached
           /\ Unrecorded(q, old, u).used = IF old \/ ~q.cached THEN q.used ELSE q.used + u
<1>1. ASSUME NEW v \in Nat
      PROVE  LET r == [q EXCEPT !.lost = v]
             IN  /\ r \in QuotaRecord /\ r.held = q.held /\ r.lost = v
                 /\ r.cached = q.cached /\ r.used = q.used
  BY DEF QuotaRecord
<1>2. q.lost + u \in Nat /\ 0 \in Nat
  BY DEF QuotaRecord
<1>3. CASE old
  <2>1. Unrecorded(q, old, u) = [q EXCEPT !.lost = 0]
    BY <1>3 DEF Unrecorded
  <2> QED BY <1>1, <1>2, <1>3, <2>1
<1>4. CASE ~old
  <2> DEFINE n == [q EXCEPT !.lost = q.lost + u]
  <2>1. Unrecorded(q, old, u) = Recorded(n, old, u)
    BY <1>4 DEF Unrecorded
  <2>2. n \in QuotaRecord /\ n.held = q.held /\ n.lost = q.lost + u
        /\ n.cached = q.cached /\ n.used = q.used
    BY <1>1, <1>2
  <2> HIDE DEF n
  <2>3. /\ Recorded(n, old, u) \in QuotaRecord
        /\ Recorded(n, old, u).held = n.held /\ Recorded(n, old, u).lost = n.lost
        /\ Recorded(n, old, u).cached = n.cached
        /\ Recorded(n, old, u).used = IF old \/ ~n.cached THEN n.used ELSE n.used + u
    BY <2>2, RecordedType
  <2> QED BY <1>4, <2>1, <2>2, <2>3
<1> QED BY <1>3, <1>4

\* A committed call charges the window it belongs to; what it charges beyond its reservation is
\* excess.
LEMMA CommitSums ==
    ASSUME Sums, SlotInv, NEW c \in Calls, Commit(c)
    PROVE  Sums'
<1> DEFINE k == KeyOf[c]
           old == call[c].old
<1>1. /\ k \in Keys /\ quota \in [Keys -> QuotaRecord] /\ quota[k] \in QuotaRecord
      /\ ledger \in [Keys -> Nat] /\ spent \in [Keys -> Nat] /\ MaxFaults \in Nat
      /\ reserved \in [Calls -> 0 .. MaxReserve] /\ MaxReserve \in Nat /\ Cap \in Nat
      /\ excess \in [Keys -> Nat] /\ old \in BOOLEAN /\ call[c].pc = "commit"
  BY CallTypes, GatewayAssumption DEF Sums, CallRecord, Commit
<1>2. PICK u \in Nat :
        /\ \/ /\ ledger' = [ledger EXCEPT ![k] = @ + (IF old THEN 0 ELSE u)]
              /\ quota' = [quota EXCEPT ![k] = Recorded(@, old, u)]
              /\ faults' = faults
           \/ /\ faults < MaxFaults /\ faults' = faults + 1 /\ ledger' = ledger
              /\ quota' = [quota EXCEPT ![k] = IF Budgeted(k) THEN Unrecorded(@, old, u) ELSE @]
        /\ spent' = [spent EXCEPT ![k] = @ + (IF old THEN 0 ELSE u)]
        /\ excess' = [excess EXCEPT ![k] =
              @ + (IF (IF old THEN 0 ELSE u) > reserved[c]
                   THEN (IF old THEN 0 ELSE u) - reserved[c] ELSE 0)]
  <2>1. PICK u \in IF Budgeted(k) THEN 0 .. MaxUse ELSE {0} :
        /\ \/ /\ ledger' = [ledger EXCEPT ![k] = @ + (IF old THEN 0 ELSE u)]
              /\ quota' = [quota EXCEPT ![k] = Recorded(@, old, u)]
              /\ faults' = faults
           \/ /\ faults < MaxFaults /\ faults' = faults + 1 /\ ledger' = ledger
              /\ quota' = [quota EXCEPT ![k] = IF Budgeted(k) THEN Unrecorded(@, old, u) ELSE @]
        /\ spent' = [spent EXCEPT ![k] = @ + (IF old THEN 0 ELSE u)]
        /\ excess' = [excess EXCEPT ![k] =
              @ + (IF (IF old THEN 0 ELSE u) > reserved[c]
                   THEN (IF old THEN 0 ELSE u) - reserved[c] ELSE 0)]
    BY Zenon DEF Commit
  <2>2. u \in Nat
    BY GatewayAssumption
  <2> QED BY <2>1, <2>2
<1>3. OthersAlike(c) /\ call'[c].pc = "write" /\ call'[c].old = old /\ reserved' = reserved
  BY CommitSlots DEF Commit
<1> HIDE DEF k, old
<1> DEFINE now == IF old THEN 0 ELSE u
           over == IF now > reserved[c] THEN now - reserved[c] ELSE 0
<1>4. /\ now \in Nat /\ u \in Nat /\ reserved[c] \in Nat
      /\ over \in Nat /\ now <= reserved[c] + over
  BY <1>1
<1> HIDE DEF now, over
<1>5. PICK q \in QuotaRecord :
        /\ quota' = [quota EXCEPT ![k] = q]
        /\ q = quota[k] \/ q = Recorded(quota[k], old, u)
           \/ (q = Unrecorded(quota[k], old, u) /\ Budgeted(k))
        /\ faults' = faults => q = Recorded(quota[k], old, u)
        /\ faults' # faults => q = IF Budgeted(k) THEN Unrecorded(quota[k], old, u) ELSE quota[k]
  <2>1. faults \in Nat
    BY DEF Sums
  <2>2. Recorded(quota[k], old, u) \in QuotaRecord /\ Unrecorded(quota[k], old, u) \in QuotaRecord
    BY <1>1, <1>4, RecordedType, UnrecordedType
  <2>3. CASE faults' = faults
    <3>1. quota' = [quota EXCEPT ![k] = Recorded(quota[k], old, u)]
      BY <1>2, <2>1, <2>3
    <3> QED BY <2>2, <2>3, <3>1
  <2>4. CASE faults' # faults
    <3>1. quota' = [quota EXCEPT ![k] = IF Budgeted(k) THEN Unrecorded(@, old, u) ELSE @]
      BY <1>2, <2>4
    <3>2. CASE Budgeted(k)
      BY <2>2, <2>4, <3>1, <3>2
    <3>3. CASE ~Budgeted(k)
      BY <1>1, <2>4, <3>1, <3>3
    <3> QED BY <3>2, <3>3
  <2> QED BY <2>3, <2>4
<1>6. LET r == Recorded(quota[k], old, u)
       IN  /\ r.held = quota[k].held /\ r.lost = quota[k].lost /\ r.cached = quota[k].cached
           /\ r.used = IF old \/ ~quota[k].cached THEN quota[k].used ELSE quota[k].used + u
  <2>1. quota[k] \in QuotaRecord /\ old \in BOOLEAN /\ u \in Nat
    BY <1>1, <1>4
  <2> QED BY <2>1, RecordedType
<1>7. LET l == Unrecorded(quota[k], old, u)
       IN  /\ l.held = quota[k].held /\ l.cached = quota[k].cached
           /\ l.lost = IF old THEN 0 ELSE quota[k].lost + u
           /\ l.used = IF old \/ ~quota[k].cached THEN quota[k].used ELSE quota[k].used + u
  <2>1. quota[k] \in QuotaRecord /\ old \in BOOLEAN /\ u \in Nat
    BY <1>1, <1>4
  <2> QED BY <2>1, UnrecordedType
<1>8. /\ quota' \in [Keys -> QuotaRecord] /\ quota'[k] = q
      /\ \A j \in Keys \ {k} : /\ quota'[j] = quota[j] /\ ledger'[j] = ledger[j]
                               /\ spent'[j] = spent[j] /\ excess'[j] = excess[j]
      /\ excess' \in [Keys -> Nat] /\ excess'[k] = excess[k] + over
      /\ ledger' \in [Keys -> Nat] /\ spent' \in [Keys -> Nat] /\ spent'[k] = spent[k] + now
  <2>1. ledger[k] + now \in Nat /\ spent[k] + now \in Nat /\ excess[k] + over \in Nat
    BY <1>1, <1>4
  <2>2. ledger' = ledger \/ ledger' = [ledger EXCEPT ![k] = @ + now]
    BY <1>2 DEF now
  <2>3. spent' = [spent EXCEPT ![k] = @ + now] /\ excess' = [excess EXCEPT ![k] = @ + over]
    BY <1>2 DEF now, over
  <2> QED BY <1>1, <1>5, <2>1, <2>2, <2>3
<1>9. faults' \in 0 .. MaxFaults /\ (faults' = 0 => faults' = faults /\ faults = 0)
      /\ (faults' # faults => (MaxFaults <= 1 => faults = 0) /\ ledger' = ledger)
      /\ (faults' = faults => ledger' = [ledger EXCEPT ![k] = @ + now])
  <2>1. faults \in Nat /\ faults \in 0 .. MaxFaults
    BY <1>1 DEF Sums
  <2>2. MaxFaults <= 1 => MaxFaults \in {0, 1}
    BY <1>1
  <2> QED BY <1>1, <1>2, <2>1, <2>2 DEF now
<1>10. ASSUME Certain(k) PROVE Budget(k)'
  <2>1. Budget(k)
    BY <1>1, <1>10 DEF Sums
  <2>2. InFlight(k)' = InFlight(k) /\ Pledged(k)' = Pledged(k) /\ c \in InFlight(k)
    <3>1. InFlight(k)' = InFlight(k) /\ c \in InFlight(k)
      BY <1>1, <1>3 DEF InFlight, OthersAlike, Alike, k
    <3> QED BY <1>3, <3>1 DEF Pledged
  <2>3. Due(k)' = {p \in Due(k) : p[1] # c}
    <3>1. \A p \in Due(k)' : p[1] # c
      BY <1>3 DEF Due
    <3> QED BY <1>3, <3>1, OthersKeep
  <2>4. Cardinality(Due(k)) = Cardinality(Due(k)') + (IF old THEN 0 ELSE reserved[c])
    BY <1>1, <2>3, UnitsCount DEF k, old
  <2>5. /\ Cap > 0
        /\ spent'[k] + Cardinality(Due(k)') < Cap + MaxReserve + excess'[k]
    <3>1. Cardinality(Due(k)') \in Nat
      <4>1. Due(k)' \in SUBSET Due(k)
        BY <2>3
      <4> QED BY <4>1, PledgedFinite, FS_Subset, FS_CardinalityType
    <3>2. Cap > 0 /\ spent[k] + Cardinality(Due(k)) < Cap + MaxReserve + excess[k]
      BY <1>1, <2>1, <2>2 DEF Budget
    <3>3. now + Cardinality(Due(k)') <= Cardinality(Due(k)) + over
      BY <1>4, <2>4, <3>1 DEF now
    <3>4. spent[k] \in Nat /\ excess[k] \in Nat /\ Cardinality(Due(k)) \in Nat
      BY <1>1, PledgedFinite
    <3> QED BY <1>1, <1>4, <1>8, <3>1, <3>2, <3>3, <3>4
  <2>6. q.held = quota[k].held /\ q.cached = quota[k].cached
        /\ (q.cached => q.used = quota[k].used + now)
    <3>1. q = Recorded(quota[k], old, u) \/ q = Unrecorded(quota[k], old, u)
      BY <1>5, <1>10 DEF Certain
    <3>2. quota[k].used \in Nat
      BY <1>1 DEF QuotaRecord
    <3> QED BY <1>1, <1>4, <1>6, <1>7, <3>1, <3>2 DEF now
  <2>7. spent'[k] = ledger'[k] + q.lost
    <3>1. ledger[k] \in Nat /\ spent[k] \in Nat /\ quota[k].lost \in Nat
      BY <1>1 DEF QuotaRecord
    <3>2. CASE faults' = faults
      <4>1. q.lost = quota[k].lost
        BY <1>5, <1>6, <3>2
      <4>2. ledger'[k] = ledger[k] + now
        BY <1>1, <1>9, <3>2
      <4> QED BY <1>4, <1>8, <2>1, <3>1, <4>1, <4>2 DEF Budget
    <3>3. CASE faults' # faults
      <4>1. quota[k].lost = 0
        BY <1>1, <1>9, <1>10, <3>3 DEF Sums, Certain
      <4>2. q.lost = now
        BY <1>4, <1>5, <1>10, <1>7, <3>3, <4>1 DEF now, Certain
      <4>3. ledger'[k] = ledger[k]
        BY <1>9, <3>3
      <4> QED BY <1>4, <1>8, <2>1, <3>1, <4>1, <4>2, <4>3 DEF Budget
    <3> QED BY <3>2, <3>3
  <2> QED BY <1>8, <2>1, <2>2, <2>5, <2>6, <2>7 DEF Budget
<1>11. ASSUME NEW j \in Keys, j # k, Certain(j) PROVE Budget(j)'
  <2>1. \A y \in Calls \ {c} : reserved'[y] = reserved[y]
    BY <1>3
  <2> QED BY <1>3, <1>8, <1>11, <2>1, OtherFlights DEF Sums, Budget, k
<1>12. faults' = 0 => \A j \in Keys : quota'[j].lost = 0
  <2>1. faults' = 0 => q.lost = quota[k].lost
    BY <1>5, <1>9, <1>6
  <2> QED BY <1>1, <1>8, <1>9, <2>1 DEF Sums
<1> QED BY <1>1, <1>3, <1>8, <1>9, <1>10, <1>11, <1>12 DEF Sums, Certain, Budgeted

\* A new window begins at nothing, and no call in flight belongs to it.
LEMMA RollSums ==
    ASSUME Sums, SlotInv, Roll
    PROVE  Sums'
<1> DEFINE S == UNION {InFlight(k) : k \in {k \in Keys : Budgeted(k)}}
<1>1. \A y \in Calls : call'[y].pc = call[y].pc /\ call'[y].old = (y \in S)
  BY AgedStep DEF Roll
<1>2. ASSUME NEW k \in Keys
      PROVE  /\ quota'[k] \in QuotaRecord /\ quota'[k].held = quota[k].held
             /\ ~quota'[k].cached /\ quota'[k].lost = 0
  <2>1. quota[k] \in QuotaRecord
    BY DEF Sums
  <2>2. ASSUME NEW n \in QuotaRecord
        PROVE  LET m == [n EXCEPT !.cached = FALSE, !.used = 0, !.lost = 0]
               IN  m \in QuotaRecord /\ m.held = n.held /\ ~m.cached /\ m.lost = 0
    BY DEF QuotaRecord
  <2>3. quota'[k] = [quota[k] EXCEPT !.cached = FALSE, !.used = 0, !.lost = 0]
    BY DEF Roll
  <2> QED BY <2>1, <2>2, <2>3
<1>3. quota' \in [Keys -> QuotaRecord]
  <2>1. quota' = [k \in Keys |-> quota'[k]]
    BY DEF Roll
  <2> QED BY <1>2, <2>1
<1>4. /\ ledger' \in [Keys -> Nat] /\ spent' \in [Keys -> Nat] /\ excess' \in [Keys -> Nat]
      /\ reserved' = reserved /\ faults' = faults
      /\ \A k \in Keys : ledger'[k] = 0 /\ spent'[k] = 0 /\ excess'[k] = 0
  BY DEF Roll
<1>5. ASSUME NEW k \in Keys, Certain(k) PROVE Budget(k)'
  <2>1. InFlight(k)' = InFlight(k) /\ Pledged(k)' = Pledged(k)
    <3>1. InFlight(k)' = InFlight(k)
      BY <1>1 DEF InFlight
    <3> QED BY <1>4, <3>1 DEF Pledged
  <2>2. InFlight(k) \subseteq S
    BY <1>5 DEF Certain
  <2>3. Due(k)' = {}
    <3> HIDE DEF S
    <3>1. \A p \in Pledged(k)' : p[1] \in S /\ p[1] \in Calls
      BY <2>1, <2>2 DEF Pledged, InFlight
    <3> QED BY <1>1, <3>1 DEF Due
  <2>4. Cardinality({}) = 0 /\ Cap \in Nat /\ MaxReserve \in Nat
    BY FS_EmptySet, GatewayAssumption
  <2>5. Budget(k)
    BY <1>5 DEF Sums
  <2> QED BY <1>2, <1>4, <2>1, <2>3, <2>4, <2>5 DEF Budget
<1> QED BY <1>2, <1>3, <1>4, <1>5 DEF Sums, Certain, Budgeted

\* No step passes a budget by more.
LEMMA NextSums ==
    ASSUME Sums, SlotInv, [Next]_vars
    PROVE  Sums'
<1>1. ASSUME Unspent, \A y \in Calls : Alike(call[y], call'[y]) PROVE Sums'
  BY <1>1, QuietSums DEF Unspent
<1>2. ASSUME call' = call PROVE \A y \in Calls : Alike(call[y], call'[y])
  BY <1>2 DEF Alike
<1>3. ASSUME NEW c \in Calls, CallStep(c), ~Begin(c), ~Commit(c), ~Finish(c) PROVE Sums'
  <2>1. \A y \in Calls : Alike(call[y], call'[y])
    BY <1>3, QuietSlots DEF Quiet
  <2>2. ASSUME Uncounted PROVE Sums'
    BY <1>1, <2>1, <2>2 DEF Uncounted
  <2>3. Uncounted \/ IdleInSearch(c) \/ Unsent(c)
    <3>1. CASE Sync(c)
      BY <3>1 DEF Sync, GiveUp, PassOver, Admit, Describe, Skip, Escapes, Send, RefusedSlot,
                  TakeFailure
    <3>2. CASE Settle(c)
      BY <3>2 DEF Settle, Fail, FailLate, Answer, Cancelled, TakeFailure, TakeLateFailure
    <3>3. CASE Disconnect(c) \/ Described(c) \/ SlotTimesOut(c) \/ Resend(c) \/ FirstByte(c)
      BY <3>3 DEF Disconnect, Described, SlotTimesOut, Resend, FirstByte, TakeFailure,
                  TakeLateFailure
    <3>4. CASE Retry(c) \/ SearchAgain(c) \/ HeadersAgain(c) \/ IdleEnds(c)
      BY <3>4 DEF Retry, SearchAgain, HeadersAgain, IdleEnds, TakeFailure, TakeLateFailure
    <3> QED BY <1>3, <3>1, <3>2, <3>3, <3>4 DEF CallStep
  <2>4. CASE IdleInSearch(c) \/ Unsent(c)
    BY <1>1, <2>1, <2>4 DEF IdleInSearch, Unsent
  <2> QED BY <2>2, <2>3, <2>4
<1>4. ASSUME NEW d \in Creds, Lift(d) \/ ChangeReference(d) PROVE Sums'
  BY <1>1, <1>2, <1>4 DEF Lift, ChangeReference, Uncounted
<1>5. CASE BeginRun \/ RunOver \/ Tick
  BY <1>1, <1>2, <1>5 DEF BeginRun, RunOver, Tick, Uncounted
<1>6. CASE EndRun
  <2>1. SessionCalls \in SUBSET Calls
    BY DEF SessionCalls
  <2>2. \A y \in Calls : Alike(call[y], call'[y])
    BY <1>6, <2>1, AbortStep DEF EndRun
  <2> QED BY <1>1, <1>6, <2>2 DEF EndRun
<1>7. CASE UNCHANGED vars
  BY <1>1, <1>2, <1>7 DEF vars, Unspent
<1> QED BY <1>3, <1>4, <1>5, <1>6, <1>7, BeginSums, CommitSums, FinishSums, RollSums DEF Next

\* Nothing is reserved and nothing used to begin with.
LEMMA InitSums == Init => Sums
<1> SUFFICES ASSUME Init PROVE Sums
  OBVIOUS
<1>1. /\ quota \in [Keys -> QuotaRecord] /\ ledger \in [Keys -> Nat] /\ spent \in [Keys -> Nat]
      /\ reserved \in [Calls -> 0 .. MaxReserve] /\ excess \in [Keys -> Nat]
      /\ faults = 0 /\ \A k \in Keys : /\ quota[k].held = 0 /\ ~quota[k].cached
                                       /\ quota[k].lost = 0 /\ ledger[k] = 0 /\ spent[k] = 0
                                       /\ excess[k] = 0
  BY GatewayAssumption DEF Init, QuotaRecord
<1>2. \A k \in Keys : InFlight(k) = {} /\ Pledged(k) = {} /\ Due(k) = {}
  BY DEF Init, InFlight, Pledged, Due, Idle
<1>3. Cardinality({}) = 0 /\ Cap \in Nat /\ MaxReserve \in Nat /\ MaxFaults \in Nat
  BY FS_EmptySet, GatewayAssumption
<1>4. \A k \in Keys : Cardinality(Pledged(k)) = 0 /\ Cardinality(Due(k)) = 0
  BY <1>2, <1>3
<1>5. \A k \in Keys : Budget(k)
  BY <1>1, <1>2, <1>3, <1>4 DEF Budget
<1> QED BY <1>1, <1>3, <1>5 DEF Sums

----------------------------------------------------------------------------
(* The rest of the state, and the theorems *)

RunRecord ==
    [phase : {"none", "active", "ending", "over"}, calls : Nat, recorded : Nat, summary : Nat]

Counters ==
    loop \in Calls \cup {None} /\ calls \in 0 .. MaxCalls /\ run \in RunRecord

\* Only the commit of a call touches the Session's run, and only its first step the bound.
LEMMA QuietRun ==
    ASSUME NEW c \in Calls, CallStep(c), ~Begin(c), ~Commit(c)
    PROVE  calls' = calls /\ run' = run /\ loop' \in {c, None, loop}
<1>1. CASE Sync(c)
  BY <1>1 DEF Sync, GiveUp, PassOver, Admit, Describe, Skip, Escapes, Send, RefusedSlot,
              TakeFailure, Uncounted, Yields
<1>2. CASE Settle(c)
  BY <1>2 DEF Settle, Fail, FailLate, Answer, Cancelled, TakeFailure, TakeLateFailure,
              Uncounted
<1>3. CASE Disconnect(c) \/ Described(c) \/ SlotTimesOut(c) \/ Resend(c) \/ FirstByte(c)
  BY <1>3 DEF Disconnect, Described, SlotTimesOut, Resend, FirstByte, TakeFailure,
              TakeLateFailure, Uncounted
<1>4. CASE Retry(c) \/ SearchAgain(c) \/ HeadersAgain(c) \/ IdleEnds(c)
  BY <1>4 DEF Retry, SearchAgain, HeadersAgain, IdleEnds, TakeFailure, TakeLateFailure,
              Uncounted
<1>5. CASE IdleInSearch(c) \/ Unsent(c) \/ Finish(c)
  BY <1>5 DEF IdleInSearch, Unsent, Finish
<1> QED BY <1>1, <1>2, <1>3, <1>4, <1>5 DEF CallStep

\* The event loop serves one call or none, and the run's numbers count.
LEMMA NextCounters ==
    ASSUME Counters, [Next]_vars
    PROVE  Counters'
<1>1. ASSUME NEW c \in Calls, CallStep(c), ~Begin(c), ~Commit(c) PROVE Counters'
  BY <1>1, QuietRun DEF Counters
<1>2. ASSUME NEW c \in Calls, Begin(c) PROVE Counters'
  <2>1. calls' = calls + 1 /\ calls < MaxCalls /\ run' = run /\ loop' = c
    BY <1>2 DEF Begin
  <2> QED BY <2>1, GatewayAssumption DEF Counters
<1>3. ASSUME NEW c \in Calls, Commit(c) PROVE Counters'
  <2>1. calls' = calls /\ loop' = loop /\ run' \in {run, Counted(run)}
    BY <1>3 DEF Commit
  <2>2. ASSUME NEW r \in RunRecord PROVE Counted(r) \in RunRecord
    <3>1. r.calls \in Nat /\ r.recorded + 1 \in Nat /\ r.calls + 1 \in Nat
      BY DEF RunRecord
    <3>2. ASSUME NEW n \in Nat, NEW m \in Nat
          PROVE  [r EXCEPT !.recorded = n, !.calls = m] \in RunRecord
      BY DEF RunRecord
    <3> QED BY <3>1, <3>2 DEF Counted
  <2> QED BY <2>1, <2>2 DEF Counters
<1>4. ASSUME NEW d \in Creds, Lift(d) \/ ChangeReference(d) PROVE Counters'
  BY <1>4 DEF Lift, ChangeReference, Uncounted, Counters
<1>5. CASE Tick \/ Roll \/ UNCHANGED vars
  BY <1>5 DEF Tick, Roll, vars, Uncounted, Counters
<1>6. CASE BeginRun \/ EndRun \/ RunOver
  <2>1. ASSUME NEW r \in RunRecord
        PROVE  /\ [r EXCEPT !.phase = "ending"] \in RunRecord
               /\ [r EXCEPT !.phase = "over", !.summary = r.calls] \in RunRecord
    BY DEF RunRecord
  <2>2. [phase |-> "active", calls |-> 0, recorded |-> 0, summary |-> 0] \in RunRecord
    BY DEF RunRecord
  <2> QED BY <1>6, <2>1, <2>2 DEF BeginRun, EndRun, RunOver, Counters
<1> QED BY <1>1, <1>2, <1>3, <1>4, <1>5, <1>6 DEF Next

\* The run's call count is the ledger's while a call of it can commit, and no call of it is left
\* when it is over.
Summed ==
    /\ run.phase \in {"active", "ending"} => run.calls = run.recorded
    /\ run.phase = "over" => run.summary = run.recorded
    /\ run.phase \in {"none", "over"} => SessionCalls = {}

\* No call of the Session commits when the summary is taken.
LEMMA NextSummed ==
    ASSUME Summed, SlotInv, Counters, [Next]_vars
    PROVE  Summed'
<1>1. ASSUME run' = run, SessionCalls' \subseteq SessionCalls PROVE Summed'
  BY <1>1 DEF Summed
<1>2. ASSUME \A y \in Calls : call'[y].pc = "idle" <=> call[y].pc = "idle"
      PROVE  SessionCalls' = SessionCalls
  BY <1>2 DEF SessionCalls
<1>3. ASSUME NEW c \in Calls, CallStep(c), ~Begin(c), ~Commit(c), ~Finish(c) PROVE Summed'
  <2>1. SessionCalls' = SessionCalls
    BY <1>2, <1>3, QuietSlots DEF Quiet, Alike
  <2> QED BY <1>1, <1>3, <2>1, QuietRun
<1>4. ASSUME NEW c \in Calls, Begin(c) PROVE Summed'
  <2>1. run' = run /\ (KeyOf[c] \in SessionKeys => run.phase = "active") /\ OthersAlike(c)
    BY <1>4, BeginSlots DEF Begin
  <2>2. KeyOf[c] \notin SessionKeys => SessionCalls' \subseteq SessionCalls
    BY <2>1 DEF SessionCalls, OthersAlike, Alike
  <2> QED BY <1>1, <2>1, <2>2 DEF Summed
<1>5. ASSUME NEW c \in Calls, Finish(c) PROVE Summed'
  <2>1. run' = run /\ call[c].pc = "write" /\ OthersAlike(c)
    BY <1>5, FinishSlots DEF Finish
  <2>2. SessionCalls' \subseteq SessionCalls
    BY <2>1 DEF SessionCalls, OthersAlike, Alike
  <2> QED BY <1>1, <2>1, <2>2
<1>6. ASSUME NEW c \in Calls, Commit(c) PROVE Summed'
  <2>1. /\ call[c].pc = "commit" /\ call'[c].pc = "write" /\ OthersAlike(c)
        /\ run' = run \/ (~Budgeted(KeyOf[c]) /\ run' = Counted(run))
    BY <1>6, CommitSlots DEF Commit
  <2>2. SessionCalls' = SessionCalls
    BY <1>2, <2>1 DEF OthersAlike, Alike
  <2>3. CASE run' = run
    BY <1>1, <2>2, <2>3
  <2>4. CASE ~Budgeted(KeyOf[c]) /\ run' = Counted(run)
    <3>1. c \in SessionCalls
      BY <2>1, <2>4 DEF SessionCalls, Budgeted
    <3>2. run.phase \in {"active", "ending"} /\ run \in RunRecord
      BY <3>1 DEF Summed, Counters, RunRecord
    <3>3. ASSUME NEW r \in RunRecord, r.phase \in {"active", "ending"}, r.calls = r.recorded
          PROVE  /\ Counted(r).phase = r.phase
                 /\ Counted(r).calls = Counted(r).recorded
      BY <3>3 DEF Counted, RunRecord
    <3> QED BY <2>4, <3>2, <3>3 DEF Summed
  <2> QED BY <2>1, <2>3, <2>4
<1>7. ASSUME NEW d \in Creds, Lift(d) \/ ChangeReference(d) PROVE Summed'
  BY <1>1, <1>2, <1>7 DEF Lift, ChangeReference, Uncounted
<1>8. CASE Tick \/ UNCHANGED vars
  BY <1>1, <1>2, <1>8 DEF Tick, Uncounted, vars
<1>9. CASE BeginRun
  BY <1>9 DEF BeginRun, Summed
<1>10. CASE EndRun
  BY <1>10 DEF EndRun, Summed, Counters, RunRecord
<1>11. CASE RunOver
  <2>1. SessionCalls' = SessionCalls /\ SessionCalls = {}
    BY <1>2, <1>11 DEF RunOver
  <2> QED BY <1>11, <2>1 DEF RunOver, Summed, Counters, RunRecord
<1>12. CASE Roll
  <2>1. SessionCalls' = SessionCalls
    BY <1>2, <1>12, AgedStep DEF Roll
  <2> QED BY <1>1, <1>12, <2>1 DEF Roll
<1> QED BY <1>3, <1>4, <1>5, <1>6, <1>7, <1>8, <1>9, <1>10, <1>11, <1>12 DEF Next

Inv == SlotInv /\ Marks /\ Sums /\ Counters /\ Summed

\* The invariant holds to begin with, and every step keeps it.
LEMMA Invariance == Spec => []Inv
<1>1. Init => Inv
  <2>1. Init => Counters
    <3>1. [phase |-> "none", calls |-> 0, recorded |-> 0, summary |-> 0] \in RunRecord
      BY DEF RunRecord
    <3>2. MaxCalls \in Nat
      BY GatewayAssumption
    <3> QED BY <3>1, <3>2 DEF Init, Counters
  <2>2. Init => Summed
    BY DEF Init, Summed, SessionCalls, Idle
  <2> QED BY <2>1, <2>2, InitSlots, InitMarks, InitSums DEF Inv
<1>2. Inv /\ [Next]_vars => Inv'
  <2> SUFFICES ASSUME Inv, [Next]_vars PROVE Inv'
    OBVIOUS
  <2>1. SlotInv /\ Marks /\ Sums /\ Counters /\ Summed /\ call \in [Calls -> CallRecord]
    BY DEF Inv, SlotInv, CallsOK
  <2> QED BY <2>1, NextSlots, NextMarks, NextSums, NextCounters, NextSummed DEF Inv
<1> QED BY <1>1, <1>2, PTL DEF Spec

\* The slots of every credential are counted right, whatever ends the calls, and no call waits
\* while one is free (Slots, send).
THEOREM GatewaySlots == Spec => []SlotsBalanced
<1>1. Inv => TypeOK
  BY DEF Inv, SlotInv, CallsOK, SlotsRecord, Marks, MarkRecord, BlameRecord, Sums, QuotaRecord,
         Counters, RunRecord, TypeOK
<1>2. Inv => SlotsBalanced
  BY <1>1 DEF Inv, SlotInv, CallsOK, Balanced, Waits, SlotsBalanced
<1> QED BY <1>2, Invariance, PTL

\* A key passes its budget in a window by less than one reservation and by what its calls used
\* beyond theirs, as long as no more than one ledger entry cannot be written, and what it has
\* reserved is what its calls in flight reserved (Quotas).
THEOREM GatewayBudgets == ASSUME MaxFaults <= 1 PROVE Spec => []BudgetHeld
<1>1. Inv => BudgetHeld
  <2> SUFFICES ASSUME Inv, NEW k \in Keys, Budgeted(k)
               PROVE  /\ spent[k] > 0 => Cap > 0 /\ spent[k] < Cap + MaxReserve + excess[k]
                      /\ quota[k].held = Cardinality(Pledged(k))
    BY DEF BudgetHeld
  <2>1. Budget(k) /\ spent[k] \in Nat /\ excess[k] \in Nat /\ Cap \in Nat /\ MaxReserve \in Nat
    BY GatewayAssumption DEF Inv, Sums, Certain
  <2>2. Cardinality(Due(k)) \in Nat
    BY PledgedFinite
  <2> QED BY <2>1, <2>2 DEF Budget
<1> QED BY <1>1, Invariance, PTL

\* A credential rests for longer than a minute only after failures of two keys that asked for
\* it, or when a counted failure opened its breaker again without a success between (Breakers).
THEOREM GatewayRests == Spec => []LongRestsEarned
<1>1. Inv => LongRestsEarned
  BY DEF Inv, Marks, Fair, LongRestsEarned, RestsLong, TwoAsked
<1> QED BY <1>1, Invariance, PTL

\* The summary of a run counts every call that the ledger has of it (ModelSessions.end,
\* awaitSessionIdle).
THEOREM GatewaySummary == Spec => []SummaryComplete
<1>1. Inv => SummaryComplete
  BY DEF Inv, Summed, SummaryComplete
<1> QED BY <1>1, Invariance, PTL

============================================================================

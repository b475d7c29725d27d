---------------------------- MODULE StoreProofs ----------------------------
(***************************************************************************)
(* What the Store keeps under every sequence of calls, for any number of   *)
(* sessions, runs, permissions and events.  Three parts:                   *)
(*                                                                         *)
(*   Form      the database stays well formed.  WellFormed is the          *)
(*             inductive invariant; every operator of module Store that    *)
(*             writes does so through InsertEvent or ExpirePermissions, so *)
(*             two lemmas about those carry most of the argument;          *)
(*   Identity  what identifies a run is fixed when it is accepted and is   *)
(*             not shared with another run of the Session;                 *)
(*   History   what is recorded as final stands, and no Worker message is  *)
(*             recorded twice.                                             *)
(***************************************************************************)
EXTENDS StoreCalls, FiniteSetTheorems, WellFoundedInduction, TLAPS

\* A permission that exists belongs to an accepted run.
PermsOwned(d) ==
    \A p \in Perms : d.perm[p].status # "absent" =>
        d.perm[p].run \in Runs /\ Accepted(d, d.perm[p].run)

\* An accepted run belongs to a session; an identity not yet used has no event.
RunsOwned(d) ==
    \A r \in Runs : IF Accepted(d, r) THEN d.run[r].session \in Sessions
                    ELSE d.run[r].lastSeq = 0

\* Generations are bounded, so that MAX(generation) of a session exists.
Bounded(d) == \E m \in Nat : \A r \in Runs : d.run[r].generation <= m

WellFormed(d) ==
    /\ d \in Database
    /\ Bounded(d)
    /\ Numbered(d)
    /\ Sealed(d)
    /\ PermissionsClosed(d)
    /\ PermsOwned(d)
    /\ RunsOwned(d)

----------------------------------------------------------------------------

\* A bounded set of naturals has a maximum, and Max returns it.
LEMMA BoundedMax ==
    ASSUME NEW S \in SUBSET Nat, 0 \in S, NEW m \in Nat, \A x \in S : x <= m
    PROVE  Max(S) \in S /\ \A y \in S : y <= Max(S)
<1> DEFINE U == {k \in Nat : \A x \in S : x <= k}
<1>1. U \subseteq Nat /\ U # {}
  OBVIOUS
<1>2. PICK k \in U : \A y \in U : ~ (<<y, k>> \in OpToRel(<, Nat))
  BY <1>1, NatLessThanWellFounded, WFMin
<1>3. \A y \in U : ~ (y < k)
  BY <1>2 DEF OpToRel
<1>4. k \in S
  <2> SUFFICES ASSUME k \notin S PROVE FALSE
    OBVIOUS
  <2>1. k # 0 /\ k \in Nat
    OBVIOUS
  <2>2. k - 1 \in Nat /\ k - 1 < k
    BY <2>1
  <2>3. k - 1 \in U
    BY <2>1, <2>2
  <2> QED BY <1>3, <2>2, <2>3
<1>5. \E x \in S : \A y \in S : x >= y
  BY <1>4
<1> QED BY <1>5 DEF Max

\* insertEvent on a record that carries the current lastSeq keeps the types.
LEMMA InsertEventType ==
    ASSUME NEW d \in Database, NEW r \in Runs, NEW rec \in RunRecord,
           NEW src \in Nat, NEW terminal \in BOOLEAN
    PROVE  /\ InsertEvent(d, r, rec, src, terminal) \in Database
           /\ InsertEvent(d, r, rec, src, terminal).session = d.session
           /\ InsertEvent(d, r, rec, src, terminal).perm = d.perm
           /\ InsertEvent(d, r, rec, src, terminal).artifact = d.artifact
           /\ InsertEvent(d, r, rec, src, terminal).events =
                d.events \cup {[run |-> r, seq |-> rec.lastSeq + 1,
                                src |-> src, terminal |-> terminal]}
           /\ InsertEvent(d, r, rec, src, terminal).run =
                [d.run EXCEPT ![r] = [rec EXCEPT !.lastSeq = rec.lastSeq + 1]]
<1> DEFINE row == [run |-> r, seq |-> rec.lastSeq + 1, src |-> src, terminal |-> terminal]
<1>1. row \in EventRow
  BY DEF EventRow, RunRecord
<1>2. [rec EXCEPT !.lastSeq = rec.lastSeq + 1] \in RunRecord
  BY DEF RunRecord
<1> QED
  BY <1>1, <1>2 DEF InsertEvent, Database

\* insertEvent keeps the database well formed when the record it saves is current
\* (carries the stored lastSeq), the run has not ended, and the event is terminal
\* exactly if the saved status is, with no permission of the run left open.
LEMMA InsertEventWellFormed ==
    ASSUME NEW d, WellFormed(d), NEW r \in Runs, NEW rec \in RunRecord,
           NEW src \in Nat, NEW terminal \in BOOLEAN,
           ~ IsTerminal(d, r),
           rec.lastSeq = d.run[r].lastSeq,
           rec.status # "absent", rec.session \in Sessions,
           terminal <=> rec.status \in Terminal,
           terminal => OpenPerms(d, r) = {}
    PROVE  WellFormed(InsertEvent(d, r, rec, src, terminal))
<1> DEFINE e == InsertEvent(d, r, rec, src, terminal)
           row == [run |-> r, seq |-> rec.lastSeq + 1, src |-> src, terminal |-> terminal]
<1>1. d \in Database
  BY DEF WellFormed
<1>2. /\ e \in Database
      /\ e.perm = d.perm
      /\ e.events = d.events \cup {row}
      /\ e.run = [d.run EXCEPT ![r] = [rec EXCEPT !.lastSeq = rec.lastSeq + 1]]
  BY <1>1, InsertEventType
<1> HIDE DEF e
<1>3. rec.lastSeq \in Nat /\ d.run \in [Runs -> RunRecord]
  BY <1>1 DEF Database, RunRecord
<1>4. /\ e.run[r].lastSeq = d.run[r].lastSeq + 1
      /\ e.run[r].status = rec.status
      /\ e.run[r].session = rec.session
  BY <1>2, <1>3 DEF RunRecord
<1>5. \A t \in Runs : t # r => e.run[t] = d.run[t]
  BY <1>2, <1>3
<1>6. /\ row.run = r /\ row.seq = d.run[r].lastSeq + 1
      /\ row.src = src /\ row.terminal = terminal
  OBVIOUS
<1> HIDE DEF row
<1>7. \A x \in d.events : /\ x.run \in Runs /\ x.seq \in Nat /\ x.terminal \in BOOLEAN
                          /\ x.seq \in 1 .. d.run[x.run].lastSeq
  BY <1>1 DEF Database, EventRow, WellFormed, Numbered
<1>8. Numbered(e)
  <2> SUFFICES ASSUME NEW t \in Runs
               PROVE  /\ \A x \in e.events : x.run = t => x.seq \in 1 .. e.run[t].lastSeq
                      /\ \A n \in 1 .. e.run[t].lastSeq :
                            \E x \in e.events : x.run = t /\ x.seq = n
                      /\ \A x, y \in e.events :
                            x.run = t /\ y.run = t /\ x.seq = y.seq => x = y
    BY DEF Numbered
  <2>1. /\ \A x \in d.events : x.run = t => x.seq \in 1 .. d.run[t].lastSeq
        /\ \A n \in 1 .. d.run[t].lastSeq : \E x \in d.events : x.run = t /\ x.seq = n
        /\ \A x, y \in d.events : x.run = t /\ y.run = t /\ x.seq = y.seq => x = y
    BY DEF WellFormed, Numbered
  <2>2. CASE t = r
    <3>1. d.run[t].lastSeq \in Nat
      BY <1>3 DEF RunRecord
    <3>2. \A x \in e.events : x.run = t => x.seq \in 1 .. e.run[t].lastSeq
      BY <1>2, <1>4, <1>6, <2>1, <2>2, <3>1
    <3>3. \A n \in 1 .. e.run[t].lastSeq : \E x \in e.events : x.run = t /\ x.seq = n
      BY <1>2, <1>4, <1>6, <2>1, <2>2, <3>1
    <3>4. \A x, y \in e.events : x.run = t /\ y.run = t /\ x.seq = y.seq => x = y
      BY <1>2, <1>6, <2>1, <2>2, <3>1
    <3> QED BY <3>2, <3>3, <3>4
  <2>3. CASE t # r
    BY <1>2, <1>5, <1>6, <2>1, <2>3
  <2> QED BY <2>2, <2>3
<1>9. Sealed(e)
  <2>1. /\ \A t \in Runs : IsTerminal(d, t) <=> \E x \in d.events : x.run = t /\ x.terminal
        /\ \A x \in d.events : x.terminal => x.seq = d.run[x.run].lastSeq
    BY DEF WellFormed, Sealed
  <2>2. \A t \in Runs : IsTerminal(e, t) <=> \E x \in e.events : x.run = t /\ x.terminal
    BY <2>1, <1>2, <1>4, <1>5, <1>6 DEF IsTerminal
  <2>3. \A x \in d.events : x.terminal => x.run # r
    BY <2>1
  <2>4. \A x \in e.events : x.terminal => x.seq = e.run[x.run].lastSeq
    BY <2>1, <2>3, <1>2, <1>4, <1>5, <1>6, <1>7
  <2> QED BY <2>2, <2>4 DEF Sealed
<1>10. PermissionsClosed(e)
  BY <1>2, <1>4, <1>5 DEF WellFormed, PermissionsClosed, IsTerminal, OpenPerms
<1>11. PermsOwned(e)
  BY <1>2, <1>4, <1>5 DEF WellFormed, PermsOwned, Accepted
<1>12. RunsOwned(e)
  BY <1>4, <1>5 DEF WellFormed, RunsOwned, Accepted
<1>13. Bounded(e)
  <2>1. PICK m \in Nat : \A t \in Runs : d.run[t].generation <= m
    BY DEF WellFormed, Bounded
  <2>2. e.run[r].generation = rec.generation /\ rec.generation \in Nat
    BY <1>2, <1>3 DEF RunRecord
  <2>3. \A t \in Runs : d.run[t].generation \in Nat
    BY <1>3 DEF RunRecord
  <2> DEFINE k == m + rec.generation
  <2>4. k \in Nat /\ \A t \in Runs : e.run[t].generation <= k
    BY <1>5, <2>1, <2>2, <2>3
  <2> QED BY <2>4 DEF Bounded
<1> QED
  BY <1>2, <1>8, <1>9, <1>10, <1>11, <1>12, <1>13 DEF WellFormed, e

\* Expiring some permissions of a run that has not ended: one event each.
LEMMA ExpireWellFormed ==
    ASSUME NEW d, WellFormed(d), NEW r \in Runs, ~ IsTerminal(d, r), Accepted(d, r),
           NEW ps \in SUBSET Perms,
           \A p \in ps : d.perm[p].run = r /\ d.perm[p].status # "absent"
    PROVE  LET e == ExpirePermissions(d, r, ps) IN
           /\ WellFormed(e)
           /\ OpenPerms(e, r) = OpenPerms(d, r) \ ps
           /\ e.run[r] \in RunRecord
           /\ \E n \in Nat : e.run = [d.run EXCEPT ![r].lastSeq = d.run[r].lastSeq + n]
           /\ e.session = d.session /\ e.artifact = d.artifact
<1> DEFINE n == Cardinality(ps)
           e == ExpirePermissions(d, r, ps)
           rows == {[run |-> r, seq |-> d.run[r].lastSeq + i, src |-> 0,
                     terminal |-> FALSE] : i \in 1 .. n}
<1>0. n \in Nat
  BY StoreAssumption, FS_Subset, FS_CardinalityType
<1> HIDE DEF n
<1>1. d \in Database
  BY DEF WellFormed
<1>2. d.run \in [Runs -> RunRecord] /\ d.run[r].lastSeq \in Nat /\ d.run[r] \in RunRecord
  BY <1>1 DEF Database, RunRecord
<1>3. rows \subseteq EventRow
  <2> SUFFICES ASSUME NEW i \in 1 .. n
               PROVE  [run |-> r, seq |-> d.run[r].lastSeq + i, src |-> 0,
                       terminal |-> FALSE] \in EventRow
    OBVIOUS
  <2>1. d.run[r].lastSeq + i \in Nat
    BY <1>0, <1>2
  <2> QED BY <2>1 DEF EventRow
<1>4. [p \in Perms |-> IF p \in ps THEN [d.perm[p] EXCEPT !.status = "expired"]
                       ELSE d.perm[p]] \in [Perms -> PermissionRecord]
  BY <1>1 DEF Database, PermissionRecord
<1>5. [d.run EXCEPT ![r].lastSeq = d.run[r].lastSeq + n] \in [Runs -> RunRecord]
  BY <1>0, <1>2 DEF RunRecord
<1>6. /\ e.run = [d.run EXCEPT ![r].lastSeq = d.run[r].lastSeq + n]
      /\ e.perm = [p \in Perms |-> IF p \in ps THEN [d.perm[p] EXCEPT !.status = "expired"]
                                   ELSE d.perm[p]]
      /\ e.events = d.events \cup rows
      /\ e.session = d.session /\ e.artifact = d.artifact
      /\ e \in Database
  BY <1>1, <1>3, <1>4, <1>5 DEF ExpirePermissions, Database, n
<1> HIDE DEF e
<1>7. /\ e.run[r].lastSeq = d.run[r].lastSeq + n
      /\ e.run[r].status = d.run[r].status
      /\ e.run[r].session = d.run[r].session
      /\ \A t \in Runs : t # r => e.run[t] = d.run[t]
  BY <1>2, <1>6 DEF RunRecord
<1>8. \A x \in rows : /\ x.run = r /\ x.terminal = FALSE
                      /\ x.seq \in d.run[r].lastSeq + 1 .. d.run[r].lastSeq + n
  BY <1>0, <1>2
<1>9. \A k \in d.run[r].lastSeq + 1 .. d.run[r].lastSeq + n :
         \E x \in rows : x.run = r /\ x.seq = k
  <2> TAKE k \in d.run[r].lastSeq + 1 .. d.run[r].lastSeq + n
  <2> DEFINE i == k - d.run[r].lastSeq
  <2>1. i \in 1 .. n /\ d.run[r].lastSeq + i = k
    BY <1>0, <1>2
  <2>2. [run |-> r, seq |-> d.run[r].lastSeq + i, src |-> 0, terminal |-> FALSE] \in rows
    BY <2>1
  <2> QED BY <2>1, <2>2
<1>10. \A x, y \in rows : x.seq = y.seq => x = y
  <2> SUFFICES ASSUME NEW x \in rows, NEW y \in rows, x.seq = y.seq
               PROVE  x = y
    OBVIOUS
  <2>1. PICK i \in 1 .. n : x = [run |-> r, seq |-> d.run[r].lastSeq + i, src |-> 0,
                                 terminal |-> FALSE]
    OBVIOUS
  <2>2. PICK j \in 1 .. n : y = [run |-> r, seq |-> d.run[r].lastSeq + j, src |-> 0,
                                 terminal |-> FALSE]
    OBVIOUS
  <2>3. i = j
    BY <1>0, <1>2, <2>1, <2>2
  <2> QED BY <2>1, <2>2, <2>3
<1> HIDE DEF rows
<1>11. Numbered(e)
  <2> SUFFICES ASSUME NEW t \in Runs
               PROVE  /\ \A x \in e.events : x.run = t => x.seq \in 1 .. e.run[t].lastSeq
                      /\ \A k \in 1 .. e.run[t].lastSeq :
                            \E x \in e.events : x.run = t /\ x.seq = k
                      /\ \A x, y \in e.events :
                            x.run = t /\ y.run = t /\ x.seq = y.seq => x = y
    BY DEF Numbered
  <2>1. /\ \A x \in d.events : x.run = t => x.seq \in 1 .. d.run[t].lastSeq
        /\ \A k \in 1 .. d.run[t].lastSeq : \E x \in d.events : x.run = t /\ x.seq = k
        /\ \A x, y \in d.events : x.run = t /\ y.run = t /\ x.seq = y.seq => x = y
    BY DEF WellFormed, Numbered
  <2>2. CASE t = r
    <3>1. \A x \in e.events : x.run = t => x.seq \in 1 .. e.run[t].lastSeq
      BY <1>0, <1>2, <1>6, <1>7, <1>8, <2>1, <2>2
    <3>2. \A k \in 1 .. e.run[t].lastSeq : \E x \in e.events : x.run = t /\ x.seq = k
      BY <1>0, <1>2, <1>6, <1>7, <1>9, <2>1, <2>2
    <3>3. \A x, y \in e.events : x.run = t /\ y.run = t /\ x.seq = y.seq => x = y
      BY <1>0, <1>2, <1>6, <1>8, <1>10, <2>1, <2>2
    <3> QED BY <3>1, <3>2, <3>3
  <2>3. CASE t # r
    BY <1>6, <1>7, <1>8, <2>1, <2>3
  <2> QED BY <2>2, <2>3
<1>12. Sealed(e)
  <2>1. /\ \A t \in Runs : IsTerminal(d, t) <=> \E x \in d.events : x.run = t /\ x.terminal
        /\ \A x \in d.events : x.terminal => x.seq = d.run[x.run].lastSeq
    BY DEF WellFormed, Sealed
  <2>2. \A x \in d.events : x.run \in Runs /\ (x.terminal => x.run # r)
    BY <1>1, <2>1 DEF Database, EventRow
  <2>3. \A t \in Runs : IsTerminal(e, t) <=> \E x \in e.events : x.run = t /\ x.terminal
    BY <2>1, <1>6, <1>7, <1>8 DEF IsTerminal
  <2>4. \A x \in e.events : x.terminal => x.seq = e.run[x.run].lastSeq
    BY <2>1, <2>2, <1>6, <1>7, <1>8
  <2> QED BY <2>3, <2>4 DEF Sealed
<1>13. \A p \in Perms : /\ e.perm[p].run = d.perm[p].run
                        /\ e.perm[p].status = IF p \in ps THEN "expired" ELSE d.perm[p].status
  BY <1>1, <1>6 DEF Database, PermissionRecord
<1>14. PermissionsClosed(e)
  BY <1>13, <1>7 DEF WellFormed, PermissionsClosed, IsTerminal
<1>15. PermsOwned(e)
  BY <1>13, <1>7 DEF WellFormed, PermsOwned, Accepted
<1>16. RunsOwned(e)
  BY <1>7 DEF WellFormed, RunsOwned, Accepted
<1>17. Bounded(e)
  <2>1. \A t \in Runs : e.run[t].generation = d.run[t].generation
    BY <1>2, <1>6 DEF RunRecord
  <2> QED BY <2>1 DEF WellFormed, Bounded
<1>18. OpenPerms(e, r) = OpenPerms(d, r) \ ps
  BY <1>13 DEF OpenPerms
<1>19. WellFormed(e)
  BY <1>6, <1>11, <1>12, <1>14, <1>15, <1>16, <1>17 DEF WellFormed
<1>20. e.run[r] \in RunRecord
  BY <1>6 DEF Database
<1> QED
  BY <1>0, <1>6, <1>18, <1>19, <1>20 DEF e

----------------------------------------------------------------------------
(* One lemma per method that writes. *)

\* A well-formed database and the record of one of its accepted runs.
LEMMA AcceptedRecord ==
    ASSUME NEW d, WellFormed(d), NEW r \in Runs, Accepted(d, r)
    PROVE  /\ d.run[r] \in RunRecord
           /\ d.run[r].session \in Sessions
           /\ d.run[r].status # "absent"
           /\ d.run[r].lastSeq \in Nat
BY DEF WellFormed, RunsOwned, Database, RunRecord, Accepted

\* An ordinary event on a run that has not ended.
LEMMA PlainEventWellFormed ==
    ASSUME NEW d, WellFormed(d), NEW r \in Runs, Accepted(d, r), ~ IsTerminal(d, r),
           NEW src \in Nat
    PROVE  WellFormed(InsertEvent(d, r, d.run[r], src, FALSE))
BY AcceptedRecord, InsertEventWellFormed DEF IsTerminal

\* Changing only session records cannot disturb what runs and permissions satisfy.
LEMMA SessionChangeWellFormed ==
    ASSUME NEW d, WellFormed(d), NEW s \in Sessions, NEW v \in SessionRecord
    PROVE  LET e == [d EXCEPT !.session[s] = v] IN
           WellFormed(e) /\ e.run = d.run /\ e.perm = d.perm
<1> DEFINE e == [d EXCEPT !.session[s] = v]
<1>1. /\ e \in Database
      /\ e.run = d.run /\ e.perm = d.perm /\ e.events = d.events
  BY DEF WellFormed, Database
<1> HIDE DEF e
<1>2. WellFormed(e)
  BY <1>1 DEF WellFormed, Numbered, Sealed, PermissionsClosed, PermsOwned, RunsOwned,
              Bounded, IsTerminal, Accepted
<1> QED BY <1>1, <1>2 DEF e

\* Changing one permission of an accepted run that has not ended.
LEMMA PermChangeWellFormed ==
    ASSUME NEW d, WellFormed(d), NEW p \in Perms, NEW v \in PermissionRecord,
           v.run \in Runs, Accepted(d, v.run),
           v.status \in {"pending", "decided"} => ~ IsTerminal(d, v.run)
    PROVE  LET e == [d EXCEPT !.perm[p] = v] IN
           WellFormed(e) /\ e.run = d.run /\ e.session = d.session
<1> DEFINE e == [d EXCEPT !.perm[p] = v]
<1>1. /\ e \in Database
      /\ e.run = d.run /\ e.events = d.events /\ e.session = d.session
      /\ e.perm = [d.perm EXCEPT ![p] = v]
  BY DEF WellFormed, Database
<1> HIDE DEF e
<1>2. \A q \in Perms : e.perm[q] = IF q = p THEN v ELSE d.perm[q]
  BY <1>1 DEF WellFormed, Database
<1>3. Numbered(e) /\ Sealed(e) /\ RunsOwned(e) /\ Bounded(e)
  BY <1>1 DEF WellFormed, Numbered, Sealed, RunsOwned, Bounded, IsTerminal, Accepted
<1>4. PermissionsClosed(e) /\ PermsOwned(e)
  BY <1>1, <1>2 DEF WellFormed, PermissionsClosed, PermsOwned, IsTerminal, Accepted
<1> QED BY <1>1, <1>3, <1>4 DEF WellFormed, e

LEMMA SetSessionStatusWellFormed ==
    ASSUME NEW d, WellFormed(d), NEW s \in Sessions,
           NEW status \in {"open", "closing", "closed"}
    PROVE  WellFormed(SetSessionStatus(d, s, status))
<1>1. [d.session[s] EXCEPT !.status = status] \in SessionRecord
  BY DEF WellFormed, Database, SessionRecord
<1>2. [d EXCEPT !.session[s].status = status]
        = [d EXCEPT !.session[s] = [d.session[s] EXCEPT !.status = status]]
  OBVIOUS
<1> QED BY <1>1, <1>2, SessionChangeWellFormed DEF SetSessionStatus

LEMMA CreateSessionWellFormed ==
    ASSUME NEW d, WellFormed(d), NEW s \in Sessions
    PROVE  WellFormed(CreateSession(d, s))
<1>1. [status |-> "open", backend |-> None] \in SessionRecord
  BY DEF SessionRecord
<1> QED BY <1>1, SessionChangeWellFormed DEF CreateSession

LEMMA SetRunStatusWellFormed ==
    ASSUME NEW d, WellFormed(d), NEW r \in Runs, Accepted(d, r), NEW status \in Working
    PROVE  WellFormed(SetRunStatus(d, r, status))
<1> DEFINE rec == [d.run[r] EXCEPT !.status = status,
                                   !.started = @ \/ status = "starting"]
<1>1. CASE ~ IsTerminal(d, r)
  <2>1. /\ rec \in RunRecord /\ rec.lastSeq = d.run[r].lastSeq
        /\ rec.status = status /\ rec.session = d.run[r].session
    BY AcceptedRecord DEF RunRecord
  <2>2. rec.session \in Sessions /\ rec.status # "absent" /\ rec.status \notin Terminal
    BY <2>1, AcceptedRecord DEF Working, Terminal
  <2>3. WellFormed(InsertEvent(d, r, rec, 0, FALSE))
    BY <1>1, <2>1, <2>2, InsertEventWellFormed
  <2> QED BY <2>3 DEF SetRunStatus
<1>2. CASE IsTerminal(d, r)
  BY <1>2 DEF SetRunStatus
<1> QED BY <1>1, <1>2

LEMMA AppendEventWellFormed ==
    ASSUME NEW d, WellFormed(d), NEW r \in Runs, Accepted(d, r), NEW src \in Nat
    PROVE  WellFormed(AppendEvent(d, r, src))
BY PlainEventWellFormed DEF AppendEvent

LEMMA BindBackendSessionWellFormed ==
    ASSUME NEW d, WellFormed(d), NEW r \in Runs, Accepted(d, r), NEW src \in Nat,
           NEW b \in BackendIds
    PROVE  WellFormed(BindBackendSession(d, r, b, src))
<1> DEFINE s == d.run[r].session
           v == [d.session[s] EXCEPT !.backend = b]
           e == [d EXCEPT !.session[s] = v]
<1>1. s \in Sessions
  BY AcceptedRecord
<1>2. v \in SessionRecord
  BY <1>1 DEF WellFormed, Database, SessionRecord
<1>3. WellFormed(e) /\ e.run = d.run
  BY <1>1, <1>2, SessionChangeWellFormed
<1>4. [d EXCEPT !.session[d.run[r].session].backend = b] = e
  OBVIOUS
<1> HIDE DEF e
<1>5. ~ IsTerminal(d, r) => WellFormed(InsertEvent(e, r, e.run[r], src, FALSE))
  BY <1>3, PlainEventWellFormed DEF IsTerminal, Accepted
<1> QED BY <1>3, <1>4, <1>5 DEF BindBackendSession

LEMMA FinishRunWellFormed ==
    ASSUME NEW d, WellFormed(d), NEW r \in Runs, Accepted(d, r),
           NEW status \in Terminal, NEW cleanup \in Cleanup
    PROVE  WellFormed(FinishRun(d, r, status, cleanup))
<1>1. CASE IsTerminal(d, r)
  BY <1>1 DEF FinishRun
<1>2. CASE ~ IsTerminal(d, r)
  <2> DEFINE e == ExpirePermissions(d, r, OpenPerms(d, r))
             rec == [e.run[r] EXCEPT !.status = status, !.cleanup = cleanup]
  <2>1. /\ OpenPerms(d, r) \in SUBSET Perms
        /\ \A p \in OpenPerms(d, r) : d.perm[p].run = r /\ d.perm[p].status # "absent"
    BY DEF OpenPerms
  <2>2. /\ WellFormed(e) /\ OpenPerms(e, r) = {} /\ e.run[r] \in RunRecord
        /\ \E n \in Nat : e.run = [d.run EXCEPT ![r].lastSeq = d.run[r].lastSeq + n]
    BY <1>2, <2>1, ExpireWellFormed
  <2> HIDE DEF e
  <2>3. e.run[r].status = d.run[r].status /\ e.run[r].session = d.run[r].session
    BY <2>2 DEF WellFormed, Database, RunRecord
  <2>4. Accepted(e, r) /\ ~ IsTerminal(e, r)
    BY <1>2, <2>3 DEF Accepted, IsTerminal
  <2>5. /\ rec \in RunRecord /\ rec.lastSeq = e.run[r].lastSeq
        /\ rec.status = status /\ rec.session = e.run[r].session
    BY <2>2 DEF RunRecord
  <2>6. rec.session \in Sessions /\ rec.status # "absent" /\ rec.status \in Terminal
    BY <2>2, <2>4, <2>5, AcceptedRecord DEF Terminal
  <2>7. WellFormed(InsertEvent(e, r, rec, 0, TRUE))
    BY <2>2, <2>4, <2>5, <2>6, InsertEventWellFormed
  <2> QED BY <1>2, <2>7 DEF FinishRun, e
<1> QED BY <1>1, <1>2

LEMMA GenerationFresh ==
    ASSUME NEW d, WellFormed(d), NEW s \in Sessions
    PROVE  /\ Generation(d, s) \in Nat
           /\ \A r \in RunsOf(d, s) : d.run[r].generation < Generation(d, s)
<1> DEFINE G == {0} \cup {d.run[r].generation : r \in RunsOf(d, s)}
<1>1. \A r \in Runs : d.run[r].generation \in Nat
  BY DEF WellFormed, Database, RunRecord
<1>2. G \in SUBSET Nat /\ 0 \in G
  BY <1>1 DEF RunsOf
<1>3. PICK m \in Nat : \A r \in Runs : d.run[r].generation <= m
  BY DEF WellFormed, Bounded
<1>4. \A x \in G : x <= m
  BY <1>3 DEF RunsOf
<1> HIDE DEF G
<1>5. Max(G) \in Nat /\ \A y \in G : y <= Max(G)
  BY <1>2, <1>4, BoundedMax
<1>6. \A r \in RunsOf(d, s) : d.run[r].generation \in G /\ r \in Runs
  BY DEF G, RunsOf
<1>7. Generation(d, s) = Max(G) + 1
  BY Zenon DEF Generation, G
<1> QED BY <1>1, <1>5, <1>6, <1>7

LEMMA AcceptRunWellFormed ==
    ASSUME NEW d, WellFormed(d), NEW s \in Sessions, NEW r \in Runs, ~ Accepted(d, r),
           NEW k \in Keys \cup {None}, NEW h \in Hashes
    PROVE  WellFormed(AcceptRun(d, s, r, k, h))
<1> DEFINE rec == [session |-> s, generation |-> Generation(d, s), key |-> k, hash |-> h,
                   status |-> "queued", started |-> FALSE, cleanup |-> "unconfirmed",
                   lastSeq |-> 0]
<1>1. rec \in RunRecord
  BY GenerationFresh DEF RunRecord, Working, Cleanup
<1>2. d.run[r].lastSeq = 0 /\ ~ IsTerminal(d, r)
  BY DEF WellFormed, RunsOwned, Accepted, IsTerminal, Terminal
<1>3. /\ rec.status \notin Terminal /\ rec.status # "absent"
      /\ rec.lastSeq = 0 /\ rec.session \in Sessions
  BY DEF Terminal
<1> HIDE DEF rec
<1>4. WellFormed(InsertEvent(d, r, rec, 0, FALSE))
  BY <1>1, <1>2, <1>3, InsertEventWellFormed
<1> QED BY <1>4 DEF AcceptRun, rec

LEMMA CreatePermissionWellFormed ==
    ASSUME NEW d, WellFormed(d), NEW r \in Runs, Accepted(d, r), NEW p \in Perms,
           NEW past
    PROVE  WellFormed(CreatePermission(d, r, p, past))
<1> DEFINE v == [run |-> r, status |-> "pending", decision |-> None]
           e == [d EXCEPT !.perm[p] = v]
<1>1. CASE CreateRefused(d, r, p, past)
  BY <1>1 DEF CreatePermission
<1>2. CASE ~ CreateRefused(d, r, p, past)
  <2>1. ~ IsTerminal(d, r)
    BY <1>2 DEF CreateRefused, Unattended, IsTerminal
  <2>2. v \in PermissionRecord /\ v.run = r
    BY DEF PermissionRecord
  <2>3. WellFormed(e) /\ e.run = d.run
    BY <2>1, <2>2, PermChangeWellFormed
  <2> HIDE DEF e
  <2>4. WellFormed(InsertEvent(e, r, e.run[r], 0, FALSE))
    BY <2>1, <2>3, PlainEventWellFormed DEF IsTerminal, Accepted
  <2> QED BY <1>2, <2>3, <2>4 DEF CreatePermission, e
<1> QED BY <1>1, <1>2

\* The run a permission belongs to, and the permission's record.
LEMMA OwnerOf ==
    ASSUME NEW d, WellFormed(d), NEW p \in Perms, d.perm[p].status # "absent"
    PROVE  /\ d.perm[p].run \in Runs /\ Accepted(d, d.perm[p].run)
           /\ d.perm[p] \in PermissionRecord
BY DEF WellFormed, PermsOwned, Database

LEMMA ExpirePermissionWellFormed ==
    ASSUME NEW d, WellFormed(d), NEW p \in Perms, d.perm[p].status # "absent"
    PROVE  WellFormed(ExpirePermission(d, p))
<1> DEFINE v == [d.perm[p] EXCEPT !.status = "expired"]
<1>1. CASE IsTerminal(d, d.perm[p].run)
  <2>1. /\ v \in PermissionRecord /\ v.run = d.perm[p].run
        /\ v.status \notin {"pending", "decided"}
    BY OwnerOf DEF PermissionRecord
  <2> HIDE DEF v
  <2>2. WellFormed([d EXCEPT !.perm[p] = v])
    BY <2>1, OwnerOf, PermChangeWellFormed
  <2> QED BY <1>1, <2>2 DEF ExpirePermission, v
<1>2. CASE ~ IsTerminal(d, d.perm[p].run)
  <2> DEFINE r == d.perm[p].run
  <2>1. r \in Runs /\ Accepted(d, r)
    BY OwnerOf
  <2>2. {p} \in SUBSET Perms /\ \A q \in {p} : d.perm[q].run = r /\ d.perm[q].status # "absent"
    OBVIOUS
  <2> HIDE DEF r
  <2>3. WellFormed(ExpirePermissions(d, r, {p}))
    BY <1>2, <2>1, <2>2, ExpireWellFormed DEF r
  <2> QED BY <1>2, <2>3 DEF ExpirePermission, r
<1> QED BY <1>1, <1>2

\* A permission of a run that has not ended changes and the change is recorded.
LEMMA PermEventWellFormed ==
    ASSUME NEW d, WellFormed(d), NEW p \in Perms, d.perm[p].status # "absent",
           ~ IsTerminal(d, d.perm[p].run),
           NEW v \in PermissionRecord, v.run = d.perm[p].run
    PROVE  WellFormed(InsertEvent([d EXCEPT !.perm[p] = v], d.perm[p].run,
                                  d.run[d.perm[p].run], 0, FALSE))
<1> DEFINE e == [d EXCEPT !.perm[p] = v]
           r == d.perm[p].run
<1>1. r \in Runs /\ Accepted(d, r)
  BY OwnerOf
<1>2. WellFormed(e) /\ e.run = d.run
  BY <1>1, PermChangeWellFormed
<1> HIDE DEF e
<1>3. WellFormed(InsertEvent(e, r, e.run[r], 0, FALSE))
  BY <1>1, <1>2, PlainEventWellFormed DEF IsTerminal, Accepted
<1> QED BY <1>2, <1>3 DEF e

LEMMA DecidePermissionWellFormed ==
    ASSUME NEW d, WellFormed(d), NEW p \in Perms, d.perm[p].status # "absent",
           NEW o \in Options, NEW past
    PROVE  WellFormed(DecidePermission(d, p, o, past))
<1> DEFINE v == [d.perm[p] EXCEPT !.status = "decided", !.decision = o]
<1>1. v \in PermissionRecord /\ v.run = d.perm[p].run
  BY OwnerOf DEF PermissionRecord
<1>2. WellFormed(ExpirePermission(d, p))
  BY ExpirePermissionWellFormed
<1>3. ~ DecisionLapsed(d, p, past) => ~ IsTerminal(d, d.perm[p].run)
  BY DEF DecisionLapsed, Unattended, IsTerminal
<1>4. [d EXCEPT !.perm[p].status = "decided", !.perm[p].decision = o]
        = [d EXCEPT !.perm[p] = v]
  BY DEF WellFormed, Database
<1>5. ~ DecisionLapsed(d, p, past) =>
        WellFormed(InsertEvent([d EXCEPT !.perm[p] = v], d.perm[p].run,
                               d.run[d.perm[p].run], 0, FALSE))
  BY <1>1, <1>3, PermEventWellFormed
<1> HIDE DEF v
<1> QED BY <1>2, <1>4, <1>5 DEF DecidePermission

LEMMA MarkPermissionAppliedWellFormed ==
    ASSUME NEW d, WellFormed(d), NEW p \in Perms, d.perm[p].status # "absent",
           NEW past
    PROVE  WellFormed(MarkPermissionApplied(d, p, past))
<1> DEFINE v == [d.perm[p] EXCEPT !.status = "applied"]
<1>1. v \in PermissionRecord /\ v.run = d.perm[p].run
  BY OwnerOf DEF PermissionRecord
<1>2. ~ IsTerminal(d, d.perm[p].run) =>
        WellFormed(InsertEvent([d EXCEPT !.perm[p] = v], d.perm[p].run,
                               d.run[d.perm[p].run], 0, FALSE))
  BY <1>1, PermEventWellFormed
<1> QED BY <1>2 DEF MarkPermissionApplied

LEMMA RegisterArtifactWellFormed ==
    ASSUME NEW d, WellFormed(d), NEW r \in Runs, Accepted(d, r), NEW a \in Artifacts
    PROVE  WellFormed(RegisterArtifact(d, r, a))
<1> DEFINE e == [d EXCEPT !.artifact[a] = r]
<1>1. /\ e \in Database
      /\ e.run = d.run /\ e.events = d.events /\ e.perm = d.perm
  BY DEF WellFormed, Database
<1> HIDE DEF e
<1>2. WellFormed(e)
  BY <1>1 DEF WellFormed, Numbered, Sealed, PermissionsClosed, PermsOwned, RunsOwned,
              Bounded, IsTerminal, Accepted
<1>3. ~ IsTerminal(d, r) => WellFormed(InsertEvent(e, r, e.run[r], 0, FALSE))
  BY <1>1, <1>2, PlainEventWellFormed DEF IsTerminal, Accepted
<1> QED BY <1>1, <1>3 DEF RegisterArtifact, e

----------------------------------------------------------------------------
(* The Store under an arbitrary caller *)

Inv == WellFormed(db) /\ due \in SUBSET Perms

LEMMA InitInv == Init => Inv
<1> SUFFICES ASSUME Init PROVE Inv
  OBVIOUS
<1>1. db = EmptyDatabase /\ due = {}
  BY DEF Init
<1>2. EmptyDatabase \in Database
  BY DEF EmptyDatabase, Database, SessionRecord, RunRecord, PermissionRecord, Cleanup
<1>3. \A r \in Runs : /\ EmptyDatabase.run[r].status = "absent"
                      /\ EmptyDatabase.run[r].lastSeq = 0
                      /\ EmptyDatabase.run[r].generation = 0
  BY DEF EmptyDatabase
<1>4. \A p \in Perms : EmptyDatabase.perm[p].status = "absent"
  BY DEF EmptyDatabase
<1>5. EmptyDatabase.events = {}
  BY DEF EmptyDatabase
<1>6. WellFormed(EmptyDatabase)
  <2>1. Numbered(EmptyDatabase)
    BY <1>3, <1>5 DEF Numbered
  <2>2. Sealed(EmptyDatabase)
    BY <1>3, <1>5 DEF Sealed, IsTerminal, Terminal
  <2>3. PermissionsClosed(EmptyDatabase) /\ PermsOwned(EmptyDatabase)
    BY <1>4 DEF PermissionsClosed, PermsOwned
  <2>4. RunsOwned(EmptyDatabase) /\ Bounded(EmptyDatabase)
    BY <1>3 DEF RunsOwned, Bounded, Accepted
  <2> QED BY <1>2, <2>1, <2>2, <2>3, <2>4 DEF WellFormed
<1> QED BY <1>1, <1>6 DEF Inv

LEMMA NextInv == Inv /\ [Next]_vars => Inv'
<1> SUFFICES ASSUME Inv, [Next]_vars PROVE Inv'
  OBVIOUS
<1> USE DEF Inv
<1>1. ASSUME NEW s \in Sessions, Create(s) PROVE Inv'
  BY <1>1, CreateSessionWellFormed DEF Create
<1>2. ASSUME NEW s \in Sessions, NEW status \in {"open", "closing", "closed"},
             SetSession(s, status)
      PROVE  Inv'
  BY <1>2, SetSessionStatusWellFormed DEF SetSession
<1>3. ASSUME NEW s \in Sessions, NEW r \in Runs, NEW k \in Keys \cup {None},
             NEW h \in Hashes, Accept(s, r, k, h)
      PROVE  Inv'
  BY <1>3, AcceptRunWellFormed DEF Accept
<1>4. ASSUME NEW r \in Runs, NEW status \in Working, SetStatus(r, status) PROVE Inv'
  BY <1>4, SetRunStatusWellFormed DEF SetStatus, Writable
<1>5. ASSUME NEW r \in Runs, NEW src \in 0 .. MaxSource, Append(r, src) PROVE Inv'
  <2>1. src \in Nat
    BY BoundAssumption
  <2> QED BY <1>5, <2>1, AppendEventWellFormed DEF Append, Writable
<1>6. ASSUME NEW r \in Runs, NEW b \in BackendIds, NEW src \in 0 .. MaxSource,
             Bind(r, b, src)
      PROVE  Inv'
  <2>1. src \in Nat
    BY BoundAssumption
  <2> QED BY <1>6, <2>1, BindBackendSessionWellFormed DEF Bind, Writable
<1>7. ASSUME NEW r \in Runs, NEW status \in Terminal, NEW cleanup \in Cleanup,
             Finish(r, status, cleanup)
      PROVE  Inv'
  BY <1>7, FinishRunWellFormed DEF Finish, Writable
<1>8. ASSUME NEW r \in Runs, NEW p \in Perms, Request(r, p) PROVE Inv'
  BY <1>8, CreatePermissionWellFormed DEF Request, Writable
<1>9. ASSUME NEW r \in Runs, NEW a \in Artifacts, Register(r, a) PROVE Inv'
  BY <1>9, RegisterArtifactWellFormed DEF Register, Writable
<1>10. ASSUME NEW p \in Perms, NEW o \in Options, Decide(p, o) PROVE Inv'
  BY <1>10, DecidePermissionWellFormed DEF Decide, Existing
<1>11. ASSUME NEW p \in Perms, Apply(p) PROVE Inv'
  BY <1>11, MarkPermissionAppliedWellFormed DEF Apply, Existing
<1>12. ASSUME NEW p \in Perms, ClockPasses(p) PROVE Inv'
  BY <1>12 DEF ClockPasses
<1>13. CASE UNCHANGED vars
  BY <1>13 DEF vars
<1> QED
  BY <1>1, <1>2, <1>3, <1>4, <1>5, <1>6, <1>7, <1>8, <1>9, <1>10, <1>11, <1>12, <1>13
     DEF Next

\* Under every sequence of Store calls the database is well typed.
THEOREM StoreTyped == Spec => []TypeOK
<1>1. Inv => TypeOK
  BY DEF Inv, TypeOK, WellFormed
<1> QED BY <1>1, InitInv, NextInv, PTL DEF Spec

\* Under every sequence of Store calls a run's events are numbered without gap or
\* repeat (insertEvent).
THEOREM StoreNumbers == Spec => []EventsNumbered
<1>1. Inv => EventsNumbered
  BY DEF Inv, EventsNumbered, WellFormed
<1> QED BY <1>1, InitInv, NextInv, PTL DEF Spec

\* Under every sequence of Store calls a run has its terminal event exactly when
\* its status is terminal, and as its last event (finishRun).
THEOREM StoreSeals == Spec => []TerminalEventLast
<1>1. Inv => TerminalEventLast
  BY DEF Inv, TerminalEventLast, WellFormed
<1> QED BY <1>1, InitInv, NextInv, PTL DEF Spec

\* Under every sequence of Store calls no ended run has a permission that could
\* still be decided or applied (finishRun, createPermission).
THEOREM StoreClosesPermissions == Spec => []NoOpenPermissionAfterEnd
<1>1. Inv => NoOpenPermissionAfterEnd
  BY DEF Inv, NoOpenPermissionAfterEnd, WellFormed
<1> QED BY <1>1, InitInv, NextInv, PTL DEF Spec

----------------------------------------------------------------------------

(***************************************************************************)
(* Identity                                                                *)
(*                                                                         *)
(* What identifies a run, its Session, generation and idempotency key, is  *)
(* fixed when the run is accepted and is not shared with another run of    *)
(* the Session.                                                            *)
(*                                                                         *)
(* Only AcceptRun writes these columns, but every other method saves whole *)
(* run records; IdentitiesKept says that they save them as they were.      *)
(***************************************************************************)

SameIdentity(d, e, r) ==
    /\ Accepted(d, r) <=> Accepted(e, r)
    /\ e.run[r].session = d.run[r].session
    /\ e.run[r].generation = d.run[r].generation
    /\ e.run[r].key = d.run[r].key

IdentitiesKept(d, e) == \A r \in Runs : SameIdentity(d, e, r)

\* insertEvent saves the record's identity and leaves other runs alone.
LEMMA InsertEventRun ==
    ASSUME NEW d \in Database, NEW r \in Runs, NEW rec \in RunRecord,
           NEW src \in Nat, NEW terminal \in BOOLEAN
    PROVE  LET e == InsertEvent(d, r, rec, src, terminal) IN
           /\ e.run[r].status = rec.status /\ e.run[r].session = rec.session
           /\ e.run[r].generation = rec.generation /\ e.run[r].key = rec.key
           /\ \A t \in Runs \ {r} : e.run[t] = d.run[t]
<1> DEFINE new == [rec EXCEPT !.lastSeq = rec.lastSeq + 1]
           e == InsertEvent(d, r, rec, src, terminal)
<1>1. e.run = [d.run EXCEPT ![r] = new]
  BY InsertEventType
<1>2. /\ new.status = rec.status /\ new.session = rec.session
      /\ new.generation = rec.generation /\ new.key = rec.key
  BY DEF RunRecord
<1>3. d.run \in [Runs -> RunRecord]
  BY DEF Database
<1> HIDE DEF new, e
<1>4. e.run[r] = new /\ \A t \in Runs \ {r} : e.run[t] = d.run[t]
  BY <1>1, <1>3
<1> QED BY <1>2, <1>4 DEF e

\* An event saved with the identity of its run.
LEMMA InsertEventKeeps ==
    ASSUME NEW d, WellFormed(d), NEW r \in Runs, Accepted(d, r),
           NEW rec \in RunRecord, NEW src \in Nat, NEW terminal \in BOOLEAN,
           rec.status # "absent", rec.session = d.run[r].session,
           rec.generation = d.run[r].generation, rec.key = d.run[r].key
    PROVE  IdentitiesKept(d, InsertEvent(d, r, rec, src, terminal))
<1> DEFINE e == InsertEvent(d, r, rec, src, terminal)
<1>1. d \in Database
  BY DEF WellFormed
<1>2. /\ e.run[r].status = rec.status /\ e.run[r].session = rec.session
      /\ e.run[r].generation = rec.generation /\ e.run[r].key = rec.key
      /\ \A t \in Runs \ {r} : e.run[t] = d.run[t]
  BY <1>1, InsertEventRun
<1> HIDE DEF e
<1>3. SameIdentity(d, e, r)
  BY <1>2 DEF SameIdentity, Accepted
<1>4. \A t \in Runs \ {r} : SameIdentity(d, e, t)
  BY <1>2 DEF SameIdentity, Accepted
<1>5. IdentitiesKept(d, e)
  BY <1>3, <1>4 DEF IdentitiesKept
<1> QED BY <1>5 DEF e

\* An ordinary event, on a database e that has the runs of d.
LEMMA PlainEventKeeps ==
    ASSUME NEW d, NEW e, WellFormed(e), e.run = d.run, NEW r \in Runs, Accepted(d, r),
           NEW src \in Nat, NEW terminal \in BOOLEAN
    PROVE  IdentitiesKept(d, InsertEvent(e, r, e.run[r], src, terminal))
<1>1. Accepted(e, r)
  BY DEF Accepted
<1>2. IdentitiesKept(e, InsertEvent(e, r, e.run[r], src, terminal))
  BY <1>1, AcceptedRecord, InsertEventKeeps
<1> QED BY <1>2 DEF IdentitiesKept, SameIdentity, Accepted

LEMMA SameRunsKeep ==
    ASSUME NEW d, NEW e, e.run = d.run
    PROVE  IdentitiesKept(d, e)
BY DEF IdentitiesKept, SameIdentity, Accepted

\* Expired permissions only add events.
LEMMA ExpireKeeps ==
    ASSUME NEW d, WellFormed(d), NEW r \in Runs, ~ IsTerminal(d, r), Accepted(d, r),
           NEW ps \in SUBSET Perms,
           \A p \in ps : d.perm[p].run = r /\ d.perm[p].status # "absent"
    PROVE  IdentitiesKept(d, ExpirePermissions(d, r, ps))
<1> DEFINE e == ExpirePermissions(d, r, ps)
<1>1. PICK n \in Nat : e.run = [d.run EXCEPT ![r].lastSeq = d.run[r].lastSeq + n]
  BY ExpireWellFormed
<1>2. d.run \in [Runs -> RunRecord]
  BY DEF WellFormed, Database
<1> HIDE DEF e
<1>3. \A t \in Runs : /\ e.run[t].session = d.run[t].session
                      /\ e.run[t].generation = d.run[t].generation
                      /\ e.run[t].key = d.run[t].key
                      /\ e.run[t].status = d.run[t].status
  BY <1>1, <1>2 DEF RunRecord
<1>4. IdentitiesKept(d, e)
  BY <1>3 DEF IdentitiesKept, SameIdentity, Accepted
<1> QED BY <1>4 DEF e

----------------------------------------------------------------------------
(* Every method but acceptRun *)

LEMMA SetRunStatusKeeps ==
    ASSUME NEW d, WellFormed(d), NEW r \in Runs, Accepted(d, r), NEW status \in Working
    PROVE  IdentitiesKept(d, SetRunStatus(d, r, status))
<1> DEFINE rec == [d.run[r] EXCEPT !.status = status,
                                   !.started = @ \/ status = "starting"]
<1>1. /\ rec \in RunRecord /\ rec.status = status
      /\ rec.session = d.run[r].session /\ rec.generation = d.run[r].generation
      /\ rec.key = d.run[r].key
  BY AcceptedRecord DEF RunRecord
<1>2. status # "absent"
  BY DEF Working
<1> HIDE DEF rec
<1>3. IdentitiesKept(d, InsertEvent(d, r, rec, 0, FALSE))
  BY <1>1, <1>2, InsertEventKeeps
<1> QED BY <1>3, SameRunsKeep DEF SetRunStatus, rec

LEMMA AppendEventKeeps ==
    ASSUME NEW d, WellFormed(d), NEW r \in Runs, Accepted(d, r), NEW src \in Nat
    PROVE  IdentitiesKept(d, AppendEvent(d, r, src))
BY PlainEventKeeps, SameRunsKeep DEF AppendEvent

LEMMA BindBackendSessionKeeps ==
    ASSUME NEW d, WellFormed(d), NEW r \in Runs, Accepted(d, r), NEW src \in Nat,
           NEW b \in BackendIds
    PROVE  IdentitiesKept(d, BindBackendSession(d, r, b, src))
<1> DEFINE s == d.run[r].session
           v == [d.session[s] EXCEPT !.backend = b]
           e == [d EXCEPT !.session[s] = v]
<1>1. s \in Sessions
  BY AcceptedRecord
<1>2. v \in SessionRecord
  BY <1>1 DEF WellFormed, Database, SessionRecord
<1>3. WellFormed(e) /\ e.run = d.run
  BY <1>1, <1>2, SessionChangeWellFormed
<1>4. [d EXCEPT !.session[d.run[r].session].backend = b] = e
  OBVIOUS
<1> HIDE DEF e
<1>5. IdentitiesKept(d, InsertEvent(e, r, e.run[r], src, FALSE))
  BY <1>3, PlainEventKeeps
<1> QED BY <1>3, <1>4, <1>5, SameRunsKeep DEF BindBackendSession

LEMMA FinishRunKeeps ==
    ASSUME NEW d, WellFormed(d), NEW r \in Runs, Accepted(d, r),
           NEW status \in Terminal, NEW cleanup \in Cleanup
    PROVE  IdentitiesKept(d, FinishRun(d, r, status, cleanup))
<1>1. CASE IsTerminal(d, r)
  BY <1>1, SameRunsKeep DEF FinishRun
<1>2. CASE ~ IsTerminal(d, r)
  <2> DEFINE e == ExpirePermissions(d, r, OpenPerms(d, r))
             rec == [e.run[r] EXCEPT !.status = status, !.cleanup = cleanup]
  <2>1. /\ OpenPerms(d, r) \in SUBSET Perms
        /\ \A p \in OpenPerms(d, r) : d.perm[p].run = r /\ d.perm[p].status # "absent"
    BY DEF OpenPerms
  <2>2. WellFormed(e) /\ e.run[r] \in RunRecord
    BY <1>2, <2>1, ExpireWellFormed
  <2>3. IdentitiesKept(d, e)
    BY <1>2, <2>1, ExpireKeeps
  <2> HIDE DEF e
  <2>4. /\ rec \in RunRecord /\ rec.status = status
        /\ rec.session = e.run[r].session /\ rec.generation = e.run[r].generation
        /\ rec.key = e.run[r].key
    BY <2>2 DEF RunRecord
  <2>5. status # "absent" /\ Accepted(e, r)
    BY <2>3 DEF Terminal, IdentitiesKept, SameIdentity
  <2> HIDE DEF rec
  <2>6. IdentitiesKept(e, InsertEvent(e, r, rec, 0, TRUE))
    BY <2>2, <2>4, <2>5, InsertEventKeeps
  <2>7. IdentitiesKept(d, InsertEvent(e, r, rec, 0, TRUE))
    BY <2>3, <2>6 DEF IdentitiesKept, SameIdentity
  <2> QED BY <1>2, <2>7 DEF FinishRun, e, rec
<1> QED BY <1>1, <1>2

\* A permission changes, and an event records it.
LEMMA PermEventKeeps ==
    ASSUME NEW d, WellFormed(d), NEW p \in Perms, NEW v \in PermissionRecord,
           v.run \in Runs, Accepted(d, v.run), ~ IsTerminal(d, v.run)
    PROVE  IdentitiesKept(d, InsertEvent([d EXCEPT !.perm[p] = v], v.run,
                                         d.run[v.run], 0, FALSE))
<1> DEFINE e == [d EXCEPT !.perm[p] = v]
<1>1. WellFormed(e) /\ e.run = d.run
  BY PermChangeWellFormed
<1> HIDE DEF e
<1>2. IdentitiesKept(d, InsertEvent(e, v.run, e.run[v.run], 0, FALSE))
  BY <1>1, PlainEventKeeps
<1> QED BY <1>1, <1>2 DEF e

LEMMA CreatePermissionKeeps ==
    ASSUME NEW d, WellFormed(d), NEW r \in Runs, Accepted(d, r), NEW p \in Perms,
           NEW past
    PROVE  IdentitiesKept(d, CreatePermission(d, r, p, past))
<1> DEFINE v == [run |-> r, status |-> "pending", decision |-> None]
<1>1. v \in PermissionRecord /\ v.run = r
  BY DEF PermissionRecord
<1>2. CASE CreateRefused(d, r, p, past)
  BY <1>2, SameRunsKeep DEF CreatePermission
<1>3. CASE ~ CreateRefused(d, r, p, past)
  <2>1. ~ IsTerminal(d, r)
    BY <1>3 DEF CreateRefused, Unattended, IsTerminal
  <2> HIDE DEF v
  <2>2. IdentitiesKept(d, InsertEvent([d EXCEPT !.perm[p] = v], r, d.run[r], 0, FALSE))
    BY <1>1, <2>1, PermEventKeeps
  <2> QED BY <1>3, <2>2 DEF CreatePermission, v
<1> QED BY <1>2, <1>3

LEMMA ExpirePermissionKeeps ==
    ASSUME NEW d, WellFormed(d), NEW p \in Perms, d.perm[p].status # "absent"
    PROVE  IdentitiesKept(d, ExpirePermission(d, p))
<1> DEFINE r == d.perm[p].run
           e == [d EXCEPT !.perm[p].status = "expired"]
<1>1. r \in Runs /\ Accepted(d, r)
  BY OwnerOf
<1>2. e.run = d.run
  BY DEF WellFormed, Database
<1>3. IdentitiesKept(d, e)
  BY <1>2, SameRunsKeep
<1>4. {p} \in SUBSET Perms /\ \A q \in {p} : d.perm[q].run = r /\ d.perm[q].status # "absent"
  OBVIOUS
<1> HIDE DEF r, e
<1>5. ~ IsTerminal(d, r) => IdentitiesKept(d, ExpirePermissions(d, r, {p}))
  BY <1>1, <1>4, ExpireKeeps
<1> QED BY <1>3, <1>5 DEF ExpirePermission, r, e

LEMMA DecidePermissionKeeps ==
    ASSUME NEW d, WellFormed(d), NEW p \in Perms, d.perm[p].status # "absent",
           NEW o \in Options, NEW past
    PROVE  IdentitiesKept(d, DecidePermission(d, p, o, past))
<1> DEFINE v == [d.perm[p] EXCEPT !.status = "decided", !.decision = o]
<1>1. /\ v \in PermissionRecord /\ v.run = d.perm[p].run
      /\ v.run \in Runs /\ Accepted(d, v.run)
  BY OwnerOf DEF PermissionRecord
<1>2. ~ DecisionLapsed(d, p, past) => ~ IsTerminal(d, d.perm[p].run)
  BY DEF DecisionLapsed, Unattended, IsTerminal
<1>3. [d EXCEPT !.perm[p].status = "decided", !.perm[p].decision = o]
        = [d EXCEPT !.perm[p] = v]
  BY DEF WellFormed, Database
<1> HIDE DEF v
<1>4. ~ DecisionLapsed(d, p, past) =>
        IdentitiesKept(d, InsertEvent([d EXCEPT !.perm[p] = v], d.perm[p].run,
                                      d.run[d.perm[p].run], 0, FALSE))
  BY <1>1, <1>2, PermEventKeeps
<1> QED BY <1>3, <1>4, ExpirePermissionKeeps, SameRunsKeep DEF DecidePermission

LEMMA MarkPermissionAppliedKeeps ==
    ASSUME NEW d, WellFormed(d), NEW p \in Perms, d.perm[p].status # "absent",
           NEW past
    PROVE  IdentitiesKept(d, MarkPermissionApplied(d, p, past))
<1> DEFINE v == [d.perm[p] EXCEPT !.status = "applied"]
<1>1. /\ v \in PermissionRecord /\ v.run = d.perm[p].run
      /\ v.run \in Runs /\ Accepted(d, v.run)
  BY OwnerOf DEF PermissionRecord
<1>2. [d EXCEPT !.perm[p].status = "applied"] = [d EXCEPT !.perm[p] = v]
  BY DEF WellFormed, Database
<1> HIDE DEF v
<1>3. ~ IsTerminal(d, d.perm[p].run) =>
        IdentitiesKept(d, InsertEvent([d EXCEPT !.perm[p] = v], d.perm[p].run,
                                      d.run[d.perm[p].run], 0, FALSE))
  BY <1>1, PermEventKeeps
<1> QED BY <1>2, <1>3, SameRunsKeep DEF MarkPermissionApplied

LEMMA RegisterArtifactKeeps ==
    ASSUME NEW d, WellFormed(d), NEW r \in Runs, Accepted(d, r), NEW a \in Artifacts
    PROVE  IdentitiesKept(d, RegisterArtifact(d, r, a))
<1> DEFINE e == [d EXCEPT !.artifact[a] = r]
<1>1. /\ e \in Database
      /\ e.run = d.run /\ e.events = d.events /\ e.perm = d.perm
  BY DEF WellFormed, Database
<1> HIDE DEF e
<1>2. WellFormed(e)
  BY <1>1 DEF WellFormed, Numbered, Sealed, PermissionsClosed, PermsOwned, RunsOwned,
              Bounded, IsTerminal, Accepted
<1>3. IdentitiesKept(d, InsertEvent(e, r, d.run[r], 0, FALSE))
  BY <1>1, <1>2, PlainEventKeeps
<1> QED BY <1>3, SameRunsKeep DEF RegisterArtifact, e

----------------------------------------------------------------------------
(* acceptRun *)

Distinct(d) == GenerationsDistinct(d) /\ KeysDistinct(d)

\* Identities that stay are as distinct as they were.
LEMMA KeptDistinct ==
    ASSUME NEW d, NEW e, Distinct(d), IdentitiesKept(d, e)
    PROVE  Distinct(e)
<1>1. \A s \in Sessions : RunsOf(e, s) = RunsOf(d, s)
  BY DEF RunsOf, IdentitiesKept, SameIdentity
<1>2. \A r \in Runs : /\ e.run[r].generation = d.run[r].generation
                      /\ e.run[r].key = d.run[r].key
  BY DEF IdentitiesKept, SameIdentity
<1>3. \A s \in Sessions : \A r \in RunsOf(d, s) : r \in Runs
  BY DEF RunsOf
<1>4. GenerationsDistinct(e)
  BY <1>1, <1>2, <1>3 DEF Distinct, GenerationsDistinct
<1>5. KeysDistinct(e)
  BY <1>1, <1>2, <1>3 DEF Distinct, KeysDistinct
<1> QED BY <1>4, <1>5 DEF Distinct

\* The accepted run has a generation above those of its Session's runs, and a key
\* that none of them has.
LEMMA AcceptRunDistinct ==
    ASSUME NEW d, WellFormed(d), Distinct(d), NEW s \in Sessions, NEW r \in Runs,
           ~ Accepted(d, r), NEW k \in Keys \cup {None}, NEW h \in Hashes
    PROVE  Distinct(AcceptRun(d, s, r, k, h))
<1> DEFINE G == Generation(d, s)
           rec == [session |-> s, generation |-> G, key |-> k, hash |-> h,
                   status |-> "queued", started |-> FALSE, cleanup |-> "unconfirmed",
                   lastSeq |-> 0]
           e == InsertEvent(d, r, rec, 0, FALSE)
<1>1. SUFFICES ASSUME FindRunByKey(d, s, k) = {} PROVE Distinct(e)
  BY Zenon DEF AcceptRun
<1>2. G \in Nat /\ \A t \in RunsOf(d, s) : d.run[t].generation < G
  BY GenerationFresh
<1> HIDE DEF G
<1>3. rec \in RunRecord
  BY <1>2 DEF RunRecord, Working, Cleanup
<1>4. d \in Database /\ d.run \in [Runs -> RunRecord]
  BY DEF WellFormed, Database
<1>5. rec.session = s /\ rec.generation = G /\ rec.key = k /\ rec.status = "queued"
  OBVIOUS
<1> HIDE DEF rec
<1>6. /\ e.run[r].status = rec.status /\ e.run[r].session = rec.session
      /\ e.run[r].generation = rec.generation /\ e.run[r].key = rec.key
      /\ \A t \in Runs \ {r} : e.run[t] = d.run[t]
  <2>1. 0 \in Nat /\ d \in Database
    BY <1>4
  <2>2. FALSE \in BOOLEAN
    OBVIOUS
  <2> QED BY ONLY <1>3, <2>1, <2>2, InsertEventRun, r \in Runs, Zenon
<1> HIDE DEF e
<1>7. /\ e.run[r].session = s /\ e.run[r].generation = G /\ e.run[r].key = k
      /\ e.run[r].status = "queued"
  BY <1>5, <1>6
<1>8. r \notin RunsOf(d, s) /\ \A u \in Sessions : r \notin RunsOf(d, u)
  BY DEF RunsOf
<1>9. \A u \in Sessions : RunsOf(e, u) = IF u = s THEN RunsOf(d, s) \cup {r} ELSE RunsOf(d, u)
  BY <1>6, <1>7 DEF RunsOf, Accepted
<1>10. \A u \in Sessions : \A t \in RunsOf(d, u) : t \in Runs \ {r}
  BY <1>8 DEF RunsOf
<1>11. \A t \in RunsOf(d, s) : d.run[t].generation # G
  <2>1. \A t \in RunsOf(d, s) : d.run[t].generation \in Nat
    BY <1>4, <1>10 DEF RunRecord
  <2> QED BY <1>2, <2>1
<1>12. \A t \in RunsOf(d, s) : k # None => d.run[t].key # k
  BY <1>1 DEF FindRunByKey
<1>13. GenerationsDistinct(e)
  BY <1>6, <1>7, <1>9, <1>10, <1>11 DEF Distinct, GenerationsDistinct
<1>14. KeysDistinct(e)
  BY <1>6, <1>7, <1>9, <1>10, <1>12 DEF Distinct, KeysDistinct
<1> QED BY <1>13, <1>14 DEF Distinct

----------------------------------------------------------------------------
(* The Store under an arbitrary caller *)

\* Every call but acceptRun saves the identities as they were.
LEMMA NextKeeps ==
    ASSUME Inv, [Next]_vars,
           \A s \in Sessions, r \in Runs, k \in Keys \cup {None}, h \in Hashes :
              ~ Accept(s, r, k, h)
    PROVE  IdentitiesKept(db, db')
<1>1. WellFormed(db)
  BY DEF Inv
<1>2. ASSUME NEW s \in Sessions, Create(s) PROVE IdentitiesKept(db, db')
  <2>1. CreateSession(db, s).run = db.run
    BY <1>1 DEF CreateSession, WellFormed, Database
  <2> QED BY <1>2, <2>1, SameRunsKeep DEF Create
<1>3. ASSUME NEW s \in Sessions, NEW status \in {"open", "closing", "closed"},
             SetSession(s, status)
      PROVE  IdentitiesKept(db, db')
  <2>1. SetSessionStatus(db, s, status).run = db.run
    BY <1>1 DEF SetSessionStatus, WellFormed, Database
  <2> QED BY <1>3, <2>1, SameRunsKeep DEF SetSession
<1>4. ASSUME NEW r \in Runs, NEW status \in Working, SetStatus(r, status)
      PROVE  IdentitiesKept(db, db')
  BY <1>1, <1>4, SetRunStatusKeeps DEF SetStatus, Writable
<1>5. ASSUME NEW r \in Runs, NEW src \in 0 .. MaxSource, Append(r, src)
      PROVE  IdentitiesKept(db, db')
  <2>1. src \in Nat
    BY BoundAssumption
  <2> QED BY <1>1, <1>5, <2>1, AppendEventKeeps DEF Append, Writable
<1>6. ASSUME NEW r \in Runs, NEW b \in BackendIds, NEW src \in 0 .. MaxSource,
             Bind(r, b, src)
      PROVE  IdentitiesKept(db, db')
  <2>1. src \in Nat
    BY BoundAssumption
  <2> QED BY <1>1, <1>6, <2>1, BindBackendSessionKeeps DEF Bind, Writable
<1>7. ASSUME NEW r \in Runs, NEW status \in Terminal, NEW cleanup \in Cleanup,
             Finish(r, status, cleanup)
      PROVE  IdentitiesKept(db, db')
  BY <1>1, <1>7, FinishRunKeeps DEF Finish, Writable
<1>8. ASSUME NEW r \in Runs, NEW p \in Perms, Request(r, p) PROVE IdentitiesKept(db, db')
  BY <1>1, <1>8, CreatePermissionKeeps DEF Request, Writable
<1>9. ASSUME NEW r \in Runs, NEW a \in Artifacts, Register(r, a)
       PROVE  IdentitiesKept(db, db')
  BY <1>1, <1>9, RegisterArtifactKeeps DEF Register, Writable
<1>10. ASSUME NEW p \in Perms, NEW o \in Options, Decide(p, o)
       PROVE  IdentitiesKept(db, db')
  BY <1>1, <1>10, DecidePermissionKeeps DEF Decide, Existing
<1>11. ASSUME NEW p \in Perms, Apply(p) PROVE IdentitiesKept(db, db')
  BY <1>1, <1>11, MarkPermissionAppliedKeeps DEF Apply, Existing
<1>12. ASSUME NEW p \in Perms, ClockPasses(p) PROVE IdentitiesKept(db, db')
  BY <1>12, SameRunsKeep DEF ClockPasses
<1>13. CASE UNCHANGED vars
  BY <1>13, SameRunsKeep DEF vars
<1> QED
  BY <1>2, <1>3, <1>4, <1>5, <1>6, <1>7, <1>8, <1>9, <1>10, <1>11, <1>12, <1>13 DEF Next

\* The identities stay distinct.
LEMMA NextDistinct == Inv /\ Distinct(db) /\ [Next]_vars => Distinct(db)'
<1> SUFFICES ASSUME Inv, Distinct(db), [Next]_vars PROVE Distinct(db')
  OBVIOUS
<1>1. WellFormed(db)
  BY DEF Inv
<1>2. ASSUME NEW s \in Sessions, NEW r \in Runs, NEW k \in Keys \cup {None},
             NEW h \in Hashes, Accept(s, r, k, h)
      PROVE  Distinct(db')
  BY <1>1, <1>2, AcceptRunDistinct DEF Accept
<1> QED BY <1>2, NextKeeps, KeptDistinct

LEMMA AlwaysDistinct == Spec => []Distinct(db)
<1>1. Init => Distinct(db)
  BY DEF Init, EmptyDatabase, Distinct, GenerationsDistinct, KeysDistinct, RunsOf, Accepted
<1> QED BY <1>1, InitInv, NextInv, NextDistinct, PTL DEF Spec

\* Under every sequence of Store calls the runs of a Session have distinct
\* generations (acceptRun).
THEOREM StoreGenerations == Spec => []GenerationsUnique
<1>1. Distinct(db) => GenerationsUnique
  BY DEF Distinct, GenerationsUnique
<1> QED BY <1>1, AlwaysDistinct, PTL

\* Under every sequence of Store calls an idempotency key names one run of its
\* Session (acceptRun).
THEOREM StoreKeys == Spec => []KeyNamesOneRun
<1>1. Distinct(db) => KeyNamesOneRun
  BY DEF Distinct, KeyNamesOneRun
<1> QED BY <1>1, AlwaysDistinct, PTL

----------------------------------------------------------------------------

(***************************************************************************)
(* History                                                                 *)
(*                                                                         *)
(* What the Store has recorded as final stands, and no Worker message is   *)
(* recorded twice, under every sequence of calls.                          *)
(*                                                                         *)
(* Stands compares the database before and after a call, column by column. *)
(* A decision that has been made is kept because a permission that is      *)
(* pending has none, and a backend identity because a Session that does    *)
(* not exist has none: Prior carries these along.                          *)
(***************************************************************************)

\* A permission has no decision before it is decided, a Session no backend before it
\* exists, and a run belongs to a Session that exists.
Undecided(d) == \A p \in Perms :
    d.perm[p].status \in {"absent", "pending"} => d.perm[p].decision = None
Unbound(d) == \A s \in Sessions : d.session[s].status = "absent" => d.session[s].backend = None
Housed(d) == \A r \in Runs :
    Accepted(d, r) => d.session[d.run[r].session].status # "absent"

Prior(d) == Undecided(d) /\ Unbound(d) /\ Housed(d) /\ SourcesDistinct(d)

\* Runs and events: what has ended stays, and a new event is of a run that goes on.
RecordStands(d, e) ==
    /\ \A t \in Runs : IsTerminal(d, t) => e.run[t] = d.run[t]
    /\ d.events \subseteq e.events
    /\ \A x \in e.events \ d.events : x.run \in Runs /\ ~ IsTerminal(d, x.run)
    /\ SourcesDistinct(d) => SourcesDistinct(e)

PermsStand(d, e) == \A p \in Perms :
    /\ d.perm[p].decision # None => e.perm[p].decision = d.perm[p].decision
    /\ d.perm[p].status \in {"applied", "expired"} => e.perm[p].status = d.perm[p].status
    /\ e.perm[p].status \in {"absent", "pending"} => e.perm[p].decision = None

SessionsStand(d, e) == \A s \in Sessions :
    /\ d.session[s].status = "closed" => e.session[s].status = "closed"
    /\ d.session[s].status = "closing" => e.session[s].status # "open"
    /\ d.session[s].backend # None => e.session[s].backend = d.session[s].backend
    /\ d.session[s].status # "absent" => e.session[s].status # "absent"
    /\ e.session[s].status = "absent" => e.session[s].backend = None

ArtifactsStand(d, e) == \A a \in Artifacts :
    \/ e.artifact[a] = d.artifact[a]
    \/ d.artifact[a] = None /\ e.artifact[a] \in Runs /\ ~ IsTerminal(d, e.artifact[a])

Stands(d, e) ==
    RecordStands(d, e) /\ PermsStand(d, e) /\ SessionsStand(d, e) /\ ArtifactsStand(d, e)

----------------------------------------------------------------------------
(* Columns that a call leaves alone, and the two operators that write events *)

\* The same permissions.
LEMMA SamePerms ==
    ASSUME NEW d, Undecided(d), NEW e, e.perm = d.perm PROVE PermsStand(d, e)
BY DEF Undecided, PermsStand

\* The same Sessions.
LEMMA SameSessions ==
    ASSUME NEW d, Unbound(d), NEW e, e.session = d.session PROVE SessionsStand(d, e)
BY DEF Unbound, SessionsStand

\* The same artifacts.
LEMMA SameArtifacts ==
    ASSUME NEW d, NEW e, e.artifact = d.artifact PROVE ArtifactsStand(d, e)
BY DEF ArtifactsStand

\* The same runs and events.
LEMMA SameRecord ==
    ASSUME NEW d, NEW e, e.run = d.run, e.events = d.events PROVE RecordStands(d, e)
BY DEF RecordStands, SourcesDistinct

\* A call that writes nothing.
LEMMA SameStands == ASSUME NEW d, Prior(d) PROVE Stands(d, d)
BY SamePerms, SameSessions, SameArtifacts, SameRecord DEF Prior, Stands

\* One event of a run that goes on, of a message not seen before.
LEMMA InsertStands ==
    ASSUME NEW d \in Database, NEW r \in Runs, ~ IsTerminal(d, r), NEW rec \in RunRecord,
           NEW src \in Nat, src = 0 \/ ~ SourceSeen(d, r, src), NEW terminal \in BOOLEAN
    PROVE  /\ RecordStands(d, InsertEvent(d, r, rec, src, terminal))
           /\ InsertEvent(d, r, rec, src, terminal).perm = d.perm
           /\ InsertEvent(d, r, rec, src, terminal).session = d.session
           /\ InsertEvent(d, r, rec, src, terminal).artifact = d.artifact
<1> DEFINE f == InsertEvent(d, r, rec, src, terminal)
           row == [run |-> r, seq |-> rec.lastSeq + 1, src |-> src, terminal |-> terminal]
           new == [rec EXCEPT !.lastSeq = rec.lastSeq + 1]
<1>1. /\ f.session = d.session /\ f.perm = d.perm /\ f.artifact = d.artifact
      /\ f.events = d.events \cup {row} /\ f.run = [d.run EXCEPT ![r] = new]
  BY InsertEventType
<1>2. row.run = r /\ row.src = src
  OBVIOUS
<1>3. d.run \in [Runs -> RunRecord]
  BY DEF Database
<1> HIDE DEF f, row, new
<1>4. \A t \in Runs : IsTerminal(d, t) => f.run[t] = d.run[t]
  BY <1>1, <1>3
<1>5. \A x \in f.events \ d.events : x.run \in Runs /\ ~ IsTerminal(d, x.run)
  BY <1>1, <1>2
<1>6. ASSUME SourcesDistinct(d), NEW x \in f.events, NEW y \in f.events,
             x.run = y.run, x.src = y.src, x.src # 0
      PROVE  x = y
  <2>1. CASE x \in d.events /\ y \in d.events
    BY <1>6, <2>1 DEF SourcesDistinct
  <2>2. CASE x = row \/ y = row
    <3>1. src # 0 /\ ~ SourceSeen(d, r, src)
      BY <1>2, <1>6, <2>2
    <3>2. \A z \in d.events : ~ (z.run = r /\ z.src = src)
      BY <3>1 DEF SourceSeen
    <3> QED BY <1>1, <1>2, <1>6, <2>2, <3>2
  <2> QED BY <1>1, <1>6, <2>1, <2>2
<1>7. RecordStands(d, f)
  BY <1>1, <1>4, <1>5, <1>6 DEF RecordStands, SourcesDistinct
<1> QED BY <1>1, <1>7 DEF f

\* Two calls in a row.
LEMMA RecordTwice ==
    ASSUME NEW d, NEW e, NEW f, RecordStands(d, e), RecordStands(e, f) PROVE RecordStands(d, f)
<1>1. \A t \in Runs : IsTerminal(d, t) => IsTerminal(e, t)
  BY DEF RecordStands, IsTerminal
<1> QED BY <1>1 DEF RecordStands

\* From d, a call wrote another table (e) and then one event (f).
Logged(d, e, f) ==
    RecordStands(d, f) /\ f.perm = e.perm /\ f.session = e.session /\ f.artifact = e.artifact

\* One event, after another table has just been written.
LEMMA InsertAfter ==
    ASSUME NEW d, NEW e \in Database, e.run = d.run, e.events = d.events,
           NEW r \in Runs, ~ IsTerminal(d, r), NEW rec \in RunRecord,
           NEW src \in Nat, src = 0 \/ ~ SourceSeen(d, r, src)
    PROVE  Logged(d, e, InsertEvent(e, r, rec, src, FALSE))
<1> DEFINE f == InsertEvent(e, r, rec, src, FALSE)
<1>1. ~ IsTerminal(e, r) /\ (src = 0 \/ ~ SourceSeen(e, r, src))
  BY DEF IsTerminal, SourceSeen
<1>2. /\ RecordStands(e, f)
      /\ f.perm = e.perm /\ f.session = e.session /\ f.artifact = e.artifact
  BY <1>1, InsertStands
<1>3. RecordStands(d, e)
  BY SameRecord
<1> HIDE DEF f
<1>4. Logged(d, e, f)
  BY <1>2, <1>3, RecordTwice DEF Logged
<1> QED BY <1>4 DEF f

\* Open permissions of a run that goes on expire.
LEMMA ExpireStands ==
    ASSUME NEW d, WellFormed(d), Prior(d), NEW r \in Runs, ~ IsTerminal(d, r), Accepted(d, r),
           NEW ps \in SUBSET Perms,
           \A p \in ps : d.perm[p].run = r /\ d.perm[p].status \in {"pending", "decided"}
    PROVE  Stands(d, ExpirePermissions(d, r, ps))
<1> DEFINE n == Cardinality(ps)
           e == ExpirePermissions(d, r, ps)
           rows == {[run |-> r, seq |-> d.run[r].lastSeq + i, src |-> 0,
                     terminal |-> FALSE] : i \in 1 .. n}
           perm == [p \in Perms |-> IF p \in ps THEN [d.perm[p] EXCEPT !.status = "expired"]
                                    ELSE d.perm[p]]
           run == [d.run EXCEPT ![r].lastSeq = @ + n]
<1>1. \A p \in ps : d.perm[p].status # "absent"
  OBVIOUS
<1>2. e.session = d.session /\ e.artifact = d.artifact
      /\ \E m \in Nat : e.run = [d.run EXCEPT ![r].lastSeq = d.run[r].lastSeq + m]
  BY <1>1, ExpireWellFormed
<1>3. d \in Database /\ d.run \in [Runs -> RunRecord] /\ d.perm \in [Perms -> PermissionRecord]
  BY DEF WellFormed, Database
<1>4. e = [d EXCEPT !.perm = perm, !.events = @ \cup rows, !.run = run]
  BY DEF ExpirePermissions
<1>5. \A p \in Perms : /\ perm[p].decision = d.perm[p].decision
                       /\ perm[p].status = IF p \in ps THEN "expired" ELSE d.perm[p].status
  BY <1>3 DEF PermissionRecord
<1>6. \A x \in rows : x.run = r /\ x.src = 0
  OBVIOUS
<1> HIDE DEF n, rows, perm, run
<1>7. e.perm = perm /\ e.events = d.events \cup rows
  BY <1>3, <1>4 DEF Database
<1> HIDE DEF e
<1>8. RecordStands(d, e)
  <2>1. \A t \in Runs : IsTerminal(d, t) => e.run[t] = d.run[t]
    BY <1>2, <1>3
  <2>2. \A x \in e.events \ d.events : x.run = r /\ x.src = 0
    BY <1>6, <1>7
  <2>3. SourcesDistinct(d) => SourcesDistinct(e)
    <3>1. \A x \in e.events : x.src # 0 => x \in d.events
      BY <2>2
    <3> QED BY <3>1 DEF SourcesDistinct
  <2> QED BY <1>7, <2>1, <2>2, <2>3 DEF RecordStands
<1>9. PermsStand(d, e)
  <2> SUFFICES ASSUME NEW p \in Perms
               PROVE  /\ d.perm[p].decision # None => e.perm[p].decision = d.perm[p].decision
                      /\ d.perm[p].status \in {"applied", "expired"} =>
                            e.perm[p].status = d.perm[p].status
                      /\ e.perm[p].status \in {"absent", "pending"} => e.perm[p].decision = None
    BY DEF PermsStand
  <2>1. /\ e.perm[p].decision = d.perm[p].decision
        /\ e.perm[p].status = IF p \in ps THEN "expired" ELSE d.perm[p].status
    BY <1>5, <1>7
  <2>2. p \in ps => d.perm[p].status \in {"pending", "decided"}
    OBVIOUS
  <2> QED BY <2>1, <2>2 DEF Prior, Undecided
<1>10. Stands(d, e)
  BY <1>2, <1>8, <1>9, SameSessions, SameArtifacts DEF Prior, Stands
<1> QED BY <1>10 DEF e

----------------------------------------------------------------------------
(* Every method *)

\* An event that changes no other table.
LEMMA EventStands ==
    ASSUME NEW d, WellFormed(d), Prior(d), NEW r \in Runs, ~ IsTerminal(d, r),
           NEW rec \in RunRecord, NEW src \in Nat, src = 0 \/ ~ SourceSeen(d, r, src)
    PROVE  Stands(d, InsertEvent(d, r, rec, src, FALSE))
<1> DEFINE f == InsertEvent(d, r, rec, src, FALSE)
<1>1. d \in Database
  BY DEF WellFormed
<1>2. RecordStands(d, f) /\ f.perm = d.perm /\ f.session = d.session /\ f.artifact = d.artifact
  BY <1>1, InsertStands
<1> HIDE DEF f
<1>3. Stands(d, f)
  BY <1>2, SamePerms, SameSessions, SameArtifacts DEF Prior, Stands
<1> QED BY <1>3 DEF f

\* setRunStatus.
LEMMA SetRunStatusStands ==
    ASSUME NEW d, WellFormed(d), Prior(d), NEW r \in Runs, Accepted(d, r),
           NEW status \in Working
    PROVE  Stands(d, SetRunStatus(d, r, status))
<1> DEFINE rec == [d.run[r] EXCEPT !.status = status,
                                   !.started = @ \/ status = "starting"]
<1>1. rec \in RunRecord
  BY AcceptedRecord DEF RunRecord
<1> HIDE DEF rec
<1>2. ~ IsTerminal(d, r) => Stands(d, InsertEvent(d, r, rec, 0, FALSE))
  BY <1>1, EventStands
<1> QED BY <1>2, SameStands DEF SetRunStatus, rec

\* appendEvent.
LEMMA AppendEventStands ==
    ASSUME NEW d, WellFormed(d), Prior(d), NEW r \in Runs, Accepted(d, r), NEW src \in Nat
    PROVE  Stands(d, AppendEvent(d, r, src))
BY AcceptedRecord, EventStands, SameStands DEF AppendEvent

\* bindBackendSession: an identity is set once.
LEMMA BindBackendSessionStands ==
    ASSUME NEW d, WellFormed(d), Prior(d), NEW r \in Runs, Accepted(d, r), NEW src \in Nat,
           NEW b \in BackendIds
    PROVE  Stands(d, BindBackendSession(d, r, b, src))
<1> DEFINE s == d.run[r].session
           v == [d.session[s] EXCEPT !.backend = b]
           e == [d EXCEPT !.session[s] = v]
           f == InsertEvent(e, r, d.run[r], src, FALSE)
<1>1. CASE IsTerminal(d, r) \/ BindRefused(d, r, b) \/ SourceSeen(d, r, src)
  BY <1>1, SameStands DEF BindBackendSession
<1>2. CASE ~ (IsTerminal(d, r) \/ BindRefused(d, r, b) \/ SourceSeen(d, r, src))
  <2>1. /\ s \in Sessions /\ d.run[r] \in RunRecord
        /\ d.session \in [Sessions -> SessionRecord] /\ d \in Database
    BY AcceptedRecord DEF WellFormed, Database
  <2>2. /\ v \in SessionRecord /\ v.status = d.session[s].status /\ v.backend = b
    BY <2>1 DEF SessionRecord
  <2>3. BindBackendSession(d, r, b, src) = f
    BY <1>2 DEF BindBackendSession
  <2>4. d.session[s].backend \in {None, b}
    BY <1>2 DEF BindRefused
  <2>5. d.session[s].status # "absent"
    BY DEF Prior, Housed
  <2> HIDE DEF v, s
  <2>6. /\ e \in Database /\ e.run = d.run /\ e.events = d.events /\ e.perm = d.perm
        /\ e.artifact = d.artifact /\ e.session = [d.session EXCEPT ![s] = v]
    BY <2>1, <2>2 DEF Database
  <2> HIDE DEF e
  <2>7. SessionsStand(d, e)
    BY <2>1, <2>2, <2>4, <2>5, <2>6 DEF SessionsStand, Prior, Unbound
  <2>8. Logged(d, e, f)
    BY <1>2, <2>1, <2>6, InsertAfter
  <2> HIDE DEF f
  <2>9. SessionsStand(d, f)
    BY <2>7, <2>8 DEF SessionsStand, Logged
  <2> QED BY <2>3, <2>6, <2>8, <2>9, SamePerms, SameArtifacts DEF Prior, Stands, Logged
<1> QED BY <1>1, <1>2

\* finishRun: the permissions expire, then the terminal event.
LEMMA FinishRunStands ==
    ASSUME NEW d, WellFormed(d), Prior(d), NEW r \in Runs, Accepted(d, r),
           NEW status \in Terminal, NEW cleanup \in Cleanup
    PROVE  Stands(d, FinishRun(d, r, status, cleanup))
<1> DEFINE ps == OpenPerms(d, r)
           e == ExpirePermissions(d, r, ps)
           rec == [e.run[r] EXCEPT !.status = status, !.cleanup = cleanup]
           f == InsertEvent(e, r, rec, 0, TRUE)
<1>1. CASE IsTerminal(d, r)
  BY <1>1, SameStands DEF FinishRun
<1>2. CASE ~ IsTerminal(d, r)
  <2>1. FinishRun(d, r, status, cleanup) = f
    BY <1>2 DEF FinishRun
  <2>2. /\ ps \in SUBSET Perms
        /\ \A p \in ps : d.perm[p].run = r /\ d.perm[p].status \in {"pending", "decided"}
    BY DEF OpenPerms
  <2>3. /\ WellFormed(e) /\ e.run[r] \in RunRecord
        /\ \E n \in Nat : e.run = [d.run EXCEPT ![r].lastSeq = d.run[r].lastSeq + n]
    BY <1>2, <2>2, ExpireWellFormed
  <2>4. Stands(d, e)
    BY <1>2, <2>2, ExpireStands
  <2> HIDE DEF ps, e
  <2>5. rec \in RunRecord
    BY <2>3 DEF RunRecord
  <2>6. e \in Database /\ ~ IsTerminal(e, r)
    BY <1>2, <2>3 DEF WellFormed, Database, RunRecord, IsTerminal
  <2> HIDE DEF rec
  <2>7. RecordStands(e, f) /\ f.perm = e.perm /\ f.session = e.session /\ f.artifact = e.artifact
    <3>1. 0 \in Nat /\ TRUE \in BOOLEAN
      OBVIOUS
    <3>2. (0 = 0) \/ ~ SourceSeen(e, r, 0)
      OBVIOUS
    <3> QED BY <2>5, <2>6, <3>1, <3>2, InsertStands
  <2> HIDE DEF f
  <2>8. RecordStands(d, f)
    BY <2>4, <2>7, RecordTwice DEF Stands
  <2>9. PermsStand(d, f) /\ SessionsStand(d, f) /\ ArtifactsStand(d, f)
    BY <2>4, <2>7 DEF Stands, PermsStand, SessionsStand, ArtifactsStand
  <2> QED BY <2>1, <2>8, <2>9 DEF Stands
<1> QED BY <1>1, <1>2

\* A permission changes, and an event of its run, which goes on, records it.
LEMMA PermEventStands ==
    ASSUME NEW d, WellFormed(d), Prior(d), NEW p \in Perms, NEW v \in PermissionRecord,
           NEW r \in Runs, Accepted(d, r), ~ IsTerminal(d, r),
           d.perm[p].decision # None => v.decision = d.perm[p].decision,
           d.perm[p].status \notin {"applied", "expired"},
           v.status \in {"absent", "pending"} => v.decision = None
    PROVE  Stands(d, InsertEvent([d EXCEPT !.perm[p] = v], r, d.run[r], 0, FALSE))
<1> DEFINE e == [d EXCEPT !.perm[p] = v]
           f == InsertEvent(e, r, d.run[r], 0, FALSE)
<1>1. /\ e \in Database /\ e.run = d.run /\ e.events = d.events /\ e.session = d.session
      /\ e.artifact = d.artifact /\ e.perm = [d.perm EXCEPT ![p] = v]
      /\ d.perm \in [Perms -> PermissionRecord] /\ d.run[r] \in RunRecord
  BY AcceptedRecord DEF WellFormed, Database
<1> HIDE DEF e
<1>2. Logged(d, e, f)
  BY <1>1, InsertAfter
<1> HIDE DEF f
<1>3. PermsStand(d, f)
  BY <1>1, <1>2 DEF PermsStand, Prior, Undecided, Logged
<1>4. Stands(d, f)
  BY <1>1, <1>2, <1>3, SameSessions, SameArtifacts DEF Prior, Stands, Logged
<1> QED BY <1>4 DEF e, f

\* createPermission.
LEMMA CreatePermissionStands ==
    ASSUME NEW d, WellFormed(d), Prior(d), NEW r \in Runs, Accepted(d, r), NEW p \in Perms,
           NEW past
    PROVE  Stands(d, CreatePermission(d, r, p, past))
<1> DEFINE v == [run |-> r, status |-> "pending", decision |-> None]
<1>1. CASE CreateRefused(d, r, p, past)
  BY <1>1, SameStands DEF CreatePermission
<1>2. CASE ~ CreateRefused(d, r, p, past)
  <2>1. ~ IsTerminal(d, r) /\ d.perm[p].status = "absent"
    BY <1>2 DEF CreateRefused, Unattended, IsTerminal
  <2>2. d.perm[p].decision = None
    BY <2>1 DEF Prior, Undecided
  <2>3. v \in PermissionRecord /\ v.decision = None /\ v.status = "pending"
    BY DEF PermissionRecord
  <2> HIDE DEF v
  <2>4. Stands(d, InsertEvent([d EXCEPT !.perm[p] = v], r, d.run[r], 0, FALSE))
    BY <2>1, <2>2, <2>3, PermEventStands
  <2> QED BY <1>2, <2>4 DEF CreatePermission, v
<1> QED BY <1>1, <1>2

\* expirePermission, on one that is open.
LEMMA ExpirePermissionStands ==
    ASSUME NEW d, WellFormed(d), Prior(d), NEW p \in Perms,
           d.perm[p].status \in {"pending", "decided"}
    PROVE  Stands(d, ExpirePermission(d, p))
<1> DEFINE r == d.perm[p].run
<1>1. r \in Runs /\ Accepted(d, r) /\ ~ IsTerminal(d, r)
  BY OwnerOf DEF WellFormed, PermissionsClosed
<1>2. {p} \in SUBSET Perms /\ \A q \in {p} : d.perm[q].run = r
                              /\ d.perm[q].status \in {"pending", "decided"}
  OBVIOUS
<1> HIDE DEF r
<1>3. Stands(d, ExpirePermissions(d, r, {p}))
  BY <1>1, <1>2, ExpireStands
<1> QED BY <1>1, <1>3 DEF ExpirePermission, r

\* decidePermission: a decision is made once.
LEMMA DecidePermissionStands ==
    ASSUME NEW d, WellFormed(d), Prior(d), NEW p \in Perms, d.perm[p].status # "absent",
           NEW o \in Options, NEW past
    PROVE  Stands(d, DecidePermission(d, p, o, past))
<1> DEFINE v == [d.perm[p] EXCEPT !.status = "decided", !.decision = o]
           r == d.perm[p].run
<1>1. CASE DecisionLapsed(d, p, past)
  BY <1>1, ExpirePermissionStands, SameStands DEF DecidePermission
<1>2. CASE ~ DecisionLapsed(d, p, past) /\ d.perm[p].status # "pending"
  BY <1>2, SameStands DEF DecidePermission
<1>3. CASE ~ DecisionLapsed(d, p, past) /\ d.perm[p].status = "pending"
  <2>1. v \in PermissionRecord /\ v.status = "decided"
    BY OwnerOf DEF PermissionRecord
  <2>2. r \in Runs /\ Accepted(d, r) /\ ~ IsTerminal(d, r)
    BY <1>3, OwnerOf DEF DecisionLapsed, Unattended, IsTerminal
  <2>3. d.perm[p].decision = None
    BY <1>3 DEF Prior, Undecided
  <2>4. [d EXCEPT !.perm[p].status = "decided", !.perm[p].decision = o]
          = [d EXCEPT !.perm[p] = v]
    BY DEF WellFormed, Database
  <2> HIDE DEF v, r
  <2>5. Stands(d, InsertEvent([d EXCEPT !.perm[p] = v], r, d.run[r], 0, FALSE))
    BY <1>3, <2>1, <2>2, <2>3, PermEventStands
  <2> QED BY <1>3, <2>4, <2>5 DEF DecidePermission, r
<1> QED BY <1>1, <1>2, <1>3

\* markPermissionApplied.
LEMMA MarkPermissionAppliedStands ==
    ASSUME NEW d, WellFormed(d), Prior(d), NEW p \in Perms, d.perm[p].status # "absent",
           NEW past
    PROVE  Stands(d, MarkPermissionApplied(d, p, past))
<1> DEFINE v == [d.perm[p] EXCEPT !.status = "applied"]
           r == d.perm[p].run
<1>1. CASE d.perm[p].status # "decided" \/ IsTerminal(d, d.perm[p].run) \/ past
  BY <1>1, SameStands DEF MarkPermissionApplied
<1>2. CASE ~ (d.perm[p].status # "decided" \/ IsTerminal(d, d.perm[p].run) \/ past)
  <2>1. v \in PermissionRecord /\ v.status = "applied" /\ v.decision = d.perm[p].decision
    BY OwnerOf DEF PermissionRecord
  <2>2. r \in Runs /\ Accepted(d, r) /\ ~ IsTerminal(d, r)
    BY <1>2, OwnerOf
  <2>3. [d EXCEPT !.perm[p].status = "applied"] = [d EXCEPT !.perm[p] = v]
    BY DEF WellFormed, Database
  <2> HIDE DEF v, r
  <2>4. Stands(d, InsertEvent([d EXCEPT !.perm[p] = v], r, d.run[r], 0, FALSE))
    BY <1>2, <2>1, <2>2, PermEventStands
  <2> QED BY <1>2, <2>3, <2>4 DEF MarkPermissionApplied, r
<1> QED BY <1>1, <1>2

\* registerArtifact: of a run that goes on.
LEMMA RegisterArtifactStands ==
    ASSUME NEW d, WellFormed(d), Prior(d), NEW r \in Runs, Accepted(d, r), NEW a \in Artifacts
    PROVE  Stands(d, RegisterArtifact(d, r, a))
<1> DEFINE e == [d EXCEPT !.artifact[a] = r]
           f == InsertEvent(e, r, d.run[r], 0, FALSE)
<1>1. CASE IsTerminal(d, r) \/ d.artifact[a] # None
  BY <1>1, SameStands DEF RegisterArtifact
<1>2. CASE ~ (IsTerminal(d, r) \/ d.artifact[a] # None)
  <2>1. /\ e \in Database /\ e.run = d.run /\ e.events = d.events /\ e.perm = d.perm
        /\ e.session = d.session /\ e.artifact = [d.artifact EXCEPT ![a] = r]
        /\ d.artifact \in [Artifacts -> Runs \cup {None}] /\ d.run[r] \in RunRecord
    BY AcceptedRecord DEF WellFormed, Database
  <2> HIDE DEF e
  <2>2. Logged(d, e, f)
    BY <1>2, <2>1, InsertAfter
  <2> HIDE DEF f
  <2>3. ArtifactsStand(d, f)
    BY <1>2, <2>1, <2>2 DEF ArtifactsStand, Logged
  <2>4. Stands(d, f)
    BY <2>1, <2>2, <2>3, SamePerms, SameSessions DEF Prior, Stands, Logged
  <2> QED BY <1>2, <2>4 DEF RegisterArtifact, e, f
<1> QED BY <1>1, <1>2

\* acceptRun.
LEMMA AcceptRunStands ==
    ASSUME NEW d, WellFormed(d), Prior(d), NEW s \in Sessions, NEW r \in Runs,
           ~ Accepted(d, r), NEW k \in Keys \cup {None}, NEW h \in Hashes
    PROVE  /\ Stands(d, AcceptRun(d, s, r, k, h))
           /\ Housed(AcceptRun(d, s, r, k, h))
<1> DEFINE G == Generation(d, s)
           rec == [session |-> s, generation |-> G, key |-> k, hash |-> h,
                   status |-> "queued", started |-> FALSE, cleanup |-> "unconfirmed",
                   lastSeq |-> 0]
           e == InsertEvent(d, r, rec, 0, FALSE)
<1>1. CASE FindRunByKey(d, s, k) # {} \/ d.session[s].status # "open"
  <2>1. AcceptRun(d, s, r, k, h) = d
    BY <1>1 DEF AcceptRun
  <2> QED BY <2>1, SameStands DEF Prior
<1>2. CASE ~ (FindRunByKey(d, s, k) # {} \/ d.session[s].status # "open")
  <2>1. AcceptRun(d, s, r, k, h) = e
    BY <1>2 DEF AcceptRun
  <2>2. G \in Nat
    BY GenerationFresh
  <2> HIDE DEF G
  <2>3. rec \in RunRecord /\ rec.session = s
    BY <2>2 DEF RunRecord, Working, Cleanup
  <2>4. ~ IsTerminal(d, r)
    BY DEF Accepted, IsTerminal, Terminal
  <2>5. d \in Database
    BY DEF WellFormed
  <2> HIDE DEF rec
  <2>6. Stands(d, e)
    BY <2>3, <2>4, EventStands
  <2>7. /\ e.session = d.session /\ e.run[r].session = s
        /\ \A t \in Runs \ {r} : e.run[t] = d.run[t]
    <3>1. rec \in RunRecord /\ 0 \in Nat /\ FALSE \in BOOLEAN
      BY <2>3
    <3>2. e.session = d.session
      BY <2>5 DEF InsertEvent, Database
    <3>3. e.run[r].session = rec.session
      BY <2>5, <3>1, InsertEventRun
    <3>4. \A t \in Runs \ {r} : e.run[t] = d.run[t]
      BY <2>5, <3>1, InsertEventRun
    <3> QED BY <2>3, <3>2, <3>3, <3>4
  <2> HIDE DEF e
  <2>8. Housed(e)
    BY <1>2, <2>7 DEF Prior, Housed, Accepted
  <2> QED BY <2>1, <2>6, <2>8
<1> QED BY <1>1, <1>2

\* createSession.
LEMMA CreateSessionStands ==
    ASSUME NEW d, WellFormed(d), Prior(d), NEW s \in Sessions, d.session[s].status = "absent"
    PROVE  Stands(d, CreateSession(d, s))
<1> DEFINE v == [status |-> "open", backend |-> None]
           e == [d EXCEPT !.session[s] = v]
<1>1. v.status = "open" /\ v.backend = None
  OBVIOUS
<1>2. CreateSession(d, s) = e
  BY DEF CreateSession
<1> HIDE DEF v
<1>3. /\ e.run = d.run /\ e.events = d.events /\ e.perm = d.perm /\ e.artifact = d.artifact
      /\ e.session = [d.session EXCEPT ![s] = v] /\ d.session \in [Sessions -> SessionRecord]
  BY DEF WellFormed, Database
<1> HIDE DEF e
<1>4. SessionsStand(d, e)
  BY <1>1, <1>3 DEF SessionsStand, Prior, Unbound
<1> QED BY <1>2, <1>3, <1>4, SameRecord, SamePerms, SameArtifacts DEF Prior, Stands

\* setSessionStatus: never back from closed, nor from closing to open.
LEMMA SetSessionStatusStands ==
    ASSUME NEW d, WellFormed(d), Prior(d), NEW s \in Sessions, d.session[s].status # "absent",
           NEW status \in {"open", "closing", "closed"}
    PROVE  Stands(d, SetSessionStatus(d, s, status))
<1> DEFINE v == [d.session[s] EXCEPT !.status = status]
           e == [d EXCEPT !.session[s] = v]
<1>1. CASE SessionConflict(d, s, status)
  BY <1>1, SameStands DEF SetSessionStatus
<1>2. CASE ~ SessionConflict(d, s, status)
  <2>1. d.session \in [Sessions -> SessionRecord]
    BY DEF WellFormed, Database
  <2>2. v.status = status /\ v.backend = d.session[s].backend
    BY <2>1 DEF SessionRecord
  <2>3. SetSessionStatus(d, s, status) = e
    BY <1>2 DEF SetSessionStatus
  <2> HIDE DEF v
  <2>4. /\ e.run = d.run /\ e.events = d.events /\ e.perm = d.perm /\ e.artifact = d.artifact
        /\ e.session = [d.session EXCEPT ![s] = v]
    BY DEF WellFormed, Database
  <2> HIDE DEF e
  <2>5. SessionsStand(d, e)
    BY <1>2, <2>1, <2>2, <2>4 DEF SessionsStand, Prior, Unbound, SessionConflict
  <2> QED BY <2>3, <2>4, <2>5, SameRecord, SamePerms, SameArtifacts DEF Prior, Stands
<1> QED BY <1>1, <1>2

----------------------------------------------------------------------------
(* Every step, and the theorems *)

\* What stands keeps the decisions and identities of what comes next apart.
LEMMA StandsPrior ==
    ASSUME NEW d, Prior(d), NEW e, Stands(d, e), Housed(e) PROVE Prior(e)
<1>1. Undecided(e)
  BY DEF Stands, PermsStand, Undecided
<1>2. Unbound(e)
  BY DEF Stands, SessionsStand, Unbound
<1>3. SourcesDistinct(e)
  BY DEF Prior, Stands, RecordStands
<1> QED BY <1>1, <1>2, <1>3 DEF Prior

\* A call that keeps the identities of the runs leaves each in a Session that exists.
LEMMA KeptHoused ==
    ASSUME NEW d, WellFormed(d), Prior(d), NEW e, Stands(d, e), IdentitiesKept(d, e)
    PROVE  Housed(e)
<1> SUFFICES ASSUME NEW r \in Runs, Accepted(e, r)
             PROVE  e.session[e.run[r].session].status # "absent"
  BY DEF Housed
<1>1. Accepted(d, r) /\ e.run[r].session = d.run[r].session
  BY DEF IdentitiesKept, SameIdentity, Accepted
<1>2. d.run[r].session \in Sessions
  BY <1>1, AcceptedRecord
<1>3. d.session[d.run[r].session].status # "absent"
  BY <1>1 DEF Prior, Housed
<1>4. \A s \in Sessions : d.session[s].status # "absent" => e.session[s].status # "absent"
  BY DEF Stands, SessionsStand
<1> QED BY <1>1, <1>2, <1>3, <1>4

\* Whatever is called, what has been recorded stands.
LEMMA NextStands ==
    ASSUME Inv, Prior(db), [Next]_vars PROVE Stands(db, db') /\ Prior(db')
<1>1. WellFormed(db)
  BY DEF Inv
<1>2. ASSUME NEW s \in Sessions, NEW r \in Runs, NEW k \in Keys \cup {None},
             NEW h \in Hashes, Accept(s, r, k, h)
      PROVE  Stands(db, db') /\ Housed(db')
  BY <1>1, <1>2, AcceptRunStands DEF Accept
<1>3. ASSUME NEW s \in Sessions, Create(s) PROVE Stands(db, db')
  BY <1>1, <1>3, CreateSessionStands DEF Create
<1>4. ASSUME NEW s \in Sessions, NEW status \in {"open", "closing", "closed"},
             SetSession(s, status)
      PROVE  Stands(db, db')
  BY <1>1, <1>4, SetSessionStatusStands DEF SetSession
<1>5. ASSUME NEW r \in Runs, NEW status \in Working, SetStatus(r, status)
      PROVE  Stands(db, db')
  BY <1>1, <1>5, SetRunStatusStands DEF SetStatus, Writable
<1>6. ASSUME NEW r \in Runs, NEW src \in 0 .. MaxSource, Append(r, src)
      PROVE  Stands(db, db')
  <2>1. src \in Nat
    BY BoundAssumption
  <2> QED BY <1>1, <1>6, <2>1, AppendEventStands DEF Append, Writable
<1>7. ASSUME NEW r \in Runs, NEW b \in BackendIds, NEW src \in 0 .. MaxSource,
             Bind(r, b, src)
      PROVE  Stands(db, db')
  <2>1. src \in Nat
    BY BoundAssumption
  <2> QED BY <1>1, <1>7, <2>1, BindBackendSessionStands DEF Bind, Writable
<1>8. ASSUME NEW r \in Runs, NEW status \in Terminal, NEW cleanup \in Cleanup,
             Finish(r, status, cleanup)
      PROVE  Stands(db, db')
  BY <1>1, <1>8, FinishRunStands DEF Finish, Writable
<1>9. ASSUME NEW r \in Runs, NEW p \in Perms, Request(r, p) PROVE Stands(db, db')
  BY <1>1, <1>9, CreatePermissionStands DEF Request, Writable
<1>10. ASSUME NEW r \in Runs, NEW a \in Artifacts, Register(r, a) PROVE Stands(db, db')
  BY <1>1, <1>10, RegisterArtifactStands DEF Register, Writable
<1>11. ASSUME NEW p \in Perms, NEW o \in Options, Decide(p, o) PROVE Stands(db, db')
  BY <1>1, <1>11, DecidePermissionStands DEF Decide, Existing
<1>12. ASSUME NEW p \in Perms, Apply(p) PROVE Stands(db, db')
  BY <1>1, <1>12, MarkPermissionAppliedStands DEF Apply, Existing
<1>13. ASSUME NEW p \in Perms, ClockPasses(p) PROVE Stands(db, db')
  BY <1>13, SameStands DEF ClockPasses
<1>14. CASE UNCHANGED vars
  BY <1>14, SameStands DEF vars
<1>15. Stands(db, db')
  BY <1>2, <1>3, <1>4, <1>5, <1>6, <1>7, <1>8, <1>9, <1>10, <1>11, <1>12, <1>13, <1>14
     DEF Next
<1>16. Housed(db')
  <2>1. CASE \E s \in Sessions, r \in Runs, k \in Keys \cup {None}, h \in Hashes :
                Accept(s, r, k, h)
    BY <1>2, <2>1
  <2>2. CASE ~ \E s \in Sessions, r \in Runs, k \in Keys \cup {None}, h \in Hashes :
                  Accept(s, r, k, h)
    <3>1. IdentitiesKept(db, db')
      BY <2>2, NextKeeps
    <3> QED BY <1>1, <1>15, <3>1, KeptHoused
  <2> QED BY <2>1, <2>2
<1> QED BY <1>15, <1>16, StandsPrior

\* Before the first call nothing is recorded.
LEMMA InitPrior == Init => Prior(db)
BY DEF Init, EmptyDatabase, Prior, Undecided, Unbound, Housed, SourcesDistinct, Accepted

\* What is not yet decided or bound is so under every sequence of calls.
LEMMA AlwaysPrior == Spec => []Prior(db)
<1>1. Inv /\ Prior(db) /\ [Next]_vars => Prior(db)'
  BY NextStands
<1> QED BY <1>1, InitPrior, InitInv, NextInv, PTL DEF Spec

\* Under every sequence of Store calls no Worker message is recorded twice (appendEvent,
\* bindBackendSession).
THEOREM StoreSources == Spec => []SourceRecordedOnce
<1>1. Prior(db) => SourceRecordedOnce
  BY DEF Prior, SourceRecordedOnce
<1> QED BY <1>1, AlwaysPrior, PTL

\* Under every sequence of Store calls what was recorded as final stands: an ended run with
\* its events and artifacts, a decision, an applied or expired permission, a closed Session
\* and its backend identity (appendEvent, registerArtifact, decidePermission,
\* setSessionStatus, bindBackendSession).
THEOREM StoreFinality == Spec => FinalStands
<1>1. ASSUME Inv, Prior(db), [Next]_vars, NEW r \in Runs, IsTerminal(db, r)
      PROVE  /\ db'.run[r] = db.run[r]
             /\ {e \in db'.events : e.run = r} = {e \in db.events : e.run = r}
             /\ \A a \in Artifacts : (db'.artifact[a] = r) <=> (db.artifact[a] = r)
  <2>1. RecordStands(db, db') /\ ArtifactsStand(db, db')
    BY <1>1, NextStands DEF Stands
  <2>2. db'.run[r] = db.run[r]
    BY <1>1, <2>1 DEF RecordStands
  <2>3. \A x \in db'.events : x.run = r => x \in db.events
    BY <1>1, <2>1 DEF RecordStands
  <2>4. {e \in db'.events : e.run = r} = {e \in db.events : e.run = r}
    BY <2>1, <2>3 DEF RecordStands
  <2>5. ASSUME NEW a \in Artifacts PROVE (db'.artifact[a] = r) <=> (db.artifact[a] = r)
    <3>1. r # None
      BY StoreAssumption
    <3> QED BY <1>1, <2>1, <3>1 DEF ArtifactsStand
  <2> QED BY <2>2, <2>4, <2>5
<1>2. ASSUME Inv, Prior(db), [Next]_vars, NEW p \in Perms
      PROVE  /\ db.perm[p].decision # None => db'.perm[p].decision = db.perm[p].decision
             /\ db.perm[p].status \in {"applied", "expired"} =>
                   db'.perm[p].status = db.perm[p].status
  BY <1>2, NextStands DEF Stands, PermsStand
<1>3. ASSUME Inv, Prior(db), [Next]_vars, NEW s \in Sessions
      PROVE  /\ db.session[s].status = "closed" => db'.session[s].status = "closed"
             /\ db.session[s].status = "closing" => db'.session[s].status # "open"
             /\ db.session[s].backend # None => db'.session[s].backend = db.session[s].backend
  BY <1>3, NextStands DEF Stands, SessionsStand
<1>4. Inv /\ Prior(db) /\ [Next]_vars =>
        [/\ \A r \in Runs : IsTerminal(db, r) =>
               /\ db'.run[r] = db.run[r]
               /\ {e \in db'.events : e.run = r} = {e \in db.events : e.run = r}
               /\ \A a \in Artifacts : (db'.artifact[a] = r) <=> (db.artifact[a] = r)
         /\ \A p \in Perms :
              /\ db.perm[p].decision # None => db'.perm[p].decision = db.perm[p].decision
              /\ db.perm[p].status \in {"applied", "expired"} =>
                    db'.perm[p].status = db.perm[p].status
         /\ \A s \in Sessions :
              /\ db.session[s].status = "closed" => db'.session[s].status = "closed"
              /\ db.session[s].status = "closing" => db'.session[s].status # "open"
              /\ db.session[s].backend # None =>
                    db'.session[s].backend = db.session[s].backend]_vars
  BY <1>1, <1>2, <1>3
<1>5. Spec => []Inv
  BY InitInv, NextInv, PTL DEF Spec
<1> QED BY <1>4, <1>5, AlwaysPrior, PTL DEF Spec, FinalStands

============================================================================

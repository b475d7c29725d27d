----------------------------- MODULE StoreCalls -----------------------------
(***************************************************************************)
(* What SqliteStore promises whatever its caller does: any method, with    *)
(* any arguments, in any order.  The HTTP layer, the Runtime, the workflow *)
(* service and the restart recovery are all such callers, so the           *)
(* properties here do not rest on how Runtime orders its calls.            *)
(***************************************************************************)
EXTENDS Store

CONSTANTS
    MaxEvents,    \* bound: no call is made on a run once this many events are stored
    MaxSource     \* bound: worker sequence numbers are 1 .. MaxSource

ASSUME BoundAssumption == MaxEvents \in Nat /\ MaxSource \in Nat

VARIABLES
    db,           \* the database
    due           \* permissions whose expiresAt has passed

vars == <<db, due>>

Init == db = EmptyDatabase /\ due = {}

\* The methods that write to a run are called on an existing one (getRun throws
\* RUN_NOT_FOUND otherwise); MaxEvents bounds the events table.
Writable(r) == Accepted(db, r) /\ Cardinality(db.events) < MaxEvents
Existing(p) == db.perm[p].status # "absent" /\ Writable(db.perm[p].run)

Create(s) ==
    /\ db.session[s].status = "absent"
    /\ db' = CreateSession(db, s)
    /\ UNCHANGED due

SetSession(s, status) ==
    /\ db.session[s].status # "absent"
    /\ db' = SetSessionStatus(db, s, status)
    /\ UNCHANGED due

Accept(s, r, k, h) ==
    /\ db.session[s].status # "absent"
    /\ ~ Accepted(db, r)
    /\ db' = AcceptRun(db, s, r, k, h)
    /\ UNCHANGED due

SetStatus(r, status) ==
    /\ Writable(r)
    /\ db' = SetRunStatus(db, r, status)
    /\ UNCHANGED due

Append(r, src) ==
    /\ Writable(r)
    /\ db' = AppendEvent(db, r, src)
    /\ UNCHANGED due

Bind(r, b, src) ==
    /\ Writable(r)
    /\ db' = BindBackendSession(db, r, b, src)
    /\ UNCHANGED due

Finish(r, status, cleanup) ==
    /\ Writable(r)
    /\ db' = FinishRun(db, r, status, cleanup)
    /\ UNCHANGED due

Request(r, p) ==
    /\ Writable(r)
    /\ db' = CreatePermission(db, r, p, p \in due)
    /\ UNCHANGED due

Decide(p, o) ==
    /\ Existing(p)
    /\ db' = DecidePermission(db, p, o, p \in due)
    /\ UNCHANGED due

Apply(p) ==
    /\ Existing(p)
    /\ db' = MarkPermissionApplied(db, p, p \in due)
    /\ UNCHANGED due

Register(r, a) ==
    /\ Writable(r)
    /\ db' = RegisterArtifact(db, r, a)
    /\ UNCHANGED due

\* Time passes the expiresAt of an existing permission.
ClockPasses(p) ==
    /\ db.perm[p].status # "absent"
    /\ due' = due \cup {p}
    /\ UNCHANGED db

Next ==
    \/ \E s \in Sessions :
          \/ Create(s)
          \/ \E status \in {"open", "closing", "closed"} : SetSession(s, status)
          \/ \E r \in Runs, k \in Keys \cup {None}, h \in Hashes : Accept(s, r, k, h)
    \/ \E r \in Runs :
          \/ \E status \in Working : SetStatus(r, status)
          \/ \E src \in 0 .. MaxSource : Append(r, src)
          \/ \E b \in BackendIds, src \in 0 .. MaxSource : Bind(r, b, src)
          \/ \E status \in Terminal, cleanup \in Cleanup : Finish(r, status, cleanup)
          \/ \E p \in Perms : Request(r, p)
          \/ \E a \in Artifacts : Register(r, a)
    \/ \E p \in Perms :
          \/ \E o \in Options : Decide(p, o)
          \/ Apply(p)
          \/ ClockPasses(p)

Spec == Init /\ [][Next]_vars

----------------------------------------------------------------------------
(* Safety *)

TypeOK == db \in Database /\ due \subseteq Perms

\* Whatever is called in whatever order, each run's event log is numbered without
\* gap or repeat (insertEvent).
EventsNumbered == Numbered(db)

\* Whatever is called, status and terminal event of a run agree, and the terminal
\* event is its last (finishRun, appendEvent).
TerminalEventLast == Sealed(db)

\* Whatever is called, an ended run has no permission left to decide or to apply
\* (finishRun, createPermission).
NoOpenPermissionAfterEnd == PermissionsClosed(db)

\* Whatever is called, no generation of a Session is handed out twice (acceptRun).
GenerationsUnique == GenerationsDistinct(db)

\* Whatever is called, no key is attached to two runs of a Session (acceptRun).
KeyNamesOneRun == KeysDistinct(db)

\* Whatever is called, no Worker message is recorded twice (appendEvent,
\* bindBackendSession).
SourceRecordedOnce == SourcesDistinct(db)

\* What was recorded as final stands, whatever is called later: the record, the events and
\* the artifacts of an ended run; a decision, and that a permission was applied or expired; that
\* a Session was closed, and its first backend identity (appendEvent, registerArtifact,
\* decidePermission, setSessionStatus, bindBackendSession).
FinalStands ==
    [][/\ \A r \in Runs : IsTerminal(db, r) =>
            /\ db'.run[r] = db.run[r]
            /\ {e \in db'.events : e.run = r} = {e \in db.events : e.run = r}
            /\ \A a \in Artifacts : db'.artifact[a] = r <=> db.artifact[a] = r
       /\ \A p \in Perms :
            /\ db.perm[p].decision # None => db'.perm[p].decision = db.perm[p].decision
            /\ db.perm[p].status \in {"applied", "expired"} =>
                  db'.perm[p].status = db.perm[p].status
       /\ \A s \in Sessions :
            /\ db.session[s].status = "closed" => db'.session[s].status = "closed"
            /\ db.session[s].status = "closing" => db'.session[s].status # "open"
            /\ db.session[s].backend # None => db'.session[s].backend = db.session[s].backend]_vars

=============================================================================

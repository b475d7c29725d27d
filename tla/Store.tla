------------------------------- MODULE Store -------------------------------
(***************************************************************************)
(* The durable record of the Run plane: packages/store, SqliteStore.       *)
(*                                                                         *)
(* Every method of SqliteStore is one synchronous SQLite transaction, so   *)
(* each is an operator that maps the database d before the call to the     *)
(* database after it.  A call that throws rolls back; where the caller can *)
(* see the difference an operator named ...Refused or Can... states when.  *)
(* Module Runtime builds its steps by composing these operators; the       *)
(* specification at the end of this module lets an arbitrary caller issue  *)
(* the calls in any order, which is what the Store itself promises about.  *)
(*                                                                         *)
(* Abstracted: record contents that no guard reads (texts, outputs, error  *)
(* messages, timestamps), the type of an event, and wall-clock time, which *)
(* appears as the Boolean "past": expiresAt <= Date.now().                 *)
(***************************************************************************)
EXTENDS Naturals, FiniteSets, FiniteSetsExt

CONSTANTS
    Sessions,     \* session identities
    Runs,         \* run identities
    Perms,        \* permission identities
    Artifacts,    \* artifact identities
    Keys,         \* idempotency keys a client may send
    Hashes,       \* input hashes (inputHash)
    Options,      \* option ids of a permission
    BackendIds,   \* backend session identities an engine may report
    None          \* "undefined" in the source

ASSUME StoreAssumption ==
    /\ IsFiniteSet(Perms)
    /\ None \notin Sessions \cup Runs \cup Keys \cup Hashes \cup Options \cup BackendIds

Terminal == {"completed", "failed", "cancelled", "timed_out", "interrupted"}
Working  == {"queued", "starting", "running", "waiting_permission",
             "finalizing", "cancelling"}
Cleanup  == {"confirmed", "unconfirmed", "failed"}

SessionRecord == [status : {"absent", "open", "closing", "closed"},
                  backend : BackendIds \cup {None}]

RunRecord == [session : Sessions \cup {None}, generation : Nat,
              key : Keys \cup {None}, hash : Hashes \cup {None},
              status : {"absent"} \cup Working \cup Terminal,
              started : BOOLEAN, cleanup : Cleanup, lastSeq : Nat]

PermissionRecord == [run : Runs \cup {None},
                     status : {"absent", "pending", "decided", "applied", "expired"},
                     decision : Options \cup {None}]

\* A row of the events table; src = 0 stands for a NULL source_seq.
EventRow == [run : Runs, seq : Nat, src : Nat, terminal : BOOLEAN]

Database == [session : [Sessions -> SessionRecord],
             run : [Runs -> RunRecord],
             perm : [Perms -> PermissionRecord],
             artifact : [Artifacts -> Runs \cup {None}],
             events : SUBSET EventRow]

EmptyDatabase ==
    [session |-> [s \in Sessions |-> [status |-> "absent", backend |-> None]],
     run |-> [r \in Runs |->
        [session |-> None, generation |-> 0, key |-> None, hash |-> None,
         status |-> "absent", started |-> FALSE, cleanup |-> "unconfirmed",
         lastSeq |-> 0]],
     perm |-> [p \in Perms |->
        [run |-> None, status |-> "absent", decision |-> None]],
     artifact |-> [a \in Artifacts |-> None],
     events |-> {}]

IsTerminal(d, r) == d.run[r].status \in Terminal
Accepted(d, r)   == d.run[r].status # "absent"
RunsOf(d, s)     == {r \in Runs : Accepted(d, r) /\ d.run[r].session = s}
Unsettled(d, s)  == {r \in RunsOf(d, s) : ~ IsTerminal(d, r)}
OpenPerms(d, r)  == {p \in Perms : /\ d.perm[p].run = r
                                   /\ d.perm[p].status \in {"pending", "decided"}}

----------------------------------------------------------------------------
(* Sessions *)

CreateSession(d, s) ==
    [d EXCEPT !.session[s] = [status |-> "open", backend |-> None]]

SessionConflict(d, s, status) ==
    /\ d.session[s].status # status
    /\ \/ d.session[s].status = "closed"
       \/ d.session[s].status = "closing" /\ status = "open"

SetSessionStatus(d, s, status) ==
    IF SessionConflict(d, s, status) THEN d
    ELSE [d EXCEPT !.session[s].status = status]

----------------------------------------------------------------------------
(* Runs and events *)

\* insertEvent saves the WHOLE run record it is given with lastSeq advanced: a
\* caller that passes a stale record would overwrite newer columns.
InsertEvent(d, r, rec, src, terminal) ==
    [d EXCEPT !.events = @ \cup {[run |-> r, seq |-> rec.lastSeq + 1,
                                  src |-> src, terminal |-> terminal]},
              !.run[r] = [rec EXCEPT !.lastSeq = @ + 1]]

\* Mutant: the generation of the latest run is handed out again.
Generation_NotAdvanced(d, s) == Max({1} \cup {d.run[r].generation : r \in RunsOf(d, s)})

Generation(d, s) == Max({0} \cup {d.run[r].generation : r \in RunsOf(d, s)}) + 1

\* Mutant: the lookup ignores runs that already ended.
FindRunByKey_OnlyRunning(d, s, k) == {r \in Unsettled(d, s) : k # None /\ d.run[r].key = k}

FindRunByKey(d, s, k) == {r \in RunsOf(d, s) : k # None /\ d.run[r].key = k}

\* acceptRun creates a run; a known key replays the original run instead
\* (same hash) or is refused (IDEMPOTENCY_CONFLICT): neither writes anything.
AcceptRun(d, s, r, k, h) ==
    IF FindRunByKey(d, s, k) # {} \/ d.session[s].status # "open" THEN d
    ELSE InsertEvent(d, r,
            [session |-> s, generation |-> Generation(d, s), key |-> k, hash |-> h,
             status |-> "queued", started |-> FALSE, cleanup |-> "unconfirmed",
             lastSeq |-> 0], 0, FALSE)

SetRunStatus(d, r, status) ==
    IF IsTerminal(d, r) \/ d.run[r].status = status \/ status \in Terminal THEN d
    ELSE InsertEvent(d, r,
            [d.run[r] EXCEPT !.status = status, !.started = @ \/ status = "starting"],
            0, FALSE)

SourceSeen(d, r, src) == src # 0 /\ \E e \in d.events : e.run = r /\ e.src = src

\* Mutants: a late event of an ended run is kept; a repeated message is kept.
AppendEvent_AfterEnd(d, r, src) ==
    IF SourceSeen(d, r, src) THEN d ELSE InsertEvent(d, r, d.run[r], src, FALSE)
AppendEvent_NoDedup(d, r, src) ==
    IF IsTerminal(d, r) THEN d ELSE InsertEvent(d, r, d.run[r], src, FALSE)

AppendEvent(d, r, src) ==
    IF IsTerminal(d, r) \/ SourceSeen(d, r, src) THEN d
    ELSE InsertEvent(d, r, d.run[r], src, FALSE)

\* BACKEND_SESSION_CHANGED: an engine may not move a Session to another backend.
BindRefused(d, r, b) ==
    /\ ~ IsTerminal(d, r)
    /\ d.session[d.run[r].session].backend \notin {None, b}

BindBackendSession(d, r, b, src) ==
    IF IsTerminal(d, r) \/ BindRefused(d, r, b) \/ SourceSeen(d, r, src) THEN d
    ELSE InsertEvent([d EXCEPT !.session[d.run[r].session].backend = b],
                     r, d.run[r], src, FALSE)

\* Expiring n permissions in turn: n events, each on a freshly read run record.
ExpirePermissions(d, r, ps) ==
    LET n == Cardinality(ps) IN
    [d EXCEPT
        !.perm = [p \in Perms |-> IF p \in ps THEN [d.perm[p] EXCEPT !.status = "expired"]
                                  ELSE d.perm[p]],
        !.events = @ \cup {[run |-> r, seq |-> d.run[r].lastSeq + i, src |-> 0,
                            terminal |-> FALSE] : i \in 1 .. n},
        !.run[r].lastSeq = @ + n]

\* Mutants: the record read before the permissions expired is saved again; the
\* permissions are left open.
FinishRun_StaleRecord(d, r, status, cleanup) ==
    IF IsTerminal(d, r) THEN d
    ELSE InsertEvent(ExpirePermissions(d, r, OpenPerms(d, r)), r,
            [d.run[r] EXCEPT !.status = status, !.cleanup = cleanup], 0, TRUE)
FinishRun_KeepsPermissions(d, r, status, cleanup) ==
    IF IsTerminal(d, r) THEN d
    ELSE InsertEvent(d, r,
            [d.run[r] EXCEPT !.status = status, !.cleanup = cleanup], 0, TRUE)

FinishRun(d, r, status, cleanup) ==
    IF IsTerminal(d, r) THEN d
    ELSE LET e == ExpirePermissions(d, r, OpenPerms(d, r)) IN
         InsertEvent(e, r,
            [e.run[r] EXCEPT !.status = status, !.cleanup = cleanup], 0, TRUE)

----------------------------------------------------------------------------
(* Permissions and artifacts *)

\* Statuses in which neither a new permission nor a decision is accepted.
Unattended == Terminal \cup {"cancelling", "finalizing"}

CreateRefused(d, r, p, past) ==
    d.run[r].status \in Unattended \/ past \/ d.perm[p].status # "absent"

CreatePermission(d, r, p, past) ==
    IF CreateRefused(d, r, p, past) THEN d
    ELSE InsertEvent([d EXCEPT !.perm[p] = [run |-> r, status |-> "pending",
                                            decision |-> None]],
                     r, d.run[r], 0, FALSE)

\* expirePermission: the event is written only while the run has not ended.
ExpirePermission(d, p) ==
    IF IsTerminal(d, d.perm[p].run) THEN [d EXCEPT !.perm[p].status = "expired"]
    ELSE ExpirePermissions(d, d.perm[p].run, {p})

DecisionLapsed(d, p, past) ==
    \/ d.perm[p].status = "expired"
    \/ past
    \/ d.run[d.perm[p].run].status \in Unattended

\* Mutant: a second decision replaces the first.
DecidePermission_Overwrites(d, p, o, past) ==
    IF DecisionLapsed(d, p, past)
    THEN IF d.perm[p].status \in {"pending", "decided"} THEN ExpirePermission(d, p) ELSE d
    ELSE InsertEvent([d EXCEPT !.perm[p].status = "decided", !.perm[p].decision = o],
                     d.perm[p].run, d.run[d.perm[p].run], 0, FALSE)

DecidePermission(d, p, o, past) ==
    IF DecisionLapsed(d, p, past)
    THEN IF d.perm[p].status \in {"pending", "decided"} THEN ExpirePermission(d, p) ELSE d
    ELSE IF d.perm[p].status # "pending" THEN d
    ELSE InsertEvent([d EXCEPT !.perm[p].status = "decided", !.perm[p].decision = o],
                     d.perm[p].run, d.run[d.perm[p].run], 0, FALSE)

ApplyRefused(d, p, past) ==
    /\ d.perm[p].status # "applied"
    /\ d.perm[p].status # "decided" \/ IsTerminal(d, d.perm[p].run) \/ past

MarkPermissionApplied(d, p, past) ==
    IF d.perm[p].status # "decided" \/ IsTerminal(d, d.perm[p].run) \/ past THEN d
    ELSE InsertEvent([d EXCEPT !.perm[p].status = "applied"],
                     d.perm[p].run, d.run[d.perm[p].run], 0, FALSE)

\* Mutant: the artifact is filed under the session.
RegisterArtifact_OwnerIsSession(d, r, a) ==
    IF IsTerminal(d, r) \/ d.artifact[a] # None THEN d
    ELSE InsertEvent([d EXCEPT !.artifact[a] = d.run[r].session], r, d.run[r], 0, FALSE)

RegisterArtifact(d, r, a) ==
    IF IsTerminal(d, r) \/ d.artifact[a] # None THEN d
    ELSE InsertEvent([d EXCEPT !.artifact[a] = r], r, d.run[r], 0, FALSE)

----------------------------------------------------------------------------
(* What a well-formed database satisfies *)

\* Committed events of a run are numbered 1 .. lastSeq without gap or repeat, so
\* SSE and event-log readers that resume at a cursor neither miss nor repeat one
\* (insertEvent computes the number from the record its caller read).
Numbered(d) ==
    \A r \in Runs :
        /\ \A e \in d.events : e.run = r => e.seq \in 1 .. d.run[r].lastSeq
        /\ \A n \in 1 .. d.run[r].lastSeq : \E e \in d.events : e.run = r /\ e.seq = n
        /\ \A e, f \in d.events : e.run = r /\ f.run = r /\ e.seq = f.seq => e = f

\* A run has a terminal event exactly when its status is terminal, and nothing is
\* numbered after it: the event and the status commit together (finishRun).
Sealed(d) ==
    /\ \A r \in Runs : IsTerminal(d, r) <=> \E e \in d.events : e.run = r /\ e.terminal
    /\ \A e \in d.events : e.terminal => e.seq = d.run[e.run].lastSeq

\* Ending a run leaves no permission that could still be decided or applied.
PermissionsClosed(d) ==
    \A p \in Perms : d.perm[p].status \in {"pending", "decided"} =>
        d.perm[p].run \in Runs /\ ~ IsTerminal(d, d.perm[p].run)

\* Runs of a Session carry distinct generations, by which Worker messages of an
\* earlier run are told from those of the current one (acceptRun).
GenerationsDistinct(d) ==
    \A s \in Sessions : \A r, t \in RunsOf(d, s) :
        r # t => d.run[r].generation # d.run[t].generation

\* An idempotency key names at most one run of its Session (acceptRun).
KeysDistinct(d) ==
    \A s \in Sessions : \A r, t \in RunsOf(d, s) :
        r # t /\ d.run[r].key # None => d.run[r].key # d.run[t].key

\* A Worker message is recorded at most once (source_seq deduplication).
SourcesDistinct(d) ==
    \A e, f \in d.events : e.run = f.run /\ e.src = f.src /\ e.src # 0 => e = f

=============================================================================

---------------------------- MODULE RunLifecycle ----------------------------
(***************************************************************************)
(* What the Run plane promises its clients about the life of a run, with   *)
(* no queue, Worker, promise or timer: the statuses a run passes through,  *)
(* one working run per Session, and Sessions that only close.  Runtime is  *)
(* shown to implement this.                                                *)
(*                                                                         *)
(* One step may move several runs, as one turn of the scheduler or one     *)
(* closeSession() does; each of them moves along one edge.                 *)
(***************************************************************************)
EXTENDS Naturals

CONSTANTS Sessions, Runs, None

VARIABLES
    status,       \* [Runs -> status]
    owner,        \* [Runs -> Session, or None before the run is accepted]
    open          \* Sessions that accept runs

Ended == {"completed", "failed", "cancelled", "timed_out", "interrupted"}
Busy == {"starting", "running", "waiting_permission", "finalizing", "cancelling"}

\* Where a run may go next.  A run that waits ends directly when it is stopped; one
\* that works is stopped through "cancelling", which only an end follows.
Follows ==
    [absent |-> {"queued"},
     queued |-> {"starting", "cancelled", "timed_out", "interrupted"},
     starting |-> {"running", "waiting_permission", "finalizing", "cancelling",
                   "completed", "failed", "cancelled", "interrupted"},
     running |-> {"waiting_permission", "finalizing", "cancelling", "completed",
                  "failed", "cancelled", "interrupted"},
     waiting_permission |-> {"running", "finalizing", "cancelling", "completed",
                             "failed", "cancelled", "interrupted"},
     finalizing |-> {"cancelling", "completed", "failed", "interrupted"},
     cancelling |-> {"cancelled", "timed_out", "interrupted"}]

Init ==
    /\ status = [r \in Runs |-> "absent"]
    /\ owner = [r \in Runs |-> None]
    /\ open = {}

\* Runs that may still work: at most one of a Session does at a time.
OneAtATime(st, ow) ==
    \A r, t \in Runs : r # t /\ st[r] \in Busy /\ st[t] \in Busy => ow[r] # ow[t]

Move ==
    /\ status' \in [Runs -> {"absent", "queued"} \cup Busy \cup Ended]
    /\ owner' \in [Runs -> Sessions \cup {None}]
    /\ open' \in SUBSET Sessions
    /\ \A r \in Runs :
          IF status'[r] = status[r] THEN owner'[r] = owner[r]
          ELSE /\ status[r] \notin Ended
               /\ status'[r] \in Follows[status[r]]
               /\ IF status[r] = "absent" THEN owner'[r] \in open
                  ELSE owner'[r] = owner[r]
               /\ status'[r] = "starting" => owner[r] \in open
    /\ OneAtATime(status', owner')

\* A Session is opened once, before it owns a run.
Opens == \A s \in open' \ open : \A r \in Runs : owner[r] # s

Next == Move /\ Opens

Spec == Init /\ [][Next]_<<status, owner, open>>

=============================================================================

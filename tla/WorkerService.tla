--------------------------- MODULE WorkerService ---------------------------
(***************************************************************************)
(* What the Worker host promises the Runtime about one Session: runs are   *)
(* executed one at a time, each result settles once, a Worker is closed    *)
(* once, and when closing has ended nothing is left to wait for.  These    *)
(* are the Worker steps of module Runtime (BeginStarts, ReceiveResult,     *)
(* WorkerFails, WorkerCloses) without messages; WorkerIpc implements them. *)
(***************************************************************************)
EXTENDS Naturals

CONSTANT Runs

VARIABLES
    state,        \* "none", "live", "closing" or "quarantined"
    result        \* [Runs -> "none", "pending", "resolved" or "rejected"]

Init == state = "none" /\ result = [r \in Runs |-> "none"]

Waiting == {r \in Runs : result[r] = "pending"}

\* host.start takes the run, or refuses it.
Start(r) ==
    /\ result[r] = "none" /\ Waiting = {}
    /\ \/ /\ state \in {"none", "live"}
          /\ state' = "live"
          /\ result' = [result EXCEPT ![r] = "pending"]
       \/ /\ result' = [result EXCEPT ![r] = "rejected"]
          /\ state' \in {state, IF state = "none" THEN "closing" ELSE state}

Resolve(r) ==
    /\ result[r] = "pending"
    /\ result' = [result EXCEPT ![r] = "resolved"]
    /\ UNCHANGED state

\* The Worker exits or fails: what waits for it is rejected.
Reject ==
    /\ result' = [r \in Runs |-> IF result[r] = "pending" THEN "rejected" ELSE result[r]]
    /\ state' \in {state, IF state = "live" THEN "closing" ELSE state}

Close == state = "live" /\ state' = "closing" /\ UNCHANGED result

\* terminate() is over: the Worker is gone, or quarantined for good.
Closed ==
    /\ state = "closing"
    /\ state' \in {"none", "quarantined"}
    /\ \A r \in Runs : result'[r] = IF result[r] = "pending" THEN "rejected" ELSE result[r]

Next == Reject \/ Close \/ Closed \/ \E r \in Runs : Start(r) \/ Resolve(r)

Spec == Init /\ [][Next]_<<state, result>>

=============================================================================

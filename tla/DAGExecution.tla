---------------------------- MODULE DAGExecution ----------------------------
(***************************************************************************)
(* What one run of a workflow promises, without the scheduler that keeps   *)
(* the promise: nodes start on completed dependencies only, end in one of  *)
(* three ways, are skipped only below a failure or after a stop, and stay  *)
(* completed.  A node that started before a stop may still come to its end *)
(* after it.                                                               *)
(***************************************************************************)
EXTENDS WorkflowGraph

VARIABLES
    state,   \* state[n]: "open", "active", "completed", "failed" or "skipped"
    stopped  \* the run was told to stop

dagVars == <<state, stopped>>

DAGInit ==
    /\ state = [n \in Nodes |-> "open"]
    /\ stopped = FALSE

Startable(n) == \A d \in Deps[n] : state[d] = "completed"

\* A set of open nodes becomes active at once.
Start ==
    \E S \in SUBSET {n \in Nodes : state[n] = "open" /\ Startable(n)} :
        /\ S # {}
        /\ state' = [n \in Nodes |-> IF n \in S THEN "active" ELSE state[n]]
        /\ UNCHANGED stopped

\* An active node completes, fails, or goes back to the open ones because the
\* quota of the executor is used up.  After a stop that may come late, for a
\* node the stop has skipped, and such a node may even go on for a while.
End(n) ==
    /\ state[n] = "active" \/ (stopped /\ state[n] = "skipped")
    /\ Startable(n)
    /\ \E s \in {"completed", "failed", "open"} \cup (IF stopped THEN {"active"} ELSE {}) :
            state' = [state EXCEPT ![n] = s]
    /\ UNCHANGED stopped

\* The open nodes below a failed node are skipped.
SkipBelow(f) ==
    /\ state[f] = "failed"
    /\ state' = [n \in Nodes |->
            IF n \in Downstream[f] /\ state[n] = "open" THEN "skipped" ELSE state[n]]
    /\ UNCHANGED stopped

Stop ==
    /\ ~stopped
    /\ stopped' = TRUE
    /\ UNCHANGED state

\* After a stop all that has not ended is skipped.
SkipAll ==
    /\ stopped
    /\ state' = [n \in Nodes |->
            IF state[n] \in {"open", "active"} THEN "skipped" ELSE state[n]]
    /\ UNCHANGED stopped

DAGNext ==
    \/ Start
    \/ \E n \in Nodes : End(n) \/ SkipBelow(n)
    \/ Stop \/ SkipAll

DAGSpec == DAGInit /\ [][DAGNext]_dagVars

=============================================================================

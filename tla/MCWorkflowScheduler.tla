------------------------ MODULE MCWorkflowScheduler ------------------------
(***************************************************************************)
(* Small workflows for WorkflowScheduler: the graphs and review settings   *)
(* the configurations choose from; and a check, for the graph chosen, that *)
(* the walks of the code compute the closures of WorkflowGraph.            *)
(***************************************************************************)
EXTENDS WorkflowScheduler, TLC

CONSTANTS a, b, c

\* a and b, then c.
JoinDeps == a :> {} @@ b :> {} @@ c :> {a, b}
\* a, then b, then c.
ChainDeps == a :> {} @@ b :> {a} @@ c :> {b}

NoFeedback == [n \in Nodes |-> {}]

\* wireGoalMode: a node others depend on, or that depends on none, feeds back
\* to itself, a final node to its dependencies.
GoalFeedback ==
    [n \in Nodes |-> IF Dependents[n] # {} \/ Deps[n] = {} THEN {n} ELSE Deps[n]]

\* The hypothesis of the proofs holds of what the configurations choose.
ASSUME WorkflowWired == Wired

AllVerdicts == Verdict \cup ReviewError
\* A verdict that names no outcome ("unknown") leaves the one that is there.
RetryVerdicts == ({"pass"} \X {"ok", "blocked", "unknown"}) \cup {<<"reject", "unknown">>}
SimpleVerdicts == ({"pass", "reject"} \X {"ok"}) \cup {"infra"}

=============================================================================

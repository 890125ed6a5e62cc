--------------------------- MODULE WorkflowGraph ---------------------------
(***************************************************************************)
(* The graph algorithms of workflow/dag.go and the two graph walks of      *)
(* workflow/scheduler.go that the scheduler applies to node statuses:      *)
(* ReadyNodes, CascadeSkip, IsAllTerminal and unskipDependents.            *)
(*                                                                         *)
(* The code walks the graph with queues and recursion; what it computes is *)
(* a closure of the dependency relation, and is defined here as one, so    *)
(* that the operators can be used in proofs.  MCGraphWalks compares the    *)
(* walks of the code with these definitions.                               *)
(***************************************************************************)
EXTENDS FiniteSets

CONSTANTS
    Nodes,   \* the identifiers of the nodes of the workflow
    Deps     \* Deps[n]: DAGNode.Dependencies of n, completed before n runs

NodeStatus == {"pending", "ready", "running", "reviewing",
               "completed", "failed", "skipped"}

TerminalStatus == {"completed", "failed", "skipped"}

\* The nodes that list n among their dependencies (wf.reverseAdj).
Dependents == [n \in Nodes |-> {m \in Nodes : n \in Deps[m]}]

ClosedDownstream(S) == \A k \in S : Dependents[k] \subseteq S

\* The nodes CascadeSkip visits below n: the least set that holds the
\* dependents of n and is closed under Dependents.
Downstream ==
    [n \in Nodes |->
        {m \in Nodes : \A S \in SUBSET Nodes :
            Dependents[n] \subseteq S /\ ClosedDownstream(S) => m \in S}]

-----------------------------------------------------------------------------

ASSUME NodesFinite == IsFiniteSet(Nodes) /\ Nodes # {}

ASSUME DepsType == Deps \in [Nodes -> SUBSET Nodes]

\* ValidateDAG accepted the graph: no node depends on itself, not even
\* through others.
ASSUME DepsAcyclic == \A n \in Nodes : n \notin Downstream[n]

-----------------------------------------------------------------------------

IsAllTerminal(st) == \A n \in Nodes : st[n] \in TerminalStatus

DepsCompleted(st, n) == \A d \in Deps[n] : st[d] = "completed"

\* Mutant of ReadyNodes: any ended dependency will do.
ReadyOnEnded(st) ==
    {n \in Nodes : st[n] = "pending" /\ \A d \in Deps[n] : st[d] \in TerminalStatus}

ReadyNodes(st) == {n \in Nodes : st[n] = "pending" /\ DepsCompleted(st, n)}

\* Mutant of CascadeSkip: nothing is skipped.
CascadeSkipNothing(st, failed) == st

\* Every node below the failed one that has not been picked up is skipped.
CascadeSkip(st, failed) ==
    [m \in Nodes |->
        IF m \in Downstream[failed] /\ st[m] = "pending"
        THEN "skipped" ELSE st[m]]

Skipped(st) == {n \in Nodes : st[n] = "skipped"}

\* S holds every skipped node that the recovery of x and of the nodes of S
\* allows to recover: one of its dependencies has recovered and none is still
\* failed or skipped.
ClosedUnskip(st, x, S) ==
    \A k \in Skipped(st) :
        /\ Deps[k] \cap ({x} \cup S) # {}
        /\ \A d \in Deps[k] : d \in S \/ st[d] \notin {"failed", "skipped"}
        => k \in S

\* The skipped nodes that unskipDependents(x) returns to pending.
Unskipped(st, x) ==
    {k \in Skipped(st) : \A S \in SUBSET Skipped(st) :
        ClosedUnskip(st, x, S) => k \in S}

\* RequestRetry's effect on the statuses: x, then its skipped dependents.
Retried(st, x) ==
    LET reset == [st EXCEPT ![x] = "pending"]
    IN  [n \in Nodes |->
            IF n \in Unskipped(reset, x) THEN "pending" ELSE reset[n]]

=============================================================================

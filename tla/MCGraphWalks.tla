--------------------------- MODULE MCGraphWalks -----------------------------
(***************************************************************************)
(* The graph walks of the code as it makes them, with a queue and with     *)
(* recursion, compared with the closures of WorkflowGraph: on every        *)
(* acyclic graph over Nodes, for all statuses a walk may find.  Apart from *)
(* MCWorkflowScheduler because of the cost: one configuration checks it.   *)
(***************************************************************************)
EXTENDS MCWorkflowScheduler

G(D) == INSTANCE WorkflowGraph WITH Deps <- D

\* "completed" also stands for the statuses that no walk looks for.
Statuses == [Nodes -> {"pending", "completed", "failed", "skipped"}]

\* The graphs ValidateDAG accepts.
AcyclicGraphs ==
    {D \in [Nodes -> SUBSET Nodes] : \A n \in Nodes : n \notin G(D)!Downstream[n]}

\* CascadeSkip: breadth first from the failed node.
RECURSIVE SkipWalk(_, _, _, _)
SkipWalk(D, st, queue, visited) ==
    IF queue = {} THEN st
    ELSE LET id == CHOOSE n \in queue : TRUE
             below == {n \in Nodes : id \in D[n]}
             skip == {n \in below : st[n] = "pending"}
         IN  SkipWalk(D, [n \in Nodes |-> IF n \in skip THEN "skipped" ELSE st[n]],
                      (queue \cup below) \ (visited \cup {id}),
                      visited \cup {id})

\* unskipDependents: the nodes one by one, those revived at once in depth.
RECURSIVE UnskipWalk(_, _, _, _)
UnskipWalk(D, st, id, rest) ==
    IF rest = {} THEN st
    ELSE LET n == CHOOSE m \in rest : TRUE
             revive == /\ st[n] = "skipped" /\ id \in D[n]
                       /\ \A dep \in D[n] : st[dep] \notin {"failed", "skipped"}
         IN  UnskipWalk(D, IF revive
                           THEN UnskipWalk(D, [st EXCEPT ![n] = "pending"], n, Nodes)
                           ELSE st,
                        id, rest \ {n})

\* What a failure skips is what lies below it and has not been picked up.
ASSUME CascadeSkipIsWalk ==
    \A D \in AcyclicGraphs, st \in Statuses, n \in Nodes :
        G(D)!CascadeSkip(st, n) = SkipWalk(D, st, {n}, {})

\* A retry revives the least set closed under unskipDependents.
ASSUME RetriedIsWalk ==
    \A D \in AcyclicGraphs, st \in Statuses, n \in Nodes :
        G(D)!Retried(st, n) = UnskipWalk(D, [st EXCEPT ![n] = "pending"], n, Nodes)

=============================================================================

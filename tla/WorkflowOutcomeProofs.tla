----------------------- MODULE WorkflowOutcomeProofs -----------------------
(***************************************************************************)
(* What the end of a run says of its nodes: why nodes are skipped, and     *)
(* what a completed, an interrupted and a blocked one mean; how far the    *)
(* goal loop goes; and that a run implements the abstract execution of a   *)
(* graph.  For every graph and all values of the parameters.               *)
(***************************************************************************)
EXTENDS WorkflowSchedulerProofs

(* Why nodes are skipped                                                   *)

\* Without manual retries: a goroutine about to cascade has failed its node, a
\* node is skipped below a failed one, and a pending node is not doomed.
CascadeOfFailed == \A g \in Runs : pc[g] = "cascade" => status[g[1]] = "failed"

FreshAtStart == main = "start" => \A n \in Nodes : status[n] = "pending"

SkippedBelowFailed ==
    \A n \in Nodes : status[n] = "skipped" =>
        \/ terminated \/ cancelled
        \/ \E x \in Nodes : status[x] = "failed" /\ n \in Downstream[x]

FailureInv ==
    /\ retryRequests = <<>>
    /\ CascadeOfFailed
    /\ FreshAtStart
    /\ SkippedBelowFailed
    /\ NotDoomed

\* A failed node stays failed; so does a skipped one, but for a stop.
LEMMA FailuresRunStep ==
    ASSUME TypeInv, ExecutionInv, NEW g \in Runs, NEW p \in RunPc, RunStep(g, p)
    PROVE  /\ \A n \in Nodes : status[n] = "failed" => status'[n] = "failed"
           /\ \A n \in Nodes :
                status[n] = "skipped" /\ ~terminated /\ ~cancelled => status'[n] = "skipped"
<1>1. /\ pc' = [pc EXCEPT ![g] = p]
      /\ g[1] \in Nodes
      /\ pc \in [Runs -> RunPc] /\ status \in [Nodes -> NodeStatus]
      /\ UNCHANGED <<main, terminated, cancelled>>
  BY RunsType DEF RunStep, TypeInv, TypeOK, WorkflowTypeOK, RunTypeOK
<1>2. Busy(g) => /\ DepsCompleted(status, g[1])
                 /\ \/ status[g[1]] \in Active
                    \/ status[g[1]] = "skipped" /\ (terminated \/ cancelled)
  BY DEF ExecutionInv, BusyOnCompleted, BusyInProgress
<1> QED
  BY <1>1, <1>2 DEF RunStep, GoesOn, GivesUp, Ends, SkipsBelow, SetStatus, CascadeSkip, Active

LEMMA FailureRunStep ==
    ASSUME TypeInv, ExecutionInv, FailureInv, UNCHANGED retryRequests,
           NEW g \in Runs, NEW p \in RunPc, RunStep(g, p)
    PROVE  FailureInv'
<1>1. /\ pc' = [pc EXCEPT ![g] = p]
      /\ g[1] \in Nodes
      /\ pc \in [Runs -> RunPc] /\ status \in [Nodes -> NodeStatus]
      /\ UNCHANGED <<main, terminated, cancelled>>
  BY RunsType DEF RunStep, TypeInv, TypeOK, WorkflowTypeOK, RunTypeOK
<1>2. Busy(g) => /\ DepsCompleted(status, g[1])
                 /\ \/ status[g[1]] \in Active
                    \/ status[g[1]] = "skipped" /\ (terminated \/ cancelled)
  BY DEF ExecutionInv, BusyOnCompleted, BusyInProgress
<1>3. \A n \in Nodes : status[n] = "failed" => status'[n] = "failed"
  BY FailuresRunStep
<1>4. \A n \in Nodes :
        status[n] = "skipped" /\ ~terminated /\ ~cancelled => status'[n] = "skipped"
  BY FailuresRunStep
<1>5. CascadeOfFailed'
  <2> SUFFICES ASSUME NEW h \in Runs, pc'[h] = "cascade" PROVE status'[h[1]] = "failed"
    BY DEF CascadeOfFailed
  <2>1. CASE h = g
    BY <1>1, <2>1 DEF RunStep, GoesOn, GivesUp, Ends, SkipsBelow, SetStatus
  <2>2. CASE h # g
    BY <1>1, <1>3, <2>2, RunsType DEF FailureInv, CascadeOfFailed
  <2> QED
    BY <2>1, <2>2
<1>6. FreshAtStart'
  <2>1. main # "start"
    <3>1. main = "start" => pc[g] = "idle"
      BY DEF ExecutionInv, IdleAtEnds
    <3> QED
      BY <3>1 DEF RunStep, GoesOn, GivesUp, Ends, SkipsBelow, Busy
  <2> QED
    BY <1>1, <2>1 DEF FreshAtStart
<1>7. SkippedBelowFailed'
  <2> SUFFICES ASSUME ~terminated, ~cancelled, NEW n \in Nodes, status'[n] = "skipped"
               PROVE  \E x \in Nodes : status'[x] = "failed" /\ n \in Downstream[x]
    BY <1>1 DEF SkippedBelowFailed
  <2>1. CASE status[n] = "skipped"
    BY <1>3, <2>1 DEF FailureInv, SkippedBelowFailed
  <2>2. CASE status[n] # "skipped"
    <3>1. SkipsBelow(g, p) /\ n \in Downstream[g[1]]
      BY <1>1, <2>2 DEF RunStep, GoesOn, GivesUp, Ends, SkipsBelow, SetStatus, CascadeSkip
    <3>2. status[g[1]] = "failed"
      BY <3>1 DEF SkipsBelow, FailureInv, CascadeOfFailed
    <3> QED
      BY <1>1, <1>3, <3>1, <3>2
  <2> QED
    BY <2>1, <2>2
<1>8. NotDoomed'
  <2> SUFFICES ASSUME NEW n \in Nodes, status'[n] = "pending",
                      NEW d \in Deps[n], status'[d] \in {"failed", "skipped"}
               PROVE  \E h \in Runs : pc'[h] = "cascade" /\ n \in Downstream[h[1]]
    BY DEF NotDoomed
  <2>1. d \in Nodes
    BY DependentsType
  <2>2. ASSUME NEW h \in Runs, pc[h] = "cascade", n \in Downstream[h[1]], h # g
        PROVE  pc'[h] = "cascade"
    BY <1>1, <2>2
  <2>3. CASE SkipsBelow(g, p)
    <3>1. n \notin Downstream[g[1]] /\ status[n] = "pending"
      BY <1>1, <2>3 DEF SkipsBelow, CascadeSkip
    <3>2. d \notin Downstream[g[1]]
      BY <1>1, <3>1, DownstreamCloses
    <3>3. status[d] \in {"failed", "skipped"}
      BY <1>1, <2>1, <2>3, <3>2 DEF SkipsBelow, CascadeSkip
    <3> QED
      BY <2>2, <3>1, <3>3 DEF FailureInv, NotDoomed
  <2>4. CASE ~SkipsBelow(g, p) /\ n = g[1]
    <3>1. CASE Busy(g)
      BY <1>1, <1>2, <2>1, <2>4, <3>1
         DEF RunStep, GoesOn, GivesUp, Ends, SetStatus, DepsCompleted, Active
    <3> QED
      BY <2>4, <3>1 DEF RunStep, GoesOn, GivesUp, Ends
  <2>5. CASE ~SkipsBelow(g, p) /\ n # g[1]
    <3>1. Busy(g) /\ status[n] = "pending"
      BY <1>1, <2>5 DEF RunStep, GoesOn, GivesUp, Ends, SetStatus
    <3>2. CASE status[d] \in {"failed", "skipped"}
      BY <2>2, <3>1, <3>2 DEF FailureInv, NotDoomed, Busy
    <3>3. CASE status[d] \notin {"failed", "skipped"}
      <4>1. d = g[1] /\ p = "cascade"
        BY <1>1, <2>1, <2>5, <3>3 DEF RunStep, GoesOn, GivesUp, Ends, SetStatus
      <4> QED
        BY <1>1, <4>1, DownstreamCloses
    <3> QED
      BY <3>2, <3>3
  <2> QED
    BY <2>3, <2>4, <2>5
<1> QED
  BY <1>5, <1>6, <1>7, <1>8 DEF FailureInv

\* A round of the final node finds nothing failed, and leaves nothing failed.
LEMMA FailureLastRound ==
    ASSUME TypeInv, ExecutionInv, FailureInv, UNCHANGED retryRequests,
           NEW g \in Runs, LastRound(g)
    PROVE  FailureInv'
<1>1. pc \in [Runs -> RunPc] /\ g[1] \in Nodes
  BY RunsType DEF TypeInv, TypeOK, RunTypeOK
<1>2. \A n \in Nodes : status'[n] \notin {"failed", "skipped"}
  BY DEF LastRound
<1>3. \A n \in Nodes : status[n] # "failed"
  BY DEF LastRound, ExecutionInv, BusyInProgress, Active
<1>4. \A h \in Runs : pc'[h] # "cascade"
  BY <1>1, <1>3, RunsType DEF LastRound, FailureInv, CascadeOfFailed
<1>5. main' # "start"
  BY DEF LastRound, ExecutionInv, IdleAtEnds, Busy
<1>6. NotDoomed' /\ SkippedBelowFailed'
  BY <1>2, DependentsType DEF NotDoomed, SkippedBelowFailed
<1> QED
  BY <1>4, <1>5, <1>6 DEF FailureInv, CascadeOfFailed, FreshAtStart

\* The main loop fails no node, and skips some only when it is stopped.
LEMMA FailuresMain ==
    ASSUME TypeInv, FailureInv, MainLoop \/ SelectStopped
    PROVE  /\ UNCHANGED <<terminated, cancelled, retryRequests>>
           /\ main' # "start"
           /\ \A n \in Nodes : status[n] \in {"failed", "skipped"} => status'[n] = status[n]
           /\ \/ (terminated \/ cancelled) /\ \A n \in Nodes : status'[n] # "pending"
              \/ \A n \in Nodes :
                    /\ status'[n] \in {"failed", "skipped"} => status'[n] = status[n]
                    /\ status'[n] = "pending" => status[n] = "pending"
           /\ \A g \in Runs : pc'[g] = "cascade" <=> pc[g] = "cascade"
<1>1. status \in [Nodes -> NodeStatus] /\ pc \in [Runs -> RunPc] /\ retryRequests = <<>>
  BY DEF TypeInv, TypeOK, WorkflowTypeOK, RunTypeOK, FailureInv
<1>2. CASE RunStart
  BY <1>1, <1>2 DEF RunStart, FailureInv, FreshAtStart, TerminalStatus, envVars, runVars
<1>3. CASE Spawn
  <2>1. /\ UNCHANGED <<terminated, cancelled, retryRequests>> /\ main' = "select"
        /\ \A n \in Nodes : \/ status'[n] = status[n]
                            \/ status[n] = "pending" /\ status'[n] = "ready"
    BY <1>1, <1>3 DEF Spawn, ReadyNodes, envVars
  <2>2. \A g \in Runs : pc[g] = "cascade" <=> pc'[g] = "cascade"
    <3> DEFINE slot(n) == CHOOSE k \in FreeSlots(n) : TRUE
               new == {<<n, slot(n)>> : n \in ReadyNodes(status)}
    <3>1. /\ \A n \in ReadyNodes(status) : FreeSlots(n) # {}
          /\ pc' = [g \in Runs |-> IF g \in new THEN "acquire" ELSE pc[g]]
      BY <1>3 DEF Spawn
    <3>2. \A n \in ReadyNodes(status) : slot(n) \in FreeSlots(n)
      BY <3>1
    <3> HIDE DEF slot
    <3>3. \A g \in new : pc[g] = "idle"
      BY <3>2 DEF FreeSlots
    <3> QED
      BY <3>1, <3>3
  <2>3. \A n \in Nodes : status'[n] # "ready" => status'[n] = status[n]
    BY <1>1, <2>1 DEF NodeStatus
  <2> QED
    BY <2>1, <2>2, <2>3
<1>4. CASE /\ status' = AllSkipped(status) /\ pc' = pc /\ main' = "wait"
           /\ UNCHANGED <<terminated, cancelled, retryRequests>>
           /\ terminated \/ cancelled
  <2>1. \A n \in Nodes : /\ status'[n] # "pending"
                         /\ status[n] \in {"failed", "skipped"} => status'[n] = status[n]
    BY <1>1, <1>4 DEF AllSkipped, TerminalStatus
  <2> QED
    BY <1>4, <2>1
<1>5. CASE /\ UNCHANGED <<status, pc, terminated, cancelled, retryRequests>>
           /\ main' # "start"
  BY <1>5
<1> QED
  BY <1>1, <1>2, <1>3, <1>4, <1>5
     DEF MainLoop, SelectStopped, CheckTerminated, CheckQuota, CheckAllTerminal,
         RequestRetry, Drained, Tick, RunReturn, OnlyMain, wfVars, envVars, runVars

LEMMA FailureMain ==
    ASSUME TypeInv, FailureInv, MainLoop \/ SelectStopped
    PROVE  FailureInv'
<1>1. /\ retryRequests' = <<>>
      /\ CascadeOfFailed' /\ FreshAtStart'
  BY FailuresMain, RunsType DEF FailureInv, CascadeOfFailed, FreshAtStart
<1>2. SkippedBelowFailed'
  <2>1. UNCHANGED <<terminated, cancelled>>
    BY FailuresMain
  <2>2. CASE terminated \/ cancelled
    BY <2>1, <2>2 DEF SkippedBelowFailed
  <2>3. CASE ~terminated /\ ~cancelled
    BY <2>3, FailuresMain DEF FailureInv, SkippedBelowFailed
  <2> QED
    BY <2>2, <2>3
<1>3. NotDoomed'
  <2> SUFFICES ASSUME NEW n \in Nodes, status'[n] = "pending",
                      NEW d \in Deps[n], status'[d] \in {"failed", "skipped"}
               PROVE  \E h \in Runs : pc'[h] = "cascade" /\ n \in Downstream[h[1]]
    BY DEF NotDoomed
  <2>1. status[n] = "pending" /\ status[d] \in {"failed", "skipped"}
    BY FailuresMain, DependentsType
  <2> QED
    BY <2>1, FailuresMain DEF FailureInv, NotDoomed
<1> QED
  BY <1>1, <1>2, <1>3 DEF FailureInv

LEMMA FailureControl ==
    ASSUME FailureInv, "retry" \notin Controls,
           Terminate \/ Cancel \/ SubmitRetry \/ UNCHANGED vars
    PROVE  FailureInv'
<1>1. /\ UNCHANGED <<status, pc, main, retryRequests>>
      /\ terminated => terminated'
      /\ cancelled => cancelled'
  BY DEF Terminate, Cancel, SubmitRetry, vars, wfVars, envVars, runVars
<1> QED
  BY <1>1 DEF FailureInv, CascadeOfFailed, FreshAtStart, SkippedBelowFailed, NotDoomed

LEMMA FailureInit == Init => FailureInv
BY DependentsType
   DEF Init, FailureInv, CascadeOfFailed, FreshAtStart, SkippedBelowFailed, NotDoomed

LEMMA RetriesUntouched ==
    ASSUME NEW g \in Runs, RunNode(g) \/ ReviewLoop(g)
    PROVE  UNCHANGED retryRequests
BY DEF RunNode, Acquire, GiveUp, Begin, TakeFeedback, Try, Executed,
       ExecuteFailed, BackoffEnds, BackoffCancelled, HandleError, TripQuotaBreaker,
       Park, MarkFailed, Cascade, CheckFinish, MarkCompleted,
       ReviewLoop, ReviewRound, ReviewTry, ReviewFailed, ReviewWaitEnds,
       ReviewWaitCancelled, Verdicts, Rework, Reexecuted, ReexecuteFailed, CheckGoal,
       GoalFeedbackReset, OnlyRun, envVars

LEMMA FailureNext ==
    ASSUME Wired, "retry" \notin Controls
    PROVE  IInv /\ FailureInv /\ [Next]_vars => FailureInv'
<1> SUFFICES ASSUME IInv, FailureInv, [Next]_vars PROVE FailureInv'
  OBVIOUS
<1>1. TypeInv /\ ExecutionInv
  BY DEF IInv
<1>2. ASSUME NEW g \in Runs, RunNode(g) \/ ReviewLoop(g)
      PROVE  FailureInv'
  BY <1>1, <1>2, GoroutineStep, RetriesUntouched, FailureRunStep, FailureLastRound
<1> QED
  BY <1>1, <1>2, FailureMain, FailureControl DEF Next, Returned

\* No pending node is left behind that can no longer become ready: not by a
\* failure, a stop or a round of the goal loop.
THEOREM NoneLeftDoomed ==
    ASSUME Wired, "retry" \notin Controls
    PROVE  Spec => []NotDoomed
<1>1. FailureInv => NotDoomed
  BY DEF FailureInv
<1> QED
  BY <1>1, ExecutionInit, ExecutionNext, FailureInit, FailureNext, PTL DEF Spec

\* What lies below a failed node has not been started.
LEMMA BelowFailed ==
    ASSUME WorkOnCompleted, NEW x \in Nodes, status[x] = "failed",
           NEW d \in Downstream[x]
    PROVE  status[d] \notin Active \cup {"completed"}
<1> DEFINE S == {m \in Nodes : status[m] \notin Active \cup {"completed"}}
<1>1. \A m, k \in Nodes : k \in Deps[m] /\ status[k] # "completed" => m \in S
  BY DEF WorkOnCompleted, DepsCompleted
<1>2. Dependents[x] \subseteq S
  BY <1>1, DependentsType
<1>3. ClosedDownstream(S)
  <2>1. \A k \in S : k \in Nodes /\ status[k] # "completed"
    OBVIOUS
  <2>2. ASSUME NEW k \in S, NEW m \in Dependents[k] PROVE m \in S
    <3>1. m \in Nodes /\ k \in Deps[m]
      BY <2>1, DependentsType
    <3> QED
      BY <1>1, <2>1, <3>1
  <2> HIDE DEF S
  <2> QED
    BY <2>2 DEF ClosedDownstream
<1>4. Downstream[x] \subseteq S
  BY <1>2, <1>3, DownstreamLeast
<1> QED
  BY <1>4

LEMMA CauseRunStep ==
    ASSUME TypeInv, ExecutionInv, WorkOnCompleted, FailureInv, SkippedForCause,
           NEW g \in Runs, NEW p \in RunPc, RunStep(g, p)
    PROVE  SkippedForCause'
<1>1. /\ g[1] \in Nodes
      /\ status \in [Nodes -> NodeStatus]
      /\ UNCHANGED <<terminated, cancelled>>
  BY RunsType DEF RunStep, TypeInv, TypeOK, WorkflowTypeOK
<1>3. \A n \in Nodes : status[n] = "failed" => status'[n] = "failed"
  BY FailuresRunStep
<1>4. \A n \in Nodes :
        status[n] = "skipped" /\ ~terminated /\ ~cancelled => status'[n] = "skipped"
  BY FailuresRunStep
<1>7. SkippedForCause'
  <2> SUFFICES ASSUME ~terminated, ~cancelled, NEW n \in Nodes, status'[n] = "skipped"
               PROVE  \E d \in Deps[n] : status'[d] \in {"failed", "skipped"}
    BY <1>1 DEF SkippedForCause
  <2>1. CASE status[n] = "skipped"
    <3>1. PICK d \in Deps[n] : status[d] \in {"failed", "skipped"}
      BY <2>1 DEF SkippedForCause
    <3> QED
      BY <1>3, <1>4, <3>1, DependentsType
  <2>2. CASE status[n] # "skipped"
    <3>1. SkipsBelow(g, p) /\ n \in Downstream[g[1]]
      BY <1>1, <2>2 DEF RunStep, GoesOn, GivesUp, Ends, SkipsBelow, SetStatus, CascadeSkip
    <3>2. status[g[1]] = "failed"
      BY <3>1 DEF SkipsBelow, FailureInv, CascadeOfFailed
    <3>3. PICK d \in Deps[n] : d = g[1] \/ d \in Downstream[g[1]]
      BY <1>1, <3>1, DownstreamCause
    <3>4. CASE d = g[1]
      BY <1>1, <1>3, <3>2, <3>4
    <3>5. CASE d \in Downstream[g[1]]
      <4>1. d \in Nodes /\ status[d] \notin Active \cup {"completed"}
        BY <1>1, <3>2, <3>5, BelowFailed, DownstreamDef
      <4>2. status[d] \in {"pending", "failed", "skipped"}
        BY <1>1, <4>1 DEF NodeStatus, Active
      <4> QED
        BY <1>3, <1>4, <3>1, <3>5, <4>1, <4>2 DEF SkipsBelow, CascadeSkip
    <3> QED
      BY <3>3, <3>4, <3>5
  <2> QED
    BY <2>1, <2>2
<1> QED
  BY <1>7

LEMMA CauseNext ==
    ASSUME ~GoalMode, "retry" \notin Controls
    PROVE  IInv /\ FailureInv /\ SkippedForCause /\ [Next]_vars => SkippedForCause'
<1> SUFFICES ASSUME IInv, FailureInv, SkippedForCause, [Next]_vars PROVE SkippedForCause'
  OBVIOUS
<1>1. /\ TypeInv /\ ExecutionInv /\ WorkOnCompleted
      /\ \A g \in Runs : pc[g] # "goalReset"
  BY NotInGoalMode DEF IInv
<1>2. ASSUME NEW g \in Runs, RunNode(g) \/ ReviewLoop(g)
      PROVE  SkippedForCause'
  BY <1>1, <1>2, RunNodeStep, ReviewLoopStep, CauseRunStep
<1>3. CASE MainLoop \/ SelectStopped
  <2>1. UNCHANGED <<terminated, cancelled>>
    BY <1>1, <1>3, FailuresMain
  <2>2. CASE terminated \/ cancelled
    BY <2>1, <2>2 DEF SkippedForCause
  <2>3. CASE ~terminated /\ ~cancelled
    BY <1>1, <1>3, <2>3, FailuresMain, DependentsType DEF SkippedForCause
  <2> QED
    BY <2>2, <2>3
<1>4. CASE Terminate \/ Cancel \/ SubmitRetry \/ UNCHANGED vars
  BY <1>4 DEF Terminate, Cancel, SubmitRetry, vars, wfVars, envVars, SkippedForCause
<1> QED
  BY <1>2, <1>3, <1>4 DEF Next, Returned

\* Without goal mode and manual retries a node is skipped only because of a
\* stop or of a dependency that failed or was skipped (NodeSkipped).
THEOREM SkipsAreExact ==
    ASSUME ~GoalMode, "retry" \notin Controls
    PROVE  Spec => []SkippedForCause
<1>1. Init => SkippedForCause
  BY DEF Init, SkippedForCause
<1> QED
  BY <1>1, NotInGoalMode, ExecutionInit, ExecutionNext, FailureInit, FailureNext, CauseNext, PTL
     DEF Spec

-----------------------------------------------------------------------------
(* What the end of a run says                                              *)

\* Nothing happens after Run has returned.
LEMMA ReturnedIsFinal ==
    ASSUME ExecutionInv, main = "returned", [Next]_vars
    PROVE  UNCHANGED vars
<1>1. \A g \in Runs : pc[g] = "idle"
  BY DEF ExecutionInv, IdleAtEnds
<1>2. ~MainLoop /\ ~SelectStopped
  BY DEF MainLoop, RunStart, CheckTerminated, CheckQuota, CheckAllTerminal, RequestRetry,
     Drained, Spawn, Tick, RunReturn, SelectStopped
<1>3. ASSUME NEW g \in Runs
      PROVE  ~RunNode(g) /\ ~ReviewLoop(g)
  BY <1>1 DEF RunNode, Acquire, GiveUp, Begin, TakeFeedback, Try, Executed,
     ExecuteFailed, BackoffEnds, BackoffCancelled, HandleError, TripQuotaBreaker,
     Park, MarkFailed, Cascade, CheckFinish, MarkCompleted,
     ReviewLoop, ReviewRound, ReviewTry, ReviewFailed, ReviewWaitEnds,
     ReviewWaitCancelled, Verdicts, Rework, Reexecuted, ReexecuteFailed, CheckGoal,
     GoalFeedbackReset
<1>4. ~Terminate /\ ~Cancel /\ ~SubmitRetry
  BY DEF Terminate, Cancel, SubmitRetry
<1> QED
  BY <1>2, <1>3, <1>4 DEF Next, Returned

\* The status of the workflow is written when Run starts and when it returns.
LEMMA StatusWritten ==
    ASSUME [Next]_vars, ~RunReturn
    PROVE  wfStatus' \in {wfStatus, "running"}
<1>1. CASE MainLoop \/ SelectStopped
  BY <1>1 DEF MainLoop, RunStart, CheckTerminated, CheckQuota, CheckAllTerminal, RequestRetry,
     Drained, Spawn, Tick, SelectStopped, OnlyStatus, OnlyMain, wfVars
<1>2. ASSUME NEW g \in Runs, RunNode(g) \/ ReviewLoop(g)
      PROVE  wfStatus' = wfStatus
  BY <1>2 DEF RunNode, Acquire, GiveUp, Begin, TakeFeedback, Try, Executed,
     ExecuteFailed, BackoffEnds, BackoffCancelled, HandleError, TripQuotaBreaker,
     Park, MarkFailed, Cascade, CheckFinish, MarkCompleted,
     ReviewLoop, ReviewRound, ReviewTry, ReviewFailed, ReviewWaitEnds,
     ReviewWaitCancelled, Verdicts, Rework, Reexecuted, ReexecuteFailed, CheckGoal,
     GoalFeedbackReset, OnlyRun, OnlyStatus, wfVars
<1>3. CASE Terminate \/ Cancel \/ SubmitRetry \/ UNCHANGED vars
  BY <1>3 DEF Terminate, Cancel, SubmitRetry, vars, wfVars
<1> QED
  BY <1>1, <1>2, <1>3 DEF Next, Returned

\* The ends of a run that is never cancelled: a reported status is final.
EndInv ==
    /\ ~cancelled
    /\ wfStatus \in {"interrupted", "completed"} => main = "returned"

LEMMA EndInit == Init => EndInv
BY DEF Init, EndInv

LEMMA EndNext ==
    ASSUME ExecutionInv, EndInv, [Next]_vars, "cancel" \notin Controls
    PROVE  EndInv'
<1>1. ~cancelled'
  <2>1. ~Cancel
    BY DEF Cancel
  <2>2. ASSUME NEW g \in Runs, RunNode(g) \/ ReviewLoop(g)
        PROVE  cancelled' = cancelled
    BY <2>2 DEF RunNode, Acquire, GiveUp, Begin, TakeFeedback, Try, Executed,
       ExecuteFailed, BackoffEnds, BackoffCancelled, HandleError, TripQuotaBreaker,
       Park, MarkFailed, Cascade, CheckFinish, MarkCompleted,
       ReviewLoop, ReviewRound, ReviewTry, ReviewFailed, ReviewWaitEnds,
       ReviewWaitCancelled, Verdicts, Rework, Reexecuted, ReexecuteFailed, CheckGoal,
       GoalFeedbackReset, OnlyRun, envVars
  <2>3. CASE MainLoop \/ SelectStopped
    BY <2>3 DEF EndInv, MainLoop, RunStart, CheckTerminated, CheckQuota, CheckAllTerminal,
       RequestRetry, Drained, Spawn, Tick, RunReturn, SelectStopped, OnlyMain, envVars
  <2>4. CASE Terminate \/ SubmitRetry \/ UNCHANGED vars
    BY <2>4 DEF EndInv, Terminate, SubmitRetry, vars, envVars
  <2> QED
    BY <2>1, <2>2, <2>3, <2>4 DEF EndInv, Next, Returned
<1>2. CASE main = "returned"
  BY <1>2, ReturnedIsFinal DEF EndInv, vars, wfVars, envVars
<1>3. CASE main # "returned" /\ RunReturn
  BY <1>1, <1>3 DEF EndInv, RunReturn
<1>4. CASE main # "returned" /\ ~RunReturn
  BY <1>1, <1>4, StatusWritten DEF EndInv
<1> QED
  BY <1>2, <1>3, <1>4

LEMMA AtRestNext ==
    ASSUME IInv, EndInv, InterruptedAtRest, [Next]_vars
    PROVE  InterruptedAtRest'
<1>1. TypeInv /\ ExecutionInv
  BY DEF IInv
<1>2. CASE main = "returned"
  BY <1>1, <1>2, ReturnedIsFinal DEF InterruptedAtRest, vars, wfVars, envVars
<1>3. CASE main # "returned" /\ RunReturn
  <2>1. /\ main = "wait" /\ \A g \in Runs : ~Busy(g)
        /\ UNCHANGED <<status, terminated>>
    BY <1>3 DEF RunReturn, Busy, envVars
  <2>2. ~terminated => \A n \in Nodes : status[n] \notin Active
    BY <1>1, <2>1 DEF ExecutionInv, ActiveIsBusy, EndInv, Runs
  <2> QED
    BY <2>1, <2>2 DEF InterruptedAtRest
<1>4. CASE main # "returned" /\ ~RunReturn
  BY <1>4, StatusWritten DEF EndInv, InterruptedAtRest
<1> QED
  BY <1>2, <1>3, <1>4

\* A workflow that the quota breaker interrupted has no node in progress, so
\* that what is saved for the resumption is complete (applyQuotaBreak).
THEOREM InterruptedIsAtRest ==
    ASSUME Wired, "cancel" \notin Controls
    PROVE  Spec => []InterruptedAtRest
<1>1. Init => InterruptedAtRest
  BY DEF Init, InterruptedAtRest
<1>2. IInv /\ EndInv /\ [Next]_vars => EndInv'
  BY EndNext DEF IInv
<1> QED
  BY <1>1, <1>2, AtRestNext, EndInit, ExecutionInit, ExecutionNext, PTL DEF Spec

LEMMA CompletedNext ==
    ASSUME IInv, FailureInv, EndInv, CompletedMeansAll, [Next]_vars
    PROVE  CompletedMeansAll'
<1>1. TypeInv /\ ExecutionInv
  BY DEF IInv
<1>2. CASE main = "returned"
  BY <1>1, <1>2, ReturnedIsFinal DEF CompletedMeansAll, vars, wfVars
<1>3. CASE main # "returned" /\ RunReturn
  <2> SUFFICES ASSUME wfStatus' = "completed"
               PROVE  \A n \in Nodes : status[n] = "completed"
    BY <1>3 DEF CompletedMeansAll, RunReturn
  <2>1. ~terminated /\ ~cancelled /\ \A n \in Nodes : status[n] \in {"completed", "skipped"}
    BY <1>3 DEF RunReturn, FinalStatus, EndInv
  <2>2. \A n \in Nodes : status[n] # "failed"
    BY <2>1
  <2>3. \A n \in Nodes : status[n] # "skipped"
    BY <2>1, <2>2 DEF FailureInv, SkippedBelowFailed
  <2> QED
    BY <2>1, <2>3
<1>4. CASE main # "returned" /\ ~RunReturn
  BY <1>4, StatusWritten DEF EndInv, CompletedMeansAll
<1> QED
  BY <1>2, <1>3, <1>4

\* A workflow reported completed has completed every node: the answer of
\* computeFinalStatus, which lets skipped nodes pass, cannot be misled, as
\* nodes are skipped below failed ones only and none of these recovers.
THEOREM CompletedIsComplete ==
    ASSUME Wired, "retry" \notin Controls, "cancel" \notin Controls
    PROVE  Spec => []CompletedMeansAll
<1>1. Init => CompletedMeansAll
  BY DEF Init, CompletedMeansAll
<1>2. IInv /\ EndInv /\ [Next]_vars => EndInv'
  BY EndNext DEF IInv
<1> QED
  BY <1>1, <1>2, CompletedNext, EndInit, ExecutionInit, ExecutionNext, FailureInit, FailureNext, PTL
     DEF Spec

-----------------------------------------------------------------------------
(* Blocked nodes                                                           *)

InReview == {"review", "reviewTry", "reviewing", "reviewWait", "rework",
             "reexecute", "goal", "goalReset"}

\* Only reviewed nodes have an outcome, and a goroutine that is about to
\* complete its node has not been told that it is blocked.
BlockedInv ==
    /\ \A g \in Runs : pc[g] \in InReview => g[1] \in Reviewed
    /\ \A n \in Nodes \ Reviewed : outcome[n] = "none"
    /\ \A g \in Runs : pc[g] \in {"finish", "complete"} => outcome[g[1]] # "blocked"
    /\ BlockedNotCompleted

\* What a step of goroutine g may do that bears on this.
BlockedStep(g, p) ==
    /\ pc' = [pc EXCEPT ![g] = p]
    /\ p \in InReview => g[1] \in Reviewed
    /\ \/ UNCHANGED outcome
       \/ /\ pc[g] = "reviewing"
          /\ \E oc \in {"none", "ok", "degraded", "blocked"} :
                outcome' = [outcome EXCEPT ![g[1]] = oc]
    /\ p \in {"finish", "complete"} => outcome'[g[1]] # "blocked"
    /\ \A n \in Nodes : status'[n] = "completed" =>
            status[n] = "completed" \/ (n = g[1] /\ pc[g] = "complete" /\ UNCHANGED outcome)

LEMMA BlockedRunNode ==
    ASSUME TypeInv, BlockedInv, NEW g \in Runs, RunNode(g)
    PROVE  \E p \in RunPc : BlockedStep(g, p)
<1>1. /\ g[1] \in Nodes
      /\ pc \in [Runs -> RunPc] /\ status \in [Nodes -> NodeStatus]
  BY RunsType DEF TypeInv, TypeOK, WorkflowTypeOK, RunTypeOK
<1> USE <1>1 DEF RunPc, BlockedStep, BlockedInv, InReview, Goto, Exit, Fail, SetStatus,
            OnlyRun, OnlyStatus, wfVars, envVars
<1>2. CASE Acquire(g) \/ GiveUp(g) \/ Begin(g) \/ TakeFeedback(g)
  BY <1>2 DEF Acquire, GiveUp, Begin, TakeFeedback
<1>3. CASE Try(g) \/ ExecuteFailed(g)
  BY <1>3 DEF Try, AttemptFailed, ExecuteFailed
<1>4. CASE Executed(g)
  BY <1>4 DEF Executed
<1>5. CASE BackoffEnds(g) \/ BackoffCancelled(g)
  BY <1>5 DEF BackoffEnds, BackoffCancelled
<1>6. CASE HandleError(g) \/ TripQuotaBreaker(g) \/ Park(g)
  BY <1>6 DEF HandleError, TripQuotaBreaker, Park
<1>7. CASE MarkFailed(g) \/ Cascade(g)
  BY <1>7 DEF MarkFailed, Cascade, CascadeSkip
<1>8. CASE CheckFinish(g) \/ MarkCompleted(g)
  BY <1>8 DEF CheckFinish, MarkCompleted
<1> QED
  BY <1>2, <1>3, <1>4, <1>5, <1>6, <1>7, <1>8 DEF RunNode

LEMMA BlockedReviewLoop ==
    ASSUME TypeInv, BlockedInv, NEW g \in Runs, ReviewLoop(g)
    PROVE  \E p \in RunPc : BlockedStep(g, p)
<1>1. /\ g[1] \in Nodes
      /\ pc \in [Runs -> RunPc] /\ status \in [Nodes -> NodeStatus]
      /\ outcome \in [Nodes -> {"none", "ok", "degraded", "blocked"}]
  BY RunsType DEF TypeInv, TypeOK, WorkflowTypeOK, RunTypeOK
<1> USE <1>1 DEF RunPc, BlockedStep, BlockedInv, InReview, Goto, Exit, Fail, SetStatus,
            OnlyRun, OnlyStatus, wfVars, envVars
<1>2. CASE ReviewRound(g) \/ ReviewTry(g) \/ ReviewWaitEnds(g) \/ ReviewWaitCancelled(g)
  BY <1>2 DEF ReviewRound, ReviewTry, ReviewWaitEnds, ReviewWaitCancelled
<1>3. CASE ReviewFailed(g)
  BY <1>3 DEF ReviewFailed
<1>4. CASE Verdicts(g)
  <2>1. PICK v \in ReviewResults \cap Verdict :
          LET oc == IF v[2] = "unknown" THEN outcome[g[1]] ELSE v[2]
          IN  /\ outcome' = [outcome EXCEPT ![g[1]] = oc]
              /\ IF oc = "blocked" THEN Fail(g, "fatal")
                 ELSE /\ Goto(g, IF v[1] = "pass" THEN "finish" ELSE "rework")
                      /\ UNCHANGED <<tries, iter, failure>>
    BY <1>4 DEF Verdicts
  <2> DEFINE oc == IF v[2] = "unknown" THEN outcome[g[1]] ELSE v[2]
  <2>2. oc \in {"none", "ok", "degraded", "blocked"}
    BY DEF Verdict
  <2>3. /\ outcome' = [outcome EXCEPT ![g[1]] = oc]
        /\ outcome'[g[1]] = oc
        /\ IF oc = "blocked" THEN pc' = [pc EXCEPT ![g] = "error"]
           ELSE \/ pc' = [pc EXCEPT ![g] = "finish"]
                \/ pc' = [pc EXCEPT ![g] = "rework"]
        /\ pc[g] = "reviewing" /\ UNCHANGED status
    BY <1>4, <2>1 DEF Verdicts
  <2> HIDE DEF oc
  <2> QED
    BY <2>2, <2>3
<1>5. CASE Rework(g) \/ Reexecuted(g) \/ ReexecuteFailed(g)
  BY <1>5 DEF Rework, Reexecuted, ReexecuteFailed
<1>6. CASE CheckGoal(g)
  BY <1>6 DEF CheckGoal
<1>7. CASE GoalFeedbackReset(g)
  <2>1. \A n \in Nodes : status'[n] = "completed" => status[n] = "completed"
    BY <1>7 DEF GoalFeedbackReset
  <2> QED
    BY <1>7, <2>1 DEF GoalFeedbackReset
<1> QED
  BY <1>2, <1>3, <1>4, <1>5, <1>6, <1>7 DEF ReviewLoop

LEMMA BlockedRunStep ==
    ASSUME TypeInv, ExecutionInv, BlockedInv, NEW g \in Runs, NEW p \in RunPc, BlockedStep(g, p)
    PROVE  BlockedInv'
<1>1. /\ g[1] \in Nodes
      /\ pc \in [Runs -> RunPc] /\ pc' = [pc EXCEPT ![g] = p]
      /\ outcome \in [Nodes -> {"none", "ok", "degraded", "blocked"}]
  BY RunsType DEF TypeInv, TypeOK, WorkflowTypeOK, RunTypeOK, BlockedStep
<1>2. \A n \in Nodes : n # g[1] => outcome'[n] = outcome[n]
  BY <1>1 DEF BlockedStep
<1>3. \A h \in Runs : pc'[h] \in InReview => h[1] \in Reviewed
  BY <1>1 DEF BlockedInv, BlockedStep
<1>4. \A n \in Nodes \ Reviewed : outcome'[n] = "none"
  <2>1. pc[g] = "reviewing" => g[1] \in Reviewed
    BY DEF BlockedInv, InReview
  <2> QED
    BY <1>1, <1>2, <2>1 DEF BlockedInv, BlockedStep
<1>5. \A h \in Runs : pc'[h] \in {"finish", "complete"} => outcome'[h[1]] # "blocked"
  <2> SUFFICES ASSUME NEW h \in Runs, pc'[h] \in {"finish", "complete"}
               PROVE  outcome'[h[1]] # "blocked"
    OBVIOUS
  <2>1. CASE h = g
    BY <1>1, <2>1 DEF BlockedStep
  <2>2. CASE h # g
    <3>1. pc[h] \in {"finish", "complete"} /\ outcome[h[1]] # "blocked"
      BY <1>1, <2>2 DEF BlockedInv
    <3>2. CASE h[1] = g[1]
      <4>1. PICK n \in Nodes, j \in Slots, k \in Slots : g = <<n, j>> /\ h = <<n, k>>
        BY <3>2 DEF Runs
      <4>2. ~Busy(g)
        BY <2>2, <3>1, <4>1 DEF ExecutionInv, OneBusy, Busy
      <4> QED
        BY <3>1, <4>2 DEF BlockedStep, Busy
    <3>3. CASE h[1] # g[1]
      BY <1>2, <3>1, <3>3, RunsType
    <3> QED
      BY <3>2, <3>3
  <2> QED
    BY <2>1, <2>2
<1>6. BlockedNotCompleted'
  <2> SUFFICES ASSUME NEW n \in Nodes, status'[n] = "completed"
               PROVE  outcome'[n] # "blocked"
    BY DEF BlockedNotCompleted
  <2>1. CASE status[n] # "completed"
    BY <2>1 DEF BlockedStep, BlockedInv
  <2>2. CASE status[n] = "completed"
    <3>1. outcome[n] # "blocked"
      BY <2>2 DEF BlockedInv, BlockedNotCompleted
    <3>2. Busy(g) => g[1] # n
      BY <2>2 DEF ExecutionInv, BusyInProgress, Active
    <3> QED
      BY <1>2, <3>1, <3>2 DEF BlockedStep, Busy
  <2> QED
    BY <2>1, <2>2
<1> QED
  BY <1>3, <1>4, <1>5, <1>6 DEF BlockedInv

LEMMA BlockedMain ==
    ASSUME TypeInv, BlockedInv, MainLoop \/ SelectStopped
    PROVE  BlockedInv'
<1>1. /\ status \in [Nodes -> NodeStatus]
      /\ pc \in [Runs -> RunPc]
  BY DEF TypeInv, TypeOK, WorkflowTypeOK, RunTypeOK
<1>2. outcome' = outcome
  BY DEF MainLoop, SelectStopped, RunStart, CheckTerminated, CheckQuota, CheckAllTerminal,
     RequestRetry, Drained, Spawn, Tick, RunReturn, OnlyStatus, OnlyMain, wfVars
<1>3. \A n \in Nodes : status'[n] = "completed" => status[n] = "completed"
  <2>1. CASE RequestRetry
    BY <2>1, RequestRetryStep
  <2>2. CASE ~RequestRetry
    BY <1>1, <2>2 DEF MainLoop, SelectStopped, RunStart, CheckTerminated, CheckQuota,
       CheckAllTerminal, Drained, Spawn, Tick, RunReturn, OnlyMain, wfVars, AllSkipped
  <2> QED
    BY <2>1, <2>2
<1>4. \A g \in Runs : pc'[g] = pc[g] \/ pc'[g] = "acquire"
  BY <1>1 DEF MainLoop, SelectStopped, RunStart, CheckTerminated, CheckQuota, CheckAllTerminal,
     RequestRetry, Drained, Spawn, Tick, RunReturn, OnlyMain, runVars
<1> QED
  BY <1>2, <1>3, <1>4 DEF BlockedInv, BlockedNotCompleted, InReview

LEMMA BlockedNext ==
    ASSUME Wired
    PROVE  IInv /\ BlockedInv /\ [Next]_vars => BlockedInv'
<1> SUFFICES ASSUME IInv, BlockedInv, [Next]_vars PROVE BlockedInv'
  OBVIOUS
<1>1. TypeInv /\ ExecutionInv
  BY DEF IInv
<1>2. ASSUME NEW g \in Runs, RunNode(g) \/ ReviewLoop(g)
      PROVE  BlockedInv'
  <2>1. PICK p \in RunPc : BlockedStep(g, p)
    BY <1>1, <1>2, BlockedRunNode, BlockedReviewLoop
  <2> QED
    BY <1>1, <2>1, BlockedRunStep
<1>3. CASE Terminate \/ Cancel \/ SubmitRetry \/ UNCHANGED vars
  BY <1>3 DEF Terminate, Cancel, SubmitRetry, vars, wfVars, runVars, BlockedInv,
     BlockedNotCompleted
<1> QED
  BY <1>1, <1>2, <1>3, BlockedMain DEF Next, Returned

LEMMA BlockedInit == Init => BlockedInv
BY RunsType DEF Init, BlockedInv, BlockedNotCompleted, InReview

\* A node that a reviewer found impossible is never reported completed,
\* however often it is retried and whatever later reviews leave unsaid: the
\* outcome that was stored stands between the verdict and the completion.
THEOREM BlockedNeverCompleted ==
    ASSUME Wired
    PROVE  Spec => []BlockedNotCompleted
<1>1. BlockedInv => BlockedNotCompleted
  BY DEF BlockedInv
<1> QED
  BY <1>1, BlockedInit, BlockedNext, ExecutionInit, ExecutionNext, PTL DEF Spec

-----------------------------------------------------------------------------
(* The rounds of the goal loop                                             *)

Resetting == {g \in Runs : pc[g] = "goalReset"}

\* The places of s.sem are not exceeded; each goroutine between its look at
\* the counter (goalCanIterate) and the increment may add one round.
RoundsInv ==
    /\ Cardinality(Holding) <= MaxParallel
    /\ goalIteration + Cardinality(Resetting) <= GoalMax + MaxParallel - 1

LEMMA RunsFinite ==
    /\ IsFiniteSet(Holding) /\ Cardinality(Holding) \in Nat
    /\ IsFiniteSet(Resetting) /\ Cardinality(Resetting) \in Nat
<1>1. IsFiniteSet(Runs)
  BY NodesFinite, ParametersType, FS_Product DEF Runs
<1> QED
  BY <1>1, FS_Subset, FS_CardinalityType DEF Holding, Resetting

\* What a step of goroutine g may do that bears on this.
RoundsStep(g, p) ==
    /\ pc' = [pc EXCEPT ![g] = p]
    /\ \/ /\ pc[g] = "acquire" /\ p = "begin"
          /\ Cardinality(Holding) < MaxParallel
          /\ UNCHANGED goalIteration
       \/ /\ p = "idle" /\ pc[g] # "goalReset" /\ UNCHANGED goalIteration
       \/ /\ pc[g] \notin {"idle", "acquire", "goalReset"} /\ p \notin {"acquire", "goalReset"}
          /\ UNCHANGED goalIteration
       \/ /\ pc[g] = "goal" /\ p = "goalReset"
          /\ goalIteration < GoalMax /\ UNCHANGED goalIteration
       \/ /\ pc[g] = "goalReset" /\ p = "idle"
          /\ goalIteration' = goalIteration + 1

LEMMA RoundsRunNode ==
    ASSUME TypeInv, NEW g \in Runs, RunNode(g)
    PROVE  \E p \in RunPc : RoundsStep(g, p)
<1> USE DEF RunPc, RoundsStep, Goto, Exit, Fail, OnlyRun, OnlyStatus, wfVars
<1>1. CASE Acquire(g) \/ GiveUp(g) \/ Begin(g) \/ TakeFeedback(g)
  BY <1>1 DEF Acquire, GiveUp, Begin, TakeFeedback
<1>2. CASE Try(g) \/ Executed(g) \/ ExecuteFailed(g)
  BY <1>2 DEF Try, AttemptFailed, Executed, ExecuteFailed
<1>3. CASE BackoffEnds(g) \/ BackoffCancelled(g)
  BY <1>3 DEF BackoffEnds, BackoffCancelled
<1>4. CASE HandleError(g) \/ TripQuotaBreaker(g) \/ Park(g)
  BY <1>4 DEF HandleError, TripQuotaBreaker, Park
<1>5. CASE MarkFailed(g) \/ Cascade(g) \/ CheckFinish(g) \/ MarkCompleted(g)
  BY <1>5 DEF MarkFailed, Cascade, CheckFinish, MarkCompleted
<1> QED
  BY <1>1, <1>2, <1>3, <1>4, <1>5 DEF RunNode

LEMMA RoundsReviewLoop ==
    ASSUME TypeInv, NEW g \in Runs, ReviewLoop(g)
    PROVE  \E p \in RunPc : RoundsStep(g, p)
<1> USE DEF RunPc, RoundsStep, Goto, Exit, Fail, OnlyRun, OnlyStatus, wfVars
<1>1. CASE ReviewRound(g) \/ ReviewTry(g) \/ ReviewWaitEnds(g) \/ ReviewWaitCancelled(g)
  BY <1>1 DEF ReviewRound, ReviewTry, ReviewWaitEnds, ReviewWaitCancelled
<1>2. CASE ReviewFailed(g)
  BY <1>2 DEF ReviewFailed
<1>3. CASE Verdicts(g)
  BY <1>3 DEF Verdicts
<1>4. CASE Rework(g) \/ Reexecuted(g) \/ ReexecuteFailed(g)
  BY <1>4 DEF Rework, Reexecuted, ReexecuteFailed
<1>5. CASE CheckGoal(g) \/ GoalFeedbackReset(g)
  BY <1>5 DEF CheckGoal, GoalFeedbackReset
<1> QED
  BY <1>1, <1>2, <1>3, <1>4, <1>5 DEF ReviewLoop

LEMMA RoundsRunStep ==
    ASSUME TypeInv, RoundsInv, NEW g \in Runs, NEW p \in RunPc, RoundsStep(g, p)
    PROVE  RoundsInv'
<1>1. /\ pc \in [Runs -> RunPc] /\ pc' = [pc EXCEPT ![g] = p]
      /\ goalIteration \in Nat /\ GoalMax \in Nat /\ MaxParallel \in Nat
  BY ParametersType DEF RoundsStep, TypeInv, TypeOK, WorkflowTypeOK, RunTypeOK
<1>2. /\ Holding' \subseteq Holding \cup {g}
      /\ pc[g] # "acquire" \/ p = "idle" => Holding' \subseteq Holding
      /\ Resetting' \subseteq Resetting \cup {g}
      /\ p # "goalReset" => Resetting' \subseteq Resetting \ {g}
  BY <1>1 DEF RoundsStep, Holding, Resetting
<1> USE RunsFinite
<1>3. Cardinality(Holding') \in Nat /\ Cardinality(Holding') <= MaxParallel
  <2>1. CASE Holding' \subseteq Holding
    <3>1. Cardinality(Holding') \in Nat /\ Cardinality(Holding') <= Cardinality(Holding)
      BY <2>1, FS_Subset, FS_CardinalityType
    <3> QED
      BY <1>1, <3>1 DEF RoundsInv
  <2>2. CASE ~(Holding' \subseteq Holding)
    <3>1. Cardinality(Holding) < MaxParallel
      BY <1>2, <2>2 DEF RoundsStep
    <3>2. /\ Cardinality(Holding \cup {g}) <= Cardinality(Holding) + 1
          /\ IsFiniteSet(Holding \cup {g})
      <4>1. /\ IsFiniteSet(Holding \cup {g})
            /\ Cardinality(Holding \cup {g})
                 = IF g \in Holding THEN Cardinality(Holding) ELSE Cardinality(Holding) + 1
        BY FS_AddElement
      <4> QED
        BY <4>1, RunsFinite
    <3>3. /\ Cardinality(Holding') \in Nat
          /\ Cardinality(Holding \cup {g}) \in Nat
          /\ Cardinality(Holding') <= Cardinality(Holding \cup {g})
      BY <1>2, <3>2, FS_Subset, FS_CardinalityType
    <3> QED
      BY <1>1, <3>1, <3>2, <3>3
  <2> QED
    BY <2>1, <2>2
<1>4. Resetting' \subseteq Holding'
  BY DEF Resetting, Holding
<1>5. IsFiniteSet(Holding')
  BY <1>2, FS_AddElement, FS_Subset
<1>6. IsFiniteSet(Resetting') /\ Cardinality(Resetting') \in Nat /\ Cardinality(Resetting') <= MaxParallel
  <2>1. /\ IsFiniteSet(Resetting') /\ Cardinality(Resetting') \in Nat
        /\ Cardinality(Resetting') <= Cardinality(Holding')
    BY <1>4, <1>5, FS_Subset, FS_CardinalityType
  <2> QED
    BY <1>1, <1>3, <2>1
<1>7. goalIteration' + Cardinality(Resetting') <= GoalMax + MaxParallel - 1
  <2>1. CASE p = "goalReset"
    <3>1. goalIteration < GoalMax /\ goalIteration' = goalIteration
      BY <2>1 DEF RoundsStep
    <3> QED
      BY <1>1, <1>6, <3>1
  <2>2. CASE p # "goalReset" /\ pc[g] # "goalReset"
    <3>1. goalIteration' = goalIteration /\ Cardinality(Resetting') <= Cardinality(Resetting)
      BY <1>2, <2>2, FS_Subset DEF RoundsStep
    <3> QED
      BY <1>1, <1>6, <3>1 DEF RoundsInv
  <2>3. CASE p # "goalReset" /\ pc[g] = "goalReset"
    <3>1. goalIteration' = goalIteration + 1 /\ g \in Resetting
      BY <2>3 DEF RoundsStep, Resetting
    <3>2. /\ IsFiniteSet(Resetting \ {g})
          /\ Cardinality(Resetting \ {g}) = Cardinality(Resetting) - 1
      BY <3>1, FS_RemoveElement
    <3>3. Cardinality(Resetting') <= Cardinality(Resetting \ {g})
      BY <1>2, <2>3, <3>2, FS_Subset
    <3> QED
      BY <1>1, <1>6, <3>1, <3>2, <3>3 DEF RoundsInv
  <2> QED
    BY <2>1, <2>2, <2>3
<1> QED
  BY <1>3, <1>7 DEF RoundsInv

LEMMA RoundsNext == TypeInv /\ RoundsInv /\ [Next]_vars => RoundsInv'
<1> SUFFICES ASSUME TypeInv, RoundsInv, [Next]_vars PROVE RoundsInv'
  OBVIOUS
<1>1. ASSUME NEW g \in Runs, RunNode(g) \/ ReviewLoop(g)
      PROVE  RoundsInv'
  BY <1>1, RoundsRunNode, RoundsReviewLoop, RoundsRunStep
<1>2. CASE MainLoop \/ SelectStopped
  <2>1. goalIteration' = goalIteration
    BY <1>2 DEF MainLoop, SelectStopped, RunStart, CheckTerminated, CheckQuota, CheckAllTerminal,
       RequestRetry, Drained, Spawn, Tick, RunReturn, OnlyStatus, OnlyMain, wfVars
  <2>2. /\ Holding' = Holding /\ Resetting' = Resetting
    <3>1. CASE Spawn
      <4> DEFINE slot(n) == CHOOSE k \in FreeSlots(n) : TRUE
                 new == {<<n, slot(n)>> : n \in ReadyNodes(status)}
      <4>1. /\ \A n \in ReadyNodes(status) : FreeSlots(n) # {}
            /\ pc' = [g \in Runs |-> IF g \in new THEN "acquire" ELSE pc[g]]
        BY <3>1 DEF Spawn
      <4>2. \A n \in ReadyNodes(status) : slot(n) \in FreeSlots(n)
        BY <4>1
      <4> HIDE DEF slot
      <4>3. \A g \in new : pc[g] = "idle"
        BY <4>2 DEF FreeSlots
      <4> QED
        BY <4>1, <4>3 DEF Holding, Resetting
    <3>2. CASE ~Spawn
      BY <1>2, <3>2 DEF MainLoop, SelectStopped, RunStart, CheckTerminated, CheckQuota,
         CheckAllTerminal, RequestRetry, Drained, Tick, RunReturn, OnlyMain, runVars,
         Holding, Resetting
    <3> QED
      BY <3>1, <3>2
  <2> QED
    BY <2>1, <2>2 DEF RoundsInv
<1>3. CASE Terminate \/ Cancel \/ SubmitRetry \/ UNCHANGED vars
  BY <1>3 DEF Terminate, Cancel, SubmitRetry, vars, wfVars, runVars, RoundsInv, Holding, Resetting
<1> QED
  BY <1>1, <1>2, <1>3 DEF Next, Returned

LEMMA RoundsInit == Init => RoundsInv
<1> SUFFICES ASSUME Init PROVE RoundsInv
  OBVIOUS
<1>1. Holding = {} /\ Resetting = {} /\ goalIteration = 0
  BY DEF Init, Holding, Resetting
<1> QED
  BY <1>1, FS_EmptySet, ParametersType DEF RoundsInv

\* However many reviewers decide at once, the limit of the goal loop is never
\* exceeded by more than the other goroutines that hold a place.
THEOREM RoundsOvershoot == Spec => []RoundsWithin
<1>1. TypeInv /\ RoundsInv => RoundsWithin
  BY RunsFinite, ParametersType DEF RoundsWithin, RoundsInv, TypeInv, TypeOK, WorkflowTypeOK
<1> QED
  BY <1>1, RoundsInit, RoundsNext, TypeInit, TypeNext, PTL DEF Spec

-----------------------------------------------------------------------------
(***************************************************************************)
(* The refinement: WorkflowScheduler implements DAGExecution when nobody   *)
(* retries by hand and goal mode is off.                                   *)
(***************************************************************************)
\* A failed node stays failed while its goroutine is on the way to skip what
\* is below, and nothing has happened before Run.
RefinementInv == IInv /\ FailureInv

LEMMA RefinementInit == Init => RefinementInv
BY ExecutionInit, FailureInit DEF RefinementInv

LEMMA RefinementNext ==
    ASSUME ~GoalMode, "retry" \notin Controls
    PROVE  RefinementInv /\ [Next]_vars => RefinementInv'
BY NotInGoalMode, ExecutionNext, FailureNext DEF RefinementInv

-----------------------------------------------------------------------------

LEMMA AbstractInit == Init => DAG!DAGInit
BY DEF Init, DAG!DAGInit, NodeState, AbstractStatus

Stopped == terminated \/ cancelled

LEMMA SameGraph == DAG!Downstream = Downstream
BY DEF DAG!Downstream, Downstream, DAG!ClosedDownstream, ClosedDownstream,
       DAG!Dependents, Dependents

LEMMA AbstractRunStep ==
    ASSUME RefinementInv, NEW g \in Runs, NEW p \in RunPc, RunStep(g, p)
    PROVE  UNCHANGED NodeState \/ DAG!End(g[1]) \/ DAG!SkipBelow(g[1])
<1>1. /\ status \in [Nodes -> NodeStatus] /\ pc \in [Runs -> RunPc]
      /\ g[1] \in Nodes
      /\ UNCHANGED <<main, terminated, cancelled>>
  BY RunsType DEF RefinementInv, IInv, TypeInv, TypeOK, WorkflowTypeOK, RunTypeOK, RunStep
<1>2. Busy(g) => /\ DepsCompleted(status, g[1])
                 /\ \/ status[g[1]] \in Active
                    \/ status[g[1]] = "skipped" /\ Stopped
  BY DEF RefinementInv, IInv, ExecutionInv, BusyOnCompleted, BusyInProgress, Stopped
<1>3. DepsCompleted(status, g[1]) => DAG!Startable(g[1])
  BY <1>1, DepsType DEF DepsCompleted, DAG!Startable, NodeState, AbstractStatus, Active
<1>4. CASE SkipsBelow(g, p)
  <2>1. NodeState' = [n \in Nodes |->
            IF n \in Downstream[g[1]] /\ NodeState[n] = "open" THEN "skipped" ELSE NodeState[n]]
    BY <1>1, <1>4 DEF SkipsBelow, CascadeSkip, NodeState, AbstractStatus, Active, NodeStatus
  <2>2. NodeState[g[1]] = "failed"
    BY <1>1, <1>4 DEF RefinementInv, FailureInv, CascadeOfFailed, SkipsBelow, NodeState, AbstractStatus, Active
  <2> QED
    BY <1>1, <2>1, <2>2, SameGraph DEF DAG!SkipBelow
<1>5. ASSUME NEW s \in {"running", "reviewing", "pending", "completed", "failed"},
             Busy(g), SetStatus(g, s)
      PROVE  UNCHANGED NodeState \/ DAG!End(g[1])
  <2>1. NodeState' = [NodeState EXCEPT ![g[1]] = AbstractStatus(s)]
    BY <1>1, <1>5 DEF SetStatus, NodeState
  <2>2. \/ NodeState[g[1]] = "active"
        \/ NodeState[g[1]] = "skipped" /\ Stopped
    BY <1>1, <1>2, <1>5 DEF NodeState, AbstractStatus, Active
  <2>3. CASE s \in {"running", "reviewing"} /\ NodeState[g[1]] = "active"
    BY <1>1, <2>1, <2>3 DEF AbstractStatus, Active, NodeState
  <2>4. CASE s \in {"running", "reviewing"} /\ NodeState[g[1]] = "skipped" /\ Stopped
    <3>1. AbstractStatus(s) = "active"
      BY <2>4 DEF AbstractStatus, Active
    <3> QED
      BY <1>1, <1>2, <1>3, <1>5, <2>1, <2>4, <3>1 DEF DAG!End, Stopped
  <2>5. CASE s \in {"pending", "completed", "failed"}
    <3>1. AbstractStatus(s) \in {"completed", "failed", "open"}
      BY <2>5 DEF AbstractStatus, Active
    <3> QED
      BY <1>1, <1>2, <1>3, <1>5, <2>1, <2>2, <3>1 DEF DAG!End, Stopped
  <2> QED
    BY <2>2, <2>3, <2>4, <2>5
<1>6. CASE UNCHANGED status
  BY <1>6 DEF NodeState
<1> QED
  BY <1>4, <1>5, <1>6 DEF RunStep, GoesOn, GivesUp, Ends

LEMMA AbstractNext ==
    ASSUME ~GoalMode, RefinementInv, [Next]_vars
    PROVE  [DAG!DAGNext]_(DAG!dagVars)
<1>1. /\ status \in [Nodes -> NodeStatus] /\ retryRequests = <<>>
      /\ TypeInv /\ \A g \in Runs : pc[g] # "goalReset"
      /\ terminated \in BOOLEAN /\ cancelled \in BOOLEAN
  BY DEF RefinementInv, FailureInv, IInv, TypeInv, TypeOK, WorkflowTypeOK, ControlTypeOK
<1> USE DEF DAG!DAGNext, DAG!dagVars
<1>2. ASSUME NEW g \in Runs, RunNode(g) \/ ReviewLoop(g)
      PROVE  [DAG!DAGNext]_(DAG!dagVars)
  <2>1. PICK p \in RunPc : RunStep(g, p)
    BY <1>1, <1>2, RunNodeStep, ReviewLoopStep
  <2>2. UNCHANGED <<terminated, cancelled>> /\ g[1] \in Nodes
    BY <2>1, RunsType DEF RunStep
  <2> QED
    BY <2>1, <2>2, AbstractRunStep
<1>3. CASE Spawn
  <2>1. DAG!Start \/ UNCHANGED NodeState
    <3> DEFINE ready == ReadyNodes(status)
    <3>1. /\ status' = [n \in Nodes |-> IF n \in ready THEN "ready" ELSE status[n]]
          /\ UNCHANGED <<terminated, cancelled>>
      BY <1>3 DEF Spawn, envVars
    <3>2. ready \in SUBSET {n \in Nodes : NodeState[n] = "open" /\ DAG!Startable(n)}
      BY <1>1, DepsType
         DEF ReadyNodes, DepsCompleted, NodeState, AbstractStatus, Active, DAG!Startable
    <3>3. NodeState' = [n \in Nodes |-> IF n \in ready THEN "active" ELSE NodeState[n]]
      BY <1>1, <3>1 DEF NodeState, AbstractStatus, Active
    <3>4. CASE ready = {}
      BY <1>1, <3>1, <3>4 DEF NodeState
    <3>5. CASE ready # {}
      BY <3>1, <3>2, <3>3, <3>5 DEF DAG!Start
    <3> QED
      BY <3>4, <3>5
  <2> QED
    BY <1>3, <2>1 DEF Spawn, envVars
<1>4. CASE /\ status' = AllSkipped(status) /\ UNCHANGED <<terminated, cancelled>>
           /\ Stopped
  <2>1. NodeState' = [n \in Nodes |->
            IF NodeState[n] \in {"open", "active"} THEN "skipped" ELSE NodeState[n]]
    BY <1>1, <1>4 DEF AllSkipped, NodeState, AbstractStatus, Active, NodeStatus, TerminalStatus
  <2> QED
    BY <1>4, <2>1 DEF DAG!SkipAll, Stopped
<1>5. CASE RunStart
  <2>1. status' = status /\ UNCHANGED <<terminated, cancelled>>
    BY <1>1, <1>5 DEF RefinementInv, FailureInv, FreshAtStart, RunStart, TerminalStatus, envVars
  <2> QED
    BY <2>1 DEF NodeState
<1>6. CASE UNCHANGED <<status, terminated, cancelled>>
  BY <1>6 DEF NodeState
<1>7. CASE Terminate \/ Cancel
  <2>1. UNCHANGED NodeState
    BY <1>7 DEF Terminate, Cancel, wfVars, NodeState
  <2>2. (Stopped' <=> Stopped) \/ (~Stopped /\ Stopped')
    BY <1>1, <1>7 DEF Terminate, Cancel, Stopped
  <2> QED
    BY <1>1, <1>7, <2>1 DEF DAG!Stop, Terminate, Cancel
<1> QED
  BY <1>1, <1>2, <1>3, <1>4, <1>5, <1>6, <1>7
     DEF Next, Returned, MainLoop, SelectStopped, CheckTerminated, CheckQuota,
         CheckAllTerminal, RequestRetry, Drained, Tick, RunReturn, SubmitRetry, OnlyMain,
         vars, wfVars, envVars, Stopped

\* A run without manual retries and goal rounds is a DAG execution.
THEOREM RunImplementsDAG ==
    ASSUME ~GoalMode, "retry" \notin Controls
    PROVE  Spec => ImplementsDAG
BY AbstractInit, AbstractNext, RefinementInit, RefinementNext, PTL
   DEF Spec, ImplementsDAG, DAG!DAGSpec

=============================================================================

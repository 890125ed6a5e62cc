---------------------- MODULE WorkflowSchedulerProofs ----------------------
(***************************************************************************)
(* Proofs about WorkflowScheduler, for every graph and every value of the  *)
(* parameters.                                                             *)
(***************************************************************************)
EXTENDS WorkflowScheduler, WellFoundedInduction, FiniteSetTheorems, TLAPS

LEMMA NatParameters == MaxQuotaBreaks \in Nat /\ MaxSubmits \in Nat
BY ParametersType

LEMMA AnswersType ==
    /\ ExecFailures \subseteq ExecError
    /\ ReviewResults \subseteq Verdict \cup ReviewError
BY ParametersType

LEMMA RunsType ==
    ASSUME NEW g \in Runs
    PROVE  g[1] \in Nodes
BY DEF Runs

\* RequestRetry only turns its node and skipped nodes into pending ones.
LEMMA RetriedType ==
    ASSUME NEW st \in [Nodes -> NodeStatus], NEW x \in Nodes
    PROVE  /\ Retried(st, x) \in [Nodes -> NodeStatus]
           /\ \A n \in Nodes :
                \/ Retried(st, x)[n] = st[n]
                \/ Retried(st, x)[n] = "pending" /\ (n = x \/ st[n] = "skipped")
<1> DEFINE reset == [st EXCEPT ![x] = "pending"]
<1>1. reset \in [Nodes -> NodeStatus]
  BY DEF NodeStatus
<1>2. Unskipped(reset, x) \subseteq {n \in Nodes : reset[n] = "skipped"}
  BY DEF Unskipped, Skipped
<1>3. Retried(st, x) = [n \in Nodes |->
            IF n \in Unskipped(reset, x) THEN "pending" ELSE reset[n]]
  BY DEF Retried
<1> HIDE DEF reset
<1>4. Retried(st, x) \in [Nodes -> NodeStatus]
  BY <1>1, <1>3 DEF NodeStatus
<1>5. ASSUME NEW n \in Nodes
      PROVE  \/ Retried(st, x)[n] = st[n]
             \/ Retried(st, x)[n] = "pending" /\ (n = x \/ st[n] = "skipped")
  BY <1>2, <1>3 DEF reset
<1> QED
  BY <1>4, <1>5

-----------------------------------------------------------------------------
(* The graph                                                               *)

LEMMA DependentsType ==
    /\ \A n \in Nodes : Dependents[n] = {m \in Nodes : n \in Deps[m]}
    /\ \A n \in Nodes : Deps[n] \subseteq Nodes
BY DepsType DEF Dependents

LEMMA DownstreamDef ==
    ASSUME NEW n \in Nodes
    PROVE  Downstream[n] =
            {m \in Nodes : \A S \in SUBSET Nodes :
                Dependents[n] \subseteq S /\ ClosedDownstream(S) => m \in S}
BY DEF Downstream

\* What depends on x, or on something below x, is below x.
LEMMA DownstreamCloses ==
    ASSUME NEW x \in Nodes, NEW n \in Nodes, NEW d \in Deps[n],
           d = x \/ d \in Downstream[x]
    PROVE  n \in Downstream[x]
<1>1. d \in Nodes /\ n \in Dependents[d]
  BY DependentsType
<1>2. ASSUME NEW S \in SUBSET Nodes, Dependents[x] \subseteq S, ClosedDownstream(S)
      PROVE  n \in S
  <2>1. CASE d = x
    BY <1>1, <1>2, <2>1
  <2>2. CASE d \in Downstream[x]
    <3>1. d \in S
      BY <1>2, <2>2, DownstreamDef
    <3> QED
      BY <1>1, <1>2, <3>1 DEF ClosedDownstream
  <2> QED
    BY <2>1, <2>2
<1> QED
  BY <1>2, DownstreamDef

\* The nodes below x are within every set that holds its dependents and is
\* closed downstream.
LEMMA DownstreamLeast ==
    ASSUME NEW x \in Nodes, NEW S \in SUBSET Nodes,
           Dependents[x] \subseteq S, ClosedDownstream(S)
    PROVE  Downstream[x] \subseteq S
BY DownstreamDef

\* A node is below x because of one of its dependencies.
LEMMA DownstreamCause ==
    ASSUME NEW x \in Nodes, NEW n \in Downstream[x]
    PROVE  \E d \in Deps[n] : d = x \/ d \in Downstream[x]
<1> DEFINE S == {m \in Downstream[x] : \E d \in Deps[m] : d = x \/ d \in Downstream[x]}
<1>1. Downstream[x] \subseteq Nodes
  BY DownstreamDef
<1>2. Dependents[x] \subseteq S
  <2> SUFFICES ASSUME NEW m \in Dependents[x] PROVE m \in S
    OBVIOUS
  <2>1. m \in Nodes /\ x \in Deps[m]
    BY DependentsType
  <2> QED
    BY <2>1, DownstreamCloses
<1>3. ClosedDownstream(S)
  <2> SUFFICES ASSUME NEW k \in S, NEW m \in Dependents[k] PROVE m \in S
    BY DEF ClosedDownstream
  <2>1. k \in Nodes /\ m \in Nodes /\ k \in Deps[m]
    BY <1>1, DependentsType
  <2> QED
    BY <2>1, DownstreamCloses
<1> QED
  BY <1>1, <1>2, <1>3, DownstreamLeast

\* Everything below a dependent of d is below d, and the dependent itself is
\* not below itself.
LEMMA DownstreamShrinks ==
    ASSUME NEW n \in Nodes, NEW d \in Deps[n]
    PROVE  /\ Downstream[n] \subseteq Downstream[d]
           /\ n \in Downstream[d] \ Downstream[n]
<1>1. d \in Nodes /\ Downstream[d] \subseteq Nodes
  BY DependentsType, DownstreamDef
<1>2. n \in Downstream[d]
  BY <1>1, DownstreamCloses
<1>3. Dependents[n] \subseteq Downstream[d]
  BY <1>1, <1>2, DependentsType, DownstreamCloses
<1>4. ClosedDownstream(Downstream[d])
  BY <1>1, DependentsType, DownstreamCloses DEF ClosedDownstream
<1> QED
  BY <1>1, <1>2, <1>3, <1>4, DownstreamLeast, DepsAcyclic

\* No set of nodes is such that each has a dependent in it: the graph has no
\* cycles and is finite.
LEMMA GraphGroundedAbove ==
    ASSUME NEW S \in SUBSET Nodes, S # {}
    PROVE  \E n \in S : Dependents[n] \cap S = {}
<1> DEFINE T == {Downstream[n] : n \in S}
           R == StrictSubsetOrdering(Nodes)
<1>1. T \subseteq FiniteSubsetsOf(Nodes) /\ T # {}
  <2>1. \A n \in S : Downstream[n] \in SUBSET Nodes /\ IsFiniteSet(Downstream[n])
    BY NodesFinite, FS_Subset, DownstreamDef
  <2> QED
    BY <2>1 DEF FiniteSubsetsOf
<1>2. PICK n \in S : \A y \in T : ~ (<<y, Downstream[n]>> \in R)
  <2>1. IsWellFoundedOn(R, FiniteSubsetsOf(Nodes))
    BY FS_StrictSubsetOrderingWellFounded
  <2> HIDE DEF R, T
  <2>2. \E t \in T : \A y \in T : ~ (<<y, t>> \in R)
    BY <1>1, <2>1, WFMin
  <2> QED
    BY <2>2 DEF T
<1>3. ASSUME NEW m \in Dependents[n], m \in S
      PROVE  FALSE
  <2>1. n \in Deps[m] /\ n \in Nodes /\ m \in Nodes
    BY DependentsType
  <2>2. /\ Downstream[m] \subseteq Downstream[n] /\ Downstream[m] # Downstream[n]
        /\ Downstream[n] \subseteq Nodes
    BY <2>1, DownstreamShrinks, DownstreamDef
  <2>3. <<Downstream[m], Downstream[n]>> \in R
    BY <2>2 DEF StrictSubsetOrdering
  <2> QED
    BY <1>2, <1>3, <2>3
<1> QED
  BY <1>3

-----------------------------------------------------------------------------
(* Types                                                                   *)

\* Within one run quotaBreaks grows by one at most, when Run returns.
TypeInv ==
    /\ TypeOK
    /\ main # "returned" => quotaBreaks <= MaxQuotaBreaks

LEMMA TypeInit == Init => TypeInv
<1> SUFFICES ASSUME Init PROVE TypeInv
  OBVIOUS
<1> USE NatParameters DEF Init
<1>1. WorkflowTypeOK
  BY DEF WorkflowTypeOK, NodeStatus, WorkflowStatus
<1>2. ControlTypeOK
  <2>1. retryRequests \in Seq(Nodes) /\ submits \in 0..MaxSubmits /\ main \in MainPc
    BY DEF MainPc
  <2>2. terminated \in BOOLEAN /\ cancelled \in BOOLEAN /\ quotaTripped \in BOOLEAN
    OBVIOUS
  <2> QED
    BY <2>1, <2>2 DEF ControlTypeOK
<1>3. RunTypeOK
  <2>1. pc \in [Runs -> RunPc] /\ tries \in [Runs -> Nat]
    BY DEF RunPc
  <2>2. iter \in [Runs -> Nat] /\ failure \in [Runs -> ExecError \cup {"none"}]
    OBVIOUS
  <2> QED
    BY <2>1, <2>2 DEF RunTypeOK
<1>4. quotaBreaks <= MaxQuotaBreaks
  OBVIOUS
<1> QED
  BY <1>1, <1>2, <1>3, <1>4 DEF TypeInv, TypeOK

LEMMA TypeMain ==
    ASSUME TypeInv, MainLoop \/ SelectStopped
    PROVE  TypeInv'
<1> USE NatParameters DEF TypeInv, TypeOK, OnlyMain, OnlyStatus, wfVars, envVars, runVars
<1>1. status' \in [Nodes -> NodeStatus]
  <2>1. CASE RequestRetry
    <3>1. Head(retryRequests) \in Nodes
      BY <2>1 DEF RequestRetry, ControlTypeOK
    <3> QED
      BY <2>1, <3>1, RetriedType DEF RequestRetry, WorkflowTypeOK
  <2>2. CASE ~RequestRetry
    BY <2>2 DEF MainLoop, SelectStopped, RunStart, CheckTerminated, CheckQuota,
       CheckAllTerminal, Drained, Spawn, Tick, RunReturn, AllSkipped,
       WorkflowTypeOK, NodeStatus
  <2> QED
    BY <2>1, <2>2
<1>2. WorkflowTypeOK' /\ (main' # "returned" => quotaBreaks' <= MaxQuotaBreaks)
  BY <1>1 DEF MainLoop, SelectStopped, RunStart, CheckTerminated, CheckQuota,
     CheckAllTerminal, RequestRetry, Drained, Spawn, Tick, RunReturn, FinalStatus,
     WorkflowTypeOK, WorkflowStatus
<1>3. ControlTypeOK'
  BY DEF MainLoop, SelectStopped, RunStart, CheckTerminated, CheckQuota,
     CheckAllTerminal, RequestRetry, Drained, Spawn, Tick, RunReturn,
     ControlTypeOK, MainPc
<1>4. RunTypeOK'
  BY DEF MainLoop, SelectStopped, RunStart, CheckTerminated, CheckQuota,
     CheckAllTerminal, RequestRetry, Drained, Spawn, Tick, RunReturn,
     RunTypeOK, RunPc
<1> QED
  BY <1>2, <1>3, <1>4

LEMMA TypeControl ==
    ASSUME TypeInv, Terminate \/ Cancel \/ SubmitRetry \/ UNCHANGED vars
    PROVE  TypeInv'
<1> USE NatParameters DEF TypeInv, TypeOK, vars, wfVars, envVars, runVars
<1>1. ControlTypeOK'
  <2>1. CASE SubmitRetry
    <3>1. PICK n \in Nodes :
            retryRequests' = IF Len(retryRequests) < QueueSize
                             THEN Append(retryRequests, n) ELSE retryRequests
      BY <2>1 DEF SubmitRetry
    <3>2. retryRequests' \in Seq(Nodes)
      BY <3>1 DEF ControlTypeOK
    <3>3. submits' \in 0..MaxSubmits
      BY <2>1 DEF SubmitRetry, ControlTypeOK
    <3> QED
      BY <2>1, <3>2, <3>3 DEF SubmitRetry, ControlTypeOK
  <2>2. CASE Terminate \/ Cancel \/ UNCHANGED vars
    BY <2>2 DEF Terminate, Cancel, ControlTypeOK
  <2> QED
    BY <2>1, <2>2
<1>2. WorkflowTypeOK' /\ RunTypeOK' /\ UNCHANGED <<main, quotaBreaks>>
  BY DEF Terminate, Cancel, SubmitRetry, WorkflowTypeOK, RunTypeOK
<1> QED
  BY <1>1, <1>2

LEMMA TypeRunNode ==
    ASSUME TypeInv, NEW g \in Runs, RunNode(g)
    PROVE  TypeInv'
<1> USE RunsType, AnswersType DEF TypeInv, TypeOK, Goto, Exit, Fail, SetStatus
<1>1. WorkflowTypeOK' /\ quotaBreaks' = quotaBreaks
  BY DEF RunNode, Acquire, GiveUp, Begin, TakeFeedback, Try, Executed,
     ExecuteFailed, BackoffEnds, BackoffCancelled, HandleError, TripQuotaBreaker,
     Park, MarkFailed, Cascade, CheckFinish, MarkCompleted, CascadeSkip,
     OnlyStatus, OnlyRun, wfVars, WorkflowTypeOK, NodeStatus
<1>2. ControlTypeOK' /\ main' = main
  BY DEF RunNode, Acquire, GiveUp, Begin, TakeFeedback, Try, Executed,
     ExecuteFailed, BackoffEnds, BackoffCancelled, HandleError, TripQuotaBreaker,
     Park, MarkFailed, Cascade, CheckFinish, MarkCompleted,
     OnlyRun, envVars, ControlTypeOK
<1>3. RunTypeOK'
  <2> USE DEF RunTypeOK, RunPc
  <2>1. CASE Acquire(g) \/ GiveUp(g) \/ Begin(g) \/ TakeFeedback(g)
    BY <2>1 DEF Acquire, GiveUp, Begin, TakeFeedback
  <2>2. CASE Try(g)
    BY <2>2 DEF Try, AttemptFailed, ExecError
  <2>3. CASE Executed(g) \/ BackoffEnds(g) \/ BackoffCancelled(g)
    BY <2>3 DEF Executed, BackoffEnds, BackoffCancelled, ExecError
  <2>4. CASE ExecuteFailed(g)
    BY <2>4 DEF ExecuteFailed, AttemptFailed
  <2>5. CASE HandleError(g) \/ TripQuotaBreaker(g) \/ Park(g) \/ MarkFailed(g)
    BY <2>5 DEF HandleError, TripQuotaBreaker, Park, MarkFailed
  <2>6. CASE Cascade(g) \/ CheckFinish(g) \/ MarkCompleted(g)
    BY <2>6 DEF Cascade, CheckFinish, MarkCompleted
  <2> QED
    BY <2>1, <2>2, <2>3, <2>4, <2>5, <2>6 DEF RunNode
<1> QED
  BY <1>1, <1>2, <1>3

LEMMA TypeReviewLoop ==
    ASSUME TypeInv, NEW g \in Runs, ReviewLoop(g)
    PROVE  TypeInv'
<1> USE RunsType, AnswersType DEF TypeInv, TypeOK, Goto, Exit, Fail, SetStatus
<1>1. WorkflowTypeOK' /\ quotaBreaks' = quotaBreaks
  <2>1. CASE Verdicts(g)
    BY <2>1 DEF Verdicts, Verdict, WorkflowTypeOK
  <2>2. CASE GoalFeedbackReset(g)
    BY <2>2 DEF GoalFeedbackReset, WorkflowTypeOK, NodeStatus
  <2>3. CASE ReviewRound(g) \/ Rework(g)
    BY <2>3 DEF ReviewRound, Rework, OnlyStatus, WorkflowTypeOK, NodeStatus
  <2>4. CASE ~Verdicts(g) /\ ~GoalFeedbackReset(g) /\ ~ReviewRound(g) /\ ~Rework(g)
    BY <2>4 DEF ReviewLoop, ReviewTry, ReviewFailed, ReviewWaitEnds,
       ReviewWaitCancelled, Reexecuted, ReexecuteFailed, CheckGoal,
       OnlyRun, wfVars, WorkflowTypeOK
  <2> QED
    BY <2>1, <2>2, <2>3, <2>4
<1>2. ControlTypeOK' /\ main' = main
  BY DEF ReviewLoop, ReviewRound, ReviewTry, ReviewFailed, ReviewWaitEnds,
     ReviewWaitCancelled, Verdicts, Rework, Reexecuted, ReexecuteFailed, CheckGoal,
     GoalFeedbackReset, OnlyRun, envVars, ControlTypeOK
<1>3. RunTypeOK'
  <2> USE DEF RunTypeOK, RunPc
  <2>1. CASE ReviewRound(g) \/ ReviewTry(g) \/ ReviewWaitEnds(g) \/ Rework(g)
    BY <2>1 DEF ReviewRound, ReviewTry, ReviewWaitEnds, Rework
  <2>2. CASE ReviewFailed(g) \/ ReviewWaitCancelled(g)
    BY <2>2 DEF ReviewFailed, ReviewWaitCancelled, ExecError
  <2>3. CASE Verdicts(g)
    BY <2>3 DEF Verdicts, ExecError
  <2>4. CASE Reexecuted(g) \/ ReexecuteFailed(g)
    BY <2>4 DEF Reexecuted, ReexecuteFailed, ExecError
  <2>5. CASE CheckGoal(g) \/ GoalFeedbackReset(g)
    BY <2>5 DEF CheckGoal, GoalFeedbackReset, ExecError
  <2> QED
    BY <2>1, <2>2, <2>3, <2>4, <2>5 DEF ReviewLoop
<1> QED
  BY <1>1, <1>2, <1>3

LEMMA TypeNext == TypeInv /\ [Next]_vars => TypeInv'
BY TypeMain, TypeControl, TypeRunNode, TypeReviewLoop DEF Next, Returned

\* The variables always have their types: in particular the workflow's quota
\* breaks never run more than one past their limit (applyQuotaBreak).
THEOREM TypeCorrect == Spec => []TypeOK
<1>1. TypeInv => TypeOK
  BY DEF TypeInv
<1> QED
  BY <1>1, TypeInit, TypeNext, PTL DEF Spec

-----------------------------------------------------------------------------
(* Who works on what                                                       *)

\* The inductive invariant.
IInv ==
    /\ TypeInv
    /\ ExecutionInv
    /\ ~GoalMode => \A g \in Runs : pc[g] # "goalReset"

\* What a step of goroutine g, which goes to p, does to the status of its
\* node: it goes on; it gives up after a stop; it says its last word; or, its
\* node having failed, it skips what is below.
GoesOn(g, p) ==
    /\ Busy(g) /\ p \notin {"idle", "cascade"}
    /\ UNCHANGED status \/ SetStatus(g, "running") \/ SetStatus(g, "reviewing")

GivesUp(g, p) ==
    /\ Busy(g) /\ p = "idle"
    /\ terminated \/ cancelled
    /\ UNCHANGED status

Ends(g, p) ==
    /\ Busy(g)
    /\ \/ p = "idle" /\ (SetStatus(g, "pending") \/ SetStatus(g, "completed"))
       \/ p = "cascade" /\ SetStatus(g, "failed")

SkipsBelow(g, p) ==
    /\ pc[g] = "cascade" /\ p = "idle"
    /\ status' = CascadeSkip(status, g[1])

RunStep(g, p) ==
    /\ pc' = [pc EXCEPT ![g] = p]
    /\ UNCHANGED <<main, terminated, cancelled>>
    /\ GoesOn(g, p) \/ GivesUp(g, p) \/ Ends(g, p) \/ SkipsBelow(g, p)

LEMMA RunNodeStep ==
    ASSUME TypeInv, NEW g \in Runs, RunNode(g)
    PROVE  \E p \in RunPc : RunStep(g, p)
<1> USE DEF RunPc, RunStep, GoesOn, GivesUp, Ends, SkipsBelow, Busy, Goto, Exit, Fail,
            OnlyRun, OnlyStatus, wfVars, envVars
<1>1. CASE Acquire(g) \/ GiveUp(g) \/ Begin(g) \/ TakeFeedback(g)
  BY <1>1 DEF Acquire, GiveUp, Begin, TakeFeedback
<1>2. CASE Try(g) \/ Executed(g) \/ ExecuteFailed(g)
  BY <1>2 DEF Try, AttemptFailed, Executed, ExecuteFailed
<1>3. CASE BackoffEnds(g) \/ BackoffCancelled(g)
  BY <1>3 DEF BackoffEnds, BackoffCancelled
<1>4. CASE HandleError(g) \/ TripQuotaBreaker(g) \/ Park(g)
  BY <1>4 DEF HandleError, TripQuotaBreaker, Park
<1>5. CASE MarkFailed(g) \/ Cascade(g)
  BY <1>5 DEF MarkFailed, Cascade
<1>6. CASE CheckFinish(g) \/ MarkCompleted(g)
  BY <1>6 DEF CheckFinish, MarkCompleted
<1> QED
  BY <1>1, <1>2, <1>3, <1>4, <1>5, <1>6 DEF RunNode

LEMMA ReviewLoopStep ==
    ASSUME TypeInv, NEW g \in Runs, ReviewLoop(g), pc[g] # "goalReset"
    PROVE  \E p \in RunPc : RunStep(g, p)
<1> USE DEF RunPc, RunStep, GoesOn, GivesUp, Ends, SkipsBelow, Busy, Goto, Exit, Fail,
            OnlyRun, OnlyStatus, wfVars, envVars
<1>1. CASE ReviewRound(g) \/ ReviewTry(g) \/ ReviewWaitEnds(g) \/ ReviewWaitCancelled(g)
  BY <1>1 DEF ReviewRound, ReviewTry, ReviewWaitEnds, ReviewWaitCancelled
<1>2. CASE ReviewFailed(g)
  BY <1>2 DEF ReviewFailed
<1>3. CASE Verdicts(g)
  BY <1>3 DEF Verdicts
<1>4. CASE Rework(g) \/ Reexecuted(g) \/ ReexecuteFailed(g)
  BY <1>4 DEF Rework, Reexecuted, ReexecuteFailed
<1>5. CASE CheckGoal(g) \/ GoalFeedbackReset(g)
  BY <1>5 DEF CheckGoal, GoalFeedbackReset
<1> QED
  BY <1>1, <1>2, <1>3, <1>4, <1>5 DEF ReviewLoop

LEMMA RequestRetryStep ==
    ASSUME TypeInv, RequestRetry
    PROVE  \A n \in Nodes :
            \/ status'[n] = status[n]
            \/ status'[n] = "pending" /\ status[n] \in {"failed", "skipped"}
<1>1. status \in [Nodes -> NodeStatus] /\ Head(retryRequests) \in Nodes
  BY DEF RequestRetry, TypeInv, TypeOK, WorkflowTypeOK, ControlTypeOK
<1> QED
  BY <1>1, RetriedType DEF RequestRetry

\* A step of a goroutine preserves the invariant.
LEMMA RunStepExecution ==
    ASSUME TypeInv, ExecutionInv, NEW g \in Runs, NEW p \in RunPc, RunStep(g, p)
    PROVE  ExecutionInv'
<1>1. /\ pc' = [pc EXCEPT ![g] = p]
      /\ g[1] \in Nodes
      /\ pc \in [Runs -> RunPc] /\ status \in [Nodes -> NodeStatus]
      /\ UNCHANGED <<main, terminated, cancelled>>
  BY RunsType DEF RunStep, TypeInv, TypeOK, WorkflowTypeOK, RunTypeOK
<1>2. \A n \in Nodes : n # g[1] =>
        \/ status'[n] = status[n]
        \/ status[n] = "pending" /\ status'[n] = "skipped"
  <2>1. CASE SkipsBelow(g, p)
    BY <1>1, <2>1 DEF SkipsBelow, CascadeSkip
  <2>2. CASE GoesOn(g, p) \/ GivesUp(g, p) \/ Ends(g, p)
    BY <1>1, <2>2 DEF GoesOn, GivesUp, Ends, SetStatus
  <2> QED
    BY <2>1, <2>2 DEF RunStep
<1>3. Busy(g) => /\ DepsCompleted(status, g[1])
                 /\ status[g[1]] # "completed"
  BY DEF ExecutionInv, BusyOnCompleted, BusyInProgress, Active
<1>4. \A n \in Nodes : status[n] = "completed" => status'[n] = "completed"
  BY <1>1, <1>2, <1>3
     DEF RunStep, GoesOn, GivesUp, Ends, SkipsBelow, CascadeSkip
<1>5. \A n \in Nodes : DepsCompleted(status, n) => DepsCompleted(status, n)'
  BY <1>4, DepsType DEF DepsCompleted
<1>6. Busy(g)' => Busy(g) /\ GoesOn(g, p)
  BY <1>1 DEF RunStep, GoesOn, GivesUp, Ends, SkipsBelow, Busy
<1>7. \A h \in Runs : h # g => (Busy(h)' <=> Busy(h))
  BY <1>1 DEF Busy
<1>8. \A h \in Runs : Busy(h)' => Busy(h)
  BY <1>6, <1>7
<1>9. BusyOnCompleted'
  BY <1>5, <1>8, RunsType DEF ExecutionInv, BusyOnCompleted
<1>10. OneBusy'
  BY <1>8 DEF ExecutionInv, OneBusy, Runs
<1>11. IdleAtEnds'
  BY <1>1 DEF ExecutionInv, IdleAtEnds, RunStep, GoesOn, GivesUp, Ends, SkipsBelow, Busy
<1>12. ASSUME NEW h \in Runs, h # g, h[1] = g[1], Busy(h)
       PROVE  ~Busy(g)
  <2>1. PICK n \in Nodes, j \in Slots, k \in Slots : g = <<n, j>> /\ h = <<n, k>>
    BY <1>12 DEF Runs
  <2> QED
    BY <1>12, <2>1 DEF ExecutionInv, OneBusy
<1>13. BusyInProgress'
  <2> DEFINE InProgress(s) ==
        s \in Active \/ (s = "skipped" /\ main = "wait" /\ (terminated \/ cancelled))
  <2> SUFFICES ASSUME NEW h \in Runs, Busy(h)'
               PROVE  InProgress(status'[h[1]])
    BY <1>1 DEF BusyInProgress
  <2>1. Busy(h) /\ InProgress(status[h[1]])
    BY <1>8 DEF ExecutionInv, BusyInProgress
  <2>2. CASE h = g
    BY <1>1, <1>6, <2>1, <2>2 DEF GoesOn, SetStatus, Active
  <2>3. CASE h # g /\ h[1] = g[1]
    BY <1>1, <1>12, <2>1, <2>3 DEF RunStep, GoesOn, GivesUp, Ends, SkipsBelow, CascadeSkip, Active
  <2>4. CASE h[1] # g[1]
    BY <1>1, <1>2, <2>1, <2>4, RunsType DEF Active
  <2> QED
    BY <2>2, <2>3, <2>4
<1>14. ActiveIsBusy'
  <2> SUFFICES ASSUME main \notin {"start", "returned"}, ~terminated, ~cancelled,
                      NEW n \in Nodes, status'[n] \in Active
               PROVE  \E k \in Slots : Busy(<<n, k>>)'
    BY <1>1 DEF ActiveIsBusy
  <2>1. CASE n # g[1]
    <3>1. status[n] \in Active
      BY <1>2, <2>1 DEF Active
    <3>2. PICK k \in Slots : Busy(<<n, k>>)
      BY <3>1 DEF ExecutionInv, ActiveIsBusy
    <3> QED
      BY <1>1, <2>1, <3>2 DEF Runs, Busy
  <2>2. CASE n = g[1]
    <3>1. PICK k \in Slots : g = <<n, k>>
      BY <2>2 DEF Runs
    <3>2. CASE GoesOn(g, p)
      BY <1>1, <3>1, <3>2 DEF GoesOn, Busy
    <3>3. CASE SkipsBelow(g, p)
      <4>1. status[n] \in Active
        BY <3>3 DEF SkipsBelow, CascadeSkip, Active
      <4>2. PICK j \in Slots : Busy(<<n, j>>)
        BY <4>1 DEF ExecutionInv, ActiveIsBusy
      <4> QED
        BY <1>7, <3>1, <3>3, <4>2 DEF SkipsBelow, Busy, Runs
    <3>4. CASE GivesUp(g, p) \/ Ends(g, p)
      BY <1>1, <2>2, <3>4 DEF GivesUp, Ends, SetStatus, Active
    <3> QED
      BY <3>2, <3>3, <3>4 DEF RunStep
  <2> QED
    BY <2>1, <2>2
<1>15. WorkOnKept'
  <2> SUFFICES ASSUME NEW n \in Nodes, status'[n] \in Active \cup {"completed"},
                      NEW d \in Deps[n]
               PROVE  d \in Redone \/ status'[d] = "completed"
    BY DEF WorkOnKept
  <2>0. d \in Nodes
    BY DepsType
  <2>1. CASE n # g[1] \/ ~Busy(g)
    <3>1. status[n] \in Active \cup {"completed"}
      BY <1>1, <1>2, <2>1
         DEF RunStep, GoesOn, GivesUp, Ends, SkipsBelow, CascadeSkip, Active
    <3> QED
      BY <1>4, <2>0, <3>1 DEF ExecutionInv, WorkOnKept
  <2>2. CASE n = g[1] /\ Busy(g)
    BY <1>3, <1>4, <2>0, <2>2 DEF DepsCompleted
  <2> QED
    BY <2>1, <2>2
<1> QED
  BY <1>9, <1>10, <1>11, <1>13, <1>14, <1>15 DEF ExecutionInv

\* So does a step of the main loop.
LEMMA MainExecution ==
    ASSUME TypeInv, ExecutionInv, MainLoop \/ SelectStopped
    PROVE  ExecutionInv'
<1> USE DEF OnlyMain, OnlyStatus, wfVars, envVars, runVars
<1>1. /\ status \in [Nodes -> NodeStatus]
      /\ pc \in [Runs -> RunPc]
      /\ retryRequests \in Seq(Nodes)
  BY DEF TypeInv, TypeOK, WorkflowTypeOK, ControlTypeOK, RunTypeOK
<1>2. CASE RunStart
  <2>1. \A g \in Runs : ~Busy(g)'
    BY <1>2 DEF RunStart, ExecutionInv, IdleAtEnds, Busy
  <2>2. \A n \in Nodes : status'[n] \notin Active
    BY <1>1, <1>2 DEF RunStart, NodeStatus, TerminalStatus, Active
  <2>3. \A n \in Nodes : status'[n] = "completed" <=> status[n] = "completed"
    BY <1>1, <1>2 DEF RunStart, NodeStatus, TerminalStatus
  <2>4. WorkOnKept'
    BY <2>2, <2>3, DepsType DEF ExecutionInv, WorkOnKept
  <2>5. main' = "terminated?"
    BY <1>2 DEF RunStart
  <2> QED
    BY <2>1, <2>2, <2>4, <2>5, RunsType DEF ExecutionInv, BusyOnCompleted, BusyInProgress,
       OneBusy, IdleAtEnds, ActiveIsBusy, Runs
<1>3. CASE /\ status' = AllSkipped(status) /\ main' = "wait" /\ pc' = pc
           /\ UNCHANGED <<terminated, cancelled>>
           /\ terminated \/ cancelled
  <2>1. \A n \in Nodes :
            /\ status'[n] = "completed" <=> status[n] = "completed"
            /\ status'[n] \notin Active
            /\ status[n] \in Active \cup {"skipped"} => status'[n] = "skipped"
    BY <1>1, <1>3 DEF AllSkipped, NodeStatus, TerminalStatus, Active
  <2>2. \A g \in Runs : Busy(g)' <=> Busy(g)
    BY <1>3 DEF Busy
  <2>3. \A n \in Nodes : DepsCompleted(status, n)' <=> DepsCompleted(status, n)
    BY <2>1, DepsType DEF DepsCompleted
  <2>4. BusyOnCompleted' /\ BusyInProgress'
    BY <1>3, <2>1, <2>2, <2>3, RunsType
       DEF ExecutionInv, BusyOnCompleted, BusyInProgress
  <2>5. OneBusy'
    BY <2>2 DEF ExecutionInv, OneBusy, Runs
  <2>6. WorkOnKept'
    BY <2>1, DepsType DEF ExecutionInv, WorkOnKept
  <2> QED
    BY <1>3, <2>4, <2>5, <2>6 DEF ExecutionInv, IdleAtEnds, ActiveIsBusy
<1>4. CASE /\ status' = status /\ pc' = pc
           /\ UNCHANGED <<terminated, cancelled>>
           /\ main \notin {"start", "returned"}
           /\ main = "wait" => /\ main' = "returned"
                               /\ \A g \in Runs : pc[g] = "idle"
           /\ main' \notin {"start", "returned"} \/ main = "wait"
  <2>1. \A g \in Runs : Busy(g)' <=> Busy(g)
    BY <1>4 DEF Busy
  <2>2. BusyOnCompleted' /\ WorkOnKept'
    BY <1>4, <2>1 DEF ExecutionInv, BusyOnCompleted, WorkOnKept, DepsCompleted
  <2>3. BusyInProgress'
    BY <1>4, <2>1 DEF ExecutionInv, BusyInProgress, Busy
  <2>4. OneBusy' /\ ActiveIsBusy'
    BY <1>4, <2>1 DEF ExecutionInv, OneBusy, ActiveIsBusy, Runs
  <2>5. IdleAtEnds'
    BY <1>4 DEF IdleAtEnds
  <2> QED
    BY <2>2, <2>3, <2>4, <2>5 DEF ExecutionInv
<1>5. CASE RequestRetry
  <2>1. /\ main = "drain" /\ pc' = pc
        /\ UNCHANGED <<main, terminated, cancelled>>
    BY <1>5 DEF RequestRetry
  <2>2. \A n \in Nodes :
            \/ status'[n] = status[n]
            \/ status'[n] = "pending" /\ status[n] \in {"failed", "skipped"}
    BY <1>5, RequestRetryStep
  <2>3. \A n \in Nodes :
            /\ status'[n] = "completed" <=> status[n] = "completed"
            /\ status'[n] \in Active <=> status[n] \in Active
    BY <2>2 DEF Active
  <2>4. \A n \in Nodes : DepsCompleted(status, n)' <=> DepsCompleted(status, n)
    BY <2>3, DepsType DEF DepsCompleted
  <2>5. \A g \in Runs : Busy(g)' <=> Busy(g)
    BY <2>1 DEF Busy
  <2>6. BusyOnCompleted' /\ BusyInProgress'
    BY <2>1, <2>3, <2>4, <2>5, RunsType DEF ExecutionInv, BusyOnCompleted, BusyInProgress
  <2>7. OneBusy' /\ ActiveIsBusy'
    BY <2>1, <2>3, <2>5 DEF ExecutionInv, OneBusy, ActiveIsBusy, Runs
  <2>8. IdleAtEnds' /\ WorkOnKept'
    BY <2>1, <2>3, DepsType DEF ExecutionInv, IdleAtEnds, WorkOnKept
  <2> QED
    BY <2>6, <2>7, <2>8 DEF ExecutionInv
<1>6. CASE Spawn
  <2> DEFINE ready == ReadyNodes(status)
             slot(n) == CHOOSE k \in FreeSlots(n) : TRUE
             new == {<<n, slot(n)>> : n \in ready}
  <2>1. /\ main = "ready" /\ main' = "select"
        /\ UNCHANGED <<terminated, cancelled>>
        /\ status' = [n \in Nodes |-> IF n \in ready THEN "ready" ELSE status[n]]
        /\ pc' = [g \in Runs |-> IF g \in new THEN "acquire" ELSE pc[g]]
    BY <1>6 DEF Spawn
  <2>2. \A n \in ready : slot(n) \in Slots
    BY <1>6 DEF Spawn, FreeSlots
  <2>3. \A n \in ready : n \in Nodes /\ status[n] = "pending" /\ DepsCompleted(status, n)
    BY DEF ReadyNodes
  <2>4. \A g \in Runs : g[1] \in ready => ~Busy(g)
    BY <2>1, <2>3 DEF ExecutionInv, BusyInProgress, Active
  <2> HIDE DEF ready, slot
  <2>5. \A g \in Runs : Busy(g)' <=> Busy(g) \/ g \in new
    BY <2>1 DEF Busy
  <2>6. \A g \in Runs : g \in new <=> g[1] \in ready /\ g = <<g[1], slot(g[1])>>
    BY <2>2, <2>3 DEF Runs
  <2>7. \A n \in Nodes :
            /\ status'[n] = "completed" <=> status[n] = "completed"
            /\ n \in ready => status'[n] = "ready"
            /\ n \notin ready => status'[n] = status[n]
    BY <2>1, <2>3
  <2>8. \A n \in Nodes : DepsCompleted(status, n)' <=> DepsCompleted(status, n)
    BY <2>7, DepsType DEF DepsCompleted
  <2> HIDE DEF new
  <2>9. BusyOnCompleted'
    BY <2>3, <2>5, <2>6, <2>8, RunsType DEF ExecutionInv, BusyOnCompleted
  <2>10. BusyInProgress'
    BY <2>1, <2>4, <2>5, <2>6, <2>7, RunsType DEF ExecutionInv, BusyInProgress, Active
  <2>11. OneBusy'
    BY <2>4, <2>5, <2>6 DEF ExecutionInv, OneBusy, Runs
  <2>12. IdleAtEnds'
    BY <2>1 DEF IdleAtEnds
  <2>13. WorkOnKept'
    <3> SUFFICES ASSUME NEW n \in Nodes, status'[n] \in Active \cup {"completed"},
                        NEW d \in Deps[n]
                 PROVE  d \in Redone \/ status'[d] = "completed"
      BY DEF WorkOnKept
    <3>1. d \in Nodes
      BY DepsType
    <3>2. CASE n \in ready
      BY <2>3, <2>7, <3>1, <3>2 DEF DepsCompleted
    <3>3. CASE n \notin ready
      BY <2>7, <3>1, <3>3 DEF ExecutionInv, WorkOnKept
    <3> QED
      BY <3>2, <3>3
  <2>14. ActiveIsBusy'
    <3> SUFFICES ASSUME ~terminated, ~cancelled, NEW n \in Nodes, status'[n] \in Active
                 PROVE  \E k \in Slots : Busy(<<n, k>>)'
      BY <2>1 DEF ActiveIsBusy
    <3>1. CASE n \in ready
      <4>1. <<n, slot(n)>> \in Runs /\ <<n, slot(n)>> \in new
        BY <2>2, <3>1 DEF Runs, new
      <4> QED
        BY <2>1, <2>2, <3>1, <4>1 DEF Busy
    <3>2. CASE n \notin ready
      <4>1. PICK k \in Slots : Busy(<<n, k>>)
        BY <2>1, <2>7, <3>2 DEF ExecutionInv, ActiveIsBusy
      <4> QED
        BY <2>1, <4>1 DEF Busy, Runs
    <3> QED
      BY <3>1, <3>2
  <2> QED
    BY <2>9, <2>10, <2>11, <2>12, <2>13, <2>14 DEF ExecutionInv
<1> QED
  BY <1>2, <1>3, <1>4, <1>5, <1>6
     DEF MainLoop, SelectStopped, CheckTerminated, CheckQuota, CheckAllTerminal,
         Drained, Tick, RunReturn

LEMMA ControlExecution ==
    ASSUME ExecutionInv, Terminate \/ Cancel \/ SubmitRetry \/ UNCHANGED vars
    PROVE  ExecutionInv'
<1>1. /\ UNCHANGED <<status, pc, main>>
      /\ terminated => terminated'
      /\ cancelled => cancelled'
  BY DEF Terminate, Cancel, SubmitRetry, vars, wfVars, envVars, runVars
<1>2. \A g \in Runs : Busy(g)' <=> Busy(g)
  BY <1>1 DEF Busy
<1>3. \A n \in Nodes : DepsCompleted(status, n)' <=> DepsCompleted(status, n)
  BY <1>1 DEF DepsCompleted
<1>4. BusyOnCompleted' /\ BusyInProgress' /\ WorkOnKept'
  BY <1>1, <1>2, <1>3, RunsType
     DEF ExecutionInv, BusyOnCompleted, BusyInProgress, WorkOnKept
<1>5. OneBusy' /\ IdleAtEnds'
  BY <1>1, <1>2 DEF ExecutionInv, OneBusy, IdleAtEnds, Runs
<1>6. ActiveIsBusy'
  BY <1>1, <1>2 DEF ExecutionInv, ActiveIsBusy, Runs
<1> QED
  BY <1>4, <1>5, <1>6 DEF ExecutionInv

LEMMA ExecutionInit == Init => IInv
<1> SUFFICES ASSUME Init PROVE IInv
  OBVIOUS
<1>1. \A g \in Runs : pc[g] = "idle" /\ ~Busy(g)
  BY DEF Init, Busy
<1>2. \A n \in Nodes : status[n] \notin Active \cup {"completed"}
  BY DEF Init, Active
<1>3. ExecutionInv
  BY <1>1, <1>2 DEF Init, ExecutionInv, BusyOnCompleted, BusyInProgress, OneBusy, IdleAtEnds,
     ActiveIsBusy, WorkOnKept, Runs
<1> QED
  BY <1>1, <1>3, TypeInit DEF IInv

\* When a goroutine is busy with the final node every other node is completed:
\* none was set back since they completed but what the final node stands on.
LEMMA FinalIsLast ==
    ASSUME TypeInv, ExecutionInv, NEW g \in Runs, Busy(g), Final(g[1]),
           NEW m \in Nodes, m # g[1]
    PROVE  status[m] = "completed"
<1> DEFINE S == {n \in Nodes \ {g[1]} : status[n] # "completed"}
<1>1. g[1] \in Nodes /\ DepsCompleted(status, g[1])
  BY RunsType DEF ExecutionInv, BusyOnCompleted
<1>2. ASSUME NEW n \in S
      PROVE  Dependents[n] \cap S # {}
  <2>1. PICK k \in Dependents[n] : TRUE
    BY <1>2 DEF Final
  <2>2. k \in Nodes /\ n \in Deps[k]
    BY <1>2, <2>1, DependentsType
  <2>3. n \notin Deps[g[1]]
    BY <1>1, <1>2 DEF DepsCompleted
  <2>4. n \notin Redone
    BY <1>1, <2>3 DEF Redone, Final
  <2>5. status[k] # "completed"
    BY <1>2, <2>2, <2>4 DEF ExecutionInv, WorkOnKept
  <2> QED
    BY <2>1, <2>2, <2>3, <2>5
<1>3. S \in SUBSET Nodes
  OBVIOUS
<1>4. S = {}
  <2> HIDE DEF S
  <2> QED
    BY <1>2, <1>3, GraphGroundedAbove
<1> QED
  BY <1>4

\* A round of the goal loop is the end of the work of one goroutine, as the
\* parking of its node is, or is decided when nobody else is busy and all but
\* the final node is completed.
LastRound(g) ==
    /\ Busy(g) /\ Final(g[1])
    /\ pc' = [pc EXCEPT ![g] = "idle"]
    /\ UNCHANGED <<main, terminated, cancelled>>
    /\ \A m \in Nodes : m # g[1] => status[m] = "completed"
    /\ \A h \in Runs : h # g => ~Busy(h)
    /\ status' \in [Nodes -> {"pending", "completed"}]
    /\ \A m \in Nodes : status'[m] = "pending" => m = g[1] \/ m \in Redone
    /\ status'[g[1]] = "pending"

LEMMA GoalResetStep ==
    ASSUME Wired, IInv, NEW g \in Runs, GoalFeedbackReset(g)
    PROVE  RunStep(g, "idle") \/ LastRound(g)
<1>1. /\ TypeInv /\ ExecutionInv
      /\ pc[g] = "goalReset" /\ Busy(g) /\ GoalMode /\ g[1] \in Nodes
      /\ Feedback[g[1]] \in SUBSET Nodes
      /\ status \in [Nodes -> NodeStatus]
  BY RunsType, ParametersType
     DEF IInv, GoalFeedbackReset, Busy, TypeInv, TypeOK, WorkflowTypeOK
<1>2. /\ pc' = [pc EXCEPT ![g] = "idle"]
      /\ UNCHANGED <<main, terminated, cancelled>>
      /\ status' = [n \in Nodes |->
            IF n = g[1] \/ n \in Feedback[g[1]] THEN "pending" ELSE status[n]]
  BY DEF GoalFeedbackReset, Exit, Goto, envVars
<1>3. CASE Feedback[g[1]] \subseteq {g[1]}
  <2>1. SetStatus(g, "pending")
    BY <1>1, <1>2, <1>3 DEF SetStatus
  <2> QED
    BY <1>1, <1>2, <2>1 DEF RunStep, Ends
<1>4. CASE Final(g[1]) /\ Feedback[g[1]] \subseteq Deps[g[1]]
  <2>1. \A m \in Nodes : m # g[1] => status[m] = "completed"
    BY <1>1, <1>4, FinalIsLast
  <2>2. ASSUME NEW h \in Runs, h # g, Busy(h)
        PROVE  FALSE
    <3>1. h[1] = g[1]
      BY <1>1, <2>1, <2>2, RunsType DEF ExecutionInv, BusyInProgress, Active
    <3>2. PICK n \in Nodes, j \in Slots, k \in Slots : g = <<n, j>> /\ h = <<n, k>>
      BY <3>1 DEF Runs
    <3> QED
      BY <1>1, <2>2, <3>2 DEF ExecutionInv, OneBusy
  <2>3. Feedback[g[1]] \subseteq Redone
    BY <1>1, <1>4 DEF Redone
  <2>4. status' \in [Nodes -> {"pending", "completed"}]
    BY <1>1, <1>2, <2>1
  <2>5. /\ \A m \in Nodes : status'[m] = "pending" => m = g[1] \/ m \in Redone
        /\ status'[g[1]] = "pending"
    BY <1>1, <1>2, <2>1, <2>3
  <2> QED
    BY <1>1, <1>2, <1>4, <2>1, <2>2, <2>4, <2>5 DEF LastRound
<1> QED
  BY <1>1, <1>3, <1>4 DEF Wired, WiredFeedback

LEMMA LastRoundExecution ==
    ASSUME TypeInv, ExecutionInv, NEW g \in Runs, LastRound(g)
    PROVE  ExecutionInv'
<1>1. pc \in [Runs -> RunPc] /\ g[1] \in Nodes
  BY RunsType DEF TypeInv, TypeOK, RunTypeOK
<1>2. \A h \in Runs : ~Busy(h)'
  BY <1>1 DEF LastRound, Busy
<1>3. \A n \in Nodes : status'[n] \notin Active
  BY DEF LastRound, Active
<1>4. BusyOnCompleted' /\ BusyInProgress' /\ OneBusy' /\ ActiveIsBusy'
  BY <1>2, <1>3 DEF BusyOnCompleted, BusyInProgress, OneBusy, ActiveIsBusy, Runs
<1>5. IdleAtEnds'
  <2>1. main \notin {"start", "returned"}
    BY DEF LastRound, ExecutionInv, IdleAtEnds, Busy
  <2> QED
    BY <2>1 DEF IdleAtEnds, LastRound
<1>6. WorkOnKept'
  <2> SUFFICES ASSUME NEW n \in Nodes, NEW d \in Deps[n]
               PROVE  d \in Redone \/ status'[d] = "completed"
    BY DEF WorkOnKept
  <2>1. d \in Nodes /\ n \in Dependents[d]
    BY DependentsType
  <2>2. Dependents[g[1]] = {}
    BY DEF LastRound, Final
  <2>3. d # g[1]
    BY <2>1, <2>2
  <2>4. status'[d] \in {"pending", "completed"}
    BY <2>1 DEF LastRound
  <2> QED
    BY <2>1, <2>3, <2>4 DEF LastRound
<1> QED
  BY <1>4, <1>5, <1>6 DEF ExecutionInv

\* Goal mode being off, no goroutine ever gets to a goal reset.
LEMMA NoGoalReset ==
    ASSUME ~GoalMode, TypeInv, \A g \in Runs : pc[g] # "goalReset", [Next]_vars
    PROVE  \A g \in Runs : pc'[g] # "goalReset"
<1>1. pc \in [Runs -> RunPc]
  BY DEF TypeInv, TypeOK, RunTypeOK
<1>2. CASE MainLoop \/ SelectStopped
  BY <1>1, <1>2 DEF MainLoop, RunStart, CheckTerminated, CheckQuota, CheckAllTerminal, RequestRetry,
     Drained, Spawn, Tick, RunReturn, SelectStopped, OnlyMain, runVars
<1>3. ASSUME NEW g \in Runs, RunNode(g) \/ ReviewLoop(g)
      PROVE  \A h \in Runs : pc'[h] # "goalReset"
  <2> USE <1>1 DEF Goto, Exit, Fail
  <2>1. CASE RunNode(g)
    BY <2>1
       DEF RunNode, Acquire, GiveUp, Begin, TakeFeedback, Try, AttemptFailed, Executed,
           ExecuteFailed, BackoffEnds, BackoffCancelled, HandleError, TripQuotaBreaker,
           Park, MarkFailed, Cascade, CheckFinish, MarkCompleted
  <2>2. CASE Verdicts(g)
    BY <2>2 DEF Verdicts
  <2>3. CASE CheckGoal(g)
    BY <2>3 DEF CheckGoal
  <2>4. CASE ReviewLoop(g) /\ ~Verdicts(g) /\ ~CheckGoal(g)
    BY <2>4
       DEF ReviewLoop, ReviewRound, ReviewTry, ReviewFailed, ReviewWaitEnds,
           ReviewWaitCancelled, Rework, Reexecuted, ReexecuteFailed, GoalFeedbackReset
  <2> QED
    BY <1>3, <2>1, <2>2, <2>3, <2>4
<1>4. CASE Terminate \/ Cancel \/ SubmitRetry \/ UNCHANGED vars
  BY <1>4 DEF Terminate, Cancel, SubmitRetry, vars, runVars
<1> QED
  BY <1>2, <1>3, <1>4 DEF Next, Returned

\* Every step of a goroutine is one of the kinds above.
LEMMA GoroutineStep ==
    ASSUME Wired, IInv, NEW g \in Runs, RunNode(g) \/ ReviewLoop(g)
    PROVE  (\E p \in RunPc : RunStep(g, p)) \/ LastRound(g)
<1>1. TypeInv
  BY DEF IInv
<1>2. CASE RunNode(g)
  BY <1>1, <1>2, RunNodeStep
<1>3. CASE ReviewLoop(g) /\ pc[g] # "goalReset"
  BY <1>1, <1>3, ReviewLoopStep
<1>4. CASE ReviewLoop(g) /\ pc[g] = "goalReset"
  <2>1. GoalFeedbackReset(g)
    BY <1>4 DEF ReviewLoop, ReviewRound, ReviewTry, ReviewFailed, ReviewWaitEnds,
       ReviewWaitCancelled, Verdicts, Rework, Reexecuted, ReexecuteFailed, CheckGoal
  <2>2. "idle" \in RunPc
    BY DEF RunPc
  <2> QED
    BY <2>1, <2>2, GoalResetStep
<1> QED
  BY <1>2, <1>3, <1>4

LEMMA ExecutionNext ==
    ASSUME Wired
    PROVE  IInv /\ [Next]_vars => IInv'
<1> SUFFICES ASSUME IInv, [Next]_vars PROVE IInv'
  OBVIOUS
<1>1. TypeInv /\ ExecutionInv
  BY DEF IInv
<1>2. ASSUME NEW g \in Runs, RunNode(g) \/ ReviewLoop(g)
      PROVE  ExecutionInv'
  BY <1>1, <1>2, GoroutineStep, RunStepExecution, LastRoundExecution
<1>3. ExecutionInv'
  BY <1>1, <1>2, MainExecution, ControlExecution DEF Next, Returned
<1>4. ~GoalMode => \A g \in Runs : pc'[g] # "goalReset"
  BY <1>1, NoGoalReset DEF IInv
<1> QED
  BY <1>1, <1>3, <1>4, TypeNext DEF IInv

LEMMA NotInGoalMode ==
    ASSUME ~GoalMode
    PROVE  Wired /\ (ExecutionInv => WorkOnCompleted)
<1>1. Redone = {}
  BY DEF Redone
<1> QED
  BY <1>1 DEF Wired, ExecutionInv, WorkOnKept, WorkOnCompleted, DepsCompleted

\* Whatever fails, is retried, parked or terminated, work is only done, and
\* only kept, on top of completed dependencies.
THEOREM WorksOnCompleted ==
    ASSUME ~GoalMode
    PROVE  Spec => []WorkOnCompleted
<1>1. IInv => WorkOnCompleted
  BY NotInGoalMode DEF IInv
<1> QED
  BY <1>1, NotInGoalMode, ExecutionInit, ExecutionNext, PTL DEF Spec

\* The inductive invariant itself: who is busy with what, on top of what.
THEOREM ExecutionHolds ==
    ASSUME Wired
    PROVE  Spec => []ExecutionInv
<1>1. IInv => ExecutionInv
  BY DEF IInv
<1> QED
  BY <1>1, ExecutionInit, ExecutionNext, PTL DEF Spec

\* Never do two goroutines work on one node, whatever rounds a goal takes.
THEOREM WorkersFit ==
    ASSUME Wired
    PROVE  Spec => []OneWorker
<1>1. IInv => OneWorker
  BY DEF IInv, ExecutionInv, OneBusy, OneWorker, Working, Busy
<1> QED
  BY <1>1, ExecutionInit, ExecutionNext, PTL DEF Spec

\* No node is left ready, running or reviewing by nobody while the loop polls.
THEOREM NothingOrphaned ==
    ASSUME Wired
    PROVE  Spec => []NoOrphan
<1>1. IInv => NoOrphan
  BY DEF IInv, ExecutionInv, ActiveIsBusy, NoOrphan, Busy
<1> QED
  BY <1>1, ExecutionInit, ExecutionNext, PTL DEF Spec

LEMMA StartsOnDone ==
    ASSUME Wired, IInv, [Next]_vars,
           NEW n \in Nodes, status[n] # "running", status'[n] = "running"
    PROVE  DepsCompleted(status, n)
<1>1. /\ status \in [Nodes -> NodeStatus]
      /\ TypeInv /\ ExecutionInv
  BY DEF IInv, TypeInv, TypeOK, WorkflowTypeOK
<1>2. ASSUME NEW g \in Runs, RunNode(g) \/ ReviewLoop(g)
      PROVE  DepsCompleted(status, n)
  <2>1. ASSUME NEW p \in RunPc, RunStep(g, p)
        PROVE  Busy(g) /\ n = g[1]
    BY <1>1, <2>1, RunsType
       DEF RunStep, GoesOn, GivesUp, Ends, SkipsBelow, SetStatus, CascadeSkip
  <2>2. ~LastRound(g)
    BY DEF LastRound
  <2> QED
    BY <1>1, <1>2, <2>1, <2>2, GoroutineStep DEF ExecutionInv, BusyOnCompleted
<1>3. ~RequestRetry
  BY <1>1, RequestRetryStep
<1>4. ~MainLoop /\ ~SelectStopped
  BY <1>1, <1>3
     DEF MainLoop, SelectStopped, RunStart, CheckTerminated, CheckQuota, CheckAllTerminal,
         Drained, Spawn, Tick, RunReturn, AllSkipped, TerminalStatus, OnlyMain, wfVars
<1>5. ~Terminate /\ ~Cancel /\ ~SubmitRetry /\ ~UNCHANGED vars
  BY DEF Terminate, Cancel, SubmitRetry, vars, wfVars
<1> QED
  BY <1>2, <1>4, <1>5 DEF Next, Returned

\* No round of the goal loop lets a node start on work that is being redone,
\* nor does any retry, failure or stop.
THEOREM EveryStartIsOnDone ==
    ASSUME Wired
    PROVE  Spec => StartsOnCompleted
<1>1. IInv /\ [Next]_vars =>
        [\A n \in Nodes : status[n] # "running" /\ status'[n] = "running"
                            => DepsCompleted(status, n)]_vars
  BY StartsOnDone
<1> QED
  BY <1>1, ExecutionInit, ExecutionNext, PTL DEF Spec, StartsOnCompleted

LEMMA CompletedStays ==
    ASSUME ~GoalMode, IInv, [Next]_vars, NEW n \in Nodes, status[n] = "completed"
    PROVE  status'[n] = "completed"
<1>1. /\ status \in [Nodes -> NodeStatus]
      /\ TypeInv /\ ExecutionInv /\ \A g \in Runs : pc[g] # "goalReset"
  BY DEF IInv, TypeInv, TypeOK, WorkflowTypeOK
<1>2. ASSUME NEW g \in Runs, RunNode(g) \/ ReviewLoop(g)
      PROVE  status'[n] = "completed"
  <2>1. PICK p \in RunPc : RunStep(g, p)
    BY <1>1, <1>2, RunNodeStep, ReviewLoopStep
  <2>2. Busy(g) => g[1] # n
    BY <1>1 DEF ExecutionInv, BusyInProgress, Active
  <2>3. CASE SkipsBelow(g, p)
    BY <1>1, <2>3 DEF SkipsBelow, CascadeSkip
  <2>4. CASE GoesOn(g, p) \/ GivesUp(g, p) \/ Ends(g, p)
    <3>1. g[1] \in Nodes /\ g[1] # n
      BY <2>2, <2>4, RunsType DEF GoesOn, GivesUp, Ends
    <3> QED
      BY <1>1, <2>4, <3>1 DEF GoesOn, GivesUp, Ends, SetStatus
  <2> QED
    BY <2>1, <2>3, <2>4 DEF RunStep
<1>3. CASE RequestRetry
  BY <1>1, <1>3, RequestRetryStep
<1>4. CASE MainLoop \/ SelectStopped
  BY <1>1, <1>3, <1>4
     DEF MainLoop, SelectStopped, RunStart, CheckTerminated, CheckQuota, CheckAllTerminal,
         Drained, Spawn, ReadyNodes, Tick, RunReturn, AllSkipped, TerminalStatus,
         OnlyMain, wfVars
<1>5. CASE Terminate \/ Cancel \/ SubmitRetry \/ UNCHANGED vars
  BY <1>5 DEF Terminate, Cancel, SubmitRetry, vars, wfVars
<1> QED
  BY <1>2, <1>4, <1>5 DEF Next, Returned

\* The result of a completed node is never thrown away and never recomputed.
THEOREM CompletedIsKept ==
    ASSUME ~GoalMode
    PROVE  Spec => CompletedKept
<1>1. IInv /\ [Next]_vars =>
        [\A n \in Nodes : status[n] = "completed" => status'[n] = "completed"]_vars
  BY CompletedStays
<1> QED
  BY <1>1, NotInGoalMode, ExecutionInit, ExecutionNext, PTL DEF Spec, CompletedKept

LEMMA TerminatedStarts ==
    ASSUME TypeInv, [Next]_vars, terminated,
           NEW n \in Nodes, status'[n] \in {"running", "reviewing"}
    PROVE  status'[n] = status[n]
<1>1. status \in [Nodes -> NodeStatus]
  BY DEF TypeInv, TypeOK, WorkflowTypeOK
<1>2. CASE RequestRetry
  BY <1>2, RequestRetryStep
<1>3. CASE MainLoop \/ SelectStopped
  BY <1>1, <1>2, <1>3
     DEF MainLoop, SelectStopped, RunStart, CheckTerminated, CheckQuota, CheckAllTerminal,
         Drained, Spawn, Tick, RunReturn, AllSkipped, OnlyMain, wfVars
<1>4. ASSUME NEW g \in Runs, RunNode(g)
      PROVE  status'[n] = status[n]
  BY <1>1, <1>4, RunsType
     DEF RunNode, Acquire, GiveUp, Begin, TakeFeedback, Try, Executed,
         ExecuteFailed, BackoffEnds, BackoffCancelled, HandleError, TripQuotaBreaker,
         Park, MarkFailed, Cascade, CheckFinish, MarkCompleted, CascadeSkip,
         SetStatus, OnlyRun, wfVars
<1>5. ASSUME NEW g \in Runs, ReviewLoop(g)
      PROVE  status'[n] = status[n]
  BY <1>1, <1>5, RunsType
     DEF ReviewLoop, ReviewRound, ReviewTry, ReviewFailed, ReviewWaitEnds,
         ReviewWaitCancelled, Verdicts, Rework, Reexecuted, ReexecuteFailed, CheckGoal,
         GoalFeedbackReset, SetStatus, OnlyRun, wfVars
<1>6. CASE Terminate \/ Cancel \/ SubmitRetry \/ UNCHANGED vars
  BY <1>6 DEF Terminate, Cancel, SubmitRetry, vars, wfVars
<1> QED
  BY <1>3, <1>4, <1>5, <1>6 DEF Next, Returned

\* Once Terminate has returned no node starts, or starts again, to execute.
THEOREM NoneStartAfterTerminate == Spec => NoWorkAfterTerminate
<1>1. TypeInv /\ [Next]_vars =>
        [\A n \in Nodes :
            terminated /\ status'[n] \in {"running", "reviewing"}
                => status'[n] = status[n]]_vars
  BY TerminatedStarts
<1> QED
  BY <1>1, TypeInit, TypeNext, PTL DEF Spec, NoWorkAfterTerminate

=============================================================================

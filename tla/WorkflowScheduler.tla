------------------------- MODULE WorkflowScheduler -------------------------
(***************************************************************************)
(* workflow/scheduler.go and workflow/quota_break.go: one Scheduler running *)
(* one workflow.                                                           *)
(*                                                                         *)
(* The processes are the main loop (Scheduler.Run) and the goroutines it   *)
(* spawns, one per node it finds ready (runNode, with reviewLoop,          *)
(* reviewWithInfraRetry and goalFeedbackReset inlined).  Around them the   *)
(* Manager may at any time call Terminate, cancel the context, or submit a *)
(* manual retry.  A step is one critical section of s.mu, one receive or   *)
(* send on a channel, or one answer of the executor: everything the code   *)
(* reads before it unlocks and uses afterwards is used stale here too.     *)
(*                                                                         *)
(* The executor (SubAgent calls) is outside: it answers, sooner or later,  *)
(* with one of the results of the constants below.  trySelfHeal, which may *)
(* replace a node killed at its hard limit by a subgraph, is left out: the *)
(* model is of a scheduler without an analyzer.  persist() copies the state *)
(* under s.mu and writes the copy to the repository; it changes nothing here *)
(* and is left out.                                                        *)
(***************************************************************************)
EXTENDS Integers, Sequences, WorkflowGraph

CONSTANTS
    Reviewed,       \* the nodes with Review = true
    Feedback,       \* Feedback[n]: the nodes a rejected n sends back to work
    GoalMode,       \* wf.GoalMode
    MaxParallel,    \* capacity of s.sem
    MaxRetries,     \* retries of a failing execution
    MaxIterations,  \* rounds of reviewLoop
    ReviewAttempts, \* reviewInfraMaxAttempts
    GoalMax,        \* wf.GoalMaxIterations
    MaxQuotaBreaks, \* maxQuotaBreaks
    QueueSize,      \* capacity of s.retryRequests
    Slots,          \* names for the goroutines of one node alive at once
    ExecFailures,   \* the errors executions may end with
    ReviewResults,  \* the answers reviews may give
    Controls,       \* what the Manager does: "terminate", "cancel", "retry"
    MaxSubmits      \* bound: manual retries submitted in one run

ExecError == {"transient", "fatal", "quota"}

\* Review: a verdict with the outcome the reviewer reports, or an error.
Verdict == {"pass", "reject"} \X {"ok", "degraded", "blocked", "unknown"}
ReviewError == {"infra", "error", "quota"}

ASSUME ParametersType ==
    /\ Reviewed \subseteq Nodes
    /\ Feedback \in [Nodes -> SUBSET Nodes]
    /\ GoalMode \in BOOLEAN
    /\ MaxParallel \in Nat \ {0}
    /\ MaxRetries \in Nat
    /\ MaxIterations \in Nat \ {0}
    /\ ReviewAttempts \in Nat \ {0}
    /\ GoalMax \in Nat
    /\ MaxQuotaBreaks \in Nat
    /\ QueueSize \in Nat
    /\ Slots # {} /\ IsFiniteSet(Slots)
    /\ ExecFailures \subseteq ExecError
    /\ ReviewResults \subseteq Verdict \cup ReviewError
    /\ Controls \subseteq {"terminate", "cancel", "retry"}
    /\ MaxSubmits \in Nat

\* The one node on which no other depends.
Final(n) ==
    /\ Dependents[n] = {}
    /\ \A m \in Nodes : Dependents[m] = {} => m = n

\* wireGoalMode, for a workflow with one final node: that node feeds back to
\* its dependencies (to at most maxFeedbackEdges of them), every other one to
\* itself.
WiredFeedback ==
    \A n \in Nodes :
        \/ Feedback[n] \subseteq {n}
        \/ Final(n) /\ Feedback[n] \subseteq Deps[n]

\* What goal mode needs of the workflow to keep work on completed work.
Wired == GoalMode => WiredFeedback

VARIABLES
    status,        \* status[n]: DAGNode.Status
    loopFeedback,  \* loopFeedback[n]: DAGNode.LoopFeedback is set
    outcome,       \* outcome[n]: DAGNode.Outcome ("none" until a review)
    goalIteration, \* wf.GoalIteration
    quotaBreaks,   \* wf.QuotaBreaks
    wfStatus,      \* wf.Status
    terminated,    \* s.terminated (and s.terminate closed)
    cancelled,     \* the context of Run is done
    quotaTripped,  \* s.quotaTripped
    retryRequests, \* s.retryRequests
    submits,       \* retries submitted so far
    main,          \* where Run is
    pc,            \* pc[g]: where goroutine g of runNode is
    tries,         \* tries[g]: attempts of retry.Do, or of one review
    iter,          \* iter[g]: reviewLoop's iter
    failure        \* failure[g]: the error g is about to act on

wfVars == <<status, loopFeedback, outcome, goalIteration, quotaBreaks, wfStatus>>
envVars == <<terminated, cancelled, retryRequests, submits>>
runVars == <<pc, tries, iter, failure>>
vars == <<wfVars, envVars, quotaTripped, main, runVars>>

\* What a step leaves alone: of the workflow all but the statuses; all but
\* the locals of goroutines; all but where Run is.
OnlyStatus == UNCHANGED <<loopFeedback, outcome, goalIteration, quotaBreaks, wfStatus>>
OnlyRun == UNCHANGED <<wfVars, envVars, quotaTripped, main>>
OnlyMain == UNCHANGED <<wfVars, envVars, quotaTripped, runVars>>

Runs == Nodes \X Slots

WorkflowStatus == {"analyzing", "running", "interrupted",
                   "completed", "failed", "terminated"}

MainPc == {"start", "terminated?", "quota?", "done?", "drain", "ready",
           "select", "wait", "returned"}

RunPc == {"idle", "acquire", "begin", "take", "try", "execute", "backoff",
          "error", "trip", "park", "fail", "cascade",
          "review", "reviewTry", "reviewing", "reviewWait", "rework",
          "reexecute", "goal", "goalReset", "finish", "complete"}

\* The goroutines that hold a place in s.sem.
Holding == {g \in Runs : pc[g] \notin {"idle", "acquire"}}

-----------------------------------------------------------------------------

Init ==
    /\ status = [n \in Nodes |-> "pending"]
    /\ loopFeedback = [n \in Nodes |-> FALSE]
    /\ outcome = [n \in Nodes |-> "none"]
    /\ goalIteration = 0
    /\ quotaBreaks \in 0..MaxQuotaBreaks  \* left by earlier, interrupted runs
    /\ wfStatus = "analyzing"
    /\ terminated = FALSE
    /\ cancelled = FALSE
    /\ quotaTripped = FALSE
    /\ retryRequests = <<>>
    /\ submits = 0
    /\ main = "start"
    /\ pc = [g \in Runs |-> "idle"]
    /\ tries = [g \in Runs |-> 0]
    /\ iter = [g \in Runs |-> 0]
    /\ failure = [g \in Runs |-> "none"]

-----------------------------------------------------------------------------
(* Scheduler.Run                                                           *)

\* handleTerminate
AllSkipped(st) ==
    [n \in Nodes |-> IF st[n] \in TerminalStatus THEN st[n] ELSE "skipped"]

RunStart ==
    /\ main = "start"
    /\ wfStatus' = "running"
    /\ status' = [n \in Nodes |->
            IF status[n] \in TerminalStatus THEN status[n] ELSE "pending"]
    /\ main' = "terminated?"
    /\ UNCHANGED <<loopFeedback, outcome, goalIteration, quotaBreaks>>
    /\ UNCHANGED <<envVars, quotaTripped, runVars>>

CheckTerminated ==
    /\ main = "terminated?"
    /\ IF terminated
       THEN status' = AllSkipped(status) /\ main' = "wait"
       ELSE UNCHANGED status /\ main' = "quota?"
    /\ OnlyStatus /\ UNCHANGED <<envVars, quotaTripped, runVars>>

CheckQuota ==
    /\ main = "quota?"
    /\ main' = IF quotaTripped THEN "wait" ELSE "done?"
    /\ OnlyMain

CheckAllTerminal ==
    /\ main = "done?"
    /\ main' = IF IsAllTerminal(status) THEN "wait" ELSE "drain"
    /\ OnlyMain

\* Mutant of RequestRetry: a node of any status is retried.
RequestRetryAny ==
    /\ main = "drain"
    /\ retryRequests # <<>>
    /\ status' = Retried(status, Head(retryRequests))
    /\ retryRequests' = Tail(retryRequests)
    /\ OnlyStatus
    /\ UNCHANGED <<terminated, cancelled, submits, quotaTripped, main, runVars>>

\* drainRetryRequests, one RequestRetry; it refuses a node that is neither
\* failed nor skipped.
RequestRetry ==
    /\ main = "drain"
    /\ retryRequests # <<>>
    /\ LET n == Head(retryRequests)
       IN  status' = IF status[n] \in {"failed", "skipped"}
                     THEN Retried(status, n) ELSE status
    /\ retryRequests' = Tail(retryRequests)
    /\ OnlyStatus
    /\ UNCHANGED <<terminated, cancelled, submits, quotaTripped, main, runVars>>

Drained ==
    /\ main = "drain"
    /\ retryRequests = <<>>
    /\ main' = "ready"
    /\ OnlyMain

FreeSlots(n) == {k \in Slots : pc[<<n, k>>] = "idle"}

\* A goroutine for every ready node.  (Waits for a free slot: the bound Slots.)
Spawn ==
    /\ main = "ready"
    /\ LET ready == ReadyNodes(status)
           new == {<<n, CHOOSE k \in FreeSlots(n) : TRUE>> : n \in ready}
       IN  /\ \A n \in ready : FreeSlots(n) # {}
           /\ status' = [n \in Nodes |-> IF n \in ready THEN "ready" ELSE status[n]]
           /\ pc' = [g \in Runs |-> IF g \in new THEN "acquire" ELSE pc[g]]
    /\ main' = "select"
    /\ OnlyStatus
    /\ UNCHANGED <<envVars, quotaTripped, tries, iter, failure>>

Tick ==
    /\ main = "select"
    /\ main' = "terminated?"
    /\ OnlyMain

\* Mutant of SelectStopped: the select does not look at the context.
SelectStoppedDeaf ==
    /\ main = "select"
    /\ terminated
    /\ status' = AllSkipped(status)
    /\ main' = "wait"
    /\ OnlyStatus /\ UNCHANGED <<envVars, quotaTripped, runVars>>

\* <-ctx.Done() or <-s.terminate
SelectStopped ==
    /\ main = "select"
    /\ cancelled \/ terminated
    /\ status' = AllSkipped(status)
    /\ main' = "wait"
    /\ OnlyStatus /\ UNCHANGED <<envVars, quotaTripped, runVars>>

\* Mutant of FinalStatus: an unset outcome counts as ok, and a failure of
\* that kind as an end.
FinalStatusSoft ==
    LET hasFailed == \E n \in Nodes : status[n] = "failed" /\ outcome[n] = "blocked"
    IN  IF terminated THEN "terminated"
        ELSE IF hasFailed THEN "failed"
        ELSE IF IsAllTerminal(status) THEN "completed" ELSE "failed"

\* computeFinalStatus.  hasFailed makes no difference to the answer when a
\* node has failed with outcome "ok": allCompleted is false then.
FinalStatus ==
    LET hasFailed == \E n \in Nodes : status[n] = "failed" /\ outcome[n] # "ok"
        allCompleted == \A n \in Nodes : status[n] \in {"completed", "skipped"}
    IN  IF terminated THEN "terminated"
        ELSE IF hasFailed THEN "failed"
        ELSE IF allCompleted THEN "completed" ELSE "failed"

\* s.wg.Wait() has returned: applyQuotaBreak or computeFinalStatus.
RunReturn ==
    /\ main = "wait"
    /\ \A g \in Runs : pc[g] = "idle"
    /\ IF quotaTripped
       THEN /\ quotaBreaks' = quotaBreaks + 1
            /\ wfStatus' = IF quotaBreaks' > MaxQuotaBreaks
                           THEN "failed" ELSE "interrupted"
       ELSE /\ UNCHANGED quotaBreaks
            /\ wfStatus' = FinalStatus
    /\ main' = "returned"
    /\ UNCHANGED <<status, loopFeedback, outcome, goalIteration>>
    /\ UNCHANGED <<envVars, quotaTripped, runVars>>

-----------------------------------------------------------------------------
(* runNode, for goroutine g of node g[1]                                   *)

Goto(g, p) == pc' = [pc EXCEPT ![g] = p]

\* runNode returns: the deferred <-s.sem and s.wg's Done.
Exit(g) ==
    /\ Goto(g, "idle")
    /\ tries' = [tries EXCEPT ![g] = 0]
    /\ iter' = [iter EXCEPT ![g] = 0]
    /\ failure' = [failure EXCEPT ![g] = "none"]

\* g goes on with an error in hand.
Fail(g, e) ==
    /\ Goto(g, "error")
    /\ failure' = [failure EXCEPT ![g] = e]
    /\ UNCHANGED <<tries, iter>>

SetStatus(g, s) == status' = [status EXCEPT ![g[1]] = s]

\* s.sem <- struct{}{}, in any order among the goroutines that wait for it.
Acquire(g) ==
    /\ pc[g] = "acquire"
    /\ Cardinality(Holding) < MaxParallel
    /\ Goto(g, "begin")
    /\ OnlyRun /\ UNCHANGED <<tries, iter, failure>>

\* The isTerminated() on entry, or <-s.terminate or <-ctx.Done() while waiting.
GiveUp(g) ==
    /\ pc[g] = "acquire"
    /\ terminated \/ cancelled
    /\ Exit(g)
    /\ OnlyRun

\* Mutant of Begin: no second look at s.terminated.
BeginUnchecked(g) ==
    /\ pc[g] = "begin"
    /\ Goto(g, "take")
    /\ SetStatus(g, "running")
    /\ UNCHANGED <<tries, iter, failure>>
    /\ OnlyStatus /\ UNCHANGED <<envVars, quotaTripped, main>>

Begin(g) ==
    /\ pc[g] = "begin"
    /\ IF terminated
       THEN Exit(g) /\ UNCHANGED status
       ELSE /\ Goto(g, "take")
            /\ SetStatus(g, "running")
            /\ UNCHANGED <<tries, iter, failure>>
    /\ OnlyStatus /\ UNCHANGED <<envVars, quotaTripped, main>>

\* loopFb := node.LoopFeedback; node.LoopFeedback = ""
TakeFeedback(g) ==
    /\ pc[g] = "take"
    /\ Goto(g, "try")
    /\ loopFeedback' = [loopFeedback EXCEPT ![g[1]] = FALSE]
    /\ UNCHANGED <<status, outcome, goalIteration, quotaBreaks, wfStatus>>
    /\ UNCHANGED <<tries, iter, failure, envVars, quotaTripped, main>>

\* What retry.Do does with the error e of an attempt: stop if the context is
\* done, if ShouldRetry refuses it, or after MaxRetries retries.
AttemptFailed(g, e, attempt) ==
    IF cancelled \/ e # "transient" \/ attempt > MaxRetries
    THEN Goto(g, "error") /\ failure' = [failure EXCEPT ![g] = e]
    ELSE Goto(g, "backoff") /\ UNCHANGED failure

\* Mutant of Try: the attempts are not counted.
TryUncounted(g) ==
    /\ pc[g] = "try"
    /\ IF terminated
       THEN AttemptFailed(g, "transient", tries[g] + 1)
       ELSE Goto(g, "execute") /\ UNCHANGED failure
    /\ OnlyRun /\ UNCHANGED <<tries, iter>>

\* The function retry.Do runs begins with isTerminated().
Try(g) ==
    /\ pc[g] = "try"
    /\ tries' = [tries EXCEPT ![g] = @ + 1]
    /\ IF terminated
       THEN AttemptFailed(g, "transient", tries[g] + 1)
       ELSE Goto(g, "execute") /\ UNCHANGED failure
    /\ OnlyRun /\ UNCHANGED iter

\* Execute or ExecuteWithFeedback returns.
Executed(g) ==
    /\ pc[g] = "execute"
    /\ Goto(g, IF g[1] \in Reviewed THEN "review" ELSE "finish")
    /\ OnlyRun /\ UNCHANGED <<tries, iter, failure>>

ExecuteFailed(g) ==
    /\ pc[g] = "execute"
    /\ \E e \in ExecFailures : AttemptFailed(g, e, tries[g])
    /\ OnlyRun /\ UNCHANGED <<tries, iter>>

BackoffEnds(g) ==
    /\ pc[g] = "backoff"
    /\ Goto(g, "try")
    /\ OnlyRun /\ UNCHANGED <<tries, iter, failure>>

BackoffCancelled(g) ==
    /\ pc[g] = "backoff"
    /\ cancelled
    /\ Fail(g, "fatal")
    /\ OnlyRun

\* lastErr # nil, after the execution or after reviewLoop.
HandleError(g) ==
    /\ pc[g] = "error"
    /\ IF terminated
       THEN Exit(g)
       ELSE /\ Goto(g, IF failure[g] = "quota" THEN "trip" ELSE "fail")
            /\ UNCHANGED <<tries, iter, failure>>
    /\ OnlyRun

\* Mutant of TripQuotaBreaker: every trip counts as a break of the workflow.
TripCounts(g) ==
    /\ pc[g] = "trip"
    /\ quotaTripped' = TRUE
    /\ quotaBreaks' = quotaBreaks + 1
    /\ Goto(g, "park")
    /\ UNCHANGED <<status, loopFeedback, outcome, goalIteration, wfStatus>>
    /\ UNCHANGED <<tries, iter, failure, envVars, main>>

\* handleQuotaBreak: tripQuotaBreaker, then the node goes back to pending.
TripQuotaBreaker(g) ==
    /\ pc[g] = "trip"
    /\ quotaTripped' = TRUE
    /\ Goto(g, "park")
    /\ UNCHANGED <<tries, iter, failure, wfVars, envVars, main>>

\* Mutants of Park: the node keeps its status; what is below it is skipped.
ParkKeepsStatus(g) ==
    /\ pc[g] = "park"
    /\ Exit(g)
    /\ OnlyRun
ParkCascades(g) ==
    /\ pc[g] = "park"
    /\ status' = CascadeSkip([status EXCEPT ![g[1]] = "pending"], g[1])
    /\ Exit(g)
    /\ OnlyStatus /\ UNCHANGED <<envVars, quotaTripped, main>>

Park(g) ==
    /\ pc[g] = "park"
    /\ SetStatus(g, "pending")
    /\ Exit(g)
    /\ OnlyStatus /\ UNCHANGED <<envVars, quotaTripped, main>>

MarkFailed(g) ==
    /\ pc[g] = "fail"
    /\ SetStatus(g, "failed")
    /\ Goto(g, "cascade")
    /\ OnlyStatus
    /\ UNCHANGED <<tries, iter, failure, envVars, quotaTripped, main>>

Cascade(g) ==
    /\ pc[g] = "cascade"
    /\ status' = CascadeSkip(status, g[1])
    /\ Exit(g)
    /\ OnlyStatus /\ UNCHANGED <<envVars, quotaTripped, main>>

\* The last isTerminated() of runNode, and the critical section after it.
CheckFinish(g) ==
    /\ pc[g] = "finish"
    /\ IF terminated
       THEN Exit(g)
       ELSE Goto(g, "complete") /\ UNCHANGED <<tries, iter, failure>>
    /\ OnlyRun

MarkCompleted(g) ==
    /\ pc[g] = "complete"
    /\ SetStatus(g, "completed")
    /\ Exit(g)
    /\ OnlyStatus /\ UNCHANGED <<envVars, quotaTripped, main>>

-----------------------------------------------------------------------------
(* reviewLoop.  Its errors after a termination reach runNode's             *)
(* isTerminated() and end the goroutine.                                   *)

ReviewRound(g) ==
    /\ pc[g] = "review"
    /\ IF terminated
       THEN Exit(g) /\ UNCHANGED status
       ELSE /\ SetStatus(g, "reviewing")
            /\ Goto(g, "reviewTry")
            /\ tries' = [tries EXCEPT ![g] = 0]
            /\ UNCHANGED <<iter, failure>>
    /\ OnlyStatus /\ UNCHANGED <<envVars, quotaTripped, main>>

\* reviewWithInfraRetry: one attempt.
ReviewTry(g) ==
    /\ pc[g] = "reviewTry"
    /\ IF terminated
       THEN Exit(g)
       ELSE /\ Goto(g, "reviewing")
            /\ tries' = [tries EXCEPT ![g] = @ + 1]
            /\ UNCHANGED <<iter, failure>>
    /\ OnlyRun

\* An infrastructure error is retried in place; any other error, and the
\* end of the review's own timeout ("error"), is the node's failure.
ReviewFailed(g) ==
    /\ pc[g] = "reviewing"
    /\ \E e \in ReviewResults \cap ReviewError :
            IF e = "infra" /\ ~cancelled /\ tries[g] < ReviewAttempts
            THEN Goto(g, "reviewWait") /\ UNCHANGED <<tries, iter, failure>>
            ELSE Fail(g, IF e = "quota" THEN "quota" ELSE "fatal")
    /\ OnlyRun

ReviewWaitEnds(g) ==
    /\ pc[g] = "reviewWait"
    /\ Goto(g, "reviewTry")
    /\ OnlyRun /\ UNCHANGED <<tries, iter, failure>>

ReviewWaitCancelled(g) ==
    /\ pc[g] = "reviewWait"
    /\ cancelled
    /\ Fail(g, "fatal")
    /\ OnlyRun

\* Mutant of Verdicts: a passing verdict is enough.
VerdictsPass(g) ==
    /\ pc[g] = "reviewing"
    /\ \E v \in ReviewResults \cap Verdict :
        LET oc == IF v[2] = "unknown" THEN outcome[g[1]] ELSE v[2]
        IN  /\ outcome' = [outcome EXCEPT ![g[1]] = oc]
            /\ IF v[1] = "reject" /\ oc = "blocked" THEN Fail(g, "fatal")
               ELSE /\ Goto(g, IF v[1] = "pass" THEN "finish" ELSE "rework")
                    /\ UNCHANGED <<tries, iter, failure>>
    /\ UNCHANGED <<status, loopFeedback, goalIteration, quotaBreaks, wfStatus>>
    /\ UNCHANGED <<envVars, quotaTripped, main>>

\* A verdict.  An unrecognised outcome leaves the node's as it was; a blocked
\* node fails whatever the verdict.
Verdicts(g) ==
    /\ pc[g] = "reviewing"
    /\ \E v \in ReviewResults \cap Verdict :
        LET oc == IF v[2] = "unknown" THEN outcome[g[1]] ELSE v[2]
        IN  /\ outcome' = [outcome EXCEPT ![g[1]] = oc]
            /\ IF oc = "blocked" THEN Fail(g, "fatal")
               ELSE /\ Goto(g, IF v[1] = "pass" THEN "finish" ELSE "rework")
                    /\ UNCHANGED <<tries, iter, failure>>
    /\ UNCHANGED <<status, loopFeedback, goalIteration, quotaBreaks, wfStatus>>
    /\ UNCHANGED <<envVars, quotaTripped, main>>

Rework(g) ==
    /\ pc[g] = "rework"
    /\ IF terminated
       THEN Exit(g) /\ UNCHANGED status
       ELSE /\ SetStatus(g, "running")
            /\ Goto(g, "reexecute")
            /\ UNCHANGED <<tries, iter, failure>>
    /\ OnlyStatus /\ UNCHANGED <<envVars, quotaTripped, main>>

Reexecuted(g) ==
    /\ pc[g] = "reexecute"
    /\ iter' = [iter EXCEPT ![g] = @ + 1]
    /\ Goto(g, IF iter[g] + 1 < MaxIterations THEN "review" ELSE "goal")
    /\ OnlyRun /\ UNCHANGED <<tries, failure>>

ReexecuteFailed(g) ==
    /\ pc[g] = "reexecute"
    /\ \E e \in ExecFailures : Fail(g, IF e = "quota" THEN "quota" ELSE "fatal")
    /\ OnlyRun

\* Mutant of CheckGoal: off by one.
CheckGoalOneMore(g) ==
    /\ pc[g] = "goal"
    /\ IF GoalMode /\ Feedback[g[1]] # {} /\ goalIteration <= GoalMax
       THEN IF terminated
            THEN Exit(g)
            ELSE Goto(g, "goalReset") /\ UNCHANGED <<tries, iter, failure>>
       ELSE Fail(g, "fatal")
    /\ OnlyRun

\* The loop is over; goalCanIterate reads the counter without the lock.
CheckGoal(g) ==
    /\ pc[g] = "goal"
    /\ IF GoalMode /\ Feedback[g[1]] # {} /\ goalIteration < GoalMax
       THEN IF terminated
            THEN Exit(g)
            ELSE Goto(g, "goalReset") /\ UNCHANGED <<tries, iter, failure>>
       ELSE Fail(g, "fatal")
    /\ OnlyRun

GoalFeedbackReset(g) ==
    /\ pc[g] = "goalReset"
    /\ goalIteration' = goalIteration + 1
    /\ status' = [n \in Nodes |->
            IF n = g[1] \/ n \in Feedback[g[1]] THEN "pending" ELSE status[n]]
    /\ loopFeedback' = [n \in Nodes |-> loopFeedback[n] \/ n \in Feedback[g[1]]]
    /\ Exit(g)
    /\ UNCHANGED <<outcome, quotaBreaks, wfStatus, envVars, quotaTripped, main>>

-----------------------------------------------------------------------------
(* The Manager's calls on a running scheduler.                             *)

Terminate ==
    /\ "terminate" \in Controls
    /\ main # "returned"
    /\ ~terminated
    /\ terminated' = TRUE
    /\ UNCHANGED <<cancelled, retryRequests, submits>>
    /\ UNCHANGED <<wfVars, quotaTripped, main, runVars>>

\* inst.cancel(), from the stale-workflow sweeper or from shutdown.
Cancel ==
    /\ "cancel" \in Controls
    /\ main # "returned"
    /\ ~cancelled
    /\ cancelled' = TRUE
    /\ UNCHANGED <<terminated, retryRequests, submits>>
    /\ UNCHANGED <<wfVars, quotaTripped, main, runVars>>

\* A request that finds the channel full is dropped.
SubmitRetry ==
    /\ "retry" \in Controls
    /\ main # "returned"
    /\ submits < MaxSubmits
    /\ submits' = submits + 1
    /\ \E n \in Nodes :
        retryRequests' = IF Len(retryRequests) < QueueSize
                         THEN Append(retryRequests, n) ELSE retryRequests
    /\ UNCHANGED <<terminated, cancelled>>
    /\ UNCHANGED <<wfVars, quotaTripped, main, runVars>>

-----------------------------------------------------------------------------

\* Run and everything it calls, apart from the answer to a stop.
MainLoop ==
    \/ RunStart \/ CheckTerminated \/ CheckQuota \/ CheckAllTerminal
    \/ RequestRetry \/ Drained \/ Spawn \/ Tick \/ RunReturn

RunNode(g) ==
    \/ Acquire(g) \/ GiveUp(g) \/ Begin(g) \/ TakeFeedback(g)
    \/ Try(g) \/ Executed(g) \/ ExecuteFailed(g)
    \/ BackoffEnds(g) \/ BackoffCancelled(g)
    \/ HandleError(g) \/ TripQuotaBreaker(g) \/ Park(g)
    \/ MarkFailed(g) \/ Cascade(g)
    \/ CheckFinish(g) \/ MarkCompleted(g)

ReviewLoop(g) ==
    \/ ReviewRound(g) \/ ReviewTry(g) \/ ReviewFailed(g)
    \/ ReviewWaitEnds(g) \/ ReviewWaitCancelled(g) \/ Verdicts(g)
    \/ Rework(g) \/ Reexecuted(g) \/ ReexecuteFailed(g)
    \/ CheckGoal(g) \/ GoalFeedbackReset(g)

Returned == main = "returned" /\ UNCHANGED vars

Next ==
    \/ MainLoop
    \/ SelectStopped
    \/ \E g \in Runs : RunNode(g) \/ ReviewLoop(g)
    \/ Terminate \/ Cancel \/ SubmitRetry
    \/ Returned

Spec == Init /\ [][Next]_vars

\* The Go scheduler runs every goroutine that can run; SubAgent calls are
\* bounded by hard timeouts, so an executor call returns.  A done context is
\* always ready in the select, whose ticker needs its interval, so the loop
\* cannot pick the ticker for ever.
Fairness ==
    /\ WF_vars(MainLoop)
    /\ SF_vars(SelectStopped)
    /\ \A g \in Runs : WF_vars(RunNode(g) \/ ReviewLoop(g))

FairSpec == Spec /\ Fairness

-----------------------------------------------------------------------------
(* Properties                                                              *)

WorkflowTypeOK ==
    /\ status \in [Nodes -> NodeStatus]
    /\ loopFeedback \in [Nodes -> BOOLEAN]
    /\ outcome \in [Nodes -> {"none", "ok", "degraded", "blocked"}]
    /\ goalIteration \in Nat
    /\ quotaBreaks \in 0..(MaxQuotaBreaks + 1)
    /\ wfStatus \in WorkflowStatus

ControlTypeOK ==
    /\ terminated \in BOOLEAN
    /\ cancelled \in BOOLEAN
    /\ quotaTripped \in BOOLEAN
    /\ retryRequests \in Seq(Nodes)
    /\ submits \in 0..MaxSubmits
    /\ main \in MainPc

RunTypeOK ==
    /\ pc \in [Runs -> RunPc]
    /\ tries \in [Runs -> Nat]
    /\ iter \in [Runs -> Nat]
    /\ failure \in [Runs -> ExecError \cup {"none"}]

\* Every variable has its type.
TypeOK == WorkflowTypeOK /\ ControlTypeOK /\ RunTypeOK

Active == {"ready", "running", "reviewing"}

\* Work is only ever done, and only ever kept, on top of completed work: a
\* node that is queued, in progress or completed has all its dependencies
\* completed, whatever failed, was retried, parked or terminated meanwhile
\* (AND dependencies, scheduler.go:27).
WorkOnCompleted ==
    \A n \in Nodes :
        status[n] \in Active \cup {"completed"} => DepsCompleted(status, n)

\* While the loop polls, nothing is in progress without a goroutine that will
\* bring it to an end: a node left ready, running or reviewing by nobody
\* would keep Run polling for ever.
NoOrphan ==
    main \notin {"start", "wait", "returned"} /\ ~terminated /\ ~cancelled =>
        \A n \in Nodes : status[n] \in Active =>
            \E k \in Slots : pc[<<n, k>>] # "idle"

Working == {"take", "try", "execute", "backoff", "review", "reviewTry",
            "reviewing", "reviewWait", "rework", "reexecute"}

\* No two goroutines work on one node at a time.
OneWorker ==
    \A n \in Nodes, j, k \in Slots :
        pc[<<n, j>>] \in Working /\ pc[<<n, k>>] \in Working => j = k

\* A pending node can still be reached: none of its dependencies has failed
\* or been skipped, unless the goroutine that will skip it is on its way.
NotDoomed ==
    \A n \in Nodes : status[n] = "pending" =>
        \/ \A d \in Deps[n] : status[d] \notin {"failed", "skipped"}
        \/ \E g \in Runs : pc[g] = "cascade" /\ n \in Downstream[g[1]]

\* A node is skipped because something above it failed or was skipped, or
\* because the workflow was stopped (NodeSkipped, types.go:29).
SkippedForCause ==
    \A n \in Nodes : status[n] = "skipped" =>
        \/ terminated \/ cancelled
        \/ \E d \in Deps[n] : status[d] \in {"failed", "skipped"}

\* A workflow reported completed has completed every node (types.go:39).
CompletedMeansAll ==
    wfStatus = "completed" => \A n \in Nodes : status[n] = "completed"

\* A workflow parked by the quota breaker is at rest: nothing it saves for
\* the resumption is half done.  (A termination may come in between.)
InterruptedAtRest ==
    wfStatus = "interrupted" /\ ~terminated =>
        \A n \in Nodes : status[n] \notin Active

\* A node whose last classification says that a tool or data is missing is
\* not completed, although a retry, a rework or a verdict that names no outcome
\* leaves the classification where it is (scheduler.go:737, 959).
BlockedNotCompleted ==
    \A n \in Nodes : status[n] = "completed" => outcome[n] # "blocked"

\* Why the properties above hold: a goroutine between its spawning and its
\* last word on its node is the only one of the node, stands on completed
\* dependencies, and nobody else ends its node before the loop has stopped
\* polling.
Busy(g) == pc[g] \notin {"idle", "cascade"}

BusyOnCompleted == \A g \in Runs : Busy(g) => DepsCompleted(status, g[1])

BusyInProgress ==
    \A g \in Runs : Busy(g) =>
        \/ status[g[1]] \in Active
        \/ status[g[1]] = "skipped" /\ main = "wait" /\ (terminated \/ cancelled)

OneBusy ==
    \A n \in Nodes, j, k \in Slots : Busy(<<n, j>>) /\ Busy(<<n, k>>) => j = k

IdleAtEnds == main \in {"start", "returned"} => \A g \in Runs : pc[g] = "idle"

ActiveIsBusy ==
    main \notin {"start", "returned"} /\ ~terminated /\ ~cancelled =>
        \A n \in Nodes : status[n] \in Active => \E k \in Slots : Busy(<<n, k>>)

\* What the final node sends back to work: nothing without goal mode.
Redone == {d \in Nodes : GoalMode /\ \E n \in Nodes : Final(n) /\ d \in Deps[n]}

\* WorkOnCompleted, but for the nodes a goal round is doing over.
WorkOnKept ==
    \A n \in Nodes : status[n] \in Active \cup {"completed"} =>
        \A d \in Deps[n] : d \in Redone \/ status[d] = "completed"

ExecutionInv ==
    /\ BusyOnCompleted
    /\ BusyInProgress
    /\ OneBusy
    /\ IdleAtEnds
    /\ ActiveIsBusy
    /\ WorkOnKept

\* Reviewers that decide at the same time all read the counter before any of
\* them counts its round (scheduler.go:867, 905): they pass the limit of
\* types.go:180, but never by more than the places the others hold.
RoundsWithin == goalIteration <= GoalMax + MaxParallel - 1

-----------------------------------------------------------------------------

\* The result of a completed node is never thrown away and never recomputed.
CompletedKept ==
    [][\A n \in Nodes : status[n] = "completed" => status'[n] = "completed"]_vars

\* Once Terminate has returned no node starts, or starts again, to execute.
NoWorkAfterTerminate ==
    [][\A n \in Nodes :
        terminated /\ status'[n] \in {"running", "reviewing"}
            => status'[n] = status[n]]_vars

\* Work starts on completed dependencies only.
StartsOnCompleted ==
    [][\A n \in Nodes : status[n] # "running" /\ status'[n] = "running"
                            => DepsCompleted(status, n)]_vars

-----------------------------------------------------------------------------

\* Run comes to an end.
RunReturns == <>(main = "returned")

\* A stop is obeyed: Run returns even when a manual retry has left a node that
\* nobody will ever start or skip, for which it would poll for ever
\* (scheduler.go:217).
StopReturns == terminated \/ cancelled ~> main = "returned"

-----------------------------------------------------------------------------

\* The scheduler implements DAGExecution: ready, running and reviewing nodes
\* are the active ones, and either kind of stop is a stop.
AbstractStatus(s) ==
    IF s = "pending" THEN "open" ELSE IF s \in Active THEN "active" ELSE s

NodeState == [n \in Nodes |-> AbstractStatus(status[n])]

DAG == INSTANCE DAGExecution
    WITH state <- NodeState, stopped <- (terminated \/ cancelled)

\* A run without manual retries and goal rounds does what a DAG execution
\* may do, step by step.
ImplementsDAG == DAG!DAGSpec

=============================================================================

-------------------------- MODULE WorkflowManager --------------------------
(***************************************************************************)
(* workflow/manager.go: the life of one workflow across the goroutines     *)
(* that run it, the calls of users, the two watchdogs and the crashes of   *)
(* the process.                                                            *)
(*                                                                         *)
(* Every goroutine that runs the workflow works on a Workflow object of    *)
(* its own and saves it; the repository keeps the last one saved.  The     *)
(* Manager's map "running" tells which goroutine is registered.  A step is *)
(* one critical section of m.mu or one call of the repository, so that     *)
(* whoever looks at the map, or reads the repository, may act when both    *)
(* have changed.                                                           *)
(*                                                                         *)
(* What happens inside Scheduler.Run is WorkflowScheduler's subject: here  *)
(* a run completes its nodes one by one, and ends.  Time is abstract: a    *)
(* quota window is over, and a workflow has not been saved for too long,   *)
(* whenever the environment says so.                                       *)
(***************************************************************************)
EXTENDS Integers

CONSTANTS
    Runners,        \* names for the goroutines alive at once
    Nobody,
    Users,          \* clients of Control(retry)
    Parts,          \* number of nodes of the workflow
    MaxQuotaBreaks, \* maxQuotaBreaks
    Controls,       \* what happens: "terminate", "quota", "retry", "sweep", "stall"
    MaxCrashes,     \* bound: crashes of the process
    MaxRestarts     \* bound: restarts by users

ASSUME ManagerParameters ==
    /\ Nobody \notin Runners
    /\ Parts \in Nat
    /\ MaxQuotaBreaks \in Nat
    /\ Controls \subseteq {"terminate", "quota", "retry", "sweep", "stall"}
    /\ MaxCrashes \in Nat
    /\ MaxRestarts \in Nat

VARIABLES
    stored,      \* the workflow in the repository
    stale,       \* it was last saved longer ago than staleThreshold allows
    running,     \* m.running: the registered goroutine, and its scheduler
    pc,          \* pc[i]: where goroutine i is
    work,        \* work[i]: the Workflow object of goroutine i
    cancelled,   \* cancelled[i]: its context is done
    terminated,  \* terminated[i]: its scheduler was terminated
    recovery,    \* where the start of the process is: Recover, then the watchdogs
    recoverCopy, \* the Workflow that Recover has read
    user,        \* user[u]: where client u is in restartFromNode
    userCopy,    \* the Workflow it has read
    sweeper,     \* where SweepStale is
    sweepCopy,
    quotaWatch,  \* where ResumeQuotaInterrupted is
    quotaCopy,
    crashes,
    restarts

runnerVars == <<running, pc, work, cancelled, terminated>>
repoVars == <<stored, stale>>
userVars == <<user, userCopy, restarts>>
sweepVars == <<sweeper, sweepCopy>>
quotaVars == <<quotaWatch, quotaCopy>>
bootVars == <<recovery, recoverCopy, crashes>>
vars == <<repoVars, runnerVars, userVars, sweepVars, quotaVars, bootVars>>

Unfinished == {"analyzing", "running", "interrupted"}  \* IsRecoverable
Finished == {"completed", "failed", "terminated"}      \* IsTerminal

\* done: completed nodes; parked: QuotaResumeAt is set; breaks: QuotaBreaks.
Workflow ==
    [status : {"none"} \cup Unfinished \cup Finished, analysed : BOOLEAN,
     done : 0..Parts, parked : BOOLEAN, breaks : 0..(MaxQuotaBreaks + 1)]

NoWorkflow == [status |-> "none", analysed |-> FALSE, done |-> 0,
               parked |-> FALSE, breaks |-> 0]

Unregistered == [owner |-> Nobody, scheduler |-> Nobody]

Init ==
    /\ stored = NoWorkflow
    /\ stale = FALSE
    /\ running = Unregistered
    /\ pc = [i \in Runners |-> "idle"]
    /\ work = [i \in Runners |-> NoWorkflow]
    /\ cancelled = [i \in Runners |-> FALSE]
    /\ terminated = [i \in Runners |-> FALSE]
    /\ recovery = "done" /\ recoverCopy = NoWorkflow
    /\ user = [u \in Users |-> "idle"]
    /\ userCopy = [u \in Users |-> NoWorkflow]
    /\ sweeper = "idle" /\ sweepCopy = NoWorkflow
    /\ quotaWatch = "idle" /\ quotaCopy = NoWorkflow
    /\ crashes = 0
    /\ restarts = 0

\* Repository.Save
Save(w) == stored' = w /\ stale' = FALSE

\* A goroutine for w is registered and started, at p.  Which of the idle names
\* it gets makes no difference.
Launch(w, p) ==
    \E i \in Runners :
        /\ pc[i] = "idle"
        /\ i = CHOOSE j \in Runners : pc[j] = "idle"
        /\ running' = [owner |-> i, scheduler |-> Nobody]
        /\ pc' = [pc EXCEPT ![i] = p]
        /\ work' = [work EXCEPT ![i] = w]
        /\ UNCHANGED <<cancelled, terminated>>

Goto(i, p) == pc' = [pc EXCEPT ![i] = p]

\* Goroutine i saves its object as w and goes on at p.
SaveAs(i, w, p) ==
    /\ work' = [work EXCEPT ![i] = w]
    /\ Save(w)
    /\ Goto(i, p)

OnlyRunner == UNCHANGED <<userVars, sweepVars, quotaVars, bootVars>>

-----------------------------------------------------------------------------
(* Submit, analyzeAndRun and runScheduler                                  *)

Submit ==
    /\ stored.status = "none"
    /\ LET w == [NoWorkflow EXCEPT !.status = "analyzing"]
       IN  Save(w) /\ Launch(w, "analyze")
    /\ OnlyRunner

\* onProgress saves at the start of every attempt; one stands for all.
AnalysisAttempt(i) ==
    /\ pc[i] = "analyze"
    /\ SaveAs(i, work[i], "attempt")
    /\ UNCHANGED <<running, cancelled, terminated>> /\ OnlyRunner

Analyzed(i) ==
    /\ pc[i] = "attempt"
    /\ SaveAs(i, [work[i] EXCEPT !.analysed = TRUE], "start")
    /\ UNCHANGED <<running, cancelled, terminated>> /\ OnlyRunner

\* An analysis that was cancelled ends as terminated, but nodes that do not
\* compile fail in any case (and cannot be restarted: not analysed).
AnalysisFailed(i) ==
    /\ pc[i] = "attempt"
    /\ \E s \in {"failed"} \cup (IF cancelled[i] THEN {"terminated"} ELSE {}) :
           SaveAs(i, [work[i] EXCEPT !.status = s], "finished")
    /\ UNCHANGED <<running, cancelled, terminated>> /\ OnlyRunner

\* Mutant of SetScheduler: a registration without its scheduler.
SetSchedulerNot(i) ==
    /\ pc[i] = "start"
    /\ Goto(i, "begin")
    /\ UNCHANGED <<repoVars, running, work, cancelled, terminated>> /\ OnlyRunner

\* runScheduler gives the scheduler to whatever instance is registered.
SetScheduler(i) ==
    /\ pc[i] = "start"
    /\ running' = IF running.owner = Nobody THEN running
                  ELSE [running EXCEPT !.scheduler = i]
    /\ Goto(i, "begin")
    /\ UNCHANGED <<repoVars, work, cancelled, terminated>> /\ OnlyRunner

RunBegins(i) ==
    /\ pc[i] = "begin"
    /\ SaveAs(i, [work[i] EXCEPT !.status = "running"], "run")
    /\ UNCHANGED <<running, cancelled, terminated>> /\ OnlyRunner

NodeCompleted(i) ==
    /\ pc[i] = "run"
    /\ work[i].done < Parts
    /\ SaveAs(i, [work[i] EXCEPT !.done = @ + 1], "run")
    /\ UNCHANGED <<running, cancelled, terminated>> /\ OnlyRunner

\* Mutant of QuotaBroken: no limit on the breaks.
QuotaBrokenForever(w) ==
    [w EXCEPT !.status = "interrupted", !.parked = TRUE, !.breaks = @ + 1]

\* Mutant of QuotaBroken: no time of resumption is set.
QuotaBrokenNoTime(w) ==
    IF w.breaks < MaxQuotaBreaks
    THEN [w EXCEPT !.status = "interrupted", !.breaks = @ + 1]
    ELSE [w EXCEPT !.status = "failed", !.parked = FALSE, !.breaks = MaxQuotaBreaks + 1]

\* applyQuotaBreak
QuotaBroken(w) ==
    IF w.breaks < MaxQuotaBreaks
    THEN [w EXCEPT !.status = "interrupted", !.parked = TRUE, !.breaks = @ + 1]
    ELSE [w EXCEPT !.status = "failed", !.parked = FALSE, !.breaks = MaxQuotaBreaks + 1]

\* computeFinalStatus: a run whose context is done has skipped what was left,
\* and ends as completed unless a node has failed.
FinalStatus(i) ==
    IF terminated[i] THEN {"terminated"}
    ELSE IF work[i].done = Parts THEN {"completed"}
    ELSE IF cancelled[i] THEN {"completed", "failed"}
    ELSE {"failed"}

\* A pending node under a failed one is never ready and never skipped, and
\* the run polls for ever, saving nothing.  A client's retry leaves such a node
\* behind (resetForRetry, RequestRetry), and so does a crash between the save of
\* a failure and the save of the skips below it.
RunStalls(i) ==
    /\ "stall" \in Controls
    /\ crashes > 0 \/ restarts > 0
    /\ pc[i] = "run"
    /\ work[i].done < Parts
    /\ Goto(i, "stuck")
    /\ UNCHANGED <<repoVars, running, work, cancelled, terminated>> /\ OnlyRunner

\* Run returns; one that is stuck only does so when it is stopped.
RunEnds(i) ==
    /\ \/ /\ pc[i] = "run" \/ (pc[i] = "stuck" /\ (terminated[i] \/ cancelled[i]))
          /\ \E s \in FinalStatus(i) : SaveAs(i, [work[i] EXCEPT !.status = s], "finished")
       \/ /\ "quota" \in Controls
          /\ pc[i] = "run"
          /\ work[i].done < Parts
          /\ SaveAs(i, QuotaBroken(work[i]), "finished")
    /\ UNCHANGED <<running, cancelled, terminated>> /\ OnlyRunner

\* cleanupRunning removes whatever instance is registered.
CleanupRunning(i) ==
    /\ pc[i] = "finished"
    /\ running' = Unregistered
    /\ Goto(i, "idle")
    /\ work' = [work EXCEPT ![i] = NoWorkflow]
    /\ cancelled' = [cancelled EXCEPT ![i] = FALSE]
    /\ terminated' = [terminated EXCEPT ![i] = FALSE]
    /\ UNCHANGED repoVars /\ OnlyRunner

-----------------------------------------------------------------------------
(* Control                                                                 *)

\* Refused while the workflow is being analysed; before runScheduler has set
\* the scheduler the context is cancelled instead.
Terminate ==
    /\ "terminate" \in Controls
    /\ running.owner # Nobody
    /\ stored.status # "analyzing"
    /\ IF running.scheduler # Nobody
       THEN /\ terminated' = [terminated EXCEPT ![running.scheduler] = TRUE]
            /\ UNCHANGED cancelled
       ELSE /\ cancelled' = [cancelled EXCEPT ![running.owner] = TRUE]
            /\ UNCHANGED terminated
    /\ UNCHANGED <<repoVars, running, pc, work>> /\ OnlyRunner

\* The client goes on at p with w in hand.
UserGoto(u, p, w) ==
    /\ user' = [user EXCEPT ![u] = p]
    /\ userCopy' = [userCopy EXCEPT ![u] = w]
OnlyUser == UNCHANGED <<sweepVars, quotaVars, bootVars>>

\* A registered scheduler takes the retry itself: RequestRetry.
SubmitRetry(u) ==
    /\ "retry" \in Controls
    /\ user[u] = "idle"
    /\ running.scheduler # Nobody
    /\ restarts < MaxRestarts
    /\ restarts' = restarts + 1
    /\ UNCHANGED <<repoVars, runnerVars, user, userCopy>> /\ OnlyUser

\* Control finds nothing registered.
RetryLooks(u) ==
    /\ "retry" \in Controls
    /\ user[u] = "idle"
    /\ stored.status # "none"
    /\ running.owner = Nobody
    /\ restarts < MaxRestarts
    /\ restarts' = restarts + 1
    /\ UserGoto(u, "get", NoWorkflow)
    /\ UNCHANGED <<repoVars, runnerVars>> /\ OnlyUser

\* repo.Get, and the node must be in it.
RetryReads(u) ==
    /\ user[u] = "get"
    /\ IF stored.analysed
       THEN UserGoto(u, "check", stored)
       ELSE UserGoto(u, "idle", NoWorkflow)
    /\ UNCHANGED <<repoVars, runnerVars, restarts>> /\ OnlyUser

RestartChecks(u) ==
    /\ user[u] = "check"
    /\ IF running.owner = Nobody
       THEN UserGoto(u, "save", userCopy[u])
       ELSE UserGoto(u, "idle", NoWorkflow)
    /\ UNCHANGED <<repoVars, runnerVars, restarts>> /\ OnlyUser

\* resetForRetry leaves the completed nodes alone, except the retried one if
\* it is one of them.  QuotaResumeAt stays as it is.
RestartSaves(u) ==
    /\ user[u] = "save"
    /\ \E d \in {userCopy[u].done, userCopy[u].done - 1} \cap (0..Parts) :
           LET w == [userCopy[u] EXCEPT !.status = "running", !.done = d]
           IN  Save(w) /\ UserGoto(u, "register", w)
    /\ UNCHANGED <<runnerVars, restarts>> /\ OnlyUser

\* Mutant of RestartRegisters: the goroutine is never started.
RestartRegistersNobody(u) ==
    /\ user[u] = "register"
    /\ UserGoto(u, "idle", NoWorkflow)
    /\ UNCHANGED <<repoVars, runnerVars, restarts>> /\ OnlyUser

RestartRegisters(u) ==
    /\ user[u] = "register"
    /\ Launch(userCopy[u], "start")
    /\ UserGoto(u, "idle", NoWorkflow)
    /\ UNCHANGED <<repoVars, restarts>> /\ OnlyUser

-----------------------------------------------------------------------------
(* The stuck-watchdog                                                      *)

\* Nothing is saved for longer than the threshold: a run may be slow or
\* stuck.  A parked workflow is saved by the heartbeat of the quota watch, and
\* resumed when its window is over, unless something is registered.
TimePasses ==
    /\ "sweep" \in Controls
    /\ stored.status \in Unfinished
    /\ stored.status = "interrupted" /\ stored.parked => running.owner # Nobody
    /\ ~stale
    /\ stale' = TRUE
    /\ UNCHANGED <<stored, runnerVars, userVars, sweepVars, quotaVars, bootVars>>

OnlySweeper == UNCHANGED <<userVars, quotaVars, bootVars>>

\* SweepStale reads the unfinished workflows and finds this one stale.
SweepLists ==
    /\ sweeper = "idle"
    /\ recovery = "done"
    /\ stored.status \in Unfinished
    /\ stale
    /\ sweepCopy' = stored
    /\ sweeper' = "cancel"
    /\ UNCHANGED <<repoVars, runnerVars>> /\ OnlySweeper

\* forceFailStale: cancel the registered goroutine, save the copy as failed,
\* cleanupRunning.
SweepCancels ==
    /\ sweeper = "cancel"
    /\ cancelled' = [i \in Runners |-> cancelled[i] \/ i = running.owner]
    /\ sweeper' = "save"
    /\ UNCHANGED <<repoVars, running, pc, work, terminated, sweepCopy>> /\ OnlySweeper

SweepSaves ==
    /\ sweeper = "save"
    /\ Save([sweepCopy EXCEPT !.status = "failed"])
    /\ sweeper' = "clean"
    /\ sweepCopy' = NoWorkflow
    /\ UNCHANGED runnerVars /\ OnlySweeper

SweepCleans ==
    /\ sweeper = "clean"
    /\ running' = Unregistered
    /\ sweeper' = "idle"
    /\ UNCHANGED <<repoVars, pc, work, cancelled, terminated, sweepCopy>> /\ OnlySweeper

-----------------------------------------------------------------------------
(* The quota-watchdog                                                      *)

QuotaGoto(p, w) == quotaWatch' = p /\ quotaCopy' = w
OnlyQuotaWatch == UNCHANGED <<userVars, sweepVars, bootVars>>

\* Mutant of QuotaLists: the watch does not wait for Recover.
QuotaListsEarly ==
    /\ quotaWatch = "idle"
    /\ stored.status = "interrupted" /\ stored.parked
    /\ QuotaGoto("listed", stored)
    /\ UNCHANGED <<repoVars, runnerVars>> /\ OnlyQuotaWatch

\* ResumeQuotaInterrupted reads the unfinished workflows and finds this one
\* parked.
QuotaLists ==
    /\ quotaWatch = "idle"
    /\ recovery = "done"
    /\ stored.status = "interrupted" /\ stored.parked
    /\ QuotaGoto("listed", stored)
    /\ UNCHANGED <<repoVars, runnerVars>> /\ OnlyQuotaWatch

\* The window is not over: feedQuotaWatchdog saves the copy, if it is older
\* than ten minutes.
QuotaHeartbeat ==
    /\ quotaWatch = "listed"
    /\ Save(quotaCopy) \/ UNCHANGED repoVars
    /\ QuotaGoto("idle", NoWorkflow)
    /\ UNCHANGED runnerVars /\ OnlyQuotaWatch

\* The window is over: resumeQuotaInterrupted, unless something is running.
QuotaChecks ==
    /\ quotaWatch = "listed"
    /\ IF running.owner = Nobody
       THEN QuotaGoto("save", quotaCopy) ELSE QuotaGoto("idle", NoWorkflow)
    /\ UNCHANGED <<repoVars, runnerVars>> /\ OnlyQuotaWatch

QuotaSaves ==
    /\ quotaWatch = "save"
    /\ LET w == [quotaCopy EXCEPT !.status = "running", !.parked = FALSE]
       IN  Save(w) /\ QuotaGoto("register", w)
    /\ UNCHANGED runnerVars /\ OnlyQuotaWatch

\* The workflow does not compile.
QuotaGivesUp ==
    /\ quotaWatch = "save"
    /\ Save([quotaCopy EXCEPT !.status = "failed", !.parked = FALSE])
    /\ QuotaGoto("idle", NoWorkflow)
    /\ UNCHANGED runnerVars /\ OnlyQuotaWatch

\* Mutant of QuotaRegisters: the goroutine is never started.
QuotaRegistersNobody ==
    /\ quotaWatch = "register"
    /\ QuotaGoto("idle", NoWorkflow)
    /\ UNCHANGED <<repoVars, runnerVars>> /\ OnlyQuotaWatch

QuotaRegisters ==
    /\ quotaWatch = "register"
    /\ Launch(quotaCopy, "start")
    /\ QuotaGoto("idle", NoWorkflow)
    /\ UNCHANGED repoVars /\ OnlyQuotaWatch

-----------------------------------------------------------------------------
(* Crashes, and Recover at the next start                                  *)

\* All that is left is the repository.
Crash ==
    /\ crashes < MaxCrashes
    /\ stored.status # "none"
    /\ crashes' = crashes + 1
    /\ recovery' = "list" /\ recoverCopy' = NoWorkflow
    /\ running' = Unregistered
    /\ pc' = [i \in Runners |-> "idle"]
    /\ work' = [i \in Runners |-> NoWorkflow]
    /\ cancelled' = [i \in Runners |-> FALSE]
    /\ terminated' = [i \in Runners |-> FALSE]
    /\ user' = [u \in Users |-> "idle"]
    /\ userCopy' = [u \in Users |-> NoWorkflow]
    /\ sweeper' = "idle" /\ sweepCopy' = NoWorkflow
    /\ quotaWatch' = "idle" /\ quotaCopy' = NoWorkflow
    /\ UNCHANGED <<repoVars, restarts>>

OnlyRecovery == UNCHANGED <<userVars, sweepVars, quotaVars, crashes>>

RecoverGoto(p, w) == recovery' = p /\ recoverCopy' = w

\* Mutant of RecoverLists: finished workflows are recovered, too.
RecoverListsAll ==
    /\ recovery = "list"
    /\ RecoverGoto("check", stored)
    /\ UNCHANGED <<repoVars, runnerVars>> /\ OnlyRecovery

\* FindNonTerminal.
RecoverLists ==
    /\ recovery = "list"
    /\ IF stored.status \in Unfinished
       THEN RecoverGoto("check", stored) ELSE RecoverGoto("done", NoWorkflow)
    /\ UNCHANGED <<repoVars, runnerVars>> /\ OnlyRecovery

\* What is running is skipped; a parked workflow is left to the quota watch as
\* long as its window is not over.
RecoverSkips ==
    /\ recovery = "check"
    /\ \/ running.owner # Nobody
       \/ recoverCopy.status = "interrupted" /\ recoverCopy.parked
    /\ RecoverGoto("done", NoWorkflow)
    /\ UNCHANGED <<repoVars, runnerVars>> /\ OnlyRecovery

RecoverPasses ==
    /\ recovery = "check"
    /\ running.owner = Nobody
    /\ RecoverGoto("mark", recoverCopy)
    /\ UNCHANGED <<repoVars, runnerVars>> /\ OnlyRecovery

RecoverMarks ==
    /\ recovery = "mark"
    /\ Save([recoverCopy EXCEPT !.status = "interrupted"])
    /\ RecoverGoto("save", recoverCopy)
    /\ UNCHANGED runnerVars /\ OnlyRecovery

\* Mutant of RecoverSaves: the completed nodes are run again.
RecoverSavesOver ==
    /\ recovery = "save"
    /\ LET w == [recoverCopy EXCEPT !.status = "running", !.done = 0]
       IN  Save(w) /\ RecoverGoto("register", w)
    /\ UNCHANGED runnerVars /\ OnlyRecovery

\* Without nodes the analysis starts again; otherwise the nodes that were in
\* progress go back to pending and the scheduler goes on.
RecoverSaves ==
    /\ recovery = "save"
    /\ LET w == [recoverCopy EXCEPT !.status =
                    IF recoverCopy.analysed THEN "running" ELSE "analyzing"]
       IN  Save(w) /\ RecoverGoto("register", w)
    /\ UNCHANGED runnerVars /\ OnlyRecovery

\* The workflow does not compile.
RecoverGivesUp ==
    /\ recovery = "save"
    /\ recoverCopy.analysed
    /\ Save([recoverCopy EXCEPT !.status = "failed"])
    /\ RecoverGoto("done", NoWorkflow)
    /\ UNCHANGED runnerVars /\ OnlyRecovery

RecoverRegisters ==
    /\ recovery = "register"
    /\ Launch(recoverCopy, IF recoverCopy.analysed THEN "start" ELSE "analyze")
    /\ RecoverGoto("done", NoWorkflow)
    /\ UNCHANGED repoVars /\ OnlyRecovery

-----------------------------------------------------------------------------

Runner(i) ==
    \/ AnalysisAttempt(i) \/ Analyzed(i) \/ AnalysisFailed(i)
    \/ SetScheduler(i) \/ RunBegins(i) \/ NodeCompleted(i) \/ RunStalls(i) \/ RunEnds(i)
    \/ CleanupRunning(i)

Restart(u) ==
    \/ RetryReads(u) \/ RestartChecks(u) \/ RestartSaves(u) \/ RestartRegisters(u)

Sweep == SweepLists \/ SweepCancels \/ SweepSaves \/ SweepCleans

QuotaWatch ==
    \/ QuotaLists \/ QuotaHeartbeat \/ QuotaChecks
    \/ QuotaSaves \/ QuotaGivesUp \/ QuotaRegisters

Recover ==
    \/ RecoverLists \/ RecoverSkips \/ RecoverPasses \/ RecoverMarks
    \/ RecoverSaves \/ RecoverGivesUp \/ RecoverRegisters

\* Nothing has to happen once the workflow has ended.
Ended == stored.status \in Finished /\ UNCHANGED vars

Next ==
    \/ Submit \/ Terminate \/ TimePasses \/ Crash
    \/ \E i \in Runners : Runner(i)
    \/ \E u \in Users : SubmitRetry(u) \/ RetryLooks(u) \/ Restart(u)
    \/ Sweep \/ QuotaWatch \/ Recover
    \/ Ended

Spec == Init /\ [][Next]_vars

\* Nothing moves in a run that is stuck, so it is not saved for long enough.
TimeRunsOut == TimePasses /\ \E i \in Runners : pc[i] = "stuck"

\* Goroutines that can go on do; what a run does ends; and a quota window
\* that is looked at every 30 seconds is over one day.  That a run takes too
\* long is assumed of none but a stuck one: for all others the stuck-watchdog
\* is not relied on.  A heartbeat delays that, but only until the window is over.
Fairness ==
    /\ \A i \in Runners : WF_vars(Runner(i))
    /\ \A u \in Users : WF_vars(Restart(u))
    /\ WF_vars(Sweep) /\ SF_vars(SweepLists) /\ WF_vars(Recover)
    /\ WF_vars(QuotaWatch) /\ SF_vars(QuotaChecks)
    /\ WF_vars(TimeRunsOut)

FairSpec == Spec /\ Fairness

-----------------------------------------------------------------------------

RunnerPc == {"idle", "analyze", "attempt", "start", "begin", "run", "stuck", "finished"}

TypeOK ==
    /\ stored \in Workflow
    /\ stale \in BOOLEAN
    /\ running \in [owner : Runners \cup {Nobody}, scheduler : Runners \cup {Nobody}]
    /\ pc \in [Runners -> RunnerPc]
    /\ work \in [Runners -> Workflow]
    /\ cancelled \in [Runners -> BOOLEAN]
    /\ terminated \in [Runners -> BOOLEAN]
    /\ recovery \in {"list", "check", "mark", "save", "register", "done"}
    /\ recoverCopy \in Workflow
    /\ user \in [Users -> {"idle", "get", "check", "save", "register"}]
    /\ userCopy \in [Users -> Workflow]
    /\ sweeper \in {"idle", "cancel", "save", "clean"}
    /\ sweepCopy \in Workflow
    /\ quotaWatch \in {"idle", "listed", "save", "register"}
    /\ quotaCopy \in Workflow
    /\ crashes \in 0..MaxCrashes
    /\ restarts \in 0..MaxRestarts

Live(i) == pc[i] \in RunnerPc \ {"idle", "finished"}

\* At most one goroutine runs the workflow (manager.go:1427).
OneRunner == \A i, j \in Runners : Live(i) /\ Live(j) => i = j

\* A scheduler that runs is the one Control finds, to terminate it or to hand
\* it a retry.
Reachable ==
    \A i \in Runners : pc[i] \in {"run", "stuck"} => running = [owner |-> i, scheduler |-> i]

\* A workflow stored as being worked on is worked on, or someone is about to:
\* whoever crashes, resumes or sweeps, nobody leaves it behind.
Owned ==
    stored.status \in {"analyzing", "running"} =>
        \/ recovery # "done"
        \/ \E i \in Runners : Live(i)
        \/ \E u \in Users : user[u] = "register"
        \/ quotaWatch = "register"

\* A workflow stored as interrupted has the time of its resumption with it:
\* without one, only the stuck-watchdog would ever look at it again
\* (manager.go:712).
ParkedHasTime == stored.status = "interrupted" /\ recovery = "done" => stored.parked

\* Completed nodes that were saved are not lost, by a crash or by a save of
\* an older copy, as long as no client retries them.
WorkKept == [][stored'.done >= stored.done]_vars

\* A workflow that has ended stays as it ended.
EndStands ==
    [][stored.status \in Finished => stored'.status = stored.status]_vars

\* Every workflow ends, through crashes, quota windows, a client's restart and
\* both watchdogs: a run that has got stuck is failed by the stuck-watchdog
\* (manager.go:624), whatever older copies are saved over it meanwhile.
Ends == stored.status \in Unfinished ~> stored.status \in Finished

=============================================================================

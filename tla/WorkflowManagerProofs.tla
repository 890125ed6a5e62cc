----------------------- MODULE WorkflowManagerProofs -----------------------
(***************************************************************************)
(* Proofs about WorkflowManager: its types under everything that may       *)
(* happen, and, as long as neither clients nor the stuck-watchdog          *)
(* interfere, that there is one goroutine, that it holds what is stored,   *)
(* and that no crash and no quota window leaves the workflow behind.       *)
(***************************************************************************)
EXTENDS WorkflowManager, TLAPS

(***************************************************************************)
(* What the code makes of a workflow is a workflow.                        *)
(***************************************************************************)
LEMMA NoWorkflowType == NoWorkflow \in Workflow
  BY ManagerParameters DEF NoWorkflow, Workflow

LEMMA StatusType ==
  ASSUME NEW w \in Workflow, NEW s \in Unfinished \cup Finished
  PROVE  /\ [w EXCEPT !.status = s] \in Workflow
         /\ [w EXCEPT !.status = s].status = s
         /\ [w EXCEPT !.status = s].done = w.done
         /\ [w EXCEPT !.status = s].parked = w.parked
         /\ [w EXCEPT !.status = s].analysed = w.analysed
  BY DEF Workflow

LEMMA QuotaBrokenType ==
  ASSUME NEW w \in Workflow
  PROVE  /\ QuotaBroken(w) \in Workflow
         /\ QuotaBroken(w).done = w.done
         /\ \/ QuotaBroken(w).status = "interrupted" /\ QuotaBroken(w).parked = TRUE
            \/ QuotaBroken(w).status = "failed"
<1>1. CASE w.breaks < MaxQuotaBreaks
  <2>1. w.breaks + 1 \in 0..(MaxQuotaBreaks + 1)
    BY <1>1, ManagerParameters DEF Workflow
  <2>2. QuotaBroken(w) = [w EXCEPT !.status = "interrupted", !.parked = TRUE,
                                   !.breaks = w.breaks + 1]
    BY <1>1 DEF QuotaBroken
  <2> QED
    BY <2>1, <2>2 DEF Workflow, Unfinished
<1>2. CASE ~(w.breaks < MaxQuotaBreaks)
  <2>1. MaxQuotaBreaks + 1 \in 0..(MaxQuotaBreaks + 1)
    BY ManagerParameters
  <2>2. QuotaBroken(w) = [w EXCEPT !.status = "failed", !.parked = FALSE,
                                   !.breaks = MaxQuotaBreaks + 1]
    BY <1>2 DEF QuotaBroken
  <2> QED
    BY <2>1, <2>2 DEF Workflow, Finished
<1> QED
  BY <1>1, <1>2

(***************************************************************************)
(* TypeOK, one group of variables at a time.                               *)
(***************************************************************************)
RunningRecord == [owner : Runners \cup {Nobody}, scheduler : Runners \cup {Nobody}]
UserPc == {"idle", "get", "check", "save", "register"}

RunnersTyped ==
  /\ running \in RunningRecord
  /\ pc \in [Runners -> RunnerPc]
  /\ work \in [Runners -> Workflow]
  /\ cancelled \in [Runners -> BOOLEAN]
  /\ terminated \in [Runners -> BOOLEAN]
RepoTyped == stored \in Workflow /\ stale \in BOOLEAN
UsersTyped ==
  /\ user \in [Users -> UserPc] /\ userCopy \in [Users -> Workflow]
  /\ restarts \in 0..MaxRestarts
SweepTyped == sweeper \in {"idle", "cancel", "save", "clean"} /\ sweepCopy \in Workflow
QuotaTyped ==
  quotaWatch \in {"idle", "listed", "save", "register"} /\ quotaCopy \in Workflow
BootTyped ==
  /\ recovery \in {"list", "check", "mark", "save", "register", "done"}
  /\ recoverCopy \in Workflow
  /\ crashes \in 0..MaxCrashes

AllTyped ==
  RepoTyped /\ RunnersTyped /\ UsersTyped /\ SweepTyped /\ QuotaTyped /\ BootTyped

LEMMA TypeOKParts == (TypeOK <=> AllTyped) /\ (TypeOK' <=> AllTyped')
  BY DEF TypeOK, AllTyped, RepoTyped, RunnersTyped, UsersTyped, SweepTyped, QuotaTyped,
         BootTyped, RunningRecord, UserPc

LEMMA UnchangedTyped ==
  ASSUME TypeOK
  PROVE  /\ UNCHANGED repoVars => RepoTyped'
         /\ UNCHANGED runnerVars => RunnersTyped'
         /\ UNCHANGED userVars => UsersTyped'
         /\ UNCHANGED sweepVars => SweepTyped'
         /\ UNCHANGED quotaVars => QuotaTyped'
         /\ UNCHANGED bootVars => BootTyped'
  BY TypeOKParts DEF AllTyped, RepoTyped, RunnersTyped, UsersTyped, SweepTyped, QuotaTyped,
     BootTyped, repoVars, runnerVars, userVars, sweepVars, quotaVars, bootVars

LEMMA SaveTyped == ASSUME NEW w \in Workflow, Save(w) PROVE RepoTyped'
  BY DEF Save, RepoTyped

LEMMA SaveAsTyped ==
  ASSUME TypeOK, NEW i \in Runners, NEW w \in Workflow, NEW p \in RunnerPc,
         SaveAs(i, w, p), UNCHANGED <<running, cancelled, terminated>>, OnlyRunner
  PROVE  TypeOK'
<1>1. RepoTyped'
  BY SaveTyped DEF SaveAs
<1>2. RunnersTyped'
  BY TypeOKParts DEF AllTyped, SaveAs, Goto, RunnersTyped
<1> QED
  BY <1>1, <1>2, UnchangedTyped, TypeOKParts DEF AllTyped, OnlyRunner

LEMMA LaunchTyped ==
  ASSUME TypeOK, NEW w \in Workflow, NEW p \in RunnerPc, Launch(w, p)
  PROVE  RunnersTyped'
  BY TypeOKParts DEF AllTyped, Launch, RunnersTyped, RunningRecord

LEMMA InitTyped == Init => TypeOK
<1> SUFFICES ASSUME Init PROVE TypeOK
  OBVIOUS
<1>1. RepoTyped
  BY NoWorkflowType DEF Init, RepoTyped
<1>2. RunnersTyped
  BY NoWorkflowType DEF Init, RunnersTyped, RunningRecord, Unregistered, RunnerPc
<1>3. UsersTyped
  BY NoWorkflowType, ManagerParameters DEF Init, UsersTyped, UserPc
<1>4. SweepTyped /\ QuotaTyped
  BY NoWorkflowType DEF Init, SweepTyped, QuotaTyped
<1>5. BootTyped
  BY NoWorkflowType, ManagerParameters DEF Init, BootTyped
<1> QED
  BY <1>1, <1>2, <1>3, <1>4, <1>5, TypeOKParts DEF AllTyped

LEMMA RunnerTyped ==
  ASSUME TypeOK, NEW i \in Runners, Runner(i)
  PROVE  TypeOK'
<1>0. work[i] \in Workflow
  BY DEF TypeOK
<1>1. CASE AnalysisAttempt(i)
  BY <1>0, <1>1, SaveAsTyped DEF AnalysisAttempt, RunnerPc
<1>2. CASE Analyzed(i)
  <2>1. [work[i] EXCEPT !.analysed = TRUE] \in Workflow
    BY <1>0 DEF Workflow
  <2> QED
    BY <1>2, <2>1, SaveAsTyped DEF Analyzed, RunnerPc
<1>3. CASE AnalysisFailed(i)
  <2>1. PICK s \in {"failed", "terminated"} :
             SaveAs(i, [work[i] EXCEPT !.status = s], "finished")
    BY <1>3 DEF AnalysisFailed
  <2>2. [work[i] EXCEPT !.status = s] \in Workflow
    BY <1>0, StatusType DEF Finished
  <2> QED
    BY <1>3, <2>1, <2>2, SaveAsTyped DEF AnalysisFailed, RunnerPc
<1>4. CASE SetScheduler(i)
  <2>1. RunnersTyped'
    BY <1>4, TypeOKParts DEF AllTyped, SetScheduler, Goto, RunnersTyped, RunningRecord, RunnerPc
  <2> QED
    BY <1>4, <2>1, UnchangedTyped, TypeOKParts DEF AllTyped, SetScheduler, OnlyRunner
<1>5. CASE RunBegins(i)
  <2>1. [work[i] EXCEPT !.status = "running"] \in Workflow
    BY <1>0, StatusType DEF Unfinished
  <2> QED
    BY <1>5, <2>1, SaveAsTyped DEF RunBegins, RunnerPc
<1>6. CASE NodeCompleted(i)
  <2>1. [work[i] EXCEPT !.done = @ + 1] \in Workflow
    BY <1>0, <1>6, ManagerParameters DEF NodeCompleted, Workflow
  <2> QED
    BY <1>6, <2>1, SaveAsTyped DEF NodeCompleted, RunnerPc
<1>7. CASE RunEnds(i)
  <2>1. CASE \E s \in FinalStatus(i) : SaveAs(i, [work[i] EXCEPT !.status = s], "finished")
    <3>1. PICK s \in FinalStatus(i) : SaveAs(i, [work[i] EXCEPT !.status = s], "finished")
      BY <2>1
    <3>2. s \in Finished
      BY <3>1 DEF FinalStatus, Finished
    <3>3. [work[i] EXCEPT !.status = s] \in Workflow
      BY <1>0, <3>2, StatusType
    <3> QED
      BY <1>7, <3>1, <3>3, SaveAsTyped DEF RunEnds, RunnerPc
  <2>2. CASE SaveAs(i, QuotaBroken(work[i]), "finished")
    BY <1>0, <1>7, <2>2, QuotaBrokenType, SaveAsTyped DEF RunEnds, RunnerPc
  <2> QED
    BY <1>7, <2>1, <2>2 DEF RunEnds
<1>8. CASE CleanupRunning(i)
  <2>1. RunnersTyped'
    BY <1>8, TypeOKParts, NoWorkflowType
       DEF AllTyped, CleanupRunning, Goto, RunnersTyped, RunningRecord, Unregistered, RunnerPc
  <2> QED
    BY <1>8, <2>1, UnchangedTyped, TypeOKParts DEF AllTyped, CleanupRunning, OnlyRunner
<1>9. CASE RunStalls(i)
  <2>1. RunnersTyped'
    BY <1>9, TypeOKParts DEF AllTyped, RunStalls, Goto, RunnersTyped, RunnerPc
  <2> QED
    BY <1>9, <2>1, UnchangedTyped, TypeOKParts DEF AllTyped, RunStalls, OnlyRunner
<1> QED
  BY <1>1, <1>2, <1>3, <1>4, <1>5, <1>6, <1>7, <1>8, <1>9 DEF Runner

LEMMA SubmitTyped == TypeOK /\ Submit => TypeOK'
<1> SUFFICES ASSUME TypeOK, Submit PROVE TypeOK'
  OBVIOUS
<1> DEFINE w == [NoWorkflow EXCEPT !.status = "analyzing"]
<1>1. w \in Workflow
  BY NoWorkflowType, StatusType DEF Unfinished
<1>2. Save(w) /\ Launch(w, "analyze")
  BY DEF Submit
<1> HIDE DEF w
<1>3. RepoTyped' /\ RunnersTyped'
  BY <1>1, <1>2, SaveTyped, LaunchTyped DEF RunnerPc
<1> QED
  BY <1>3, UnchangedTyped, TypeOKParts DEF AllTyped, Submit, OnlyRunner

LEMMA TerminateTyped == TypeOK /\ Terminate => TypeOK'
<1> SUFFICES ASSUME TypeOK, Terminate PROVE TypeOK'
  OBVIOUS
<1>1. RunnersTyped'
  BY TypeOKParts DEF AllTyped, Terminate, RunnersTyped, RunningRecord
<1> QED
  BY <1>1, UnchangedTyped, TypeOKParts DEF AllTyped, Terminate, OnlyRunner

LEMMA TimePassesTyped == TypeOK /\ TimePasses => TypeOK'
<1> SUFFICES ASSUME TypeOK, TimePasses PROVE TypeOK'
  OBVIOUS
<1>1. RepoTyped'
  BY TypeOKParts DEF AllTyped, TimePasses, RepoTyped
<1> QED
  BY <1>1, UnchangedTyped, TypeOKParts DEF AllTyped, TimePasses

LEMMA CrashTyped == TypeOK /\ Crash => TypeOK'
<1> SUFFICES ASSUME TypeOK, Crash PROVE TypeOK'
  OBVIOUS
<1>1. RunnersTyped'
  BY NoWorkflowType DEF Crash, RunnersTyped, RunningRecord, Unregistered, RunnerPc
<1>2. UsersTyped'
  BY NoWorkflowType, TypeOKParts DEF AllTyped, Crash, UsersTyped, UserPc
<1>3. SweepTyped' /\ QuotaTyped'
  BY NoWorkflowType DEF Crash, SweepTyped, QuotaTyped
<1>4. BootTyped'
  BY NoWorkflowType, ManagerParameters, TypeOKParts DEF AllTyped, Crash, BootTyped
<1> QED
  BY <1>1, <1>2, <1>3, <1>4, UnchangedTyped, TypeOKParts DEF AllTyped, Crash

LEMMA UserTyped ==
  ASSUME TypeOK, NEW u \in Users, SubmitRetry(u) \/ RetryLooks(u) \/ Restart(u)
  PROVE  TypeOK'
<1>0. userCopy[u] \in Workflow /\ stored \in Workflow
  BY DEF TypeOK
<1>1. ASSUME NEW p \in UserPc, NEW w \in Workflow, UserGoto(u, p, w),
             UNCHANGED restarts
      PROVE  UsersTyped'
  BY <1>1, TypeOKParts DEF AllTyped, UsersTyped, UserGoto
<1>2. CASE RetryLooks(u)
  <2>1. UsersTyped'
    BY <1>2, TypeOKParts, NoWorkflowType, ManagerParameters
       DEF AllTyped, RetryLooks, UsersTyped, UserGoto, UserPc
  <2> QED
    BY <1>2, <2>1, UnchangedTyped, TypeOKParts DEF AllTyped, RetryLooks, OnlyUser
<1>3. CASE RetryReads(u)
  <2>1. UsersTyped'
    BY <1>0, <1>1, <1>3, NoWorkflowType DEF RetryReads, UserPc
  <2> QED
    BY <1>3, <2>1, UnchangedTyped, TypeOKParts DEF AllTyped, RetryReads, OnlyUser
<1>4. CASE RestartChecks(u)
  <2>1. UsersTyped'
    BY <1>0, <1>1, <1>4, NoWorkflowType DEF RestartChecks, UserPc
  <2> QED
    BY <1>4, <2>1, UnchangedTyped, TypeOKParts DEF AllTyped, RestartChecks, OnlyUser
<1>5. CASE RestartSaves(u)
  <2>1. PICK d \in 0..Parts :
               LET w == [userCopy[u] EXCEPT !.status = "running", !.done = d]
               IN  Save(w) /\ UserGoto(u, "register", w)
    BY <1>5 DEF RestartSaves
  <2> DEFINE w == [userCopy[u] EXCEPT !.status = "running", !.done = d]
  <2>2. w \in Workflow
    BY <1>0 DEF Workflow, Unfinished
  <2>3. Save(w) /\ UserGoto(u, "register", w)
    BY <2>1
  <2> HIDE DEF w
  <2>4. UsersTyped'
    BY <1>1, <1>5, <2>2, <2>3 DEF RestartSaves, UserPc
  <2>5. RepoTyped'
    BY <2>2, <2>3, SaveTyped
  <2> QED
    BY <1>5, <2>4, <2>5, UnchangedTyped, TypeOKParts DEF AllTyped, RestartSaves, OnlyUser
<1>6. CASE RestartRegisters(u)
  <2>1. UsersTyped'
    BY <1>1, <1>6, NoWorkflowType DEF RestartRegisters, UserPc
  <2>2. RunnersTyped'
    BY <1>0, <1>6, LaunchTyped DEF RestartRegisters, RunnerPc
  <2> QED
    BY <1>6, <2>1, <2>2, UnchangedTyped, TypeOKParts
       DEF AllTyped, RestartRegisters, OnlyUser
<1>7. CASE SubmitRetry(u)
  <2>1. UsersTyped'
    BY <1>7, TypeOKParts, ManagerParameters DEF AllTyped, SubmitRetry, UsersTyped
  <2> QED
    BY <1>7, <2>1, UnchangedTyped, TypeOKParts DEF AllTyped, SubmitRetry, OnlyUser
<1> QED
  BY <1>2, <1>3, <1>4, <1>5, <1>6, <1>7 DEF Restart

LEMMA SweeperTyped == TypeOK /\ Sweep => TypeOK'
<1> SUFFICES ASSUME TypeOK, Sweep PROVE TypeOK'
  OBVIOUS
<1>0. sweepCopy \in Workflow /\ stored \in Workflow
  BY DEF TypeOK
<1>1. CASE SweepLists
  <2>1. SweepTyped'
    BY <1>0, <1>1 DEF SweepLists, SweepTyped
  <2> QED
    BY <1>1, <2>1, UnchangedTyped, TypeOKParts DEF AllTyped, SweepLists, OnlySweeper
<1>2. CASE SweepCancels
  <2>1. SweepTyped' /\ RunnersTyped'
    BY <1>2, TypeOKParts DEF AllTyped, SweepCancels, SweepTyped, RunnersTyped
  <2> QED
    BY <1>2, <2>1, UnchangedTyped, TypeOKParts DEF AllTyped, SweepCancels, OnlySweeper
<1>3. CASE SweepSaves
  <2>1. [sweepCopy EXCEPT !.status = "failed"] \in Workflow
    BY <1>0, StatusType DEF Finished
  <2>2. RepoTyped'
    BY <1>3, <2>1, SaveTyped DEF SweepSaves
  <2>3. SweepTyped'
    BY <1>3, NoWorkflowType DEF SweepSaves, SweepTyped
  <2> QED
    BY <1>3, <2>2, <2>3, UnchangedTyped, TypeOKParts DEF AllTyped, SweepSaves, OnlySweeper
<1>4. CASE SweepCleans
  <2>1. SweepTyped' /\ RunnersTyped'
    BY <1>4, TypeOKParts
       DEF AllTyped, SweepCleans, SweepTyped, RunnersTyped, RunningRecord, Unregistered
  <2> QED
    BY <1>4, <2>1, UnchangedTyped, TypeOKParts DEF AllTyped, SweepCleans, OnlySweeper
<1> QED
  BY <1>1, <1>2, <1>3, <1>4 DEF Sweep

LEMMA QuotaWatchTyped == TypeOK /\ QuotaWatch => TypeOK'
<1> SUFFICES ASSUME TypeOK, QuotaWatch PROVE TypeOK'
  OBVIOUS
<1>0. quotaCopy \in Workflow /\ stored \in Workflow
  BY DEF TypeOK
<1>1. ASSUME NEW p \in {"idle", "listed", "save", "register"}, NEW w \in Workflow,
             QuotaGoto(p, w)
      PROVE  QuotaTyped'
  BY <1>1 DEF QuotaTyped, QuotaGoto
<1>2. CASE QuotaLists
  <2>1. QuotaTyped'
    BY <1>0, <1>1, <1>2 DEF QuotaLists
  <2> QED
    BY <1>2, <2>1, UnchangedTyped, TypeOKParts DEF AllTyped, QuotaLists, OnlyQuotaWatch
<1>3. CASE QuotaHeartbeat
  <2>1. QuotaTyped' /\ RepoTyped'
    BY <1>0, <1>1, <1>3, NoWorkflowType, SaveTyped, UnchangedTyped DEF QuotaHeartbeat
  <2> QED
    BY <1>3, <2>1, UnchangedTyped, TypeOKParts DEF AllTyped, QuotaHeartbeat, OnlyQuotaWatch
<1>4. CASE QuotaChecks
  <2>1. QuotaTyped'
    BY <1>0, <1>1, <1>4, NoWorkflowType DEF QuotaChecks
  <2> QED
    BY <1>4, <2>1, UnchangedTyped, TypeOKParts DEF AllTyped, QuotaChecks, OnlyQuotaWatch
<1>5. CASE QuotaSaves
  <2> DEFINE w == [quotaCopy EXCEPT !.status = "running", !.parked = FALSE]
  <2>1. w \in Workflow
    BY <1>0 DEF Workflow, Unfinished
  <2>2. Save(w) /\ QuotaGoto("register", w)
    BY <1>5 DEF QuotaSaves
  <2> HIDE DEF w
  <2>3. QuotaTyped' /\ RepoTyped'
    BY <1>1, <2>1, <2>2, SaveTyped
  <2> QED
    BY <1>5, <2>3, UnchangedTyped, TypeOKParts DEF AllTyped, QuotaSaves, OnlyQuotaWatch
<1>6. CASE QuotaRegisters
  <2>1. QuotaTyped' /\ RunnersTyped'
    BY <1>0, <1>1, <1>6, NoWorkflowType, LaunchTyped DEF QuotaRegisters, RunnerPc
  <2> QED
    BY <1>6, <2>1, UnchangedTyped, TypeOKParts DEF AllTyped, QuotaRegisters, OnlyQuotaWatch
<1>7. CASE QuotaGivesUp
  <2> DEFINE w == [quotaCopy EXCEPT !.status = "failed", !.parked = FALSE]
  <2>1. w \in Workflow
    BY <1>0 DEF Workflow, Finished
  <2>2. Save(w)
    BY <1>7 DEF QuotaGivesUp
  <2> HIDE DEF w
  <2>3. QuotaTyped' /\ RepoTyped'
    BY <1>1, <1>7, <2>1, <2>2, NoWorkflowType, SaveTyped DEF QuotaGivesUp
  <2> QED
    BY <1>7, <2>3, UnchangedTyped, TypeOKParts DEF AllTyped, QuotaGivesUp, OnlyQuotaWatch
<1> QED
  BY <1>2, <1>3, <1>4, <1>5, <1>6, <1>7 DEF QuotaWatch

LEMMA RecoverTyped == TypeOK /\ Recover => TypeOK'
<1> SUFFICES ASSUME TypeOK, Recover PROVE TypeOK'
  OBVIOUS
<1>0. recoverCopy \in Workflow /\ stored \in Workflow
  BY DEF TypeOK
<1>1. ASSUME NEW p \in {"list", "check", "mark", "save", "register", "done"}, NEW w \in Workflow,
             RecoverGoto(p, w), UNCHANGED crashes
      PROVE  BootTyped'
  BY <1>1, TypeOKParts DEF AllTyped, BootTyped, RecoverGoto
<1>2. CASE RecoverLists
  <2>1. BootTyped'
    BY <1>0, <1>1, <1>2, NoWorkflowType DEF RecoverLists, OnlyRecovery
  <2> QED
    BY <1>2, <2>1, UnchangedTyped, TypeOKParts DEF AllTyped, RecoverLists, OnlyRecovery
<1>3. CASE RecoverSkips
  <2>1. BootTyped'
    BY <1>1, <1>3, NoWorkflowType DEF RecoverSkips, OnlyRecovery
  <2> QED
    BY <1>3, <2>1, UnchangedTyped, TypeOKParts DEF AllTyped, RecoverSkips, OnlyRecovery
<1>4. CASE RecoverMarks
  <2>1. [recoverCopy EXCEPT !.status = "interrupted"] \in Workflow
    BY <1>0, StatusType DEF Unfinished
  <2>2. BootTyped' /\ RepoTyped'
    BY <1>0, <1>1, <1>4, <2>1, SaveTyped DEF RecoverMarks, OnlyRecovery
  <2> QED
    BY <1>4, <2>2, UnchangedTyped, TypeOKParts DEF AllTyped, RecoverMarks, OnlyRecovery
<1>5. CASE RecoverSaves
  <2> DEFINE w == [recoverCopy EXCEPT !.status =
                     IF recoverCopy.analysed THEN "running" ELSE "analyzing"]
  <2>1. w \in Workflow
    BY <1>0, StatusType DEF Unfinished
  <2>2. Save(w) /\ RecoverGoto("register", w)
    BY <1>5 DEF RecoverSaves
  <2> HIDE DEF w
  <2>3. BootTyped' /\ RepoTyped'
    BY <1>1, <1>5, <2>1, <2>2, SaveTyped DEF RecoverSaves, OnlyRecovery
  <2> QED
    BY <1>5, <2>3, UnchangedTyped, TypeOKParts DEF AllTyped, RecoverSaves, OnlyRecovery
<1>6. CASE RecoverRegisters
  <2>1. BootTyped' /\ RunnersTyped'
    BY <1>0, <1>1, <1>6, NoWorkflowType, LaunchTyped DEF RecoverRegisters, OnlyRecovery, RunnerPc
  <2> QED
    BY <1>6, <2>1, UnchangedTyped, TypeOKParts DEF AllTyped, RecoverRegisters, OnlyRecovery
<1>7. CASE RecoverPasses
  <2>1. BootTyped'
    BY <1>0, <1>1, <1>7 DEF RecoverPasses, OnlyRecovery
  <2> QED
    BY <1>7, <2>1, UnchangedTyped, TypeOKParts DEF AllTyped, RecoverPasses, OnlyRecovery
<1>8. CASE RecoverGivesUp
  <2>1. [recoverCopy EXCEPT !.status = "failed"] \in Workflow
    BY <1>0, StatusType DEF Finished
  <2>2. BootTyped' /\ RepoTyped'
    BY <1>1, <1>8, <2>1, NoWorkflowType, SaveTyped DEF RecoverGivesUp, OnlyRecovery
  <2> QED
    BY <1>8, <2>2, UnchangedTyped, TypeOKParts DEF AllTyped, RecoverGivesUp, OnlyRecovery
<1> QED
  BY <1>2, <1>3, <1>4, <1>5, <1>6, <1>7, <1>8 DEF Recover

\* The types hold whatever happens: clients that retry, both watchdogs and
\* crashes included (manager.go, the Workflow object and what is kept of it).
THEOREM ManagerTypes == Spec => []TypeOK
<1>1. TypeOK /\ [Next]_vars => TypeOK'
  <2> SUFFICES ASSUME TypeOK, [Next]_vars PROVE TypeOK'
    OBVIOUS
  <2>1. CASE UNCHANGED vars
    BY <2>1, UnchangedTyped, TypeOKParts DEF AllTyped, vars
  <2>2. CASE Ended
    BY <2>2, UnchangedTyped, TypeOKParts DEF AllTyped, vars, Ended
  <2> QED
    BY <2>1, <2>2, SubmitTyped, TerminateTyped, TimePassesTyped, CrashTyped,
       RunnerTyped, UserTyped, SweeperTyped, QuotaWatchTyped, RecoverTyped DEF Next
<1> QED
  BY <1>1, InitTyped, PTL DEF Spec

(***************************************************************************)
(* The inductive invariant, for as long as no client restarts a node and   *)
(* the stuck-watchdog finds nothing stale: whoever has a copy of the       *)
(* workflow and may still save it has the copy that is stored.             *)
(***************************************************************************)
AtWork == {"analyzing", "running"}

GoroutineInv ==
  \A i \in Runners : pc[i] # "idle" =>
     /\ running.owner = i
     /\ work[i] = stored
     /\ stored.status # "none"
     /\ pc[i] \in {"begin", "run", "stuck"} => running.scheduler = i
     /\ pc[i] # "finished" => stored.status \in AtWork

QuotaInv ==
  quotaWatch # "idle" =>
     /\ recovery = "done"
     /\ quotaCopy = stored
     /\ quotaWatch # "register" => stored.status = "interrupted" /\ stored.parked
     /\ quotaWatch = "register" => stored.status = "running"
     /\ quotaWatch # "listed" => running.owner = Nobody

RecoverInv ==
  recovery # "done" =>
     /\ running.owner = Nobody
     /\ stored.status # "none"
     /\ recovery \in {"check", "mark", "register"} => recoverCopy = stored
     /\ recovery \in {"check", "mark", "save"} => recoverCopy.status \in Unfinished
     /\ recovery = "save" => stored = [recoverCopy EXCEPT !.status = "interrupted"]
     /\ recovery = "register" => stored.status \in AtWork

NoInterference ==
  sweeper = "idle" /\ stale = FALSE /\ \A u \in Users : user[u] = "idle"

ManagerInv ==
  /\ TypeOK
  /\ GoroutineInv /\ QuotaInv /\ RecoverInv /\ NoInterference
  /\ Owned /\ ParkedHasTime

LEMMA ManagerInit == Init => ManagerInv
<1> SUFFICES ASSUME Init PROVE ManagerInv
  OBVIOUS
<1>1. stored.status = "none" /\ recovery = "done" /\ quotaWatch = "idle"
  BY DEF Init, NoWorkflow
<1>2. GoroutineInv /\ NoInterference
  BY DEF Init, GoroutineInv, NoInterference
<1> QED
  BY <1>1, <1>2, InitTyped DEF ManagerInv, QuotaInv, RecoverInv, Owned, ParkedHasTime

\* The goroutine that is registered saves its object: nobody else has one.
LEMMA RunnerSaves ==
  ASSUME ManagerInv, NEW i \in Runners, NEW w \in Workflow, NEW p \in RunnerPc \ {"idle"},
         Live(i), SaveAs(i, w, p), UNCHANGED <<running, cancelled, terminated>>, OnlyRunner,
         w.status # "none",
         p # "finished" => w.status \in AtWork,
         p \in {"begin", "run", "stuck"} => running.scheduler = i,
         p = "finished" => /\ w.status \notin AtWork
                           /\ w.status = "interrupted" => w.parked
  PROVE  /\ GoroutineInv' /\ QuotaInv' /\ RecoverInv' /\ NoInterference'
         /\ Owned' /\ ParkedHasTime'
<1>1. /\ running.owner = i /\ i # Nobody
      /\ stored.status \in AtWork
      /\ \A j \in Runners \ {i} : pc[j] = "idle"
  BY ManagerParameters DEF ManagerInv, GoroutineInv, Live
<1>2. recovery = "done" /\ quotaWatch = "idle"
  BY <1>1 DEF ManagerInv, QuotaInv, RecoverInv, AtWork, TypeOK
<1>3. pc' = [pc EXCEPT ![i] = p] /\ work' = [work EXCEPT ![i] = w] /\ stored' = w /\ stale' = FALSE
  BY DEF SaveAs, Save, Goto
<1>4. pc \in [Runners -> RunnerPc] /\ work \in [Runners -> Workflow]
  BY DEF ManagerInv, TypeOK
<1>5. /\ recovery' = "done" /\ quotaWatch' = "idle" /\ running' = running
      /\ UNCHANGED <<user, sweeper>>
  BY <1>2 DEF OnlyRunner, userVars, sweepVars, quotaVars, bootVars
<1>6. GoroutineInv'
  BY <1>1, <1>3, <1>4, <1>5 DEF GoroutineInv
<1>7. QuotaInv' /\ RecoverInv' /\ NoInterference'
  BY <1>3, <1>5 DEF QuotaInv, RecoverInv, NoInterference, ManagerInv
<1>8. Owned'
  BY <1>3, <1>4 DEF Owned, Live, AtWork
<1>9. ParkedHasTime'
  BY <1>3 DEF ParkedHasTime, AtWork
<1> QED
  BY <1>6, <1>7, <1>8, <1>9

\* A goroutine that is started finds no other.
LEMMA Launches ==
  ASSUME TypeOK, NEW w \in Workflow, NEW p \in {"analyze", "start"},
         \A i \in Runners : pc[i] = "idle",
         Launch(w, p), stored' = w, w.status \in AtWork
  PROVE  /\ GoroutineInv' /\ Owned' /\ ParkedHasTime'
<1>1. PICK i \in Runners : /\ running' = [owner |-> i, scheduler |-> Nobody]
                           /\ pc' = [pc EXCEPT ![i] = p]
                           /\ work' = [work EXCEPT ![i] = w]
  BY DEF Launch
<1>2. pc \in [Runners -> RunnerPc] /\ work \in [Runners -> Workflow]
  BY DEF TypeOK
<1>3. GoroutineInv'
  BY <1>1, <1>2 DEF GoroutineInv, AtWork
<1>4. Owned'
  BY <1>1, <1>2 DEF Owned, Live, RunnerPc
<1>5. ParkedHasTime'
  BY DEF ParkedHasTime, AtWork
<1> QED
  BY <1>3, <1>4, <1>5

\* Nobody is registered: no goroutine is left.
LEMMA NobodyRuns ==
  ASSUME ManagerInv, running.owner = Nobody
  PROVE  \A i \in Runners : pc[i] = "idle"
  BY ManagerParameters DEF ManagerInv, GoroutineInv

LEMMA RunnerKeeps ==
  ASSUME ManagerInv, NEW i \in Runners, Runner(i)
  PROVE  /\ GoroutineInv' /\ QuotaInv' /\ RecoverInv' /\ NoInterference'
         /\ Owned' /\ ParkedHasTime'
<1>0. /\ work[i] \in Workflow
      /\ pc[i] # "idle" => work[i].status = stored.status
      /\ Live(i) => work[i].status \in AtWork
  BY DEF ManagerInv, TypeOK, GoroutineInv, Live
<1>1. CASE AnalysisAttempt(i)
  BY <1>0, <1>1, RunnerSaves DEF AnalysisAttempt, RunnerPc, Live, AtWork
<1>2. CASE Analyzed(i)
  <2>1. /\ [work[i] EXCEPT !.analysed = TRUE] \in Workflow
        /\ [work[i] EXCEPT !.analysed = TRUE].status = work[i].status
    BY <1>0 DEF Workflow
  <2> QED
    BY <1>0, <1>2, <2>1, RunnerSaves DEF Analyzed, RunnerPc, Live, AtWork
<1>3. CASE AnalysisFailed(i)
  <2>1. PICK s \in {"failed", "terminated"} :
             SaveAs(i, [work[i] EXCEPT !.status = s], "finished")
    BY <1>3 DEF AnalysisFailed
  <2>2. /\ [work[i] EXCEPT !.status = s] \in Workflow
        /\ [work[i] EXCEPT !.status = s].status = s
    BY <1>0, StatusType DEF Finished
  <2> QED
    BY <1>3, <2>1, <2>2, RunnerSaves DEF AnalysisFailed, RunnerPc, Live, AtWork
<1>4. CASE SetScheduler(i)
  <2>1. /\ running.owner = i /\ i # Nobody
        /\ stored.status \in AtWork
        /\ \A j \in Runners \ {i} : pc[j] = "idle"
    BY <1>4, ManagerParameters DEF ManagerInv, GoroutineInv, SetScheduler
  <2>2. recovery = "done" /\ quotaWatch = "idle"
    BY <2>1 DEF ManagerInv, QuotaInv, RecoverInv, AtWork, TypeOK
  <2>3. pc \in [Runners -> RunnerPc] /\ running \in RunningRecord
    BY DEF ManagerInv, TypeOK, RunningRecord
  <2>4. /\ pc' = [pc EXCEPT ![i] = "begin"]
        /\ running' = [running EXCEPT !.scheduler = i]
        /\ UNCHANGED <<stored, stale, work, user, sweeper, quotaWatch, recovery>>
    BY <1>4, <2>1 DEF SetScheduler, Goto, OnlyRunner, repoVars, userVars, sweepVars,
                      quotaVars, bootVars
  <2>5. running'.owner = i /\ running'.scheduler = i
    BY <2>1, <2>3, <2>4 DEF RunningRecord
  <2>6. GoroutineInv'
    BY <1>4, <2>1, <2>3, <2>4, <2>5 DEF ManagerInv, GoroutineInv, SetScheduler
  <2>7. QuotaInv' /\ RecoverInv' /\ NoInterference'
    BY <2>2, <2>4 DEF QuotaInv, RecoverInv, NoInterference, ManagerInv
  <2>8. Owned' /\ ParkedHasTime'
    BY <2>1, <2>3, <2>4 DEF Owned, ParkedHasTime, Live, RunnerPc, AtWork
  <2> QED
    BY <2>6, <2>7, <2>8
<1>5. CASE RunBegins(i)
  <2>1. /\ [work[i] EXCEPT !.status = "running"] \in Workflow
        /\ [work[i] EXCEPT !.status = "running"].status = "running"
    BY <1>0, StatusType DEF Unfinished
  <2>2. running.scheduler = i
    BY <1>5 DEF ManagerInv, GoroutineInv, RunBegins
  <2> QED
    BY <1>5, <2>1, <2>2, RunnerSaves DEF RunBegins, RunnerPc, Live, AtWork
<1>6. CASE NodeCompleted(i)
  <2>1. /\ [work[i] EXCEPT !.done = @ + 1] \in Workflow
        /\ [work[i] EXCEPT !.done = @ + 1].status = work[i].status
    BY <1>0, <1>6, ManagerParameters DEF NodeCompleted, Workflow
  <2>2. running.scheduler = i
    BY <1>6 DEF ManagerInv, GoroutineInv, NodeCompleted
  <2> QED
    BY <1>0, <1>6, <2>1, <2>2, RunnerSaves DEF NodeCompleted, RunnerPc, Live, AtWork
<1>7. CASE RunEnds(i)
  <2>1. CASE \E s \in FinalStatus(i) : SaveAs(i, [work[i] EXCEPT !.status = s], "finished")
    <3>1. PICK s \in FinalStatus(i) : SaveAs(i, [work[i] EXCEPT !.status = s], "finished")
      BY <2>1
    <3>2. s \in Finished
      BY <3>1 DEF FinalStatus, Finished
    <3>3. /\ [work[i] EXCEPT !.status = s] \in Workflow
          /\ [work[i] EXCEPT !.status = s].status = s
      BY <1>0, <3>2, StatusType
    <3> QED
      BY <1>7, <3>1, <3>2, <3>3, RunnerSaves DEF RunEnds, RunnerPc, Live, AtWork, Finished
  <2>2. CASE SaveAs(i, QuotaBroken(work[i]), "finished")
    <3>1. /\ QuotaBroken(work[i]) \in Workflow
          /\ QuotaBroken(work[i]).status \in {"interrupted", "failed"}
          /\ QuotaBroken(work[i]).status = "interrupted" => QuotaBroken(work[i]).parked
      BY <1>0, QuotaBrokenType
    <3> QED
      BY <1>7, <2>2, <3>1, RunnerSaves DEF RunEnds, RunnerPc, Live, AtWork
  <2> QED
    BY <1>7, <2>1, <2>2 DEF RunEnds
<1>8. CASE CleanupRunning(i)
  <2>1. /\ running.owner = i /\ i # Nobody
        /\ \A j \in Runners \ {i} : pc[j] = "idle"
    BY <1>8, ManagerParameters DEF ManagerInv, GoroutineInv, CleanupRunning
  <2>2. pc \in [Runners -> RunnerPc]
    BY DEF ManagerInv, TypeOK
  <2>3. /\ pc' = [pc EXCEPT ![i] = "idle"] /\ pc[i] = "finished"
        /\ running'.owner = Nobody
        /\ UNCHANGED <<stored, stale, user, sweeper, quotaWatch, quotaCopy, recovery>>
    BY <1>8 DEF CleanupRunning, Goto, OnlyRunner, Unregistered, repoVars, userVars,
                sweepVars, quotaVars, bootVars
  <2>4. GoroutineInv'
    BY <2>1, <2>2, <2>3 DEF GoroutineInv
  <2>5. recovery = "done"
    BY <2>1 DEF ManagerInv, RecoverInv
  <2>6. QuotaInv' /\ RecoverInv' /\ NoInterference' /\ ParkedHasTime'
    BY <2>3, <2>5 DEF ManagerInv, QuotaInv, RecoverInv, NoInterference, ParkedHasTime
  <2>7. Owned'
    <3>1. ASSUME stored.status \in {"analyzing", "running"} PROVE quotaWatch = "register"
      BY <2>1, <2>3, <2>5, <3>1 DEF ManagerInv, Owned, Live, NoInterference
    <3> QED
      BY <2>3, <3>1 DEF Owned
  <2> QED
    BY <2>4, <2>6, <2>7
<1>9. CASE RunStalls(i)
  <2>1. pc[i] = "run" /\ pc' = [pc EXCEPT ![i] = "stuck"] /\ pc \in [Runners -> RunnerPc]
    BY <1>9 DEF RunStalls, Goto, ManagerInv, TypeOK
  <2>2. UNCHANGED <<stored, stale, running, work, user, sweeper, quotaWatch, quotaCopy,
                    recovery, recoverCopy>>
    BY <1>9 DEF RunStalls, OnlyRunner, repoVars, userVars, sweepVars, quotaVars, bootVars
  <2>3. GoroutineInv'
    BY <2>1, <2>2 DEF ManagerInv, GoroutineInv
  <2>4. QuotaInv' /\ RecoverInv' /\ NoInterference' /\ ParkedHasTime'
    BY <2>2 DEF ManagerInv, QuotaInv, RecoverInv, NoInterference, ParkedHasTime
  <2>5. Owned'
    BY <2>1, <2>2 DEF Owned, Live, RunnerPc
  <2> QED
    BY <2>3, <2>4, <2>5
<1> QED
  BY <1>1, <1>2, <1>3, <1>4, <1>5, <1>6, <1>7, <1>8, <1>9 DEF Runner

Kept ==
  /\ GoroutineInv' /\ QuotaInv' /\ RecoverInv' /\ NoInterference'
  /\ Owned' /\ ParkedHasTime'

LEMMA SubmitKeeps == ManagerInv /\ Submit => Kept
<1> SUFFICES ASSUME ManagerInv, Submit PROVE Kept
  OBVIOUS
<1>1. /\ \A i \in Runners : pc[i] = "idle"
      /\ recovery = "done" /\ quotaWatch = "idle"
  BY DEF ManagerInv, GoroutineInv, QuotaInv, RecoverInv, Submit, TypeOK
<1> DEFINE w == [NoWorkflow EXCEPT !.status = "analyzing"]
<1>2. w \in Workflow /\ w.status \in AtWork
  BY NoWorkflowType, StatusType DEF Unfinished, AtWork
<1>3. Save(w) /\ Launch(w, "analyze")
  BY DEF Submit
<1> HIDE DEF w
<1>4. GoroutineInv' /\ Owned' /\ ParkedHasTime'
  BY <1>1, <1>2, <1>3, Launches DEF Save, ManagerInv
<1>5. QuotaInv' /\ RecoverInv' /\ NoInterference'
  BY <1>1, <1>3 DEF QuotaInv, RecoverInv, NoInterference, ManagerInv, Submit, Save,
     OnlyRunner, userVars, sweepVars, quotaVars, bootVars
<1> QED
  BY <1>4, <1>5 DEF Kept

LEMMA TerminateKeeps == ManagerInv /\ Terminate => Kept
<1> SUFFICES ASSUME ManagerInv, Terminate PROVE Kept
  OBVIOUS
<1>1. UNCHANGED <<stored, stale, running, pc, work, user, sweeper, quotaWatch, quotaCopy,
                  recovery, recoverCopy>>
  BY DEF Terminate, OnlyRunner, repoVars, userVars, sweepVars, quotaVars, bootVars
<1> QED
  BY <1>1 DEF Kept, ManagerInv, GoroutineInv, QuotaInv, RecoverInv, NoInterference,
     Owned, ParkedHasTime, Live

LEMMA CrashKeeps == ManagerInv /\ Crash => Kept
<1> SUFFICES ASSUME ManagerInv, Crash PROVE Kept
  OBVIOUS
<1>1. /\ recovery' = "list" /\ quotaWatch' = "idle" /\ running'.owner = Nobody
      /\ sweeper' = "idle" /\ UNCHANGED <<stored, stale>>
      /\ \A i \in Runners : pc'[i] = "idle"
      /\ \A u \in Users : user'[u] = "idle"
  BY DEF Crash, Unregistered, repoVars
<1>2. stored.status # "none"
  BY DEF Crash
<1> QED
  BY <1>1, <1>2 DEF Kept, ManagerInv, GoroutineInv, QuotaInv, RecoverInv, NoInterference,
     Owned, ParkedHasTime

LEMMA QuotaWatchKeeps == ManagerInv /\ QuotaWatch => Kept
<1> SUFFICES ASSUME ManagerInv, QuotaWatch PROVE Kept
  OBVIOUS
<1>0. /\ pc \in [Runners -> RunnerPc] /\ quotaCopy \in Workflow
      /\ quotaWatch \in {"idle", "listed", "save", "register"}
  BY DEF ManagerInv, TypeOK
<1>1. CASE QuotaLists
  <2>1. /\ quotaWatch' = "listed" /\ quotaCopy' = stored
        /\ UNCHANGED <<stored, stale, running, pc, work, user, sweeper, recovery, recoverCopy>>
    BY <1>1 DEF QuotaLists, QuotaGoto, OnlyQuotaWatch, repoVars, runnerVars, userVars,
                sweepVars, bootVars
  <2>2. recovery = "done" /\ stored.status = "interrupted" /\ stored.parked
    BY <1>1 DEF QuotaLists
  <2> QED
    BY <2>1, <2>2 DEF Kept, ManagerInv, GoroutineInv, QuotaInv, RecoverInv, NoInterference,
       Owned, ParkedHasTime, Live
<1>2. CASE QuotaHeartbeat
  <2>1. quotaWatch = "listed" /\ quotaCopy = stored
    BY <1>2 DEF QuotaHeartbeat, ManagerInv, QuotaInv
  <2>2. stored' = stored /\ stale' = FALSE
    BY <1>2, <2>1 DEF QuotaHeartbeat, Save, repoVars, ManagerInv, NoInterference
  <2>3. quotaWatch' = "idle" /\ UNCHANGED <<running, pc, work, user, sweeper, recovery, recoverCopy>>
    BY <1>2 DEF QuotaHeartbeat, QuotaGoto, OnlyQuotaWatch, runnerVars, userVars,
                sweepVars, bootVars
  <2> QED
    BY <2>1, <2>2, <2>3 DEF Kept, ManagerInv, GoroutineInv, QuotaInv, RecoverInv,
       NoInterference, Owned, ParkedHasTime, Live
<1>3. CASE QuotaChecks
  <2>1. UNCHANGED <<stored, stale, running, pc, work, user, sweeper, recovery, recoverCopy>>
    BY <1>3 DEF QuotaChecks, OnlyQuotaWatch, repoVars, runnerVars, userVars,
                sweepVars, bootVars
  <2>2. \/ running.owner = Nobody /\ quotaWatch' = "save" /\ quotaCopy' = quotaCopy
        \/ quotaWatch' = "idle"
    BY <1>3 DEF QuotaChecks, QuotaGoto
  <2>3. quotaWatch = "listed"
    BY <1>3 DEF QuotaChecks
  <2> QED
    BY <2>1, <2>2, <2>3 DEF Kept, ManagerInv, GoroutineInv, QuotaInv, RecoverInv,
       NoInterference, Owned, ParkedHasTime, Live
<1>4. CASE QuotaSaves
  <2> DEFINE w == [quotaCopy EXCEPT !.status = "running", !.parked = FALSE]
  <2>1. w.status = "running"
    BY <1>0 DEF Workflow
  <2>2. Save(w) /\ QuotaGoto("register", w)
    BY <1>4 DEF QuotaSaves
  <2> HIDE DEF w
  <2>3. /\ stored' = w /\ stale' = FALSE /\ quotaWatch' = "register" /\ quotaCopy' = w
        /\ UNCHANGED <<running, pc, user, sweeper, recovery>>
    BY <1>4, <2>2 DEF QuotaSaves, Save, QuotaGoto, OnlyQuotaWatch, runnerVars, userVars,
                      sweepVars, bootVars
  <2>4. recovery = "done" /\ running.owner = Nobody
    BY <1>4 DEF QuotaSaves, ManagerInv, QuotaInv
  <2>5. \A i \in Runners : pc[i] = "idle"
    BY <2>4, NobodyRuns
  <2> QED
    BY <2>1, <2>3, <2>4, <2>5 DEF Kept, ManagerInv, GoroutineInv, QuotaInv, RecoverInv,
       NoInterference, Owned, ParkedHasTime
<1>5. CASE QuotaRegisters
  <2>1. /\ quotaWatch = "register" /\ recovery = "done" /\ quotaCopy = stored
        /\ stored.status = "running" /\ running.owner = Nobody
    BY <1>5 DEF QuotaRegisters, ManagerInv, QuotaInv
  <2>2. \A i \in Runners : pc[i] = "idle"
    BY <2>1, NobodyRuns
  <2>3. /\ quotaWatch' = "idle" /\ UNCHANGED <<stored, stale, user, sweeper, recovery, recoverCopy>>
    BY <1>5 DEF QuotaRegisters, QuotaGoto, OnlyQuotaWatch, repoVars, userVars, sweepVars, bootVars
  <2>4. GoroutineInv' /\ Owned' /\ ParkedHasTime'
    BY <1>0, <1>5, <2>1, <2>2, <2>3, Launches DEF QuotaRegisters, AtWork, ManagerInv
  <2>5. QuotaInv' /\ RecoverInv' /\ NoInterference'
    BY <2>1, <2>3 DEF QuotaInv, RecoverInv, NoInterference, ManagerInv
  <2> QED
    BY <2>4, <2>5 DEF Kept
<1>6. CASE QuotaGivesUp
  <2> DEFINE w == [quotaCopy EXCEPT !.status = "failed", !.parked = FALSE]
  <2>1. w.status = "failed"
    BY <1>0 DEF Workflow
  <2>2. Save(w) /\ QuotaGoto("idle", NoWorkflow)
    BY <1>6 DEF QuotaGivesUp
  <2> HIDE DEF w
  <2>3. /\ stored' = w /\ stale' = FALSE /\ quotaWatch' = "idle"
        /\ UNCHANGED <<running, pc, user, sweeper, recovery>>
    BY <1>6, <2>2 DEF QuotaGivesUp, Save, QuotaGoto, OnlyQuotaWatch, runnerVars, userVars,
                      sweepVars, bootVars
  <2>4. recovery = "done" /\ running.owner = Nobody
    BY <1>6 DEF QuotaGivesUp, ManagerInv, QuotaInv
  <2>5. \A i \in Runners : pc[i] = "idle"
    BY <2>4, NobodyRuns
  <2> QED
    BY <2>1, <2>3, <2>4, <2>5 DEF Kept, ManagerInv, GoroutineInv, QuotaInv, RecoverInv,
       NoInterference, Owned, ParkedHasTime
<1> QED
  BY <1>1, <1>2, <1>3, <1>4, <1>5, <1>6 DEF QuotaWatch

\* While the process recovers, nothing else happens.
LEMMA RecoverKeeps == ManagerInv /\ Recover => Kept
<1> SUFFICES ASSUME ManagerInv, Recover PROVE Kept
  OBVIOUS
<1>0. recoverCopy \in Workflow /\ stored \in Workflow
  BY DEF ManagerInv, TypeOK
<1>1. recovery # "done" /\ running.owner = Nobody /\ quotaWatch = "idle" /\ stored.status # "none"
  BY DEF Recover, RecoverLists, RecoverSkips, RecoverPasses, RecoverMarks, RecoverSaves,
     RecoverGivesUp, RecoverRegisters, ManagerInv, RecoverInv, QuotaInv, TypeOK
<1>2. \A i \in Runners : pc[i] = "idle"
  BY <1>1, NobodyRuns
<1>3. UNCHANGED <<user, sweeper, quotaWatch>>
  BY DEF Recover, RecoverLists, RecoverSkips, RecoverPasses, RecoverMarks, RecoverSaves,
     RecoverGivesUp, RecoverRegisters, OnlyRecovery, userVars, sweepVars, quotaVars
<1>4. ASSUME UNCHANGED <<running, pc>>, stale' = FALSE
      PROVE  GoroutineInv' /\ QuotaInv' /\ NoInterference'
  BY <1>1, <1>2, <1>3, <1>4 DEF GoroutineInv, QuotaInv, NoInterference, ManagerInv
<1>5. CASE RecoverLists
  <2>1. UNCHANGED <<stored, stale, running, pc>>
    BY <1>5 DEF RecoverLists, repoVars, runnerVars
  <2>2. \/ /\ stored.status \in Unfinished
           /\ recovery' = "check" /\ recoverCopy' = stored
        \/ stored.status \notin Unfinished /\ recovery' = "done"
    BY <1>5 DEF RecoverLists, RecoverGoto
  <2>3. RecoverInv' /\ Owned' /\ ParkedHasTime'
    BY <1>1, <2>1, <2>2 DEF RecoverInv, Owned, ParkedHasTime, Unfinished
  <2> QED
    BY <1>4, <2>1, <2>3 DEF Kept, ManagerInv, NoInterference
<1>6. CASE RecoverSkips
  <2>1. UNCHANGED <<stored, stale, running, pc>> /\ recovery = "check" /\ recovery' = "done"
    BY <1>6 DEF RecoverSkips, RecoverGoto, repoVars, runnerVars
  <2>2. stored.status = "interrupted" /\ stored.parked
    BY <1>1, <1>6 DEF RecoverSkips, ManagerInv, RecoverInv
  <2>3. RecoverInv' /\ Owned' /\ ParkedHasTime'
    BY <2>1, <2>2 DEF RecoverInv, Owned, ParkedHasTime
  <2> QED
    BY <1>4, <2>1, <2>3 DEF Kept, ManagerInv, NoInterference
<1>7. CASE RecoverMarks
  <2> DEFINE w == [recoverCopy EXCEPT !.status = "interrupted"]
  <2>1. /\ stored' = w /\ stale' = FALSE /\ UNCHANGED <<running, pc>>
        /\ recovery = "mark" /\ recovery' = "save" /\ recoverCopy' = recoverCopy
    BY <1>7 DEF RecoverMarks, Save, RecoverGoto, runnerVars
  <2>2. w.status = "interrupted" /\ recoverCopy.status \in Unfinished
    BY <1>0, <2>1, StatusType DEF ManagerInv, RecoverInv, Unfinished
  <2>3. RecoverInv' /\ Owned' /\ ParkedHasTime'
    BY <1>1, <2>1, <2>2 DEF RecoverInv, Owned, ParkedHasTime
  <2> QED
    BY <1>4, <2>1, <2>3 DEF Kept
<1>8. CASE RecoverSaves
  <2> DEFINE w == [recoverCopy EXCEPT !.status =
                     IF recoverCopy.analysed THEN "running" ELSE "analyzing"]
  <2>1. w.status \in AtWork
    BY <1>0, StatusType DEF Unfinished, AtWork
  <2>2. Save(w) /\ RecoverGoto("register", w)
    BY <1>8 DEF RecoverSaves
  <2> HIDE DEF w
  <2>3. /\ stored' = w /\ stale' = FALSE /\ UNCHANGED <<running, pc>>
        /\ recovery' = "register" /\ recoverCopy' = w
    BY <1>8, <2>2 DEF RecoverSaves, Save, RecoverGoto, runnerVars
  <2>4. RecoverInv' /\ Owned' /\ ParkedHasTime'
    BY <1>1, <2>1, <2>3 DEF RecoverInv, Owned, ParkedHasTime, AtWork
  <2> QED
    BY <1>4, <2>3, <2>4 DEF Kept
<1>9. CASE RecoverRegisters
  <2>1. recoverCopy = stored /\ stored.status \in AtWork
    BY <1>9 DEF RecoverRegisters, ManagerInv, RecoverInv
  <2>2. UNCHANGED <<stored, stale>> /\ recovery' = "done"
    BY <1>9 DEF RecoverRegisters, RecoverGoto, repoVars
  <2> DEFINE p == IF recoverCopy.analysed THEN "start" ELSE "analyze"
  <2>3. p \in {"analyze", "start"} /\ Launch(recoverCopy, p)
    BY <1>9 DEF RecoverRegisters
  <2> HIDE DEF p
  <2>4. GoroutineInv' /\ Owned' /\ ParkedHasTime'
    BY <1>0, <1>2, <2>1, <2>2, <2>3, Launches DEF ManagerInv
  <2>5. QuotaInv' /\ RecoverInv' /\ NoInterference'
    BY <1>1, <1>3, <2>2 DEF QuotaInv, RecoverInv, NoInterference, ManagerInv
  <2> QED
    BY <2>4, <2>5 DEF Kept
<1>10. CASE RecoverPasses
  <2>1. UNCHANGED <<stored, stale, running, pc>> /\ recovery = "check" /\ recovery' = "mark"
    BY <1>10 DEF RecoverPasses, RecoverGoto, repoVars, runnerVars
  <2>2. recoverCopy' = recoverCopy
    BY <1>10 DEF RecoverPasses, RecoverGoto
  <2>3. RecoverInv' /\ Owned' /\ ParkedHasTime'
    BY <1>1, <2>1, <2>2 DEF ManagerInv, RecoverInv, Owned, ParkedHasTime
  <2> QED
    BY <1>4, <2>1, <2>3 DEF Kept, ManagerInv, NoInterference
<1>11. CASE RecoverGivesUp
  <2> DEFINE w == [recoverCopy EXCEPT !.status = "failed"]
  <2>1. w.status = "failed"
    BY <1>0, StatusType DEF Finished
  <2>2. Save(w)
    BY <1>11 DEF RecoverGivesUp
  <2> HIDE DEF w
  <2>3. stored' = w /\ stale' = FALSE /\ UNCHANGED <<running, pc>> /\ recovery' = "done"
    BY <1>11, <2>2 DEF RecoverGivesUp, Save, RecoverGoto, runnerVars
  <2>4. RecoverInv' /\ Owned' /\ ParkedHasTime'
    BY <2>1, <2>3 DEF RecoverInv, Owned, ParkedHasTime
  <2> QED
    BY <1>4, <2>3, <2>4 DEF Kept
<1> QED
  BY <1>5, <1>6, <1>7, <1>8, <1>9, <1>10, <1>11 DEF Recover

LEMMA ManagerStep ==
  ASSUME "retry" \notin Controls, "sweep" \notin Controls
  PROVE  ManagerInv /\ TypeOK' /\ [Next]_vars => ManagerInv'
<1> SUFFICES ASSUME ManagerInv, TypeOK', [Next]_vars PROVE Kept
  BY DEF ManagerInv, Kept
<1>1. CASE UNCHANGED vars
  BY <1>1 DEF Kept, ManagerInv, GoroutineInv, QuotaInv, RecoverInv, NoInterference,
     Owned, ParkedHasTime, Live, vars, repoVars, runnerVars, userVars, sweepVars, quotaVars, bootVars
<1>2. ~TimePasses /\ ~Sweep /\ \A u \in Users : ~(SubmitRetry(u) \/ RetryLooks(u) \/ Restart(u))
  BY DEF ManagerInv, NoInterference, TimePasses, Sweep, SweepLists, SweepCancels, SweepSaves,
     SweepCleans, SubmitRetry, RetryLooks, Restart, RetryReads, RestartChecks, RestartSaves, RestartRegisters
<1>3. ASSUME NEW i \in Runners, Runner(i) PROVE Kept
  BY <1>3, RunnerKeeps DEF Kept
<1> QED
  BY <1>1, <1>2, <1>3, SubmitKeeps, TerminateKeeps, CrashKeeps, QuotaWatchKeeps,
     RecoverKeeps DEF Next, Ended

\* Nobody interferes: the invariant holds throughout.
THEOREM ManagerInvariant ==
    ASSUME "retry" \notin Controls, "sweep" \notin Controls
    PROVE  Spec => []ManagerInv
<1> QED
  BY ManagerInit, ManagerStep, ManagerTypes, PTL DEF Spec

\* Submissions, terminations, crashes and quota windows never give the
\* workflow a second goroutine (manager.go:1427).
THEOREM OneGoroutine ==
    ASSUME "retry" \notin Controls, "sweep" \notin Controls
    PROVE  Spec => []OneRunner
<1>1. ManagerInv => OneRunner
  BY DEF ManagerInv, GoroutineInv, OneRunner, Live
<1> QED
  BY <1>1, ManagerInvariant, PTL

\* Control finds the scheduler that runs (manager.go:1300).
THEOREM ControlReaches ==
    ASSUME "retry" \notin Controls, "sweep" \notin Controls
    PROVE  Spec => []Reachable
<1>1. ManagerInv => Reachable
  <2> SUFFICES ASSUME ManagerInv, NEW i \in Runners, pc[i] \in {"run", "stuck"}
               PROVE  running = [owner |-> i, scheduler |-> i]
    BY DEF Reachable
  <2>1. running \in RunningRecord /\ running.owner = i /\ running.scheduler = i
    BY DEF ManagerInv, TypeOK, RunningRecord, GoroutineInv
  <2> QED
    BY <2>1 DEF RunningRecord
<1> QED
  BY <1>1, ManagerInvariant, PTL

\* Whoever crashes or resumes, a workflow stored as being worked on has
\* someone to work on it.
THEOREM NobodyLeavesIt ==
    ASSUME "retry" \notin Controls, "sweep" \notin Controls
    PROVE  Spec => []Owned
<1>1. ManagerInv => Owned
  BY DEF ManagerInv
<1> QED
  BY <1>1, ManagerInvariant, PTL

\* A workflow that a quota break or a shutdown has parked has a time at which
\* it is looked at again (manager.go:712).
THEOREM EveryParkHasTime ==
    ASSUME "retry" \notin Controls, "sweep" \notin Controls
    PROVE  Spec => []ParkedHasTime
<1>1. ManagerInv => ParkedHasTime
  BY DEF ManagerInv
<1> QED
  BY <1>1, ManagerInvariant, PTL

(***************************************************************************)
(* Every save is of what is stored, changed by whoever works on it.        *)
(***************************************************************************)
Supersedes(w) ==
  /\ w.status # "none"
  /\ stored.status \notin Finished
  /\ stored.status = "none" \/ w.done >= stored.done

LEMMA RunnerSupersedes ==
  ASSUME ManagerInv, NEW i \in Runners, Runner(i)
  PROVE  stored' = stored \/ Supersedes(stored')
<1>0. /\ stored \in Workflow /\ work[i] \in Workflow
      /\ pc[i] # "idle" => work[i] = stored
      /\ Live(i) => stored.status \in AtWork
  BY DEF ManagerInv, TypeOK, GoroutineInv, Live
<1>1. ASSUME NEW w \in Workflow, NEW p, SaveAs(i, w, p), Live(i),
             w.status # "none", w.done >= stored.done
      PROVE  Supersedes(stored')
  BY <1>0, <1>1 DEF SaveAs, Save, Supersedes, AtWork, Finished
<1>2. CASE AnalysisAttempt(i)
  BY <1>0, <1>2 DEF AnalysisAttempt, SaveAs, Save
<1>3. CASE Analyzed(i)
  <2> DEFINE w == [work[i] EXCEPT !.analysed = TRUE]
  <2>1. w \in Workflow /\ w.status = work[i].status /\ w.done = work[i].done
    BY <1>0 DEF Workflow
  <2>2. SaveAs(i, w, "start") /\ Live(i)
    BY <1>3 DEF Analyzed, Live, RunnerPc
  <2>3. w.status # "none" /\ w.done >= stored.done
    BY <1>0, <2>1, <2>2 DEF Workflow, AtWork, Live
  <2> HIDE DEF w
  <2> QED
    BY <1>1, <2>1, <2>2, <2>3
<1>4. CASE AnalysisFailed(i)
  <2>1. PICK s \in {"failed", "terminated"} :
             SaveAs(i, [work[i] EXCEPT !.status = s], "finished")
    BY <1>4 DEF AnalysisFailed
  <2> DEFINE w == [work[i] EXCEPT !.status = s]
  <2>2. w \in Workflow /\ w.status = s /\ w.done = work[i].done
    BY <1>0, StatusType DEF Finished
  <2>3. Live(i) /\ w.status # "none" /\ w.done >= stored.done
    BY <1>0, <1>4, <2>2 DEF Workflow, Live, RunnerPc, AnalysisFailed
  <2> HIDE DEF w
  <2> QED
    BY <1>1, <2>1, <2>2, <2>3 DEF w
<1>5. CASE SetScheduler(i)
  BY <1>5 DEF SetScheduler, repoVars
<1>6. CASE RunBegins(i)
  <2> DEFINE w == [work[i] EXCEPT !.status = "running"]
  <2>1. w \in Workflow /\ w.status = "running" /\ w.done = work[i].done
    BY <1>0, StatusType DEF Unfinished
  <2>2. SaveAs(i, w, "run") /\ Live(i) /\ w.done >= stored.done
    BY <1>0, <1>6, <2>1 DEF RunBegins, Live, RunnerPc, Workflow
  <2> HIDE DEF w
  <2> QED
    BY <1>1, <2>1, <2>2
<1>7. CASE NodeCompleted(i)
  <2> DEFINE w == [work[i] EXCEPT !.done = @ + 1]
  <2>1. w \in Workflow /\ w.status = work[i].status /\ w.done = work[i].done + 1
    BY <1>0, <1>7, ManagerParameters DEF NodeCompleted, Workflow
  <2>2. SaveAs(i, w, "run") /\ Live(i)
    BY <1>7 DEF NodeCompleted, Live, RunnerPc
  <2>3. w.status # "none" /\ w.done >= stored.done
    BY <1>0, <2>1, <2>2 DEF Workflow, AtWork, Live
  <2> HIDE DEF w
  <2> QED
    BY <1>1, <2>1, <2>2, <2>3
<1>8. CASE RunEnds(i)
  <2>0. Live(i) /\ work[i] = stored
    BY <1>0, <1>8 DEF RunEnds, Live, RunnerPc
  <2>1. CASE \E s \in FinalStatus(i) : SaveAs(i, [work[i] EXCEPT !.status = s], "finished")
    <3>1. PICK s \in FinalStatus(i) : SaveAs(i, [work[i] EXCEPT !.status = s], "finished")
      BY <2>1
    <3> DEFINE w == [work[i] EXCEPT !.status = s]
    <3>2. s \in Finished
      BY <3>1 DEF FinalStatus, Finished
    <3>3. w \in Workflow /\ w.status # "none" /\ w.done = work[i].done
      BY <1>0, <3>2, StatusType DEF Finished
    <3>4. w.done >= stored.done
      BY <1>0, <2>0, <3>3 DEF Workflow
    <3> HIDE DEF w
    <3> QED
      BY <1>1, <2>0, <3>1, <3>3, <3>4 DEF w
  <2>2. CASE SaveAs(i, QuotaBroken(work[i]), "finished")
    <3>1. /\ QuotaBroken(work[i]) \in Workflow
          /\ QuotaBroken(work[i]).status # "none"
          /\ QuotaBroken(work[i]).done = stored.done
      BY <1>0, <2>0, QuotaBrokenType
    <3>2. stored.done >= stored.done
      BY <1>0 DEF Workflow
    <3> QED
      BY <1>1, <2>0, <2>2, <3>1, <3>2
  <2> QED
    BY <1>8, <2>1, <2>2 DEF RunEnds
<1>9. CASE RunStalls(i) \/ CleanupRunning(i)
  BY <1>9 DEF RunStalls, CleanupRunning, repoVars
<1> QED
  BY <1>2, <1>3, <1>4, <1>5, <1>6, <1>7, <1>8, <1>9 DEF Runner

LEMMA QuotaWatchSupersedes ==
  ASSUME ManagerInv, QuotaWatch
  PROVE  stored' = stored \/ Supersedes(stored')
<1>0. quotaCopy \in Workflow /\ stored \in Workflow
  BY DEF ManagerInv, TypeOK
<1>1. CASE QuotaHeartbeat
  BY <1>1 DEF QuotaHeartbeat, Save, repoVars, ManagerInv, QuotaInv
<1>2. CASE QuotaSaves
  <2> DEFINE w == [quotaCopy EXCEPT !.status = "running", !.parked = FALSE]
  <2>1. quotaCopy = stored /\ stored.status = "interrupted"
    BY <1>2 DEF QuotaSaves, ManagerInv, QuotaInv
  <2>2. w.status = "running" /\ w.done = stored.done
    BY <1>0, <2>1 DEF Workflow
  <2>3. stored' = w
    BY <1>2 DEF QuotaSaves, Save
  <2> HIDE DEF w
  <2> QED
    BY <1>0, <2>1, <2>2, <2>3 DEF Supersedes, Finished, Workflow
<1>3. CASE QuotaLists \/ QuotaChecks \/ QuotaRegisters
  BY <1>3 DEF QuotaLists, QuotaChecks, QuotaRegisters, repoVars
<1>4. CASE QuotaGivesUp
  <2> DEFINE w == [quotaCopy EXCEPT !.status = "failed", !.parked = FALSE]
  <2>1. quotaCopy = stored /\ stored.status = "interrupted"
    BY <1>4 DEF QuotaGivesUp, ManagerInv, QuotaInv
  <2>2. w.status = "failed" /\ w.done = stored.done
    BY <1>0, <2>1 DEF Workflow
  <2>3. stored' = w
    BY <1>4 DEF QuotaGivesUp, Save
  <2> HIDE DEF w
  <2> QED
    BY <1>0, <2>1, <2>2, <2>3 DEF Supersedes, Finished, Workflow
<1> QED
  BY <1>1, <1>2, <1>3, <1>4 DEF QuotaWatch

LEMMA RecoverSupersedes ==
  ASSUME ManagerInv, Recover
  PROVE  stored' = stored \/ Supersedes(stored')
<1>0. recoverCopy \in Workflow /\ stored \in Workflow
  BY DEF ManagerInv, TypeOK
<1>1. CASE RecoverMarks
  <2>1. recoverCopy = stored /\ stored.status \in Unfinished
    BY <1>1 DEF RecoverMarks, ManagerInv, RecoverInv
  <2>2. stored' = [stored EXCEPT !.status = "interrupted"]
    BY <1>1, <2>1 DEF RecoverMarks, Save
  <2>3. stored'.status = "interrupted" /\ stored'.done = stored.done
    BY <1>0, <2>2, StatusType DEF Unfinished
  <2> QED
    BY <1>0, <2>1, <2>3 DEF Supersedes, Finished, Unfinished, Workflow
<1>2. CASE RecoverSaves
  <2> DEFINE w == [recoverCopy EXCEPT !.status =
                     IF recoverCopy.analysed THEN "running" ELSE "analyzing"]
  <2>1. stored = [recoverCopy EXCEPT !.status = "interrupted"]
    BY <1>2 DEF RecoverSaves, ManagerInv, RecoverInv
  <2>2. stored.status = "interrupted" /\ stored.done = recoverCopy.done
    BY <1>0, <2>1, StatusType DEF Unfinished
  <2>3. w.status \in AtWork /\ w.done = recoverCopy.done
    BY <1>0, StatusType DEF Unfinished, AtWork
  <2>4. stored' = w
    BY <1>2 DEF RecoverSaves, Save
  <2> HIDE DEF w
  <2> QED
    BY <1>0, <2>2, <2>3, <2>4 DEF Supersedes, Finished, AtWork, Workflow
<1>3. CASE RecoverLists \/ RecoverSkips \/ RecoverPasses \/ RecoverRegisters
  BY <1>3 DEF RecoverLists, RecoverSkips, RecoverPasses, RecoverRegisters, repoVars
<1>4. CASE RecoverGivesUp
  <2> DEFINE w == [recoverCopy EXCEPT !.status = "failed"]
  <2>1. stored = [recoverCopy EXCEPT !.status = "interrupted"]
    BY <1>4 DEF RecoverGivesUp, ManagerInv, RecoverInv
  <2>2. stored.status = "interrupted" /\ stored.done = recoverCopy.done
    BY <1>0, <2>1, StatusType DEF Unfinished
  <2>3. w.status = "failed" /\ w.done = recoverCopy.done
    BY <1>0, StatusType DEF Finished
  <2>4. stored' = w
    BY <1>4 DEF RecoverGivesUp, Save
  <2> HIDE DEF w
  <2> QED
    BY <1>0, <2>2, <2>3, <2>4 DEF Supersedes, Finished, Workflow
<1> QED
  BY <1>1, <1>2, <1>3, <1>4 DEF Recover

LEMMA StepSupersedes ==
  ASSUME "retry" \notin Controls, "sweep" \notin Controls, ManagerInv, [Next]_vars
  PROVE  stored' = stored \/ Supersedes(stored')
<1>1. CASE UNCHANGED vars \/ Ended
  BY <1>1 DEF Ended, vars, repoVars
<1>2. CASE Terminate \/ Crash
  BY <1>2 DEF Terminate, Crash, repoVars
<1>3. CASE Submit
  <2> DEFINE w == [NoWorkflow EXCEPT !.status = "analyzing"]
  <2>1. w.status = "analyzing"
    BY NoWorkflowType, StatusType DEF Unfinished
  <2>2. stored' = w /\ stored.status = "none"
    BY <1>3 DEF Submit, Save
  <2> HIDE DEF w
  <2> QED
    BY <2>1, <2>2 DEF Supersedes, Finished
<1>4. ~TimePasses /\ ~Sweep /\ \A u \in Users : ~(SubmitRetry(u) \/ RetryLooks(u) \/ Restart(u))
  BY DEF ManagerInv, NoInterference, TimePasses, Sweep, SweepLists, SweepCancels, SweepSaves,
     SweepCleans, SubmitRetry, RetryLooks, Restart, RetryReads, RestartChecks, RestartSaves, RestartRegisters
<1>5. ASSUME NEW i \in Runners, Runner(i)
      PROVE  stored' = stored \/ Supersedes(stored')
  BY <1>5, RunnerSupersedes
<1> QED
  BY <1>1, <1>2, <1>3, <1>4, <1>5, QuotaWatchSupersedes, RecoverSupersedes DEF Next

Unsubmitted == stored.status = "none" => stored.done = 0

\* No crash and no save of an older copy undoes a completed node.
THEOREM NothingUndone ==
    ASSUME "retry" \notin Controls, "sweep" \notin Controls
    PROVE  Spec => WorkKept
<1>1. Init => Unsubmitted
  BY DEF Init, Unsubmitted, NoWorkflow
<1>2. ManagerInv /\ Unsubmitted /\ [Next]_vars => Unsubmitted'
  BY StepSupersedes DEF Unsubmitted, Supersedes
<1>3. ManagerInv /\ ManagerInv' /\ Unsubmitted /\ [Next]_vars => [stored'.done >= stored.done]_vars
  <2> SUFFICES ASSUME ManagerInv, ManagerInv', Unsubmitted, [Next]_vars
               PROVE  stored'.done >= stored.done
    OBVIOUS
  <2>1. stored.done \in Nat /\ stored'.done \in Nat
    BY ManagerParameters DEF ManagerInv, TypeOK, Workflow
  <2> QED
    BY <2>1, StepSupersedes DEF Unsubmitted, Supersedes
<1> QED
  BY <1>1, <1>2, <1>3, ManagerInvariant, PTL DEF Spec, WorkKept

\* A workflow that has ended stays as it ended (manager.go:897).
THEOREM EndsAreFinal ==
    ASSUME "retry" \notin Controls, "sweep" \notin Controls
    PROVE  Spec => EndStands
<1>1. ManagerInv /\ [Next]_vars
        => [stored.status \in Finished => stored'.status = stored.status]_vars
  BY StepSupersedes DEF Supersedes
<1> QED
  BY <1>1, ManagerInvariant, PTL DEF Spec, EndStands

=============================================================================

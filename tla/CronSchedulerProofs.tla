------------------------ MODULE CronSchedulerProofs ------------------------
(***************************************************************************)
(* Proofs about CronScheduler: whatever ticks, executions, operations of a *)
(* manager, stops and crashes do in between, no job has two goroutines, a  *)
(* job is marked as running exactly while its goroutine lives, and the     *)
(* slots are not exceeded.                                                 *)
(***************************************************************************)
EXTENDS CronScheduler, FiniteSetTheorems, TLAPS

(***************************************************************************)
(* What the code computes over a job is a job.                             *)
(***************************************************************************)
LEMMA TopRunIsTop == TopRun \in Runs /\ \A n \in Runs : n \in Nat /\ n <= TopRun
<1>1. PICK top \in Limits : \A m \in Limits : m <= top
  BY CronAssumption
<1>2. top \in Runs /\ \A n \in Runs : n <= top
  BY <1>1, CronAssumption DEF Runs
<1>3. TopRun \in Runs /\ \A n \in Runs : n <= TopRun
  BY <1>2 DEF TopRun
<1> QED
  BY <1>3, CronAssumption DEF Runs

LEMMA BumpType ==
  /\ \A n \in Runs : Bump(n, TopRun) \in Runs
  /\ \A n \in 0 .. MaxFailures : Bump(n, MaxFailures) \in 0 .. MaxFailures
<1>1. ASSUME NEW n \in Runs PROVE Bump(n, TopRun) \in Runs
  BY TopRunIsTop, CronAssumption DEF Bump, Runs
<1> QED
  BY <1>1, CronAssumption DEF Bump

LEMMA CreatedType == \A k \in {"once", "repeat"}, m \in Limits : Created(k, m) \in Job
  BY TopRunIsTop, CronAssumption DEF Created, Job, States, Times, Runs

LEMMA ExecutedType ==
  ASSUME NEW r \in Job, NEW o
  PROVE  Executed(r, o) \in Job
<1>1. \A q \in Job : AfterError(q) \in Job /\ AfterSuccess(q) \in Job
  BY DEF AfterError, AfterSuccess, Rest, Job, States, Times
<1>2. \A q \in Job : [q EXCEPT !.runs = Bump(@, TopRun)] \in Job
  BY BumpType DEF Job
<1>3. \A q \in Job : /\ [q EXCEPT !.fails = Bump(@, MaxFailures)] \in Job
                     /\ [q EXCEPT !.fails = 0] \in Job
  BY BumpType, CronAssumption DEF Job
<1> QED
  BY <1>1, <1>2, <1>3 DEF Executed

LEMMA MergedType == \A cur, latest \in Job : Merged(cur, latest) \in Job
  BY DEF Merged, Job

LEMMA RestType == \A r \in Job : Rest(r, "done") \in Job
  BY DEF Rest, Job, States, Times

LEMMA TurnType ==
  ASSUME NEW r \in Job \cup {NoJob}, NEW from, NEW to \in Times
  PROVE  /\ Turn(from, to, r) \in Job \cup {NoJob}
         /\ r \in Job => Turn(from, to, r) \in Job
         /\ Turn(from, to, NoJob) = NoJob
  BY DEF Turn, Job

LEMMA OutcomeType ==
  ASSUME NEW op \in Ops \ {"create"}, NEW r \in Job
  PROVE  Outcome(op, r) \subseteq Job \cup {NoJob}
<1> USE DEF Finished, Job, States, Times
<1>0. 0 \in 0 .. MaxFailures /\ Kinds \subseteq {"once", "repeat"}
  BY CronAssumption
<1>1. Pause(r) \subseteq Job /\ Disable(r) \subseteq Job /\ Rename(r) \subseteq Job
  BY DEF Pause, Disable, Rename
<1>2. Resume(r) \subseteq Job
  BY <1>0 DEF Resume
<1>3. Trigger(r) \subseteq Job
  BY <1>0 DEF Trigger
<1>4. Enable(r) \subseteq Job
  BY DEF Enable
<1>5. Reschedule(r) \subseteq Job
  <2>1. ASSUME NEW k \in Kinds
        PROVE  [r EXCEPT !.kind = k, !.next = "future",
                         !.state = IF r.enabled /\ Finished(r) THEN "active" ELSE @] \in Job
    BY <1>0
  <2> HIDE DEF Finished, Job, States, Times
  <2> QED
    BY <2>1 DEF Reschedule
<1>6. Relimit(r) \subseteq Job
  BY DEF Relimit
<1> HIDE DEF Finished, Job, States, Times
<1> QED
  BY <1>1, <1>2, <1>3, <1>4, <1>5, <1>6, CronAssumption DEF Outcome

(***************************************************************************)
(* TypeOK, variable by variable.                                           *)
(***************************************************************************)
StoreMap == [Jobs -> Job \cup {NoJob}]
WorkRecord == [job : Jobs \cup {NoJob}, rec : Job \cup {NoJob},
               pc : {"idle", "slot", "exec", "write", "release"}]
CallRecord == [job : Jobs \cup {NoJob}, op : Ops \cup {"none"}, view : StoreMap]
MarkRecord == [job : Jobs \cup {NoJob}, rec : Job \cup {NoJob}]
TickRecord == [due : SUBSET Jobs, late : SUBSET Jobs]

LEMMA TypeOKParts ==
  TypeOK <=> /\ mem \in StoreMap /\ file \in StoreMap /\ loaded \in BOOLEAN
             /\ sched \in {"up", "stopping", "leaving", "down"}
             /\ todo \in TickRecord /\ mark \in MarkRecord
             /\ running \subseteq Jobs /\ fresh \subseteq Jobs /\ asked \subseteq Jobs
             /\ work \in [Workers -> WorkRecord]
             /\ call \in [Callers -> CallRecord]
             /\ events \in 0 .. MaxEvents
  BY DEF TypeOK, StoreMap, WorkRecord, CallRecord, MarkRecord, TickRecord

LEMMA RecordTypes ==
  /\ Idle \in WorkRecord /\ Quiet \in CallRecord
  /\ NoMark \in MarkRecord /\ Nothing \in TickRecord
  /\ [j \in Jobs |-> NoJob] \in StoreMap
<1>1. [j \in Jobs |-> NoJob] \in StoreMap
  BY DEF StoreMap
<1>2. Quiet \in CallRecord
  BY <1>1 DEF Quiet, CallRecord
<1> QED
  BY <1>1, <1>2 DEF Idle, WorkRecord, NoMark, MarkRecord, Nothing, TickRecord

(***************************************************************************)
(* The inductive invariant: OneExecution with what the code around it      *)
(* relies on.  A goroutine that has ended holds nothing; one that executes *)
(* or writes holds a job it read; an operation in progress knows its job;  *)
(* a scheduler whose loop has returned has no tick left, and one that is   *)
(* down no goroutine either, so that the empty runningJobs of the next one *)
(* is true of it.                                                          *)
(***************************************************************************)
WorkKnown == \A w \in Workers :
  /\ work[w].pc = "idle" => work[w] = Idle
  /\ work[w].pc # "idle" => work[w].job \in Jobs
  /\ work[w].pc \in {"exec", "write"} => work[w].rec \in Job

CallKnown == \A c \in Callers : call[c] = Quiet \/ call[c].job \in Jobs

DownAtRest ==
  /\ sched \in {"leaving", "down"} => todo = Nothing
  /\ sched = "down" => \A w \in Workers : work[w].pc = "idle"

CronInv ==
  /\ OneExecution
  /\ WorkKnown
  /\ CallKnown
  /\ DownAtRest
  /\ IsFiniteSet(Holding)

LEMMA CronInitial == Init => CronInv
<1> SUFFICES ASSUME Init PROVE CronInv
  OBVIOUS
<1>1. TypeOK
  <2>1. file \in [Jobs -> Job \cup {NoJob}]
    <3>1. PICK limit \in [Jobs -> Limits] :
            file = [j \in Jobs |-> IF j \in Once THEN Created("once", limit[j])
                                   ELSE IF j \in Repeat THEN Created("repeat", limit[j])
                                   ELSE NoJob]
      BY DEF Init
    <3> QED
      BY <3>1, CreatedType
  <2>2. events \in 0 .. MaxEvents
    BY CronAssumption DEF Init
  <2>3. file \in StoreMap
    BY <2>1 DEF StoreMap
  <2>4. work \in [Workers -> WorkRecord] /\ call \in [Callers -> CallRecord]
    BY RecordTypes DEF Init
  <2>5. todo \in TickRecord /\ mark \in MarkRecord /\ mem \in StoreMap
    BY RecordTypes DEF Init
  <2> QED
    BY <2>2, <2>3, <2>4, <2>5, TypeOKParts DEF Init
<1>2. Holding = {}
  BY DEF Init, Holding, Idle
<1>3. IsFiniteSet(Holding) /\ Cardinality(Holding) <= MaxConcurrent
  BY <1>2, FS_EmptySet, CronAssumption
<1>4. {work[w].job : w \in {v \in Workers : work[v].pc # "idle"}} = {}
  BY DEF Init, Idle
<1> QED
  BY <1>1, <1>2, <1>3, <1>4
     DEF Init, CronInv, OneExecution, OneGoroutine, MarksExact, SlotsKept, WorkKnown,
         CallKnown, DownAtRest, Idle

(***************************************************************************)
(* What a step does to the goroutines: nothing, one is started, one goes   *)
(* on, one ends, the clock moves, or all are gone.                         *)
(***************************************************************************)
Started(w, j) ==
  /\ work[w] = Idle /\ j \notin running
  /\ work' = [work EXCEPT ![w] = [Idle EXCEPT !.job = j, !.pc = "slot"]]
  /\ running' = running \cup {j}

GoesOn(w, p, r) ==
  /\ work[w].pc # "idle"
  /\ work[w].pc = "slot" => Cardinality(Holding) < MaxConcurrent
  /\ p \in {"exec", "write"} => r \in Job
  /\ work' = [work EXCEPT ![w].pc = p, ![w].rec = r]
  /\ running' = running

Ends(w) == work[w].pc # "idle" /\ Leave(w)

SamePlaces ==
  /\ work' \in [Workers -> WorkRecord]
  /\ \A w \in Workers :
       /\ work'[w].pc = work[w].pc
       /\ work'[w].job = work[w].job
       /\ work[w].pc = "idle" => work'[w] = work[w]
       /\ work[w].rec \in Job => work'[w].rec \in Job
  /\ running' = running

AllGone == work' = [w \in Workers |-> Idle] /\ running' = {}

WorkInv ==
  /\ work \in [Workers -> WorkRecord]
  /\ OneGoroutine /\ MarksExact /\ WorkKnown
  /\ SlotsKept /\ IsFiniteSet(Holding)

LEMMA StartedKeeps ==
  ASSUME WorkInv, NEW w \in Workers, NEW j \in Jobs, Started(w, j)
  PROVE  WorkInv'
<1> USE DEF WorkInv, Started, Idle
<1>1. /\ work' \in [Workers -> WorkRecord]
      /\ work'[w] = [job |-> j, pc |-> "slot", rec |-> NoJob]
      /\ \A v \in Workers \ {w} : work'[v] = work[v]
  BY DEF WorkRecord
<1>2. \A v \in Workers : work[v].pc # "idle" => work[v].job # j
  BY DEF MarksExact
<1>3. OneGoroutine'
  BY <1>1, <1>2, CronAssumption DEF OneGoroutine, WorkKnown
<1>4. MarksExact'
  BY <1>1 DEF MarksExact
<1>5. WorkKnown'
  BY <1>1 DEF WorkKnown
<1>6. Holding' = Holding
  BY <1>1 DEF Holding
<1> QED
  BY <1>1, <1>3, <1>4, <1>5, <1>6 DEF SlotsKept

LEMMA GoesOnKeeps ==
  ASSUME WorkInv, NEW w \in Workers, NEW p \in {"exec", "write", "release"},
         NEW r \in Job \cup {NoJob}, GoesOn(w, p, r)
  PROVE  WorkInv'
<1> USE DEF WorkInv, GoesOn
<1>1. /\ work' \in [Workers -> WorkRecord]
      /\ work'[w] = [job |-> work[w].job, pc |-> p, rec |-> r]
      /\ \A v \in Workers \ {w} : work'[v] = work[v]
  BY DEF WorkRecord
<1>2. OneGoroutine'
  BY <1>1 DEF OneGoroutine
<1>3. MarksExact'
  BY <1>1 DEF MarksExact
<1>4. WorkKnown'
  BY <1>1 DEF WorkKnown
<1>5. Holding' = Holding \cup {w}
  BY <1>1 DEF Holding
<1>6. SlotsKept' /\ IsFiniteSet(Holding')
  <2>1. /\ IsFiniteSet(Holding \cup {w})
        /\ Cardinality(Holding \cup {w})
             = IF w \in Holding THEN Cardinality(Holding) ELSE Cardinality(Holding) + 1
    BY FS_AddElement
  <2>2. Cardinality(Holding) \in Nat /\ MaxConcurrent \in Nat
    BY FS_CardinalityType, CronAssumption
  <2>3. w \notin Holding => Cardinality(Holding) < MaxConcurrent
    BY DEF Holding, WorkRecord
  <2> QED
    BY <1>5, <2>1, <2>2, <2>3 DEF SlotsKept
<1> QED
  BY <1>1, <1>2, <1>3, <1>4, <1>6

LEMMA EndsKeeps ==
  ASSUME WorkInv, NEW w \in Workers, Ends(w)
  PROVE  WorkInv'
<1> USE DEF WorkInv, Ends, Leave
<1>1. /\ work' \in [Workers -> WorkRecord]
      /\ work'[w] = Idle
      /\ \A v \in Workers \ {w} : work'[v] = work[v]
  BY RecordTypes
<1>2. OneGoroutine'
  BY <1>1, CronAssumption DEF OneGoroutine, WorkKnown, Idle
<1>3. MarksExact'
  BY <1>1 DEF MarksExact, OneGoroutine, Idle
<1>4. WorkKnown'
  BY <1>1 DEF WorkKnown, Idle
<1>5. Holding' \subseteq Holding
  BY <1>1 DEF Holding, Idle
<1>6. SlotsKept' /\ IsFiniteSet(Holding')
  BY <1>5, FS_Subset, FS_CardinalityType, CronAssumption DEF SlotsKept
<1> QED
  BY <1>1, <1>2, <1>3, <1>4, <1>6

LEMMA SamePlacesKeeps == WorkInv /\ SamePlaces => WorkInv'
<1> SUFFICES ASSUME WorkInv, SamePlaces PROVE WorkInv'
  OBVIOUS
<1>1. \A w \in Workers : work'[w].pc = work[w].pc /\ work'[w].job = work[w].job
  BY DEF SamePlaces
<1>2. Holding' = Holding
  BY <1>1 DEF Holding
<1>3. OneGoroutine' /\ MarksExact'
  BY <1>1 DEF OneGoroutine, MarksExact, WorkInv, SamePlaces
<1>4. WorkKnown'
  BY <1>1 DEF WorkKnown, WorkInv, SamePlaces
<1> QED
  BY <1>2, <1>3, <1>4 DEF WorkInv, SamePlaces, SlotsKept

LEMMA AllGoneKeeps == AllGone => WorkInv'
<1> SUFFICES ASSUME AllGone PROVE WorkInv'
  OBVIOUS
<1>1. Holding' = {}
  BY DEF Holding, AllGone, Idle
<1>2. IsFiniteSet(Holding') /\ SlotsKept'
  BY <1>1, FS_EmptySet, CronAssumption DEF SlotsKept
<1> QED
  BY <1>2, RecordTypes
     DEF WorkInv, AllGone, OneGoroutine, MarksExact, WorkKnown, Idle

(***************************************************************************)
(* The steps.  What is left of TypeOK once the goroutines are set apart:   *)
(***************************************************************************)
OthersTyped ==
  /\ mem \in StoreMap /\ file \in StoreMap /\ loaded \in BOOLEAN
  /\ sched \in {"up", "stopping", "leaving", "down"}
  /\ todo \in TickRecord /\ mark \in MarkRecord
  /\ running \subseteq Jobs /\ fresh \subseteq Jobs /\ asked \subseteq Jobs
  /\ call \in [Callers -> CallRecord]
  /\ events \in 0 .. MaxEvents

LEMMA CronInvParts ==
  CronInv <=> WorkInv /\ OthersTyped /\ CallKnown /\ DownAtRest
  BY TypeOKParts DEF CronInv, OneExecution, WorkInv, OthersTyped

LEMMA CronInvPartsNext ==
  WorkInv' /\ OthersTyped' /\ CallKnown' /\ DownAtRest' => CronInv'
<1>1. OthersTyped' /\ WorkInv' => TypeOK'
  BY DEF TypeOK, OthersTyped, WorkInv, StoreMap, WorkRecord, CallRecord, MarkRecord, TickRecord
<1> QED
  BY <1>1 DEF CronInv, OneExecution, WorkInv

LEMMA StoreTypes ==
  ASSUME OthersTyped
  PROVE  /\ View \in StoreMap /\ Source \in StoreMap
         /\ \A j, r : r \in Job \cup {NoJob}
              => [View EXCEPT ![j] = r] \in StoreMap /\ [file EXCEPT ![j] = r] \in StoreMap
  BY DEF OthersTyped, View, Source, StoreMap

\* A step that leaves the goroutines alone.
LEMMA QuietStep ==
  ASSUME CronInv, OthersTyped', CallKnown', UNCHANGED <<work, running>>,
         \/ sched' = sched /\ todo' = todo
         \/ sched' \in {"up", "stopping"}
         \/ sched' = "leaving" /\ todo' = Nothing
  PROVE  CronInv'
<1>1. WorkInv' /\ DownAtRest'
  BY CronInvParts
     DEF WorkInv, OneGoroutine, MarksExact, WorkKnown, SlotsKept, Holding, DownAtRest
<1> QED
  BY <1>1, CronInvPartsNext

\* A step of one goroutine, or of the tick loop for it.
LEMMA WorkStep ==
  ASSUME CronInv, OthersTyped', UNCHANGED <<call, todo>>, sched' = sched, sched # "down",
         \/ \E w \in Workers, j \in Jobs : Started(w, j)
         \/ \E w \in Workers, p \in {"exec", "write", "release"}, r \in Job \cup {NoJob} :
              GoesOn(w, p, r)
         \/ \E w \in Workers : Ends(w)
  PROVE  CronInv'
<1>1. WorkInv'
  BY CronInvParts, StartedKeeps, GoesOnKeeps, EndsKeeps
<1>2. CallKnown' /\ DownAtRest'
  BY CronInvParts DEF CallKnown, DownAtRest
<1> QED
  BY <1>1, <1>2, CronInvPartsNext

\* A goroutine or a tick is there only while the scheduler is.
LEMMA BusyIsUp ==
  ASSUME CronInv, NEW w \in Workers, work[w].pc # "idle"
  PROVE  sched # "down"
  BY DEF CronInv, DownAtRest

LEMMA TickIsUp ==
  ASSUME CronInv, NEW j \in todo.due \cup todo.late
  PROVE  sched \in {"up", "stopping"}
  BY CronInvParts DEF OthersTyped, DownAtRest, Nothing

LEMMA ClockKeeps ==
  ASSUME CronInv, NEW j \in Jobs, NEW from \in Times, NEW to \in Times, Clock(j, from, to)
  PROVE  CronInv'
<1> USE CronInvParts
<1>1. mem' \in StoreMap /\ file' \in StoreMap
  BY TurnType DEF Clock, OthersTyped, StoreMap
<1>2. ASSUME NEW w \in Workers
      PROVE  /\ work'[w] \in WorkRecord
             /\ work'[w].pc = work[w].pc
             /\ work'[w].job = work[w].job
             /\ work[w].pc = "idle" => work'[w] = work[w]
             /\ work[w].rec \in Job => work'[w].rec \in Job
  <2>1. work[w] \in WorkRecord /\ (work[w].pc = "idle" => work[w] = Idle)
    BY DEF WorkInv, WorkKnown
  <2>2. work'[w] = IF work[w].job = j
                   THEN [work[w] EXCEPT !.rec = Turn(from, to, @)] ELSE work[w]
    BY DEF Clock
  <2>3. /\ Turn(from, to, work[w].rec) \in Job \cup {NoJob}
        /\ work[w].rec \in Job => Turn(from, to, work[w].rec) \in Job
    BY <2>1, TurnType DEF WorkRecord
  <2> QED
    BY <2>1, <2>2, <2>3, CronAssumption DEF WorkRecord, Idle
<1>3. SamePlaces
  <2>1. work' = [w \in Workers |-> work'[w]]
    BY DEF Clock
  <2>2. running' = running
    BY DEF Clock
  <2> QED
    BY <1>2, <2>1, <2>2 DEF SamePlaces
<1>4. ASSUME NEW c \in Callers
      PROVE  /\ call'[c] \in CallRecord
             /\ call'[c].job = call[c].job
             /\ call[c] = Quiet => call'[c] = Quiet
  <2>1. call[c] \in CallRecord
    BY DEF OthersTyped
  <2>2. call'[c] = [call[c] EXCEPT !.view = [call[c].view EXCEPT ![j] = Turn(from, to, @)]]
    BY DEF Clock
  <2>3. [call[c].view EXCEPT ![j] = Turn(from, to, @)] \in StoreMap
    BY <2>1, TurnType DEF CallRecord, StoreMap
  <2>4. call[c] = Quiet
          => [call[c].view EXCEPT ![j] = Turn(from, to, @)] = Quiet.view
    BY TurnType DEF Quiet
  <2> QED
    BY <2>1, <2>2, <2>3, <2>4 DEF CallRecord, Quiet
<1>5. call' \in [Callers -> CallRecord] /\ CallKnown'
  <2>1. call' = [c \in Callers |-> call'[c]]
    BY DEF Clock
  <2>2. CallKnown'
    BY <1>4 DEF CallKnown
  <2> QED
    BY <1>4, <2>1, <2>2
<1>6. OthersTyped'
  BY <1>1, <1>5 DEF OthersTyped, Clock
<1>7. DownAtRest'
  BY <1>2 DEF DownAtRest, Clock
<1> QED
  BY <1>3, <1>5, <1>6, <1>7, SamePlacesKeeps, CronInvPartsNext

LEMMA TickKeeps ==
  ASSUME CronInv, TickLoop
  PROVE  CronInv'
<1> USE CronInvParts
<1>1. CASE Tick
  <2>1. OthersTyped'
    BY <1>1, StoreTypes DEF Tick, OthersTyped, TickRecord
  <2> QED
    BY <1>1, <2>1, QuietStep DEF Tick, CallKnown
<1>2. CASE TickMark
  <2>1. mark.rec \in Job \cup {NoJob}
    BY DEF OthersTyped, MarkRecord
  <2>2. OthersTyped'
    BY <1>2, <2>1, StoreTypes, RecordTypes DEF TickMark, Save, Store, OthersTyped
  <2> QED
    BY <1>2, <2>2, QuietStep DEF TickMark, CallKnown
<1>3. ASSUME NEW j \in Jobs, TickSkip(j) PROVE CronInv'
  <2>1. OthersTyped'
    BY <1>3 DEF TickSkip, OthersTyped, TickRecord, storeVars
  <2> QED
    BY <1>3, <2>1, QuietStep, TickIsUp DEF TickSkip, CallKnown
<1>4. ASSUME NEW j \in Jobs, TickLate(j) PROVE CronInv'
  <2>1. mark' \in MarkRecord
    <3>1. View[j] \in Job \cup {NoJob}
      BY StoreTypes DEF StoreMap
    <3> QED
      BY <1>4, <3>1, RestType, RecordTypes DEF TickLate, MarkRecord
  <2>2. OthersTyped'
    BY <1>4, <2>1 DEF TickLate, OthersTyped, TickRecord, storeVars
  <2> QED
    BY <1>4, <2>2, QuietStep, TickIsUp DEF TickLate, CallKnown
<1>5. ASSUME NEW j \in Jobs, TickStart(j) PROVE CronInv'
  <2> DEFINE w == CHOOSE v \in Spare : TRUE
  <2>1. w \in Workers /\ work[w] = Idle
    <3>1. Spare # {}
      BY <1>5 DEF TickStart
    <3> QED
      BY <3>1 DEF Spare
  <2>2. Started(w, j)
    BY <1>5, <2>1 DEF TickStart, Started
  <2>3. OthersTyped'
    BY <1>5 DEF TickStart, OthersTyped, TickRecord, storeVars
  <2> HIDE DEF w
  <2>4. WorkInv'
    BY <2>1, <2>2, StartedKeeps
  <2>5. CallKnown' /\ DownAtRest'
    BY <1>5, TickIsUp DEF TickStart, CallKnown, DownAtRest
  <2> QED
    BY <2>3, <2>4, <2>5, CronInvPartsNext
<1> QED
  BY <1>1, <1>2, <1>3, <1>4, <1>5 DEF TickLoop

LEMMA ExecuteKeeps ==
  ASSUME CronInv, NEW w \in Workers, Begin(w) \/ Execute(w)
  PROVE  CronInv'
<1> USE CronInvParts
<1>1. sched # "down"
  BY BusyIsUp DEF Begin, Execute, Abandon, Write, Release, Finish, Panic
<1>2. work[w].job \in Jobs
  BY DEF WorkInv, WorkKnown, Begin, Execute, Abandon, Write, Release, Finish, Panic
<1>3. View[work[w].job] \in Job \cup {NoJob}
  BY <1>2, StoreTypes DEF StoreMap
<1>4. CASE Begin(w)
  <2> DEFINE latest == View[work[w].job]
  <2>1. OthersTyped'
    BY <1>4 DEF Begin, Leave, OthersTyped, storeVars
  <2>2. CASE latest # NoJob /\ latest.enabled
    <3>1. GoesOn(w, "exec", latest)
      BY <1>3, <1>4, <2>2 DEF Begin, GoesOn
    <3>2. WorkInv'
      BY <1>3, <3>1, GoesOnKeeps
    <3> QED
      BY <1>1, <1>4, <2>1, <3>2, CronInvPartsNext DEF Begin, CallKnown, DownAtRest
  <2>3. CASE ~(latest # NoJob /\ latest.enabled)
    <3>1. Ends(w)
      BY <1>4, <2>3 DEF Begin, Ends
    <3> QED
      BY <1>1, <1>4, <2>1, <3>1, WorkStep DEF Begin
  <2> QED
    BY <2>2, <2>3
<1>5. CASE Abandon(w) \/ Release(w)
  <2>1. OthersTyped' /\ Ends(w)
    BY <1>5 DEF Abandon, Release, Leave, Ends, OthersTyped, storeVars
  <2> QED
    BY <1>1, <1>5, <2>1, WorkStep DEF Abandon, Release
<1>6. CASE Write(w)
  <2>1. work[w].rec \in Job
    BY <1>6 DEF Write, WorkInv, WorkKnown
  <2>2. OthersTyped'
    BY <1>6, <2>1, StoreTypes DEF Write, Save, Store, OthersTyped
  <2>3. GoesOn(w, "release", NoJob)
    BY <1>6 DEF Write, GoesOn
  <2> QED
    BY <1>1, <1>6, <2>2, <2>3, WorkStep DEF Write
<1>7. ASSUME NEW o \in Outcomes, Finish(w, o) PROVE CronInv'
  <2> DEFINE cur == View[work[w].job]
             rec == Merged(cur, Executed(work[w].rec, o))
  <2>1. OthersTyped'
    BY <1>7 DEF Finish, OthersTyped, storeVars
  <2>2. CASE cur = NoJob
    <3>1. GoesOn(w, "release", NoJob)
      BY <1>7, <2>2 DEF Finish, GoesOn
    <3> QED
      BY <1>1, <1>7, <2>1, <3>1, WorkStep DEF Finish
  <2>3. CASE cur # NoJob
    <3>1. rec \in Job
      BY <1>3, <1>7, <2>3, ExecutedType, MergedType DEF Finish, WorkInv, WorkKnown
    <3>2. GoesOn(w, "write", rec)
      BY <1>7, <2>3, <3>1 DEF Finish, GoesOn
    <3> HIDE DEF rec
    <3> QED
      BY <1>1, <1>7, <2>1, <3>1, <3>2, WorkStep DEF Finish
  <2> QED
    BY <2>2, <2>3
<1>8. CASE Panic(w)
  <2>1. OthersTyped'
    BY <1>8 DEF Panic, OthersTyped, storeVars
  <2>2. GoesOn(w, "release", NoJob)
    BY <1>8 DEF Panic, GoesOn
  <2> QED
    BY <1>1, <1>8, <2>1, <2>2, WorkStep DEF Panic
<1> QED
  BY <1>4, <1>5, <1>6, <1>7, <1>8 DEF Execute

LEMMA ManageKeeps ==
  ASSUME CronInv, Manage
  PROVE  CronInv'
<1> USE CronInvParts
<1>1. ASSUME NEW j \in Jobs, NEW k \in Kinds, NEW m \in Limits, Create(j, k, m)
      PROVE  CronInv'
  <2>1. Created(k, m) \in Job
    BY CreatedType, CronAssumption
  <2>2. events' \in 0 .. MaxEvents
    BY <1>1, CronAssumption DEF Create, OthersTyped
  <2>3. OthersTyped'
    <3>1. mem' \in StoreMap /\ file' \in StoreMap /\ loaded' \in BOOLEAN
      <4> DEFINE f == [file EXCEPT ![j] = Created(k, m)]
                 g == [View EXCEPT ![j] = Created(k, m)]
      <4>1. f \in StoreMap /\ g \in StoreMap
        BY <2>1, StoreTypes
      <4>2. \/ file' = f /\ mem' = mem /\ loaded' = loaded
            \/ file' = g /\ mem' = g /\ loaded' = TRUE
        BY <1>1 DEF Create, Save, Store
      <4> HIDE DEF f, g
      <4> QED
        BY <4>1, <4>2 DEF OthersTyped
    <3> QED
      BY <1>1, <2>2, <3>1 DEF Create, OthersTyped
  <2> QED
    BY <1>1, <2>3, QuietStep DEF Create, CallKnown
<1>2. ASSUME NEW c \in Callers, NEW op \in Ops \ {"create"}, NEW j \in Jobs, Read(c, op, j)
      PROVE  CronInv'
  <2>1. PICK r \in Outcome(op, Source[j]) :
          call' = [call EXCEPT ![c] =
                    [job |-> j, op |-> op,
                     view |-> IF OwnStore THEN [file EXCEPT ![j] = r]
                              ELSE [Quiet.view EXCEPT ![j] = r]]]
    BY <1>2 DEF Read
  <2>2. Source[j] \in Job
    BY <1>2, StoreTypes DEF Read, StoreMap
  <2>3. r \in Job \cup {NoJob}
    BY <2>1, <2>2, OutcomeType
  <2>4. [file EXCEPT ![j] = r] \in StoreMap /\ [Quiet.view EXCEPT ![j] = r] \in StoreMap
    BY <2>3, StoreTypes DEF Quiet, StoreMap
  <2>5. call' \in [Callers -> CallRecord] /\ CallKnown'
    <3> DEFINE v == IF OwnStore THEN [file EXCEPT ![j] = r] ELSE [Quiet.view EXCEPT ![j] = r]
    <3>1. v \in StoreMap /\ op \in Ops
      BY <2>4
    <3>2. call' = [call EXCEPT ![c] = [job |-> j, op |-> op, view |-> v]]
      BY <2>1
    <3> HIDE DEF v
    <3> QED
      BY <3>1, <3>2 DEF OthersTyped, CallRecord, CallKnown
  <2>6. events' \in 0 .. MaxEvents
    BY <1>2, CronAssumption DEF Read, OthersTyped
  <2>7. OthersTyped'
    BY <1>2, <2>5, <2>6, StoreTypes DEF Read, OthersTyped, storeVars
  <2> QED
    BY <1>2, <2>5, <2>7, QuietStep DEF Read
<1>3. ASSUME NEW c \in Callers, Put(c) PROVE CronInv'
  <2>1. /\ call[c] \in CallRecord
        /\ call[c].job \in Jobs
        /\ call[c].view[call[c].job] \in Job \cup {NoJob}
        /\ call[c].view \in StoreMap
    BY <1>3 DEF Put, CallKnown, OthersTyped, CallRecord, StoreMap
  <2>2. call' \in [Callers -> CallRecord] /\ CallKnown'
    BY <1>3, RecordTypes DEF Put, CallKnown, OthersTyped
  <2>3. OthersTyped'
    <3>1. mem' \in StoreMap /\ file' \in StoreMap /\ loaded' \in BOOLEAN
      <4> DEFINE g == [View EXCEPT ![call[c].job] = call[c].view[call[c].job]]
      <4>1. g \in StoreMap
        BY <2>1, StoreTypes
      <4>2. \/ file' = call[c].view /\ mem' = mem /\ loaded' = loaded
            \/ file' = g /\ mem' = g /\ loaded' = TRUE
        BY <1>3 DEF Put, Save, Store
      <4> HIDE DEF g
      <4> QED
        BY <2>1, <4>1, <4>2 DEF OthersTyped
    <3>2. asked' \subseteq Jobs
      BY <1>3, <2>1 DEF Put, OthersTyped
    <3> QED
      BY <1>3, <2>2, <3>1, <3>2 DEF Put, OthersTyped
  <2> QED
    BY <1>3, <2>2, <2>3, QuietStep DEF Put
<1> QED
  BY <1>1, <1>2, <1>3 DEF Manage

LEMMA LifeKeeps ==
  ASSUME CronInv, Stop \/ LoopEnds \/ Stopped \/ Start \/ Crash
  PROVE  CronInv'
<1> USE CronInvParts, RecordTypes, CronAssumption
<1>1. CASE Stop
  <2>1. OthersTyped'
    BY <1>1 DEF Stop, OthersTyped, storeVars
  <2> QED
    BY <1>1, <2>1, QuietStep DEF Stop, CallKnown
<1>2. CASE Stopped
  <2>1. OthersTyped' /\ CallKnown'
    BY <1>2 DEF Stopped, OthersTyped, CallKnown, storeVars
  <2>2. SamePlaces
    BY <1>2 DEF Stopped, SamePlaces, WorkInv
  <2>3. DownAtRest'
    BY <1>2 DEF Stopped, DownAtRest, Idle
  <2> QED
    BY <2>1, <2>2, <2>3, SamePlacesKeeps, CronInvPartsNext
<1>3. CASE Start
  <2>1. OthersTyped' /\ CallKnown'
    BY <1>3 DEF Start, OthersTyped, CallKnown
  <2>2. \A w \in Workers : work[w] = Idle
    BY <1>3 DEF Start, DownAtRest, WorkInv, WorkKnown
  <2>3. AllGone
    BY <1>3, <2>2 DEF Start, AllGone, WorkInv
  <2> QED
    BY <1>3, <2>1, <2>3, AllGoneKeeps, CronInvPartsNext DEF Start, DownAtRest
<1>4. CASE Crash
  <2>1. call' \in [Callers -> CallRecord] /\ CallKnown'
    BY <1>4 DEF Crash, CallKnown
  <2>2. events' \in 0 .. MaxEvents
    BY <1>4 DEF Crash, OthersTyped
  <2>3. OthersTyped'
    BY <1>4, <2>1, <2>2 DEF Crash, OthersTyped
  <2>4. AllGone /\ DownAtRest'
    BY <1>4 DEF Crash, AllGone, DownAtRest, Idle
  <2> QED
    BY <2>1, <2>3, <2>4, AllGoneKeeps, CronInvPartsNext
<1>5. CASE LoopEnds
  <2>1. OthersTyped'
    BY <1>5 DEF LoopEnds, OthersTyped, storeVars
  <2> QED
    BY <1>5, <2>1, QuietStep DEF LoopEnds, CallKnown
<1> QED
  BY <1>1, <1>2, <1>3, <1>4, <1>5

LEMMA CronInductive == CronInv /\ [Next]_vars => CronInv'
<1> SUFFICES ASSUME CronInv, [Next]_vars PROVE CronInv'
  OBVIOUS
<1>1. ASSUME NEW j \in Jobs, BecomesDue(j) \/ Expires(j) PROVE CronInv'
  BY <1>1, ClockKeeps DEF BecomesDue, Expires, Times
<1>2. ASSUME NEW w \in Workers, Begin(w) \/ Execute(w) PROVE CronInv'
  BY <1>2, ExecuteKeeps
<1>3. CASE UNCHANGED vars
  <2>1. OthersTyped' /\ CallKnown'
    BY <1>3, CronInvParts DEF vars, OthersTyped, CallKnown
  <2> QED
    BY <1>3, <2>1, QuietStep DEF vars
<1> QED
  BY <1>1, <1>2, <1>3, TickKeeps, ManageKeeps, LifeKeeps DEF Next

\* Whatever ticks, executions, operations of a manager, stops, starts and
\* crashes do in between, no job has two goroutines, it is marked in
\* runningJobs exactly while its goroutine lives, and at most MaxConcurrent
\* goroutines hold a slot; for any number of jobs, goroutines and callers.
THEOREM NoJobOverlaps == Spec => []OneExecution
<1>1. Init => CronInv
  BY CronInitial
<1>2. CronInv /\ [Next]_vars => CronInv'
  BY CronInductive
<1>3. CronInv => OneExecution
  BY DEF CronInv
<1> QED
  BY <1>1, <1>2, <1>3, PTL DEF Spec

=============================================================================

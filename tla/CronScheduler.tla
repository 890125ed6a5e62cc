--------------------------- MODULE CronScheduler ---------------------------
(***************************************************************************)
(* The job scheduler of package cron: its tick loop, the goroutine that    *)
(* executes a job, the store behind it (a map in memory over a JSON file)  *)
(* and the managers that change jobs meanwhile.                            *)
(*                                                                         *)
(* Every call of the store is one critical section, and nothing holds the  *)
(* lock from a Get to the Save that follows: an operation of a manager and *)
(* the end of an execution are a read step and a write step.               *)
(*                                                                         *)
(* A time is what the scheduler tells apart of it: "future", "due", "late" *)
(* (a one-shot job past its grace period) or "never" (no NextRunAt).  The  *)
(* clock moves all copies of a job's time together.                        *)
(***************************************************************************)
EXTENDS Integers, FiniteSets

CONSTANTS
  Jobs,           \* identifiers a store may hold
  NoJob,          \* what the store answers for an unknown identifier
  Workers,        \* goroutines that execute jobs
  Callers,        \* goroutines inside an operation of a manager
  OwnStore,       \* TRUE: each operation opens the file anew (the HTTP API);
                  \* FALSE: it shares the scheduler's store (the bundles)
  MaxConcurrent,  \* SchedulerConfig.MaxConcurrent
  MaxFailures,    \* maxConsecutiveFailures
  Once, Repeat,   \* jobs the file holds at first, by kind of schedule
  Kinds,          \* kinds a created or rescheduled job may have
  Limits,         \* values of MaxRuns that occur; 0 is unlimited
  Outcomes,       \* what an executor may do: answer "ok" or "error", or "panic"
  Ops,            \* operations that occur
  CanStop,        \* whether the bot may be stopped, and crash
  MaxEvents       \* bound on operations, stops and crashes together

ASSUME CronAssumption ==
  /\ NoJob \notin Jobs
  /\ OwnStore \in BOOLEAN
  /\ MaxConcurrent \in Nat \ {0}
  /\ MaxFailures \in Nat \ {0}
  /\ Once \subseteq Jobs /\ Repeat \subseteq Jobs /\ Once \cap Repeat = {}
  /\ Kinds \subseteq {"once", "repeat"}
  /\ Limits \subseteq Nat /\ 0 \in Limits
  /\ \E top \in Limits : \A m \in Limits : m <= top
  /\ Outcomes \subseteq {"ok", "error", "panic"}
  /\ Ops \subseteq {"create", "pause", "resume", "trigger", "reschedule", "relimit",
                   "disable", "enable", "rename", "delete"}
  /\ CanStop \in BOOLEAN /\ MaxEvents \in Nat

VARIABLES
  mem,      \* the scheduler's store: identifier -> job
  loaded,   \* whether that store has read the file yet
  file,     \* the JSON file
  sched,    \* "up", "stopping" (stopCh closed), "leaving" (the loop
            \* has returned) or "down"
  todo,     \* jobs of the current tick still to be looked at
  mark,     \* the late job that markDone has read and not yet written
  running,  \* Scheduler.runningJobs
  work,     \* worker -> where it is in executeJob, and the job it will save
  call,     \* caller -> the operation it is in, and the job it will save
  fresh,    \* identifiers not given out yet
  asked,    \* history: jobs triggered and not executed, nor changed, since
  events    \* operations, stops and crashes so far

vars == <<mem, loaded, file, sched, todo, mark, running, work, call, fresh,
          asked, events>>
storeVars == <<mem, loaded, file>>

States == {"active", "paused", "done", "failed", "disabled"}
Times == {"never", "future", "due", "late"}
Runs == UNION {0 .. m : m \in Limits}

Job == [kind : {"once", "repeat"}, limit : Limits, enabled : BOOLEAN, state : States,
        next : Times, runs : Runs, fails : 0 .. MaxFailures]

Idle == [job |-> NoJob, pc |-> "idle", rec |-> NoJob]
Quiet == [job |-> NoJob, op |-> "none", view |-> [j \in Jobs |-> NoJob]]
Nothing == [due |-> {}, late |-> {}]
NoMark == [job |-> NoJob, rec |-> NoJob]

\* CreateJob: a job as a manager makes it.
Created(k, m) == [kind |-> k, limit |-> m, enabled |-> TRUE,
                  state |-> "active", next |-> "future", runs |-> 0,
                  fails |-> 0]

-----------------------------------------------------------------------------
(***************************************************************************)
(* The store.  The first call loads the file; Save and Delete change the   *)
(* map and write the whole of it to the file.                              *)
(***************************************************************************)
View == IF loaded THEN mem ELSE file

Store(map) ==
  /\ mem' = map
  /\ file' = map
  /\ loaded' = TRUE

Save(j, r) == Store([View EXCEPT ![j] = r])

\* ListActive, and the jobs of it whose time has come.
Active(r) == r # NoJob /\ r.enabled /\ r.state = "active"
Due(j) == Active(View[j]) /\ View[j].next = "due"
Late(j) == Active(View[j]) /\ View[j].next = "late"

-----------------------------------------------------------------------------
(***************************************************************************)
(* The end of an execution, from the job as it was read at its start.      *)
(***************************************************************************)
Bump(n, top) == IF n < top THEN n + 1 ELSE n
TopRun == CHOOSE m \in Runs : \A n \in Runs : n <= m
LimitReached(r) == r.limit > 0 /\ r.runs >= r.limit

Rest(r, s) == [r EXCEPT !.state = s, !.next = "never"]

AfterError(r) ==
  IF r.kind = "once" \/ LimitReached(r) \/ r.fails >= MaxFailures
  THEN Rest(r, "failed")
  ELSE [r EXCEPT !.next = "future"]

AfterSuccess(r) ==
  IF r.kind = "once" \/ LimitReached(r)
  THEN Rest(r, "done")
  ELSE [r EXCEPT !.next = "future"]

Executed(latest, o) ==
  LET r == [latest EXCEPT !.runs = Bump(@, TopRun)] IN
  IF o = "error" THEN AfterError([r EXCEPT !.fails = Bump(@, MaxFailures)])
                 ELSE AfterSuccess([r EXCEPT !.fails = 0])

\* What the execution writes over the job it finds when it ends.
Merged(cur, latest) ==
  [cur EXCEPT !.runs = latest.runs, !.state = latest.state,
              !.next = latest.next, !.fails = latest.fails]

-----------------------------------------------------------------------------
(***************************************************************************)
(* The operations of a manager: the job they save, given the one they      *)
(* read, or none at all when they refuse.                                  *)
(***************************************************************************)
Finished(r) == r.state \in {"done", "failed"}

Pause(r) == {[r EXCEPT !.state = "paused"]}

Resume(r) ==
  IF r.state # "paused" THEN {}
  ELSE {[r EXCEPT !.state = "active", !.fails = 0,
                  !.next = IF r.kind = "repeat" THEN "future" ELSE @]}

Trigger(r) ==
  {IF Finished(r)
   THEN [r EXCEPT !.next = "due", !.state = "active", !.fails = 0]
   ELSE [r EXCEPT !.next = "due"]}

Reschedule(r) ==
  {[r EXCEPT !.kind = k, !.next = "future",
             !.state = IF r.enabled /\ Finished(r) THEN "active" ELSE @] :
     k \in Kinds}

Relimit(r) == {[r EXCEPT !.limit = m] : m \in Limits}

Disable(r) == {[r EXCEPT !.enabled = FALSE, !.state = "disabled"]}

Enable(r) ==
  {[r EXCEPT !.enabled = TRUE,
             !.state = IF @ = "disabled" THEN "active" ELSE @]}

\* A name, a prompt, a model: nothing the scheduler looks at.
Rename(r) == {r}

Outcome(op, r) ==
  CASE op = "pause"      -> Pause(r)
    [] op = "resume"     -> Resume(r)
    [] op = "trigger"    -> Trigger(r)
    [] op = "reschedule" -> Reschedule(r)
    [] op = "relimit"    -> Relimit(r)
    [] op = "disable"    -> Disable(r)
    [] op = "enable"     -> Enable(r)
    [] op = "rename"     -> Rename(r)
    [] op = "delete"     -> {NoJob}

-----------------------------------------------------------------------------
Init ==
  /\ file \in {[j \in Jobs |-> IF j \in Once THEN Created("once", limit[j])
                              ELSE IF j \in Repeat THEN Created("repeat", limit[j])
                              ELSE NoJob] : limit \in [Jobs -> Limits]}
  /\ mem = [j \in Jobs |-> NoJob]
  /\ loaded = FALSE
  /\ sched = "up"
  /\ todo = Nothing
  /\ mark = NoMark
  /\ running = {}
  /\ work = [w \in Workers |-> Idle]
  /\ call = [c \in Callers |-> Quiet]
  /\ fresh = {j \in Jobs : file[j] = NoJob}
  /\ asked = {}
  /\ events = 0

(***************************************************************************)
(* The clock.                                                              *)
(***************************************************************************)
Turn(from, to, r) ==
  IF r # NoJob /\ r.next = from /\ (to = "late" => r.kind = "once")
  THEN [r EXCEPT !.next = to] ELSE r

Clock(j, from, to) ==
  /\ mem' = [mem EXCEPT ![j] = Turn(from, to, @)]
  /\ file' = [file EXCEPT ![j] = Turn(from, to, @)]
  /\ work' = [w \in Workers |->
                IF work[w].job = j
                THEN [work[w] EXCEPT !.rec = Turn(from, to, @)] ELSE work[w]]
  /\ call' = [c \in Callers |->
                [call[c] EXCEPT !.view[j] = Turn(from, to, @)]]
  /\ <<mem', file', work', call'>> # <<mem, file, work, call>>
  /\ UNCHANGED <<loaded, sched, todo, mark, running, fresh, asked, events>>

BecomesDue(j) == Clock(j, "future", "due")
Expires(j) == Clock(j, "due", "late")

(***************************************************************************)
(* The tick loop.  A tick takes a copy of the active jobs and goes through *)
(* it; the store may change under it.                                      *)
(***************************************************************************)
\* The select of the loop picks any case that is ready: a tick may still begin
\* when stopCh is closed.
Tick ==
  /\ sched \in {"up", "stopping"}
  /\ todo = Nothing /\ mark = NoMark
  /\ \E j \in Jobs : Due(j) \/ Late(j)
  /\ todo' = [due |-> {j \in Jobs : Due(j)}, late |-> {j \in Jobs : Late(j)}]
  /\ mem' = View /\ loaded' = TRUE
  /\ UNCHANGED <<file, sched, mark, running, work, call, fresh, asked, events>>

Spare == {w \in Workers : work[w] = Idle}

\* A due job already running is passed over; else it gets a goroutine.
TickSkip(j) ==
  /\ mark = NoMark
  /\ j \in todo.due /\ j \in running
  /\ todo' = [todo EXCEPT !.due = @ \ {j}]
  /\ UNCHANGED <<storeVars, sched, mark, running, work, call, fresh, asked,
                 events>>

\* Mutant of TickStart: runningJobs is set without being looked at.
TickStartAgain(j) ==
  /\ mark = NoMark
  /\ j \in todo.due
  /\ Spare # {}
  /\ todo' = [todo EXCEPT !.due = @ \ {j}]
  /\ running' = running \cup {j}
  /\ work' = [work EXCEPT ![CHOOSE w \in Spare : TRUE] =
                            [Idle EXCEPT !.job = j, !.pc = "slot"]]
  /\ UNCHANGED <<storeVars, sched, mark, call, fresh, asked, events>>

TickStart(j) ==
  /\ mark = NoMark
  /\ j \in todo.due /\ j \notin running
  /\ Spare # {}
  /\ todo' = [todo EXCEPT !.due = @ \ {j}]
  /\ running' = running \cup {j}
  /\ work' = [work EXCEPT ![CHOOSE w \in Spare : TRUE] =
                            [Idle EXCEPT !.job = j, !.pc = "slot"]]
  /\ UNCHANGED <<storeVars, sched, mark, call, fresh, asked, events>>

\* markDone, for a one-shot job past its grace period: read, then write.
TickLate(j) ==
  /\ mark = NoMark
  /\ j \in todo.late
  /\ todo' = [todo EXCEPT !.late = @ \ {j}]
  /\ mark' = IF View[j] = NoJob THEN NoMark
             ELSE [job |-> j, rec |-> Rest(View[j], "done")]
  /\ UNCHANGED <<storeVars, sched, running, work, call, fresh, asked, events>>

TickMark ==
  /\ mark # NoMark
  /\ Save(mark.job, mark.rec)
  /\ mark' = NoMark
  /\ UNCHANGED <<sched, todo, running, work, call, fresh, asked, events>>

-----------------------------------------------------------------------------
(***************************************************************************)
(* executeJob.                                                             *)
(***************************************************************************)
Holding == {w \in Workers : work[w].pc \in {"exec", "write", "release"}}

\* Mutant of Leave: the mark in runningJobs is left behind.
LeaveMarked(w) ==
  /\ work' = [work EXCEPT ![w] = Idle]
  /\ UNCHANGED running

\* The deferred calls: the slot goes back and the job is no longer running.
Leave(w) ==
  /\ work' = [work EXCEPT ![w] = Idle]
  /\ running' = running \ {work[w].job}

\* A slot is taken and the job read again; only Enabled is looked at.
Begin(w) ==
  LET j == work[w].job
      latest == View[j] IN
  /\ work[w].pc = "slot"
  /\ Cardinality(Holding) < MaxConcurrent
  /\ IF latest # NoJob /\ latest.enabled
     THEN /\ work' = [work EXCEPT ![w].pc = "exec", ![w].rec = latest]
          /\ asked' = asked \ {j}
          /\ UNCHANGED running
     ELSE Leave(w) /\ UNCHANGED asked
  /\ UNCHANGED <<storeVars, sched, todo, mark, call, fresh, events>>

\* stopCh is closed while the goroutine waits for a slot.
Abandon(w) ==
  /\ work[w].pc = "slot"
  /\ sched \in {"stopping", "leaving"}
  /\ Leave(w)
  /\ UNCHANGED <<storeVars, sched, todo, mark, call, fresh, asked, events>>

\* The executor answers; the job is read once more, and if it still exists
\* what the execution computed is laid over it.
Finish(w, o) ==
  LET j == work[w].job
      cur == View[j] IN
  /\ work[w].pc = "exec"
  /\ work' = IF cur = NoJob
             THEN [work EXCEPT ![w].pc = "release", ![w].rec = NoJob]
             ELSE [work EXCEPT ![w].pc = "write",
                               ![w].rec = Merged(cur, Executed(@, o))]
  /\ UNCHANGED <<storeVars, sched, todo, mark, running, call, fresh, asked,
                 events>>

\* The executor panics: the goroutine recovers and the job stays as it is.
Panic(w) ==
  /\ work[w].pc = "exec"
  /\ work' = [work EXCEPT ![w].pc = "release", ![w].rec = NoJob]
  /\ UNCHANGED <<storeVars, sched, todo, mark, running, call, fresh, asked,
                 events>>

Write(w) ==
  /\ work[w].pc = "write"
  /\ Save(work[w].job, work[w].rec)
  /\ work' = [work EXCEPT ![w].pc = "release", ![w].rec = NoJob]
  /\ UNCHANGED <<sched, todo, mark, running, call, fresh, asked, events>>

Release(w) ==
  /\ work[w].pc = "release"
  /\ Leave(w)
  /\ UNCHANGED <<storeVars, sched, todo, mark, call, fresh, asked, events>>

-----------------------------------------------------------------------------
(***************************************************************************)
(* The managers.  One that shares the scheduler's store exists as long as  *)
(* the scheduler does.  One that opens the file holds a whole map of its   *)
(* own from the moment it reads to the moment it writes all of it back.    *)
(***************************************************************************)
Source == IF OwnStore THEN file ELSE View
Here == OwnStore \/ sched # "down"

Create(j, k, m) ==
  /\ Here /\ events < MaxEvents /\ "create" \in Ops
  /\ j \in fresh
  /\ fresh' = fresh \ {j}
  /\ events' = events + 1
  /\ IF OwnStore
     THEN file' = [file EXCEPT ![j] = Created(k, m)] /\ UNCHANGED <<mem, loaded>>
     ELSE Save(j, Created(k, m))
  /\ UNCHANGED <<sched, todo, mark, running, work, call, asked>>

\* The operation reads the job and works on its copy.
Read(c, op, j) ==
  /\ Here /\ events < MaxEvents /\ op \in Ops
  /\ call[c] = Quiet
  /\ Source[j] # NoJob
  /\ \E r \in Outcome(op, Source[j]) :
       call' = [call EXCEPT ![c] =
                  [job |-> j, op |-> op,
                   view |-> IF OwnStore THEN [file EXCEPT ![j] = r]
                            ELSE [Quiet.view EXCEPT ![j] = r]]]
  /\ events' = events + 1
  /\ IF OwnStore THEN UNCHANGED storeVars
     ELSE mem' = View /\ loaded' = TRUE /\ UNCHANGED file
  /\ UNCHANGED <<sched, todo, mark, running, work, fresh, asked>>

\* ... and saves it.
Put(c) ==
  LET j == call[c].job
      r == call[c].view[j] IN
  /\ call[c] # Quiet
  /\ IF OwnStore THEN file' = call[c].view /\ UNCHANGED <<mem, loaded>>
     ELSE Save(j, r)
  /\ call' = [call EXCEPT ![c] = Quiet]
  /\ asked' = IF call[c].op = "trigger" /\ Active(r) THEN asked \cup {j}
              ELSE asked \ {j}
  /\ UNCHANGED <<sched, todo, mark, running, work, fresh, events>>

-----------------------------------------------------------------------------
(***************************************************************************)
(* Stop closes stopCh and waits for the loop and every goroutine, not for  *)
(* operations of a manager.  A start is a new Scheduler over a new Store,  *)
(* for which the operations on the old Store are taken to be over.  A      *)
(* crash keeps the file only.                                              *)
(***************************************************************************)
Stop ==
  /\ CanStop /\ sched = "up" /\ events < MaxEvents
  /\ sched' = "stopping"
  /\ events' = events + 1
  /\ UNCHANGED <<storeVars, todo, mark, running, work, call, fresh, asked>>

\* Mutant of LoopEnds: the loop stays as long as there are jobs to run.
LoopEndsDrained ==
  /\ sched = "stopping"
  /\ todo = Nothing /\ mark = NoMark
  /\ \A j \in Jobs : ~Active(View[j])
  /\ sched' = "leaving"
  /\ UNCHANGED <<storeVars, todo, mark, running, work, call, fresh, asked, events>>

\* <-stopCh, between two ticks.
LoopEnds ==
  /\ sched = "stopping"
  /\ todo = Nothing /\ mark = NoMark
  /\ sched' = "leaving"
  /\ UNCHANGED <<storeVars, todo, mark, running, work, call, fresh, asked, events>>

Stopped ==
  /\ sched = "leaving"
  /\ \A w \in Workers : work[w] = Idle
  /\ sched' = "down"
  /\ UNCHANGED <<storeVars, todo, mark, running, work, call, fresh, asked,
                 events>>

Start ==
  /\ sched = "down"
  /\ OwnStore \/ \A c \in Callers : call[c] = Quiet
  /\ sched' = "up"
  /\ mem' = [j \in Jobs |-> NoJob] /\ loaded' = FALSE
  /\ running' = {}
  /\ UNCHANGED <<file, todo, mark, work, call, fresh, asked, events>>

Crash ==
  /\ CanStop /\ sched # "down" /\ events < MaxEvents
  /\ events' = events + 1
  /\ sched' = "down"
  /\ mem' = [j \in Jobs |-> NoJob] /\ loaded' = FALSE
  /\ todo' = Nothing /\ mark' = NoMark /\ running' = {}
  /\ work' = [w \in Workers |-> Idle]
  /\ call' = [c \in Callers |-> Quiet]
  /\ UNCHANGED <<file, fresh, asked>>

-----------------------------------------------------------------------------
TickLoop ==
  \/ Tick \/ TickMark
  \/ \E j \in Jobs : TickSkip(j) \/ TickLate(j) \/ TickStart(j)

Execute(w) == \/ Abandon(w) \/ Write(w) \/ Release(w)
              \/ "panic" \in Outcomes /\ Panic(w)
              \/ \E o \in Outcomes \ {"panic"} : Finish(w, o)

Manage ==
  \/ \E j \in Jobs, k \in Kinds, m \in Limits : Create(j, k, m)
  \/ \E c \in Callers : Put(c) \/ \E op \in Ops \ {"create"}, j \in Jobs : Read(c, op, j)

Next ==
  \/ \E j \in Jobs : BecomesDue(j) \/ Expires(j)
  \/ TickLoop
  \/ \E w \in Workers : Begin(w) \/ Execute(w)
  \/ Manage
  \/ Stop \/ LoopEnds \/ Stopped \/ Start \/ Crash

Spec == Init /\ [][Next]_vars

(***************************************************************************)
(* The ticker keeps ticking, the loop goes through a tick, an execution    *)
(* ends (JobTimeout), goroutines and callers run on, whoever stops the bot *)
(* starts it again.  Goroutines blocked on the slots are served in order,  *)
(* so that one of them cannot be passed over forever; and a loop whose     *)
(* stopCh is closed does not find its ticker ready, and pick it, for ever. *)
(***************************************************************************)
FairSpec ==
  /\ Spec
  /\ WF_vars(TickLoop)
  /\ \A j \in Jobs : WF_vars(BecomesDue(j))
  /\ \A w \in Workers : SF_vars(Begin(w)) /\ WF_vars(Execute(w))
  /\ \A c \in Callers : WF_vars(Put(c))
  /\ SF_vars(LoopEnds) /\ WF_vars(Stopped) /\ WF_vars(Start)

-----------------------------------------------------------------------------
TypeOK ==
  /\ mem \in [Jobs -> Job \cup {NoJob}] /\ file \in [Jobs -> Job \cup {NoJob}]
  /\ loaded \in BOOLEAN
  /\ sched \in {"up", "stopping", "leaving", "down"}
  /\ todo \in [due : SUBSET Jobs, late : SUBSET Jobs]
  /\ mark \in [job : Jobs \cup {NoJob}, rec : Job \cup {NoJob}]
  /\ running \subseteq Jobs /\ fresh \subseteq Jobs /\ asked \subseteq Jobs
  /\ work \in [Workers -> [job : Jobs \cup {NoJob}, rec : Job \cup {NoJob},
                pc : {"idle", "slot", "exec", "write", "release"}]]
  /\ call \in [Callers -> [job : Jobs \cup {NoJob}, op : Ops \cup {"none"},
                            view : [Jobs -> Job \cup {NoJob}]]]
  /\ events \in 0 .. MaxEvents

\* No job has two goroutines (README: "同一 Job 不会重叠执行"), a job is marked
\* as running exactly as long as its goroutine lives (a mark left behind would
\* keep it from ever running again), and the slots are not exceeded, whatever
\* ticks, executions, operators, stops and crashes do in between.
OneGoroutine == \A v, w \in Workers :
  work[v].pc # "idle" /\ work[v].job = work[w].job => v = w
MarksExact == running = {work[w].job : w \in {v \in Workers : work[v].pc # "idle"}}
SlotsKept == Cardinality(Holding) <= MaxConcurrent

OneExecution == TypeOK /\ OneGoroutine /\ MarksExact /\ SlotsKept

\* A job whose time has come is executed, whatever is stopped, restarted or
\* crashes on the way and however busy the slots are, unless an operator
\* changes it or it expires first.
Executing(j) == \E w \in Workers : work[w].job = j /\ work[w].pc = "exec"
DueRuns == \A j \in Jobs : Due(j) ~> (Executing(j) \/ ~Due(j))

\* Stop returns: the loop ends although ticks may still begin and find jobs
\* that are due, and so does every goroutine they start, those that wait for a
\* slot included.
StopReturns == (sched = "stopping") ~> (sched = "down")

\* The answer to a trigger: "will execute on next scheduler tick".
TriggerRuns == \A j \in Jobs : (j \in asked) ~> (j \notin asked)

=============================================================================

# thinkbot in TLA+

thinkbot is a self-hosted chat bot in Go: many channels, a pipeline per message,
tools, memory, and *workflows*, tasks that a language model splits into a graph of
nodes and that subagents then work on for minutes or hours. This directory models
the parts of it where the difficulty is concurrency, failure and time rather than
text: the workflow engine, where all of them meet; the scheduler of timed jobs; the event
bus and the web chat that runs over it; and the registry of questions put to users.

Contents: [system](#the-system) · [modules](#the-modules) · [runs](#the-runs) ·
[where code and documents differ](#where-the-code-and-its-documents-differ) ·
[proofs](#the-proofs) · [not modelled](#what-is-not-modelled) · [plan](#plan)

Running: `tlc -config sched_core.cfg MCWorkflowScheduler.tla`, `tlapm
WorkflowSchedulerProofs.tla`. Paths such as `scheduler.go:129` are below
`src/workflow/` where nothing else is said. `PROJECT.json` lists the runs, the source lines of each
definition, a mutant for each checked property, and the hazards of the code.

## The system

Inventory of the parts with logic of their own. *Hard* says what a test would hardly
reach; *correct* says which properties make the part correct.

| part | state | operations | interacts with |
|---|---|---|---|
| **workflow scheduler** (`scheduler.go`, `quota_break.go`, `dag.go`) | node statuses, goal round, quota breaks; `terminated`, breaker, retry queue, semaphore | `Run` (main loop), `runNode` and `reviewLoop` per node, `Terminate`, `SubmitRetry` | called by the manager; calls executor and reviewer; saves to the repository |
| **workflow manager** (`manager.go`) | `running` map, `consumed` and `needsContinuation` marks | `Submit`, `Control`, `Recover`, `SweepStale`, `ResumeQuotaInterrupted`, delivery | starts one goroutine per workflow; repository; the agent |
| repository (`repository.go`) | cache of snapshots, database | `Save`, `Get`, `FindNonTerminal` | everything above; several instances in one process |
| self-healing (`heal.go`, `dag.go:421`) | refinement counts | diagnose, refine, replace a node by a subgraph | changes the graph under a running scheduler |
| delivery (`status_wait.go`, `manager.go:290-360, 1066`) | `consumed`, `NeedsContinuation` | block until done, or wake the agent later, once | tools, chat |
| cron (`cron/`) | jobs with state, next run, failures; running set | tick, execute, pause, trigger, update, delete | heartbeat, dreaming and user jobs |
| event bus (`agent/outbound/eventbus.go`) | sequence, ring store, per-trace floors, subscriptions | publish, subscribe with replay, overflow, close | everything that emits events; the chat |
| web chat turn (`api/chat_stream.go`, `webchannel.go`, `handler_chat.go`, `chat_history_service.go`) | collector and its cursor, reply channel, the assistant's row, the browsers' requests | send, collect, snapshot, finish, resume | the pipeline of a message, the event bus, the database |
| interaction registry (`internal/interaction`) | questions, waiters, index per session | register, resolve, wait, cancel, interrupt, take a secret | tools that ask the user; channels, ingress |
| sessions, quotas (`agent/session`, `agent/pipeline`) | active sessions; cost counters per period | resolve, archive; check, record, restore | every message |
| loader, sandbox, subagents, notifications | processes, containers, children, rate limits | supervise, execute, spawn, send | the operating system, external services |

**Scheduler.** *Hard*: the main loop and one goroutine per node share the workflow
under one mutex that each takes and leaves many times; what is read before an unlock
is used after it; termination, cancellation, quota trips and manual retries arrive
in between; waits on semaphore, backoff and executor must all end. *Correct*: work on
completed dependencies only, no two goroutines on a node, nothing left in progress by
nobody, skips have a cause, completed stays completed, a stop is obeyed, a run returns.

**Manager.** *Hard*: check-then-act on the `running` map; every actor holds a copy of the
workflow of its own and saves all of it; a crash between any two steps. *Correct*: one
goroutine per workflow, the one control requests find; no workflow left behind; completed
nodes survive; what has ended stays as it ended.

**Delivery.** *Hard*: two paths for one result, deduplicated by a mark that is set after a poll.
*Correct*: each result reaches the agent once, through crashes.
**Cron.** *Hard*: read-modify-write of a job around an execution of minutes; a set of running jobs
kept by hand on every way out of a goroutine; a stop among queued goroutines. *Correct*: a job never
overlaps itself and is never left marked as running; a job that is due runs; `Stop` returns.
**Event bus.** *Hard*: replay against live events, a bounded store that forgets events and traces by
different rules. *Correct*: a subscriber sees each event once and in order, or is told that it may not have.
**Web chat turn.** *Hard*: the end of a turn is told on three channels, two of which may lose it; four
writers of one row; browsers that come, leave and come back. *Correct*: nobody skips an event between
snapshot and stream; the reply outlives whatever is lost around it; a turn ends for everyone.
**Interaction.** *Hard*: answer, timeout, cancel and interruption race, the latter outside the lock.
*Correct*: one outcome per question, and every waiter reports that one; one pending secret per session;
no entry is orphaned.

## The modules

| module | models |
|---|---|
| `WorkflowGraph` | `dag.go` and the graph part of `RequestRetry`: ready nodes, cascading skips, revival of skipped dependents, as operators on a status function |
| `WorkflowScheduler` | one `Scheduler` running one workflow |
| `MCWorkflowScheduler` | graphs and review settings for the configurations |
| `MCGraphWalks` | the code's graph walks as recursive operators, compared with the closures of `WorkflowGraph` on every acyclic graph of three nodes and all statuses (two `ASSUME`s, evaluated by `sched_retry`) |
| `DAGExecution` | abstract specification of a run, implemented by `WorkflowScheduler` |
| `WorkflowManager` | one workflow's life: goroutines, users, watchdogs, crashes |
| `SequenceFilter` | the loop that filters a list, as a recursive function |
| `…Proofs` | the theorems about the module they are named after; `WorkflowOutcomeProofs` is about the scheduler too, the refinement of `DAGExecution` included |
| `CronScheduler` | one `cron.Scheduler`, its store and file, and the managers that change jobs meanwhile |
| `EventStream` | abstract specification of what a subscriber of the bus is promised |
| `EventBus`, `MCEventBus` | one `MemoryEventBus`, which implements `EventStream` |
| `ChatStream` | one turn of a web chat: extends `EventBus` by the pipeline, the collector, the row of the history and the browsers |
| `InteractionRegistry`, `MCInteractionRegistry` | the registry, with the tool calls that wait, the forms and the messages that come in |

### WorkflowScheduler

A step is one critical section of `s.mu`, one channel operation or one answer of the
executor. `main` is where `Run` is in its loop (`terminated?`, `quota?`, `done?`, `drain`,
`ready`, `select`, `wait`); `pc[<<n, k>>]` is where goroutine *k* of node *n* is in
`runNode` (`acquire` … `cascade`, `complete`) or in `reviewLoop` (`review` … `goalReset`).
The two-step patterns of the code stay two steps: `CheckFinish` reads `terminated`,
`MarkCompleted` assigns later; `MarkFailed` and `Cascade`; `CheckGoal` and
`GoalFeedbackReset`. Retries of an execution (`util/retry`) and of a review are
`AttemptFailed`/`BackoffEnds`/`BackoffCancelled` and `ReviewWait…`.

Answers of executor and reviewer are nondeterministic: success, a transient or a fatal
error or an exhausted quota; a verdict with an outcome (`ok`, `degraded`, `blocked`, one
that is not recognised), an infrastructure error, another error. Texts, results, tokens
and timing are not modelled. `Init` lets earlier, interrupted runs have left quota breaks.

### WorkflowManager

`stored` is the workflow in the repository, `work[i]` the object of goroutine *i*,
`userCopy`, `sweepCopy`, `quotaCopy` and `recoverCopy` what the others have read. A step is one
critical section of `m.mu` or one call of the repository: `RestartChecks`, `RestartSaves`,
`RestartRegisters` are three steps because the code leaves the lock between them.
A run inside `Scheduler.Run` is reduced to: nodes complete one by one, it ends completed,
failed, terminated or parked; or, where a client's retry or a crash can have left a pending node below a
failed one (`resetForRetry`, `RequestRetry`; a crash between the saves at `scheduler.go:450` and `:462`), it polls for
ever (`RunStalls`). `Crash` keeps `stored` and nothing else; then `Recover`
runs before the watchdogs start, in the order of `api/module.go:205-220`.

Simplifications. A goroutine's panic handler has the effect of a failed analysis or run
and is not an action. One save stands for the progress saves of one analysis. A restart
that fails to compile is the refused one (`analysed` is false); a resumption or a recovery that
does is `QuotaGivesUp` or `RecoverGivesUp`. `Submit` saves and registers in one step (`manager.go:235`, `:252`): in between
nobody else knows the workflow, but for a `Recover` that is still running when the first request arrives, which would
start it a second time. Saves do not fail, so that the returns after a failed save (`:789`, `:966`) are left out.
That a parked workflow goes stale (`TimePasses`) takes the end of its window, which the model does not keep; it is
allowed at any time while something is registered. `Terminate` looks and acts in
one step: if the instance it looked at ends in between, its request is lost, which is the
same as none. The quota breaks are capped at one past their limit: past it they only count.
All requests for one workflow go to one `Manager`.

### DAGExecution

What a run promises, with three kinds of state per node besides skipped and failed: nodes
*start* when all dependencies are completed, *end* once, are *skipped* only below a failure or
after a stop. It admits one thing one might not expect: after a stop, a node that the
stop has skipped may still complete, fail or be queued again for a moment (`End`). The code does
so (`scheduler.go:520` checks, `:524` assigns), against the comments at 419 and 520.

### CronScheduler

A step is one call of the store (each takes its lock) or one of the scheduler's own critical
sections; nothing holds a lock from a `Get` to the `Save` that follows, so an operation of a manager is
`Read` and `Put`, an execution `Begin`, `Finish`, `Write`, `Release`, and the end of a late one-shot job
`TickLate` and `TickMark`. (A deletion reads nothing; its first step changes nothing.)
`OwnStore` says whose store the manager uses: the scheduler's (heartbeat, dreaming bundles) or one
opened on the file for each request (`api/botservice.go:4429`), which holds a copy of all jobs from its
read to its write; there a creation, which loads and saves at once, is a single step. A time is only what the scheduler tells apart: never, in the future, due, or past the
grace of a one-shot job; the clock (`BecomesDue`, `Expires`) moves all copies of a time together. `Init`
is a start over any file of the given jobs.

A tick may still begin after `Stop` has closed `stopCh`, as the `select` of the loop picks any case that is
ready (`cron/scheduler.go:274`); `LoopEnds` is the other case. An executor answers or panics (`Panic`), which the
goroutine survives with the job as it was.

Simplifications. Run counts saturate at the highest limit, failures at the breaker. A ticker that fires
with nothing due is no step. `Stop` does not wait for operations of a manager; `Start`, which opens a new store, assumes that
those on the old one are over (one that is not overwrites the new store's file, as in `found_cron_trigger`). `checkMissedRuns` only logs. Writes of the file do not fail. The
parser's "never again" for a cron expression is left out: it ends a job as a one-shot success does.

### EventStream, EventBus

Each method that holds the bus's lock is one action. The ring is kept as the number of events that it has
overwritten, over the history `log` of all events; everything the code keeps besides (`traceReplayState`,
the LRU list, pins, `unknownFloor`) is kept as it is. Time stamps follow the sequence, so that what
`StoreTTL` has expired is a prefix, `expired`. `message.received` is the first event of its trace when it
occurs, as the bot emits it before any other (`agent/bot/bot.go:805`), and messages have traces of their own;
so have the continuations of workflows (`api/botservice.go:1155-1169`; the comment at `api/webchannel.go:89-91` is older).
One path is left out: where a human approves a deferred tool call (an `ApprovalHandler`, which is not there by default), the
message is processed again (`api/botservice.go:3545-3551`), so that `message.received` comes a second time on a trace whose floor, if it was unknown, is
then set back to 0 (`eventbus.go:347`).
A subscription that is refused because of `MaxSubscriptions` or a closed bus is an ended stream.
The refinement mapping reads off, for each handle: whether its stream is open, the traces of its topic, the
floor it was told, the position of its reader and where the stream ended. `pos` and `end` are history.

Not in it: a bus without a store, and a replay to the subscriber of a bot, which no code asks for.

### ChatStream

Extends `EventBus` with `Chat`, the trace of the turn, and other traces that only fill the ring. The
collector (`chatTurn.run`) is one goroutine: each case of its `select` is an action, and so are the calls of
`finish`: the drained reply and the final row (`Finish`), the event that says so (`Announce`), the deferred
calls (`Leave`). A browser's request subscribes (`Resume`, `Follow`), reads the row (`Load`), decides
(`Start`) and loops (`Top`, `Watch`, `Beat`). The engine's worker publishes one terminal event on each way
out and then reports the message done (`agent/bot/bot.go:811-868`). `row` is the assistant's row: whether
it streams or is final, its cursor, and whether it holds the reply.

Simplifications. A snapshot's text, tool calls and parts are left out; whether an event is saved at once or
by the ticker is free, and a streaming save that fails is one that did not happen. A browser without a
snapshot begins at cursor 0, the most it may ask for. The heartbeat is a step only where the
head of the loop has something to do. Owed events are given room in the log (`Room`), so that a turn
is never stopped by the bound. The collector's own "superseded" events are like any delta. A message that only
begins when its turn has ended (the queue of a bot that was stopped) publishes its first event like any other:
the model does not let that event take back the floor of its trace, as `Touch` does for a new one. A message has one reply,
for which the channel has room, so that the refusal of a full one (`webchannel.go:182-187`) does not occur. `Prepare`
registers and subscribes in one step (`chat_stream.go:243-258`), and `Start` finalises an abandoned row and reads it again
(`handler_chat.go:394`, `:400`), without the error of the second read.

### InteractionRegistry

A step is one section under the registry's lock. `Interrupt` takes a session's list and leaves the lock;
`SweepFinalize` and `SweepCleanup` then go through it one question at a time, as the code does; `EndWait`
is the end of the context, with the second look that keeps an answer which came at the same moment. A
message first serves or cancels a secret, then interrupts, then is delivered (`Ingress.Receive`). The
session key of a secret is that of its conversation in the web console and of the chat elsewhere.

Simplifications. A message has a text (an empty one is not taken as a secret, `secret_intercept.go:56-58`) and passes
the interception once (web messages pass it twice, `:18-21`). `Resolve` is called for choices only: the registry does not look
at the kind (`interaction.go:581-605`), its callers compare the chat, which keeps secrets out. `AbortPending` cleans up in the
step that finalises (`:804-807`, once more in the deferred call). Tools do not panic.

## The runs

All workflow runs check deadlock; the others may stop (a file without jobs, a log that is full, every
question asked), and what must go on there is stated as liveness. "Mutant" in a module is a variant of the
definition below it, as a plausible bug would have it; each listed property fails under one of them.

| run | instance | shows |
|---|---|---|
| `sched_core` | join of 3 nodes, 2 parallel, the last one reviewed with every verdict, one retry with backoff, executions succeed, fail or exhaust the quota, terminate; fair | safety of a run; `ImplementsDAG` (refinement); no start after `Terminate`; `Run` returns |
| `sched_retry` | join of 3 nodes, one of them reviewed and reworked up to its limit (passed, blocked, refused, with an outcome that is not recognised), fatal failures, 2 goroutines per node, 2 manual retries, cancel; fair | a retry never doubles a worker, touches a completed node or runs ahead of its dependencies; what is classified as blocked is not completed; `Run` returns when cancelled, also from the polling that a retry may have caused; `ExecutionInv`, the inductive invariant of the proofs |
| `sched_goal` | join of 3 in goal mode wired as `wireGoalMode` does, so that two reviewers may decide on a round together, 1 round, 1 retry with backoff, reviews that fail, terminate and cancel; fair | rounds pass their limit by the race and no more; a round never lets a node start on work that is being redone; what lies below a failure is skipped; `Run` returns |
| `manager_watch` | 1 workflow of 3 nodes, terminate, quota windows up to the limit, 3 crashes; fair | one registered goroutine runs it; nobody leaves it behind; completed nodes survive; it ends and stays ended |
| `manager_all` | 1 node, quota watch, stuck-watchdog, a client's retry and a crash with its recovery at once, runs that get stuck; fair | no order of their steps leaves a workflow without an end |
| `cron_jobs` | 2 jobs (a one-shot job from the start, others created), 2 workers, 1 slot, executors that panic, 2 operations, stops or crashes; fair | a job never overlaps itself and is never left marked; a due job runs; `Stop` returns |
| `bus_replay` | 3 traces, one of another bot, 2 subscribers, ring and buffers of 1, 3 events, close | `EventBus` implements `EventStream`; pins, LRU and floors agree with what was overwritten |
| `chat_turn` | 4 events, ring and buffers of 1, the sender's browser leaving and coming back, failing writes, a stop | nothing is skipped; the reply is kept; a final row is not replaced |
| `chat_ends` | the same with the bus closing at any moment, without failing writes and stop; fair | the turn ends and lets its browsers go |
| `questions` | 2 questions, 2 secrets, an instant messenger and a web chat, 1 message | registry and index agree; nothing is settled twice; one secret per session; tools report what happened |
| `found_…` | the smallest instance that shows it | see below |

**Bounds.** Three nodes give the join: AND dependencies, more ready nodes than one, two reviewers at a time, and skips
below a failure; the chain, with its transitive skips, is that of `found_retry_hangs`. `MCGraphWalks` compares the graph
operators on every graph of three. Two places (`MaxParallel`) make nodes wait for the semaphore where three
want one. Two goroutines per node (`Slots`) are needed to see a second one at all; where retries are off
one suffices and a second could only be blocked. Retry counts, review rounds and breaks
are small because what matters is *before*, *at* and *past* the limit. `MaxSubmits`,
`MaxCrashes`, `MaxRestarts` bound what the environment does: two retries, so that one may
undo the other; three crashes, so that a recovery is hit by a crash itself and the next
again. In `manager_all` one crash and one retry meet in either order, with one node and one break; a second of any
of them is too many states. `Runners` has two names: where `OneRunner` holds no more are needed; in `manager_all` a
third start waits for one of them to end.
In `cron_jobs` two goroutines and one slot make one of them wait; `MaxEvents` bounds operations, stops and
crashes together, two so that one meets the other; the operations that change a schedule, a limit, a name
or the enabling of a job are in the module and were checked in instances with one job.
A ring and buffers of one make every second event an overflow, and three traces make the ring forget
one that is asked for again. `MaxSubscriptions` is the number of handles in `chat_*` (the collector and one
browser; the code's 1000 is not reached) and in `bus_replay` two, so that a refusal is due to
the bus being closed. The four events of a chat are: begin, one that overflows, the terminal one and the
final one. One message suffices in `questions` because a second one finds the session as the first
left it; instances with two messages and fewer questions were checked as well.

**Fairness.** `WF` for each goroutine (Go's scheduler runs what can run; the executor has
timeouts at every level, so it answers) and for `Run`. Nothing is assumed of users, crashes
or failures. In `WorkflowManager`, `SF` of `QuotaChecks` says that a quota window that is
looked at every 30 seconds is over one day (its length is capped, `quota_break.go`). That nothing is saved
for three hours is assumed of a stuck run only (`TimeRunsOut`), in which nothing moves: no other run relies on the
stuck-watchdog for its end, and in `manager_watch` none is stuck. `SF` of `SweepLists`: the heartbeat of the quota watch may
make such a workflow look alive, but only until its window is over. Retries
submitted by users are bounded, so that no liveness property assumes a user who stops.
In `CronScheduler`, `SF` of `LoopEnds` says that a `select` with two ready cases, which Go decides by lot, does not pick the
ticker for ever, and `SF` of `Begin` that goroutines blocked on a channel are served in turn, as Go's
runtime does; the ticker ticks; a bot that has stopped is started again (else nothing is due). In `ChatStream`
the worker ends every message (its calls have timeouts) and a `select`
that can take a case takes one. No fairness is assumed of the ticker that flushes, of deltas, of browsers
that resume or leave.

**The properties and where they are needed.** `sched_retry` has `StopReturns` for its liveness: with retries
`RunReturns` is false, see the next section. `RoundsWithin` is what the code keeps of the limit of goal rounds: the limit
itself is passed. `OneRunner`, `Reachable`, `WorkKept` and `EndStands` are
checked without manual restarts and without the stuck-watchdog, for the same reason;
`manager_all` checks what survives even those. `ReplyKept` and `FinalKept` speak of turns without a
stop of the channel; `Reported` leaves out an entry that an interruption removed before the tool looked it up.
All of these exceptions are described next.

## Where the code and its documents differ

Two runs end in a violation of a sentence of the code's comments or messages (quoted in `PROJECT.json`,
`findings`).

1. `found_retry_hangs`: retrying a skipped node whose upstream stays failed makes `Run` poll for
   ever, although it "blocks until all nodes are terminal" (`scheduler.go:129`).
2. `found_cron_trigger`: a job triggered over the HTTP API is never seen by the scheduler, whose store has read
   the file once, and is overwritten by its next save, although the answer says that it "will execute on
   next scheduler tick" (`api/handler_cron.go:273`) and the file is said to be the same store
   (`api/botservice.go:2981`).

The others were met with the same modules and are not kept as runs; each is the reason for a restriction
named above.

*Scheduler.* A run whose context is cancelled skips its nodes and is reported completed, although the
constant says "all nodes succeeded" (`types.go:39`). With two final reviewers over one node, a goal round
lets the other one start on a pending dependency (`scheduler.go:27`). Feedback of the final node that the language
model has named itself is kept (`analyzer.go:878`): where it leads further up than the dependencies (`c` to `a` in a chain
of `a`, `b`, `c`), `c` starts again with `a`, and its next round may return `a` to pending under the goroutine that works on it, so that two do.
And `GoalMaxIterations` (`types.go:180`) may be exceeded by up to `MaxParallel - 1`, as
reviewers that decide together all read the counter (`goalCanIterate`) before one of them counts.
A completed node may have the outcome `missing_tool` according to `types.go:105-107` and `366-369`; but
`scheduler.go:753` fails every node whose outcome is a blocked one, whatever the verdict, so that
none is ever completed (`BlockedNotCompleted`). A node that was found blocked and is retried keeps that outcome
(`scheduler.go:959-966` resets all but it): if its reviewer then names one that is not recognised, the log says
"treating as ok" (`:741`) and the node fails as blocked again. A run the user terminated is interrupted, and resumed later,
if a node in flight reports an exhausted quota (`scheduler.go:72`). A retry between `NodeFailed` and its cascade
lets the cascade skip the dependents of a node that runs again; a retry submitted as the loop leaves is
lost. A *soft* failure (outcome ok) still keeps the workflow from being completed; the result of the
last rework is never reviewed, although the comment at `scheduler.go:662` says so; a node that waited for a
place when the breaker tripped may still run and fail.

*Manager.* Two clicks on retry start two schedulers, which the check is there to prevent (`manager.go:1423`).
The stuck-watchdog's verdict is overwritten by the goroutine it cancelled (`manager.go:600, 831`).
A run that polls for ever (see `RunStalls`) does so until the stuck-watchdog fails it after three hours.

*Cron.* `executeJob` writes the state and the time it computed from a job read before the execution over
whatever was changed meanwhile, a trigger or a pause, although its comment says it avoids that
(`cron/scheduler.go:530`). A tick that listed a one-shot job while it was running, and reaches it
after it has ended, executes it again, as only `Enabled` is looked at; so does a job run that was paused
while it waited for a slot. `UpdateJob` with a new schedule revives a failed job without resetting its failures, so that
the breaker opens at the next one. A job that is deleted between another operation's read and its save
is back. A one-shot job resumed or re-enabled after it has ended stays active without a time and never runs.

*Web chat.* A collector whose new subscription is refused (`MaxSubscriptions`) ends the turn as "cancelled: event
bus closed", and the reply that comes afterwards carries no cursor and does not replace that row, although
the branch is there to keep "the canonical final answer" (`api/chat_stream.go:394`). The same happens
when the bus is really closed, which `chat_ends` contains and `chat_turn` leaves out. After
`WebChannel.Stop` a reply goes straight to the row, and the collector's "bot stopped" snapshot may replace it.

*Interaction.* A tool whose question was interrupted, or answered and then interrupted, before it began to
wait finds no entry and reports an error instead of asking the orchestration to halt
(`agent/inbound/ingress.go:185`: the old round "ends cleanly"); and an answered question that an interruption
has removed is reported as timed out if the context ends at that moment (`interaction.go:697` says an answer
must never be rewritten as a timeout). An answered question stays in the index of its session until the next message.

## The proofs

Proved for all values of the constants: every graph, every number of goroutines, jobs, traces, subscribers,
questions and messages, any capacity.

| module | theorem | says |
|---|---|---|
| `WorkflowSchedulerProofs` | `TypeCorrect` | types, in every mode |
| | `ExecutionHolds` | ⁶ `ExecutionInv`, the inductive invariant below |
| | `WorksOnCompleted` | ¹ nodes in progress or completed have completed dependencies |
| | `EveryStartIsOnDone` | ⁶ `StartsOnCompleted`: no round, retry, failure or stop lets a node start on unfinished work |
| | `WorkersFit`, `NothingOrphaned` | ⁶ no two goroutines work on one node; while the loop polls, no node is in progress by nobody |
| | `CompletedIsKept` | ¹ no step takes a node out of completed |
| | `NoneStartAfterTerminate` | in every mode: no node enters running or reviewing once terminated |
| `WorkflowOutcomeProofs` | `NoneLeftDoomed` | ² ⁶ `NotDoomed`: nothing is left pending that can never be ready |
| | `SkipsAreExact` | ¹ ² what is skipped has a cause |
| | `InterruptedIsAtRest` | ³ ⁶ a workflow that the quota breaker interrupts has nothing in progress |
| | `CompletedIsComplete` | ² ³ ⁶ a workflow reported completed has completed every node |
| | `BlockedNeverCompleted` | ⁶ a node found blocked is not completed |
| | `RoundsOvershoot` | `RoundsWithin`, in every mode: `goalIteration <= GoalMax + MaxParallel - 1` |
| | `RunImplementsDAG` | ¹ ² `Spec => DAG!DAGSpec` |
| `WorkflowManagerProofs` | `ManagerTypes` | types, whatever clients, watchdogs and crashes do |
| | `OneGoroutine`, `ControlReaches` | ⁴ one goroutine, and control requests find it |
| | `NobodyLeavesIt`, `EveryParkHasTime` | ⁴ `Owned`, `ParkedHasTime` |
| | `NothingUndone`, `EndsAreFinal` | ⁴ `WorkKept`, `EndStands`: no save of an older copy undoes anything |
| `CronSchedulerProofs` | `NoJobOverlaps` | `OneExecution`, with every operation, both stores, stops and crashes |
| `EventBusProofs` | `FloorsNeverPromise` | `StoreInv`: types, pins against subscriptions, floors against what was overwritten |
| | `BusImplementsStream` | the bus implements `EventStream` |
| `ChatStreamProofs` | `FollowersMissNothing` | `NothingSkipped`, whatever is lost, refused, closed, stopped or not written |
| | `ReplyIsKept` | ⁵ `ReplyKept`: a finished turn has its reply in the row, and no browser is told of an end without it |
| | `FinalRowStays` | ⁵ `FinalKept`: no step replaces a final row that has the reply |
| `InteractionRegistryProofs` | `EntriesAndIndexAgree`, `SettledOnce`, `OneSecretAtATime`, `ReportsAreTrue` | `RegistryInv`, `ClosedOnce`, `OneSecret`, `Reported` |

¹ without goal mode. ² without manual retries. ³ without cancellation. ⁴ without retries of clients and the
stuck-watchdog. ⁵ with room for every handle on a bus that is not closed under the turn (`Roomy`).
⁶ in goal mode, of a workflow with one final node whose feedback is wired as `wireGoalMode` does when the
language model names none (`Wired`); without goal mode, of every workflow. These are the restrictions of the runs that check the same properties, and for each
of them the [section above](#where-the-code-and-its-documents-differ) says what happens without it.

*Assumptions.* The named assumptions of the modules, evaluated by TLC on every run: the types of the
constants, a finite acyclic graph (`WorkflowGraph`), a greatest limit of runs among those that occur
(`CronAssumption`; the model counts no further), topics that are no traces (`BusAssumption`), finite sets of
questions that do not share identifiers (`InteractionAssumption`).

### The scheduler

That a node is worked on once says nothing until one knows what the goroutines rely on between their
critical sections. `ExecutionInv` says it: a goroutine that is `Busy` (spawned, and not yet done
with its node) stands on completed dependencies (`BusyOnCompleted`), has its node in progress or skipped by
a stop (`BusyInProgress`), and is the only one of its node (`OneBusy`); nothing is in progress without
one while the loop polls (`ActiveIsBusy`), and none is left at the ends (`IdleAtEnds`). A retry is
harmless because it only takes failed and skipped nodes, which by `BusyInProgress` have no busy goroutine,
and only the loop can make it. One lemma covers all steps of a goroutine (`RunStepExecution`),
reached by sorting its thirty actions into five kinds (`RunNodeStep`, `ReviewLoopStep`).

In goal mode completed nodes do go back to work, and `WorkOnCompleted` fails. What remains is `WorkOnKept`:
a node in progress or completed stands on completed dependencies, but for those of the final node, which its round
may be doing over (`Redone`, empty without goal mode). That is enough, because of one fact about the graph: **while somebody is
busy with the final node, every other node is completed** (`FinalIsLast`). If not, some node that is not
completed has no such dependent (`GraphGroundedAbove`, from the well-foundedness of what is downstream); a dependent of it
is the final node, or completed, and either has it completed or among the dependencies of the final node, which are. So a
round of the final node finds nobody else busy, and its reset is safe (`LastRound`); a round of any other node sends back that node alone, and is one
more way to end its work. `GoroutineStep` sorts every step into these kinds. Without `Wired`
it is false: with two final nodes `StartsOnCompleted` fails, with feedback named further up `OneWorker` does
(see [above](#where-the-code-and-its-documents-differ)).

The outcomes need more. *Skips*: a cascade reaches every pending node below a failure because it is a closure;
a goroutine on its way to a cascade has failed its node, and neither a retry nor a round can change that meanwhile
(`FailureInv`: a round of the final node finds nothing failed). That a skipped node has a failed or skipped *direct*
dependency needs `WorkOnCompleted` besides, and holds without goal mode only. *Completed*: the code's
test lets skipped nodes pass; but a skipped node lies below a failed one, which stays failed and does not pass (`SkippedBelowFailed`). *Blocked*: the outcome is stored
together with the verdict, nobody else reviews the node, and a goroutine about to complete it was not
told that it is blocked (`BlockedInv`). *Rounds*:
a goroutine decides on a round under the lock and counts it later, so that the counter may pass the limit by those
between the two; they hold a place of the semaphore each (`RoundsInv` bounds `goalIteration` together with their number).

`RunImplementsDAG` maps each kind of step to a step of `DAGExecution` or a stutter, with `ExecutionInv`
as what makes `Startable` true where a node starts or ends.

### The manager

Four actors read a copy of the workflow, leave the lock and save the copy whole. `ManagerInv` says why
nothing is lost: **whoever may still save has the stored one in hand**. A goroutine is the registered one and
its object equals `stored` (`GoroutineInv`); a quota watchdog that is past its checks, and a recovery, hold
`stored` itself and no goroutine exists (`QuotaInv`, `RecoverInv`). `WorkKept` and `EndStands` then follow step by
step. A client's retry and the stuck-watchdog break exactly this.

### Cron

`CronInv` adds to `OneExecution` what the steps in flight rely on: a goroutine past its start has
its job marked (`WorkKnown`), an operation between read and save holds a job of the right type (`CallKnown`), and
a scheduler that is down has nobody left (`DownAtRest`). The slots are counted with finite sets.

### Event bus

`BusInv` has three layers. *The store*: each of its operations (`Track`, `Trim`, `Pin`, `Unpin`, `Touch`, `Evict`)
keeps `Sane`, which is types, `PinsFit` (a pinned trace has a record) and `Floors` (every overwritten
event is at or below the floor of its trace, or below `unknownFloor` if its record is gone).
*The subscriptions*: the pins of a trace count the open subscriptions to it (`Counted`); a trace goes only when
its count is zero. *The channels*, for the refinement only (`Streams`): what is in a channel is exactly
what its reader is still due, the events of the topic between its position and its end, in order.
With them `Publish` is a step of the abstract `Publish` whether or not it overflows a buffer, subscribing is `Listen` or
`Resume`, reading takes the next event due, and leaving, closing and expiry map to `Leave`, `Shut` and a stutter.

The code's filter loops are `Keep` of `SequenceFilter`, a recursive function; `SequenceFilterProofs` proves
what it keeps: the wanted elements, in order, none twice. Induction over a list is replaced by the least
counterexample among the numbers, as the library's induction theorems cannot be used here.

### The web chat

`ChatInv` adds to the invariants of the bus who holds which subscription and how far its reader is. A request
that has not yet looked at its snapshot (`Waiting`) has read nothing past the floor it was told; one that
follows (`Watching`) has read nothing past its cursor (`BrowserOk`). Between the two stands the comparison of
the floor with the snapshot's cursor in `Show`. The collector may have lost events, but then `incomplete` says
so (`CollectorOk`): what it can have missed lies below the floor of the subscription it renewed. A handle that was refused is left out, as its channel is
closed and it follows nothing. The operations of the bus are used through lemmas on what they leave to other
readers (`Same`).

`ReplyInv` follows the reply. `Heralds`: a terminal event, a notification or a refused message means that the
pipeline is done with the message (`PipeDone`), so that no reply can come later. `TurnOk`: while the turn runs, a reply sent is in
the channel or in the collector's hands, and the row is still a draft no newer than its cursor, so that the
write that ends the turn is accepted; afterwards the row has the reply or that write failed. `ViewOk`: a row read too early
is harmless, because a browser that read a draft and finds the turn over has the final event still in its
channel, and does not take the turn for abandoned; it is told of an end only when there is no reply to
come, or none that was saved. What keeps the collector in place until the pipeline is done is `AllServed`: its subscription is never refused
or closed. That is the use of `Roomy`, and the [section above](#where-the-code-and-its-documents-differ) says
what becomes of the reply without it. After a stop nothing of `ReplyInv` is claimed but `AllServed`.

### Interaction registry

`RegInv` has two halves. `CoreInv` is the registry's: the index lists pending and answered questions, each
once and under its own session (`ListsOk`); a pending question has its entry, and a secret has one exactly
while it is pending, and is listed then (`Held`, `SecretsListed`). `PeopleInv` is about those who call: what a tool
knows of its question wherever it is in its wait (`ToolKnown`), and what a message holds between taking a list
and cleaning it up (`MessageKnown`). Nothing is settled twice because every way to settle a question ends in
`Finalize`, which looks at its status under the lock; but that each can still be found (`Found`) takes both halves: what an
interruption has taken out of the index is in the hands of exactly that one. A tool may report what it was told
because only it removes its entry, except for an interruption, whose traces `swept` keeps (`Told`).

### Only model-checked

All liveness (`RunReturns`, `StopReturns`, `Ends`, `DueRuns`, `Settles`, and the finding `TriggerRuns`), which needs
fairness and `ENABLED` and is out of the prover's reach. What the graph walks of the code compute (`MCGraphWalks`) is
recursion over data and stays with TLC.

## What is not modelled

Of the workflow engine: self-healing (the scheduler here has no analyzer; with one, a node killed at
its hard limit may be replaced by a subgraph), the order of concurrent `persist()` calls,
delivery and continuations, the repository's cache against its database and saves that fail,
write-conflict detection, prompts and the parsing of answers. Of cron: the parsing of schedules, and
writes of the file that fail. Of the bus and the chat: a restart of
the process, after which sequence numbers begin again while rows keep theirs. Of the registry: a restart,
after which no question is known, and the contents of answers. Everything else of the system (channels, storage,
memory, language models, the web interface, configuration: by far most of its lines) is I/O, text
processing or sequential code, and listed in `PROJECT.json` with the reason.

## Plan

1. Proofs: for the manager, what survives a client's retry (`manager_all`).
2. Modules: `WorkflowDelivery` (two delivery paths, marks, continuations and crashes), `SelfHealing`
   (`ReplaceNodeWithSubgraph` against a reference definition), `WorkflowPersistence` (snapshots in flight, failing
   saves, what `Recover` finds), sessions and quotas.

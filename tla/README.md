# A verification project for jclaw

jclaw is a terminal workshop for writing character cards and lorebooks.  A
Rust command line (`src/rust/crates`) launches an agent system written in
TypeScript (`src/tui/packages`): a session engine that runs a model in a loop
over tools, a server around it, workspaces that host sessions on other
machines, and a terminal interface.

What can go wrong in this program without a test noticing is in the session
machinery: prompts, wakes, interrupts, crashes and provider turns meet in one
session; the tools of a turn wait for the user while the turn is stopped; the
log of a session is copied between processes while it moves and while clients
read it; subagents end, are extended, promoted and aborted at once; a model is
told its context anew while its history is compacted and reverted; and requests
to the older engine start, queue and abort work on shared runners.  This
directory models those parts in TLA+, checks them with TLC on small instances,
and proves with TLAPS, for all instances, the safety properties of the session
engine, of its history, of its turns and their tools, of the background jobs, of
the runners and of the replication.

Paths below are relative to `src/tui/packages`.

## Contents

| File | What it is |
|---|---|
| `KeyedWorker.tla` | abstract specification: one coalescing worker per key |
| `RunCoordinator.tla` | `core/src/session/run-coordinator.ts` |
| `SessionInbox.tla` | the durable inbox, `core/src/session/input.ts` |
| `SessionEngine.tla` | one session: `session.ts`, the inbox, the coordinator and the drain loop of `runner/llm.ts` |
| `SessionHistory.tla` | rows, context epoch, compaction and revert of a session, `core/src/session/context-epoch.ts`, `history.ts`, `projector.ts`, `revert.ts` |
| `PermissionDesk.tla` | requests to the user, `core/src/permission.ts` and `question.ts` |
| `ToolTurn.tla` | the tool calls of one provider turn, `runner/llm.ts` and `publish-llm-event.ts`, on top of the desk |
| `EventLog.tla` | publish, replay and claim on one durable log, `core/src/event.ts` |
| `EventStream.tla` | durable streams on one log, `core/src/event.ts` |
| `WorkspaceSync.tla` | replication and moves of a session, `opencode/src/control-plane/workspace.ts` |
| `FollowedSync.tla` | replication with clients that follow the control plane's copy |
| `BackgroundJob.tla` | the registry of jobs, `core/src/background-job.ts`; the abstract specification of the next |
| `SubagentTask.tla` | the task tool, `opencode/src/tool/task.ts`, and the abort of its session |
| `SessionRunState.tla` | runners and requests of a session, `opencode/src/effect/runner.ts`, `session/run-state.ts` |
| `*_proofs.tla` | the theorems about the module of that name; `SubagentTask_proofs` holds those of `BackgroundJob` too, `FollowedSync_proofs` those of `WorkspaceSync`, `ToolTurn_proofs` those of `PermissionDesk` |
| `MC_*.tla`, `*.cfg` | instances for TLC |
| `PROJECT.json` | components, runs, mutants, source map, findings, hazards, theorems |

How they are composed:

* `SessionEngine` instantiates `SessionInbox` and `RunCoordinator` and shares
  their variables: an action of the session that reaches the coordinator *is*
  the coordinator's action conjoined with what happens to the drain.
* `RunCoordinator` instantiates `KeyedWorker` with a refinement mapping.
* `WorkspaceSync` instantiates `EventLog`, whose operators give the outcome of
  one transaction on a store.
* `FollowedSync` extends `WorkspaceSync` and instantiates `EventStream` on the
  log of the control plane.
* `SubagentTask` extends `BackgroundJob`: its steps are steps of the registry
  conjoined with what the callers do, and so it implements `Registry`.
* `ToolTurn` extends `PermissionDesk`: the fibers of its local calls are the
  desk's askers.
* A turn of `ToolTurn` is a run of steps of `SessionEngine`; the mapping and its
  proof are in `ToolTurn_proofs`.
* `SessionHistory` stands beside `SessionEngine`: both model `runTurnAttempt`, one
  by what it takes from the inbox, the other by what it reads of the history.
  Their product is beyond TLC; what they share, the rows of the inbox, is projected
  by the same code (`input.ts`).

## Inventory

### Session run coordinator (`core/src/session/run-coordinator.ts`) - modelled

*State.*  A map `active` from session to Entry; an Entry has a done deferred, an
owner fiber, and the flags `pendingWake`, `stopping` and `force`.
*Operations.*  `run` joins, waits for a stopping entry, or starts a forced drain;
`wake` leaves one coalesced flag or starts an unforced drain; `interrupt` marks
the entry, withdraws the flag and awaits the owner; `settle` (the fiber's
onExit) drains again, hands the key to a successor, or retires the entry.
*Interaction.*  Called by `session.ts` and `execution/local.ts`; calls the drain.
*Hard.*  Everything may arrive while an old owner still unwinds; a wake between
the drain's last look and `settle` exists only as a flag; suspended callers
depend on one deferred.
*Correct when.*  One owner per key, the map agrees with the fibers, no wake is
lost, no caller waits for nobody, a stopped entry never drains again.

### Session inbox (`core/src/session/input.ts`) - modelled

*State.*  Rows (message ID, delivery `steer` or `queue`, admitted and promoted
sequence numbers).  *Operations.*  admit, project an admission, project a
promotion, promote all steers up to a cutoff, promote the next queued row, ask
for pending rows.  *Hard.*  Retries and concurrent submissions of one ID;
promotion publishes one row at a time and can be cut short after any of them.
*Correct when.*  Admission is final, promotion happens once and in order.

### Session engine (`core/src/session.ts`, `session/execution/local.ts`, `session/runner/llm.ts`) - partly

*State.*  The drain: its place in the loop, step count, promotion mode, cutoff;
the tool calls of the history; calls of `prompt()`.
*Operations.*  prompt, resume, interrupt; the loop of `run()` with its two looks
at the inbox before and after a turn; `runTurnAttempt` with promotion, request,
compaction, overflow recovery, tools, failure, dismissal and interruption.
*Hard.*  Each read of the database is a step of its own, so prompts and wakes
fall between any two; crashes leave tool calls open; compaction rebuilds a turn.
*Correct when.*  An idle session has served every woken prompt; order; no
request lacks a steer it should carry or carries a call without a result;
queued prompts enter only at turn boundaries; the step allowance holds.

### History, context epochs, compaction and revert (`core/src/session/projector.ts`, `message-updater.ts`, `context-epoch.ts`, `history.ts`, `compaction.ts`, `revert.ts`) - partly

*State.*  The message rows; the row of the context epoch (baseline, snapshot,
number); the boundary of a staged revert; what a turn has read of them.
*Operations.*  Initialize, reconcile, advance and replace an epoch; load the rows
of a request; compact; stage, clear and commit a revert; move the session.
*Hard.*  A turn reads epoch, compaction and rows one by one, and a revert does not
ask whether a turn is running; a request is put together from a baseline and from
updates that may lie before the compaction.  *Correct when.*  Baseline and updates
add up to what the epoch takes the model to know; inbox and history agree; a
summary stands for all it hides; steps that were cut off are superseded.

### Permissions and questions of the V2 engine (`core/src/permission.ts`, `permission/saved.ts`, `question.ts`) - partly, modelled

*State.*  Two maps of pending requests, each with a deferred its tool waits for;
the saved rules; replies in progress.  *Operations.*  assert and ask, reply
(once, always, reject) with its cascade over the other requests, question and
answer, withdrawal by interruption, the finalizer of a location.  *Hard.*  A
reply publishes before it resolves and removes; the cascades walk over the live
map with suspensions in between, while requests come and go.
*Correct when.*  What is listed is awaited and the other way round; a rejection
leaves nothing of its session.

### Tool settlement inside a provider turn (`core/src/session/runner/llm.ts`, `publish-llm-event.ts`, `tool/registry.ts`, `tool/question.ts`) - partly

*State.*  What the publisher knows of each call; the settlements in the log; a
set of fibers; how the stream ended; the interruption of the turn.
*Operations.*  Events of the stream, results of tools, three ways to fail what
is unsettled, the joining of the fibers, interruption, recovery from overflow,
the repair by the next run.  *Hard.*  Fibers publish while the stream fails or
the turn is interrupted; an interruption may strike while the turn waits for
tools that wait for the user.  *Correct when.*  Every call is settled once, a
result that exists is kept, an interrupted turn returns.

### Durable event log (`core/src/event.ts`) - partly

*State.*  Per aggregate: numbered events, an owner.  *Operations.*  publish,
replay (strict or not), replayAll, claim; also remove, which is not modelled.
*Hard.*  Duplicates, gaps, divergence, ownership.
*Correct when.*  A number belongs to one event for good.

### Durable and live event streams (`core/src/event.ts`, `core/src/session.ts`, `server/src/handlers/session.ts`) - partly

*State.*  Per stream a cursor and a subscription to wakes that holds one.
*Operations.*  subscribe, read, hand out, wait, release; writers wake after
their commit.  *Hard.*  Commits fall between a read and the wait, during the
hand-out, and before the first read.  *Correct when.*  A client is given the log
from where it asked, each event once and in order, and nothing is forgotten.
The live feeds (`subscribe`, `streamAll`, `listen`) promise nothing about the
log and are left out, as is `remove`.

### Workspace replication and session warp (`opencode/src/control-plane/workspace.ts`, `opencode/src/server/.../handlers/sync.ts`, `opencode/src/event-v2-bridge.ts`) - partly

*State.*  A store per process; a sync loop and a stream per remote workspace;
the call of `sessionWarp` in progress.  *Operations.*  connect, fetch history,
replay, follow the stream; warp: catch up, claim, copy changes, send the log,
steal, record.  *Hard.*  Lost connections and requests, old events in flight
during a move, failure after the claim, return to a former workspace.
*Correct when.*  An event has one number everywhere; claims fence; a stolen log
is complete; without moves the mirror is a prefix and catches up.

### Background jobs and the task tool (`core/src/background-job.ts`, `opencode/src/tool/task.ts`, `opencode/src/session/run-state.ts`) - partly

*State.*  A map from id to job; a job's token, status, pending count, output,
scope and two deferreds; the calls of the task tool, their notifications, the
abort of the parent session.  *Operations.*  start, extend, settle, wait,
promote, waitForPromotion, cancel; call, inject, notify; abort.  *Hard.*  An id
is used again while the fibers of the previous job unwind; runs of one job
settle in any order; promotion races the end; an abort reads the list of jobs
once.  *Correct when.*  An ended job never changes, a running one has a live
run, the last output counts, each result arrives once, an abort leaves nothing
in the foreground, every call returns.

### Run state of a session in `packages/opencode` (`effect/runner.ts`, `session/run-state.ts`, `session/status.ts`) - partly

*State.*  A map from session to Runner; a Runner's state (Idle, Running, Shell,
ShellThenRun) behind a permit; handles with a `done` deferred and a fiber; the
published status.  *Operations.*  ensureRunning, startShell, cancel, the
finalizers, assertNotBusy.  *Hard.*  cancel sets Idle before the fiber has
unwound; onIdle deletes the map entry by session; published statuses suspend; a
fiber may be interrupted before its first step.
*Correct when.*  State and fibers agree, nobody waits in vain, aborts return,
the final status is idle - but for a shell whose request goes away before the
shell has begun.

### Components that are not modelled

`PROJECT.json` lists each with its reason.  The instance store of
`packages/opencode`, the worker boot of the Rust runtime and the predecessors of
the permission and question services are candidates.  The rest is input
and output (files, processes, git, servers, MCP and language servers, the
terminal interface), data conversion (the LLM protocols, schemas, SDK),
registries of configuration, and the Rust crates, whose registries do single
steps behind a mutex.  Most of the repository's lines are of that kind: the
generated SDK, the interface and the provider adapters alone are larger than
everything that keeps state between concurrent actors.

## The models and the code

### RunCoordinator

One action is one synchronous stretch of JavaScript: `Run`, `Wake`, `Interrupt`
are whole calls up to their suspension; `BeginDrain` and `SkipDrain` are the
forked fiber at its gate; `EndDrain` the end of the callback, `Settle` the onExit
handler with its three outcomes (`Restart`, `Succeed`, `Retire`).  `Resolve` is
the completion of the done deferred, seen by everybody suspended on it; a caller
that waited to run again does so in an action of its own (`Rerun`), because its
fiber is resumed later.  The drain is the environment: it may succeed, fail or
interrupt itself, and once stopped may still end in any way.  Entries are
garbage-collected objects; the model takes identities from a pool and uses one
again when nothing refers to it, so the number of entries ever created has no
bound.  `owed` is a history variable: a wake was asked for and no drain began.

### SessionInbox and SessionEngine

A row has sequence numbers from one counter that counts inbox events; other
durable events of a session lie between them and change no comparison.  The
text of a prompt belongs to its message ID, so `equivalent()` compares the
delivery.

Each call of `prompt()` goes find - admit - check - wake, the order of
`session.ts:360-386`.  The drain is a program counter over the loop of
`llm.ts:378-401` and `runTurnAttempt` (147-340): `HasSteer`, `HasQueue`,
`FailInterruptedTools`, `StartTurn` (reads the cutoff), `SelectQueued` /
`SelectSteers` (the SELECT), `PublishNext` (one iteration and transaction of
`publish()`), `Published` (the step count is renewed if anything was promoted),
`Request` / `Compact` / `RecoverOverflow`, tools, `FinishTurn`, `CheckSteer`,
`CheckQueue`, `Return`.  A stop is noticed between any two steps.  `Crash` loses
coordinator, drain and calls, and keeps rows and tool calls.

Tool calls of the history are one flag: at least one is unsettled.  A turn may
make any number of calls; a local one obliges it to go on (`continue`), a hosted
one is executed by the provider and does not, and in the last allowed step a local
call fails at once.  A failure settles what was called, but for a defect of the
stream, which leaves hosted calls open for the next drain.  What several calls do
to each other is `ToolTurn`.
History variables: `woken`, the prompts whose wake came through and is not
served, withdrawn by interrupts, by a drain that fails with no wake pending and
by crashes; `boundary`, whether the model owes no continuation.

### SessionHistory

A row has the number of its event, which serves as its ID unless it is a prompt.
Only the events whose numbers are compared are counted.  The system context is
one source with one value, which may be another at every observation; an update
row says from which value to which it leads, and a compaction row which rows went
into its summary, directly or by the summary before (`covers`).

The drain follows `runTurnAttempt` (168-283): `Begin` asks whether there is an
epoch; `Observe`, `Number` and `Insert` make one; `Select` and `Promote` promote;
`FindEpoch` and `FindCompaction` are the two concurrent reads of `prepareOnce`,
after which `FoundNone`, `KeepBaseline`, `Rebuild` and `Reconcile` are its
branches, up to `Advance` and `Replace`; `LatestCompaction` and `LoadRows` are the
two reads of `entriesForRunner`; `Summarize`, `StartStep` and `EndStep` use what
was loaded.  Which prompts are selected is `SessionEngine`'s matter and a choice
here.  `Abandon` is a failure, an interruption or a crash at any place: what the
drain holds is lost, the rows stay.

`BeginStage` is the lookup of a boundary and `Stage` the event, with the
restoring of files in between.  `Commit` deletes rows and inputs behind the
boundary and the epoch in one transaction, whatever the drain is doing, and dies
if the boundary is gone.  A clear or commit that acts on an older reading of the
session does what one of these actions, or a stage and a commit, do.
`disturbed` is a history variable: a revert was committed during this turn.

### PermissionDesk

An asker is the fiber of a tool that asks for a permission and then perhaps puts
a question; its name is the id of its requests.  `Judge` reads the rules and
`Create` lists the request: rules may be saved in between.  A reply is a program
counter per client: it is told (`telling`, a publication during which others go
on), resolves and removes (`Settle`), and walks on.  `Walk` goes over the live
map: what was added since is visited too.  `Covers` says which requests the rule
an asker offers would allow; whether the rules in force allow or deny a request
is a choice.  `Die` is a publication that dies, `Finalize` the closing of the
location.

### ToolTurn

The turn is a program counter through `runTurnAttempt` (272-343): it streams,
may recover from an overflow, clears, joins, dismisses, halts and closes.  The
operations of the publisher hold a permit and mark in memory what they publish,
so each is one step and `log` counts the settlements.  A fiber is at the desk,
has a result to publish, or has ended; publication is not interruptible.  What
the provider sends is chosen freely, including a second result of a hosted call,
events after an error, and a call of a tool that was not offered.  `Crash` and
`FailInterruptedTools` are the end of the process and the next run.

### EventLog and WorkspaceSync

A sequence number is a position in the log.  `Dies` and `Replay` follow the
branches of `commitDurableEvent` in their order: the strict check first, then the
comparison under an old number, then the fence, then gaps and reused IDs.  A sync
loop is connect - history - replay - live; a defect on the history path ends the
loop for good, one on the stream path is logged.  `sessionWarp` is a program
counter with one row per transaction at the target.  Any request may be lost with
or without effect, the stream may end at any point, the control plane may
restart.  A process that has once run the session may still publish (`Ran`):
nothing stops a run on the control plane when its session moves away.

### EventStream and FollowedSync

A stream is closed, reading, handing out or waiting.  `Commit` and `Wake` are two
steps: they are one uninterruptible stretch of the writer (`event.ts:237-361`)
but not one transaction, so reads fall between them; `waking` counts the writers
in between.  `Open` takes the subscription before the first read (586), a wake
that arrives while one is held is the same wake (`PubSub.sliding(1)`), and `Read`
takes what the log has behind the cursor.  The code moves its cursor with the
read and the model when the rows are handed out; nobody reads it in between.

`FollowedSync` puts such streams on the log of the control plane.  Its log grows
where the control plane publishes, where a sync loop replays and where a move
catches up; `Replicate` derives the commit from what a step of `WorkspaceSync`
does to that log, so no path can be missed.  A client asks once the session is
known (`session.ts:349`).

### BackgroundJob and SubagentTask

A token stands for all that one call of `start()` makes.  Every operation is one
modification of the SynchronizedRef.  A run goes queued - running - exited -
over; closing the scope makes a running one unwind and the settlement of an
exited one late.  `Ended` is `done`, `background` is `promoted`.  In
`SubagentTask` a call that starts a job has the job's token; one that extends a
job leaves nothing behind but the run.  An interrupted call and an interrupted
first run cancel the child session and so whatever job is in the map by then.
The abort lists the running jobs once (`run-state.ts:115`), cancels them side by
side and only then interrupts the runner.

### SessionRunState

Fibers are cooperative; an action is what one does between two suspensions.  The
permit of the SynchronizedRef is a queue of waiters (`line`): `startShell` keeps
it while it publishes the busy status.  A fiber's life is its `phase`.  Neither
`forkIn` (`runner.ts:88`) nor `forkChild` (151) starts the fiber at once, so it is
"forked" until the scheduler takes its first step (`Begin`).  One that is
interrupted before is "lost": it has entered neither the `ensuring` of its
finalizer nor `shellImpl`, which opens the latch (`prompt.ts:520`).  For a run that
does no harm, because only an abort interrupts runs and the abort settles what it
took.  A lost shell stays with its runner for ever: `Leave` is the only action that
can lose one (`OnlyLeaversLoseShells`, proved), and the properties except what hangs
on lost shells (`Lost`, `Abandoned`) and nothing else.  Handles and runners come
from pools and are made anew when nothing refers to them; a lost shell is never
made anew.  Publication and update of a status are one step.  An abort runs to its
end; its background jobs are a suspension only.

## The runs

| Run | Instance | Distinct states | Shows |
|---|---|---|---|
| `coordinator` | 1 key, 3 callers, 3 entries, fair | 9,335 | no wake is lost, `KeyedWorker` is implemented, wakes are answered, callers return |
| `session` | 2 prompts, 2 clients, 1 caller, 2 entries, 2 steps | 2,119,499 | nothing is left when idle, order, steers join the request, no open tool, step bound, queue at the boundary, admission is final under retries and concurrent submissions |
| `session_live` | 2 prompts, 1 client, fair | 107,745 | woken prompts are promoted unless a failure, an interrupt or a crash intervenes |
| `history` | 1 prompt, 2 values of the context, 1 staging client, 4 events | 3,271,022 | baseline and updates add up, requests tell the context, nothing is forgotten, inbox and history agree, only the newest step is incomplete |
| `turn` | 2 local calls, 1 hosted, 1 replying client, fair | 480,502 | each call is settled once, results that exist are kept, interrupted turns return |
| `desk` | 3 askers of 2 sessions, 2 replying clients | 686,984 | what is listed is awaited, a rejection sweeps its session |
| `sync` | 2 remotes, 1 local, 4 events, 2 moves | 1,712,628 | one number per event, claims fence, stolen logs are complete |
| `sync_live` | 1 remote, 1 stream, 4 events, no move, fair | 12,827 | the mirror is a prefix, streams follow it, every event arrives at the mirror and at every follower |
| `jobs` | 1 child session, 2 jobs of 2 runs, fair | 477,648 | running jobs are worked on, the last output counts, results arrive once, ended jobs stay ended, an abort leaves no foreground job, calls return |
| `runstate` | 2 callers, 1 abort, 2 runners, 2 runs, 1 shell, fair | 216,176 | runners know their work, nobody is left behind, quiet means idle, withdrawn runs never start, aborts return, lost shells excepted |
| `sync_copy`, `runstate_busy` | see the configurations | - | one violation each, below |

**Bounds.**  *Coordinator*: keys do not share entries or callers, so one key
shows their interplay.  Three entries are an active
one, a stopped one still awaited, and a successor; three callers are one joined,
one waiting to rerun and one interrupting.  *Session*: two prompts are enough for
an order and for a steer beside a queued one; two clients submit one message at
the same time or retry it; two steps make the last allowed step differ from the
first; two entries are the owner and its successor.  *History*: four events are
enough for a prompt, an update, a compaction and a second compaction or step, which each of the properties needs to be violated; a
second prompt only adds rows of the same kind; with two values the context
changes and changes back, so that an update told twice or left out is noticed;
the one client stages any boundary while another commits.  *Turn*: two local calls are
one that waits for the user while the other fails or is dismissed, and the
hosted call has no fiber.  *Desk*: two requests of one session and one of
another, so that a cascade has something to take and something to pass over; two
clients reply to each other's requests.  *Sync*: two moves bring a session back
to a workspace it left; four events are a birth, one late event and the two of a
move.  *Sync, live*: without moves one remote is independent of the others;
connections are lost, the control plane restarts and streams close and open any
number of times.  *Jobs*: two jobs follow each other under one id, which is what
can be confused, and two runs are one extension; calls of different ids meet only
in the abort, whose list is a set.  *Run state*: two runs are the aborted one and
its replacement, and one shell can be lost, found by a prompt that is queued behind
it and taken by an abort; the violation needs three.  `MaxSeq`, `MaxEvents`, `MaxWarps`,
`MaxJobs` and `MaxRuns` stand in guards; everything else is bounded by the sets
themselves.
The safety properties of `runstate` were checked on larger instances without
another result: with two shells and three runs (16.4 million states), with three
runs (1.7 million), with two aborts (2.9 million).

**Symmetry** is used in three safety runs only: over message IDs and clients in
`session`, over remotes in `sync`, over values in `history`; no definition tells
those values apart.

**Deadlock** is checked in every run but `desk`, `turn` and `jobs`, where the
system stops: everybody has an answer, the turn is closed and its calls repaired,
or the bounded number of jobs is used up.

**Fairness.**  Coordinator, session and run state assume weak fairness for each
fiber that can go on: the Effect scheduler resumes runnable fibers in turn, and
nothing else makes a client call, an interrupt or a crash happen.  That a drain
ends is an assumption of the coordinator, where the drain is the environment's;
in the session it is the assumption that a provider turn and its tools end,
which is strong fairness of `FinishTurn`: calls open and settle again and again
before the stream ends, and a model does not call tools in one turn for ever.  In
the run state a body that nobody interrupts need not end.  `CallersReturn`
assumes that wakes eventually stop, because a `run` shares all coalesced
follow-ups of its entry.  In `ToolTurn` only the steps of the turn itself and the
unwinding of an interrupted fiber are fair: neither the user nor the provider nor
a tool need ever answer, which is the point of `InterruptedTurnsReturn`.  In
`SubagentTask` the event loop does not rest while a fiber is ready and the
prompts of a child session end; notifications and aborts need not happen.  The
sync loop has strong fairness per step: a connection may be lost between any two
steps and again, and the retry loop of `workspace.ts` never gives up, so a step
that keeps becoming possible is taken.  Streams and the wakes behind a commit
have weak fairness: they are fibers of one process.

**What the runs leave to the proofs.**  Theorems only, and model-checked on the
instances of the runs before they were proved: that the coordinator's map agrees
with its fibers, that its waiters have an owner, that stopped entries stay
stopped, that drains of a session do not overlap, that the engine drives its
coordinator as a worker, that the runs of a job take turns, that no request
outlives its turn, that only an interrupted request loses its shell, that a dismissed question halts the loop unless another tool
failed first, and that a turn of `ToolTurn` is made of steps of `SessionEngine`
(these last two on the instance of `turn`, 480,502 states); and type correctness
where a module has proofs.

**Mutants.**  For each property of a passing run `PROJECT.json` names a
definition and a plausible bug in it (marked `Mutant` in the modules) under
which TLC finds the property violated: a guard left out, a flag that is not
reset, a run that is not counted, rows handed out again or before the
subscription, a settlement of another job's run, a cascade over the wrong
requests, an abort that interrupts without cancelling.

## Where the code and its documents differ

1. `sync_copy` - the claim precedes the copy of file changes
   (`opencode/src/control-plane/workspace.ts:589`, 612), so a failed copy leaves
   the session fenced off from the workspace it still lives in; the comment says
   the order is meant to prevent that.
2. `runstate_busy` - a late `idleIfCurrent` deletes the map entry of a later
   runner (`opencode/src/session/run-state.ts:61`); `assertNotBusy` passes while a
   loop runs.

Six more are visible in the models without a run of their own, because what
the documents say is not one formula or is hedged:

* A resume that arrives while an interrupted drain cleans up fails with the old
  drain's interrupt (`Resolve` of `RunCoordinator`): `run` awaits the old deferred
  (`core/src/session/run-coordinator.ts:71`), which `settle` resolves with a
  failure.  A test (`core/test/session-run-coordinator.test.ts:285`) is titled
  "starts a resume registered during interruption cleanup".
* The end of a move publishes `session.updated` on two logs under the same number
  (`workspace.ts:568`, 720), while `opencode/src/sync/README.md:33` builds on "only
  one device is allowed to write".  `MirrorsTheWriter` is therefore stated for
  sessions that were never moved.
* A late event of the old workspace under a number the control plane has used
  since is refused as divergent (`core/src/event.ts:284`) before the owner is
  looked at (291), which ends the sync loop of that workspace; the comment at
  `workspace.ts:587` says such events are ignored.
* A question dismissed after another tool of the turn died does not halt the
  loop, because the defect of the joined fibers is raised first
  (`core/src/session/runner/llm.ts:292`); the comment at `llm.ts:143` says a
  dismissal halts.  The divergence goes no further: by `DismissalsHalt` the loop
  goes on past a dismissed question only when another tool failed first.
* A shell whose request is interrupted between the fork (`opencode/src/effect/runner.ts:151`)
  and the shell's first step never runs its finalizer and never opens its latch.
  The runner stays in Shell and the status busy; prompts queue behind the shell and
  wait for ever; an abort sets the runner to Idle, so that new prompts run, but waits
  for the latch for ever (110) and never settles the queued callers it took.  The
  tests `opencode/test/session/prompt.test.ts:1708` "shell completion resumes queued
  loop callers" and 1780 "cancel interrupts shell and resolves cleanly" let the shell
  begin first.  TLC refutes `QuietMeansIdle`, `NobodyIsLeftBehind` and `AbortsReturn`
  without their exception for `Lost` on the instance of `runstate`; with it they
  hold, and without interrupted requests the exception is empty
  (`PatientRequestsLoseNothing`).
* A revert that is committed between the two reads of `entriesForRunner`
  (`core/src/session/history.ts:95`) deletes the compaction that the first one
  found; the request, and a summary made of it, then lack the conversation before
  it.  `RequestTellsTheContext` and `NothingIsForgotten` are therefore stated for
  turns that no commit falls into.

## What is proved

The theorems hold for every value of the constants.  The assumptions are
`NoneAssumption` (the null value is none of the other values), `BoundAssumption` and
`IdAssumption` (`MaxSeq` is a number, and the ID of a prompt is none),
`StepsAssumption` (the allowance is a positive number), `MaxJobsAssumption` and
`MaxRunsAssumption` (numbers, and a job has a run), `BoundsAssumption` (`MaxEvents`
and `MaxWarps` are numbers), `NamesAssumption` of `WorkspaceSync` (control plane,
workspaces and the null value are different names) and of `SessionRunState`
(requests, aborts, runs, shells and the null value are), `LeaversAssumption` (those who
may leave are callers), `CoversAssumption` (a rule covers a set of requests) and
`HostedAssumption` (a call is local or hosted).

**RunCoordinator_proofs.**  The inductive invariant `IInv` is the conjunction of
`TypeOK`, `ActiveIffLive`, `WaitersHaveAnOwner` and `NoLostWake`.  The map has to
agree with the fibers before a settlement can be known to be that of the active
entry, and waiters have to have an owner before an identity can be taken again;
neither is inductive without the other.  From it: `Serialization`,
`TypeCorrect`, `MapAgreesWithFibers`, `WakesAreKept`, `NobodyIsLeftBehind`, the
action property `StoppedStaysStopped`, and `Refinement`: each action is an action
of `KeyedWorker` or a stutter.  The mapping reads the owner fibers through a
CHOOSE; the lemma `WorkerByMap` shows that this is what the map holds.

**SessionEngine_proofs.**  The invariant comes in layers, each preserved with
the help of those before it:

1. `Shape` - the fields of every variable, without the bound on the step count;
2. `IInv` of the coordinator: every step but a crash is a coordinator step or
   leaves the coordinator alone, and a crash is its initial state, so the lemmas
   of `RunCoordinator_proofs` are used again and nothing about the coordinator is
   proved twice;
3. `NoOpenToolInRequest`, inductive as it stands;
4. `Numbers` - numbers are distinct and never ahead of the counter;
5. `Batch` - what is left of a promotion is a beginning of what is pending,
   which makes `PromotionOrder` inductive;
6. `SteerInv` - where the steers up to the cutoff are at each place of the loop;
7. `BoundaryInv` - where the model owes nothing, and that a queue promotion
   holds one row;
8. `StepInv` - a step beyond the allowance is only entered while a steer up to
   the cutoff waits to be promoted, which renews the allowance before a request;
9. `WakeInv` - a woken prompt is pending, and an active entry without a pending
   wake has a drain that has still to look at the inbox, or nothing is woken.

Results: `TypesHold`, `NoOpenTools`, `AdmissionStands`, `InOrder`,
`RequestsHaveTheSteers`, `QueuedEntersAtBoundary`, `WithinAllowance` and
`IdleLeavesNothing`, which together are every safety property of the session
runs.

The engine was built on the coordinator as if the drain were any callback.  That
this is right is proved as well: `EngineUsesTheCoordinator` (the steps of the
session are steps of the coordinator, stutters, or a crash),
`EngineKeepsTheCoordinator` (so its invariants hold in a session),
`EngineIsAWorker` (and a session refines `KeyedWorker` with a crash added) and
`DrainsDoNotOverlap`: the drain at work and the owner fiber that called it are the
same at all times.

**ToolTurn_proofs.**  Two invariants.  `DeskInv` says of the desk that a request is
listed once, that it is listed just while it is awaited, and that what a rejection
has seen on its walk over the list waits no longer and does not ask again
(`Sweeping`).  The walk is over a sequence from which requests are removed in between, so the lemmas `RemoveFirstListed` and
`ConcernedIs` say what the operators of the community modules do to such lists.
From it: `RequestsAreListed` and `RejectionsSweep`; it survives the ends, the
interruptions and the crash of a turn, which are no steps of the desk
(`TurnsKeepTheDesk`, `TurnsSweep`).  `TurnInv` ties calls, fibers and the log
together.  That calls are settled at the end is not inductive: a settlement may
come from the fiber, from the provider's end or from a failure, and which of them
it must have been depends on how far the turn is.  `CallOK` says it call by call:
a fiber that ended by itself left a settlement, a fiber that still runs has none
unless something failed, and before anything takes the fibers down nothing else
settles (`Undisturbed`).  `HostedOK`, `StartedOK`, `StreamOK` and `ClosingOK` do the
same for the provider's calls and for the places of the turn.  From it:
`TurnsSettleTheirCalls` and `TurnsKeepResults`; and, with what askers have to do with
their fibers (`AskersRun`), `NoRequestOutlivesItsTurn`.  `DismissalsHalt` needs one
invariant more, `Halting`: a fiber with a dismissed question has failed or is about
to, and a turn that goes on joined its fibers after another failure or after all of
them had come to rest.

`TurnsAreSessionSteps` maps a turn to its session.  An open call is a call without a
settlement, the drain is at the provider until the scope of the turn has closed,
and the way the turn ended says which step of `SessionEngine` that is: the next turn
of the loop, a look at the inbox, a retry after compaction, a failure, a stop that
is noticed, a dismissed question.  The theorem shows that whatever
fibers, stream, desk and user do, the session takes one of its steps or none.  The
mapping begins at the provider and stands for one turn, so it is a statement about
steps; `FailInterruptedTools` is left out of it because it belongs to the next drain.
Writing the mapping down is what showed that `SessionEngine` had been too narrow: a
turn of it made one call, and a defect of the stream settled everything.

**SessionRunState_proofs.**  That a runner's state knows its work is not inductive,
because an abort takes work out of the state before the fiber has unwound: `IInv`
says of each handle that it is held by its runner (`RunnerOK`, `KnownOK`) unless an
abort has taken it (`Taken`).  `PermitOK` keeps a caller that publishes the busy
status at the head of the line of an idle runner, and `BusyOK` names the debtors of
that status: as long as it is shown, a runner holds work, or a finalizer or an abort
has yet to take it back.  Results: `TypesHold`, `RunnersKnowTheirWork`,
`NobodyWaitsInVain`, `QuietSessionsAreIdle` and the action property
`WithdrawnRunsStay`, which are every safety property of the run.  Three of them except
lost shells.  `ShellsAreLostByTheirRequests` says how far that goes: only a request
that is interrupted before its shell has begun loses one; so where no request is
interrupted (`Leavers = {}`) no shell is ever lost, by `PatientRequestsLoseNothing`,
and the invariants hold without an exception.

**SessionHistory_proofs.**  That the stored epoch tells the truth is not inductive:
a turn holds epochs that it read or made and writes them back later.  The
invariant therefore speaks of those as well.  `Told` is the claim about baseline,
updates and snapshot; `Settled` says that no update lies behind a compaction that
is newer than the baseline, since after a compaction the baseline is replaced
before it is updated again.  Only the drain writes epochs and a commit removes the
epoch, so what a turn has read still holds as long as there is an epoch or no
revert has been committed (`Current`), which is what `Informed` says place by
place; otherwise the step that would write finds no epoch.  `Numbered` says that
rows have distinct numbers up to the counter, `Bounded` that nothing read is ahead
of the log.  The layers `TypeStep`, `BoundedStep`, `ProjectionStep` (inbox and
steps), `ContextStep` and `ForgottenStep` follow one another, each with one step
per action.  Results: `TypeCorrect`, `EpochIsTrue`, `RequestIsTrue`,
`InboxIsHistory`, `OldStepsAreComplete` and the action property
`SummariesAreWhole`, which are every property of the run and its types.

**EventStream_proofs** is about any set of streams on a log that only grows: what
a stream was given and holds is the part of the log behind where it asked, and a
stream that sleeps without a wake has the whole log but what writers have still
to announce (`StreamsAreFaithful`, `NoWakeIsLost`).

**FollowedSync_proofs** begins with `WorkspaceSync`.  Beside the types its
invariant says what is in flight
and where it came from: rows on a stream or in a request are events of the log
they were read from, under their numbers (`InFlight`); an event of one log that
stands in another stands there under the same number, and an event not yet
published stands nowhere (`EventsOK`); how far a move has come (`WarpOK`); who
owns the control plane's copy after a claim (`FenceOK`); and, until the first
move, that one workspace at most has a log of its own, of which the mirror is a
beginning (`UnmovedOK`).  `Same`, `Grown` and `Grows` reduce every step to "no
log changed" or "one log took one event", and each part is shown once for these.
From it: `NumbersAgree`, `ClaimsHold`, `StolenLogsAreWhole`, `TheMirrorHolds`.

Its second part puts replication and streams together.  `FollowedIsSync` is a refinement:
without its streams the composition is `WorkspaceSync`, so all of the above holds
of it.  `ControlStep` shows that every step of the replication, a move's
included, appends one event to the control plane's log or none, which is what the
streams assume of their log; the lemmas of `EventStream_proofs` then apply under
INSTANCE and give `ClientsFollowTheLog`.

**SubagentTask_proofs.**  Of `BackgroundJob`: `JobOK` tells open jobs from shut ones: an open job
counts as pending the runs that are not over, starts them one after the other,
and holds an output no older than that of any run that is over; in a shut one
runs only unwind.  `TableOK` says which job an id names.  Results:
`WorkIsCounted`, `NoOverlap`, `LastOutputWins`, and the action property
`EndsAreFinal`.

Of `SubagentTask`: `TasksUseTheRegistry`: the task tool refines the
registry, so those results hold of it.  `CallOK` ties a call to its job and to its
notification; `Steady` is what a step of the registry that neither starts nor
promotes a job leaves alone, so that most steps preserve `CallOK` by one lemma.
Results: `OneDelivery` and the action property `AbortIsComplete`.

**Model-checked only.**  Liveness under fairness: `WakesAreAnswered`,
`CallersReturn`, `WokenPromptsAreServed`, `EveryEventArrives`,
`FollowersSeeEveryEvent`, `AbortsReturn`, `CallsReturn` and `InterruptedTurnsReturn`
need ENABLED and leads-to under fairness, which the prover does not reason about.
Every other property of a passing run is a theorem.  What a fold or another
recursive definition computes for every input needs an induction over data that
the prover cannot do; no theorem depends on it.

## What is not modelled inside modelled parts

* Coordinator: closing the surrounding scope at process shutdown.
* Session: creation, forking, agent and model switches.
* History: the files and snapshots of a revert; rows of shells, synthetic texts
  and switches; several sources of context; the texts of updates and summaries;
  the size at which a history is compacted.
* Permissions: removal of a saved rule, listings for clients, a second request of
  one asker, a failure of the event that announces a request.
* Tool calls: text and reasoning parts of a turn, snapshots and patches, the
  content of tool outputs.
* Event log: removal, live feeds and listeners, failing projectors.
* Replication: creating, listing and removing workspaces, status events, the
  wait for a sync fence, more than one session.
* Jobs: timeouts of `wait`, the closing of the registry with the process,
  children of child sessions.
* Run state: disposal of an instance, a status event seen before its entry is
  updated, and interrupted aborts: one that is interrupted while it waits for a
  fiber or a latch leaves the queued run it took unsettled.

## Not modelled

The components without a model and the reason of each are listed in
`PROJECT.json`.  In short: most of the TypeScript is the terminal interface, the
generated SDK, provider adapters, protocol conversion, schemas, and wrappers of
files, processes, git, MCP and language servers.  These have no state that
several actors change, or their logic is the formatting of data whose wording no
property is about.  The models therefore cover a small share of all lines and a
large share of the state machines among them.

## Plan

Done: the coordinator, the inbox and the session engine; the history with
epochs, compactions and reverts; the event log, streams, replication and their
composition; background jobs and the task tool; the desk and the turn, and the turn
as steps of the session; the run state; the proofs above, which cover every safety
property and every action property of the runs.

Next, in order of importance:

1. The inbox of `SessionHistory` as that of `SessionEngine`: rows are projected by
   the same code, so the promotions of the one should be steps of the other.
2. Removal of a log beside open streams, and the live feeds.
3. `SessionRunState` with the disposal of an instance and with interrupted
   aborts; the instance store of `packages/opencode`.

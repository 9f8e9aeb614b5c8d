# Lunitide: TLA+ models, checks and proofs

Lunitide is a local-first office assistant: a Go engine (`src/internal`, started by
`src/cmd/engine`), a desktop host and a web user interface that talk to it over a
framed session, and a single-writer SQLite store. What makes the engine hard to get
right is the *agent runtime*: it runs commands and edits files on behalf of a model,
after a human review, and it must be able to say, after any crash, cancel or lost
reply, what has happened to the outside world. This directory models that core.

## 1. Inventory

| component | state | operations | hard behaviour | what makes it correct |
|---|---|---|---|---|
| Run kernel (`agentrunapp/service.go`, `kernel.go`, `resume_budget.go`) | `AgentRun` row with status and version, turns, steps, tool calls, usage, events, audit chain | start, advance, resume, cancel, reconcile, recovery scan | version compare, idempotent replays, recovery at start-up and on the live engine | terminal states are final; recovery only ends what nobody works on |
| Reviews (`review_workspace.go`) | `RunReview` rows, the latest review event | request (by command and change set), decide, consume | one-shot approvals bound to a digest; rejections; retries | an approval pays for one effect; a run never gets stuck |
| Command execution (`command.go`, `commandworker`) | `CommandJob` row, `EffectJournal` row, kill switches in memory, the process | start, launch, finish, cancel, start-up reconciliation | process outside the store; cancel, finish, reconcile and crash racing | job and journal agree; first terminal wins; cancelled means killed |
| Change sets (`changeset.go`, `changeset_file_*.go`) | `ChangeSet` row, two journal rows, the files | preview, apply, revert, compensation, retry | files outside the store, crash between two writes, overlapping retries, other programs | the journal is true of the tree; failures are clean |
| Execution budget (`execution_budget.go`, `storage/sqlite/execution_budget.go`, `app/continuity_wire.go`) | reservation rows with receipts and revisions | admit, dispatch, settle, release, sweep | concurrent calls of one turn, lost settlements, sweeps of live calls | limits hold; what was spent stays charged |
| Task recovery (`task_recovery.go`) | write journal of a task, reservation | attempt, resume unknown, late receipt | a write with unknown outcome, late or repeated receipts | a write is not repeated blindly |
| Plan execution (`agentrunapp/plan_execution.go`, `app/plan_execution.go`, `domain/planning`) | plan, nodes, tasks, executions with a version, runs, tool calls and their effects; the worker table in memory | create, start, retry, tool calls, finish, cancel a tree, join, stop, recover | cancel in two steps against a start, a run cancelled or swept behind its task, crash between receipt and end | execution, run and task end together; success is proven; a retry is acknowledged |
| Workspace leases (`fs.go`, `review_workspace.go`) | registrations, grants, leases with fencing tokens | register, grant, acquire, release, expire | a stale holder writing after expiry | one live lease per root, old tokens refused |
| Scheduler (`scheduler`) | job definitions and run rows (JSON files or SQLite); slots, blocks, next fire times in memory | edit, delete, run now, cancel, tick, launch, receipt, Close, recover | every write can fail, edits while a run is under way, Close against launches, restart | an uncertain job version does not run again by itself; a slot is always freed; nothing runs after Close |
| IPC session (`ipc/session.go`) | slots, request goroutines | serve, drain | session loss while requests run | requests are cancelled or finish before close |
| Workers, broker, merge (`worker`, `execution`, `stdioworker`, `merge`) | worker leases, dispatches, root tree intents | acquire, heartbeat, reap, submit, route, apply to root, rollback | fencing, crash in the middle of a merge | a fenced worker cannot submit; the root tree moves in order |
| Orchestration and delegation (`agentorchestration`, `delegation`) | tree of agents, budgets, used nonces | spawn, start, complete, fail, join, cancel, restart | cancellation against completion of children | parents wait for children; budgets are conserved |
| Organisation ledger (`budget`) | accounts, reservations, journal | reserve, settle, release expired | expiry against settlement | conservation, no overdraft |
| Message queue of a session (`queueapp`, `app/queue_delivery.go`, `storage/sqlite/queue_delivery.go`, `messageapp`) | queued items, deliveries, receipts of messages, the history; session reservation and streams in memory | queue, withdraw, list, consume, resume, dismiss, chat start, stream, finish, rewind | the running stream and the renderer claim; claim, write, start and receipt are separate transactions; crash between any two | no input lost, replayed unasked or absorbed by the wrong turn |
| Compaction, hand-off (`compactionapp`, `handoffapp`) | checkpoints, capsules | preview, commit, activate | appends during compaction | no message lost |
| Secret leases, remote gateway, host bridge, engine client | leases, nonces, sessions, generations | issue, use, revoke, reconnect | host and engine restart separately | a stale generation is refused |
| The rest: request handlers (`app`), tools, office, media, voice, connectors, feature services, model adapters, user interface | | | | data processing and CRUD; not modelled |

How they interact: a client request reaches a handler of `app` in a goroutine of its own
(`ipc/session.go`); the handler calls `agentrunapp.Service`; every method there is one or
more transactions of the store, which run one at a time; commands and files are touched
between transactions. Kill switches live in a map of the service under a mutex. At
start-up (`bootstrap/wire.go`) reservations, command jobs, runs and plans are recovered
in this order before the engine serves requests. The diagnostics page can run the
recovery scan again on the live engine. An orderly shutdown waits for no command
(`DrainCommands` is only called by tests), so it is a crash for the model.

The complete list, with sources and status, is `components` in `PROJECT.json`; the
places in the code that tests hardly reach are listed there under `hazards`.

## 2. Modules

| module | models |
|---|---|
| `AgentRunDomain` | the state machines of `internal/domain/agentrun`: runs, effects, jobs, change sets, tool calls |
| `WriteAheadEffect` | abstract: what the effect journal promises of any external effect |
| `CommandRuntime` | reviewed command execution and the part of the run kernel it needs; implements `WriteAheadEffect` |
| `CommandRuntimeProofs` | its theorems |
| `ChangeSetRuntime` | reviewed change sets; implements `WriteAheadEffect` while requests for a set do not overlap |
| `ChangeSetRuntimeProofs` | its theorems |
| `ExecutionBudget` | reservations of a task, the metered adapter, the settlements of task recovery |
| `ExecutionBudgetProofs` | its theorems |
| `Scheduler` | jobs on a schedule and by hand, over either store |
| `SchedulerProofs` | its theorems |
| `PlanExecution` | executions of the tasks of a plan: workers, trees, cancellation, joins, restart; implements `WriteAheadEffect` |
| `PlanExecutionProofs` | its theorems |
| `QueueDelivery` | input queued while a session is busy, its two consumers, rewinds and lists |
| `QueueDeliveryProofs` | its theorems |
| `MC*` | values, plans, policies and symmetry for TLC |

A step of a model is a transaction of the store or a step of the program outside it:
the store has one writer, so transactions do not interleave, and everything between
them does. A request that the code refuses changes nothing and is not a step; where a
refusal is itself the interesting outcome it is one (`Abandon`, `Refuse`, `GiveUp`).
An idempotent replay returns a stored reply and is only a step where it does more
(`CancelRetry` kills again).

### WriteAheadEffect

`journal[e]` is the journal row of an effect, `acted` the set of effects that have
touched the world. The intent comes first (`Prepare`), then the world (`Act`), then the
settlement (`Settle`), and `committed` is only written for an effect that has acted.
An unknown effect may still act: its process may be on its way.

### CommandRuntime

State: the status of runs, the latest review event (`pending`), the approval rows per
run and specification, the audit rows that make a repeated request fail (`requested`,
`audited`), jobs and their journal rows, the idempotency records of `command.start`
(`replayable`), and, in memory, the goroutine and process of a job (`proc`), its kill
switch and the cancels whose transaction has committed (`cancelling`). `engine` is down,
half-way through start-up, or ready.

`CommandStart` is the transaction; `Launch` registers the switch; `Spawn` starts the
process or fails; `ProcessExits` ends it by itself, by its time-out or by its switch;
`FinishCommand` or `FinishLost` is what remains. `CommandCancel` is the transaction of a
cancel and `CancelKill` the signal after it. `Crash` forgets the memory; on Windows the
job object takes the process with it, on Unix the group can survive (`orphan`).
`BootReconcileJobs` and `BootScan` are start-up; `DiagnosticsScan` is the scan on the
live engine.

Abstractions: a job identity is picked instead of a fresh ULID; a specification stands
for its digest; output, events and the content of audit rows are left out; the version
of a run row is reduced to what happened at the present version, which is all that
decides whether an audit row repeats; turns, steps, tool calls and usage are not state
here (a kernel step that only moves them is `AdvanceUsage`).

### ChangeSetRuntime

State: one run and its reviews, change sets of one plan previewed on the same base, two
journal rows per set, the lease bound into the request digest, the content of each path
(`original`, `planned` or `foreign`), and the requests between their transactions
(`handler`), each with its phase and position.

`Prepare` is the first transaction; `Classify` is what a retry does first; `Check` and
`Write` are the compare and the write of one operation; `Uncheck` and `Unwrite` the same
for compensation, last write first; `Finalize` and `Fail` are the closing transactions and
`Abandon` either of them refused or lost with the connection. Files can be written by
other programs between any two steps (`Outsider`); what they leave is always a third
content, because no property of the code could hold if they imitated the plan.

Abstractions: classification reads all paths in one step (a tree that changes while it
is read can come out as "mixed", which the third alternative of `Classify` allows in
every state); path guards can fail at any time; confinement, size and text limits are
left out; equal plans have equal approval digests because the digest does not bind the
identity of the set.

### ExecutionBudget

State: the reservation row of every call of a task (status, dispatched, settled usage,
receipt, revision), where the metered adapter is with the call, and what the provider
charges. `AdmitCall` checks task and scope in one transaction; a refused call sweeps the
task (`SweepTask`) and tries once more; `MarkDispatched` commits before the request goes
out; `Settle` records what was seen of the usage. Task recovery isolates (`ResumeUnknown`,
`Isolate`) and applies late receipts (`ReceiveLate`, `SettleLate`), each in two
transactions. A restart with its sweep is one step (`Restart`): nothing runs in between.
`freed`, `leaked` and `reopened` are history: reservations swept under a call that was sent,
left behind by their owner, and committed rows that task recovery settled again. A sweep that
frees the reservation of a call just sent is one of the exceptions of `WithinBudget`; the call
has no charge by then, so `ChargeStays` says nothing of it.

Abstractions: only tokens, not bytes or active time; the integrity label is reduced to
the status that follows from it; a receipt always comes with one digest; the attempt
intent table, binding creation and activity are left out.

### Scheduler

State: `job` and `row` are the store (a job's `UpdatedAt` is its version); `running`,
`blocked`, `nextFire` and `schedule` the maps of the service under its mutex; `tick`,
`listed`, `due` the loop in `fireDue`; `asked` the job versions "run now" has read; `pc`,
`of`, `cause`, `final` an execution. `stale` and `begun` are history.

`ListJobs` and `SelectDue` are the two halves of `dueJobs` (the list is read before the lock
is taken), `FireDue` the launches one after another, `Launch` the critical section that takes
the slot and joins the shutdown. `AppendIntent` and `Touch` are the rows before the goroutine,
`Begin`, `Return`, `Disable`, `WriteReceipt`, `BlockAutomaticRun`, `Replan`, `Release` the
goroutine; each write can be refused. `DisableInterrupted` and `CloseInterrupted` are the
recovery of the JSON store, two files; `CloseInterruptedRow` and `DisableInterruptedJob` that
of SQLite, one statement each. `Stop` is a crash, a failed start-up or the exit after Close.

Abstractions: the clock is a free choice of which planned jobs have passed (`SelectDue`), but
a job planned afresh is not due, except an `at:` stamp in the past; older versions of a job
are those a request, a tick or a run has read; typed triggers and the outbox are left out.

### PlanExecution

State: plan, nodes, tasks, executions (status, number of its run, version), the runs and the
journal of their tool calls, with those declared unknown while the call still runs
(`declared`); in memory the worker table, a cancellation between its steps, and joins between
their two. `acted` and `revoked` are history.

`Launch` puts a worker in the table, `Claim` is `claimPlanExecution` with its retry,
`Prepare`, `Dispatch`, `Receipt` one tool call, `FinishWork` and `FailWork` the two ways to
`FinishPlanExecution`, whose decision is `FinishAllowed` and whose writes are `Finish`.
`CancelWorkers`, `CancelExecution` and `CancelTree` are the three steps of
`plan.run.cancel`; `JoinAsked` and `JoinChildren` the two of `plan.run.join`. Users pause and
resume the plan, start, complete and fail nodes by hand, cancel a run behind its task, close
reconcile it (`ReconcileRun`: its prepared effects become unknown while their calls go on; a
receipt that comes later settles call and effect, unless it says unknown as well, which the
machine of effects refuses), close the project (`Bar`), open the
diagnostics (`Diagnose`). `Reconcile`, `RecoverRuns`,
`RecoverExecution`, `Serve` are start-up in the order of `wire.go`.

Abstractions: one plan; a project closed or suspended and a review missing or expired are one
condition; budgets and charges are refusals a worker may meet; the kind of a tool is chosen at
its receipt; the status of a call is that of
its effect, except for calls in `declared`; blocked and paused nodes, drafts,
run pause and `timed_out` are left out; older versions of an execution are represented by the
one before the present.

### QueueDelivery

State: items, the delivery each belongs to, delivery records, receipts of messages (which
survive a rewind), the history; in memory who holds the session reservation (`turn`) and a
list under way. `handed`, `asked`, `dismissed`, `answered` are history.

`ConsumeClaim`, `ConsumeResume`, `ConsumeDismiss`, `ConsumeReconcile` are `run.queueConsume`;
`ChatValidate`, `AppendPart`, `Prepare`, `Start` the hand-over by `chat.start`;
`StreamLooks`, `StreamClaims`, `StreamChecks` and the same `AppendPart` to `Start` the one of
the running stream; `StreamSelectsTerminal` and `Finish` its end; `ListRead`, `ListLook`,
`ListMark` the three steps of `run.queueList`, which holds no reservation. Any transaction can
be refused (`Refused`, `FinishRefused`) and the process can die between any two.

Abstractions: one session of one office scope; one message per item (the code
splits a long text into parts, each with its receipt); request ids, the rate limit and the
consume path of a build without a delivery store
are left out. `Pivots` are the texts that `looksLikeTaskChange` (`chat_turn.go:306`)
recognises. Texts that `interruptsRunningTurn` (`chat_turn.go:325`) recognises replace the goal
of the running turn and are absorbed by it; they are outside `PivotStartsOwnTurn`.

## 3. Runs

| run | configuration | bounds | distinct states | shows |
|---|---|---|---|---|
| `command` | `CommandRuntime.cfg` | 1 run, 2 specs, 1 lease, 2 jobs, 2 keys | 948 000 | types, job and journal agreement, one job per approval, ownership and killability of running jobs, first terminal wins, start-up ends the runs earlier engines left, refinement of `WriteAheadEffect`, and a running job settles |
| `change_set_single` | `ChangeSetRuntime_single.cfg` | 2 sets, plan create-update-delete, 2 leases, 1 request at a time | 631 000 | tree follows receipt, failure is clean, refinement of `WriteAheadEffect` |
| `change_set_overlap` | `ChangeSetRuntime_overlap.cfg` | 2 sets, plan create-update, 1 lease, 2 requests at a time | 484 000 | types, set and journal agreement, one set per approval |
| `budget` | `ExecutionBudget.cfg` | 3 calls, root and child scope, one write call | 2 947 000 | limits hold with three exceptions, charges stay, every reservation has an owner, nothing is sent unreserved |
| `scheduler_safety` | `Scheduler_safety.cfg` | 1 one-shot job, JSON store, 2 executions, 2 versions, 1 run-now, 1 restart | 5 225 000 | types, receipts come after the stop, nothing is repeated, slots are owned, silence after Close |
| `scheduler_liveness` | `Scheduler_liveness.cfg` | 1 recurring job, SQLite store, 2 executions, 1 restart | 445 000 | an execution frees its slot whatever the store refuses; Close returns |
| `plan_tree` | `PlanExecution_tree.cfg` | a task and its child in one node, 2 runs, 1 call each, 1 move or fault | 2 141 000 | a cancelled run never succeeds, no execution is orphaned without a cause, a node completes over proven runs |
| `plan_restart` | `PlanExecution_restart.cfg` | 1 task in a node that depends on another, 2 runs, 2 moves or faults, 1 restart | 1 188 000 | types, execution, run and task settle together, success is proven, recovery leaves nothing, refinement of `WriteAheadEffect`, an execution ends |
| `queue` | `QueueDelivery.cfg` | 3 items, the last a pivot, capacity 2, 2 streams, 1 resume of each delivery | 1 044 000 | no replay unasked, every input accounted for, a rewound message stays away, a pivot starts its own turn |
| `change_set_overlapping_retry`, `scheduler_sqlite_recovery`, `plan_unknown_forgotten` | `ChangeSetRuntime_overlapping_retry.cfg`, `Scheduler_sqlite_recovery.cfg`, `PlanExecution_unknown_forgotten.cfg` | the smallest instance that shows it | | each a statement of the repository that the code does not keep (section 6) |

Why the bounds are enough.

* *Commands.* Jobs interact only through the run they share, the approval of a specification
  and the idempotency keys: two jobs under one run cover a second start for the same approval
  and a scan with one prepared and one settled effect; two specifications are needed for two
  jobs of one run. Two keys are a repeated request and one under a new key; a second lease is
  in the proofs.
* *Change sets.* In a plan of three operations there is one of each kind and a first, a middle
  and a last one, so that a crash or a failure can leave any prefix. Two overlapping requests
  are needed for a race; a third adds no new pair of steps.
* *Budget.* Three calls of which two exceed the child scope and two others the total of the
  task exercise each limit at its boundary; usage can stay below or overrun the estimate. The
  total leaves room for a third call only in what an early settlement gives back, which is when
  a later settlement by task recovery could break a limit.
* *Scheduler.* Jobs only meet in recovery and in the order of a tick, so one job at a time is
  checked and the proofs are about any number. Two executions are a manual run beside what the
  tick does; two versions an edit between any two steps; one restart recovers whatever one
  process left. `NoRepeat` needs a spent execution and a tick after it, so two executions.
* *Plan.* Two tasks in one node are needed for a cancellation of a tree, a join and a node that
  waits; two nodes for a dependency; two runs for a retry; one call has all stations of a call.
  Moves of users and refusals of the store share one bound: one of them is between any two
  steps of one execution, two can combine. One case needs a third run: an execution whose node
  failed under it and was reopened by the retry of a sibling (`Reopened`, the exception in
  `OrphansExplained` and `ExecutionSettles`); the proof covers it, the runs do not reach it.
  With one call per run the part of `SuccessIsProven` that asks for no open call is not
  exercised by TLC: an execution with its only call committed has none open. The theorem
  `SuccessHasProof` is about any number of calls.
* *Queue.* Three items with capacity 2 give a batch of two and one more behind it, so a quota
  that is reached, two deliveries, and the pivot alone or in a batch. Two streams are one that
  dies and the next. With three streams (5.5 million states) the result is the same.

State spaces end where identities, moves or restarts run out, which the code does not do: that
is why deadlock is not checked there, and in all models the system may also simply rest.

Symmetry is used only in safety runs and only over sets of interchangeable values.

Fairness. `CommandRuntime`: the goroutine of a job takes its next step (`Launch`, `Spawn`,
finish), a process ends because its time-out is enforced, a committed cancel delivers its
signal, and an engine that is down is started again and its start-up proceeds. `Scheduler`: a
goroutine that can step does (`RunStep` of each execution, with `Return` because the context
of an execution ends after twenty minutes), the loop finishes the tick it is in, and Close
returns when all it waits for has ended; nothing makes a tick begin. `PlanExecution`: the
worker of each task steps (its context ends by the wall clock), the handler of a cancellation
proceeds, `StopPlanExecutions` returns, start-up proceeds. All of it is weak fairness of steps
that stay enabled. Nothing is assumed of clients, reviewers, users, outsiders or crashes; the
store may refuse every write, except where a property names the exception: a settlement the
store refused leaves a job of a command running until the next start (`JobSettles`) and an
execution of a plan active (`ExecutionSettles`).

Each property has a mutant under `mutants` in `PROJECT.json`: a plausible slip in the code
under which TLC finds it violated.

## 4. Proofs

`CommandRuntimeProofs` proves for all sets of runs, specifications, leases, jobs and keys,
assuming only that `None` is none of the runs, specifications and jobs:

* `TypeCorrect`, by cases over the actions; `StepCases` splits a step, `RunOnly` gathers
  the actions of a run that leave jobs, journal and engine alone.
* `Invariance`: `IInv` is inductive. `JobEffectAgree` and `OneJobPerApproval` nearly are;
  `ReadyOwnsJobs` and `KillableWhileRunning` are not and need
  `SwitchCause` (a switch is fired only for a cancelled job, and a process this engine
  started has one), `GoroutineEvidence` (a job in a goroutine's hands has an open effect,
  a live or successful process has run), `FreshJobs` (an unused identity has no owner and
  no process) and `StartupClean` (no job is active between the steps of start-up).
* `JobAndEffectAgree`, `ApprovalPaysOnce`, `ReadyEngineOwnsJobs`, `RunningIsKillable` follow.
* `TerminalsAreFinal` is an action property, from the same invariant. `StartupEndsEveryRun`
  is one about the order of start-up: the recovery scan leaves a run with a prepared effect
  alone (`Protected`), so it ends every active run only because the jobs were reconciled
  first. `StartupClean` and `JobEffectAgree` say that nothing is prepared by then.
* `CommandsImplementJournal`: the refinement of `WriteAheadEffect`, step by step; a
  completion needs `GoroutineEvidence` to know that the process ran.

`ChangeSetRuntimeProofs` proves for all sets of change sets, all non-empty plans and all
sets of leases, assuming only that `None` is no lease, set or request. For any number of
overlapping requests:

* `TypeCorrect`; in particular compensation never leaves the paths of the plan.
* `SetsAndJournalAgree` and `ApprovalPaysForOneSet` are inductive given the types. The core
  is `OpenEffect`: a request whose effect can still be resolved finds its set in the one
  status that goes with an open effect, or in conflict; so the snapshot a failing request
  writes back is never older than the row.
* `SetsFollowMachine` is an action property from the same facts.

While no two requests are in flight together (`OneAtATime`, which the overlapping run shows
to be needed: the run violates `TreeFollowsReceipt` without it):

* `TreeInvariance`: `TreeInv` is inductive relative to the invariants above. A request in
  flight owns an open effect (`RequestOwns`), a prepared effect without a request is torn
  (`PreparedIsHeld`), and each phase knows how far the tree is (`TreeKnown`: the first
  `at - 1` paths are done before a write, `at` before an undo, none after compensation, all
  before finalize; a retry knows nothing and says so by being torn). `BusyIsAlone` is why
  the journal's own claims survive a request at work: while one is in flight, no other set
  is applied, reverted or failed.
* `TreeIsAsReceipted` and `FailureLeavesNoTrace` follow.
* `JournalInvariance` and `ChangeSetsImplementJournal`: the refinement. The difficult case
  is a retry that finds its work done after a crash and commits without writing anything:
  planned content can only be the work of an apply (`ContentHasCause`), an apply in the
  journal is the only one (`OneSetPerApproval`), hence it was its own earlier request. This
  rests on outsiders leaving a third content (section 2).

`ExecutionBudgetProofs` proves for all sets of calls, all scopes and all policies:

* `Invariance`: `IInv` is inductive. `ReservedHasOwner` alone is not: a settlement with a
  stale receipt changes nothing and would leave a reservation behind a finished call. That no
  receipt can be stale then is `OpenIsBlank` (an open reservation has none yet), which needs
  `UnsentIsBlank` (a call that was not sent has a row nobody settled), `SentIsDispatched` and,
  for task recovery, `RecoveredIsDispatched`.
* `TypeCorrect`, `ReservationsAreOwned` follow; `ChargesAreFinal` is an action property and
  needs `ChargedIsDone` (without task recovery only the owner charges a call, as it ends).
* `StaysWithinBudget`, for any finite set of calls. A sum over calls is the size of a set of
  pairs, one for each token (`Sum`, `Pile`), so that it can be compared and added without
  induction. `LiabilityIsUsage` makes one sum of the three of the ledger: a committed call
  counts what was settled, an open one its estimate. While none of the exceptions of
  `WithinBudget` has happened, a row is admitted, keeps what it counts for, or was open before
  (`RowShapes`), so a step without an admission never adds (`PileGrows`), and an admission adds
  one column that `AdmitPolicy` has asked for (`AdmissionAdds`). `LedgerKnows` is what
  `WithinBudget` needs to be inductive: a late receipt holds all that was spent, so that the
  settlement of the owner behind it changes nothing; a call that was sent has an open or
  committed row; one that asks to be admitted has none.

`PlanExecutionProofs` proves for any finite set of tasks, any nodes, dependencies and parents,
and any bounds on runs, calls, moves and starts:

* `Invariance`: `IInv` is inductive. `SettledTogether`, `SuccessIsProven` and
  `CancelledNeverSucceeds` are not. `RunsInOrder` (runs open one after another and an unopened
  one has no trace) is what makes the run of a claim a fresh one (`RunLeft`, by counting the
  claims); `ActiveIsOpen` (an execution under way has a task, a started node and a run that was
  not completed behind it) is why no end but its own can report success; `RevokedStops` (the
  task of a cancelled execution does not run again) is why the settlement of a worker that was
  told nothing comes out cancelled or failed; `WorkerKnows` ties what a worker has in hand to
  the run of its execution, so that no worker of an earlier run is left.
* `TypeCorrect`, `SettlesTogether`, `SuccessHasProof`, `CancelledStaysCancelled` follow. The
  core is the settlement itself, whoever makes it (`FinishAllowed`, `Finish`): what it writes
  into execution, run, task and node is one lemma.
* `OrphansAreExplained` rests on `Unattended`: each step that takes a worker away settles its
  execution or leaves a refused write or a closed node as the reason.
* `RecoveryIsComplete` rests on `StartsAlone` (nobody works while the process starts) and
  `RecoveryKnows` (what start-up has still to close is listed).
* `CompletionIsProven` is an action property: a node completes over `SuccessIsProven`.
* `PlansImplementJournal`: every step is a step of `WriteAheadEffect` on the calls of all runs.
  A receipt is written by the worker that called the tool (`WorkerKnows`), and a settlement or
  a sweep resolves the open calls of one run or of all in one step.

`SchedulerProofs` proves for all sets of jobs, all schedules and any number of executions,
versions and restarts, with either store:

* `TypeCorrect`; `SlotsAreOwned` and `CloseIsQuiet` are inductive given the types. The core is
  that `Launch` takes the slot and joins the shutdown in one step.

and with the JSON store (`Writer = "json"`; with SQLite it is false, see section 6):

* `ReceiptsComeAfterStop`. Versions only go up (`Advance`), so what an execution read is never
  newer than its job (`VersionsKnown`) and a version that is once not current never is again
  (`NotCurrentStays`). A receipt in the making that forbids a repeat waits for the stop
  (`FinalIsStopped`), recovery closes rows of disabled versions only (`RecoveryStops`), and
  so every closed row that forbids one has its version stopped (`ClosedIsStopped`).
* `NothingIsRepeated`. The difficult case is an execution whose row could not be closed: its
  block must stand until the next start. `OpenRowBlocks` says it does, because the next
  execution of the job runs the same version, or the version is no longer current
  (`SuccessorIsCurrent`, by induction over its launch). This is where the exception of the
  property comes from: a run of an older version overwrites the block.

`QueueDeliveryProofs` proves for any number of items, streams and resumes, any capacity of the
queue and any choice of pivots:

* `Invariance`: `IInv` is inductive. `NoReplay` is not; `HandedAsAsked` is, which leaves one
  hand-over in hand while a delivery is open. `InputAccounted` needs `StartedIsInjected`.
  `BatchesInOrder` (deliveries are numbered without a gap and hold something) is what makes a
  new claim find room (`RoomForNext`, by counting) and leave the older ones alone.
* `TypeCorrect`, `NothingIsReplayed`, `InputIsAccounted` follow.
* `RewoundStays` and `PivotsStartTurns` are action properties and rest on `TurnKnows`: what the
  holder of the reservation found in the history is still there, because a rewind needs the
  reservation too, and a stream that writes has looked at its batch after the claim.

Every invariant and every action property of the passing runs is proved, `TreeFollowsReceipt`,
`FailedIsClean` and the journal of change sets under `OneAtATime`, `ReceiptAfterStop` and
`NoRepeat` for the JSON store. Model-checked only: the liveness properties `JobSettles`,
`RunSettles`, `CloseReturns` and `ExecutionSettles` (fairness and `ENABLED` are out of the
prover's reach), and the counterexamples of section 6.

## 5. Plan

Order: what can damage the outside world first, then what recovers it, then what meters it.

1. *(done)* `AgentRunDomain`, `WriteAheadEffect`, `CommandRuntime`, `ChangeSetRuntime`,
   `ExecutionBudget`, with proofs.
2. *(done)* `Scheduler` and `QueueDelivery` with proofs, `PlanExecution`.
3. *(done)* Proofs about `PlanExecution` and of `WithinBudget`.
4. `TaskRecovery`: attempt, unknown outcome, resume, late receipt over write journal, file
   and reservation; composes with `ExecutionBudget`. Abstract: a write happens at most once.
5. `WorkspaceLease`: registration, grant, lease, fencing; the abstraction of leases in
   `ChangeSetRuntime` justified by it.
6. `RunKernel`: turns, steps, tool calls and V1 usage with the same recovery scan.
7. Candidates by value: `WorkerLease` with `RootMerge`, `OrgLedger`, compaction against
   appends, the reconnecting engine client.

## 6. Where code and documents disagree

Runs that TLC finds violated, with the quoted line in `PROJECT.json`:

* `change_set_overlapping_retry`: a retry of `changeset.apply` is let in while the request it
  repeats is at work. It finds the tree untouched and both pass the compare of the first path;
  the first request writes the plan and commits; the retry fails its compare of the second
  path and compensates, which takes the first path back. The journal says committed of a tree
  that holds half of the plan. Two overlapping reverts do the same (`changeset.go:936-949`,
  `:971-983`), which a plan whose create comes first shows.
* `scheduler_sqlite_recovery`: the SQLite store closes the interrupted rows before it disables
  their jobs, one statement each; a crash in between, and the next start fires a one-shot
  again.
* `plan_unknown_forgotten`: a run that is already terminal decides how its execution ends, so
  an open receipt is forgotten and the retry needs no acknowledgement.

Further disagreements the models contain, without a run of their own.

Commands and change sets:

* A cancel between the commit of `command.start` and the registration of the switch kills
  nothing (`command.go:597`); after `agent.run.reconcile` a running job cannot be cancelled.
* A specification approved once in a run cannot be approved again, say under another lease
  (`review_workspace.go:100`), and the run stays paused; `review_workspace.go:21-23` lets a
  rejected caller ask for another review, but `command.go:318-320` requires a running run.
* `kernel.go:162` has the recovery scan before ready; `system_diagnostics.go:245` runs it on a
  ready engine (`DiagnosticsScan`) and ends active runs.
* A prepared change set cannot be retried once its lease is over (`wire.go:491`).
* `changeset.go:565-566` says that full success is applied; `Finalize` is refused when the run
  has left "running" during the file phase.

Budget (`contracts.md` of docs/design/model-office-upgrade-2026-09-12):

* A refused call frees the reservations of siblings in flight (`contracts.md:252`, `:508`).
* `contracts.md:517` counts reserved usage; `admitPolicy` does not for output (`AdmitPolicy`).
* `contracts.md:509` commits complete usage only; the adapter commits whatever it has seen,
  also of a stream that broke (`Seen`).
* `contracts.md:515` never lowers reliable usage; `Isolate` can overwrite a settlement that
  came in between. The tokens the call had given back may have been reserved by then, so the
  task can be liable for more than its policy (`Overtaken`, an exception in `WithinBudget`; a
  late receipt does the same, `task_recovery.go:265`). Task recovery has no caller outside
  tests at this commit.
* The policy field `MaxModelAttempts` counts open reservations only, so it bounds
  concurrency, not attempts (`Attempts`).

Scheduler:

* A job disabled or edited between the list of `dueJobs` and its launch still fires: neither
  the flag nor the version is read again (`scheduler_test.go:461` expects otherwise of a job
  disabled before the tick).
* The block remembers one version per job: a manual run of an older version that fails after
  an edit overwrites it (the exception in `NoRepeat`).
* When `TouchLastRun` fails and the row cannot be closed either, a row says running without a
  worker until the next start.
* Outside the model: the cursor of a typed trigger moves before the launch (`trigger.go:94`;
  `scheduler.go:410` drops the error), and a notification is sent again when its status cannot
  be written (`trigger.go:195-199`).

Plans:

* An execution to cancel in a node that was failed by hand cannot be closed at start-up
  (`plan_execution.go:541-542`, `domain/planning/plan.go:219-220`), and the engine does not
  become ready (`bootstrap/wire.go:499-501`): `RecoverExecution` ends in "refused".
* `plan_run_handlers.go:209-215` says "执行任务由工具与产物验证收尾，不能用协调汇合覆盖执行结果" (a join
  must not overwrite the result of an execution); an execution that starts between the check
  and the join is overwritten (`JoinAsked`, `JoinChildren`).
* A sibling's retry reopens a node that failed under an execution; that execution, whose
  settlement was refused while the node was failed, stays active until a restart (`Reopened`).
* A failed sibling marks the plan failed, and executions still running fail their next check
  of readiness; a retry does not count against `MaxConcurrency` (`coordinator.go:110`).
* An execution that begins between `CancelPlanExecution` and `CancelRun` is told nothing and
  ends failed, not cancelled; it never succeeds (`CancelledNeverSucceeds`).
* Completing the last open node of a paused plan makes the plan cancelled
  (`planning_state.go:125`).

Queue:

* `queue_delivery.go:219-220` of the store says that mark-unknown "is used only by the engine
  after ruling out a live owner". A list that looks between `selectTerminal`
  (`chat_run_loop.go:2243`) and `FinishQueueDeliveries` (`:2270`), or whose look is old by the
  time it marks (`app/queue_delivery.go:53-56`), marks the delivery of a live or answered
  stream unknown: work that was answered can be resumed by the user. `NoReplay` holds because
  a resume is asked for.
* An early terminal (`chat_run_loop.go:147-162`) leaves its delivery started until somebody
  lists or consumes.
* Outside the model: a payload of nothing but white space stays prepared; a checkpoint saved
  before a `Start` that fails holds texts that are delivered again.

## 7. Not modelled

Other request handlers, tools, office, media, voice, connectors, feature services, model
adapters and the user interface: data processing and CRUD over the same store and the same
idempotency pattern, without a protocol of their own. Workers, broker, merge, delegation,
organisation ledger, compaction, hand-off, secret leases, gateway and workspace leases have
protocols and are candidates of the plan. Of the modelled parts, typed triggers and the
outbox of the scheduler, the plan-mutation service and drafts of plans, and the coordinator's
transitions no handler calls are left out. Migrations and encryption of the store are taken to
work.

## 8. Running

    tlc -config CommandRuntime.cfg MCCommandRuntime
    tlc -config Scheduler_safety.cfg MCScheduler
    tlapm SchedulerProofs.tla

The module of each cfg is in `PROJECT.json`.

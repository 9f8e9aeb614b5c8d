---------------------------- MODULE PlanExecution ----------------------------
(***************************************************************************)
(* Tasks of a project plan executed by a model with tools.  A task belongs *)
(* to a node of the plan and may have child tasks; starting it claims one  *)
(* durable execution with a run of its own, and a worker that prepares,    *)
(* dispatches and receipts tool calls until it submits verified work or    *)
(* gives up.  Finishing writes the run, the execution, the task, its node  *)
(* and the plan in one transaction.  A retry opens a new run.              *)
(*                                                                         *)
(* Users cancel trees of tasks, join children, pause the plan, fail nodes, *)
(* cancel a run behind its task and open the diagnostics, which sweep live *)
(* runs; the process stops or dies between any two steps and recovers when *)
(* it starts.  One plan; a closed project and a missing or expired review  *)
(* are one condition, "barred"; budgets are refusals a worker may meet.    *)
(***************************************************************************)
EXTENDS AgentRunDomain, Naturals, FiniteSets

CONSTANTS
  Tasks,          \* identities of tasks (agent_plan_runs)
  Nodes,          \* nodes of the plan
  NodeOf,         \* node a task works on
  ParentOf,       \* parent task, NoTask for a root
  NoTask,
  Before,         \* node that must be completed first, NoNode for none
  NoNode,
  MaxConcurrency, \* coordinator limit on tasks that are not terminal
  MaxWorkers,     \* limit of the worker table (8 in the code)
  MaxRuns,        \* bound: runs of all tasks
  MaxCalls,       \* bound: tool calls of one run
  MaxMoves,       \* bound: moves of users around an execution, refusals of the store
  MaxStarts       \* bound: starts of the process after the first

ASSUME PlanAssumption ==
  /\ IsFiniteSet(Tasks)
  /\ NodeOf \in [Tasks -> Nodes]
  /\ NoTask \notin Tasks /\ ParentOf \in [Tasks -> Tasks \cup {NoTask}]
  /\ NoNode \notin Nodes /\ Before \in [Nodes -> Nodes \cup {NoNode}]
  /\ MaxConcurrency \in Nat /\ MaxWorkers \in Nat
  /\ MaxRuns \in Nat /\ MaxCalls \in Nat
  /\ MaxMoves \in Nat /\ MaxStarts \in Nat

VARIABLES
  \* durable
  plan,      \* status of the plan
  barred,    \* project closed, or the review of a risky task not valid
  node,      \* status of each node
  task,      \* status of each task
  exec,      \* execution of each task: status, its run, version
  run,       \* status of each run of a task
  effect,    \* journal status of each tool call of a run; its call agrees
  declared,  \* but for these: declared unknown while the call was running
  \* in memory
  engine,    \* life cycle of the process
  recover,   \* executions start-up has still to close
  worker,    \* entry of the worker table of each task
  cancel,    \* cancellation under way: its root and the executions left
  joins,     \* join requests that saw no execution
  \* history
  acted,     \* tool calls that crossed into a tool
  revoked,   \* runs whose task a finished cancellation covered
  moves, faults, starts

planning == <<plan, node>>
ledger == <<run, effect, declared>>
requests == <<cancel, joins>>
counters == <<moves, faults, starts>>
history == <<acted, revoked>>

vars == <<plan, barred, node, task, exec, run, effect, declared, engine, recover,
          worker, cancel, joins, acted, revoked, moves, faults, starts>>

Runs == 1 .. MaxRuns

Calls == 1 .. MaxCalls

PlanStatus == {"active", "paused", "completed", "failed", "cancelled"}

NodeStatus == {"pending", "ready", "running", "completed", "failed", "cancelled"}

TaskTerminal == {"succeeded", "failed", "cancelled"}

TaskStatus == {"absent", "queued", "running", "joining", "cancel_requested"} \cup TaskTerminal

ExecActive == {"running", "cancel_requested"}

ExecTerminal == {"succeeded", "failed", "cancelled", "interrupted", "outcome_unknown"}

(* Executions claimed so far: the bound on runs. *)
Claims == {c \in Tasks \X Runs : c[2] <= exec[c[1]].run}

Execution == [status: {"none"} \cup ExecActive \cup ExecTerminal, run: 0 .. MaxRuns, version: Nat]

(* turn: waiting for the model; prepared, executing: one tool call; fail:  *)
(* giving up; exit: its execution is settled or abandoned, the entry of    *)
(* the table still there.                                                  *)
Step == {"none", "claim", "turn", "prepared", "executing", "fail", "exit"}

Worker == [pc: Step,
           expected: Nat,                          \* version to retry, 0 to start
           ack: BOOLEAN,                           \* acknowledgeUncertain
           run: 0 .. MaxRuns,                      \* run it was given
           ctx: {"live", "cancelled", "expired"},  \* its context
           call: 0 .. MaxCalls,                    \* last call it prepared
           status: ExecTerminal]                   \* status it gives up with

Idle == [pc |-> "none", expected |-> 0, ack |-> FALSE, run |-> 0, ctx |-> "live",
         call |-> 0, status |-> "failed"]

NoCancel == [root |-> NoTask, left |-> {}]

TypeOK ==
  /\ plan \in PlanStatus
  /\ barred \in BOOLEAN
  /\ node \in [Nodes -> NodeStatus]
  /\ task \in [Tasks -> TaskStatus]
  /\ exec \in [Tasks -> Execution]
  /\ run \in [Tasks -> [Runs -> {"none"} \cup RunStatus]]
  /\ effect \in [Tasks -> [Runs -> [Calls -> {"none"} \cup EffectStatus]]]
  /\ declared \in [Tasks -> [Runs -> SUBSET Calls]]
  /\ engine \in {"off", "scan", "plans", "refused", "ready", "closing"}
  /\ recover \subseteq Tasks
  /\ worker \in [Tasks -> Worker]
  /\ cancel \in [root: Tasks \cup {NoTask}, left: SUBSET Tasks]
  /\ joins \subseteq Tasks
  /\ acted \subseteq Tasks \X Runs \X Calls
  /\ revoked \subseteq Tasks \X Runs
  /\ moves \in 0 .. MaxMoves /\ faults \in 0 .. MaxMoves /\ starts \in 0 .. MaxStarts

Init ==
  /\ plan = "active"
  /\ barred = FALSE
  /\ node = [n \in Nodes |-> "pending"]
  /\ task = [t \in Tasks |-> "absent"]
  /\ exec = [t \in Tasks |-> [status |-> "none", run |-> 0, version |-> 0]]
  /\ run = [t \in Tasks |-> [k \in Runs |-> "none"]]
  /\ effect = [t \in Tasks |-> [k \in Runs |-> [c \in Calls |-> "none"]]]
  /\ declared = [t \in Tasks |-> [k \in Runs |-> {}]]
  /\ engine = "ready"
  /\ recover = {}
  /\ worker = [t \in Tasks |-> Idle]
  /\ cancel = NoCancel
  /\ joins = {}
  /\ acted = {}
  /\ revoked = {}
  /\ moves = 0 /\ faults = 0 /\ starts = 0

Active(t) == exec[t].status \in ExecActive

Settled(t) == exec[t].status \in ExecTerminal

Exists(t) == task[t] # "absent"

Children(t) == {u \in Tasks : ParentOf[u] = t /\ Exists(u)}

(* The smallest set of tasks that has t and the children of its members.   *)
Subtree(t) ==
  {u \in Tasks : \A S \in SUBSET Tasks :
     (t \in S /\ \A v \in Tasks : (ParentOf[v] \in S /\ Exists(v)) => v \in S) => u \in S}

CanMove == moves + faults < MaxMoves

Busy(t) == worker[t].pc # "none"

Live(t) == worker[t].ctx = "live"

(* The run an execution is bound to, and the calls of it.                  *)
RunOf(t) == run[t][exec[t].run]

EffectsOf(t) == effect[t][exec[t].run]

-----------------------------------------------------------------------------
(* The plan and its nodes.                                                 *)

NodeMoveStrict(from, to) == \* mutant: a running node is never cancelled
  \/ from = "pending" /\ to \in {"ready", "running", "cancelled"}
  \/ from = "ready" /\ to \in {"running", "cancelled"}
  \/ from = "running" /\ to \in {"completed", "failed"}
  \/ from = "failed" /\ to = "ready"

NodeMove(from, to) ==
  \/ from = "pending" /\ to \in {"ready", "running", "cancelled"}
  \/ from = "ready" /\ to \in {"running", "cancelled"}
  \/ from = "running" /\ to \in {"completed", "failed", "cancelled"}
  \/ from = "failed" /\ to = "ready"

DependencyMet(n) == Before[n] \in Nodes => node[Before[n]] = "completed"

(* CheckPlanExecutionReady.                                                *)
TaskMayStillRun(t) == task[t] \notin TaskTerminal \* mutant: until it is over

TaskMayRun(t) == task[t] \in {"queued", "running", "joining"}

Ready(t) ==
  /\ plan = "active" /\ ~barred
  /\ node[NodeOf[t]] \in {"pending", "ready", "running"}
  /\ TaskMayRun(t)
  /\ DependencyMet(NodeOf[t])

(* A node completes only over tasks whose executions succeeded.            *)
Verified(n, ts, ex) ==
  \A t \in Tasks : NodeOf[t] = n /\ ts[t] # "absent"
                     => ts[t] = "succeeded" /\ ex[t].status = "succeeded"

(* The plan after a node was set, by the counts of its nodes.              *)
Aggregate(nd) ==
  IF plan \in {"completed", "failed", "cancelled"} THEN plan
  ELSE IF \E n \in Nodes : nd[n] = "failed" THEN "failed"
  ELSE IF plan = "active" /\ \A n \in Nodes : nd[n] = "completed" THEN "completed"
  ELSE IF \A n \in Nodes : nd[n] \in {"completed", "cancelled"} THEN "cancelled"
  ELSE plan

(* What the tasks of its node make of the node when t settles.             *)
NodeTarget(t, ts) ==
  LET mates == {ts[u] : u \in {u \in Tasks : NodeOf[u] = NodeOf[t]}} \ {"absent"}
  IN  IF ~(mates \subseteq TaskTerminal) THEN node[NodeOf[t]]
      ELSE IF "failed" \in mates THEN "failed"
      ELSE IF "cancelled" \in mates THEN "cancelled"
      ELSE "completed"

MayBecome(n, to, ts, ex) ==
  \/ node[n] = to
  \/ NodeMove(node[n], to) /\ (to = "completed" => Verified(n, ts, ex))

SetNode(n, to) ==
  /\ node' = [node EXCEPT ![n] = to]
  /\ plan' = IF to \in {"completed", "failed", "cancelled"} \ {node[n]} THEN Aggregate(node')
             ELSE plan

-----------------------------------------------------------------------------
(* Finishing.                                                              *)

TaskOf(s) == IF s \in {"interrupted", "outcome_unknown"} THEN "failed" ELSE s

RunAsIs(s) == s \* mutant: the words of an execution in its run

RunFor(s) == IF s = "succeeded" THEN "completed" ELSE s

ExecFor(r) == IF r = "completed" THEN "succeeded" ELSE r

Open(es) == \E c \in Calls : es[c] \in {"prepared", "outcome_unknown"}

(* The status asked for, once the receipts and a cancellation had a say.   *)
Judged(t, asked) ==
  IF Open(EffectsOf(t)) THEN "outcome_unknown"
  ELSE IF asked = "succeeded" /\ exec[t].status = "cancel_requested" THEN "cancelled"
  ELSE asked

(* A run that is already terminal decides instead.                         *)
OutcomeOwn(t, asked) == Judged(t, asked) \* mutant: the run is not looked at

Outcome(t, asked) ==
  IF RunOf(t) \in RunTerminal THEN ExecFor(RunOf(t)) ELSE Judged(t, asked)

Claimed(t, receipts) == \* mutant: any receipt will do
  receipts # {} /\ \A c \in receipts : EffectsOf(t)[c] # "none"

Proven(t, receipts) ==
  receipts # {} /\ \A c \in receipts : EffectsOf(t)[c] = "committed"

TaskAfter(t, s) == [task EXCEPT ![t] = TaskOf(s)]

ExecAfter(t, s) ==
  [exec EXCEPT ![t] = [status |-> s, run |-> @.run, version |-> @.version + 1]]

(* FinishPlanExecution succeeds.                                           *)
FinishAllowed(t, k, asked, receipts) ==
  /\ exec[t].run = k
  /\ Active(t) =>
       LET s == Outcome(t, asked) IN
         /\ Judged(t, asked) = "succeeded" => Ready(t) /\ Proven(t, receipts)
         /\ s = "succeeded" => asked = "succeeded"
         /\ MayBecome(NodeOf[t], NodeTarget(t, TaskAfter(t, s)), TaskAfter(t, s), ExecAfter(t, s))

CloseCalls(es) == [c \in Calls |-> IF es[c] = "prepared" THEN "outcome_unknown" ELSE es[c]]

Finish(t, asked) ==
  IF Active(t)
  THEN LET s == Outcome(t, asked) IN
         /\ exec' = ExecAfter(t, s)
         /\ task' = TaskAfter(t, s)
         /\ SetNode(NodeOf[t], NodeTarget(t, TaskAfter(t, s)))
         /\ run' = [run EXCEPT ![t][exec[t].run] = IF @ \in RunTerminal THEN @ ELSE RunFor(s)]
         /\ effect' = [effect EXCEPT ![t][exec[t].run] = CloseCalls(@)]
         /\ declared' = [declared EXCEPT ![t][exec[t].run] = {}]
  ELSE UNCHANGED <<planning, task, exec, ledger>>

-----------------------------------------------------------------------------
(* Tasks.                                                                  *)

Serving == engine = "ready"

(* plan.todo.create and plan.run.spawn.                                    *)
Create(t) ==
  /\ Serving /\ task[t] = "absent"
  /\ ParentOf[t] # NoTask =>
       task[ParentOf[t]] \notin TaskTerminal \cup {"absent", "cancel_requested"}
  /\ Cardinality({u \in Tasks : task[u] \notin TaskTerminal \cup {"absent"}}) < MaxConcurrency
  /\ task' = [task EXCEPT ![t] = "queued"]
  /\ UNCHANGED <<planning, barred, exec, ledger, engine, recover, worker, requests,
                 history, counters>>

(* Versions a user names: none to start; the current one or, for all the   *)
(* older ones, the one before it to retry.                                 *)
Seen(t) == {0} \cup {v \in {exec[t].version - 1, exec[t].version} : v > 0}

(* plan.run.start and plan.run.retry: the entry in the worker table.       *)
Launch(t, v, ack) ==
  /\ Serving /\ Exists(t) /\ ~Busy(t)
  /\ v = 0 => exec[t].status = "none" /\ ~ack
  /\ Cardinality({u \in Tasks : Busy(u)}) < MaxWorkers
  /\ worker' = [worker EXCEPT ![t] = [Idle EXCEPT !.pc = "claim", !.expected = v, !.ack = ack]]
  /\ UNCHANGED <<planning, barred, task, exec, ledger, engine, recover, requests,
                 history, counters>>

(* ReopenPlanExecution, then the readiness of the reopened task.           *)
MayReopen(t) ==
  /\ plan \notin {"paused", "completed"} /\ ~barred
  /\ node[NodeOf[t]] \in {"failed", "cancelled", "running"}
  /\ DependencyMet(NodeOf[t])

MayRetry(t, v, ack) ==
  /\ exec[t].version = v
  /\ Settled(t) /\ exec[t].status # "succeeded"
  /\ exec[t].status = "outcome_unknown" => ack
  /\ MayReopen(t)

MayClaim(t) ==
  IF worker[t].expected = 0
  THEN exec[t].status = "none" /\ Ready(t)
  ELSE MayRetry(t, worker[t].expected, worker[t].ack)

(* claimPlanExecution.                                                     *)
Claim(t) ==
  LET k == exec[t].run + 1 IN
  /\ worker[t].pc = "claim" /\ MayClaim(t) /\ Cardinality(Claims) < MaxRuns
  /\ exec' = [exec EXCEPT ![t] = [status |-> "running", run |-> k, version |-> @.version + 1]]
  /\ run' = [run EXCEPT ![t][k] = "running"]
  /\ task' = [task EXCEPT ![t] = "running"]
  /\ node' = [node EXCEPT ![NodeOf[t]] = "running"]
  /\ plan' = "active"
  /\ worker' = [worker EXCEPT ![t] = [Idle EXCEPT !.pc = "turn", !.run = k, !.ctx = worker[t].ctx]]
  /\ UNCHANGED <<barred, effect, declared, engine, recover, requests, history, counters>>

Left(t) == worker' = [worker EXCEPT ![t] = [Idle EXCEPT !.pc = "exit"]]

Refused(t) ==
  /\ worker[t].pc = "claim" /\ ~MayClaim(t)
  /\ Left(t)
  /\ UNCHANGED <<planning, barred, task, exec, ledger, engine, recover, requests,
                 history, counters>>

-----------------------------------------------------------------------------
(* The worker.                                                             *)

(* runningPlan, and the fence against a later run.                         *)
RunningPlan(t) ==
  /\ exec[t].status = "running" /\ exec[t].run = worker[t].run
  /\ Ready(t)
  /\ RunOf(t) = "running"

(* PreparePlanTool: the call and its effect, before the tool is called.    *)
Prepare(t) ==
  LET c == worker[t].call + 1 IN
  /\ worker[t].pc = "turn" /\ Live(t) /\ RunningPlan(t) /\ c \in Calls
  /\ effect' = [effect EXCEPT ![t][worker[t].run][c] = "prepared"]
  /\ worker' = [worker EXCEPT ![t].pc = "prepared", ![t].call = c]
  /\ UNCHANGED <<planning, barred, task, exec, run, declared, engine, recover, requests,
                 history, counters>>

(* The tool is called unless the context is already over.                  *)
Dispatch(t) ==
  /\ worker[t].pc = "prepared" /\ Live(t)
  /\ acted' = acted \cup {<<t, worker[t].run, worker[t].call>>}
  /\ worker' = [worker EXCEPT ![t].pc = "executing"]
  /\ UNCHANGED <<planning, barred, task, exec, ledger, engine, recover, requests, revoked,
                 counters>>

(* What a worker that stops reports, by its context; a context that was    *)
(* over before the work began counts as cancelled.                         *)
Reports(t) ==
  CASE worker[t].ctx = "live" -> {"failed"}
    [] worker[t].ctx = "cancelled" -> {"cancelled", "failed"}
    [] worker[t].ctx = "expired" ->
         {"interrupted", "failed"} \cup (IF worker[t].call = 0 THEN {"cancelled"} ELSE {})

GivesUp(t) ==
  \E s \in Reports(t) :
    worker' = [worker EXCEPT ![t] = [Idle EXCEPT !.pc = "fail", !.run = worker[t].run,
                                                !.status = s]]

(* The tool call itself is still running.                                  *)
Running(es, rc, c) == es[c] = "prepared" \/ c \in rc

(* ReceiptPlanTool asks the call and then the machine of its effect, which *)
(* takes one that was declared unknown meanwhile, but never back to that.  *)
ReceiptAllowed(t, s) ==
  LET k == worker[t].run
      c == worker[t].call
  IN  /\ exec[t].run = k
      /\ Running(effect[t][k], declared[t][k], c)
      /\ EffectResolve(effect[t][k][c], s)

Returned(t) == worker[t].pc = "executing" \/ (worker[t].pc = "prepared" /\ ~Live(t))

(* Receipts a call may get: a call that was not made failed; one that lost *)
(* its context is unknown if its tool writes; else the tool tells.         *)
ReceiptBlind(t) == {"committed", "failed"} \* mutant: only the error of the tool tells

ReceiptStatus(t) ==
  IF worker[t].pc = "prepared" THEN {"failed"}
  ELSE {"committed", "failed"} \cup (IF Live(t) THEN {} ELSE {"outcome_unknown"})

(* The tool returns and ReceiptPlanTool settles its call, in a context of  *)
(* its own.                                                                *)
Receipt(t) ==
  /\ Returned(t)
  /\ \E s \in ReceiptStatus(t) :
       IF ReceiptAllowed(t, s)
       THEN /\ effect' = [effect EXCEPT ![t][worker[t].run][worker[t].call] = s]
            /\ declared' = [declared EXCEPT ![t][worker[t].run] = @ \ {worker[t].call}]
            /\ IF Live(t) THEN worker' = [worker EXCEPT ![t].pc = "turn"] ELSE GivesUp(t)
       ELSE GivesUp(t) /\ UNCHANGED <<effect, declared>>
  /\ UNCHANGED <<planning, barred, task, exec, run, engine, recover, requests, history,
                 counters>>

(* A refused charge, a model error, no verified completion, a panic.       *)
GiveUp(t) ==
  /\ worker[t].pc = "turn"
  /\ GivesUp(t)
  /\ UNCHANGED <<planning, barred, task, exec, ledger, engine, recover, requests, history,
                 counters>>

(* plan.finish: the artifacts were read back, the model names the receipts.*)
FinishWork(t) ==
  \E receipts \in SUBSET Calls \ {{}} :
    /\ worker[t].pc = "turn" /\ Live(t)
    /\ IF FinishAllowed(t, worker[t].run, "succeeded", receipts)
       THEN Finish(t, "succeeded") /\ Left(t)
       ELSE GivesUp(t) /\ UNCHANGED <<planning, task, exec, ledger>>
    /\ UNCHANGED <<barred, engine, recover, requests, history, counters>>

(* failPlanExecution: a refusal is only logged.                            *)
FailWork(t) ==
  /\ worker[t].pc = "fail"
  /\ IF FinishAllowed(t, worker[t].run, worker[t].status, {})
     THEN Finish(t, worker[t].status)
     ELSE UNCHANGED <<planning, task, exec, ledger>>
  /\ Left(t)
  /\ UNCHANGED <<barred, engine, recover, requests, history, counters>>

(* finishPlanWorker.                                                       *)
Exit(t) ==
  /\ worker[t].pc = "exit"
  /\ worker' = [worker EXCEPT ![t] = Idle]
  /\ UNCHANGED <<planning, barred, task, exec, ledger, engine, recover, requests, history,
                 counters>>

(* The store refuses the transaction a worker is in: the claim is not      *)
(* made, a receipt or a result is lost, a settlement is abandoned.         *)
StoreRefuses(t) ==
  /\ CanMove
  /\ \/ worker[t].pc \in {"claim", "fail"} /\ Left(t)
     \/ Returned(t) /\ GivesUp(t)
  /\ faults' = faults + 1
  /\ UNCHANGED <<planning, barred, task, exec, ledger, engine, recover, requests, history,
                 moves, starts>>

(* Settlement is past the context of the work.                             *)
Heeds(w) == w.pc \notin {"none", "fail", "exit"}

(* The wall clock of the run is over.                                      *)
Expire(t) ==
  /\ Heeds(worker[t]) /\ Live(t)
  /\ worker' = [worker EXCEPT ![t].ctx = "expired"]
  /\ UNCHANGED <<planning, barred, task, exec, ledger, engine, recover, requests, history,
                 counters>>

-----------------------------------------------------------------------------
(* Cancelling and joining.                                                 *)

Cancelled(w) == IF w.ctx = "live" /\ Heeds(w) THEN [w EXCEPT !.ctx = "cancelled"] ELSE w

(* plan.run.cancel, its worker contexts first.                             *)
CancelWorkers(t) ==
  /\ Serving /\ cancel = NoCancel /\ Exists(t) /\ CanMove
  /\ cancel' = [root |-> t, left |-> Subtree(t)]
  /\ worker' = [u \in Tasks |-> IF u \in Subtree(t) THEN Cancelled(worker[u]) ELSE worker[u]]
  /\ moves' = moves + 1
  /\ UNCHANGED <<planning, barred, task, exec, ledger, engine, recover, joins, history,
                 faults, starts>>

(* CancelPlanExecution of one task of the tree.                            *)
CancelExecution(t) ==
  /\ Serving /\ t \in cancel.left
  /\ cancel' = [cancel EXCEPT !.left = @ \ {t}]
  /\ IF exec[t].status = "running"
     THEN /\ exec' = ExecAfter(t, "cancel_requested")
          /\ task' = [task EXCEPT ![t] = "cancel_requested"]
     ELSE UNCHANGED <<exec, task>>
  /\ UNCHANGED <<planning, barred, ledger, engine, recover, worker, joins, history, counters>>

CancelledTask(s) ==
  CASE s = "queued" -> "cancelled"
    [] s \in {"running", "joining", "cancel_requested"} -> "cancel_requested"
    [] OTHER -> s

(* Coordinator.CancelRun over the tree, the last step of the handler.      *)
CancelTree ==
  LET tree == Subtree(cancel.root) IN
  /\ Serving /\ cancel # NoCancel /\ cancel.left = {}
  /\ task' = [t \in Tasks |-> IF t \in tree THEN CancelledTask(task[t]) ELSE task[t]]
  /\ revoked' = revoked \cup {<<t, exec[t].run>> : t \in {t \in tree : Active(t)}}
  /\ cancel' = NoCancel
  /\ UNCHANGED <<planning, barred, exec, ledger, engine, recover, worker, joins, acted,
                 counters>>

(* plan.run.join checks for an execution, then joins in a transaction of   *)
(* its own.                                                                *)
JoinAsked(t) ==
  /\ Serving /\ Exists(t) /\ exec[t].status = "none" /\ t \notin joins /\ CanMove
  /\ joins' = joins \cup {t}
  /\ moves' = moves + 1
  /\ UNCHANGED <<planning, barred, task, exec, ledger, engine, recover, worker, cancel,
                 history, faults, starts>>

(* What the children make of their parent.                                 *)
Joined(t, all) ==
  LET kids == {task[u] : u \in Children(t)}
      over == kids \subseteq TaskTerminal
  IN  IF all
      THEN IF ~over THEN "joining" ELSE IF kids = {"succeeded"} THEN "succeeded" ELSE "failed"
      ELSE IF "succeeded" \in kids THEN "succeeded" ELSE IF over THEN "failed" ELSE "joining"

JoinChildren(t) ==
  \E all \in BOOLEAN :
    /\ Serving /\ t \in joins
    /\ joins' = joins \ {t}
    /\ task' = IF task[t] \in {"running", "joining"} /\ Children(t) # {}
               THEN [task EXCEPT ![t] = Joined(t, all)]
               ELSE task
    /\ UNCHANGED <<planning, barred, exec, ledger, engine, recover, worker, cancel, history,
                   counters>>

-----------------------------------------------------------------------------
(* What users do around an execution.                                      *)

Move == Serving /\ CanMove /\ moves' = moves + 1

PausePlan ==
  /\ Move /\ plan = "active"
  /\ plan' = "paused"
  /\ UNCHANGED <<barred, node, task, exec, ledger, engine, recover, worker, requests,
                 history, faults, starts>>

ResumePlan ==
  /\ Serving /\ plan \in {"paused", "failed"}
  /\ plan' = "active"
  /\ UNCHANGED <<barred, node, task, exec, ledger, engine, recover, worker, requests,
                 history, counters>>

(* A node is also started and completed by hand; one with tasks completes  *)
(* only as they allow.                                                     *)
StartNode(n) ==
  /\ Serving /\ node[n] \in {"pending", "ready"} /\ plan = "active" /\ DependencyMet(n)
  /\ SetNode(n, "running")
  /\ UNCHANGED <<barred, task, exec, ledger, engine, recover, worker, requests, history,
                 counters>>

CompleteNode(n) ==
  /\ Serving /\ node[n] = "running" /\ MayBecome(n, "completed", task, exec)
  /\ SetNode(n, "completed")
  /\ UNCHANGED <<barred, task, exec, ledger, engine, recover, worker, requests, history,
                 counters>>

FailNode(n) ==
  /\ Move /\ node[n] = "running"
  /\ SetNode(n, "failed")
  /\ UNCHANGED <<barred, task, exec, ledger, engine, recover, worker, requests, history,
                 faults, starts>>

(* The project is suspended or closed, or a review expires; and back.      *)
Bar ==
  /\ Move
  /\ barred' = ~barred
  /\ UNCHANGED <<planning, task, exec, ledger, engine, recover, worker, requests, history,
                 faults, starts>>

(* agent.run.cancel of the run behind a task.                              *)
CancelRun(t) ==
  /\ Move /\ exec[t].run # 0 /\ RunOf(t) = "running"
  /\ run' = [run EXCEPT ![t][exec[t].run] = "cancelled"]
  /\ UNCHANGED <<planning, barred, task, exec, effect, declared, engine, recover, worker,
                 requests, history, faults, starts>>

(* agent.run.reconcile of a run: its prepared effects become unknown,      *)
(* whether or not their calls still run; run, calls and execution keep     *)
(* their rows.  Without a prepared effect it changes nothing.              *)
ReconcileRun(t) ==
  \E k \in Runs :
    /\ Move /\ \E c \in Calls : effect[t][k][c] = "prepared"
    /\ effect' = [effect EXCEPT ![t][k] = CloseCalls(@)]
    /\ declared' = [declared EXCEPT ![t][k] =
                        @ \cup {c \in Calls : effect[t][k][c] = "prepared"}]
    /\ UNCHANGED <<planning, barred, task, exec, run, engine, recover, worker, requests,
                   history, faults, starts>>

(* RunRecoveryScanner: a running call is unknown and so is its run, every  *)
(* other active run is interrupted.                                        *)
ScannedRun(r, es, rc) ==
  IF r \notin RunActive THEN r
  ELSE IF \E c \in Calls : Running(es, rc, c) THEN "outcome_unknown"
  ELSE "interrupted"

Scan ==
  /\ run' = [t \in Tasks |-> [k \in Runs |->
               ScannedRun(run[t][k], effect[t][k], declared[t][k])]]
  /\ effect' = [t \in Tasks |-> [k \in Runs |-> CloseCalls(effect[t][k])]]
  /\ declared' = [t \in Tasks |-> [k \in Runs |-> {}]]

(* Opening the diagnostics scans a process that is working.                *)
Diagnose ==
  /\ Move /\ Scan
  /\ UNCHANGED <<planning, barred, task, exec, engine, recover, worker, requests, history,
                 faults, starts>>

-----------------------------------------------------------------------------
(* Stop, crash and start-up.                                               *)

(* StopPlanExecutions: no new worker, every context cancelled, wait.       *)
Stop ==
  /\ Serving /\ starts < MaxStarts
  /\ engine' = "closing"
  /\ worker' = [t \in Tasks |-> Cancelled(worker[t])]
  /\ UNCHANGED <<planning, barred, task, exec, ledger, recover, requests, history, counters>>

Down ==
  /\ engine' = "off"
  /\ worker' = [t \in Tasks |-> Idle]
  /\ cancel' = NoCancel
  /\ joins' = {}
  /\ recover' = {}
  /\ UNCHANGED <<planning, barred, task, exec, ledger, history, counters>>

Stopped == engine = "closing" /\ (\A t \in Tasks : ~Busy(t)) /\ Down

Crash == engine \notin {"off", "refused"} /\ starts < MaxStarts /\ Down

(* Coordinator.ReconcileRestart.                                           *)
Reconciled(s) ==
  CASE s \in {"running", "joining"} -> "queued"
    [] s = "cancel_requested" -> "cancelled"
    [] OTHER -> s

Reconcile ==
  /\ engine \in {"off", "refused"} /\ starts < MaxStarts
  /\ starts' = starts + 1
  /\ task' = [t \in Tasks |-> Reconciled(task[t])]
  /\ engine' = "scan"
  /\ UNCHANGED <<planning, barred, exec, ledger, recover, worker, requests, history, moves,
                 faults>>

ListRunning == {t \in Tasks : exec[t].status = "running"} \* mutant: not those to cancel

(* ListPlanExecutions: the executions to close are listed once.            *)
ListPlanExecutions == {t \in Tasks : Active(t)}

RecoverRuns ==
  /\ engine = "scan"
  /\ Scan
  /\ recover' = ListPlanExecutions
  /\ engine' = "plans"
  /\ UNCHANGED <<planning, barred, task, exec, worker, requests, history, counters>>

(* RecoverPlanExecutions closes one; an error refuses the start.           *)
RecoverExecution(t) ==
  LET s == IF exec[t].status = "cancel_requested" THEN "cancelled" ELSE "interrupted" IN
  /\ engine = "plans" /\ t \in recover
  /\ IF FinishAllowed(t, exec[t].run, s, {})
     THEN Finish(t, s) /\ recover' = recover \ {t} /\ UNCHANGED engine
     ELSE engine' = "refused" /\ recover' = {} /\ UNCHANGED <<planning, task, exec, ledger>>
  /\ UNCHANGED <<barred, worker, requests, history, counters>>

Serve ==
  /\ engine = "plans" /\ recover = {}
  /\ engine' = "ready"
  /\ UNCHANGED <<planning, barred, task, exec, ledger, recover, worker, requests, history,
                 counters>>

-----------------------------------------------------------------------------

Working(t) ==
  \/ Claim(t) \/ Refused(t) \/ Prepare(t) \/ Dispatch(t) \/ Receipt(t)
  \/ GiveUp(t) \/ FinishWork(t) \/ FailWork(t) \/ Exit(t)

StartUp == Reconcile \/ RecoverRuns \/ (\E t \in Tasks : RecoverExecution(t)) \/ Serve

Next ==
  \/ \E t \in Tasks :
       \/ Create(t)
       \/ \E v \in Seen(t), ack \in BOOLEAN : Launch(t, v, ack)
       \/ Working(t) \/ StoreRefuses(t) \/ Expire(t)
       \/ CancelWorkers(t) \/ CancelExecution(t) \/ JoinAsked(t) \/ JoinChildren(t)
       \/ CancelRun(t) \/ ReconcileRun(t)
  \/ CancelTree
  \/ PausePlan \/ ResumePlan \/ Bar \/ Diagnose
  \/ \E n \in Nodes : StartNode(n) \/ CompleteNode(n) \/ FailNode(n)
  \/ Stop \/ Stopped \/ Crash \/ StartUp

Spec == Init /\ [][Next]_vars

(* A context ends by the wall clock at the latest, and every call a worker *)
(* or a handler makes returns; users and crashes are free not to act.      *)
Fairness ==
  /\ \A t \in Tasks : WF_vars(Working(t)) /\ WF_vars(CancelExecution(t))
  /\ WF_vars(CancelTree) /\ WF_vars(Stopped) /\ WF_vars(StartUp)

FairSpec == Spec /\ Fairness

-----------------------------------------------------------------------------
(* Properties.                                                             *)

(* Whatever ended an execution - its worker, a cancellation, a restart, a  *)
(* run cancelled or swept behind its back - its run and its task tell the  *)
(* same end as it does, and nothing changes them until a retry.            *)
SettledTogether ==
  \A t \in Tasks : Settled(t) =>
    /\ RunOf(t) \in RunTerminal /\ ExecFor(RunOf(t)) = exec[t].status
    /\ task[t] = TaskOf(exec[t].status)

(* Success stands on a receipt of its own run, and on no call of that run  *)
(* whose outcome is open (FinishPlanExecution).                            *)
SuccessIsProven ==
  \A t \in Tasks : exec[t].status = "succeeded" =>
    /\ \E c \in Calls : EffectsOf(t)[c] = "committed"
    /\ ~Open(EffectsOf(t))

(* A task whose cancellation the user saw accepted never ends succeeded in *)
(* the same run, even when its execution began between the two steps of    *)
(* the handler and was told nothing.                                       *)
CancelledNeverSucceeds ==
  \A t \in Tasks : exec[t].status = "succeeded" => <<t, exec[t].run>> \notin revoked

(* The node of a task was opened again, by the retry of another task.      *)
Reopened(t) == \E u \in Tasks \ {t} : NodeOf[u] = NodeOf[t] /\ exec[u].run > 1

(* An execution no worker attends is there only because the store refused  *)
(* a settlement, or its node was failed or cancelled under it and perhaps  *)
(* reopened since by the retry of another task: no other interleaving of   *)
(* workers, cancellations, pauses and restarts leaves one behind.          *)
OrphansExplained ==
  \A t \in Tasks : Serving /\ Active(t) /\ ~Busy(t) =>
    faults > 0 \/ node[NodeOf[t]] \in {"failed", "cancelled"} \/ Reopened(t)

(* When start-up is over nothing of an earlier process is in flight.       *)
RecoveryLeavesNothing ==
  engine = "plans" /\ recover = {} =>
    \A t \in Tasks :
      /\ ~Active(t)
      /\ \A k \in Runs : /\ run[t][k] \notin RunActive
                         /\ \A c \in Calls : effect[t][k][c] # "prepared"

(* A node completes only when every task of it has a completed run with a  *)
(* receipt: neither a join that wrote over a task nor a run cancelled      *)
(* behind its task lets it through.                                        *)
CompletedIsProven ==
  [][\A n \in Nodes : node[n] # "completed" /\ node'[n] = "completed" =>
       \A t \in Tasks : NodeOf[t] = n /\ Exists(t) =>
         /\ run'[t][exec'[t].run] = "completed"
         /\ \E c \in Calls : effect'[t][exec'[t].run][c] = "committed"]_vars

(* A retry over an operation whose outcome is unknown was acknowledged.    *)
RetryAcknowledged ==
  [][\A t \in Tasks : exec[t].run # 0 /\ exec'[t].run # exec[t].run =>
       ~Open(EffectsOf(t)) \/ worker[t].ack]_vars

(* An execution ends, by its own worker, a cancellation or the recovery of *)
(* a later process, unless a settlement was lost or its node was failed,   *)
(* and reopened for another task.                                          *)
ExecutionSettles ==
  \A t \in Tasks :
    Active(t) ~> \/ ~Active(t) \/ faults > 0
                 \/ node[NodeOf[t]] \in {"failed", "cancelled"} \/ Reopened(t)

(* Every tool call follows the write-ahead protocol of the effect journal. *)
Journal ==
  INSTANCE WriteAheadEffect WITH
    Effects <- Tasks \X Runs \X Calls,
    journal <- [e \in Tasks \X Runs \X Calls |-> effect[e[1]][e[2]][e[3]]]

ImplementsJournal == Journal!Spec
=============================================================================

------------------------- MODULE PlanExecutionProofs -------------------------
(***************************************************************************)
(* Proofs about PlanExecution, for any finite set of tasks, any nodes,     *)
(* dependencies and parents, and any bounds on runs, calls, moves and      *)
(* starts.                                                                 *)
(***************************************************************************)
EXTENDS PlanExecution, FiniteSetTheorems, TLAPS

-----------------------------------------------------------------------------
(* The invariant                                                           *)

(* Runs are opened one after another, a run that is not open has no trace. *)
RunsInOrder ==
  \A t \in Tasks :
    /\ exec[t].status = "none" <=> exec[t].run = 0
    /\ \A k \in Runs : k > exec[t].run =>
         /\ run[t][k] = "none" /\ <<t, k>> \notin revoked
         /\ \A c \in Calls : effect[t][k][c] = "none"

(* An execution under way has a task, a node that was started, and a run   *)
(* that did not succeed behind its back.                                   *)
ActiveIsOpen ==
  \A t \in Tasks : Active(t) =>
    /\ task[t] # "absent"
    /\ node[NodeOf[t]] \in {"running", "failed", "cancelled"}
    /\ RunOf(t) \in RunStatus \ {"completed"}

(* The task of an execution that was cancelled does not run again.         *)
RevokedStops ==
  \A t \in Tasks : Active(t) /\ <<t, exec[t].run>> \in revoked => ~TaskMayRun(t)

Attended(w) == w.pc \in {"turn", "prepared", "executing", "fail"}

(* What a worker has in its hands.                                         *)
WorkerKnows ==
  \A t \in Tasks :
    LET w == worker[t] IN
    /\ Attended(w) => Active(t) /\ w.run = exec[t].run
    /\ w.pc \in {"turn", "prepared", "executing"} =>
         \A c \in Calls : c > w.call => effect[t][w.run][c] = "none"
    /\ w.pc \in {"prepared", "executing"} =>
         /\ w.call \in Calls
         /\ effect[t][w.run][w.call] \in {"prepared", "outcome_unknown"}
    /\ w.pc = "executing" => <<t, w.run, w.call>> \in acted
    /\ w.pc = "fail" => w.status \in {"failed", "cancelled", "interrupted"}

(* Nobody works while the process is down or starts.                       *)
StartsAlone ==
  engine \notin {"ready", "closing"} =>
    /\ \A t \in Tasks : worker[t].pc = "none"
    /\ cancel = NoCancel /\ joins = {}

(* Start-up has swept the runs, and what is left to close is listed.       *)
RecoveryKnows ==
  engine = "plans" =>
    \A t \in Tasks :
      /\ Active(t) => t \in recover
      /\ \A k \in Runs : /\ run[t][k] \notin RunActive
                         /\ \A c \in Calls : effect[t][k][c] # "prepared"

(* Why an execution has no worker that will settle it.                     *)
Unattended ==
  \A t \in Tasks : Serving /\ Active(t) /\ ~Attended(worker[t]) =>
    faults > 0 \/ node[NodeOf[t]] \in {"failed", "cancelled"} \/ Reopened(t)

IInv ==
  /\ TypeOK
  /\ RunsInOrder /\ ActiveIsOpen
  /\ SettledTogether /\ SuccessIsProven
  /\ RevokedStops /\ CancelledNeverSucceeds
  /\ WorkerKnows /\ StartsAlone /\ RecoveryKnows /\ Unattended

-----------------------------------------------------------------------------
(* Operators of the model                                                  *)

(* What the proofs use of the constants: runs and calls are numbered. *)
LEMMA Constants ==
  /\ Runs \subseteq Nat /\ Calls \subseteq Nat /\ MaxRuns \in Nat /\ MaxCalls \in Nat
  /\ \A t \in Tasks: NodeOf[t] \in Nodes
  /\ NoTask \notin Tasks
BY PlanAssumption DEF Runs, Calls

(* There is a run left for every claim the bound admits: a task has claimed *)
(* as many runs as the number of its last one.                             *)
LEMMA RunLeft ==
  ASSUME TypeOK, NEW t \in Tasks, Cardinality(Claims) < MaxRuns
  PROVE  exec[t].run + 1 \in Runs
<1> DEFINE mine == {t} \X (1 .. exec[t].run)
<1>1. exec[t].run \in 0 .. MaxRuns
  BY DEF TypeOK, Execution
<1>2. IsFiniteSet(Runs) /\ IsFiniteSet(1 .. exec[t].run) /\ Cardinality(1 .. exec[t].run) = exec[t].run
  <2>1. PICK k \in Nat: k = exec[t].run
    BY <1>1, Constants
  <2>2. \A b \in Int: IsFiniteSet(1 .. b) /\ Cardinality(1 .. b) = IF 1 > b THEN 0 ELSE b - 1 + 1
    BY FS_Interval
  <2>3. IsFiniteSet(1 .. k) /\ Cardinality(1 .. k) = k
    BY <2>2
  <2>4. IsFiniteSet(1 .. MaxRuns)
    BY <2>2, Constants
  <2> QED
    BY <2>1, <2>3, <2>4 DEF Runs
<1>3. IsFiniteSet(Claims)
  <2>1. IsFiniteSet(Tasks \X Runs)
    BY <1>2, PlanAssumption, FS_Product
  <2>2. Claims \subseteq Tasks \X Runs
    BY DEF Claims
  <2> QED
    BY <2>1, <2>2, FS_Subset
<1>4. Cardinality(mine) = exec[t].run
  <2>1. IsFiniteSet({t}) /\ Cardinality({t}) = 1
    BY FS_Singleton
  <2>2. Cardinality(mine) = 1 * Cardinality(1 .. exec[t].run)
    BY <1>2, <2>1, FS_Product
  <2> QED
    BY <1>1, <1>2, <2>2
<1>5. mine \subseteq Claims
  BY <1>1, Constants DEF Claims, Runs
<1>6. Cardinality(mine) <= Cardinality(Claims) /\ Cardinality(Claims) \in Nat
  BY <1>3, <1>5, FS_Subset, FS_CardinalityType
<1> QED
  BY <1>1, <1>4, <1>6, Constants DEF Runs

(* Moving a node touches no other one; the plan follows.                   *)
LEMMA SetNodeEffect ==
  ASSUME TypeOK, NEW n \in Nodes, NEW to \in NodeStatus, SetNode(n, to)
  PROVE  /\ node' \in [Nodes -> NodeStatus] /\ plan' \in PlanStatus
         /\ node'[n] = to
         /\ \A m \in Nodes: m # n => node'[m] = node[m]
<1>1. node' = [node EXCEPT ![n] = to] /\ plan' \in {plan, Aggregate(node')}
  BY DEF SetNode
<1>2. Aggregate(node') \in PlanStatus
  BY DEF Aggregate, TypeOK, PlanStatus
<1> QED
  BY <1>1, <1>2 DEF TypeOK

(* What the tasks of a node make of it; while one of them did not succeed, *)
(* they do not complete it.                                                *)
LEMMA NodeTargetEffect ==
  ASSUME TypeOK, NEW t \in Tasks, NEW ts
  PROVE  /\ NodeTarget(t, ts) \in NodeStatus
         /\ NodeTarget(t, ts) \in {node[NodeOf[t]], "failed", "cancelled", "completed"}
         /\ ts[t] \in {"failed", "cancelled"} =>
              NodeTarget(t, ts) \in {node[NodeOf[t]], "failed", "cancelled"}
<1> DEFINE mates == {ts[u] : u \in {u \in Tasks : NodeOf[u] = NodeOf[t]}} \ {"absent"}
<1>1. ts[t] \in {"failed", "cancelled"} => ts[t] \in mates
  OBVIOUS
<1>2. NodeTarget(t, ts) =
        IF ~(mates \subseteq TaskTerminal) THEN node[NodeOf[t]]
        ELSE IF "failed" \in mates THEN "failed"
        ELSE IF "cancelled" \in mates THEN "cancelled"
        ELSE "completed"
  BY DEF NodeTarget
<1>3. node[NodeOf[t]] \in NodeStatus
  BY Constants DEF TypeOK
<1> HIDE DEF mates
<1> QED
  BY <1>1, <1>2, <1>3 DEF NodeStatus

(* The status an execution ends with.                                      *)
LEMMA OutcomeKnown ==
  ASSUME NEW t \in Tasks, NEW asked \in ExecTerminal
  PROVE  /\ Judged(t, asked) \in ExecTerminal
         /\ Outcome(t, asked) \in ExecTerminal
         /\ RunOf(t) \in RunTerminal => ExecFor(RunOf(t)) = Outcome(t, asked)
         /\ RunFor(Outcome(t, asked)) \in RunTerminal
         /\ ExecFor(RunFor(Outcome(t, asked))) = Outcome(t, asked)
<1>1. Judged(t, asked) \in ExecTerminal
  BY DEF Judged, ExecTerminal
<1>2. Outcome(t, asked) \in ExecTerminal
  BY <1>1 DEF Outcome, ExecFor, RunTerminal, ExecTerminal
<1> QED
  BY <1>1, <1>2 DEF Outcome, RunFor, ExecFor, RunTerminal, ExecTerminal

(* The calls of a run that is closed.                                      *)
LEMMA CloseCallsEffect ==
  ASSUME NEW es \in [Calls -> {"none"} \cup EffectStatus]
  PROVE  /\ CloseCalls(es) \in [Calls -> {"none"} \cup EffectStatus]
         /\ \A c \in Calls: \/ CloseCalls(es)[c] = es[c] /\ es[c] # "prepared"
                            \/ es[c] = "prepared" /\ CloseCalls(es)[c] = "outcome_unknown"
BY DEF CloseCalls, EffectStatus

(* What one settlement does, to the task and its execution, its run, the   *)
(* calls of that run, and the node.                                        *)
LEMMA FinishEffect ==
  ASSUME TypeOK, NEW t \in Tasks, NEW asked \in ExecTerminal, Active(t), Finish(t, asked)
  PROVE  LET s == Outcome(t, asked)
             k == exec[t].run
             n == NodeOf[t]
         IN  /\ exec' \in [Tasks -> Execution]
             /\ exec'[t].status = s /\ exec'[t].run = k
             /\ \A u \in Tasks: u # t => exec'[u] = exec[u]
             /\ task' \in [Tasks -> TaskStatus]
             /\ task'[t] = TaskOf(s)
             /\ \A u \in Tasks: u # t => task'[u] = task[u]
             /\ run' \in [Tasks -> [Runs -> {"none"} \cup RunStatus]]
             /\ k \in Runs => run'[t][k] \in RunTerminal /\ ExecFor(run'[t][k]) = s
             /\ \A u \in Tasks, j \in Runs: u # t \/ j # k => run'[u][j] = run[u][j]
             /\ effect' \in [Tasks -> [Runs -> [Calls -> {"none"} \cup EffectStatus]]]
             /\ \A u \in Tasks, j \in Runs: u # t \/ j # k => effect'[u][j] = effect[u][j]
             /\ k \in Runs => effect'[t][k] = CloseCalls(effect[t][k])
             /\ declared' \in [Tasks -> [Runs -> SUBSET Calls]]
             /\ node' \in [Nodes -> NodeStatus] /\ plan' \in PlanStatus
             /\ node'[n] = NodeTarget(t, TaskAfter(t, s))
             /\ \A m \in Nodes: m # n => node'[m] = node[m]
<1>1. PICK s \in ExecTerminal: s = Outcome(t, asked)
  BY OutcomeKnown
<1>2. PICK k \in 0 .. MaxRuns: k = exec[t].run
  BY DEF TypeOK, Execution
<1>3. /\ exec' = ExecAfter(t, s)
      /\ task' = TaskAfter(t, s)
      /\ SetNode(NodeOf[t], NodeTarget(t, TaskAfter(t, s)))
      /\ run' = [run EXCEPT ![t][k] = IF @ \in RunTerminal THEN @ ELSE RunFor(s)]
      /\ effect' = [effect EXCEPT ![t][k] = CloseCalls(@)]
      /\ declared' = [declared EXCEPT ![t][k] = {}]
  BY <1>1, <1>2 DEF Finish
<1>4. /\ exec' \in [Tasks -> Execution]
      /\ exec'[t].status = s /\ exec'[t].run = k
      /\ \A u \in Tasks: u # t => exec'[u] = exec[u]
  <2> DEFINE r == [status |-> s, run |-> exec[t].run, version |-> exec[t].version + 1]
  <2>1. r \in Execution /\ r.status = s /\ r.run = k
    BY <1>2 DEF TypeOK, Execution
  <2>2. exec' = [exec EXCEPT ![t] = r]
    BY <1>3 DEF ExecAfter
  <2> HIDE DEF r
  <2> QED
    BY <2>1, <2>2 DEF TypeOK
<1>5. /\ task' \in [Tasks -> TaskStatus]
      /\ task'[t] = TaskOf(s)
      /\ \A u \in Tasks: u # t => task'[u] = task[u]
  <2>1. TaskOf(s) \in TaskStatus
    BY DEF TaskOf, ExecTerminal, TaskStatus, TaskTerminal
  <2> QED
    BY <1>3, <2>1 DEF TaskAfter, TypeOK
<1>6. /\ run' \in [Tasks -> [Runs -> {"none"} \cup RunStatus]]
      /\ k \in Runs => run'[t][k] \in RunTerminal /\ ExecFor(run'[t][k]) = s
      /\ \A u \in Tasks, j \in Runs: u # t \/ j # k => run'[u][j] = run[u][j]
  <2> DEFINE r == IF run[t][k] \in RunTerminal THEN run[t][k] ELSE RunFor(s)
  <2>1. r \in RunTerminal /\ ExecFor(r) = s
    BY <1>1, <1>2, OutcomeKnown DEF RunOf
  <2>2. run' = [run EXCEPT ![t] = [run[t] EXCEPT ![k] = r]]
    BY <1>3
  <2> HIDE DEF r
  <2>3. run[t] \in [Runs -> {"none"} \cup RunStatus]
    BY DEF TypeOK
  <2>4. [run[t] EXCEPT ![k] = r] \in [Runs -> {"none"} \cup RunStatus]
    BY <2>1, <2>3 DEF RunStatus
  <2>5. k \in Runs => [run[t] EXCEPT ![k] = r][k] = r
    BY <2>3
  <2>6. \A j \in Runs: j # k => [run[t] EXCEPT ![k] = r][j] = run[t][j]
    BY <2>3
  <2> QED
    BY <2>1, <2>2, <2>4, <2>5, <2>6 DEF TypeOK
<1>7. /\ effect' \in [Tasks -> [Runs -> [Calls -> {"none"} \cup EffectStatus]]]
      /\ \A u \in Tasks, j \in Runs: u # t \/ j # k => effect'[u][j] = effect[u][j]
      /\ k \in Runs => effect'[t][k] = CloseCalls(effect[t][k])
  <2> DEFINE e == CloseCalls(effect[t][k])
  <2>1. k \in Runs => e \in [Calls -> {"none"} \cup EffectStatus]
    BY CloseCallsEffect DEF TypeOK
  <2>2. effect' = [effect EXCEPT ![t] = [effect[t] EXCEPT ![k] = e]]
    BY <1>3
  <2> HIDE DEF e
  <2>3. effect[t] \in [Runs -> [Calls -> {"none"} \cup EffectStatus]]
    BY DEF TypeOK
  <2>4. [effect[t] EXCEPT ![k] = e] \in [Runs -> [Calls -> {"none"} \cup EffectStatus]]
    BY <2>1, <2>3
  <2>5. k \in Runs => [effect[t] EXCEPT ![k] = e][k] = e
    BY <2>3
  <2>6. \A j \in Runs: j # k => [effect[t] EXCEPT ![k] = e][j] = effect[t][j]
    BY <2>3
  <2>7. k \in Runs => effect'[t][k] = e
    BY <2>2, <2>5 DEF TypeOK
  <2>8. k \in Runs => e = CloseCalls(effect[t][k])
    BY DEF e
  <2> QED
    BY <2>2, <2>4, <2>6, <2>7, <2>8 DEF TypeOK
<1>8. /\ node' \in [Nodes -> NodeStatus] /\ plan' \in PlanStatus
      /\ node'[NodeOf[t]] = NodeTarget(t, TaskAfter(t, s))
      /\ \A m \in Nodes: m # NodeOf[t] => node'[m] = node[m]
  <2>1. NodeTarget(t, TaskAfter(t, s)) \in NodeStatus
    BY NodeTargetEffect
  <2> QED
    BY <1>3, <2>1, SetNodeEffect, Constants
<1>9. declared' \in [Tasks -> [Runs -> SUBSET Calls]]
  <2>1. declared' = [declared EXCEPT ![t] = [declared[t] EXCEPT ![k] = {}]]
    BY <1>3
  <2> QED
    BY <2>1 DEF TypeOK
<1> QED
  BY <1>1, <1>2, <1>4, <1>5, <1>6, <1>7, <1>8, <1>9

-----------------------------------------------------------------------------
(* What a step does to a worker                                            *)

Others(t) == \A u \in Tasks: u # t => worker'[u] = worker[u]

(* An entry of the worker table without a worker. *)
LEMMA IdleTyped == Idle \in Worker /\ Idle.pc = "none"
BY Constants DEF Idle, Worker, Step, ExecTerminal

(* A worker that gives up keeps its run and has the end it will ask for. *)
LEMMA GivesUpEffect ==
  ASSUME TypeOK, NEW t \in Tasks, GivesUp(t)
  PROVE  /\ worker' \in [Tasks -> Worker]
         /\ worker'[t].pc = "fail" /\ worker'[t].run = worker[t].run
         /\ worker'[t].status \in {"failed", "cancelled", "interrupted"}
         /\ Others(t)
<1>1. PICK s \in Reports(t):
        worker' = [worker EXCEPT ![t] = [Idle EXCEPT !.pc = "fail", !.run = worker[t].run,
                                                    !.status = s]]
  BY DEF GivesUp
<1>2. worker[t].ctx \in {"live", "cancelled", "expired"} /\ worker[t].run \in 0 .. MaxRuns
  BY DEF TypeOK, Worker
<1>3. s \in {"failed", "cancelled", "interrupted"}
  BY <1>1, <1>2 DEF Reports
<1> DEFINE r == [Idle EXCEPT !.pc = "fail", !.run = worker[t].run, !.status = s]
<1>4. r \in Worker /\ r.pc = "fail" /\ r.run = worker[t].run /\ r.status = s
  BY <1>2, <1>3, IdleTyped DEF Worker, Step, ExecTerminal
<1>5. worker' = [worker EXCEPT ![t] = r]
  BY <1>1
<1> HIDE DEF r
<1> QED
  BY <1>3, <1>4, <1>5 DEF TypeOK, Others

(* A worker that is done leaves an entry with nothing in its hands. *)
LEMMA LeftEffect ==
  ASSUME TypeOK, NEW t \in Tasks, Left(t)
  PROVE  worker' \in [Tasks -> Worker] /\ worker'[t].pc = "exit" /\ Others(t)
<1> DEFINE r == [Idle EXCEPT !.pc = "exit"]
<1>1. r \in Worker /\ r.pc = "exit"
  BY IdleTyped DEF Worker, Step
<1>2. worker' = [worker EXCEPT ![t] = r]
  BY DEF Left
<1> HIDE DEF r
<1> QED
  BY <1>1, <1>2 DEF TypeOK, Others

(* A start or a retry makes an entry that has still to claim. *)
LEMMA LaunchEffect ==
  ASSUME TypeOK, NEW t \in Tasks, NEW v \in Seen(t), NEW ack \in BOOLEAN, Launch(t, v, ack)
  PROVE  worker' \in [Tasks -> Worker] /\ worker'[t].pc = "claim" /\ Others(t)
<1> DEFINE r == [Idle EXCEPT !.pc = "claim", !.expected = v, !.ack = ack]
<1>1. exec[t].version \in Nat
  BY DEF TypeOK, Execution
<1>2. v \in Nat
  BY <1>1 DEF Seen
<1>3. r \in Worker /\ r.pc = "claim"
  BY <1>2, IdleTyped DEF Worker, Step
<1>4. worker' = [worker EXCEPT ![t] = r]
  BY DEF Launch
<1> HIDE DEF r
<1> QED
  BY <1>3, <1>4 DEF TypeOK, Others

(* A context that is cancelled or expires changes nothing else.            *)
SameBut(v, w) ==
  v.pc = w.pc /\ v.run = w.run /\ v.call = w.call /\ v.status = w.status

(* Cancelling a context changes the context and nothing else. *)
LEMMA CancelledEffect ==
  ASSUME NEW w \in Worker
  PROVE  Cancelled(w) \in Worker /\ SameBut(Cancelled(w), w)
BY DEF Cancelled, Worker, SameBut

(* So does its expiry. *)
LEMMA ExpireEffect ==
  ASSUME TypeOK, NEW t \in Tasks, Expire(t)
  PROVE  worker' \in [Tasks -> Worker] /\ SameBut(worker'[t], worker[t]) /\ Others(t)
<1> DEFINE r == [worker[t] EXCEPT !.ctx = "expired"]
<1>1. r \in Worker /\ SameBut(r, worker[t])
  BY DEF TypeOK, Worker, SameBut
<1>2. worker' = [worker EXCEPT ![t] = r]
  BY DEF Expire
<1> HIDE DEF r
<1> QED
  BY <1>1, <1>2 DEF TypeOK, Others

(* Cancelling the contexts of some of the workers. *)
LEMMA CancelSomeEffect ==
  ASSUME TypeOK, NEW S,
         worker' = [u \in Tasks |-> IF u \in S THEN Cancelled(worker[u]) ELSE worker[u]]
  PROVE  worker' \in [Tasks -> Worker] /\ \A u \in Tasks: SameBut(worker'[u], worker[u])
<1>1. \A u \in Tasks: worker'[u] \in Worker /\ SameBut(worker'[u], worker[u])
  BY CancelledEffect DEF TypeOK, SameBut
<1> QED
  BY <1>1

(* A claim gives the worker the run after the last, and no call yet. *)
LEMMA ClaimWorker ==
  ASSUME TypeOK, NEW t \in Tasks, Claim(t)
  PROVE  /\ worker' \in [Tasks -> Worker]
         /\ worker'[t].pc = "turn" /\ worker'[t].run = exec[t].run + 1 /\ worker'[t].call = 0
         /\ Others(t)
<1> DEFINE k == exec[t].run + 1
           r == [Idle EXCEPT !.pc = "turn", !.run = k, !.ctx = worker[t].ctx]
<1>1. k \in Runs /\ k \in 0 .. MaxRuns
  BY RunLeft, Constants DEF Claim, Runs
<1>2. r \in Worker /\ r.pc = "turn" /\ r.run = k /\ r.call = 0
  <2>1. worker[t].ctx \in {"live", "cancelled", "expired"} /\ Idle.call = 0
    BY DEF TypeOK, Worker, Idle
  <2> HIDE DEF k
  <2> QED
    BY <1>1, <2>1, IdleTyped DEF Worker, Step
<1>3. worker' = [worker EXCEPT ![t] = r]
  BY DEF Claim
<1> HIDE DEF r
<1> QED
  BY <1>2, <1>3 DEF TypeOK, Others

(* A worker that moves on with its run.                                    *)
LEMMA MovesOn ==
  ASSUME TypeOK, NEW t \in Tasks, NEW p \in Step, NEW c \in 0 .. MaxCalls,
         \/ worker' = [worker EXCEPT ![t].pc = p, ![t].call = c]
         \/ worker' = [worker EXCEPT ![t].pc = p] /\ worker[t].call = c
  PROVE  /\ worker' \in [Tasks -> Worker]
         /\ worker'[t].pc = p /\ worker'[t].run = worker[t].run /\ worker'[t].call = c
         /\ Others(t)
<1>1. PICK w \in Worker: w = worker[t]
  BY DEF TypeOK
<1> DEFINE r == [w EXCEPT !.pc = p, !.call = c]
           q == [w EXCEPT !.pc = p]
<1>2. /\ r \in Worker /\ r.pc = p /\ r.run = w.run /\ r.call = c
      /\ q \in Worker /\ q.pc = p /\ q.run = w.run /\ q.call = w.call
  BY <1>1 DEF Worker
<1>3. \/ worker' = [worker EXCEPT ![t] = r]
      \/ worker' = [worker EXCEPT ![t] = q] /\ w.call = c
  BY <1>1
<1> HIDE DEF r, q
<1> QED
  BY <1>1, <1>2, <1>3 DEF TypeOK, Others

-----------------------------------------------------------------------------
(* What a step does to the store                                           *)

(* One entry of a table of tables is written. *)
LEMMA WriteCell ==
  ASSUME NEW V, NEW D, NEW f \in [Tasks -> [D -> V]], NEW t \in Tasks, NEW k, NEW x,
         k \in D => x \in V
  PROVE  LET g == [f EXCEPT ![t][k] = x]
         IN  /\ g \in [Tasks -> [D -> V]]
             /\ k \in D => g[t][k] = x
             /\ \A u \in Tasks, j \in D: u # t \/ j # k => g[u][j] = f[u][j]
<1> DEFINE h == [f[t] EXCEPT ![k] = x]
<1>1. /\ h \in [D -> V]
      /\ k \in D => h[k] = x
      /\ \A j \in D: j # k => h[j] = f[t][j]
  OBVIOUS
<1>2. [f EXCEPT ![t][k] = x] = [f EXCEPT ![t] = h]
  OBVIOUS
<1> HIDE DEF h
<1> QED
  BY <1>1, <1>2

(* One call of a run changes its status. *)
LEMMA WriteCall ==
  ASSUME TypeOK, NEW t \in Tasks, NEW k, NEW c \in Calls, NEW s \in EffectStatus,
         effect' = [effect EXCEPT ![t][k][c] = s]
  PROVE  /\ effect' \in [Tasks -> [Runs -> [Calls -> {"none"} \cup EffectStatus]]]
         /\ k \in Runs => effect'[t][k][c] = s
         /\ \A u \in Tasks, j \in Runs, d \in Calls:
              u # t \/ j # k \/ d # c => effect'[u][j][d] = effect[u][j][d]
<1> DEFINE h == [effect[t][k] EXCEPT ![c] = s]
<1>1. /\ k \in Runs => h \in [Calls -> {"none"} \cup EffectStatus]
      /\ k \in Runs => h[c] = s
      /\ \A d \in Calls: k \in Runs /\ d # c => h[d] = effect[t][k][d]
  BY DEF TypeOK
<1>2. effect' = [effect EXCEPT ![t][k] = h]
  OBVIOUS
<1> HIDE DEF h
<1>3. /\ effect' \in [Tasks -> [Runs -> [Calls -> {"none"} \cup EffectStatus]]]
      /\ k \in Runs => effect'[t][k] = h
      /\ \A u \in Tasks, j \in Runs: u # t \/ j # k => effect'[u][j] = effect[u][j]
  <2> DEFINE V == [Calls -> {"none"} \cup EffectStatus]
  <2>1. effect \in [Tasks -> [Runs -> V]] /\ (k \in Runs => h \in V)
    BY <1>1 DEF TypeOK
  <2> HIDE DEF V
  <2>2. /\ effect' \in [Tasks -> [Runs -> V]]
        /\ k \in Runs => effect'[t][k] = h
        /\ \A u \in Tasks, j \in Runs: u # t \/ j # k => effect'[u][j] = effect[u][j]
    BY <1>2, <2>1, WriteCell
  <2> QED
    BY <2>2 DEF V
<1> QED
  BY <1>1, <1>3

(* The claim of a run: the first that is left.                             *)
LEMMA ClaimEffect ==
  ASSUME TypeOK, NEW t \in Tasks, Claim(t)
  PROVE  LET k == exec[t].run + 1
         IN  /\ k \in Runs
             /\ exec' \in [Tasks -> Execution]
             /\ exec'[t].status = "running" /\ exec'[t].run = k
             /\ \A u \in Tasks: u # t => exec'[u] = exec[u]
             /\ task' \in [Tasks -> TaskStatus]
             /\ task'[t] = "running"
             /\ \A u \in Tasks: u # t => task'[u] = task[u]
             /\ run' \in [Tasks -> [Runs -> {"none"} \cup RunStatus]]
             /\ run'[t][k] = "running"
             /\ \A u \in Tasks, j \in Runs: u # t \/ j # k => run'[u][j] = run[u][j]
             /\ node' \in [Nodes -> NodeStatus]
             /\ node'[NodeOf[t]] = "running"
             /\ \A n \in Nodes: n # NodeOf[t] => node'[n] = node[n]
<1> DEFINE r == [status |-> "running", run |-> exec[t].run + 1, version |-> exec[t].version + 1]
<1>1. PICK k \in Runs: k = exec[t].run + 1
  BY RunLeft DEF Claim
<1>2. /\ exec' = [exec EXCEPT ![t] = r]
      /\ run' = [run EXCEPT ![t][k] = "running"]
      /\ task' = [task EXCEPT ![t] = "running"]
      /\ node' = [node EXCEPT ![NodeOf[t]] = "running"]
  BY <1>1 DEF Claim
<1>3. r \in Execution /\ r.status = "running" /\ r.run = k
  BY <1>1, Constants DEF TypeOK, Execution, ExecActive, Runs
<1> HIDE DEF r
<1>4. /\ exec' \in [Tasks -> Execution]
      /\ exec'[t].status = "running" /\ exec'[t].run = k
      /\ \A u \in Tasks: u # t => exec'[u] = exec[u]
  BY <1>2, <1>3 DEF TypeOK
<1>5. /\ task' \in [Tasks -> TaskStatus]
      /\ task'[t] = "running"
      /\ \A u \in Tasks: u # t => task'[u] = task[u]
  BY <1>2 DEF TypeOK, TaskStatus
<1>6. /\ run' \in [Tasks -> [Runs -> {"none"} \cup RunStatus]]
      /\ run'[t][k] = "running"
      /\ \A u \in Tasks, j \in Runs: u # t \/ j # k => run'[u][j] = run[u][j]
  <2>1. "running" \in {"none"} \cup RunStatus
    BY DEF RunStatus, RunActive
  <2> QED
    BY <1>2, <2>1, WriteCell DEF TypeOK
<1>7. /\ node' \in [Nodes -> NodeStatus]
      /\ node'[NodeOf[t]] = "running"
      /\ \A n \in Nodes: n # NodeOf[t] => node'[n] = node[n]
  BY <1>2, Constants DEF TypeOK, NodeStatus
<1> QED
  BY <1>1, <1>4, <1>5, <1>6, <1>7

(* A sweep ends the active runs and leaves no call prepared.               *)
LEMMA ScanEffect ==
  ASSUME TypeOK, Scan
  PROVE  /\ run' \in [Tasks -> [Runs -> {"none"} \cup RunStatus]]
         /\ effect' \in [Tasks -> [Runs -> [Calls -> {"none"} \cup EffectStatus]]]
         /\ declared' \in [Tasks -> [Runs -> SUBSET Calls]]
         /\ \A t \in Tasks, k \in Runs:
              /\ \/ run'[t][k] = run[t][k] /\ run[t][k] \notin RunActive
                 \/ run[t][k] \in RunActive /\ run'[t][k] \in {"interrupted", "outcome_unknown"}
              /\ \A c \in Calls:
                   \/ effect'[t][k][c] = effect[t][k][c] /\ effect[t][k][c] # "prepared"
                   \/ effect[t][k][c] = "prepared" /\ effect'[t][k][c] = "outcome_unknown"
<1>1. /\ run' = [t \in Tasks |-> [k \in Runs |->
                     ScannedRun(run[t][k], effect[t][k], declared[t][k])]]
      /\ effect' = [t \in Tasks |-> [k \in Runs |-> CloseCalls(effect[t][k])]]
      /\ declared' \in [Tasks -> [Runs -> SUBSET Calls]]
  BY DEF Scan
<1>2. ASSUME NEW t \in Tasks, NEW k \in Runs
      PROVE  /\ \/ run'[t][k] = run[t][k] /\ run[t][k] \notin RunActive
                \/ run[t][k] \in RunActive /\ run'[t][k] \in {"interrupted", "outcome_unknown"}
             /\ run'[t][k] \in {"none"} \cup RunStatus
  <2>1. /\ run'[t][k] = ScannedRun(run[t][k], effect[t][k], declared[t][k])
        /\ run[t][k] \in {"none"} \cup RunStatus
    BY <1>1 DEF TypeOK
  <2> QED
    BY <2>1 DEF ScannedRun, RunStatus, RunTerminal
<1>3. ASSUME NEW t \in Tasks, NEW k \in Runs
      PROVE  /\ effect'[t][k] \in [Calls -> {"none"} \cup EffectStatus]
             /\ \A c \in Calls:
                  \/ effect'[t][k][c] = effect[t][k][c] /\ effect[t][k][c] # "prepared"
                  \/ effect[t][k][c] = "prepared" /\ effect'[t][k][c] = "outcome_unknown"
  <2>1. PICK es \in [Calls -> {"none"} \cup EffectStatus]: es = effect[t][k]
    BY DEF TypeOK
  <2>2. effect'[t][k] = CloseCalls(es)
    BY <1>1, <2>1
  <2> QED
    BY <2>1, <2>2, CloseCallsEffect
<1>4. run' \in [Tasks -> [Runs -> {"none"} \cup RunStatus]]
  BY <1>1, <1>2
<1>5. effect' \in [Tasks -> [Runs -> [Calls -> {"none"} \cup EffectStatus]]]
  BY <1>1, <1>3
<1> QED
  BY <1>1, <1>2, <1>3, <1>4, <1>5

(* A run that a user reconciles: its prepared calls are declared unknown,  *)
(* and no other table is written.                                          *)
LEMMA ReconcileRunEffect ==
  ASSUME TypeOK, NEW t \in Tasks, ReconcileRun(t)
  PROVE  /\ Move
         /\ UNCHANGED <<plan, node, barred, task, exec, run, engine, recover, worker, cancel,
                        joins, acted, revoked, faults, starts>>
         /\ effect' \in [Tasks -> [Runs -> [Calls -> {"none"} \cup EffectStatus]]]
         /\ declared' \in [Tasks -> [Runs -> SUBSET Calls]]
         /\ \A u \in Tasks, k \in Runs, c \in Calls:
              \/ effect'[u][k][c] = effect[u][k][c]
              \/ effect[u][k][c] = "prepared" /\ effect'[u][k][c] = "outcome_unknown"
<1>1. PICK k \in Runs:
        /\ effect' = [effect EXCEPT ![t][k] = CloseCalls(effect[t][k])]
        /\ declared' = [declared EXCEPT ![t][k] =
                            declared[t][k] \cup {c \in Calls : effect[t][k][c] = "prepared"}]
        /\ Move
        /\ UNCHANGED <<planning, barred, task, exec, run, engine, recover, worker, requests,
                       history, faults, starts>>
  BY DEF ReconcileRun
<1>2. PICK e: e = CloseCalls(effect[t][k])
  OBVIOUS
<1>3. /\ e \in [Calls -> {"none"} \cup EffectStatus]
      /\ \A c \in Calls: \/ e[c] = effect[t][k][c]
                         \/ effect[t][k][c] = "prepared" /\ e[c] = "outcome_unknown"
  <2>1. effect[t][k] \in [Calls -> {"none"} \cup EffectStatus]
    BY DEF TypeOK
  <2> QED
    BY <1>2, <2>1, CloseCallsEffect
<1>4. effect' = [effect EXCEPT ![t][k] = e]
  BY <1>1, <1>2
<1>5. /\ effect' \in [Tasks -> [Runs -> [Calls -> {"none"} \cup EffectStatus]]]
      /\ effect'[t][k] = e
      /\ \A u \in Tasks, j \in Runs: u # t \/ j # k => effect'[u][j] = effect[u][j]
  <2> DEFINE V == [Calls -> {"none"} \cup EffectStatus]
  <2>1. effect \in [Tasks -> [Runs -> V]] /\ e \in V
    BY <1>3 DEF TypeOK
  <2> HIDE DEF V
  <2>2. /\ effect' \in [Tasks -> [Runs -> V]]
        /\ effect'[t][k] = e
        /\ \A u \in Tasks, j \in Runs: u # t \/ j # k => effect'[u][j] = effect[u][j]
    BY <1>4, <2>1, WriteCell
  <2> QED
    BY <2>2 DEF V
<1>6. declared' \in [Tasks -> [Runs -> SUBSET Calls]]
  <2> DEFINE d == declared[t][k] \cup {c \in Calls : effect[t][k][c] = "prepared"}
  <2>1. declared \in [Tasks -> [Runs -> SUBSET Calls]] /\ d \in SUBSET Calls
    BY DEF TypeOK
  <2>2. declared' = [declared EXCEPT ![t][k] = d]
    BY <1>1
  <2> HIDE DEF d
  <2> QED
    BY <2>1, <2>2, WriteCell
<1> QED
  BY <1>1, <1>3, <1>5, <1>6 DEF planning, requests, history

(* An execution is told to stop. *)
LEMMA CancelExecutionEffect ==
  ASSUME TypeOK, NEW t \in Tasks, CancelExecution(t)
  PROVE  /\ exec' \in [Tasks -> Execution] /\ task' \in [Tasks -> TaskStatus]
         /\ \/ exec' = exec /\ task' = task
            \/ /\ exec[t].status = "running" /\ exec'[t].status = "cancel_requested"
               /\ exec'[t].run = exec[t].run
               /\ task'[t] = "cancel_requested"
         /\ \A u \in Tasks: u # t => exec'[u] = exec[u] /\ task'[u] = task[u]
<1>1. CASE exec[t].status = "running"
  <2> DEFINE r == [status |-> "cancel_requested", run |-> exec[t].run,
                   version |-> exec[t].version + 1]
  <2>1. r \in Execution /\ r.status = "cancel_requested" /\ r.run = exec[t].run
    BY DEF TypeOK, Execution, ExecActive
  <2>2. exec' = [exec EXCEPT ![t] = r] /\ task' = [task EXCEPT ![t] = "cancel_requested"]
    BY <1>1 DEF CancelExecution, ExecAfter
  <2> HIDE DEF r
  <2> QED
    BY <1>1, <2>1, <2>2 DEF TypeOK, TaskStatus
<1>2. CASE exec[t].status # "running"
  BY <1>2 DEF CancelExecution, TypeOK
<1> QED
  BY <1>1, <1>2

(* The tasks of a tree are told to stop; the executions under way in it    *)
(* are those the cancellation covers.                                      *)
LEMMA CancelTreeEffect ==
  ASSUME TypeOK, RunsInOrder, CancelTree
  PROVE  /\ task' \in [Tasks -> TaskStatus] /\ revoked' \subseteq Tasks \X Runs
         /\ \A t \in Tasks:
              \/ /\ task'[t] = task[t]
                 /\ \A k \in Runs: <<t, k>> \in revoked' => <<t, k>> \in revoked
              \/ /\ task'[t] = CancelledTask(task[t])
                 /\ \A k \in Runs: <<t, k>> \in revoked' =>
                      <<t, k>> \in revoked \/ (Active(t) /\ k = exec[t].run)
<1>1. PICK S: S = Subtree(cancel.root)
  OBVIOUS
<1>2. /\ task' = [t \in Tasks |-> IF t \in S THEN CancelledTask(task[t]) ELSE task[t]]
      /\ revoked' = revoked \cup {<<t, exec[t].run>> : t \in {t \in S : Active(t)}}
      /\ S \subseteq Tasks
  BY <1>1 DEF CancelTree, Subtree
<1>3. \A t \in Tasks: Active(t) => exec[t].run \in Runs
  BY Constants DEF TypeOK, Execution, RunsInOrder, Active, ExecActive, Runs
<1>4. revoked' \subseteq Tasks \X Runs
  BY <1>2, <1>3 DEF TypeOK
<1>5. \A t \in Tasks: CancelledTask(task[t]) \in TaskStatus
  BY DEF TypeOK, CancelledTask, TaskStatus, TaskTerminal
<1>6. task' \in [Tasks -> TaskStatus]
  BY <1>2, <1>5 DEF TypeOK
<1>7. ASSUME NEW t \in Tasks
      PROVE  \/ /\ task'[t] = task[t]
                /\ \A k \in Runs: <<t, k>> \in revoked' => <<t, k>> \in revoked
             \/ /\ task'[t] = CancelledTask(task[t])
                /\ \A k \in Runs: <<t, k>> \in revoked' =>
                      <<t, k>> \in revoked \/ (Active(t) /\ k = exec[t].run)
  <2>1. \A k: <<t, k>> \in revoked' =>
           <<t, k>> \in revoked \/ (t \in S /\ Active(t) /\ k = exec[t].run)
    BY <1>2
  <2>2. CASE t \in S
    BY <1>2, <2>1, <2>2
  <2>3. CASE t \notin S
    BY <1>2, <2>1, <2>3
  <2> QED
    BY <2>2, <2>3
<1> QED
  BY <1>4, <1>6, <1>7

(* A join writes a task that runs or joins, and no other. *)
LEMMA JoinEffect ==
  ASSUME TypeOK, NEW t \in Tasks, JoinChildren(t)
  PROVE  /\ task' \in [Tasks -> TaskStatus]
         /\ \A u \in Tasks:
              \/ task'[u] = task[u]
              \/ /\ task[u] \in {"running", "joining"}
                 /\ task'[u] \in {"joining", "succeeded", "failed"}
<1>1. PICK all \in BOOLEAN:
        task' = IF task[t] \in {"running", "joining"} /\ Children(t) # {}
                THEN [task EXCEPT ![t] = Joined(t, all)] ELSE task
  BY DEF JoinChildren
<1>2. Joined(t, all) \in {"joining", "succeeded", "failed"}
  BY DEF Joined
<1> QED
  BY <1>1, <1>2 DEF TypeOK, TaskStatus, TaskTerminal

(* Start-up queues the tasks that ran and cancels those that were to stop. *)
LEMMA ReconcileEffect ==
  ASSUME TypeOK, Reconcile
  PROVE  /\ task' \in [Tasks -> TaskStatus]
         /\ \A t \in Tasks: task'[t] = Reconciled(task[t])
<1>1. \A t \in Tasks: Reconciled(task[t]) \in TaskStatus
  BY DEF TypeOK, Reconciled, TaskStatus, TaskTerminal
<1> QED
  BY <1>1 DEF Reconcile

(* Only known tasks are covered by a cancellation. *)
LEMMA SubtreeTyped == \A t: Subtree(t) \subseteq Tasks
BY DEF Subtree

-----------------------------------------------------------------------------
(* Types                                                                   *)

(* The invariant holds when the process first starts. *)
LEMMA InitInv == Init => IInv
<1> SUFFICES ASSUME Init PROVE IInv
  OBVIOUS
<1>1. TypeOK
  <2>1. /\ \A t \in Tasks: exec[t] \in Execution /\ worker[t] \in Worker
        /\ exec \in [Tasks -> Execution] /\ worker \in [Tasks -> Worker]
    BY IdleTyped, Constants DEF Init, Execution
  <2>2. /\ node \in [Nodes -> NodeStatus] /\ task \in [Tasks -> TaskStatus]
        /\ plan \in PlanStatus
    BY DEF Init, NodeStatus, TaskStatus, PlanStatus
  <2>3. /\ run \in [Tasks -> [Runs -> {"none"} \cup RunStatus]]
        /\ effect \in [Tasks -> [Runs -> [Calls -> {"none"} \cup EffectStatus]]]
        /\ declared \in [Tasks -> [Runs -> SUBSET Calls]]
    BY DEF Init
  <2>4. moves \in 0 .. MaxMoves /\ faults \in 0 .. MaxMoves /\ starts \in 0 .. MaxStarts
    BY PlanAssumption DEF Init
  <2> QED
    BY <2>1, <2>2, <2>3, <2>4 DEF Init, TypeOK, NoCancel
<1>2. \A t \in Tasks: exec[t].status = "none" /\ exec[t].run = 0 /\ worker[t].pc = "none"
  BY IdleTyped DEF Init
<1>3. \A t \in Tasks: ~Active(t) /\ ~Settled(t) /\ exec[t].status # "succeeded"
  BY <1>2 DEF Active, Settled, ExecActive, ExecTerminal
<1>4. RunsInOrder
  BY <1>2 DEF RunsInOrder, Init
<1> QED
  BY <1>1, <1>2, <1>3, <1>4
  DEF IInv, ActiveIsOpen, SettledTogether, SuccessIsProven, RevokedStops, CancelledNeverSucceeds,
      WorkerKnows, StartsAlone, RecoveryKnows, Unattended, Attended, Init

(* What a settlement leaves well typed, whatever asks for it.              *)
LEMMA FinishTyped ==
  ASSUME TypeOK, NEW t \in Tasks, NEW asked \in ExecTerminal,
         \/ Finish(t, asked)
         \/ UNCHANGED <<planning, task, exec, ledger>>
  PROVE  /\ plan' \in PlanStatus /\ node' \in [Nodes -> NodeStatus]
         /\ task' \in [Tasks -> TaskStatus] /\ exec' \in [Tasks -> Execution]
         /\ run' \in [Tasks -> [Runs -> {"none"} \cup RunStatus]]
         /\ effect' \in [Tasks -> [Runs -> [Calls -> {"none"} \cup EffectStatus]]]
         /\ declared' \in [Tasks -> [Runs -> SUBSET Calls]]
<1>1. CASE Active(t) /\ Finish(t, asked)
  BY <1>1, FinishEffect
<1>2. CASE UNCHANGED <<planning, task, exec, ledger>>
  BY <1>2 DEF TypeOK, planning, ledger
<1> QED
  BY <1>1, <1>2 DEF Finish

(* The variables of the store, and those of the process. *)
StoreTyped ==
  /\ plan \in PlanStatus
  /\ barred \in BOOLEAN
  /\ node \in [Nodes -> NodeStatus]
  /\ task \in [Tasks -> TaskStatus]
  /\ exec \in [Tasks -> Execution]
  /\ run \in [Tasks -> [Runs -> {"none"} \cup RunStatus]]
  /\ effect \in [Tasks -> [Runs -> [Calls -> {"none"} \cup EffectStatus]]]
  /\ declared \in [Tasks -> [Runs -> SUBSET Calls]]
  /\ acted \subseteq Tasks \X Runs \X Calls
  /\ revoked \subseteq Tasks \X Runs

ProcessTyped ==
  /\ engine \in {"off", "scan", "plans", "refused", "ready", "closing"}
  /\ recover \subseteq Tasks
  /\ worker \in [Tasks -> Worker]
  /\ cancel \in [root: Tasks \cup {NoTask}, left: SUBSET Tasks]
  /\ joins \subseteq Tasks
  /\ moves \in 0 .. MaxMoves /\ faults \in 0 .. MaxMoves /\ starts \in 0 .. MaxStarts

(* What a worker has in its hands is a call of a run of its own.           *)
LEMMA WorkerHolds ==
  ASSUME TypeOK, RunsInOrder, WorkerKnows, NEW t \in Tasks
  PROVE  /\ Attended(worker[t]) => Active(t) /\ worker[t].run = exec[t].run /\ worker[t].run \in Runs
         /\ Active(t) => exec[t].run \in Runs
         /\ worker[t].pc \in {"prepared", "executing"} => worker[t].call \in Calls
         /\ worker[t].run \in 0 .. MaxRuns /\ worker[t].call \in 0 .. MaxCalls
<1>1. Active(t) => exec[t].run \in Runs
  BY Constants DEF TypeOK, Execution, RunsInOrder, Active, ExecActive, Runs
<1> QED
  BY <1>1 DEF TypeOK, Worker, WorkerKnows, Attended

(* Every step writes the types of the tables. *)
LEMMA StoreStep ==
  ASSUME IInv, [Next]_vars
  PROVE  StoreTyped'
<1> USE DEF IInv
<1>1. ASSUME NEW t \in Tasks, Working(t) PROVE StoreTyped'
  <2>1. CASE Claim(t)
    <3>1. plan' = "active" /\ UNCHANGED <<barred, effect, declared, acted, revoked>>
      BY <2>1 DEF Claim, history
    <3> QED
      BY <2>1, <3>1, ClaimEffect DEF TypeOK, StoreTyped, PlanStatus
  <2>2. CASE Prepare(t)
    <3>1. PICK c \in Calls: effect' = [effect EXCEPT ![t][worker[t].run][c] = "prepared"]
      BY <2>2 DEF Prepare
    <3>2. effect' \in [Tasks -> [Runs -> [Calls -> {"none"} \cup EffectStatus]]]
      BY <3>1, WriteCall DEF EffectStatus
    <3> QED
      BY <2>2, <3>2 DEF Prepare, TypeOK, StoreTyped, planning, history
  <2>3. CASE Dispatch(t)
    <3>1. <<t, worker[t].run, worker[t].call>> \in Tasks \X Runs \X Calls
      BY <2>3, WorkerHolds DEF Dispatch, Attended
    <3> QED
      BY <2>3, <3>1 DEF Dispatch, TypeOK, StoreTyped, planning, ledger
  <2>4. CASE Receipt(t)
    <3>1. effect' \in [Tasks -> [Runs -> [Calls -> {"none"} \cup EffectStatus]]]
      <4>1. CASE effect' = effect
        BY <4>1 DEF TypeOK
      <4>2. CASE effect' # effect
        <5>1. PICK s \in ReceiptStatus(t):
                effect' = [effect EXCEPT ![t][worker[t].run][worker[t].call] = s]
          BY <2>4, <4>2 DEF Receipt
        <5>2. s \in EffectStatus
          BY DEF ReceiptStatus, EffectStatus, EffectTerminal
        <5>3. worker[t].call \in Calls
          BY <2>4, WorkerHolds DEF Receipt, Returned
        <5> QED
          BY <5>1, <5>2, <5>3, WriteCall
      <4> QED
        BY <4>1, <4>2
    <3>2. declared' \in [Tasks -> [Runs -> SUBSET Calls]]
      <4>1. CASE declared' = declared
        BY <4>1 DEF TypeOK
      <4>2. CASE declared' # declared
        <5>1. PICK k: k = worker[t].run /\ k \in Runs
          BY <2>4, WorkerHolds DEF Receipt, Returned, Attended
        <5> DEFINE d == declared[t][k] \ {worker[t].call}
        <5>2. declared \in [Tasks -> [Runs -> SUBSET Calls]] /\ d \in SUBSET Calls
          BY <5>1 DEF TypeOK
        <5>3. declared' = [declared EXCEPT ![t][k] = d]
          BY <2>4, <4>2, <5>1 DEF Receipt
        <5> HIDE DEF d
        <5> QED
          BY <5>2, <5>3, WriteCell
      <4> QED
        BY <4>1, <4>2
    <3> QED
      BY <2>4, <3>1, <3>2 DEF Receipt, TypeOK, StoreTyped, planning, history
  <2>5. CASE FinishWork(t)
    <3>1. Finish(t, "succeeded") \/ UNCHANGED <<planning, task, exec, ledger>>
      BY <2>5 DEF FinishWork
    <3>2. UNCHANGED <<barred, acted, revoked>>
      BY <2>5 DEF FinishWork, history
    <3>3. "succeeded" \in ExecTerminal
      BY DEF ExecTerminal
    <3> QED
      BY <3>1, <3>2, <3>3, FinishTyped DEF TypeOK, StoreTyped
  <2>6. CASE FailWork(t)
    <3>1. Finish(t, worker[t].status) \/ UNCHANGED <<planning, task, exec, ledger>>
      BY <2>6 DEF FailWork
    <3>2. UNCHANGED <<barred, acted, revoked>>
      BY <2>6 DEF FailWork, history
    <3>3. worker[t].status \in ExecTerminal
      BY DEF TypeOK, Worker
    <3> QED
      BY <3>1, <3>2, <3>3, FinishTyped DEF TypeOK, StoreTyped
  <2>7. CASE Refused(t) \/ GiveUp(t) \/ Exit(t)
    BY <2>7 DEF Refused, GiveUp, Exit, TypeOK, StoreTyped, planning, ledger, history
  <2> QED
    BY <1>1, <2>1, <2>2, <2>3, <2>4, <2>5, <2>6, <2>7 DEF Working
<1>2. ASSUME NEW t \in Tasks, CancelExecution(t) PROVE StoreTyped'
  BY <1>2, CancelExecutionEffect
  DEF CancelExecution, TypeOK, StoreTyped, planning, ledger, history
<1>3. ASSUME NEW t \in Tasks, JoinChildren(t) PROVE StoreTyped'
  BY <1>3, JoinEffect DEF JoinChildren, TypeOK, StoreTyped, planning, ledger, history
<1>4. ASSUME NEW t \in Tasks, CancelRun(t) PROVE StoreTyped'
  <2>1. run' \in [Tasks -> [Runs -> {"none"} \cup RunStatus]]
    <3>1. "cancelled" \in {"none"} \cup RunStatus
      BY DEF RunStatus, RunTerminal
    <3>2. run \in [Tasks -> [Runs -> {"none"} \cup RunStatus]]
      BY DEF TypeOK
    <3>3. run' = [run EXCEPT ![t][exec[t].run] = "cancelled"]
      BY <1>4 DEF CancelRun
    <3> QED
      BY <3>1, <3>2, <3>3, WriteCell
  <2> QED
    BY <1>4, <2>1 DEF CancelRun, TypeOK, StoreTyped, planning, history
<1>5. CASE CancelTree
  BY <1>5, CancelTreeEffect DEF CancelTree, TypeOK, StoreTyped, planning, ledger
<1>6. CASE Reconcile
  BY <1>6, ReconcileEffect DEF Reconcile, TypeOK, StoreTyped, planning, ledger, history
<1>7. CASE Diagnose \/ RecoverRuns
  <2>1. Scan /\ UNCHANGED <<plan, node, barred, task, exec, acted, revoked>>
    BY <1>7 DEF Diagnose, RecoverRuns, planning, history
  <2> QED
    BY <2>1, ScanEffect DEF TypeOK, StoreTyped
<1>8. ASSUME NEW t \in Tasks, RecoverExecution(t) PROVE StoreTyped'
  <2> DEFINE s == IF exec[t].status = "cancel_requested" THEN "cancelled" ELSE "interrupted"
  <2>1. Finish(t, s) \/ UNCHANGED <<planning, task, exec, ledger>>
    BY <1>8 DEF RecoverExecution
  <2>2. UNCHANGED <<barred, acted, revoked>>
    BY <1>8 DEF RecoverExecution, history
  <2>3. s \in ExecTerminal
    BY DEF ExecTerminal
  <2> QED
    BY <2>1, <2>2, <2>3, FinishTyped DEF TypeOK, StoreTyped
<1>9. ASSUME NEW n \in Nodes, StartNode(n) \/ CompleteNode(n) \/ FailNode(n) PROVE StoreTyped'
  <2>1. \E to \in NodeStatus: SetNode(n, to)
    BY <1>9 DEF StartNode, CompleteNode, FailNode, NodeStatus
  <2>2. UNCHANGED <<barred, task, exec, run, effect, declared, acted, revoked>>
    BY <1>9 DEF StartNode, CompleteNode, FailNode, ledger, history
  <2> QED
    BY <2>1, <2>2, SetNodeEffect DEF TypeOK, StoreTyped
<1>10. ASSUME NEW t \in Tasks, Create(t) PROVE StoreTyped'
  BY <1>10 DEF Create, TypeOK, StoreTyped, TaskStatus, planning, ledger, history
<1>11. CASE PausePlan \/ ResumePlan \/ Bar
  BY <1>11 DEF PausePlan, ResumePlan, Bar, Move, TypeOK, StoreTyped, PlanStatus, planning, ledger, history
<1>12. CASE UNCHANGED <<planning, barred, task, exec, ledger, history>>
  BY <1>12 DEF TypeOK, StoreTyped, planning, ledger, history
<1>13. ASSUME NEW t \in Tasks,
             \/ \E v \in Seen(t), ack \in BOOLEAN: Launch(t, v, ack)
             \/ StoreRefuses(t) \/ Expire(t) \/ CancelWorkers(t) \/ JoinAsked(t)
       PROVE  UNCHANGED <<planning, barred, task, exec, ledger, history>>
  BY <1>13 DEF Launch, StoreRefuses, Expire, CancelWorkers, JoinAsked
<1>14. CASE Stop \/ Stopped \/ Crash \/ Serve \/ UNCHANGED vars
  BY <1>12, <1>14
  DEF Stop, Stopped, Crash, Down, Serve, vars, planning, ledger, history
<1>15. ASSUME NEW t \in Tasks, ReconcileRun(t) PROVE StoreTyped'
  BY <1>15, ReconcileRunEffect DEF TypeOK, StoreTyped
<1> QED
  BY <1>1, <1>2, <1>3, <1>4, <1>5, <1>6, <1>7, <1>8, <1>9, <1>10, <1>11, <1>12, <1>13, <1>14,
     <1>15
  DEF Next, StartUp

(* Every step keeps the types of what the process has in memory. *)
LEMMA ProcessStep ==
  ASSUME IInv, [Next]_vars
  PROVE  ProcessTyped'
<1> USE DEF IInv
<1> USE PlanAssumption
<1>1. ASSUME NEW t \in Tasks, Working(t) PROVE ProcessTyped'
  <2>1. UNCHANGED <<engine, recover, cancel, joins, moves, faults, starts>>
    BY <1>1 DEF Working, Claim, Refused, Prepare, Dispatch, Receipt, GiveUp, FinishWork, FailWork,
                Exit, requests, counters
  <2>2. worker' \in [Tasks -> Worker]
    <3>1. CASE Claim(t)
      BY <3>1, ClaimWorker
    <3>2. CASE Prepare(t)
      <4> DEFINE c == worker[t].call + 1
      <4>1. c \in 0 .. MaxCalls
        BY <3>2, Constants DEF Prepare, Calls
      <4>2. worker' = [worker EXCEPT ![t].pc = "prepared", ![t].call = c]
        BY <3>2 DEF Prepare
      <4> HIDE DEF c
      <4> QED
        BY <4>1, <4>2, MovesOn DEF Step
    <3>3. CASE Dispatch(t) \/ (Receipt(t) /\ worker' = [worker EXCEPT ![t].pc = "turn"])
      <4>1. worker[t].call \in 0 .. MaxCalls
        BY DEF TypeOK, Worker
      <4>2. \E p \in Step: worker' = [worker EXCEPT ![t].pc = p]
        BY <3>3 DEF Dispatch, Step
      <4> QED
        BY <4>1, <4>2, MovesOn
    <3>4. CASE GivesUp(t)
      BY <3>4, GivesUpEffect
    <3>5. CASE Left(t)
      BY <3>5, LeftEffect
    <3>6. CASE Exit(t)
      BY <3>6, IdleTyped DEF Exit, TypeOK
    <3> QED
      BY <1>1, <3>1, <3>2, <3>3, <3>4, <3>5, <3>6
      DEF Working, Refused, Receipt, GiveUp, FinishWork, FailWork
  <2> QED
    BY <2>1, <2>2 DEF TypeOK, ProcessTyped
<1>2. ASSUME NEW t \in Tasks, StoreRefuses(t) PROVE ProcessTyped'
  <2>1. worker' \in [Tasks -> Worker]
    BY <1>2, GivesUpEffect, LeftEffect DEF StoreRefuses
  <2>2. faults' \in 0 .. MaxMoves
    BY <1>2 DEF StoreRefuses, CanMove, TypeOK
  <2> QED
    BY <1>2, <2>1, <2>2 DEF StoreRefuses, TypeOK, ProcessTyped, requests
<1>3. ASSUME NEW t \in Tasks, NEW v \in Seen(t), NEW ack \in BOOLEAN, Launch(t, v, ack)
      PROVE  ProcessTyped'
  BY <1>3, LaunchEffect DEF Launch, TypeOK, ProcessTyped, requests, counters
<1>4. ASSUME NEW t \in Tasks, Expire(t) PROVE ProcessTyped'
  BY <1>4, ExpireEffect DEF Expire, TypeOK, ProcessTyped, requests, counters
<1>5. ASSUME NEW t \in Tasks, CancelWorkers(t) PROVE ProcessTyped'
  <2>1. worker' \in [Tasks -> Worker]
    BY <1>5, CancelSomeEffect DEF CancelWorkers
  <2>2. cancel' \in [root: Tasks \cup {NoTask}, left: SUBSET Tasks]
    BY <1>5, SubtreeTyped DEF CancelWorkers
  <2>3. moves' \in 0 .. MaxMoves
    BY <1>5 DEF CancelWorkers, CanMove, TypeOK
  <2> QED
    BY <1>5, <2>1, <2>2, <2>3 DEF CancelWorkers, TypeOK, ProcessTyped
<1>6. ASSUME NEW t \in Tasks, CancelExecution(t) PROVE ProcessTyped'
  <2>1. cancel' \in [root: Tasks \cup {NoTask}, left: SUBSET Tasks]
    BY <1>6 DEF CancelExecution, TypeOK
  <2> QED
    BY <1>6, <2>1 DEF CancelExecution, TypeOK, ProcessTyped, counters
<1>7. CASE CancelTree
  BY <1>7 DEF CancelTree, NoCancel, TypeOK, ProcessTyped, counters
<1>8. ASSUME NEW t \in Tasks, JoinAsked(t) PROVE ProcessTyped'
  BY <1>8 DEF JoinAsked, CanMove, TypeOK, ProcessTyped
<1>9. ASSUME NEW t \in Tasks, JoinChildren(t) PROVE ProcessTyped'
  BY <1>9 DEF JoinChildren, TypeOK, ProcessTyped, counters
<1>10. CASE UNCHANGED <<engine, recover, worker, requests, faults, starts>>
            /\ (moves' = moves \/ Move)
  BY <1>10 DEF Move, CanMove, TypeOK, ProcessTyped, requests
<1>11. ASSUME NEW t \in Tasks, Create(t) \/ CancelRun(t) \/ ReconcileRun(t)
       PROVE  UNCHANGED <<engine, recover, worker, requests, faults, starts>>
              /\ (moves' = moves \/ Move)
  BY <1>11 DEF Create, CancelRun, ReconcileRun, counters
<1>12. ASSUME NEW n \in Nodes, StartNode(n) \/ CompleteNode(n) \/ FailNode(n)
       PROVE  UNCHANGED <<engine, recover, worker, requests, faults, starts>>
              /\ (moves' = moves \/ Move)
  BY <1>12 DEF StartNode, CompleteNode, FailNode, counters
<1>13. CASE PausePlan \/ ResumePlan \/ Bar \/ Diagnose \/ UNCHANGED vars
  <2>1. UNCHANGED <<engine, recover, worker, requests, faults, starts>>
    BY <1>13 DEF PausePlan, ResumePlan, Bar, Diagnose, vars, requests, counters
  <2>2. moves' = moves \/ Move
    BY <1>13 DEF PausePlan, ResumePlan, Bar, Diagnose, vars, counters
  <2> QED
    BY <1>10, <2>1, <2>2
<1>14. CASE Stop
  <2>1. worker' = [u \in Tasks |-> IF u \in Tasks THEN Cancelled(worker[u]) ELSE worker[u]]
    BY <1>14 DEF Stop
  <2>2. worker' \in [Tasks -> Worker]
    BY <2>1, CancelSomeEffect
  <2> QED
    BY <1>14, <2>2 DEF Stop, TypeOK, ProcessTyped, requests, counters
<1>15. CASE Stopped \/ Crash
  <2>1. Down
    BY <1>15 DEF Stopped, Crash
  <2>2. NoCancel \in [root: Tasks \cup {NoTask}, left: SUBSET Tasks]
    BY DEF NoCancel
  <2> QED
    BY <2>1, <2>2, IdleTyped DEF Down, TypeOK, ProcessTyped, counters
<1>16. CASE Reconcile
  BY <1>16 DEF Reconcile, TypeOK, ProcessTyped, requests
<1>17. CASE RecoverRuns
  BY <1>17 DEF RecoverRuns, ListPlanExecutions, TypeOK, ProcessTyped, requests, counters
<1>18. ASSUME NEW t \in Tasks, RecoverExecution(t) PROVE ProcessTyped'
  BY <1>18 DEF RecoverExecution, TypeOK, ProcessTyped, requests, counters
<1>19. CASE Serve
  BY <1>19 DEF Serve, TypeOK, ProcessTyped, requests, counters
<1> QED
  BY <1>1, <1>2, <1>3, <1>4, <1>5, <1>6, <1>7, <1>8, <1>9, <1>10, <1>11, <1>12, <1>13, <1>14,
     <1>15, <1>16, <1>17, <1>18, <1>19
  DEF Next, StartUp

(* Types are preserved. *)
LEMMA TypeStep == ASSUME IInv, [Next]_vars PROVE TypeOK'
<1>1. StoreTyped' /\ ProcessTyped' => TypeOK'
  BY DEF TypeOK, StoreTyped, ProcessTyped
<1> QED
  BY <1>1, StoreStep, ProcessStep

-----------------------------------------------------------------------------
(* The store                                                               *)

LedgerInv ==
  /\ RunsInOrder /\ ActiveIsOpen
  /\ SettledTogether /\ SuccessIsProven
  /\ RevokedStops /\ CancelledNeverSucceeds

(* What the invariant says of one task. *)
TaskInv(t) ==
  /\ exec[t].status = "none" <=> exec[t].run = 0
  /\ \A k \in Runs : k > exec[t].run =>
       /\ run[t][k] = "none" /\ <<t, k>> \notin revoked
       /\ \A c \in Calls : effect[t][k][c] = "none"
  /\ Active(t) =>
       /\ task[t] # "absent"
       /\ node[NodeOf[t]] \in {"running", "failed", "cancelled"}
       /\ RunOf(t) \in RunStatus \ {"completed"}
       /\ <<t, exec[t].run>> \in revoked => ~TaskMayRun(t)
  /\ Settled(t) =>
       /\ RunOf(t) \in RunTerminal /\ ExecFor(RunOf(t)) = exec[t].status
       /\ task[t] = TaskOf(exec[t].status)
  /\ exec[t].status = "succeeded" =>
       /\ \E c \in Calls : EffectsOf(t)[c] = "committed"
       /\ ~Open(EffectsOf(t))
       /\ <<t, exec[t].run>> \notin revoked

(* The invariant of the store, task by task. *)
LEMMA LedgerByTask == LedgerInv <=> \A t \in Tasks: TaskInv(t)
BY DEF LedgerInv, TaskInv, RunsInOrder, ActiveIsOpen, SettledTogether, SuccessIsProven, RevokedStops,
       CancelledNeverSucceeds

(* An execution is none of none, under way and settled twice. *)
LEMMA StatusKnown ==
  ASSUME TypeOK, NEW t \in Tasks
  PROVE  /\ exec[t].status = "none" \/ Active(t) \/ Settled(t)
         /\ Active(t) => ~Settled(t) /\ exec[t].status # "none"
         /\ Settled(t) => exec[t].status # "none"
         /\ exec[t].run \in 0 .. MaxRuns
BY DEF TypeOK, Execution, Active, Settled, ExecActive, ExecTerminal

(* An execution that was claimed names one of the runs. *)
LEMMA RunOpened ==
  ASSUME TypeOK, NEW t \in Tasks, TaskInv(t), Active(t) \/ Settled(t)
  PROVE  exec[t].run \in Runs
<1>1. exec[t].run # 0
  <2>1. exec[t].run = 0 => exec[t].status = "none"
    BY DEF TaskInv
  <2> QED
    BY <2>1, StatusKnown
<1> QED
  BY <1>1, StatusKnown, Constants DEF Runs

(* A run after the last one claimed has no trace yet. *)
LEMMA RunUnopened ==
  ASSUME NEW t \in Tasks, TaskInv(t), NEW k \in Runs, k > exec[t].run
  PROVE  /\ run[t][k] = "none" /\ <<t, k>> \notin revoked
         /\ \A c \in Calls : effect[t][k][c] = "none"
BY DEF TaskInv

(* What keeps the invariant of a task whose execution is neither claimed   *)
(* nor settled: a run ends only under an execution under way, the calls of *)
(* a success and the end of a settled task are left alone, a cancellation  *)
(* that covers the run stops the task, and the node stays started.         *)
LEMMA TaskKept ==
  ASSUME TypeOK, NEW t \in Tasks, TaskInv(t),
         exec'[t].run = exec[t].run,
         exec'[t].status = exec[t].status \/ (Active(t) /\ exec'[t].status \in ExecActive),
         \A k \in Runs: k > exec[t].run =>
           /\ run'[t][k] = run[t][k] /\ (<<t, k>> \in revoked' => <<t, k>> \in revoked)
           /\ \A c \in Calls: effect'[t][k][c] = effect[t][k][c],
         \A k \in Runs: k = exec[t].run =>
           /\ \/ run'[t][k] = run[t][k]
              \/ Active(t) /\ run'[t][k] \in RunStatus \ {"completed"}
           /\ \/ <<t, k>> \in revoked' => <<t, k>> \in revoked
              \/ Active(t) /\ task'[t] \notin {"queued", "running", "joining"}
           /\ exec[t].status = "succeeded" => \A c \in Calls: effect'[t][k][c] = effect[t][k][c],
         \/ task'[t] = task[t]
         \/ /\ task'[t] # "absent" /\ ~Settled(t)
            /\ Active(t) => TaskMayRun(t) \/ task'[t] \notin {"queued", "running", "joining"},
         \/ node'[NodeOf[t]] = node[NodeOf[t]]
         \/ ~Active(t)
         \/ node'[NodeOf[t]] \in {"running", "failed", "cancelled"}
  PROVE  TaskInv(t)'
<1>1. exec[t].run # 0 => exec[t].run \in Runs
  BY StatusKnown, Constants DEF Runs
<1>2. /\ exec[t].status = "none" => exec[t].run = 0
      /\ exec[t].run = 0 => exec[t].status = "none"
  BY DEF TaskInv
<1>3. exec'[t].status = "none" <=> exec'[t].run = 0
  BY <1>2, StatusKnown DEF ExecActive
<1>4. ASSUME Active(t)'
      PROVE  /\ task'[t] # "absent"
             /\ node'[NodeOf[t]] \in {"running", "failed", "cancelled"}
             /\ RunOf(t)' \in RunStatus \ {"completed"}
             /\ <<t, exec'[t].run>> \in revoked' => task'[t] \notin {"queued", "running", "joining"}
  <2>1. Active(t) /\ exec[t].run \in Runs
    BY <1>1, <1>2, <1>4, StatusKnown DEF Active, ExecActive
  <2> QED
    BY <2>1, StatusKnown DEF TaskInv, RunOf, TaskMayRun
<1>5. ASSUME Settled(t)'
      PROVE  /\ RunOf(t)' \in RunTerminal /\ ExecFor(RunOf(t)') = exec'[t].status
             /\ task'[t] = TaskOf(exec'[t].status)
  <2>1. Settled(t) /\ exec'[t].status = exec[t].status /\ exec[t].run \in Runs
    BY <1>1, <1>2, <1>5, StatusKnown DEF Settled, ExecActive, ExecTerminal
  <2> QED
    BY <2>1, StatusKnown DEF TaskInv, RunOf
<1>6. ASSUME exec'[t].status = "succeeded"
      PROVE  /\ \E c \in Calls : EffectsOf(t)'[c] = "committed"
             /\ ~Open(EffectsOf(t)')
             /\ <<t, exec'[t].run>> \notin revoked'
  <2>1. exec[t].status = "succeeded" /\ Settled(t) /\ exec[t].run \in Runs
    BY <1>1, <1>2, <1>6, StatusKnown DEF Settled, ExecActive, ExecTerminal
  <2> QED
    BY <2>1, StatusKnown DEF TaskInv, EffectsOf, Open
<1> QED
  BY <1>3, <1>4, <1>5, <1>6 DEF TaskInv, TaskMayRun

(* Refusing and allowing: an execution gives up in any case unless its     *)
(* node was failed or cancelled.                                           *)
LEMMA GivingUpAllowed ==
  ASSUME TypeOK, NEW t \in Tasks, TaskInv(t), Active(t),
         NEW asked \in {"failed", "cancelled", "interrupted"},
         ~FinishAllowed(t, exec[t].run, asked, {})
  PROVE  node[NodeOf[t]] \in {"failed", "cancelled"}
<1>1. asked \in ExecTerminal /\ NodeOf[t] \in Nodes
  BY Constants DEF ExecTerminal
<1>2. PICK s \in ExecTerminal: s = Outcome(t, asked)
  BY <1>1, OutcomeKnown
<1>3. Judged(t, asked) # "succeeded"
  BY DEF Judged
<1>4. s # "succeeded"
  <2>1. RunOf(t) # "completed"
    BY DEF TaskInv
  <2> QED
    BY <1>2, <1>3, <2>1 DEF Outcome, ExecFor, RunTerminal
<1>5. TaskAfter(t, s)[t] \in {"failed", "cancelled"}
  <2>1. TaskOf(s) \in {"failed", "cancelled"}
    BY <1>4 DEF TaskOf, ExecTerminal
  <2> QED
    BY <2>1 DEF TaskAfter, TypeOK
<1>6. NodeTarget(t, TaskAfter(t, s)) \in {node[NodeOf[t]], "failed", "cancelled"}
  BY <1>5, NodeTargetEffect
<1>7. ~MayBecome(NodeOf[t], NodeTarget(t, TaskAfter(t, s)), TaskAfter(t, s), ExecAfter(t, s))
  BY <1>2, <1>3, <1>4 DEF FinishAllowed
<1>8. node[NodeOf[t]] \in {"running", "failed", "cancelled"}
  BY DEF TaskInv
<1> QED
  BY <1>6, <1>7, <1>8 DEF MayBecome, NodeMove

(* A settlement: the task and its run end as the execution does, a success *)
(* is proven and was not cancelled, and the node completes over no other   *)
(* execution that is still under way.                                      *)
LEMMA FinishInv ==
  ASSUME TypeOK, \A u \in Tasks: TaskInv(u), revoked' = revoked,
         NEW t \in Tasks, NEW asked \in ExecTerminal, NEW j, NEW receipts \in SUBSET Calls,
         Active(t), FinishAllowed(t, j, asked, receipts), Finish(t, asked)
  PROVE  /\ \A u \in Tasks: TaskInv(u)'
         /\ \A n \in Nodes: node[n] # "completed" /\ node'[n] = "completed" =>
              Verified(n, task', exec')
<1>1. PICK s \in ExecTerminal: s = Outcome(t, asked)
  BY OutcomeKnown
<1>2. PICK k \in Runs: k = exec[t].run
  BY RunOpened
<1>3. /\ exec' = ExecAfter(t, s) /\ task' = TaskAfter(t, s)
      /\ exec'[t].status = s /\ exec'[t].run = k
      /\ task'[t] = TaskOf(s)
      /\ run'[t][k] \in RunTerminal /\ ExecFor(run'[t][k]) = s
      /\ effect'[t][k] = CloseCalls(effect[t][k])
      /\ node'[NodeOf[t]] = NodeTarget(t, task')
      /\ \A m \in Nodes: m # NodeOf[t] => node'[m] = node[m]
  <2>1. exec' = ExecAfter(t, s) /\ task' = TaskAfter(t, s)
    BY <1>1 DEF Finish
  <2> QED
    BY <1>1, <1>2, <2>1, FinishEffect
<1>4. /\ \A u \in Tasks: u # t => exec'[u] = exec[u] /\ task'[u] = task[u]
      /\ \A u \in Tasks, i \in Runs: u # t \/ i # k => run'[u][i] = run[u][i] /\ effect'[u][i] = effect[u][i]
  BY <1>2, FinishEffect
<1>5. node'[NodeOf[t]] \in {node[NodeOf[t]], "failed", "cancelled", "completed"}
  BY <1>3, NodeTargetEffect
<1>6. node[NodeOf[t]] # "completed" /\ node'[NodeOf[t]] = "completed" => Verified(NodeOf[t], task', exec')
  BY <1>1, <1>3 DEF FinishAllowed, MayBecome
<1>7. ASSUME NEW u \in Tasks, u # t PROVE TaskInv(u)'
  <2>1. \/ node'[NodeOf[u]] = node[NodeOf[u]] \/ ~Active(u)
        \/ node'[NodeOf[u]] \in {"running", "failed", "cancelled"}
    <3>1. CASE NodeOf[u] # NodeOf[t]
      BY <1>3, <3>1, Constants
    <3>2. CASE NodeOf[u] = NodeOf[t] /\ Active(u) /\ node[NodeOf[t]] # "completed" /\ node'[NodeOf[t]] = "completed"
      <4>1. task[u] # "absent"
        BY <3>2 DEF TaskInv
      <4>2. exec[u].status = "succeeded"
        BY <1>4, <1>6, <1>7, <3>2, <4>1 DEF Verified
      <4> QED
        BY <3>2, <4>2 DEF Active, ExecActive
    <3> QED
      BY <1>5, <3>1, <3>2
  <2> QED
    BY <1>4, <1>7, <2>1, TaskKept
<1>8. ASSUME s = "succeeded"
      PROVE  /\ \E c \in Calls: effect'[t][k][c] = "committed"
             /\ ~Open(effect'[t][k])
             /\ <<t, k>> \notin revoked
  <2>1. Judged(t, asked) = "succeeded"
    <3>1. RunOf(t) # "completed"
      BY DEF TaskInv
    <3> QED
      BY <1>1, <1>8, <3>1 DEF Outcome, ExecFor, RunTerminal
  <2>2. Ready(t) /\ Proven(t, receipts) /\ ~Open(EffectsOf(t))
    BY <2>1 DEF FinishAllowed, Judged
  <2>3. EffectsOf(t) = effect[t][k] /\ effect[t][k] \in [Calls -> {"none"} \cup EffectStatus]
    BY <1>2 DEF EffectsOf, TypeOK
  <2>4. \A c \in Calls: effect'[t][k][c] = effect[t][k][c]
    BY <1>3, <2>2, <2>3, CloseCallsEffect DEF Open
  <2>5. PICK c \in Calls: effect[t][k][c] = "committed"
    BY <2>2, <2>3 DEF Proven
  <2>6. <<t, k>> \notin revoked
    BY <1>2, <2>2 DEF TaskInv, Ready
  <2> QED
    BY <2>2, <2>3, <2>4, <2>5, <2>6 DEF Open
<1>9. TaskInv(t)'
  <2>1. /\ exec'[t].status # "none" /\ exec'[t].run # 0
        /\ ~Active(t)'
    BY <1>2, <1>3, Constants DEF ExecTerminal, Active, ExecActive, Runs
  <2>2. \A i \in Runs: i > exec'[t].run =>
          /\ run'[t][i] = "none" /\ <<t, i>> \notin revoked'
          /\ \A c \in Calls : effect'[t][i][c] = "none"
    <3>1. ASSUME NEW i \in Runs, i > k
          PROVE  /\ run'[t][i] = run[t][i] /\ effect'[t][i] = effect[t][i]
      BY <1>4, <3>1, Constants
    <3>2. \A i \in Runs: i > exec[t].run =>
            /\ run[t][i] = "none" /\ <<t, i>> \notin revoked
            /\ \A c \in Calls : effect[t][i][c] = "none"
      BY DEF TaskInv
    <3> QED
      BY <1>2, <1>3, <3>1, <3>2
  <2> QED
    BY <1>3, <1>8, <2>1, <2>2 DEF TaskInv, RunOf, EffectsOf
<1>10. \A n \in Nodes: node[n] # "completed" /\ node'[n] = "completed" => Verified(n, task', exec')
  BY <1>3, <1>6
<1> QED
  BY <1>7, <1>9, <1>10

(* A claim: the run is new, and nothing was done or cancelled in it.       *)
LEMMA ClaimInv ==
  ASSUME TypeOK, \A u \in Tasks: TaskInv(u), NEW t \in Tasks, Claim(t)
  PROVE  \A u \in Tasks: TaskInv(u)'
<1>1. PICK k \in Runs: k = exec[t].run + 1
  BY ClaimEffect
<1>2. UNCHANGED <<effect, revoked>>
  BY DEF Claim, history
<1>3. /\ exec'[t].status = "running" /\ exec'[t].run = k
      /\ task'[t] = "running"
      /\ run'[t][k] = "running"
      /\ node'[NodeOf[t]] = "running"
      /\ \A n \in Nodes: n # NodeOf[t] => node'[n] = node[n]
  BY <1>1, ClaimEffect
<1>4. /\ \A u \in Tasks: u # t => exec'[u] = exec[u] /\ task'[u] = task[u]
      /\ \A u \in Tasks, j \in Runs: u # t \/ j # k => run'[u][j] = run[u][j]
  BY <1>1, ClaimEffect
<1>5. ASSUME NEW u \in Tasks, u # t PROVE TaskInv(u)'
  BY <1>2, <1>3, <1>4, <1>5, TaskKept, Constants
<1>6. TaskInv(t)'
  <2>1. ~Settled(t)' /\ exec'[t].status # "succeeded" /\ k # 0
    BY <1>3, Constants DEF Settled, ExecTerminal, Runs
  <2>2. \A j \in Runs: j > k =>
          /\ run'[t][j] = "none" /\ <<t, j>> \notin revoked'
          /\ \A c \in Calls : effect'[t][j][c] = "none"
    <3>1. exec[t].run \in Nat
      BY StatusKnown, Constants
    <3>2. \A j \in Runs: j > k => j > exec[t].run /\ j # k
      BY <1>1, <3>1, Constants
    <3>3. \A j \in Runs: j > exec[t].run =>
            /\ run[t][j] = "none" /\ <<t, j>> \notin revoked
            /\ \A c \in Calls : effect[t][j][c] = "none"
      BY DEF TaskInv
    <3> QED
      BY <1>2, <1>4, <3>2, <3>3
  <2>3. <<t, k>> \notin revoked'
    <3>1. exec[t].run \in Nat
      BY StatusKnown, Constants
    <3>2. k > exec[t].run
      BY <1>1, <3>1
    <3> QED
      BY <1>2, <3>2 DEF TaskInv
  <2>4. RunOf(t)' \in RunStatus \ {"completed"}
    BY <1>3 DEF RunOf, RunStatus, RunActive
  <2> QED
    BY <1>3, <2>1, <2>2, <2>3, <2>4 DEF TaskInv
<1> QED
  BY <1>5, <1>6

(* A step on the nodes only.                                               *)
LEMMA NodeInv ==
  ASSUME TypeOK, \A u \in Tasks: TaskInv(u), UNCHANGED <<task, exec, run, effect, revoked>>,
         NEW n \in Nodes, StartNode(n) \/ CompleteNode(n) \/ FailNode(n)
  PROVE  /\ \A u \in Tasks: TaskInv(u)'
         /\ \A m \in Nodes: node[m] # "completed" /\ node'[m] = "completed" =>
              Verified(m, task', exec')
<1>1. PICK to \in {"running", "completed", "failed"}:
        /\ SetNode(n, to)
        /\ to = "completed" => node[n] = "running" /\ MayBecome(n, to, task, exec)
  BY DEF StartNode, CompleteNode, FailNode
<1>2. to \in NodeStatus
  BY DEF NodeStatus
<1>3. node'[n] = to /\ \A m \in Nodes: m # n => node'[m] = node[m]
  BY <1>1, <1>2, SetNodeEffect
<1>4. to = "completed" => Verified(n, task, exec)
  BY <1>1 DEF MayBecome
<1>5. ASSUME NEW u \in Tasks PROVE TaskInv(u)'
  <2>1. CASE NodeOf[u] = n /\ to = "completed" /\ Active(u)
    <3>1. exec[u].status = "succeeded"
      BY <1>4, <2>1 DEF Verified, TaskInv
    <3> QED
      BY <2>1, <3>1 DEF Active, ExecActive
  <2>2. CASE NodeOf[u] # n \/ to # "completed" \/ ~Active(u)
    <3>1. \/ node'[NodeOf[u]] = node[NodeOf[u]] \/ ~Active(u)
          \/ node'[NodeOf[u]] \in {"running", "failed", "cancelled"}
      BY <1>3, <2>2, Constants
    <3>2. TaskInv(u)
      OBVIOUS
    <3> QED
      BY <3>1, <3>2, TaskKept
  <2> QED
    BY <2>1, <2>2
<1> QED
  BY <1>3, <1>4, <1>5

(* A step on tasks only: those that end, end; those that were told to stop *)
(* are not started again.                                                  *)
LEMMA TasksInv ==
  ASSUME TypeOK, \A u \in Tasks: TaskInv(u), UNCHANGED <<node, exec, run, effect>>,
         \/ revoked' = revoked /\ ((\E t \in Tasks: Create(t) \/ JoinChildren(t)) \/ Reconcile)
         \/ CancelTree
  PROVE  \A u \in Tasks: TaskInv(u)'
<1>1. ASSUME NEW u \in Tasks PROVE Settled(u) => task[u] \in TaskTerminal
  <2>1. Settled(u) => task[u] = TaskOf(exec[u].status)
    BY DEF TaskInv
  <2> QED
    BY <2>1 DEF Settled, TaskOf, ExecTerminal, TaskTerminal
<1>2. ASSUME NEW u \in Tasks PROVE Active(u) => task[u] # "absent"
  BY DEF TaskInv
<1>3. ASSUME NEW t \in Tasks, Create(t), revoked' = revoked PROVE \A u \in Tasks: TaskInv(u)'
  <2>1. \A u \in Tasks: u # t => task'[u] = task[u]
    BY <1>3 DEF Create, TypeOK
  <2>2. task'[t] = "queued" /\ task[t] = "absent"
    BY <1>3 DEF Create, TypeOK
  <2>3. ~Settled(t) /\ ~Active(t)
    BY <1>1, <1>2, <2>2 DEF TaskTerminal
  <2> QED
    BY <1>3, <2>1, <2>2, <2>3, TaskKept
<1>4. ASSUME NEW t \in Tasks, JoinChildren(t), revoked' = revoked PROVE \A u \in Tasks: TaskInv(u)'
  <2>1. ASSUME NEW u \in Tasks PROVE TaskInv(u)'
    <3>1. CASE task'[u] = task[u]
      BY <1>4, <3>1, TaskKept
    <3>2. CASE task[u] \in {"running", "joining"} /\ task'[u] \in {"joining", "succeeded", "failed"}
      <4>1. ~Settled(u) /\ TaskMayRun(u)
        BY <1>1, <3>2 DEF TaskTerminal, TaskMayRun
      <4> QED
        BY <1>4, <3>2, <4>1, TaskKept
    <3> QED
      BY <1>4, <3>1, <3>2, JoinEffect
  <2> QED
    BY <2>1
<1>5. ASSUME Reconcile, revoked' = revoked PROVE \A u \in Tasks: TaskInv(u)'
  <2>1. ASSUME NEW u \in Tasks PROVE TaskInv(u)'
    <3>1. task'[u] = Reconciled(task[u])
      BY <1>5, ReconcileEffect
    <3>2. CASE task[u] \in {"running", "joining", "cancel_requested"}
      <4>1. ~Settled(u) /\ task'[u] \in {"queued", "cancelled"}
            /\ (TaskMayRun(u) \/ task'[u] = "cancelled")
        BY <1>1, <3>1, <3>2 DEF TaskTerminal, TaskMayRun, Reconciled
      <4> QED
        BY <1>5, <4>1, TaskKept
    <3>3. CASE task[u] \notin {"running", "joining", "cancel_requested"}
      <4>1. task'[u] = task[u]
        BY <3>1, <3>3 DEF Reconciled
      <4> QED
        BY <1>5, <4>1, TaskKept
    <3> QED
      BY <3>2, <3>3
  <2> QED
    BY <2>1
<1>6. ASSUME CancelTree PROVE \A u \in Tasks: TaskInv(u)'
  <2>1. RunsInOrder
    BY DEF RunsInOrder, TaskInv
  <2>2. ASSUME NEW u \in Tasks PROVE TaskInv(u)'
    <3>1. CASE task'[u] = task[u] /\ \A k \in Runs: <<u, k>> \in revoked' => <<u, k>> \in revoked
      BY <3>1, TaskKept
    <3>2. CASE /\ task'[u] = CancelledTask(task[u])
               /\ \A k \in Runs: <<u, k>> \in revoked' =>
                    <<u, k>> \in revoked \/ (Active(u) /\ k = exec[u].run)
      <4>1. exec[u].run \in Nat
        BY StatusKnown, Constants
      <4>2. task'[u] \notin {"queued", "running", "joining"}
        BY <3>2 DEF CancelledTask
      <4>3. task'[u] = task[u] \/ (task'[u] # "absent" /\ ~Settled(u))
        BY <1>1, <3>2 DEF CancelledTask, TaskTerminal
      <4>4. \A k \in Runs: k > exec[u].run =>
              (<<u, k>> \in revoked' => <<u, k>> \in revoked)
        BY <3>2, <4>1
      <4>5. \A k \in Runs: k = exec[u].run =>
              \/ <<u, k>> \in revoked' => <<u, k>> \in revoked
              \/ Active(u) /\ task'[u] \notin {"queued", "running", "joining"}
        BY <3>2, <4>2
      <4> QED
        BY <4>2, <4>3, <4>4, <4>5, TaskKept
    <3> QED
      BY <1>6, <2>1, <3>1, <3>2, CancelTreeEffect
  <2> QED
    BY <2>2
<1> QED
  BY <1>3, <1>4, <1>5, <1>6

(* A step on the journal of the runs under way. *)
LEMMA JournalInv ==
  ASSUME TypeOK, \A u \in Tasks: TaskInv(u), UNCHANGED <<node, task, exec, run, revoked>>,
         NEW t \in Tasks, Active(t), NEW c \in Calls, NEW s \in EffectStatus,
         effect' = [effect EXCEPT ![t][exec[t].run][c] = s]
  PROVE  \A u \in Tasks: TaskInv(u)'
<1>1. PICK k \in Runs: k = exec[t].run
  BY RunOpened
<1>2. \A u \in Tasks, j \in Runs, d \in Calls: u # t \/ j # k => effect'[u][j][d] = effect[u][j][d]
  BY <1>1, WriteCall
<1>3. exec[t].status # "succeeded"
  BY DEF Active, ExecActive
<1>4. ASSUME NEW u \in Tasks, u # t PROVE TaskInv(u)'
  BY <1>2, <1>4, TaskKept
<1>5. \A j \in Runs: j > exec[t].run => j # k
  BY <1>1, Constants
<1>6. TaskInv(t)'
  BY <1>2, <1>3, <1>5, TaskKept
<1> QED
  BY <1>4, <1>6

(* A step on the runs under way: a cancellation behind the task, a sweep.  *)
LEMMA CancelRunInv ==
  ASSUME TypeOK, \A u \in Tasks: TaskInv(u), NEW t \in Tasks, CancelRun(t)
  PROVE  \A u \in Tasks: TaskInv(u)'
<1>1. UNCHANGED <<node, task, exec, effect, revoked>>
  BY DEF CancelRun, planning, history
<1>2. exec[t].run # 0 /\ RunOf(t) = "running"
  BY DEF CancelRun
<1>3. Active(t)
  <2>1. ~Settled(t)
    BY <1>2 DEF TaskInv, RunTerminal
  <2>2. exec[t].status # "none"
    BY <1>2 DEF TaskInv
  <2> QED
    BY <2>1, <2>2, StatusKnown
<1>4. PICK k \in Runs: k = exec[t].run
  BY <1>3, RunOpened
<1>5. run'[t][k] = "cancelled"
      /\ \A u \in Tasks, j \in Runs: u # t \/ j # k => run'[u][j] = run[u][j]
  <2>1. run' = [run EXCEPT ![t][k] = "cancelled"]
    BY <1>4 DEF CancelRun
  <2>2. run \in [Tasks -> [Runs -> {"none"} \cup RunStatus]] /\ "cancelled" \in {"none"} \cup RunStatus
    BY DEF TypeOK, RunStatus, RunTerminal
  <2> QED
    BY <2>1, <2>2, WriteCell
<1>6. ASSUME NEW u \in Tasks, u # t PROVE TaskInv(u)'
  BY <1>1, <1>5, <1>6, TaskKept
<1>7. TaskInv(t)'
  <2>1. \A j \in Runs: j > exec[t].run => run'[t][j] = run[t][j]
    <3>1. \A j \in Runs: j > exec[t].run => j # k
      BY <1>4, Constants
    <3> QED
      BY <1>5, <3>1
  <2>2. \A j \in Runs: j = exec[t].run => run'[t][j] \in RunStatus \ {"completed"}
    BY <1>4, <1>5 DEF RunStatus, RunTerminal
  <2> QED
    BY <1>1, <1>3, <2>1, <2>2, TaskKept
<1> QED
  BY <1>6, <1>7

(* A sweep ends runs under way and the calls prepared in them. *)
LEMMA ScanInv ==
  ASSUME TypeOK, \A u \in Tasks: TaskInv(u), Scan, UNCHANGED <<node, task, exec, revoked>>
  PROVE  \A u \in Tasks: TaskInv(u)'
<1>1. ASSUME NEW u \in Tasks PROVE TaskInv(u)'
  <2>1. ASSUME NEW k \in Runs, k > exec[u].run
        PROVE  run'[u][k] = run[u][k] /\ \A c \in Calls: effect'[u][k][c] = effect[u][k][c]
    <3>1. run[u][k] = "none" /\ \A c \in Calls: effect[u][k][c] = "none"
      BY <2>1, RunUnopened
    <3>2. /\ run'[u][k] = run[u][k] \/ run[u][k] \in RunActive
          /\ \A c \in Calls: effect'[u][k][c] = effect[u][k][c] \/ effect[u][k][c] = "prepared"
      BY ScanEffect
    <3> QED
      BY <3>1, <3>2 DEF RunActive
  <2>2. ASSUME NEW k \in Runs, k = exec[u].run
        PROVE  /\ \/ run'[u][k] = run[u][k]
                  \/ Active(u) /\ run'[u][k] \in RunStatus \ {"completed"}
               /\ exec[u].status = "succeeded" => \A c \in Calls: effect'[u][k][c] = effect[u][k][c]
    <3>1. run[u][k] \in RunActive => Active(u)
      <4>1. exec[u].status # "none"
        <5>1. TaskInv(u) /\ exec[u].run # 0
          BY <2>2 DEF Runs
        <5> QED
          BY <5>1 DEF TaskInv
      <4>2. Settled(u) => run[u][k] \in RunTerminal
        BY <2>2 DEF TaskInv, RunOf
      <4> QED
        BY <4>1, <4>2, StatusKnown DEF RunActive, RunTerminal
    <3>2. run'[u][k] = run[u][k] \/ (run[u][k] \in RunActive /\ run'[u][k] \in {"interrupted", "outcome_unknown"})
      BY ScanEffect
    <3>3. exec[u].status = "succeeded" => ~Open(effect[u][k])
      BY <2>2 DEF TaskInv, EffectsOf
    <3>4. exec[u].status = "succeeded" => \A c \in Calls: effect'[u][k][c] = effect[u][k][c]
      BY <3>3, ScanEffect DEF Open
    <3> QED
      BY <3>1, <3>2, <3>4 DEF RunStatus, RunTerminal
  <2> QED
    BY <2>1, <2>2, TaskKept
<1> QED
  BY <1>1

(* A run that a user reconciles: only calls prepared in it change. *)
LEMMA ReconcileRunInv ==
  ASSUME TypeOK, \A u \in Tasks: TaskInv(u), NEW t \in Tasks, ReconcileRun(t)
  PROVE  \A u \in Tasks: TaskInv(u)'
<1>1. UNCHANGED <<node, task, exec, run, revoked>>
  BY ReconcileRunEffect
<1>2. ASSUME NEW u \in Tasks PROVE TaskInv(u)'
  <2>1. ASSUME NEW k \in Runs, k > exec[u].run, NEW c \in Calls
        PROVE  effect'[u][k][c] = effect[u][k][c]
    <3>1. effect[u][k][c] = "none"
      BY <1>2, <2>1, RunUnopened
    <3>2. \/ effect'[u][k][c] = effect[u][k][c]
          \/ effect[u][k][c] = "prepared"
      BY ReconcileRunEffect
    <3> QED
      BY <3>1, <3>2
  <2>2. ASSUME NEW k \in Runs, k = exec[u].run, exec[u].status = "succeeded", NEW c \in Calls
        PROVE  effect'[u][k][c] = effect[u][k][c]
    <3>1. ~Open(effect[u][k])
      BY <1>2, <2>2 DEF TaskInv, EffectsOf
    <3>2. \/ effect'[u][k][c] = effect[u][k][c]
          \/ effect[u][k][c] = "prepared"
      BY ReconcileRunEffect
    <3> QED
      BY <3>1, <3>2 DEF Open
  <2> QED
    BY <1>1, <2>1, <2>2, TaskKept
<1> QED
  BY <1>2

(* An execution that is told to stop is still under way. *)
LEMMA CancelExecutionInv ==
  ASSUME TypeOK, \A u \in Tasks: TaskInv(u), NEW t \in Tasks, CancelExecution(t)
  PROVE  \A u \in Tasks: TaskInv(u)'
<1>1. UNCHANGED <<node, run, effect, revoked>>
  BY DEF CancelExecution, planning, ledger, history
<1>2. ASSUME NEW u \in Tasks, exec'[u] = exec[u], task'[u] = task[u] PROVE TaskInv(u)'
  BY <1>1, <1>2, TaskKept
<1>3. CASE exec' = exec /\ task' = task
  BY <1>2, <1>3
<1>4. CASE /\ exec[t].status = "running" /\ exec'[t].status = "cancel_requested"
           /\ exec'[t].run = exec[t].run
           /\ task'[t] = "cancel_requested"
  <2>1. Active(t) /\ ~Settled(t) /\ exec'[t].status \in ExecActive
    BY <1>4 DEF Active, Settled, ExecActive, ExecTerminal
  <2>2. TaskInv(t)'
    BY <1>1, <1>4, <2>1, TaskKept
  <2> QED
    BY <1>2, <2>2, CancelExecutionEffect
<1> QED
  BY <1>3, <1>4, CancelExecutionEffect

(* A settlement or its refusal, whoever asks for it. *)
LEMMA FinishStep ==
  ASSUME TypeOK, \A u \in Tasks: TaskInv(u), revoked' = revoked,
         NEW t \in Tasks, NEW asked \in ExecTerminal, NEW j, NEW receipts \in SUBSET Calls,
         \/ FinishAllowed(t, j, asked, receipts) /\ Finish(t, asked)
         \/ UNCHANGED <<planning, task, exec, ledger>>
  PROVE  /\ \A u \in Tasks: TaskInv(u)'
         /\ \A n \in Nodes: node[n] # "completed" /\ node'[n] = "completed" =>
              Verified(n, task', exec')
<1>1. CASE Active(t) /\ FinishAllowed(t, j, asked, receipts) /\ Finish(t, asked)
  BY <1>1, FinishInv
<1>2. CASE UNCHANGED <<planning, task, exec, ledger>>
  BY <1>2, TaskKept DEF planning, ledger
<1> QED
  BY <1>1, <1>2 DEF Finish

(* Every step keeps what the invariant says of each task, and completes a  *)
(* node only over tasks that succeeded.                                    *)
LEMMA LedgerStep ==
  ASSUME IInv, [Next]_vars
  PROVE  /\ LedgerInv'
         /\ \A n \in Nodes: node[n] # "completed" /\ node'[n] = "completed" =>
              Verified(n, task', exec')
<1> DEFINE Goal == /\ \A u \in Tasks: TaskInv(u)'
                   /\ \A n \in Nodes: node[n] # "completed" /\ node'[n] = "completed" =>
                        Verified(n, task', exec')
<1>a. TypeOK /\ RunsInOrder /\ WorkerKnows /\ \A u \in Tasks: TaskInv(u)
  BY LedgerByTask DEF IInv, LedgerInv
<1>b. SUFFICES Goal
  <2>1. LedgerInv' <=> \A u \in Tasks: TaskInv(u)'
    BY DEF LedgerInv, TaskInv, RunsInOrder, ActiveIsOpen, SettledTogether, SuccessIsProven, RevokedStops,
           CancelledNeverSucceeds
  <2> QED
    BY <2>1
<1> HIDE DEF Goal
<1>0. CASE node' = node /\ \A u \in Tasks: TaskInv(u)'
  BY <1>0 DEF Goal
<1>1. ASSUME NEW t \in Tasks, Working(t) PROVE Goal
  <2>1. CASE Claim(t)
    <3>1. node'[NodeOf[t]] = "running" /\ \A n \in Nodes: n # NodeOf[t] => node'[n] = node[n]
      BY <1>a, <2>1, ClaimEffect
    <3> QED
      BY <1>a, <2>1, <3>1, ClaimInv DEF Goal
  <2>2. CASE Prepare(t)
    <3>1. PICK c \in Calls: effect' = [effect EXCEPT ![t][exec[t].run][c] = "prepared"]
      BY <2>2 DEF Prepare, RunningPlan
    <3>2. Active(t) /\ "prepared" \in EffectStatus
      BY <2>2 DEF Prepare, RunningPlan, Active, ExecActive, EffectStatus
    <3>3. UNCHANGED <<node, task, exec, run, revoked>>
      BY <2>2 DEF Prepare, planning, history
    <3> QED
      BY <1>0, <1>a, <3>1, <3>2, <3>3, JournalInv
  <2>3. CASE Receipt(t)
    <3>1. UNCHANGED <<node, task, exec, run, revoked>>
      BY <2>3 DEF Receipt, planning, history
    <3>2. CASE effect' = effect
      BY <1>0, <1>a, <3>1, <3>2, TaskKept
    <3>3. CASE effect' # effect
      <4>1. PICK s \in ReceiptStatus(t):
              effect' = [effect EXCEPT ![t][worker[t].run][worker[t].call] = s]
        BY <2>3, <3>3 DEF Receipt
      <4>2. s \in EffectStatus
        BY DEF ReceiptStatus, EffectStatus, EffectTerminal
      <4>3. /\ Active(t) /\ worker[t].run = exec[t].run /\ worker[t].call \in Calls
        BY <1>a, <2>3, WorkerHolds DEF Receipt, Returned, Attended
      <4> QED
        BY <1>0, <1>a, <3>1, <4>1, <4>2, <4>3, JournalInv
    <3> QED
      BY <3>2, <3>3
  <2>4. CASE FinishWork(t)
    <3>1. PICK receipts \in SUBSET Calls:
            \/ FinishAllowed(t, worker[t].run, "succeeded", receipts) /\ Finish(t, "succeeded")
            \/ UNCHANGED <<planning, task, exec, ledger>>
      BY <2>4 DEF FinishWork
    <3>2. revoked' = revoked /\ "succeeded" \in ExecTerminal
      BY <2>4 DEF FinishWork, history, ExecTerminal
    <3> QED
      BY <1>a, <3>1, <3>2, FinishStep DEF Goal
  <2>5. CASE FailWork(t)
    <3>1. \/ FinishAllowed(t, worker[t].run, worker[t].status, {}) /\ Finish(t, worker[t].status)
          \/ UNCHANGED <<planning, task, exec, ledger>>
      BY <2>5 DEF FailWork
    <3>2. revoked' = revoked /\ worker[t].status \in ExecTerminal
      BY <1>a, <2>5 DEF FailWork, history, TypeOK, Worker
    <3> QED
      BY <1>a, <3>1, <3>2, FinishStep DEF Goal
  <2>6. CASE Dispatch(t) \/ Refused(t) \/ GiveUp(t) \/ Exit(t)
    <3>1. UNCHANGED <<node, task, exec, run, effect, revoked>>
      BY <2>6 DEF Dispatch, Refused, GiveUp, Exit, planning, ledger, history
    <3> QED
      BY <1>0, <1>a, <3>1, TaskKept
  <2> QED
    BY <1>1, <2>1, <2>2, <2>3, <2>4, <2>5, <2>6 DEF Working
<1>2. ASSUME NEW t \in Tasks, RecoverExecution(t) PROVE Goal
  <2> DEFINE s == IF exec[t].status = "cancel_requested" THEN "cancelled" ELSE "interrupted"
  <2>1. \/ FinishAllowed(t, exec[t].run, s, {}) /\ Finish(t, s)
        \/ UNCHANGED <<planning, task, exec, ledger>>
    BY <1>2 DEF RecoverExecution
  <2>2. revoked' = revoked /\ s \in ExecTerminal
    BY <1>2 DEF RecoverExecution, history, ExecTerminal
  <2> HIDE DEF s
  <2> QED
    BY <1>a, <2>1, <2>2, FinishStep DEF Goal
<1>3. ASSUME NEW t \in Tasks, CancelExecution(t) PROVE Goal
  BY <1>0, <1>3, <1>a, CancelExecutionInv DEF CancelExecution, planning
<1>4. ASSUME NEW t \in Tasks, CancelRun(t) PROVE Goal
  BY <1>0, <1>4, <1>a, CancelRunInv DEF CancelRun, planning
<1>5. ASSUME NEW t \in Tasks, Create(t) \/ JoinChildren(t) PROVE Goal
  <2>1. UNCHANGED <<node, exec, run, effect, revoked>>
    BY <1>5 DEF Create, JoinChildren, planning, ledger, history
  <2> QED
    BY <1>0, <1>5, <1>a, <2>1, TasksInv
<1>6. CASE Reconcile
  <2>1. UNCHANGED <<node, exec, run, effect, revoked>>
    BY <1>6 DEF Reconcile, planning, ledger, history
  <2> QED
    BY <1>0, <1>6, <1>a, <2>1, TasksInv
<1>7. CASE CancelTree
  <2>1. UNCHANGED <<node, exec, run, effect>>
    BY <1>7 DEF CancelTree, planning, ledger
  <2> QED
    BY <1>0, <1>7, <1>a, <2>1, TasksInv
<1>8. CASE Diagnose \/ RecoverRuns
  <2>1. Scan /\ UNCHANGED <<node, task, exec, revoked>>
    BY <1>8 DEF Diagnose, RecoverRuns, planning, history
  <2> QED
    BY <1>0, <1>a, <2>1, ScanInv
<1>9. ASSUME NEW n \in Nodes, StartNode(n) \/ CompleteNode(n) \/ FailNode(n) PROVE Goal
  <2>1. UNCHANGED <<task, exec, run, effect, revoked>>
    BY <1>9 DEF StartNode, CompleteNode, FailNode, ledger, history
  <2> QED
    BY <1>9, <1>a, <2>1, NodeInv DEF Goal
<1>10. CASE UNCHANGED <<node, task, exec, run, effect, revoked>>
  BY <1>0, <1>10, <1>a, TaskKept
<1>11. ASSUME NEW t \in Tasks,
              \/ \E v \in Seen(t), ack \in BOOLEAN: Launch(t, v, ack)
              \/ StoreRefuses(t) \/ Expire(t) \/ CancelWorkers(t) \/ JoinAsked(t)
       PROVE  UNCHANGED <<node, task, exec, run, effect, revoked>>
  BY <1>11 DEF Launch, StoreRefuses, Expire, CancelWorkers, JoinAsked, planning, ledger, history
<1>12. CASE PausePlan \/ ResumePlan \/ Bar \/ Stop \/ Stopped \/ Crash \/ Serve \/ UNCHANGED vars
  <2>1. UNCHANGED <<node, task, exec, run, effect, revoked>>
    BY <1>12 DEF PausePlan, ResumePlan, Bar, Stop, Stopped, Crash, Down, Serve, vars, planning, ledger, history
  <2> QED
    BY <1>10, <2>1
<1>13. ASSUME NEW t \in Tasks, ReconcileRun(t) PROVE Goal
  BY <1>0, <1>13, <1>a, ReconcileRunInv, ReconcileRunEffect
<1> QED
  BY <1>1, <1>2, <1>3, <1>4, <1>5, <1>6, <1>7, <1>8, <1>9, <1>10, <1>11, <1>12, <1>13
  DEF Next, StartUp

-----------------------------------------------------------------------------
(* The process                                                             *)

(* While the process is down or starts, only start-up takes steps.         *)
LEMMA OnlyStartUp ==
  ASSUME IInv, [Next]_vars, engine \notin {"ready", "closing"}
  PROVE  StartUp \/ Down \/ UNCHANGED vars
<1>1. \A t \in Tasks: worker[t].pc = "none"
  BY DEF IInv, StartsAlone
<1>2. ~Serving
  BY DEF Serving
<1>3. ASSUME NEW t \in Tasks PROVE ~(Working(t) \/ StoreRefuses(t) \/ Expire(t))
  <2>1. worker[t].pc = "none"
    BY <1>1
  <2> QED
    BY <2>1 DEF Working, Claim, Refused, Prepare, Dispatch, Receipt, Returned, GiveUp, FinishWork,
                FailWork, Exit, StoreRefuses, Expire, Heeds
<1> QED
  BY <1>2, <1>3
  DEF Next, Create, Launch, CancelWorkers, CancelExecution, JoinAsked, JoinChildren, CancelRun,
      ReconcileRun, CancelTree, PausePlan, ResumePlan, Bar, Diagnose, Move, StartNode, CompleteNode,
      FailNode, Stop, Stopped, Crash

(* Nobody works before the process serves, whatever step is taken. *)
LEMMA StartsAloneStep ==
  ASSUME IInv, [Next]_vars
  PROVE  StartsAlone'
<1>1. CASE Down
  BY <1>1, IdleTyped DEF Down, StartsAlone
<1>2. CASE engine \in {"ready", "closing"} /\ ~Down
  <2>0. ASSUME NEW t \in Tasks, Receipt(t) \/ ReconcileRun(t) \/ Claim(t) \/ Prepare(t)
        PROVE  engine' = engine
    BY <2>0 DEF Receipt, ReconcileRun, Claim, Prepare
  <2>1. engine' \in {"ready", "closing"}
    BY <1>2, <2>0
    DEF Next, vars, StartUp, Working, Create, Launch, Refused, Dispatch,
        GiveUp, FinishWork, FailWork, Exit, StoreRefuses, Expire, CancelWorkers, CancelExecution,
        JoinAsked, JoinChildren, CancelRun, CancelTree, PausePlan, ResumePlan, Bar,
        Diagnose, Move, StartNode, CompleteNode, FailNode, Stop, Stopped, Crash, Reconcile, RecoverRuns,
        RecoverExecution, Serve
  <2> QED
    BY <2>1 DEF StartsAlone
<1>3. CASE engine \notin {"ready", "closing"} /\ (StartUp \/ UNCHANGED vars)
  <2>1. UNCHANGED <<worker, cancel, joins>>
    BY <1>3 DEF StartUp, Reconcile, RecoverRuns, RecoverExecution, Serve, vars, requests
  <2> QED
    BY <1>3, <2>1 DEF IInv, StartsAlone
<1> QED
  BY <1>1, <1>2, <1>3, OnlyStartUp

(* Start-up lists what it has to close after the sweep, and closes it. *)
LEMMA RecoveryKnowsStep ==
  ASSUME IInv, [Next]_vars
  PROVE  RecoveryKnows'
<1>a. TypeOK
  BY DEF IInv
<1>1. CASE engine' # "plans"
  BY <1>1 DEF RecoveryKnows
<1>2. CASE RecoverRuns
  <2>1. Scan /\ UNCHANGED exec /\ recover' = ListPlanExecutions
    BY <1>2 DEF RecoverRuns
  <2>2. ASSUME NEW t \in Tasks PROVE Active(t)' => t \in recover'
    BY <2>1 DEF ListPlanExecutions, Active
  <2>3. ASSUME NEW t \in Tasks, NEW k \in Runs
        PROVE  run'[t][k] \notin RunActive /\ \A c \in Calls: effect'[t][k][c] # "prepared"
    <3>1. \/ run'[t][k] = run[t][k] /\ run[t][k] \notin RunActive
          \/ run'[t][k] \in {"interrupted", "outcome_unknown"}
      BY <1>a, <2>1, ScanEffect
    <3>2. \A c \in Calls:
            \/ effect'[t][k][c] = effect[t][k][c] /\ effect[t][k][c] # "prepared"
            \/ effect'[t][k][c] = "outcome_unknown"
      BY <1>a, <2>1, ScanEffect
    <3> QED
      BY <3>1, <3>2 DEF RunActive
  <2> QED
    BY <2>2, <2>3 DEF RecoveryKnows
<1>3. ASSUME NEW t \in Tasks, RecoverExecution(t), engine' = "plans" PROVE RecoveryKnows'
  <2> DEFINE s == IF exec[t].status = "cancel_requested" THEN "cancelled" ELSE "interrupted"
  <2>1. engine = "plans" /\ Finish(t, s) /\ recover' = recover \ {t} /\ s \in ExecTerminal
    BY <1>3 DEF RecoverExecution, ExecTerminal
  <2>2. \A u \in Tasks: Active(u) => u \in recover
    BY <2>1 DEF IInv, RecoveryKnows
  <2>3. \A u \in Tasks, k \in Runs: run[u][k] \notin RunActive /\ \A c \in Calls: effect[u][k][c] # "prepared"
    BY <2>1 DEF IInv, RecoveryKnows
  <2> HIDE DEF s
  <2>4. CASE ~Active(t)
    <3>1. UNCHANGED <<exec, run, effect>>
      BY <2>1, <2>4 DEF Finish, ledger
    <3> QED
      BY <2>1, <2>2, <2>3, <2>4, <3>1 DEF RecoveryKnows, Active
  <2>5. CASE Active(t)
    <3>1. exec'[t].status \in ExecTerminal /\ \A u \in Tasks: u # t => exec'[u] = exec[u]
      BY <1>a, <2>1, <2>5, FinishEffect, OutcomeKnown
    <3>2. \A u \in Tasks: Active(u)' => u \in recover'
      BY <2>1, <2>2, <3>1 DEF Active, ExecActive, ExecTerminal
    <3>3. ASSUME NEW u \in Tasks, NEW k \in Runs
          PROVE  run'[u][k] \notin RunActive /\ \A c \in Calls: effect'[u][k][c] # "prepared"
      <4>1. CASE u # t \/ k # exec[t].run
        <5>1. run'[u][k] = run[u][k] /\ effect'[u][k] = effect[u][k]
          BY <1>a, <2>1, <2>5, <4>1, FinishEffect
        <5> QED
          BY <2>3, <5>1
      <4>2. CASE u = t /\ k = exec[t].run
        <5>1. run'[t][k] \in RunTerminal /\ effect'[t][k] = CloseCalls(effect[t][k])
          BY <1>a, <2>1, <2>5, <4>2, FinishEffect
        <5>2. effect[t][k] \in [Calls -> {"none"} \cup EffectStatus]
          BY <1>a DEF TypeOK
        <5>3. \A c \in Calls: CloseCalls(effect[t][k])[c] # "prepared"
          BY <5>2, CloseCallsEffect
        <5> QED
          BY <4>2, <5>1, <5>3 DEF RunActive, RunTerminal
      <4> QED
        BY <4>1, <4>2
    <3> QED
      BY <3>2, <3>3 DEF RecoveryKnows
  <2> QED
    BY <2>4, <2>5
<1>4. CASE engine = "plans" /\ UNCHANGED <<exec, run, effect, recover>>
  BY <1>4 DEF IInv, RecoveryKnows, Active
<1>5. CASE engine \in {"ready", "closing"}
  <2>1. engine' # "plans"
    BY <1>5
    DEF Next, vars, StartUp, Working, Create, Launch, Claim, Refused, Prepare, Dispatch, Receipt,
        GiveUp, FinishWork, FailWork, Exit, StoreRefuses, Expire, CancelWorkers, CancelExecution,
        JoinAsked, JoinChildren, CancelRun, ReconcileRun, CancelTree, PausePlan, ResumePlan, Bar,
        Diagnose, Move, StartNode, CompleteNode, FailNode, Stop, Stopped, Crash, Down, Reconcile,
        RecoverRuns, RecoverExecution, Serve
  <2> QED
    BY <1>1, <2>1
<1>6. CASE engine \notin {"ready", "closing"} /\ (StartUp \/ Down \/ UNCHANGED vars)
  <2>1. CASE Reconcile \/ Serve \/ Down
    BY <1>1, <2>1 DEF Reconcile, Serve, Down
  <2>2. CASE UNCHANGED vars
    BY <1>1, <1>4, <2>2 DEF vars
  <2> QED
    BY <1>1, <1>2, <1>3, <1>6, <2>1, <2>2 DEF StartUp
<1> QED
  BY <1>5, <1>6, OnlyStartUp

(* What the invariant says of one worker. *)
WorkerInv(t) ==
  /\ Attended(worker[t]) => Active(t) /\ worker[t].run = exec[t].run
  /\ worker[t].pc \in {"turn", "prepared", "executing"} =>
       \A c \in Calls : c > worker[t].call => effect[t][worker[t].run][c] = "none"
  /\ worker[t].pc \in {"prepared", "executing"} =>
       /\ worker[t].call \in Calls
       /\ effect[t][worker[t].run][worker[t].call] \in {"prepared", "outcome_unknown"}
  /\ worker[t].pc = "executing" => <<t, worker[t].run, worker[t].call>> \in acted
  /\ worker[t].pc = "fail" => worker[t].status \in {"failed", "cancelled", "interrupted"}

(* The invariant of the workers, task by task. *)
LEMMA WorkersByTask == WorkerKnows <=> \A t \in Tasks: WorkerInv(t)
BY DEF WorkerKnows, WorkerInv

(* The execution a worker attends stays under way, in the same run, and    *)
(* its calls keep their status but for a sweep.                            *)
KeptFor(t) ==
  /\ Active(t)' /\ exec'[t].run = exec[t].run
  /\ \A k \in Runs, c \in Calls:
       \/ effect'[t][k][c] = effect[t][k][c]
       \/ effect[t][k][c] = "prepared" /\ effect'[t][k][c] = "outcome_unknown"
  /\ acted \subseteq acted'

(* A worker that idles, stands still or gives up keeps its invariant. *)
LEMMA WorkerKept ==
  ASSUME TypeOK, RunsInOrder, WorkerKnows, NEW t \in Tasks,
         \/ worker'[t].pc \in {"none", "claim", "exit"}
         \/ KeptFor(t) /\ SameBut(worker'[t], worker[t])
         \/ ~Attended(worker[t]) /\ SameBut(worker'[t], worker[t])
         \/ /\ KeptFor(t) /\ Attended(worker[t])
            /\ worker'[t].pc = "fail" /\ worker'[t].run = worker[t].run
            /\ worker'[t].status \in {"failed", "cancelled", "interrupted"}
  PROVE  WorkerInv(t)'
<1>1. WorkerInv(t)
  BY WorkersByTask
<1>2. CASE worker'[t].pc \in {"none", "claim", "exit"} \/ (~Attended(worker[t]) /\ SameBut(worker'[t], worker[t]))
  <2>1. worker'[t].pc \notin {"turn", "prepared", "executing", "fail"}
    BY <1>2 DEF Attended, SameBut
  <2> QED
    BY <2>1 DEF WorkerInv, Attended
<1>3. CASE KeptFor(t) /\ SameBut(worker'[t], worker[t]) /\ Attended(worker[t])
  <2>1. worker[t].run \in Runs
    BY <1>3, WorkerHolds
  <2>2. /\ worker'[t].pc = worker[t].pc /\ worker'[t].run = worker[t].run
        /\ worker'[t].call = worker[t].call /\ worker'[t].status = worker[t].status
    BY <1>3 DEF SameBut
  <2>3. worker[t].pc \in {"turn", "prepared", "executing"} =>
          \A c \in Calls : c > worker[t].call => effect'[t][worker[t].run][c] = "none"
    BY <1>1, <1>3, <2>1 DEF WorkerInv, KeptFor
  <2>4. worker[t].pc \in {"prepared", "executing"} =>
          /\ worker[t].call \in Calls
          /\ effect'[t][worker[t].run][worker[t].call] \in {"prepared", "outcome_unknown"}
    BY <1>1, <1>3, <2>1 DEF WorkerInv, KeptFor
  <2> QED
    BY <1>1, <1>3, <2>2, <2>3, <2>4 DEF WorkerInv, KeptFor, Attended
<1>4. CASE /\ KeptFor(t) /\ Attended(worker[t])
           /\ worker'[t].pc = "fail" /\ worker'[t].run = worker[t].run
           /\ worker'[t].status \in {"failed", "cancelled", "interrupted"}
  BY <1>1, <1>4 DEF WorkerInv, KeptFor, Attended
<1> QED
  BY <1>2, <1>3, <1>4

(* Workers whose execution and calls are left alone.                       *)
LEMMA LeftAlone ==
  ASSUME WorkerKnows, NEW t \in Tasks, Attended(worker[t]),
         exec'[t] = exec[t], \A k \in Runs: effect'[t][k] = effect[t][k], acted \subseteq acted'
  PROVE  KeptFor(t)
BY DEF WorkerKnows, KeptFor, Active

(* A step of the worker of t leaves the others alone. *)
LEMMA OthersInv ==
  ASSUME TypeOK, RunsInOrder, WorkerKnows, NEW t \in Tasks, Others(t), acted \subseteq acted',
         \A u \in Tasks: u # t => exec'[u] = exec[u] /\ \A k \in Runs: effect'[u][k] = effect[u][k]
  PROVE  \A u \in Tasks: u # t => WorkerInv(u)'
<1>1. ASSUME NEW u \in Tasks, u # t PROVE WorkerInv(u)'
  <2>1. SameBut(worker'[u], worker[u])
    BY <1>1 DEF Others, SameBut
  <2>2. Attended(worker[u]) => KeptFor(u)
    BY <1>1, LeftAlone
  <2> QED
    BY <2>1, <2>2, WorkerKept
<1> QED
  BY <1>1

(* A worker that gives up leaves every worker its invariant. *)
LEMMA GivingUpInv ==
  ASSUME TypeOK, RunsInOrder, WorkerKnows, NEW t \in Tasks, Attended(worker[t]), GivesUp(t),
         UNCHANGED <<exec, acted>>,
         \A u \in Tasks, k \in Runs: u # t => effect'[u][k] = effect[u][k]
  PROVE  \A u \in Tasks: WorkerInv(u)'
<1>1. /\ worker'[t].pc = "fail" /\ worker'[t].run = worker[t].run
      /\ worker'[t].status \in {"failed", "cancelled", "interrupted"}
      /\ Others(t)
  BY GivesUpEffect
<1>2. WorkerInv(t)'
  BY <1>1 DEF WorkerKnows, WorkerInv, Attended, Active
<1>3. \A u \in Tasks: u # t => WorkerInv(u)'
  BY <1>1, OthersInv
<1> QED
  BY <1>2, <1>3

(* The steps of a worker preserve the invariant of all workers. *)
LEMMA WorkingInv ==
  ASSUME IInv, NEW t \in Tasks, Working(t)
  PROVE  \A u \in Tasks: WorkerInv(u)'
<1> USE DEF IInv
<1>1. CASE Claim(t)
  <2>1. /\ worker'[t].pc = "turn" /\ worker'[t].run = exec[t].run + 1 /\ worker'[t].call = 0
        /\ Others(t)
    BY <1>1, ClaimWorker
  <2>2. /\ exec[t].run + 1 \in Runs
        /\ exec'[t].status = "running" /\ exec'[t].run = exec[t].run + 1
        /\ \A u \in Tasks: u # t => exec'[u] = exec[u]
    BY <1>1, ClaimEffect
  <2>3. UNCHANGED <<effect, acted>>
    BY <1>1 DEF Claim, history
  <2>4. \A c \in Calls: effect'[t][exec[t].run + 1][c] = "none"
    <3>1. exec[t].run \in Nat
      BY StatusKnown, Constants
    <3>2. exec[t].run + 1 > exec[t].run
      BY <3>1
    <3> QED
      BY <2>2, <2>3, <3>2 DEF RunsInOrder
  <2>5. WorkerInv(t)'
    BY <2>1, <2>2, <2>4 DEF WorkerInv, Attended, Active, ExecActive
  <2> QED
    BY <2>1, <2>2, <2>3, <2>5, OthersInv
<1>2. CASE Prepare(t)
  <2>1. PICK c \in Calls: c = worker[t].call + 1
    BY <1>2 DEF Prepare
  <2>2. /\ effect' = [effect EXCEPT ![t][worker[t].run][c] = "prepared"]
        /\ worker' = [worker EXCEPT ![t].pc = "prepared", ![t].call = c]
        /\ UNCHANGED <<exec, acted>>
    BY <1>2, <2>1 DEF Prepare, history
  <2>3. c \in 0 .. MaxCalls
    BY Constants DEF Calls
  <2>4. /\ worker'[t].pc = "prepared" /\ worker'[t].run = worker[t].run /\ worker'[t].call = c
        /\ Others(t)
    BY <2>2, <2>3, MovesOn DEF Step
  <2>5. /\ Active(t) /\ worker[t].run = exec[t].run /\ worker[t].run \in Runs
        /\ worker[t].pc = "turn"
    BY <1>2, WorkerHolds DEF Prepare, Attended
  <2>6. /\ effect'[t][worker[t].run][c] = "prepared"
        /\ \A d \in Calls: d # c => effect'[t][worker[t].run][d] = effect[t][worker[t].run][d]
        /\ \A u \in Tasks, k \in Runs, d \in Calls: u # t => effect'[u][k][d] = effect[u][k][d]
    <3>1. PICK s \in EffectStatus: s = "prepared"
      BY DEF EffectStatus
    <3>2. PICK k \in Runs: k = worker[t].run
      BY <2>5
    <3>3. effect' = [effect EXCEPT ![t][k][c] = s]
      BY <2>2, <3>1, <3>2
    <3>4. TypeOK
      OBVIOUS
    <3>5. effect'[t][k][c] = s
      BY <3>3 DEF TypeOK
    <3>6. \A u \in Tasks, j \in Runs, d \in Calls:
            u # t \/ j # k \/ d # c => effect'[u][j][d] = effect[u][j][d]
      BY <3>3, <3>4, WriteCall
    <3> QED
      BY <3>1, <3>2, <3>5, <3>6
  <2>7. \A d \in Calls: d > c => effect'[t][worker[t].run][d] = "none"
    <3>1. ASSUME NEW d \in Calls, d > c PROVE d > worker[t].call /\ d # c
      <4>1. worker[t].call \in Nat
        BY WorkerHolds, Constants
      <4> QED
        BY <2>1, <3>1, <4>1, Constants
    <3>2. \A d \in Calls: d > worker[t].call => effect[t][worker[t].run][d] = "none"
      BY <2>5 DEF WorkerKnows
    <3> QED
      BY <2>6, <3>1, <3>2
  <2>8. WorkerInv(t)'
    BY <2>2, <2>4, <2>5, <2>6, <2>7 DEF WorkerInv, Attended, Active
  <2>9. \A u \in Tasks, k \in Runs: u # t => effect'[u][k] = effect[u][k]
    BY <2>2 DEF TypeOK
  <2> QED
    BY <2>2, <2>4, <2>8, <2>9, OthersInv
<1>3. CASE Dispatch(t)
  <2>1. /\ worker[t].pc = "prepared"
        /\ acted' = acted \cup {<<t, worker[t].run, worker[t].call>>}
        /\ worker' = [worker EXCEPT ![t].pc = "executing"]
        /\ UNCHANGED <<exec, effect>>
    BY <1>3 DEF Dispatch, ledger
  <2>2. worker[t].call \in 0 .. MaxCalls
    BY WorkerHolds
  <2>3. /\ worker'[t].pc = "executing" /\ worker'[t].run = worker[t].run
        /\ worker'[t].call = worker[t].call /\ Others(t)
    BY <2>1, <2>2, MovesOn DEF Step
  <2>4. WorkerInv(t)
    BY WorkersByTask
  <2>5. WorkerInv(t)'
    BY <2>1, <2>3, <2>4 DEF WorkerInv, Attended, Active
  <2> QED
    BY <2>1, <2>3, <2>5, OthersInv
<1>4. CASE Receipt(t)
  <2>1. Attended(worker[t]) /\ UNCHANGED <<exec, acted>>
    BY <1>4 DEF Receipt, Returned, Attended, history
  <2>2. \A u \in Tasks, k \in Runs: u # t => effect'[u][k] = effect[u][k]
    BY <1>4 DEF Receipt, TypeOK
  <2>3. CASE GivesUp(t)
    BY <2>1, <2>2, <2>3, GivingUpInv
  <2>4. CASE ~GivesUp(t)
    <3>1. PICK s \in ReceiptStatus(t):
            effect' = [effect EXCEPT ![t][worker[t].run][worker[t].call] = s]
      BY <1>4, <2>4 DEF Receipt
    <3>2. worker' = [worker EXCEPT ![t].pc = "turn"]
      BY <1>4, <2>4 DEF Receipt
    <3>3. worker[t].call \in Calls /\ worker[t].call \in 0 .. MaxCalls
          /\ Active(t) /\ worker[t].run = exec[t].run /\ worker[t].run \in Runs
          /\ worker[t].pc \in {"prepared", "executing"}
      BY <1>4, WorkerHolds DEF Receipt, Returned, Attended
    <3>4. /\ worker'[t].pc = "turn" /\ worker'[t].run = worker[t].run
          /\ worker'[t].call = worker[t].call /\ Others(t)
      BY <3>2, <3>3, MovesOn DEF Step
    <3>5. s \in EffectStatus
      BY DEF ReceiptStatus, EffectStatus, EffectTerminal
    <3>6. \A d \in Calls: d # worker[t].call => effect'[t][worker[t].run][d] = effect[t][worker[t].run][d]
      BY <3>1, <3>3, <3>5, WriteCall
    <3>7. \A d \in Calls: d > worker[t].call => effect'[t][worker[t].run][d] = "none"
      <4>1. \A d \in Calls: d > worker[t].call => d # worker[t].call
        BY <3>3, Constants
      <4>2. \A d \in Calls: d > worker[t].call => effect[t][worker[t].run][d] = "none"
        BY <3>3 DEF WorkerKnows
      <4> QED
        BY <3>6, <4>1, <4>2
    <3>8. WorkerInv(t)'
      BY <2>1, <3>3, <3>4, <3>7 DEF WorkerInv, Attended, Active
    <3> QED
      BY <2>1, <2>2, <3>4, <3>8, OthersInv
  <2> QED
    BY <2>3, <2>4
<1>5. CASE GiveUp(t)
  <2>1. Attended(worker[t]) /\ GivesUp(t) /\ UNCHANGED <<exec, effect, acted>>
    BY <1>5 DEF GiveUp, Attended, ledger, history
  <2> QED
    BY <2>1, GivingUpInv
<1>6. CASE GivesUp(t) /\ FinishWork(t)
           /\ UNCHANGED <<planning, task, exec, ledger>>
  <2>1. Attended(worker[t]) /\ UNCHANGED <<exec, effect, acted>>
    BY <1>6 DEF FinishWork, Attended, ledger, history
  <2> QED
    BY <1>6, <2>1, GivingUpInv
<1>7. ASSUME NEW asked \in ExecTerminal, Left(t),
             Finish(t, asked) \/ UNCHANGED <<planning, task, exec, ledger>>, acted' = acted
      PROVE  \A u \in Tasks: WorkerInv(u)'
  <2>1. worker'[t].pc = "exit" /\ Others(t)
    BY <1>7, LeftEffect
  <2>2. WorkerInv(t)'
    BY <2>1, WorkerKept
  <2>3. \A u \in Tasks: u # t => exec'[u] = exec[u] /\ \A k \in Runs: effect'[u][k] = effect[u][k]
    <3>1. CASE Active(t) /\ Finish(t, asked)
      BY <3>1, FinishEffect
    <3>2. CASE UNCHANGED <<exec, effect>>
      BY <3>2
    <3> QED
      BY <1>7, <3>1, <3>2 DEF Finish, ledger
  <2> QED
    BY <1>7, <2>1, <2>2, <2>3, OthersInv
<1>8. CASE FinishWork(t) /\ Left(t) /\ Finish(t, "succeeded")
  BY <1>7, <1>8 DEF FinishWork, history, ExecTerminal
<1>9. CASE FailWork(t)
  <2>1. worker[t].status \in ExecTerminal
    BY DEF TypeOK, Worker
  <2>2. Left(t) /\ acted' = acted
        /\ (Finish(t, worker[t].status) \/ UNCHANGED <<planning, task, exec, ledger>>)
    BY <1>9 DEF FailWork, history
  <2> QED
    BY <1>7, <2>1, <2>2
<1>10. CASE Refused(t) \/ Exit(t)
  <2>1. worker'[t].pc \in {"none", "exit"} /\ Others(t)
    <3>1. CASE Refused(t)
      BY <3>1, LeftEffect DEF Refused
    <3>2. CASE Exit(t)
      BY <3>2, IdleTyped DEF Exit, TypeOK, Others
    <3> QED
      BY <1>10, <3>1, <3>2
  <2>2. UNCHANGED <<exec, effect, acted>>
    BY <1>10 DEF Refused, Exit, ledger, history
  <2>3. WorkerInv(t)'
    BY <2>1, WorkerKept
  <2> QED
    BY <2>1, <2>2, <2>3, OthersInv
<1>11. CASE FinishWork(t)
  <2>1. \/ Finish(t, "succeeded") /\ Left(t)
        \/ GivesUp(t) /\ UNCHANGED <<planning, task, exec, ledger>>
    BY <1>11 DEF FinishWork
  <2> QED
    BY <1>6, <1>8, <1>11, <2>1
<1> QED
  BY <1>1, <1>2, <1>3, <1>4, <1>5, <1>9, <1>10, <1>11 DEF Working

(* What workers have in their hands is preserved by every step. *)
LEMMA WorkerStep ==
  ASSUME IInv, [Next]_vars
  PROVE  WorkerKnows'
<1> USE DEF IInv
<1>a. SUFFICES \A u \in Tasks: WorkerInv(u)'
  <2>1. WorkerKnows' <=> \A u \in Tasks: WorkerInv(u)'
    BY DEF WorkerKnows, WorkerInv
  <2> QED
    BY <2>1
<1>1. ASSUME NEW t \in Tasks, Working(t) PROVE \A u \in Tasks: WorkerInv(u)'
  BY <1>1, WorkingInv
<1>2. ASSUME NEW t \in Tasks, StoreRefuses(t) PROVE \A u \in Tasks: WorkerInv(u)'
  <2>1. UNCHANGED <<exec, effect, acted>>
    BY <1>2 DEF StoreRefuses, ledger, history
  <2>2. CASE Left(t)
    <3>1. worker'[t].pc = "exit" /\ Others(t)
      BY <2>2, LeftEffect
    <3>2. WorkerInv(t)'
      BY <3>1, WorkerKept
    <3> QED
      BY <2>1, <3>1, <3>2, OthersInv
  <2>3. CASE Returned(t) /\ GivesUp(t)
    BY <2>1, <2>3, GivingUpInv DEF Returned, Attended
  <2> QED
    BY <1>2, <2>2, <2>3 DEF StoreRefuses
<1>3. ASSUME NEW t \in Tasks, NEW v \in Seen(t), NEW ack \in BOOLEAN, Launch(t, v, ack)
      PROVE  \A u \in Tasks: WorkerInv(u)'
  <2>1. worker'[t].pc = "claim" /\ Others(t)
    BY <1>3, LaunchEffect
  <2>2. UNCHANGED <<exec, effect, acted>>
    BY <1>3 DEF Launch, ledger, history
  <2>3. WorkerInv(t)'
    BY <2>1, WorkerKept
  <2> QED
    BY <2>1, <2>2, <2>3, OthersInv
(* The steps of the others: contexts end, an execution is told to stop.    *)
<1>4. ASSUME \A u \in Tasks: SameBut(worker'[u], worker[u]),
             \A u \in Tasks: Attended(worker[u]) => KeptFor(u)
      PROVE  \A u \in Tasks: WorkerInv(u)'
  BY <1>4, WorkerKept
<1>5. CASE UNCHANGED <<exec, effect, acted>> /\ \A u \in Tasks: SameBut(worker'[u], worker[u])
  BY <1>4, <1>5, LeftAlone
<1>6. worker' = worker => \A u \in Tasks: SameBut(worker'[u], worker[u])
  BY DEF SameBut
<1>7. ASSUME NEW t \in Tasks, Expire(t) PROVE \A u \in Tasks: WorkerInv(u)'
  <2>1. \A u \in Tasks: SameBut(worker'[u], worker[u])
    BY <1>7, ExpireEffect DEF Others, SameBut
  <2> QED
    BY <1>5, <1>7, <2>1 DEF Expire, ledger, history
<1>8. ASSUME NEW t \in Tasks, CancelWorkers(t) PROVE \A u \in Tasks: WorkerInv(u)'
  <2>1. \A u \in Tasks: SameBut(worker'[u], worker[u])
    BY <1>8, CancelSomeEffect DEF CancelWorkers
  <2> QED
    BY <1>5, <1>8, <2>1 DEF CancelWorkers, ledger, history
<1>9. CASE Stop
  <2>1. worker' = [u \in Tasks |-> IF u \in Tasks THEN Cancelled(worker[u]) ELSE worker[u]]
    BY <1>9 DEF Stop
  <2>2. \A u \in Tasks: SameBut(worker'[u], worker[u])
    BY <2>1, CancelSomeEffect
  <2> QED
    BY <1>5, <1>9, <2>2 DEF Stop, ledger, history
<1>10. ASSUME NEW t \in Tasks, CancelExecution(t) PROVE \A u \in Tasks: WorkerInv(u)'
  <2>1. UNCHANGED <<worker, effect, acted>>
    BY <1>10 DEF CancelExecution, ledger, history
  <2>2. \A u \in Tasks: exec'[u].run = exec[u].run /\ (Active(u) => Active(u)')
    BY <1>10, CancelExecutionEffect DEF Active, ExecActive
  <2>3. \A u \in Tasks: Attended(worker[u]) => KeptFor(u)
    BY <2>1, <2>2 DEF WorkerKnows, KeptFor
  <2> QED
    BY <1>4, <1>6, <2>1, <2>3
<1>11. CASE Diagnose \/ RecoverRuns
  <2>1. Scan /\ UNCHANGED <<worker, exec, acted>>
    BY <1>11 DEF Diagnose, RecoverRuns, history
  <2>2. \A u \in Tasks, k \in Runs, c \in Calls:
          \/ effect'[u][k][c] = effect[u][k][c]
          \/ effect[u][k][c] = "prepared" /\ effect'[u][k][c] = "outcome_unknown"
    BY <2>1, ScanEffect
  <2>3. \A u \in Tasks: Attended(worker[u]) => KeptFor(u)
    BY <2>1, <2>2 DEF WorkerKnows, KeptFor, Active
  <2> QED
    BY <1>4, <1>6, <2>1, <2>3
<1>12. CASE UNCHANGED <<worker, exec, effect, acted>>
  BY <1>5, <1>6, <1>12
<1>13. ASSUME NEW t \in Tasks, RecoverExecution(t) PROVE \A u \in Tasks: WorkerInv(u)'
  <2>1. engine = "plans" /\ worker' = worker
    BY <1>13 DEF RecoverExecution
  <2>2. \A u \in Tasks: worker'[u].pc = "none"
    BY <2>1 DEF StartsAlone
  <2> QED
    BY <2>2, WorkerKept
<1>14. CASE Stopped \/ Crash
  <2>1. \A u \in Tasks: worker'[u].pc = "none"
    BY <1>14, IdleTyped DEF Stopped, Crash, Down
  <2> QED
    BY <2>1, WorkerKept
<1>15. ASSUME NEW t \in Tasks, Create(t) \/ JoinAsked(t) \/ JoinChildren(t) \/ CancelRun(t)
       PROVE  UNCHANGED <<worker, exec, effect, acted>>
  BY <1>15 DEF Create, JoinAsked, JoinChildren, CancelRun, ledger, history
<1>16. ASSUME NEW n \in Nodes, StartNode(n) \/ CompleteNode(n) \/ FailNode(n)
       PROVE  UNCHANGED <<worker, exec, effect, acted>>
  BY <1>16 DEF StartNode, CompleteNode, FailNode, ledger, history
<1>17. CASE CancelTree \/ PausePlan \/ ResumePlan \/ Bar \/ Reconcile \/ Serve \/ UNCHANGED vars
  <2>1. UNCHANGED <<worker, exec, effect, acted>>
    BY <1>17 DEF CancelTree, PausePlan, ResumePlan, Bar, Reconcile, Serve, vars, ledger, history
  <2> QED
    BY <1>12, <2>1
<1>18. ASSUME NEW t \in Tasks, ReconcileRun(t) PROVE \A u \in Tasks: WorkerInv(u)'
  <2>1. UNCHANGED <<worker, exec, acted>>
    BY <1>18, ReconcileRunEffect
  <2>2. \A u \in Tasks, k \in Runs, c \in Calls:
          \/ effect'[u][k][c] = effect[u][k][c]
          \/ effect[u][k][c] = "prepared" /\ effect'[u][k][c] = "outcome_unknown"
    BY <1>18, ReconcileRunEffect
  <2>3. \A u \in Tasks: Attended(worker[u]) => KeptFor(u)
    BY <2>1, <2>2 DEF WorkerKnows, KeptFor, Active
  <2> QED
    BY <1>4, <1>6, <2>1, <2>3
<1> QED
  BY <1>1, <1>2, <1>3, <1>7, <1>8, <1>9, <1>10, <1>11, <1>12, <1>13, <1>14, <1>15, <1>16, <1>17,
     <1>18
  DEF Next, StartUp

-----------------------------------------------------------------------------
(* Executions without a worker                                             *)

(* A step of one worker; a step that leaves what workers do as it is; or   *)
(* the end of the process.                                                 *)
LEMMA WorkerShapes ==
  ASSUME TypeOK, [Next]_vars
  PROVE  \/ \E t \in Tasks: Others(t) /\ (Working(t) \/ StoreRefuses(t))
         \/ \E t \in Tasks: Others(t) /\ worker[t].pc = "none"
         \/ \A u \in Tasks: SameBut(worker'[u], worker[u])
         \/ Down
<1>1. ASSUME NEW t \in Tasks, Working(t) PROVE Others(t)
  <2>1. CASE GivesUp(t)
    BY <2>1, GivesUpEffect
  <2>2. CASE Left(t)
    BY <2>2, LeftEffect
  <2>3. CASE Claim(t)
    BY <2>3, ClaimWorker
  <2>4. CASE ~GivesUp(t) /\ ~Left(t) /\ ~Claim(t)
    BY <1>1, <2>4
    DEF Working, Refused, Prepare, Dispatch, Receipt, GiveUp, FinishWork, FailWork, Exit, Others, TypeOK
  <2> QED
    BY <2>1, <2>2, <2>3, <2>4
<1>2. ASSUME NEW t \in Tasks, StoreRefuses(t) PROVE Others(t)
  BY <1>2, GivesUpEffect, LeftEffect DEF StoreRefuses
<1>3. ASSUME NEW t \in Tasks, NEW v \in Seen(t), NEW ack \in BOOLEAN, Launch(t, v, ack)
      PROVE  Others(t) /\ worker[t].pc = "none"
  BY <1>3, LaunchEffect DEF Launch, Busy
<1>4. ASSUME NEW t \in Tasks, Expire(t) PROVE \A u \in Tasks: SameBut(worker'[u], worker[u])
  BY <1>4, ExpireEffect DEF Others, SameBut
<1>5. ASSUME NEW t \in Tasks, CancelWorkers(t) PROVE \A u \in Tasks: SameBut(worker'[u], worker[u])
  BY <1>5, CancelSomeEffect DEF CancelWorkers
<1>6. CASE Stop
  <2>1. worker' = [u \in Tasks |-> IF u \in Tasks THEN Cancelled(worker[u]) ELSE worker[u]]
    BY <1>6 DEF Stop
  <2> QED
    BY <2>1, CancelSomeEffect
<1>7. CASE worker' = worker
  BY <1>7 DEF SameBut
<1>8. ASSUME NEW t \in Tasks,
             \/ CancelExecution(t) \/ JoinAsked(t) \/ JoinChildren(t) \/ CancelRun(t) \/ Create(t)
             \/ ReconcileRun(t) \/ RecoverExecution(t)
      PROVE  worker' = worker
  BY <1>8
  DEF CancelExecution, JoinAsked, JoinChildren, CancelRun, ReconcileRun, Create, RecoverExecution
<1>9. ASSUME NEW n \in Nodes, StartNode(n) \/ CompleteNode(n) \/ FailNode(n)
      PROVE  worker' = worker
  BY <1>9 DEF StartNode, CompleteNode, FailNode
<1>10. CASE \/ CancelTree \/ PausePlan \/ ResumePlan \/ Bar \/ Diagnose \/ Reconcile \/ RecoverRuns
            \/ Serve \/ UNCHANGED vars
  <2>1. worker' = worker
    BY <1>10 DEF CancelTree, PausePlan, ResumePlan, Bar, Diagnose, Reconcile, RecoverRuns, Serve, vars
  <2> QED
    BY <1>7, <2>1
<1> QED
  BY <1>1, <1>2, <1>3, <1>4, <1>5, <1>6, <1>7, <1>8, <1>9, <1>10
  DEF Next, StartUp, Stopped, Crash

(* A settlement that was allowed. *)
Settles(t) ==
  \E asked \in ExecTerminal, j \in 0 .. MaxRuns, receipts \in SUBSET Calls:
    Active(t) /\ FinishAllowed(t, j, asked, receipts) /\ Finish(t, asked)

(* The steps that move executions and nodes.                               *)
LEMMA ExecutionShapes ==
  ASSUME TypeOK, [Next]_vars
  PROVE  \/ UNCHANGED <<exec, node>>
         \/ \E t \in Tasks: Claim(t) \/ Settles(t)
         \/ UNCHANGED node /\ \E t \in Tasks: CancelExecution(t)
         \/ UNCHANGED exec /\ \E n \in Nodes: StartNode(n) \/ CompleteNode(n) \/ FailNode(n)
<1>0. ASSUME NEW t \in Tasks, NEW asked \in ExecTerminal, NEW j \in 0 .. MaxRuns,
             NEW receipts \in SUBSET Calls,
             \/ FinishAllowed(t, j, asked, receipts) /\ Finish(t, asked)
             \/ UNCHANGED <<planning, task, exec, ledger>>
      PROVE  UNCHANGED <<exec, node>> \/ Settles(t)
  BY <1>0 DEF Settles, Finish, planning
<1>1. ASSUME NEW t \in Tasks, FinishWork(t) PROVE UNCHANGED <<exec, node>> \/ Settles(t)
  <2>1. PICK receipts \in SUBSET Calls:
          \/ FinishAllowed(t, worker[t].run, "succeeded", receipts) /\ Finish(t, "succeeded")
          \/ UNCHANGED <<planning, task, exec, ledger>>
    BY <1>1 DEF FinishWork
  <2>2. worker[t].run \in 0 .. MaxRuns /\ "succeeded" \in ExecTerminal
    BY DEF TypeOK, Worker, ExecTerminal
  <2> QED
    BY <1>0, <2>1, <2>2
<1>2. ASSUME NEW t \in Tasks, FailWork(t) PROVE UNCHANGED <<exec, node>> \/ Settles(t)
  <2>1. \/ FinishAllowed(t, worker[t].run, worker[t].status, {}) /\ Finish(t, worker[t].status)
        \/ UNCHANGED <<planning, task, exec, ledger>>
    BY <1>2 DEF FailWork
  <2>2. worker[t].run \in 0 .. MaxRuns /\ worker[t].status \in ExecTerminal /\ {} \in SUBSET Calls
    BY DEF TypeOK, Worker
  <2> QED
    BY <1>0, <2>1, <2>2
<1>3. ASSUME NEW t \in Tasks, RecoverExecution(t) PROVE UNCHANGED <<exec, node>> \/ Settles(t)
  <2> DEFINE s == IF exec[t].status = "cancel_requested" THEN "cancelled" ELSE "interrupted"
  <2>1. \/ FinishAllowed(t, exec[t].run, s, {}) /\ Finish(t, s)
        \/ UNCHANGED <<planning, task, exec, ledger>>
    BY <1>3 DEF RecoverExecution
  <2>2. exec[t].run \in 0 .. MaxRuns /\ s \in ExecTerminal /\ {} \in SUBSET Calls
    BY StatusKnown DEF ExecTerminal
  <2> HIDE DEF s
  <2> QED
    BY <1>0, <2>1, <2>2
<1>4. ASSUME NEW t \in Tasks,
             \/ Refused(t) \/ Prepare(t) \/ Dispatch(t) \/ Receipt(t) \/ GiveUp(t) \/ Exit(t)
             \/ StoreRefuses(t) \/ Expire(t) \/ CancelWorkers(t) \/ JoinAsked(t) \/ JoinChildren(t)
             \/ CancelRun(t) \/ ReconcileRun(t) \/ Create(t)
             \/ \E v \in Seen(t), ack \in BOOLEAN: Launch(t, v, ack)
      PROVE  UNCHANGED <<exec, node>>
  BY <1>4 DEF Refused, Prepare, Dispatch, Receipt, GiveUp, Exit, StoreRefuses, Expire, CancelWorkers,
              JoinAsked, JoinChildren, CancelRun, ReconcileRun, Create, Launch, planning
<1>5. ASSUME NEW t \in Tasks, CancelExecution(t) PROVE UNCHANGED node
  BY <1>5 DEF CancelExecution, planning
<1>6. ASSUME NEW n \in Nodes, StartNode(n) \/ CompleteNode(n) \/ FailNode(n) PROVE UNCHANGED exec
  BY <1>6 DEF StartNode, CompleteNode, FailNode
<1>7. CASE \/ CancelTree \/ PausePlan \/ ResumePlan \/ Bar \/ Diagnose \/ Reconcile \/ RecoverRuns
           \/ Serve \/ Stop \/ Stopped \/ Crash \/ UNCHANGED vars
  BY <1>7 DEF CancelTree, PausePlan, ResumePlan, Bar, Diagnose, Reconcile, RecoverRuns, Serve, Stop,
              Stopped, Crash, Down, vars, planning
<1> QED
  BY <1>1, <1>2, <1>3, <1>4, <1>5, <1>6, <1>7 DEF Next, StartUp, Working

(* Runs are only ever added, only a claim starts one, and a settlement     *)
(* ends one.                                                               *)
LEMMA ExecutionGrows ==
  ASSUME TypeOK, [Next]_vars, NEW t \in Tasks
  PROVE  /\ exec'[t].run >= exec[t].run
         /\ Active(t)' => Active(t) \/ Claim(t)
         /\ Settles(t) => ~Active(t)'
<1>1. exec[t].run \in Nat
  BY StatusKnown, Constants
<1>2. ASSUME NEW u \in Tasks, Claim(u)
      PROVE  /\ exec'[t].run >= exec[t].run /\ (Active(t)' => Active(t) \/ Claim(t))
  <2>1. CASE t = u
    BY <1>1, <1>2, <2>1, ClaimEffect
  <2>2. CASE t # u
    BY <1>1, <1>2, <2>2, ClaimEffect DEF Active
  <2> QED
    BY <2>1, <2>2
<1>3. ASSUME NEW u \in Tasks, Settles(u)
      PROVE  /\ exec'[t].run >= exec[t].run /\ (Active(t)' => Active(t))
             /\ t = u => ~Active(t)'
  <2>1. PICK asked \in ExecTerminal: Active(u) /\ Finish(u, asked)
    BY <1>3 DEF Settles
  <2>2. Outcome(u, asked) \in ExecTerminal
    BY OutcomeKnown
  <2>3. /\ exec'[u].status \in ExecTerminal /\ exec'[u].run = exec[u].run
        /\ \A v \in Tasks: v # u => exec'[v] = exec[v]
    BY <2>1, <2>2, FinishEffect
  <2> QED
    BY <1>1, <2>3 DEF Active, ExecActive, ExecTerminal
<1>4. ASSUME NEW u \in Tasks, CancelExecution(u)
      PROVE  /\ exec'[t].run >= exec[t].run /\ (Active(t)' => Active(t))
  BY <1>1, <1>4, CancelExecutionEffect DEF Active, ExecActive
<1>5. ASSUME UNCHANGED exec
      PROVE  exec'[t].run >= exec[t].run /\ (Active(t)' => Active(t))
  BY <1>1, <1>5 DEF Active
<1>6. exec'[t].run >= exec[t].run /\ (Active(t)' => Active(t) \/ Claim(t))
  BY <1>2, <1>3, <1>4, <1>5, ExecutionShapes
<1> QED
  BY <1>3, <1>6

(* A node that was failed or cancelled stays so, until a task of it whose  *)
(* execution was settled is claimed again.                                 *)
LEMMA NodeStays ==
  ASSUME IInv, [Next]_vars, NEW n \in Nodes, node[n] \in {"failed", "cancelled"}
  PROVE  \/ node'[n] \in {"failed", "cancelled"}
         \/ \E u \in Tasks: NodeOf[u] = n /\ Claim(u) /\ Settled(u)
<1> USE DEF IInv
<1>1. ASSUME NEW u \in Tasks, Claim(u)
      PROVE  node'[n] = node[n] \/ (NodeOf[u] = n /\ Settled(u))
  <2>1. CASE NodeOf[u] # n
    BY <1>1, <2>1, ClaimEffect
  <2>2. CASE NodeOf[u] = n
    <3>1. ~Ready(u)
      BY <2>2 DEF Ready
    <3>2. Settled(u)
      BY <1>1, <3>1 DEF Claim, MayClaim, MayRetry
    <3> QED
      BY <2>2, <3>2
  <2> QED
    BY <2>1, <2>2
<1>2. ASSUME NEW u \in Tasks, Settles(u) PROVE node'[n] \in {"failed", "cancelled"}
  <2>1. PICK asked \in ExecTerminal, j \in 0 .. MaxRuns, receipts \in SUBSET Calls:
          Active(u) /\ FinishAllowed(u, j, asked, receipts) /\ Finish(u, asked)
    BY <1>2 DEF Settles
  <2>2. PICK s: s = Outcome(u, asked)
    OBVIOUS
  <2>3. /\ MayBecome(NodeOf[u], NodeTarget(u, TaskAfter(u, s)), TaskAfter(u, s), ExecAfter(u, s))
        /\ node'[NodeOf[u]] = NodeTarget(u, TaskAfter(u, s))
        /\ \A m \in Nodes: m # NodeOf[u] => node'[m] = node[m]
    BY <2>1, <2>2, FinishEffect DEF FinishAllowed
  <2>4. NodeTarget(u, TaskAfter(u, s)) \in {node[NodeOf[u]], "failed", "cancelled", "completed"}
    BY NodeTargetEffect
  <2> QED
    BY <2>3, <2>4 DEF MayBecome, NodeMove
<1>3. ASSUME NEW m \in Nodes, StartNode(m) \/ CompleteNode(m) \/ FailNode(m) PROVE node'[n] = node[n]
  <2>1. PICK to: SetNode(m, to) /\ node[m] \in {"pending", "ready", "running"}
    BY <1>3 DEF StartNode, CompleteNode, FailNode
  <2>2. n # m
    BY <2>1
  <2> QED
    BY <2>1, <2>2 DEF SetNode, TypeOK
<1> QED
  BY <1>1, <1>2, <1>3, ExecutionShapes

(* An execution that is under way and loses its worker has lost a          *)
(* settlement to a fault or to its node.                                   *)
LEMMA AttentionLost ==
  ASSUME IInv, [Next]_vars, NEW t \in Tasks, Attended(worker[t]), ~Attended(worker'[t]),
         Active(t)', Serving'
  PROVE  faults' > 0 \/ node'[NodeOf[t]] \in {"failed", "cancelled"}
<1> USE DEF IInv
<1>a. Active(t) /\ worker[t].run = exec[t].run
  BY DEF WorkerKnows
<1>b. TaskInv(t)
  BY LedgerByTask DEF LedgerInv
<1>1. CASE Working(t)
  <2>1. ~Settles(t)
    BY ExecutionGrows
  <2>2. CASE FinishWork(t)
    <3>1. PICK receipts \in SUBSET Calls:
            \/ FinishAllowed(t, worker[t].run, "succeeded", receipts) /\ Finish(t, "succeeded")
            \/ GivesUp(t)
      BY <2>2 DEF FinishWork
    <3>2. "succeeded" \in ExecTerminal /\ worker[t].run \in 0 .. MaxRuns
      BY WorkerHolds DEF ExecTerminal
    <3>3. GivesUp(t)
      BY <1>a, <2>1, <3>1, <3>2 DEF Settles
    <3> QED
      BY <3>3, GivesUpEffect DEF Attended
  <2>3. CASE FailWork(t)
    <3>1. worker[t].status \in {"failed", "cancelled", "interrupted"}
      BY <2>3 DEF FailWork, WorkerKnows
    <3>2. /\ worker[t].status \in ExecTerminal /\ worker[t].run \in 0 .. MaxRuns
          /\ {} \in SUBSET Calls
      BY WorkerHolds DEF TypeOK, Worker
    <3>3. ~(FinishAllowed(t, worker[t].run, worker[t].status, {}) /\ Finish(t, worker[t].status))
      BY <1>a, <2>1, <3>2 DEF Settles
    <3>4. ~FinishAllowed(t, exec[t].run, worker[t].status, {}) /\ UNCHANGED node
      BY <1>a, <2>3, <3>3 DEF FailWork, planning
    <3>5. node[NodeOf[t]] \in {"failed", "cancelled"}
      BY <1>a, <1>b, <3>1, <3>4, GivingUpAllowed
    <3> QED
      BY <3>4, <3>5
  <2>4. CASE Claim(t)
    BY <2>4, ClaimWorker DEF Attended
  <2>5. CASE GivesUp(t)
    BY <2>5, GivesUpEffect DEF Attended
  <2>6. CASE Refused(t) \/ Exit(t)
    BY <2>6 DEF Refused, Exit, Attended
  <2>7. CASE Prepare(t) \/ Dispatch(t) \/ (Receipt(t) /\ ~GivesUp(t))
    <3>1. \E p \in {"turn", "prepared", "executing"}:
            \/ worker' = [worker EXCEPT ![t].pc = p]
            \/ worker' = [worker EXCEPT ![t].pc = p, ![t].call = worker[t].call + 1]
      BY <2>7 DEF Prepare, Dispatch, Receipt
    <3>2. worker'[t].pc \in {"turn", "prepared", "executing"}
      BY <3>1 DEF TypeOK, Worker
    <3> QED
      BY <3>2 DEF Attended
  <2> QED
    BY <1>1, <2>2, <2>3, <2>4, <2>5, <2>6, <2>7 DEF Working, GiveUp
<1>2. CASE StoreRefuses(t)
  BY <1>2 DEF StoreRefuses, TypeOK
<1>3. CASE Down
  BY <1>3 DEF Down, Serving
<1>4. CASE \A u \in Tasks: SameBut(worker'[u], worker[u])
  BY <1>4 DEF SameBut, Attended
<1>5. CASE \E u \in Tasks: Others(u) /\ (u # t \/ worker[t].pc = "none")
  BY <1>5 DEF Others, Attended
<1> QED
  BY <1>1, <1>2, <1>3, <1>4, <1>5, WorkerShapes

(* Start-up serves when no execution is left under way; until then it does *)
(* not serve.                                                              *)
LEMMA ServesClean ==
  ASSUME IInv, [Next]_vars, Serving', ~Serving, NEW t \in Tasks
  PROVE  ~Active(t)'
<1>1. CASE engine = "closing"
  <2>1. engine' # "ready"
    BY <1>1
    DEF Next, vars, StartUp, Working, Create, Launch, Claim, Refused, Prepare, Dispatch, Receipt,
        GiveUp, FinishWork, FailWork, Exit, StoreRefuses, Expire, CancelWorkers, CancelExecution,
        JoinAsked, JoinChildren, CancelRun, ReconcileRun, CancelTree, PausePlan, ResumePlan, Bar,
        Diagnose, Move, StartNode, CompleteNode, FailNode, Stop, Stopped, Crash, Down, Reconcile,
        RecoverRuns, RecoverExecution, Serve, Serving
  <2> QED
    BY <2>1 DEF Serving
<1>2. CASE engine \notin {"ready", "closing"}
  <2>1. Serve
    BY <1>2, OnlyStartUp DEF StartUp, Reconcile, RecoverRuns, RecoverExecution, Down, vars, Serving
  <2>2. ~Active(t)
    BY <2>1 DEF Serve, IInv, RecoveryKnows
  <2> QED
    BY <2>1, <2>2 DEF Serve, Active
<1> QED
  BY <1>1, <1>2 DEF Serving

(* Refusals of the store are only counted up. *)
LEMMA FaultsGrow ==
  ASSUME TypeOK, [Next]_vars
  PROVE  faults' >= faults
<1>1. faults \in Nat
  BY PlanAssumption DEF TypeOK
<1>2. faults' = faults \/ faults' = faults + 1
  BY DEF Next, vars, StartUp, Working, Create, Launch, Claim, Refused, Prepare, Dispatch, Receipt,
        GiveUp, FinishWork, FailWork, Exit, StoreRefuses, Expire, CancelWorkers, CancelExecution,
        JoinAsked, JoinChildren, CancelRun, ReconcileRun, CancelTree, PausePlan, ResumePlan, Bar,
        Diagnose, Move, StartNode, CompleteNode, FailNode, Stop, Stopped, Crash, Down, Reconcile,
        RecoverRuns, RecoverExecution, Serve, counters
<1> QED
  BY <1>1, <1>2

(* An execution loses its worker for one of the reasons listed, and they last. *)
LEMMA UnattendedStep ==
  ASSUME IInv, [Next]_vars
  PROVE  Unattended'
<1> USE DEF IInv
<1>1. ASSUME NEW t \in Tasks, Serving', Active(t)', ~Attended(worker'[t])
      PROVE  \/ faults' > 0 \/ node'[NodeOf[t]] \in {"failed", "cancelled"}
             \/ \E u \in Tasks \ {t} : NodeOf[u] = NodeOf[t] /\ exec'[u].run > 1
  <2>1. CASE Attended(worker[t])
    BY <1>1, <2>1, AttentionLost
  <2>2. CASE ~Attended(worker[t])
    <3>1. Serving
      BY <1>1, ServesClean
    <3>2. ~Claim(t)
      BY <1>1, ClaimWorker DEF Attended
    <3>3. Active(t)
      BY <1>1, <3>2, ExecutionGrows
    <3>4. \/ faults > 0 \/ node[NodeOf[t]] \in {"failed", "cancelled"}
          \/ \E u \in Tasks \ {t} : NodeOf[u] = NodeOf[t] /\ exec[u].run > 1
      BY <2>2, <3>1, <3>3 DEF Unattended, Reopened
    <3>5. CASE faults > 0
      <4>1. faults \in Nat /\ faults' \in Nat
        BY TypeStep, PlanAssumption DEF TypeOK
      <4> QED
        BY <3>5, <4>1, FaultsGrow
    <3>6. CASE \E u \in Tasks \ {t} : NodeOf[u] = NodeOf[t] /\ exec[u].run > 1
      <4>1. PICK u \in Tasks \ {t} : NodeOf[u] = NodeOf[t] /\ exec[u].run > 1
        BY <3>6
      <4>2. exec'[u].run >= exec[u].run
        BY ExecutionGrows
      <4>3. exec[u].run \in Nat /\ exec'[u].run \in Nat
        BY TypeStep, Constants DEF TypeOK, Execution
      <4> QED
        BY <4>1, <4>2, <4>3
    <3>7. CASE node[NodeOf[t]] \in {"failed", "cancelled"}
      <4>1. \/ node'[NodeOf[t]] \in {"failed", "cancelled"}
            \/ \E u \in Tasks: NodeOf[u] = NodeOf[t] /\ Claim(u) /\ Settled(u)
        BY <3>7, NodeStays, Constants
      <4>2. ASSUME NEW u \in Tasks, NodeOf[u] = NodeOf[t], Claim(u), Settled(u)
            PROVE  u # t /\ exec'[u].run > 1
        <5>1. exec[u].run \in Runs
          BY <4>2, LedgerByTask, RunOpened DEF LedgerInv
        <5>2. exec'[u].run = exec[u].run + 1
          BY <4>2, ClaimEffect
        <5>3. exec[u].run >= 1 /\ exec[u].run \in Nat
          BY <5>1, Constants DEF Runs
        <5> QED
          BY <3>2, <4>2, <5>2, <5>3
      <4> QED
        BY <4>1, <4>2
    <3> QED
      BY <3>4, <3>5, <3>6, <3>7
  <2> QED
    BY <2>1, <2>2
<1> QED
  BY <1>1 DEF Unattended, Reopened

-----------------------------------------------------------------------------
(* Safety                                                                  *)

(* The invariant is inductive. *)
LEMMA InvStep == IInv /\ [Next]_vars => IInv'
<1> SUFFICES ASSUME IInv, [Next]_vars PROVE IInv'
  OBVIOUS
<1>1. LedgerInv'
  BY LedgerStep
<1> QED
  BY <1>1, TypeStep, WorkerStep, StartsAloneStep, RecoveryKnowsStep, UnattendedStep
  DEF IInv, LedgerInv

(* The invariant holds for any plan.                                       *)
THEOREM Invariance == Spec => []IInv
BY InitInv, InvStep, PTL DEF Spec

(* Every variable keeps to its type: the statuses written by workers,      *)
(* cancellations, joins and recoveries are statuses of the tables.         *)
THEOREM TypeCorrect == Spec => []TypeOK
BY Invariance, PTL DEF IInv

(* A settled execution, its run and its task tell the same end, whoever    *)
(* settled it and whatever happened to its run and its task before.        *)
THEOREM SettlesTogether == Spec => []SettledTogether
BY Invariance, PTL DEF IInv

(* An execution that succeeded has a committed receipt in its own run and  *)
(* leaves no call of that run open.                                        *)
THEOREM SuccessHasProof == Spec => []SuccessIsProven
BY Invariance, PTL DEF IInv

(* An execution covered by a finished cancellation does not succeed: what  *)
(* lets its task run again is a retry, which has another run.              *)
THEOREM CancelledStaysCancelled == Spec => []CancelledNeverSucceeds
BY Invariance, PTL DEF IInv

(* An execution under way without an entry in the worker table is          *)
(* explained by a refusal of the store or by what became of its node.      *)
THEOREM OrphansAreExplained == Spec => []OrphansExplained
<1>1. IInv => OrphansExplained
  BY DEF IInv, Unattended, OrphansExplained, Busy, Attended
<1> QED
  BY <1>1, Invariance, PTL

(* The process serves only when no execution, run or call of an earlier    *)
(* process is left in flight.                                              *)
THEOREM RecoveryIsComplete == Spec => []RecoveryLeavesNothing
<1>1. IInv => RecoveryLeavesNothing
  BY DEF IInv, RecoveryKnows, RecoveryLeavesNothing
<1> QED
  BY <1>1, Invariance, PTL

(* A node completes, by hand or by a settlement, only over tasks whose     *)
(* runs are completed with a committed receipt.                            *)
THEOREM CompletionIsProven == Spec => CompletedIsProven
<1>1. ASSUME IInv, [Next]_vars, NEW n \in Nodes, node[n] # "completed", node'[n] = "completed",
             NEW t \in Tasks, NodeOf[t] = n, Exists(t)
      PROVE  /\ run'[t][exec'[t].run] = "completed"
             /\ \E c \in Calls : effect'[t][exec'[t].run][c] = "committed"
  <2> USE <1>1 DEF IInv
  <2>1. LedgerInv' /\ Verified(n, task', exec')
    BY LedgerStep
  <2>2. task'[t] # "absent"
    <3>1. ASSUME NEW u \in Tasks, Claim(u) PROVE FALSE
      BY <3>1, ClaimEffect
    <3>2. ASSUME NEW u \in Tasks, Settles(u) PROVE task'[t] # "absent"
      <4>1. PICK asked \in ExecTerminal: Active(u) /\ Finish(u, asked)
        BY <3>2 DEF Settles
      <4>2. task'[u] = TaskOf(Outcome(u, asked)) /\ \A v \in Tasks: v # u => task'[v] = task[v]
        BY <4>1, FinishEffect
      <4>3. TaskOf(Outcome(u, asked)) # "absent"
        BY OutcomeKnown DEF TaskOf, ExecTerminal
      <4> QED
        BY <4>2, <4>3 DEF Exists
    <3>3. ASSUME NEW m \in Nodes, StartNode(m) \/ CompleteNode(m) \/ FailNode(m)
          PROVE  task'[t] # "absent"
      BY <3>3 DEF StartNode, CompleteNode, FailNode, Exists
    <3> QED
      BY <3>1, <3>2, <3>3, ExecutionShapes
  <2>3. exec'[t].status = "succeeded"
    BY <2>1, <2>2 DEF Verified
  <2>4. /\ run'[t][exec'[t].run] \in RunTerminal
        /\ ExecFor(run'[t][exec'[t].run]) = "succeeded"
        /\ \E c \in Calls : effect'[t][exec'[t].run][c] = "committed"
    BY <2>1, <2>3
    DEF LedgerInv, SettledTogether, SuccessIsProven, Settled, ExecTerminal, RunOf, EffectsOf
  <2> QED
    BY <2>4 DEF ExecFor, RunTerminal
<1>2. IInv /\ [Next]_vars =>
        [\A n \in Nodes : node[n] # "completed" /\ node'[n] = "completed" =>
           \A t \in Tasks : NodeOf[t] = n /\ Exists(t) =>
             /\ run'[t][exec'[t].run] = "completed"
             /\ \E c \in Calls : effect'[t][exec'[t].run][c] = "committed"]_vars
  BY <1>1
<1> QED
  BY <1>2, Invariance, PTL DEF Spec, CompletedIsProven

-----------------------------------------------------------------------------
(* The journal                                                             *)

JournalKey == Tasks \X Runs \X Calls

(* A step that settles the calls of S, and leaves the others alone. *)
LEMMA SettleStep ==
  ASSUME effect' \in [Tasks -> [Runs -> [Calls -> {"none"} \cup EffectStatus]]], acted' = acted,
         \A t \in Tasks, k \in Runs, c \in Calls:
           \/ effect'[t][k][c] = effect[t][k][c]
           \/ /\ EffectResolve(effect[t][k][c], effect'[t][k][c])
              /\ effect'[t][k][c] = "committed" => <<t, k, c>> \in acted
  PROVE  [Journal!Next]_Journal!effectVars
<1> DEFINE j == [e \in JournalKey |-> effect[e[1]][e[2]][e[3]]]
           i == [e \in JournalKey |-> effect'[e[1]][e[2]][e[3]]]
<1>1. i \in [JournalKey -> {"none"} \cup EffectStatus]
  BY DEF JournalKey
<1>2. PICK S \in SUBSET JournalKey : S = {e \in JournalKey : i[e] # j[e]}
  OBVIOUS
<1>3. \A e \in S : EffectResolve(j[e], i[e]) /\ (i[e] = "committed" => e \in acted)
  BY <1>2 DEF JournalKey
<1>4. \A e \in JournalKey \ S : i[e] = j[e]
  BY <1>2
<1>5. Journal!Settle(S)
  BY <1>1, <1>3, <1>4
  DEF Journal!Settle, Journal!EffectResolve, Journal!EffectStatus, Journal!EffectTerminal,
      EffectResolve, EffectStatus, EffectTerminal, JournalKey
<1> QED
  BY <1>5 DEF Journal!Next, JournalKey

(* A settlement of one call, when its journal row is written. *)
LEMMA SettleCall ==
  ASSUME TypeOK, NEW t \in Tasks, NEW k \in Runs, NEW c \in Calls, NEW s \in EffectStatus,
         effect' = [effect EXCEPT ![t][k][c] = s], acted' = acted,
         EffectResolve(effect[t][k][c], s), s = "committed" => <<t, k, c>> \in acted
  PROVE  [Journal!Next]_Journal!effectVars
<1>1. effect' \in [Tasks -> [Runs -> [Calls -> {"none"} \cup EffectStatus]]]
  BY WriteCall
<1>2. effect'[t][k][c] = s
  BY DEF TypeOK
<1>3. \A u \in Tasks, j \in Runs, d \in Calls:
        u # t \/ j # k \/ d # c => effect'[u][j][d] = effect[u][j][d]
  BY WriteCall
<1> QED
  BY <1>1, <1>2, <1>3, SettleStep

(* A sweep, or a settlement of an execution, settles what is prepared.     *)
LEMMA SweepStep ==
  ASSUME effect' \in [Tasks -> [Runs -> [Calls -> {"none"} \cup EffectStatus]]], acted' = acted,
         \A t \in Tasks, k \in Runs, c \in Calls:
           \/ effect'[t][k][c] = effect[t][k][c]
           \/ effect[t][k][c] = "prepared" /\ effect'[t][k][c] = "outcome_unknown"
  PROVE  [Journal!Next]_Journal!effectVars
BY SettleStep DEF EffectResolve

(* A settlement of an execution leaves no call of it prepared. *)
LEMMA FinishSweeps ==
  ASSUME TypeOK, NEW t \in Tasks, NEW asked \in ExecTerminal, acted' = acted,
         Finish(t, asked) \/ UNCHANGED <<planning, task, exec, ledger>>
  PROVE  [Journal!Next]_Journal!effectVars
<1>1. CASE Active(t) /\ Finish(t, asked)
  <2> DEFINE k == exec[t].run
  <2>1. /\ effect' \in [Tasks -> [Runs -> [Calls -> {"none"} \cup EffectStatus]]]
        /\ \A u \in Tasks, j \in Runs: u # t \/ j # k => effect'[u][j] = effect[u][j]
        /\ k \in Runs => effect'[t][k] = CloseCalls(effect[t][k])
    BY <1>1, FinishEffect
  <2>2. ASSUME NEW u \in Tasks, NEW j \in Runs, NEW c \in Calls
        PROVE  \/ effect'[u][j][c] = effect[u][j][c]
               \/ effect[u][j][c] = "prepared" /\ effect'[u][j][c] = "outcome_unknown"
    <3>1. CASE u = t /\ j = k
      <4>1. effect[u][j] \in [Calls -> {"none"} \cup EffectStatus]
        BY DEF TypeOK
      <4> QED
        BY <2>1, <3>1, <4>1, CloseCallsEffect
    <3>2. CASE u # t \/ j # k
      BY <2>1, <3>2
    <3> QED
      BY <3>1, <3>2
  <2> QED
    BY <2>1, <2>2, SweepStep
<1>2. CASE effect' = effect
  BY <1>2 DEF Journal!effectVars
<1> QED
  BY <1>1, <1>2 DEF Finish, ledger

(* Every step is a step of the journal or a stutter: a worker prepares and *)
(* calls, its receipt settles one call, a settlement or a sweep all that   *)
(* are open.                                                               *)
LEMMA JournalStep ==
  ASSUME IInv, IInv', [Next]_vars
  PROVE  [Journal!Next]_Journal!effectVars
<1> USE DEF IInv
<1>1. ASSUME NEW t \in Tasks, Prepare(t) PROVE [Journal!Next]_Journal!effectVars
  <2>1. /\ worker[t].run \in Runs /\ worker[t].call + 1 \in Calls
        /\ worker[t].call + 1 > worker[t].call
        /\ worker[t].pc = "turn" /\ acted' = acted
        /\ effect' = [effect EXCEPT ![t][worker[t].run][worker[t].call + 1] = "prepared"]
    BY <1>1, WorkerHolds DEF Prepare, Attended, history
  <2>2. PICK k \in Runs, c \in Calls: k = worker[t].run /\ c = worker[t].call + 1
    BY <2>1
  <2>3. effect[t][k][c] = "none"
    <3>1. c > worker[t].call
      BY <2>1, <2>2
    <3>2. \A d \in Calls : d > worker[t].call => effect[t][worker[t].run][d] = "none"
      BY <2>1 DEF WorkerKnows
    <3> QED
      BY <2>2, <3>1, <3>2
  <2>4. PICK s \in EffectStatus: s = "prepared"
    BY DEF EffectStatus
  <2>5. effect' = [effect EXCEPT ![t][k][c] = s] /\ TypeOK
    BY <2>1, <2>2, <2>4
  <2>6. effect'[t][k][c] = "prepared"
    BY <2>4, <2>5 DEF TypeOK
  <2>7. \A u \in Tasks, j \in Runs, d \in Calls:
          u # t \/ j # k \/ d # c => effect'[u][j][d] = effect[u][j][d]
    BY <2>5, WriteCall
  <2>8. PICK e \in Tasks \X Runs \X Calls: e = <<t, k, c>>
    OBVIOUS
  <2>9. \A f \in Tasks \X Runs \X Calls :
          effect'[f[1]][f[2]][f[3]] = IF f = e THEN "prepared" ELSE effect[f[1]][f[2]][f[3]]
    BY <2>6, <2>7, <2>8
  <2>10. Journal!Prepare(e)
    BY <2>1, <2>3, <2>8, <2>9 DEF Journal!Prepare
  <2> QED
    BY <2>10 DEF Journal!Next
<1>2. ASSUME NEW t \in Tasks, Dispatch(t) PROVE [Journal!Next]_Journal!effectVars
  <2> DEFINE e == <<t, worker[t].run, worker[t].call>>
  <2>1. /\ e \in Tasks \X Runs \X Calls
        /\ effect[t][worker[t].run][worker[t].call] \in {"prepared", "outcome_unknown"}
    BY <1>2, WorkerHolds DEF Dispatch, Attended, WorkerKnows
  <2>2. acted' = acted \cup {e} /\ UNCHANGED effect
    BY <1>2 DEF Dispatch, ledger
  <2>3. Journal!Act(e)
    BY <2>1, <2>2 DEF Journal!Act
  <2> QED
    BY <2>1, <2>3 DEF Journal!Next
<1>3. ASSUME NEW t \in Tasks, Receipt(t) PROVE [Journal!Next]_Journal!effectVars
  <2> DEFINE k == worker[t].run
             c == worker[t].call
  <2>1. k \in Runs /\ c \in Calls /\ acted' = acted
    BY <1>3, WorkerHolds DEF Receipt, Returned, Attended, history
  <2>2. CASE UNCHANGED effect
    BY <2>1, <2>2 DEF Journal!effectVars
  <2>3. CASE \E s \in ReceiptStatus(t): /\ ReceiptAllowed(t, s)
                                       /\ effect' = [effect EXCEPT ![t][k][c] = s]
    <3>1. PICK s \in ReceiptStatus(t): /\ ReceiptAllowed(t, s)
                                       /\ effect' = [effect EXCEPT ![t][k][c] = s]
      BY <2>3
    <3>2. /\ s \in {"committed", "failed", "outcome_unknown"}
          /\ s = "committed" => worker[t].pc # "prepared"
      BY <3>1 DEF ReceiptStatus
    <3>3. EffectResolve(effect[t][k][c], s)
      BY <3>1 DEF ReceiptAllowed
    <3>4. s = "committed" => <<t, k, c>> \in acted
      BY <1>3, <3>2 DEF Receipt, Returned, WorkerKnows
    <3>5. s \in EffectStatus
      BY <3>2 DEF EffectStatus, EffectTerminal
    <3> HIDE DEF k, c
    <3> QED
      BY <2>1, <3>1, <3>3, <3>4, <3>5, SettleCall
  <2> QED
    BY <1>3, <2>2, <2>3 DEF Receipt
<1>4. ASSUME NEW t \in Tasks, FinishWork(t) PROVE [Journal!Next]_Journal!effectVars
  <2>1. Finish(t, "succeeded") \/ UNCHANGED <<planning, task, exec, ledger>>
    BY <1>4 DEF FinishWork
  <2>2. "succeeded" \in ExecTerminal /\ acted' = acted
    BY <1>4 DEF FinishWork, ExecTerminal, history
  <2> QED
    BY <2>1, <2>2, FinishSweeps
<1>5. ASSUME NEW t \in Tasks, FailWork(t) PROVE [Journal!Next]_Journal!effectVars
  <2>1. Finish(t, worker[t].status) \/ UNCHANGED <<planning, task, exec, ledger>>
    BY <1>5 DEF FailWork
  <2>2. worker[t].status \in ExecTerminal /\ acted' = acted
    BY <1>5 DEF FailWork, TypeOK, Worker, history
  <2> QED
    BY <2>1, <2>2, FinishSweeps
<1>6. ASSUME NEW t \in Tasks, RecoverExecution(t) PROVE [Journal!Next]_Journal!effectVars
  <2> DEFINE s == IF exec[t].status = "cancel_requested" THEN "cancelled" ELSE "interrupted"
  <2>1. Finish(t, s) \/ UNCHANGED <<planning, task, exec, ledger>>
    BY <1>6 DEF RecoverExecution
  <2>2. s \in ExecTerminal /\ acted' = acted
    BY <1>6 DEF RecoverExecution, ExecTerminal, history
  <2> HIDE DEF s
  <2> QED
    BY <2>1, <2>2, FinishSweeps
<1>7. CASE Diagnose \/ RecoverRuns
  <2>1. Scan /\ acted' = acted
    BY <1>7 DEF Diagnose, RecoverRuns, history
  <2> QED
    BY <2>1, ScanEffect, SweepStep
<1>8. CASE UNCHANGED <<effect, acted>>
  BY <1>8 DEF Journal!effectVars
<1>9. ASSUME NEW t \in Tasks,
             \/ Create(t) \/ \E v \in Seen(t), ack \in BOOLEAN : Launch(t, v, ack)
             \/ Claim(t) \/ Refused(t) \/ GiveUp(t) \/ Exit(t) \/ StoreRefuses(t) \/ Expire(t)
             \/ CancelWorkers(t) \/ CancelExecution(t) \/ JoinAsked(t) \/ JoinChildren(t)
             \/ CancelRun(t)
      PROVE  UNCHANGED <<effect, acted>>
  BY <1>9 DEF Create, Launch, Claim, Refused, GiveUp, Exit, StoreRefuses, Expire, CancelWorkers,
              CancelExecution, JoinAsked, JoinChildren, CancelRun, ledger, history
<1>10. ASSUME NEW n \in Nodes, StartNode(n) \/ CompleteNode(n) \/ FailNode(n)
       PROVE  UNCHANGED <<effect, acted>>
  BY <1>10 DEF StartNode, CompleteNode, FailNode, ledger, history
<1>11. CASE \/ CancelTree \/ PausePlan \/ ResumePlan \/ Bar \/ Reconcile \/ Serve
            \/ Stop \/ Stopped \/ Crash \/ UNCHANGED vars
  <2>1. UNCHANGED <<effect, acted>>
    BY <1>11 DEF CancelTree, PausePlan, ResumePlan, Bar, Reconcile, Serve, Stop, Stopped, Crash, Down,
                 vars, ledger, history
  <2> QED
    BY <1>8, <2>1
<1>12. ASSUME NEW t \in Tasks, ReconcileRun(t) PROVE [Journal!Next]_Journal!effectVars
  BY <1>12, ReconcileRunEffect, SweepStep
<1> QED
  BY <1>1, <1>2, <1>3, <1>4, <1>5, <1>6, <1>7, <1>8, <1>9, <1>10, <1>11, <1>12
  DEF Next, StartUp, Working

(* The tool calls of a plan implement write-ahead effects: no tool is      *)
(* called before its call is recorded, a recorded outcome stays, and a     *)
(* receipt is written only for a tool that was called.                     *)
THEOREM PlansImplementJournal == Spec => ImplementsJournal
<1>1. Init => Journal!Init
  BY DEF Init, Journal!Init
<1>2. IInv /\ IInv' /\ [Next]_vars => [Journal!Next]_Journal!effectVars
  BY JournalStep
<1> QED
  BY <1>1, <1>2, Invariance, PTL DEF Spec, ImplementsJournal, Journal!Spec
=============================================================================

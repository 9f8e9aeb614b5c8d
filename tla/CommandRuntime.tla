---------------------------- MODULE CommandRuntime ----------------------------
(***************************************************************************)
(* Reviewed command execution of the agent runtime: the run that asks for  *)
(* a review, the one-shot approval, the command job and its effect journal *)
(* row, the operating-system process behind it with its kill switch, and   *)
(* the three ways in which leftovers are swept up (agent.run.reconcile,    *)
(* the start-up sequence and the diagnostics page).                        *)
(*                                                                         *)
(* Every action is one transaction of the single-writer store or one step  *)
(* of the process outside it.  A request that the code refuses changes     *)
(* nothing and is left out.                                                *)
(***************************************************************************)
EXTENDS AgentRunDomain

CONSTANTS
  Runs,       \* agent runs
  Specs,      \* resolved command specifications (their digests)
  Leases,     \* workspace leases a review request can name
  Jobs,       \* identities of command jobs
  Keys,       \* idempotency keys of command.start
  None        \* "no value"

ASSUME NoneAssumption ==
  /\ None \notin Runs
  /\ None \notin Specs
  /\ None \notin Jobs

VARIABLES
  runStatus,  \* status of each run, "none" before it is started
  pending,    \* the spec of the latest AgentRunReviewRequested event
  approval,   \* approval of a spec in a run: "none", "granted", "consumed"
  requested,  \* review requests of a run that are in the audit chain
  audited,    \* actions audited at the present version of a run row
  jobStatus,  \* status of each command job, "none" before command.start
  jobRun,     \* the run a job belongs to
  jobSpec,    \* the spec a job executes
  effect,     \* journal row "command.start/<job>"
  replayable, \* command.start idempotency records: the stored job of a key
  proc,       \* where the goroutine and the process of a job are
  switch,     \* kill switch of a job in cmdCancels
  cancelling, \* jobs whose cancel committed, the kill not yet delivered
  engine,     \* "down", "reconciled" (half-way through start-up), "ready"
  ran,        \* history: jobs whose process was ever started
  lost        \* history: jobs whose result could not be written

runVars == <<runStatus, pending, approval, requested, audited>>
jobVars == <<jobStatus, jobRun, jobSpec, effect, replayable>>
procVars == <<proc, switch, cancelling, ran, lost>>
vars == <<runVars, jobVars, procVars, engine>>

ApprovalState == {"none", "granted", "consumed"}

(* none -> committed (start transaction done) -> armed (switch registered) *)
(* -> alive -> ok | bad (outcome in memory) -> gone; a crash of the engine *)
(* can also leave the process behind as an orphan.                         *)
ProcState == {"none", "committed", "armed", "alive", "ok", "bad", "gone", "orphan"}

(* Goroutines that exist only in the memory of a live engine. *)
InMemory == {"committed", "armed", "alive", "ok", "bad"}

(* The id of an audit row is a hash of request, run and action, so a       *)
(* request that repeats word for word is refused.  A review request is     *)
(* told apart by its spec and lease.  A rejection and a reconciliation     *)
(* carry the run's version; of the version, which every update of the row  *)
(* bumps, only this is kept: which of the two already happened at it.      *)
Audited == {"review.reject", "agent.run.reconcile"}

TypeOK ==
  /\ runStatus \in [Runs -> RunStatus \cup {"none"}]
  /\ pending \in [Runs -> Specs \cup {None}]
  /\ approval \in [Runs -> [Specs -> ApprovalState]]
  /\ requested \in [Runs -> SUBSET (Specs \X Leases)]
  /\ audited \in [Runs -> SUBSET Audited]
  /\ jobStatus \in [Jobs -> JobStatus \cup {"none"}]
  /\ jobRun \in [Jobs -> Runs \cup {None}]
  /\ jobSpec \in [Jobs -> Specs \cup {None}]
  /\ effect \in [Jobs -> EffectStatus \cup {"none"}]
  /\ replayable \in [Keys -> Jobs \cup {None}]
  /\ proc \in [Jobs -> ProcState]
  /\ switch \in [Jobs -> {"none", "armed", "fired"}]
  /\ cancelling \subseteq Jobs
  /\ engine \in {"down", "reconciled", "ready"}
  /\ ran \subseteq Jobs
  /\ lost \subseteq Jobs

Init ==
  /\ runStatus = [r \in Runs |-> "none"]
  /\ pending = [r \in Runs |-> None]
  /\ approval = [r \in Runs |-> [s \in Specs |-> "none"]]
  /\ requested = [r \in Runs |-> {}]
  /\ audited = [r \in Runs |-> {}]
  /\ jobStatus = [j \in Jobs |-> "none"]
  /\ jobRun = [j \in Jobs |-> None]
  /\ jobSpec = [j \in Jobs |-> None]
  /\ effect = [j \in Jobs |-> "none"]
  /\ replayable = [k \in Keys |-> None]
  /\ proc = [j \in Jobs |-> "none"]
  /\ switch = [j \in Jobs |-> "none"]
  /\ cancelling = {}
  /\ engine = "down"
  /\ ran = {}
  /\ lost = {}

(* The state of an effect nobody can prove or disprove. *)
CancelledEffect == "cancelled" \* mutant: a job status in the journal

PessimisticEffect == "failed" \* mutant: unproved counts as failed

UnprovableEffect == "outcome_unknown"

(***************************************************************************)
(* Runs.                                                                   *)
(***************************************************************************)

(* TransitionRun: the machine of the domain and a version bump. *)
MoveRun(r, to) ==
  /\ RunTransition(runStatus[r], to)
  /\ runStatus' = [runStatus EXCEPT ![r] = to]
  /\ audited' = [audited EXCEPT ![r] = {}]

(* agent.run.start: queued and running within one transaction. *)
StartRun(r) ==
  /\ engine = "ready"
  /\ runStatus[r] = "none"
  /\ runStatus' = [runStatus EXCEPT ![r] = "running"]
  /\ UNCHANGED <<pending, approval, requested, audited, jobVars, procVars, engine>>

(* A kernel step that only commits usage: the row gets a new version. *)
AdvanceUsage(r) ==
  /\ engine = "ready"
  /\ runStatus[r] = "running"
  /\ audited' = [audited EXCEPT ![r] = {}]
  /\ UNCHANGED <<runStatus, pending, approval, requested, jobVars, procVars, engine>>

(* A kernel step that would overrun the budget pauses the run, or fails it *)
(* when the budget is a hard ceiling.                                      *)
AdvanceOverBudget(r) ==
  /\ engine = "ready"
  /\ runStatus[r] = "running"
  /\ \E to \in {"paused_budget", "failed"} : MoveRun(r, to)
  /\ UNCHANGED <<pending, approval, requested, jobVars, procVars, engine>>

(* The kernel step that completes or fails the run; commands it started    *)
(* are not waited for.                                                     *)
AdvanceFinish(r) ==
  /\ engine = "ready"
  /\ runStatus[r] = "running"
  /\ \E to \in {"completed", "failed"} : MoveRun(r, to)
  /\ UNCHANGED <<pending, approval, requested, jobVars, procVars, engine>>

Resume(r) ==
  /\ engine = "ready"
  /\ runStatus[r] = "paused_budget"
  /\ MoveRun(r, "running")
  /\ UNCHANGED <<pending, approval, requested, jobVars, procVars, engine>>

(* agent.run.cancel asks the machine, which knows no edge from a paused    *)
(* run; the run's jobs are left alone.                                     *)
CancelRun(r) ==
  /\ engine = "ready"
  /\ MoveRun(r, "cancelled")
  /\ UNCHANGED <<pending, approval, requested, jobVars, procVars, engine>>

(* agent.run.reconcile: every prepared effect of the run becomes unknown,  *)
(* whether or not its process is still at work; the run keeps its row.     *)
Reconcile(r) ==
  /\ engine = "ready"
  /\ runStatus[r] # "none"
  /\ "agent.run.reconcile" \notin audited[r]
  /\ audited' = [audited EXCEPT ![r] = @ \cup {"agent.run.reconcile"}]
  /\ effect' = [j \in Jobs |-> IF jobRun[j] = r /\ effect[j] = "prepared"
                               THEN UnprovableEffect ELSE effect[j]]
  /\ UNCHANGED <<runStatus, pending, approval, requested>>
  /\ UNCHANGED <<jobStatus, jobRun, jobSpec, replayable, procVars, engine>>

(***************************************************************************)
(* Review.                                                                 *)
(***************************************************************************)

(* command.review.request *)
ReviewRequest(r, s, l) ==
  /\ engine = "ready"
  /\ runStatus[r] = "running"
  /\ <<s, l>> \notin requested[r]
  /\ MoveRun(r, "paused_review")
  /\ pending' = [pending EXCEPT ![r] = s]
  /\ requested' = [requested EXCEPT ![r] = @ \cup {<<s, l>>}]
  /\ UNCHANGED <<approval, jobVars, procVars, engine>>

(* review.decide, approved.  A run keeps at most one approval row of an    *)
(* approval digest, consumed or not (ux_run_review_approval_consume).      *)
Approve(r) ==
  /\ engine = "ready"
  /\ runStatus[r] = "paused_review"
  /\ pending[r] # None
  /\ approval[r][pending[r]] = "none"
  /\ approval' = [approval EXCEPT ![r][pending[r]] = "granted"]
  /\ MoveRun(r, "running")
  /\ UNCHANGED <<pending, requested, jobVars, procVars, engine>>

(* review.decide, rejected: the run stays where it is. *)
Reject(r) ==
  /\ engine = "ready"
  /\ runStatus[r] = "paused_review"
  /\ pending[r] # None
  /\ "review.reject" \notin audited[r]
  /\ audited' = [audited EXCEPT ![r] = @ \cup {"review.reject"}]
  /\ UNCHANGED <<runStatus, pending, approval, requested, jobVars, procVars, engine>>

(***************************************************************************)
(* Command jobs.                                                           *)
(***************************************************************************)

(* ConsumeReview: the approval of this digest is used up. *)
KeepReview(r, s) == UNCHANGED approval \* mutant: the approval stays valid

ConsumeReview(r, s) ==
  /\ approval[r][s] = "granted"
  /\ approval' = [approval EXCEPT ![r][s] = "consumed"]

(* command.start: consumes the approval, journals the effect, creates the  *)
(* job as running and stores the reply under the key - one transaction. A  *)
(* key with a live record only gets that reply back.                       *)
CommandStart(r, s, k, j) ==
  /\ engine = "ready"
  /\ replayable[k] = None
  /\ runStatus[r] = "running"
  /\ jobStatus[j] = "none"
  /\ ConsumeReview(r, s)
  /\ effect' = [effect EXCEPT ![j] = "prepared"]
  /\ jobStatus' = [jobStatus EXCEPT ![j] = "running"]
  /\ jobRun' = [jobRun EXCEPT ![j] = r]
  /\ jobSpec' = [jobSpec EXCEPT ![j] = s]
  /\ replayable' = [replayable EXCEPT ![k] = j]
  /\ proc' = [proc EXCEPT ![j] = "committed"]
  /\ UNCHANGED <<runStatus, pending, requested, audited, switch, cancelling, ran, lost, engine>>

(* Idempotency records live for 24 hours. *)
RecordExpires(k) ==
  /\ replayable[k] # None
  /\ replayable' = [replayable EXCEPT ![k] = None]
  /\ UNCHANGED <<runVars, jobStatus, jobRun, jobSpec, effect, procVars, engine>>

(* launchCommand, after the commit: the kill switch is registered, ... *)
LaunchUnarmed(j) == \* mutant: the switch is not registered
  /\ proc[j] = "committed"
  /\ \E p \in {"alive", "bad"} :
       /\ proc' = [proc EXCEPT ![j] = p]
       /\ ran' = IF p = "alive" THEN ran \cup {j} ELSE ran
  /\ UNCHANGED <<runVars, jobVars, switch, cancelling, lost, engine>>

Launch(j) ==
  /\ proc[j] = "committed"
  /\ proc' = [proc EXCEPT ![j] = "armed"]
  /\ switch' = [switch EXCEPT ![j] = "armed"]
  /\ UNCHANGED <<runVars, jobVars, cancelling, ran, lost, engine>>

(* ... then the goroutine starts the process, unless its context is over   *)
(* or the operating system refuses.                                        *)
Spawn(j) ==
  /\ proc[j] = "armed"
  /\ \/ /\ switch[j] = "armed"
        /\ proc' = [proc EXCEPT ![j] = "alive"]
        /\ ran' = ran \cup {j}
     \/ /\ proc' = [proc EXCEPT ![j] = "bad"]
        /\ UNCHANGED ran
  /\ UNCHANGED <<runVars, jobVars, switch, cancelling, lost, engine>>

(* The process ends by itself, by its timeout, or killed by its switch; a  *)
(* process that ended in time can still win against a fired switch.        *)
ProcessExits(j) ==
  /\ proc[j] = "alive"
  /\ \E outcome \in {"ok", "bad"} : proc' = [proc EXCEPT ![j] = outcome]
  /\ UNCHANGED <<runVars, jobVars, switch, cancelling, ran, lost, engine>>

(* What an outcome writes into the journal. *)
OptimisticReceipt(outcome) == "committed" \* mutant: every end is a success

ReceiptOf(outcome) == IF outcome = "ok" THEN "committed" ELSE "failed"

StatusOf(outcome) == IF outcome = "ok" THEN "completed" ELSE "failed"

GoroutineEnds(j) ==
  /\ proc[j] \in {"ok", "bad"}
  /\ proc' = [proc EXCEPT ![j] = "gone"]
  /\ switch' = [switch EXCEPT ![j] = "none"]
  /\ UNCHANGED <<runVars, jobRun, jobSpec, replayable, cancelling, ran, engine>>

(* finishCommand: the first terminal state of the row wins. *)
FinishCommandBlind(j) == \* mutant: the row is written without being read
  /\ GoroutineEnds(j)
  /\ jobStatus' = [jobStatus EXCEPT ![j] = StatusOf(proc[j])]
  /\ effect' = [effect EXCEPT ![j] = ReceiptOf(proc[j])]
  /\ UNCHANGED lost

FinishCommand(j) ==
  /\ GoroutineEnds(j)
  /\ IF jobStatus[j] \in JobTerminal
     THEN UNCHANGED <<jobStatus, effect>>
     ELSE /\ JobTransition(jobStatus[j], StatusOf(proc[j]))
          /\ EffectResolve(effect[j], ReceiptOf(proc[j]))
          /\ jobStatus' = [jobStatus EXCEPT ![j] = StatusOf(proc[j])]
          /\ effect' = [effect EXCEPT ![j] = ReceiptOf(proc[j])]
  /\ UNCHANGED lost

(* The transaction of finishCommand fails (30 s time-out, storage error):  *)
(* the error is dropped and the row stays running.                         *)
FinishLost(j) ==
  /\ GoroutineEnds(j)
  /\ lost' = lost \cup {j}
  /\ UNCHANGED <<jobStatus, effect>>

(* command.cancel: the transaction ... *)
CommandCancel(j) ==
  /\ engine = "ready"
  /\ JobTransition(jobStatus[j], "cancelled")
  /\ EffectResolve(effect[j], UnprovableEffect)
  /\ jobStatus' = [jobStatus EXCEPT ![j] = "cancelled"]
  /\ effect' = [effect EXCEPT ![j] = UnprovableEffect]
  /\ cancelling' = cancelling \cup {j}
  /\ UNCHANGED <<runVars, jobRun, jobSpec, replayable, proc, switch, ran, lost, engine>>

(* ... and then the kill switch, if one is registered by now. *)
CancelKill(j) ==
  /\ j \in cancelling
  /\ cancelling' = cancelling \ {j}
  /\ switch' = [switch EXCEPT ![j] = IF @ = "armed" THEN "fired" ELSE @]
  /\ UNCHANGED <<runVars, jobVars, proc, ran, lost, engine>>

(* A retried command.cancel gets its stored reply and kills once more. *)
CancelRetry(j) ==
  /\ engine = "ready"
  /\ jobStatus[j] = "cancelled"
  /\ cancelling' = cancelling \cup {j}
  /\ UNCHANGED <<runVars, jobVars, proc, switch, ran, lost, engine>>

(***************************************************************************)
(* Crash, start-up and the recovery scan.                                  *)
(***************************************************************************)

(* The engine dies, at any point: goroutines and switches are gone.  The   *)
(* Windows job object takes the process tree with it, the Unix fallback    *)
(* leaves it behind.                                                       *)
Crash ==
  /\ engine # "down"
  /\ engine' = "down"
  /\ \E survivors \in SUBSET {j \in Jobs : proc[j] = "alive"} :
       proc' = [j \in Jobs |-> IF j \in survivors THEN "orphan"
                               ELSE IF proc[j] \in InMemory THEN "gone" ELSE proc[j]]
  /\ switch' = [j \in Jobs |-> "none"]
  /\ cancelling' = {}
  /\ UNCHANGED <<runVars, jobVars, ran, lost>>

OrphanExits(j) ==
  /\ proc[j] = "orphan"
  /\ proc' = [proc EXCEPT ![j] = "gone"]
  /\ UNCHANGED <<runVars, jobVars, switch, cancelling, ran, lost, engine>>

QueuedJobs == {j \in Jobs : jobStatus[j] = "queued"} \* mutant: only queued jobs

ActiveJobs == {j \in Jobs : jobStatus[j] \in JobActive}

(* ReconcileCommandJobs, first step of start-up: one transaction, which    *)
(* fails - and with it the start - if the row of one active job or of its  *)
(* effect refuses the change.                                              *)
BootReconcileJobs ==
  /\ engine = "down"
  /\ \A j \in ActiveJobs :
       /\ JobTransition(jobStatus[j], "outcome_unknown")
       /\ effect[j] = UnprovableEffect \/ EffectResolve(effect[j], UnprovableEffect)
  /\ jobStatus' = [j \in Jobs |-> IF j \in ActiveJobs THEN "outcome_unknown" ELSE jobStatus[j]]
  /\ effect' = [j \in Jobs |-> IF j \in ActiveJobs THEN UnprovableEffect ELSE effect[j]]
  /\ engine' = "reconciled"
  /\ UNCHANGED <<runVars, jobRun, jobSpec, replayable, procVars>>

(* RunRecoveryScanner: a run with a prepared command effect is skipped,    *)
(* every other active run ends as interrupted.                             *)
Protected == {r \in Runs : \E j \in Jobs : jobRun[j] = r /\ effect[j] = "prepared"}

Interrupted == {r \in Runs \ Protected : runStatus[r] \in RunActive}

RecoveryScan ==
  /\ runStatus' = [r \in Runs |-> IF r \in Interrupted THEN "interrupted" ELSE runStatus[r]]
  /\ audited' = [r \in Runs |-> IF r \in Interrupted THEN {} ELSE audited[r]]
  /\ UNCHANGED <<pending, approval, requested, jobVars, procVars>>

BootScanFirst == \* mutant: the scan runs before the jobs are reconciled
  /\ engine = "down"
  /\ RecoveryScan
  /\ engine' = "ready"

(* Second step of start-up. *)
BootScan ==
  /\ engine = "reconciled"
  /\ RecoveryScan
  /\ engine' = "ready"

(* The diagnostics page of a running engine runs the same scan. *)
DiagnosticsScan ==
  /\ engine = "ready"
  /\ RecoveryScan
  /\ UNCHANGED engine

-----------------------------------------------------------------------------

RunStep ==
  \E r \in Runs :
    \/ StartRun(r) \/ AdvanceUsage(r) \/ AdvanceOverBudget(r) \/ AdvanceFinish(r)
    \/ Resume(r) \/ CancelRun(r) \/ Reconcile(r) \/ Approve(r) \/ Reject(r)
    \/ \E s \in Specs, l \in Leases : ReviewRequest(r, s, l)
    \/ \E s \in Specs, k \in Keys, j \in Jobs : CommandStart(r, s, k, j)

JobStep ==
  \E j \in Jobs :
    \/ Launch(j) \/ Spawn(j) \/ ProcessExits(j) \/ FinishCommand(j) \/ FinishLost(j)
    \/ CommandCancel(j) \/ CancelKill(j) \/ CancelRetry(j) \/ OrphanExits(j)

EngineStep ==
  \/ Crash \/ BootReconcileJobs \/ BootScan \/ DiagnosticsScan
  \/ \E k \in Keys : RecordExpires(k)

Next == RunStep \/ JobStep \/ EngineStep

Spec == Init /\ [][Next]_vars

(* The goroutine of a job runs on; a process ends at the latest by its     *)
(* timeout; a stopped engine is started again and its start-up goes on.    *)
(* Clients, reviewers and crashes owe nothing.                             *)
Fairness ==
  /\ \A j \in Jobs :
       /\ WF_vars(Launch(j))
       /\ WF_vars(Spawn(j))
       /\ WF_vars(ProcessExits(j))
       /\ WF_vars(FinishCommand(j) \/ FinishLost(j))
       /\ WF_vars(CancelKill(j))
  /\ WF_vars(BootReconcileJobs)
  /\ WF_vars(BootScan)

FairSpec == Spec /\ Fairness

-----------------------------------------------------------------------------
(***************************************************************************)
(* Properties.                                                             *)
(***************************************************************************)

(* The job row and the journal row of a command tell the same story at     *)
(* every commit, although six different transactions write them: finish,   *)
(* cancel, reconcile, start-up, scan and start.  In particular an active   *)
(* job never has a settled effect, which is what start-up relies on: else  *)
(* ReconcileCommandJobs fails and the engine never becomes ready again.    *)
JobEffectAgree ==
  \A j \in Jobs :
    /\ jobStatus[j] = "none" <=> effect[j] = "none"
    /\ jobStatus[j] \in JobActive => effect[j] \in {"prepared", "outcome_unknown"}
    /\ jobStatus[j] = "completed" <=> effect[j] = "committed"
    /\ jobStatus[j] = "failed" <=> effect[j] = "failed"
    /\ jobStatus[j] \in {"cancelled", "outcome_unknown"} => effect[j] = "outcome_unknown"

(* One approval pays for one job, however often command.start is retried,  *)
(* under whatever key, before or after its idempotency record expired, and *)
(* across restarts; and no job exists that no approval paid for.           *)
OneJobPerApproval ==
  \A r \in Runs, s \in Specs :
    LET paid == {j \in Jobs : jobRun[j] = r /\ jobSpec[j] = s}
    IN  /\ approval[r][s] = "consumed" <=> paid # {}
        /\ \A i, j \in paid : i = j

(* Once the engine is ready every active job has its goroutine in this     *)
(* very engine - nothing is left over from an earlier one - except where   *)
(* finishCommand could not write its result.                               *)
ReadyOwnsJobs ==
  engine = "ready" =>
    \A j \in Jobs : jobStatus[j] \in JobActive => proc[j] \in InMemory \/ j \in lost

(* As long as a job is running and its process is alive, command.cancel    *)
(* finds the switch that kills it.                                         *)
KillableWhileRunning ==
  \A j \in Jobs :
    jobStatus[j] = "running" /\ proc[j] = "alive" => switch[j] = "armed"

(* First terminal wins: a finish, a cancel, a reconcile and a restart that *)
(* race never rewrite each other's result, in the job or in the journal.   *)
FirstTerminalWins ==
  [][\A j \in Jobs :
       /\ jobStatus[j] \in JobTerminal => jobStatus'[j] = jobStatus[j]
       /\ effect[j] \in EffectTerminal => effect'[j] = effect[j]]_vars

(* The step that makes the engine serve leaves nothing of an earlier       *)
(* engine under way: no job is active, no effect is waiting for a receipt  *)
(* nobody will write, and so the scan has spared no run for one.  It holds *)
(* because jobs are reconciled first, and because a prepared effect always *)
(* has an active job, at whatever point the earlier engines died, some of  *)
(* them half-way through their own start-up.                               *)
StartupEndsRuns ==
  [][engine # "ready" /\ engine' = "ready" =>
       /\ \A j \in Jobs : jobStatus'[j] \notin JobActive /\ effect'[j] # "prepared"
       /\ \A r \in Runs : runStatus'[r] \notin RunActive]_vars

(* Command execution implements write-ahead effects: the journal row       *)
(* precedes the process, and "committed" is only written for a process     *)
(* that ran.                                                               *)
Journal == INSTANCE WriteAheadEffect WITH
  Effects <- Jobs, journal <- effect, acted <- ran

ImplementsJournal == Journal!Spec

(* A running job always settles - its goroutine writes the result, or a    *)
(* restart declares it unknown - unless its result could not be written.   *)
JobSettles ==
  \A j \in Jobs :
    jobStatus[j] = "running" ~> jobStatus[j] \in JobTerminal \/ j \in lost
=============================================================================

-------------------------- MODULE CommandRuntimeProofs --------------------------
(***************************************************************************)
(* Proofs about CommandRuntime, for every set of runs, specifications,     *)
(* leases, jobs and keys.                                                  *)
(***************************************************************************)
EXTENDS CommandRuntime, TLAPS

(* The actions of a run that touch neither its jobs nor the engine. *)
RunOnly(r) ==
  \/ StartRun(r) \/ AdvanceUsage(r) \/ AdvanceOverBudget(r) \/ AdvanceFinish(r)
  \/ Resume(r) \/ CancelRun(r) \/ Approve(r) \/ Reject(r)
  \/ \E s \in Specs, l \in Leases : ReviewRequest(r, s, l)

(* They leave jobs, journal, processes and the engine alone. *)
LEMMA RunOnlyFrame ==
  ASSUME NEW r \in Runs, RunOnly(r)
  PROVE  UNCHANGED <<jobVars, procVars, engine>>
BY DEF RunOnly, StartRun, AdvanceUsage, AdvanceOverBudget, AdvanceFinish, Resume,
       CancelRun, Approve, Reject, ReviewRequest

(* Every step is one of these. *)
LEMMA StepCases ==
  ASSUME Next
  PROVE  \/ \E r \in Runs : RunOnly(r)
         \/ \E r \in Runs : Reconcile(r)
         \/ \E r \in Runs, s \in Specs, k \in Keys, j \in Jobs : CommandStart(r, s, k, j)
         \/ \E j \in Jobs : Launch(j)
         \/ \E j \in Jobs : Spawn(j)
         \/ \E j \in Jobs : ProcessExits(j)
         \/ \E j \in Jobs : FinishCommand(j)
         \/ \E j \in Jobs : FinishLost(j)
         \/ \E j \in Jobs : CommandCancel(j)
         \/ \E j \in Jobs : CancelKill(j)
         \/ \E j \in Jobs : CancelRetry(j)
         \/ \E j \in Jobs : OrphanExits(j)
         \/ Crash
         \/ BootReconcileJobs
         \/ BootScan \/ DiagnosticsScan
         \/ \E k \in Keys : RecordExpires(k)
BY DEF Next, RunStep, JobStep, EngineStep, RunOnly

-----------------------------------------------------------------------------

(* The transition of a run keeps its row well typed. *)
LEMMA MoveRunType ==
  ASSUME TypeOK, NEW r \in Runs, NEW to \in RunStatus, MoveRun(r, to)
  PROVE  /\ runStatus' \in [Runs -> RunStatus \cup {"none"}]
         /\ audited' \in [Runs -> SUBSET Audited]
BY DEF TypeOK, MoveRun

(* Type correctness: every variable keeps its type, whatever the actors do. *)
THEOREM TypeCorrect == Spec => []TypeOK
<1>1. Init => TypeOK
  BY DEF Init, TypeOK, RunStatus, JobStatus, EffectStatus, ApprovalState, ProcState, Audited
<1>2. TypeOK /\ [Next]_vars => TypeOK'
  <2> SUFFICES ASSUME TypeOK, [Next]_vars PROVE TypeOK'
    OBVIOUS
  <2>0. CASE UNCHANGED vars
    BY <2>0 DEF TypeOK, vars, runVars, jobVars, procVars
  <2>1. ASSUME NEW r \in Runs, RunOnly(r) PROVE TypeOK'
    <3>0. UNCHANGED <<jobVars, procVars, engine>>
      BY <2>1, RunOnlyFrame
    <3>1. CASE StartRun(r)
      BY <3>0, <3>1 DEF StartRun, TypeOK, jobVars, procVars, RunStatus, RunActive
    <3>2. CASE AdvanceUsage(r)
      BY <3>0, <3>2 DEF AdvanceUsage, TypeOK, jobVars, procVars
    <3>3. CASE AdvanceOverBudget(r) \/ AdvanceFinish(r) \/ Resume(r) \/ CancelRun(r)
      <4>1. PICK to \in RunStatus : MoveRun(r, to)
        BY <3>3 DEF AdvanceOverBudget, AdvanceFinish, Resume, CancelRun,
                    RunStatus, RunActive, RunTerminal
      <4>2. UNCHANGED <<pending, approval, requested>>
        BY <3>3 DEF AdvanceOverBudget, AdvanceFinish, Resume, CancelRun
      <4> QED BY <3>0, <4>1, <4>2, MoveRunType DEF TypeOK, jobVars, procVars
    <3>4. CASE Approve(r)
      <4>1. MoveRun(r, "running") /\ "running" \in RunStatus /\ UNCHANGED <<pending, requested>>
        BY <3>4 DEF Approve, RunStatus, RunActive
      <4>2. approval' \in [Runs -> [Specs -> ApprovalState]]
        BY <3>4 DEF Approve, TypeOK, ApprovalState
      <4> QED BY <3>0, <4>1, <4>2, MoveRunType DEF TypeOK, jobVars, procVars
    <3>5. CASE Reject(r)
      BY <3>0, <3>5 DEF Reject, TypeOK, jobVars, procVars, Audited
    <3>6. ASSUME NEW s \in Specs, NEW l \in Leases, ReviewRequest(r, s, l) PROVE TypeOK'
      <4>1. MoveRun(r, "paused_review") /\ "paused_review" \in RunStatus /\ UNCHANGED approval
        BY <3>6 DEF ReviewRequest, RunStatus, RunActive
      <4>2. /\ pending' \in [Runs -> Specs \cup {None}]
            /\ requested' \in [Runs -> SUBSET (Specs \X Leases)]
        BY <3>6 DEF ReviewRequest, TypeOK
      <4> QED BY <3>0, <4>1, <4>2, MoveRunType DEF TypeOK, jobVars, procVars
    <3> QED BY <2>1, <3>1, <3>2, <3>3, <3>4, <3>5, <3>6 DEF RunOnly
  <2>2. ASSUME NEW r \in Runs, Reconcile(r) PROVE TypeOK'
    BY <2>2 DEF Reconcile, UnprovableEffect, TypeOK, procVars, Audited, EffectStatus
  <2>3. ASSUME NEW r \in Runs, NEW s \in Specs, NEW k \in Keys, NEW j \in Jobs,
               CommandStart(r, s, k, j)
        PROVE  TypeOK'
    <3>1. approval' \in [Runs -> [Specs -> ApprovalState]]
      BY <2>3 DEF CommandStart, ConsumeReview, TypeOK, ApprovalState
    <3>2. /\ jobStatus' \in [Jobs -> JobStatus \cup {"none"}]
          /\ effect' \in [Jobs -> EffectStatus \cup {"none"}]
          /\ proc' \in [Jobs -> ProcState]
      BY <2>3 DEF CommandStart, TypeOK, JobStatus, JobActive, EffectStatus, ProcState
    <3>3. /\ jobRun' \in [Jobs -> Runs \cup {None}]
          /\ jobSpec' \in [Jobs -> Specs \cup {None}]
          /\ replayable' \in [Keys -> Jobs \cup {None}]
      BY <2>3 DEF CommandStart, TypeOK
    <3> QED BY <2>3, <3>1, <3>2, <3>3 DEF CommandStart, TypeOK
  <2>4. ASSUME NEW j \in Jobs, Launch(j) PROVE TypeOK'
    BY <2>4 DEF Launch, TypeOK, runVars, jobVars, ProcState
  <2>5. ASSUME NEW j \in Jobs, Spawn(j) PROVE TypeOK'
    BY <2>5 DEF Spawn, TypeOK, runVars, jobVars, ProcState
  <2>6. ASSUME NEW j \in Jobs, ProcessExits(j) PROVE TypeOK'
    BY <2>6 DEF ProcessExits, TypeOK, runVars, jobVars, ProcState
  <2>7. ASSUME NEW j \in Jobs, FinishCommand(j) PROVE TypeOK'
    <3>1. /\ jobStatus' \in [Jobs -> JobStatus \cup {"none"}]
          /\ effect' \in [Jobs -> EffectStatus \cup {"none"}]
      BY <2>7 DEF FinishCommand, StatusOf, ReceiptOf, TypeOK, JobStatus, JobTerminal,
                  EffectStatus, EffectTerminal
    <3> QED BY <2>7, <3>1 DEF FinishCommand, GoroutineEnds, TypeOK, runVars, ProcState
  <2>8. ASSUME NEW j \in Jobs, FinishLost(j) PROVE TypeOK'
    BY <2>8 DEF FinishLost, GoroutineEnds, TypeOK, runVars, ProcState
  <2>9. ASSUME NEW j \in Jobs, CommandCancel(j) PROVE TypeOK'
    BY <2>9 DEF CommandCancel, UnprovableEffect, TypeOK, runVars, JobStatus, JobTerminal,
                EffectStatus
  <2>10. ASSUME NEW j \in Jobs, CancelKill(j) PROVE TypeOK'
    BY <2>10 DEF CancelKill, TypeOK, runVars, jobVars
  <2>11. ASSUME NEW j \in Jobs, CancelRetry(j) PROVE TypeOK'
    BY <2>11 DEF CancelRetry, TypeOK, runVars, jobVars
  <2>12. ASSUME NEW j \in Jobs, OrphanExits(j) PROVE TypeOK'
    BY <2>12 DEF OrphanExits, TypeOK, runVars, jobVars, ProcState
  <2>13. CASE Crash
    BY <2>13 DEF Crash, TypeOK, runVars, jobVars, ProcState
  <2>14. CASE BootReconcileJobs
    BY <2>14 DEF BootReconcileJobs, UnprovableEffect, TypeOK, runVars, procVars,
                 JobStatus, JobTerminal, EffectStatus
  <2>15. CASE BootScan \/ DiagnosticsScan
    BY <2>15 DEF BootScan, DiagnosticsScan, RecoveryScan, TypeOK, jobVars, procVars,
                 RunStatus, RunTerminal
  <2>16. ASSUME NEW k \in Keys, RecordExpires(k) PROVE TypeOK'
    BY <2>16 DEF RecordExpires, TypeOK, runVars, procVars
  <2> QED
    BY <2>0, <2>1, <2>2, <2>3, <2>4, <2>5, <2>6, <2>7, <2>8, <2>9, <2>10, <2>11, <2>12,
       <2>13, <2>14, <2>15, <2>16, StepCases
<1> QED BY <1>1, <1>2, PTL DEF Spec

-----------------------------------------------------------------------------
(***************************************************************************)
(* The inductive invariant.                                                *)
(***************************************************************************)

(* An identity that is not yet a job has no owner, no spec, no process and *)
(* nothing in the memory of the engine.                                    *)
FreshJobs ==
  \A j \in Jobs : jobStatus[j] = "none" =>
    jobRun[j] = None /\ jobSpec[j] = None /\ proc[j] = "none"

(* A kill is sent only on behalf of a committed cancel, and a process that *)
(* was started by this engine has its switch registered.                   *)
SwitchCause ==
  \A j \in Jobs :
    /\ j \in cancelling \/ switch[j] = "fired" => jobStatus[j] = "cancelled"
    /\ proc[j] = "alive" => switch[j] # "none"

(* While a goroutine has the job in hand its effect is still open, and a   *)
(* process that lives or ended well did run.                               *)
GoroutineEvidence ==
  \A j \in Jobs :
    /\ proc[j] \in InMemory => effect[j] \in {"prepared", "outcome_unknown"}
    /\ proc[j] \in {"alive", "ok"} => j \in ran

(* Between the two steps of start-up no job is active. *)
StartupClean == engine = "reconciled" => ActiveJobs = {}

IInv ==
  /\ TypeOK
  /\ JobEffectAgree
  /\ OneJobPerApproval
  /\ ReadyOwnsJobs
  /\ KillableWhileRunning
  /\ FreshJobs
  /\ SwitchCause
  /\ GoroutineEvidence
  /\ StartupClean

(* The job row and the journal row agree after every step. *)
LEMMA JobEffectAgreeStep ==
  ASSUME TypeOK, JobEffectAgree, [Next]_vars
  PROVE  JobEffectAgree'
<1>0. CASE UNCHANGED vars
  BY <1>0 DEF JobEffectAgree, vars, jobVars
<1>1. ASSUME NEW r \in Runs, RunOnly(r) PROVE JobEffectAgree'
  BY <1>1, RunOnlyFrame DEF JobEffectAgree, jobVars
<1>2. ASSUME NEW r \in Runs, Reconcile(r) PROVE JobEffectAgree'
  BY <1>2 DEF Reconcile, UnprovableEffect, JobEffectAgree, TypeOK, JobStatus, JobActive,
              JobTerminal, EffectStatus, EffectTerminal
<1>3. ASSUME NEW r \in Runs, NEW s \in Specs, NEW k \in Keys, NEW j \in Jobs,
             CommandStart(r, s, k, j)
      PROVE  JobEffectAgree'
  BY <1>3 DEF CommandStart, JobEffectAgree, TypeOK, JobActive
<1>4. ASSUME NEW j \in Jobs, FinishCommand(j) PROVE JobEffectAgree'
  <2>1. CASE jobStatus[j] \in JobTerminal
    BY <1>4, <2>1 DEF FinishCommand, GoroutineEnds, JobEffectAgree
  <2>2. CASE jobStatus[j] \notin JobTerminal
    BY <1>4, <2>2 DEF FinishCommand, StatusOf, ReceiptOf, JobTransition, JobEffectAgree,
                      TypeOK, JobActive, JobTerminal
  <2> QED BY <2>1, <2>2
<1>5. ASSUME NEW j \in Jobs, CommandCancel(j) PROVE JobEffectAgree'
  BY <1>5 DEF CommandCancel, UnprovableEffect, JobEffectAgree, TypeOK, JobActive
<1>6. CASE BootReconcileJobs
  BY <1>6 DEF BootReconcileJobs, UnprovableEffect, ActiveJobs, JobEffectAgree, TypeOK, JobActive
<1>7. CASE \/ \E j \in Jobs : \/ Launch(j) \/ Spawn(j) \/ ProcessExits(j) \/ FinishLost(j)
                             \/ CancelKill(j) \/ CancelRetry(j) \/ OrphanExits(j)
           \/ Crash \/ BootScan \/ DiagnosticsScan \/ \E k \in Keys : RecordExpires(k)
  <2>1. UNCHANGED <<jobStatus, effect>>
    BY <1>7 DEF Launch, Spawn, ProcessExits, FinishLost, CancelKill, CancelRetry, OrphanExits,
                Crash, BootScan, DiagnosticsScan, RecoveryScan, RecordExpires, jobVars
  <2> QED BY <2>1 DEF JobEffectAgree
<1> QED BY <1>0, <1>1, <1>2, <1>3, <1>4, <1>5, <1>6, <1>7, StepCases

(* A step on a run alone uses no approval up and un-uses none. *)
LEMMA RunOnlyApproval ==
  ASSUME TypeOK, NEW r \in Runs, RunOnly(r), NEW q \in Runs, NEW s \in Specs
  PROVE  approval'[q][s] = "consumed" <=> approval[q][s] = "consumed"
<1>1. CASE Approve(r)
  BY <1>1 DEF Approve, TypeOK
<1>2. CASE ~Approve(r)
  BY <1>2 DEF RunOnly, StartRun, AdvanceUsage, AdvanceOverBudget, AdvanceFinish, Resume,
              CancelRun, Reject, ReviewRequest
<1> QED BY <1>1, <1>2

(* What OneJobPerApproval says of one run and one specification. *)
PaidOnce(r, s) ==
  /\ approval[r][s] = "consumed" <=> \E j \in Jobs : jobRun[j] = r /\ jobSpec[j] = s
  /\ \A i, j \in Jobs :
       jobRun[i] = r /\ jobSpec[i] = s /\ jobRun[j] = r /\ jobSpec[j] = s => i = j

LEMMA OneJobPerApprovalDef == OneJobPerApproval <=> \A r \in Runs, s \in Specs : PaidOnce(r, s)
BY DEF OneJobPerApproval, PaidOnce

(* command.start turns a granted approval into exactly one job. *)
LEMMA CommandStartPaysOnce ==
  ASSUME TypeOK, FreshJobs, OneJobPerApproval,
         NEW r \in Runs, NEW s \in Specs, NEW k \in Keys, NEW j \in Jobs,
         CommandStart(r, s, k, j)
  PROVE  OneJobPerApproval'
<1> USE NoneAssumption DEF TypeOK
<1>1. /\ jobRun[j] = None
      /\ jobRun' = [jobRun EXCEPT ![j] = r]
      /\ jobSpec' = [jobSpec EXCEPT ![j] = s]
  BY DEF CommandStart, FreshJobs
<1>2. /\ approval[r][s] = "granted"
      /\ approval' = [approval EXCEPT ![r][s] = "consumed"]
  BY DEF CommandStart, ConsumeReview
<1>3. ASSUME NEW q \in Runs, NEW u \in Specs PROVE PaidOnce(q, u)'
  <2>1. PaidOnce(q, u)
    BY OneJobPerApprovalDef
  <2>2. CASE q = r /\ u = s
    <3>1. \A i \in Jobs : ~(jobRun[i] = r /\ jobSpec[i] = s)
      BY <1>2, <2>1, <2>2 DEF PaidOnce
    <3>2. \A i \in Jobs : jobRun'[i] = r /\ jobSpec'[i] = s <=> i = j
      BY <1>1, <3>1
    <3>3. approval'[r][s] = "consumed"
      BY <1>2
    <3> QED BY <2>2, <3>2, <3>3 DEF PaidOnce
  <2>3. CASE ~(q = r /\ u = s)
    <3>1. \A i \in Jobs : jobRun'[i] = q /\ jobSpec'[i] = u <=> jobRun[i] = q /\ jobSpec[i] = u
      BY <1>1, <2>3
    <3>2. approval'[q][u] = approval[q][u]
      BY <1>2, <2>3
    <3> QED BY <2>1, <3>1, <3>2 DEF PaidOnce
  <2> QED BY <2>2, <2>3
<1> QED BY <1>3 DEF OneJobPerApproval, PaidOnce

(* No step breaks the pairing of approvals and jobs. *)
LEMMA OneJobPerApprovalStep ==
  ASSUME TypeOK, FreshJobs, OneJobPerApproval, [Next]_vars
  PROVE  OneJobPerApproval'
<1>1. ASSUME NEW r \in Runs, RunOnly(r) PROVE OneJobPerApproval'
  BY <1>1, RunOnlyFrame, RunOnlyApproval DEF OneJobPerApproval, jobVars
<1>2. ASSUME NEW r \in Runs, NEW s \in Specs, NEW k \in Keys, NEW j \in Jobs,
             CommandStart(r, s, k, j)
      PROVE  OneJobPerApproval'
  BY <1>2, CommandStartPaysOnce
<1>3. CASE \/ UNCHANGED vars
           \/ \E r \in Runs : Reconcile(r)
           \/ \E j \in Jobs : \/ Launch(j) \/ Spawn(j) \/ ProcessExits(j) \/ FinishCommand(j)
                             \/ FinishLost(j) \/ CommandCancel(j) \/ CancelKill(j)
                             \/ CancelRetry(j) \/ OrphanExits(j)
           \/ Crash \/ BootReconcileJobs \/ BootScan \/ DiagnosticsScan
           \/ \E k \in Keys : RecordExpires(k)
  <2>1. UNCHANGED <<approval, jobRun, jobSpec>>
    BY <1>3 DEF vars, runVars, jobVars, Reconcile, Launch, Spawn, ProcessExits, FinishCommand,
                GoroutineEnds, FinishLost, CommandCancel, CancelKill, CancelRetry, OrphanExits,
                Crash, BootReconcileJobs, BootScan, DiagnosticsScan, RecoveryScan, RecordExpires
  <2> QED BY <2>1 DEF OneJobPerApproval
<1> QED BY <1>1, <1>2, <1>3, StepCases

(* An identity becomes a job, and gets a process, only by command.start. *)
LEMMA FreshJobsStep ==
  ASSUME TypeOK, JobEffectAgree, FreshJobs, [Next]_vars
  PROVE  FreshJobs'
<1>0. CASE UNCHANGED vars
  BY <1>0 DEF FreshJobs, vars, jobVars, procVars
<1>1. ASSUME NEW r \in Runs, RunOnly(r) PROVE FreshJobs'
  BY <1>1, RunOnlyFrame DEF FreshJobs, jobVars, procVars
<1>2. ASSUME NEW r \in Runs, NEW s \in Specs, NEW k \in Keys, NEW j \in Jobs,
             CommandStart(r, s, k, j)
      PROVE  FreshJobs'
  BY <1>2 DEF CommandStart, FreshJobs, TypeOK
<1>3. ASSUME NEW j \in Jobs,
             Launch(j) \/ Spawn(j) \/ ProcessExits(j) \/ FinishLost(j) \/ OrphanExits(j)
      PROVE  FreshJobs'
  BY <1>3 DEF Launch, Spawn, ProcessExits, FinishLost, GoroutineEnds, OrphanExits,
              FreshJobs, TypeOK, jobVars
<1>4. ASSUME NEW j \in Jobs, FinishCommand(j) PROVE FreshJobs'
  BY <1>4 DEF FinishCommand, GoroutineEnds, StatusOf, JobTransition, FreshJobs, TypeOK
<1>5. ASSUME NEW j \in Jobs, CommandCancel(j) PROVE FreshJobs'
  BY <1>5 DEF CommandCancel, JobTransition, FreshJobs, TypeOK
<1>6. CASE Crash
  BY <1>6 DEF Crash, InMemory, FreshJobs, TypeOK, jobVars
<1>7. CASE BootReconcileJobs
  BY <1>7 DEF BootReconcileJobs, ActiveJobs, JobActive, FreshJobs, TypeOK, procVars
<1>8. CASE \/ \E r \in Runs : Reconcile(r)
           \/ \E j \in Jobs : CancelKill(j) \/ CancelRetry(j)
           \/ BootScan \/ DiagnosticsScan \/ \E k \in Keys : RecordExpires(k)
  <2>1. UNCHANGED <<jobStatus, jobRun, jobSpec, proc>>
    BY <1>8 DEF Reconcile, CancelKill, CancelRetry, BootScan, DiagnosticsScan, RecoveryScan,
                RecordExpires, jobVars, procVars
  <2> QED BY <2>1 DEF FreshJobs
<1> QED BY <1>0, <1>1, <1>2, <1>3, <1>4, <1>5, <1>6, <1>7, <1>8, StepCases

(* Start-up leaves no active job behind, and afterwards every active job   *)
(* has its goroutine or lost its result.                                   *)
LEMMA ReadyOwnsJobsStep ==
  ASSUME TypeOK, ReadyOwnsJobs, StartupClean, [Next]_vars
  PROVE  ReadyOwnsJobs' /\ StartupClean'
<1> USE DEF ReadyOwnsJobs, StartupClean, ActiveJobs, JobActive
<1>0. CASE UNCHANGED vars
  BY <1>0 DEF vars, jobVars, procVars
<1>1. ASSUME NEW r \in Runs, RunOnly(r) PROVE ReadyOwnsJobs' /\ StartupClean'
  BY <1>1, RunOnlyFrame DEF jobVars, procVars
<1>2. ASSUME NEW r \in Runs, NEW s \in Specs, NEW k \in Keys, NEW j \in Jobs,
             CommandStart(r, s, k, j)
      PROVE  ReadyOwnsJobs' /\ StartupClean'
  BY <1>2 DEF CommandStart, InMemory, TypeOK
<1>3. ASSUME NEW j \in Jobs, Launch(j) \/ Spawn(j) \/ ProcessExits(j) \/ OrphanExits(j)
      PROVE  ReadyOwnsJobs' /\ StartupClean'
  BY <1>3 DEF Launch, Spawn, ProcessExits, OrphanExits, InMemory, TypeOK, jobVars
<1>4. ASSUME NEW j \in Jobs, FinishCommand(j) PROVE ReadyOwnsJobs' /\ StartupClean'
  <2>1. jobStatus'[j] \notin JobActive
    BY <1>4 DEF FinishCommand, StatusOf, JobTerminal, TypeOK
  <2>2. \A i \in Jobs \ {j} : jobStatus'[i] = jobStatus[i] /\ proc'[i] = proc[i]
    BY <1>4 DEF FinishCommand, GoroutineEnds, TypeOK
  <2>3. UNCHANGED <<engine, lost>>
    BY <1>4 DEF FinishCommand, GoroutineEnds
  <2> QED BY <2>1, <2>2, <2>3
<1>5. ASSUME NEW j \in Jobs, FinishLost(j) PROVE ReadyOwnsJobs' /\ StartupClean'
  BY <1>5 DEF FinishLost, GoroutineEnds, TypeOK
<1>6. ASSUME NEW j \in Jobs, CommandCancel(j) PROVE ReadyOwnsJobs' /\ StartupClean'
  BY <1>6 DEF CommandCancel, TypeOK
<1>7. CASE Crash
  BY <1>7 DEF Crash
<1>8. CASE BootReconcileJobs
  BY <1>8 DEF BootReconcileJobs, TypeOK
<1>9. CASE BootScan \/ DiagnosticsScan
  BY <1>9 DEF BootScan, DiagnosticsScan, RecoveryScan, jobVars, procVars
<1>10. CASE \/ \E r \in Runs : Reconcile(r)
            \/ \E j \in Jobs : CancelKill(j) \/ CancelRetry(j)
            \/ \E k \in Keys : RecordExpires(k)
  BY <1>10 DEF Reconcile, CancelKill, CancelRetry, RecordExpires, jobVars, procVars
<1> QED BY <1>0, <1>1, <1>2, <1>3, <1>4, <1>5, <1>6, <1>7, <1>8, <1>9, <1>10, StepCases

(* A live process of a running job always has an armed switch: switches    *)
(* fire only for jobs that are cancelled by then.                          *)
LEMMA KillableStep ==
  ASSUME TypeOK, SwitchCause, FreshJobs, KillableWhileRunning, [Next]_vars
  PROVE  SwitchCause' /\ KillableWhileRunning'
<1> USE DEF SwitchCause, KillableWhileRunning
<1>0. CASE UNCHANGED vars
  BY <1>0 DEF vars, jobVars, procVars
<1>1. ASSUME NEW r \in Runs, RunOnly(r) PROVE SwitchCause' /\ KillableWhileRunning'
  BY <1>1, RunOnlyFrame DEF jobVars, procVars
<1>2. ASSUME NEW r \in Runs, NEW s \in Specs, NEW k \in Keys, NEW j \in Jobs,
             CommandStart(r, s, k, j)
      PROVE  SwitchCause' /\ KillableWhileRunning'
  BY <1>2 DEF CommandStart, TypeOK
<1>3. ASSUME NEW j \in Jobs, Launch(j) \/ Spawn(j) \/ ProcessExits(j) \/ OrphanExits(j)
      PROVE  SwitchCause' /\ KillableWhileRunning'
  BY <1>3 DEF Launch, Spawn, ProcessExits, OrphanExits, TypeOK, jobVars
<1>4. ASSUME NEW j \in Jobs, FinishCommand(j) \/ FinishLost(j)
      PROVE  SwitchCause' /\ KillableWhileRunning'
  <2>1. proc'[j] = "gone" /\ switch'[j] = "none"
    BY <1>4 DEF FinishCommand, FinishLost, GoroutineEnds, TypeOK
  <2>2. \A i \in Jobs \ {j} :
          jobStatus'[i] = jobStatus[i] /\ proc'[i] = proc[i] /\ switch'[i] = switch[i]
    BY <1>4 DEF FinishCommand, FinishLost, GoroutineEnds, TypeOK
  <2>3. cancelling' = cancelling /\ (jobStatus[j] = "cancelled" => jobStatus'[j] = "cancelled")
    BY <1>4 DEF FinishCommand, FinishLost, GoroutineEnds, JobTerminal
  <2> QED BY <2>1, <2>2, <2>3
<1>5. ASSUME NEW j \in Jobs, CommandCancel(j) PROVE SwitchCause' /\ KillableWhileRunning'
  BY <1>5 DEF CommandCancel, TypeOK
<1>6. ASSUME NEW j \in Jobs, CancelKill(j) \/ CancelRetry(j)
      PROVE  SwitchCause' /\ KillableWhileRunning'
  BY <1>6 DEF CancelKill, CancelRetry, TypeOK, jobVars
<1>7. CASE Crash
  BY <1>7 DEF Crash, InMemory, TypeOK, jobVars
<1>8. CASE BootReconcileJobs
  BY <1>8 DEF BootReconcileJobs, ActiveJobs, JobActive, TypeOK, procVars
<1>9. CASE \/ \E r \in Runs : Reconcile(r)
           \/ BootScan \/ DiagnosticsScan \/ \E k \in Keys : RecordExpires(k)
  <2>1. UNCHANGED <<jobStatus, procVars>>
    BY <1>9 DEF Reconcile, BootScan, DiagnosticsScan, RecoveryScan, RecordExpires, jobVars, procVars
  <2> QED BY <2>1 DEF procVars
<1> QED BY <1>0, <1>1, <1>2, <1>3, <1>4, <1>5, <1>6, <1>7, <1>8, <1>9, StepCases

(* A job whose goroutine lives has an open effect. *)
LEMMA GoroutineEvidenceStep ==
  ASSUME TypeOK, JobEffectAgree, FreshJobs, GoroutineEvidence, [Next]_vars
  PROVE  GoroutineEvidence'
<1> USE DEF GoroutineEvidence, InMemory
<1>0. CASE UNCHANGED vars
  BY <1>0 DEF vars, jobVars, procVars
<1>1. ASSUME NEW r \in Runs, RunOnly(r) PROVE GoroutineEvidence'
  BY <1>1, RunOnlyFrame DEF jobVars, procVars
<1>2. ASSUME NEW r \in Runs, Reconcile(r) PROVE GoroutineEvidence'
  BY <1>2 DEF Reconcile, UnprovableEffect, TypeOK, procVars
<1>3. ASSUME NEW r \in Runs, NEW s \in Specs, NEW k \in Keys, NEW j \in Jobs,
             CommandStart(r, s, k, j)
      PROVE  GoroutineEvidence'
  BY <1>3 DEF CommandStart, TypeOK
<1>4. ASSUME NEW j \in Jobs, Launch(j) \/ Spawn(j) \/ ProcessExits(j) \/ OrphanExits(j)
      PROVE  GoroutineEvidence'
  BY <1>4 DEF Launch, Spawn, ProcessExits, OrphanExits, TypeOK, jobVars
<1>5. ASSUME NEW j \in Jobs, FinishCommand(j) \/ FinishLost(j) PROVE GoroutineEvidence'
  <2>1. proc'[j] = "gone" /\ ran' = ran
    BY <1>5 DEF FinishCommand, FinishLost, GoroutineEnds, TypeOK
  <2>2. \A i \in Jobs \ {j} : proc'[i] = proc[i] /\ effect'[i] = effect[i]
    BY <1>5 DEF FinishCommand, FinishLost, GoroutineEnds, TypeOK
  <2> QED BY <2>1, <2>2
<1>6. ASSUME NEW j \in Jobs, CommandCancel(j) PROVE GoroutineEvidence'
  BY <1>6 DEF CommandCancel, UnprovableEffect, TypeOK
<1>7. CASE Crash
  BY <1>7 DEF Crash, TypeOK, jobVars
<1>8. CASE BootReconcileJobs
  BY <1>8 DEF BootReconcileJobs, UnprovableEffect, TypeOK, procVars
<1>9. CASE \/ \E j \in Jobs : CancelKill(j) \/ CancelRetry(j)
           \/ BootScan \/ DiagnosticsScan \/ \E k \in Keys : RecordExpires(k)
  <2>1. UNCHANGED <<effect, proc, ran>>
    BY <1>9 DEF CancelKill, CancelRetry, BootScan, DiagnosticsScan, RecoveryScan, RecordExpires,
                jobVars, procVars
  <2> QED BY <2>1
<1> QED BY <1>0, <1>1, <1>2, <1>3, <1>4, <1>5, <1>6, <1>7, <1>8, <1>9, StepCases

-----------------------------------------------------------------------------

(* IInv is an invariant of every execution. *)
THEOREM Invariance == Spec => []IInv
<1>1. Init => IInv
  <2> SUFFICES ASSUME Init PROVE IInv
    OBVIOUS
  <2>1. JobEffectAgree /\ FreshJobs
    BY DEF Init, JobEffectAgree, FreshJobs, JobActive
  <2>2. OneJobPerApproval
    BY NoneAssumption DEF Init, OneJobPerApproval
  <2>3. ReadyOwnsJobs /\ StartupClean
    BY DEF Init, ReadyOwnsJobs, StartupClean
  <2>4. KillableWhileRunning /\ SwitchCause /\ GoroutineEvidence
    BY DEF Init, KillableWhileRunning, SwitchCause, GoroutineEvidence, InMemory
  <2>5. TypeOK
    BY DEF Init, TypeOK, RunStatus, JobStatus, EffectStatus, ApprovalState, ProcState, Audited
  <2> QED BY <2>1, <2>2, <2>3, <2>4, <2>5 DEF IInv
<1>2. TypeOK /\ TypeOK' /\ IInv /\ [Next]_vars => IInv'
  BY JobEffectAgreeStep, OneJobPerApprovalStep, FreshJobsStep, ReadyOwnsJobsStep, KillableStep,
     GoroutineEvidenceStep DEF IInv
<1> QED BY <1>1, <1>2, TypeCorrect, PTL DEF Spec

(* Six different transactions write the job row and the journal row of a   *)
(* command; at every commit the two agree, for every number of jobs.       *)
THEOREM JobAndEffectAgree == Spec => []JobEffectAgree
<1>1. IInv => JobEffectAgree
  BY DEF IInv
<1> QED BY <1>1, Invariance, PTL

(* An approval pays for one job: no retry, key expiry or restart lets the  *)
(* same approval start a second process.                                   *)
THEOREM ApprovalPaysOnce == Spec => []OneJobPerApproval
<1>1. IInv => OneJobPerApproval
  BY DEF IInv
<1> QED BY <1>1, Invariance, PTL

(* An engine that is ready has the goroutine of every active job or lost   *)
(* that job's result.                                                      *)
THEOREM ReadyEngineOwnsJobs == Spec => []ReadyOwnsJobs
<1>1. IInv => ReadyOwnsJobs
  BY DEF IInv
<1> QED BY <1>1, Invariance, PTL

(* command.cancel finds the kill switch of every live running job. *)
THEOREM RunningIsKillable == Spec => []KillableWhileRunning
<1>1. IInv => KillableWhileRunning
  BY DEF IInv
<1> QED BY <1>1, Invariance, PTL

-----------------------------------------------------------------------------
(***************************************************************************)
(* Action properties.                                                      *)
(***************************************************************************)

(* What FirstTerminalWins says of one step. *)
KeepsTerminals ==
  \A j \in Jobs :
    /\ jobStatus[j] \in JobTerminal => jobStatus'[j] = jobStatus[j]
    /\ effect[j] \in EffectTerminal => effect'[j] = effect[j]

(* A settled job and a settled effect are never rewritten, whoever races.  *)
THEOREM TerminalsAreFinal == Spec => FirstTerminalWins
<1>1. TypeOK /\ JobEffectAgree /\ [Next]_vars => [KeepsTerminals]_vars
  <2> SUFFICES ASSUME TypeOK, JobEffectAgree, Next PROVE KeepsTerminals
    OBVIOUS
  <2> USE DEF KeepsTerminals
  <2>1. ASSUME NEW r \in Runs, RunOnly(r) PROVE KeepsTerminals
    BY <2>1, RunOnlyFrame DEF jobVars
  <2>2. ASSUME NEW r \in Runs, Reconcile(r) PROVE KeepsTerminals
    BY <2>2 DEF Reconcile, EffectTerminal
  <2>3. ASSUME NEW r \in Runs, NEW s \in Specs, NEW k \in Keys, NEW j \in Jobs,
               CommandStart(r, s, k, j)
        PROVE  KeepsTerminals
    BY <2>3 DEF CommandStart, JobEffectAgree, TypeOK, JobTerminal, EffectTerminal
  <2>4. ASSUME NEW j \in Jobs, FinishCommand(j) PROVE KeepsTerminals
    BY <2>4 DEF FinishCommand, TypeOK, EffectResolve, EffectTerminal
  <2>5. ASSUME NEW j \in Jobs, CommandCancel(j) PROVE KeepsTerminals
    BY <2>5 DEF CommandCancel, TypeOK, JobTransition, EffectResolve, JobTerminal, EffectTerminal
  <2>6. CASE BootReconcileJobs
    BY <2>6 DEF BootReconcileJobs, UnprovableEffect, ActiveJobs, JobActive, JobTerminal,
                EffectResolve, EffectTerminal
  <2>7. CASE \/ \E j \in Jobs : \/ Launch(j) \/ Spawn(j) \/ ProcessExits(j) \/ FinishLost(j)
                               \/ CancelKill(j) \/ CancelRetry(j) \/ OrphanExits(j)
             \/ Crash \/ BootScan \/ DiagnosticsScan \/ \E k \in Keys : RecordExpires(k)
    <3>1. UNCHANGED <<jobStatus, effect>>
      BY <2>7 DEF Launch, Spawn, ProcessExits, FinishLost, CancelKill, CancelRetry, OrphanExits,
                  Crash, BootScan, DiagnosticsScan, RecoveryScan, RecordExpires, jobVars
    <3> QED BY <3>1
  <2> QED BY <2>1, <2>2, <2>3, <2>4, <2>5, <2>6, <2>7, StepCases
<1>2. [][KeepsTerminals]_vars => FirstTerminalWins
  BY DEF KeepsTerminals, FirstTerminalWins
<1> QED BY <1>1, <1>2, TypeCorrect, JobAndEffectAgree, PTL DEF Spec

(* What StartupEndsRuns says of one step. *)
EndsRuns ==
  engine # "ready" /\ engine' = "ready" =>
    /\ \A j \in Jobs : jobStatus'[j] \notin JobActive /\ effect'[j] # "prepared"
    /\ \A r \in Runs : runStatus'[r] \notin RunActive

(* An engine begins to serve over jobs, effects and runs none of which an  *)
(* earlier engine has left under way, however often start-up was cut off.  *)
THEOREM StartupEndsEveryRun == Spec => StartupEndsRuns
<1>1. TypeOK /\ IInv /\ [Next]_vars => [EndsRuns]_vars
  <2> SUFFICES ASSUME TypeOK, IInv, Next, engine # "ready", engine' = "ready" PROVE EndsRuns
    BY DEF EndsRuns
  <2>1. CASE BootScan
    <3>1. \A j \in Jobs : jobStatus[j] \notin JobActive
      BY <2>1 DEF BootScan, IInv, StartupClean, ActiveJobs
    <3>2. \A j \in Jobs : effect[j] # "prepared"
      <4> SUFFICES ASSUME NEW j \in Jobs, effect[j] = "prepared" PROVE FALSE
        OBVIOUS
      <4>1. jobStatus[j] \in JobStatus \cup {"none"}
        BY DEF TypeOK
      <4>2. jobStatus[j] \in JobActive
        BY <4>1 DEF IInv, JobEffectAgree, JobStatus, JobActive, JobTerminal
      <4> QED BY <4>2, <3>1
    <3>3. Protected = {}
      BY <3>2 DEF Protected
    <3>4. \A r \in Runs : runStatus'[r] \notin RunActive
      BY <2>1, <3>3 DEF BootScan, RecoveryScan, Interrupted, RunActive
    <3>5. UNCHANGED <<jobStatus, effect>>
      BY <2>1 DEF BootScan, RecoveryScan, jobVars
    <3> QED BY <3>1, <3>2, <3>4, <3>5 DEF EndsRuns
  <2>2. CASE \/ Crash \/ BootReconcileJobs
    BY <2>2 DEF Crash, BootReconcileJobs
  <2>3. ASSUME NEW r \in Runs, RunOnly(r) PROVE FALSE
    BY <2>3, RunOnlyFrame
  <2>4. CASE \/ \E r \in Runs : Reconcile(r)
             \/ \E r \in Runs, s \in Specs, k \in Keys, j \in Jobs : CommandStart(r, s, k, j)
             \/ \E j \in Jobs : \/ Launch(j) \/ Spawn(j) \/ ProcessExits(j) \/ FinishCommand(j)
                               \/ FinishLost(j) \/ CommandCancel(j) \/ CancelKill(j)
                               \/ CancelRetry(j) \/ OrphanExits(j)
             \/ DiagnosticsScan \/ \E k \in Keys : RecordExpires(k)
    <3>1. UNCHANGED engine
      BY <2>4 DEF Reconcile, CommandStart, Launch, Spawn, ProcessExits, FinishCommand,
                  GoroutineEnds, FinishLost, CommandCancel, CancelKill, CancelRetry, OrphanExits,
                  DiagnosticsScan, RecordExpires
    <3> QED BY <3>1
  <2> QED BY <2>1, <2>2, <2>3, <2>4, StepCases
<1>2. [][EndsRuns]_vars => StartupEndsRuns
  BY DEF EndsRuns, StartupEndsRuns
<1> QED BY <1>1, <1>2, TypeCorrect, Invariance, PTL DEF Spec

-----------------------------------------------------------------------------
(***************************************************************************)
(* Refinement.  CommandStart is the journal's Prepare, Spawn its Act, and  *)
(* a finish, a cancel, a reconcile and start-up settle; the rest stutters. *)
(***************************************************************************)

(* One transaction that moves every effect of S along the journal's        *)
(* machine and starts nothing is a step of the abstract specification.     *)
LEMMA SettleStep ==
  ASSUME TypeOK, TypeOK', NEW S \in SUBSET Jobs, ran' = ran,
         \A j \in S : /\ EffectResolve(effect[j], effect'[j])
                      /\ effect'[j] = "committed" => j \in ran,
         \A j \in Jobs \ S : effect'[j] = effect[j]
  PROVE  [Journal!Next]_Journal!effectVars
BY DEF Journal!Next, Journal!Settle, Journal!effectVars, Journal!EffectResolve, Journal!EffectStatus,
       Journal!EffectTerminal, EffectStatus, EffectTerminal, EffectResolve, TypeOK

(* Every step of the runtime is a step of the journal or a stutter. *)
LEMMA JournalStep ==
  ASSUME TypeOK, TypeOK', JobEffectAgree, FreshJobs, GoroutineEvidence, [Next]_vars
  PROVE  [Journal!Next]_Journal!effectVars
<1>1. ASSUME NEW r \in Runs, NEW s \in Specs, NEW k \in Keys, NEW j \in Jobs,
             CommandStart(r, s, k, j)
      PROVE  [Journal!Next]_Journal!effectVars
  <2>1. Journal!Prepare(j)
    BY <1>1 DEF CommandStart, JobEffectAgree, TypeOK, Journal!Prepare
  <2> QED BY <2>1 DEF Journal!Next
<1>2. ASSUME NEW j \in Jobs, Spawn(j) PROVE [Journal!Next]_Journal!effectVars
  <2>1. UNCHANGED effect
    BY <1>2 DEF Spawn, jobVars
  <2>2. CASE ran' = ran \cup {j}
    <3>1. effect[j] \in {"prepared", "outcome_unknown"}
      BY <1>2 DEF Spawn, GoroutineEvidence, InMemory
    <3>2. Journal!Act(j)
      BY <2>1, <2>2, <3>1 DEF Journal!Act
    <3> QED BY <3>2 DEF Journal!Next
  <2>3. CASE ran' = ran
    BY <2>1, <2>3 DEF Journal!effectVars
  <2> QED BY <1>2, <2>2, <2>3 DEF Spawn
<1>3. ASSUME NEW r \in Runs, Reconcile(r) PROVE [Journal!Next]_Journal!effectVars
  <2> DEFINE S == {j \in Jobs : jobRun[j] = r /\ effect[j] = "prepared"}
  <2>1. /\ ran' = ran
        /\ S \in SUBSET Jobs
        /\ \A j \in S : EffectResolve(effect[j], effect'[j]) /\ effect'[j] # "committed"
        /\ \A j \in Jobs \ S : effect'[j] = effect[j]
    BY <1>3 DEF Reconcile, UnprovableEffect, EffectResolve, procVars
  <2> QED BY <2>1, SettleStep
<1>4. ASSUME NEW j \in Jobs, FinishCommand(j) PROVE [Journal!Next]_Journal!effectVars
  <2>1. ran' = ran
    BY <1>4 DEF FinishCommand, GoroutineEnds
  <2>2. CASE jobStatus[j] \in JobTerminal
    BY <1>4, <2>1, <2>2 DEF FinishCommand, Journal!effectVars
  <2>3. CASE jobStatus[j] \notin JobTerminal
    <3>1. effect' = [effect EXCEPT ![j] = ReceiptOf(proc[j])] /\ EffectResolve(effect[j], effect'[j])
      BY <1>4, <2>3 DEF FinishCommand, TypeOK
    <3>2. effect'[j] = "committed" => j \in ran
      BY <1>4, <3>1 DEF FinishCommand, GoroutineEnds, ReceiptOf, GoroutineEvidence, TypeOK
    <3>3. \A i \in Jobs \ {j} : effect'[i] = effect[i]
      BY <3>1
    <3>4. {j} \in SUBSET Jobs
      OBVIOUS
    <3> QED BY <2>1, <3>1, <3>2, <3>3, <3>4, SettleStep
  <2> QED BY <2>2, <2>3
<1>5. ASSUME NEW j \in Jobs, CommandCancel(j) PROVE [Journal!Next]_Journal!effectVars
  <2>1. /\ ran' = ran
        /\ {j} \in SUBSET Jobs
        /\ EffectResolve(effect[j], effect'[j]) /\ effect'[j] # "committed"
        /\ \A i \in Jobs \ {j} : effect'[i] = effect[i]
    BY <1>5 DEF CommandCancel, UnprovableEffect, TypeOK
  <2> QED BY <2>1, SettleStep
<1>6. CASE BootReconcileJobs
  <2> DEFINE S == {j \in ActiveJobs : effect[j] # UnprovableEffect}
  <2>1. /\ ran' = ran
        /\ S \in SUBSET Jobs
        /\ \A j \in S : EffectResolve(effect[j], effect'[j]) /\ effect'[j] # "committed"
        /\ \A j \in Jobs \ S : effect'[j] = effect[j]
    BY <1>6 DEF BootReconcileJobs, ActiveJobs, UnprovableEffect, procVars
  <2> QED BY <2>1, SettleStep
<1>7. CASE \/ UNCHANGED vars
           \/ \E r \in Runs : RunOnly(r)
           \/ \E j \in Jobs : \/ Launch(j) \/ ProcessExits(j) \/ FinishLost(j)
                             \/ CancelKill(j) \/ CancelRetry(j) \/ OrphanExits(j)
           \/ Crash \/ BootScan \/ DiagnosticsScan \/ \E k \in Keys : RecordExpires(k)
  <2>1. UNCHANGED <<effect, ran>>
    BY <1>7, RunOnlyFrame DEF vars, jobVars, procVars, Launch, ProcessExits, FinishLost, GoroutineEnds,
       CancelKill, CancelRetry, OrphanExits, Crash, BootScan, DiagnosticsScan, RecoveryScan,
       RecordExpires
  <2> QED BY <2>1 DEF Journal!effectVars
<1> QED BY <1>1, <1>2, <1>3, <1>4, <1>5, <1>6, <1>7, StepCases

(* Command execution implements write-ahead effects: the intent is durable *)
(* before the process, and a receipt is written only for a process that    *)
(* ran.                                                                    *)
THEOREM CommandsImplementJournal == Spec => ImplementsJournal
<1>1. Init => Journal!Init
  BY DEF Init, Journal!Init
<1>2. IInv /\ IInv' /\ [Next]_vars => [Journal!Next]_Journal!effectVars
  BY JournalStep DEF IInv
<1> QED BY <1>1, <1>2, Invariance, PTL DEF Spec, ImplementsJournal, Journal!Spec
=============================================================================

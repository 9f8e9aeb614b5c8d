--------------------------- MODULE SchedulerProofs ---------------------------
(***************************************************************************)
(* Proofs about Scheduler, for every set of jobs, every schedule of each   *)
(* and every number of executions, versions and restarts.                  *)
(***************************************************************************)
EXTENDS Scheduler, TLAPS

(* A launch by the tick or by hand, and what it leaves alone. *)
Launched(r, d, cron) ==
  /\ Launch(r, d, cron)
  /\ d \in asked \cup due
  /\ asked' \subseteq asked /\ due' \subseteq due
  /\ UNCHANGED <<store, engine, interrupted, blocked, planned, tick, listed>>

Refused(d) ==
  /\ LaunchRefused(d)
  /\ asked' \subseteq asked /\ due' \subseteq due
  /\ UNCHANGED <<store, engine, interrupted, blocked, planned, tick, listed>>

(* Every step is one of these. *)
LEMMA StepCases ==
  ASSUME Next
  PROVE  \/ \E j \in Jobs: PutJobVersioned(j)
         \/ \E j \in Jobs: DeleteJob(j)
         \/ \E j \in Jobs: TriggerNow(j)
         \/ \E j \in Jobs, r \in Runs: CancelRun(j, r)
         \/ \E r \in Runs, d \in asked \cup due, cron \in BOOLEAN: Launched(r, d, cron)
         \/ \E d \in asked \cup due: Refused(d)
         \/ \E r \in Runs: AppendIntent(r)
         \/ \E r \in Runs: Touch(r)
         \/ \E r \in Runs: Begin(r)
         \/ \E r \in Runs: Return(r)
         \/ \E r \in Runs: Disable(r)
         \/ \E r \in Runs: WriteReceipt(r)
         \/ \E r \in Runs: BlockAutomaticRun(r)
         \/ \E r \in Runs: Replan(r)
         \/ \E r \in Runs: Release(r)
         \/ ListJobs \/ SelectDue \/ TickDone
         \/ StartUp \/ DisableInterrupted \/ CloseInterrupted
         \/ \E r \in Runs: CloseInterruptedRow(r)
         \/ \E j \in Jobs: DisableInterruptedJob(j)
         \/ Open \/ Close \/ Closed \/ Stop
<1>1. CASE \E d \in asked: LaunchAsked(d)
  BY <1>1 DEF LaunchAsked, Launched, Refused, ticking
<1>2. CASE \E d \in due: FireDue(d)
  BY <1>2 DEF FireDue, Launched, Refused
<1> QED
  BY <1>1, <1>2 DEF Next, User, RunStep, Tick, Recover

-----------------------------------------------------------------------------

(* A run is no empty slot. *)
LEMMA RunsType == Runs \subseteq Nat /\ NoRun \notin Runs
BY SchedulerAssumption DEF Runs, NoRun

LEMMA JobType ==
  ASSUME NEW b \in JobRecord
  PROVE  Disabled(b) \in JobRecord /\ Disabled(b).version = b.version + 1
BY DEF Disabled, JobRecord

(* Disabling a version keeps jobs well typed and leaves it not current. *)
LEMMA DisableIfUnchangedJob ==
  ASSUME job \in [Jobs -> JobRecord], NEW o \in Execution
  PROVE  /\ DisableIfUnchanged(o) \in [Jobs -> JobRecord]
         /\ \A j \in Jobs:
              \/ DisableIfUnchanged(o)[j] = job[j]
              \/ DisableIfUnchanged(o)[j] = Disabled(job[j])
         /\ ~(/\ DisableIfUnchanged(o)[o.job].exists
              /\ DisableIfUnchanged(o)[o.job].version = o.version)
<1>1. o.job \in Jobs /\ o.version \in Nat
  BY DEF Execution
<1>2. job[o.job] \in JobRecord /\ job[o.job].version \in Nat
  BY <1>1 DEF JobRecord
<1>3. CASE job[o.job].exists /\ job[o.job].version = o.version
  <2>1. DisableIfUnchanged(o) = [job EXCEPT ![o.job] = Disabled(job[o.job])]
    BY <1>3 DEF DisableIfUnchanged
  <2>2. Disabled(job[o.job]).version # o.version
    BY <1>2, <1>3 DEF Disabled, JobRecord
  <2> QED
    BY <1>1, <1>2, <2>1, <2>2, JobType
<1>4. CASE ~(job[o.job].exists /\ job[o.job].version = o.version)
  BY <1>1, <1>4 DEF DisableIfUnchanged
<1> QED
  BY <1>3, <1>4

(* What a receipt says is a row with an end state. *)
LEMMA ReceiptOfType ==
  ASSUME NEW r \in Runs, NEW result \in {"ok", "error", "not_started"}
  PROVE  ReceiptOf(r, result) \in Row /\ ReceiptOf(r, result).state \in {"succeeded", "failed"}
BY DEF ReceiptOf, Row, RowState

(* Concluding keeps the types. *)
LEMMA ConcludeType ==
  ASSUME TypeOK, NEW r \in Runs, NEW result \in {"ok", "error", "not_started"},
         Conclude(r, result)
  PROVE  /\ final' = [final EXCEPT ![r] = ReceiptOf(r, result)]
         /\ final' \in [Runs -> Row]
         /\ pc' \in [Runs -> Step]
         /\ \/ pc' = [pc EXCEPT ![r] = "disable"]
            \/ /\ pc' = [pc EXCEPT ![r] = "receipt"]
               /\ ~ MustDisable(r, ReceiptOf(r, result))
<1>1. ReceiptOf(r, result) \in Row
  BY ReceiptOfType
<1>2. /\ final' = [final EXCEPT ![r] = ReceiptOf(r, result)]
      /\ \/ pc' = [pc EXCEPT ![r] = "disable"]
         \/ /\ pc' = [pc EXCEPT ![r] = "receipt"]
            /\ ~ MustDisable(r, ReceiptOf(r, result))
  BY DEF Conclude
<1> QED
  BY <1>1, <1>2 DEF TypeOK, Step

-----------------------------------------------------------------------------
(* Types *)

LEMMA InitType == Init => TypeOK
<1> SUFFICES ASSUME Init PROVE TypeOK
  OBVIOUS
<1>1. (CHOOSE j \in Jobs: TRUE) \in Jobs
  BY SchedulerAssumption
<1>2. NoExecution \in Execution
  BY <1>1 DEF NoExecution, Execution
<1>3. NoRow \in Row
  BY DEF NoRow, Row, RowState
<1>4. NoJob \in JobRecord
  BY DEF NoJob, JobRecord
<1>5. 0 \in 0 .. MaxStarts
  BY SchedulerAssumption
<1> QED
  BY <1>2, <1>3, <1>4, <1>5 DEF Init, TypeOK, JobRecord, Engine, Step

LEMMA UserType ==
  ASSUME TypeOK, NEW j \in Jobs,
         PutJobVersioned(j) \/ DeleteJob(j) \/ TriggerNow(j)
  PROVE  TypeOK'
<1>0. job[j] \in JobRecord /\ job[j].version \in Nat
  BY DEF TypeOK, JobRecord
<1>1. CASE PutJobVersioned(j)
  <2>1. PICK on \in BOOLEAN:
          job' = [job EXCEPT ![j] = [exists |-> TRUE, enabled |-> on, version |-> job[j].version + 1]]
    BY <1>1 DEF PutJobVersioned
  <2>2. [exists |-> TRUE, enabled |-> on, version |-> job[j].version + 1] \in JobRecord
    BY <1>0 DEF JobRecord
  <2>3. job' \in [Jobs -> JobRecord]
    BY <2>1, <2>2 DEF TypeOK
  <2> QED
    BY <1>1, <2>3 DEF PutJobVersioned, TypeOK, store, planned, ticking, execution, history
<1>2. CASE DeleteJob(j)
  <2>1. job' \in [Jobs -> JobRecord]
    BY <1>0, <1>2 DEF DeleteJob, TypeOK, JobRecord
  <2> QED
    BY <1>2, <2>1 DEF DeleteJob, TypeOK, store, planned, ticking, execution, history
<1>3. CASE TriggerNow(j)
  <2>1. asked' \subseteq JobVersion
    BY <1>0, <1>3 DEF TriggerNow, TypeOK, JobVersion
  <2> QED
    BY <1>3, <2>1 DEF TriggerNow, TypeOK, store, planned, ticking, execution, history
<1> QED
  BY <1>1, <1>2, <1>3

LEMMA LaunchedType ==
  ASSUME TypeOK, NEW r \in Runs, NEW d \in asked \cup due, NEW cron \in BOOLEAN,
         Launched(r, d, cron)
  PROVE  TypeOK'
<1>1. d.job \in Jobs /\ d.version \in Nat
  BY DEF TypeOK, JobVersion
<1>2. [job |-> d.job, version |-> d.version, cron |-> cron] \in Execution
  BY <1>1 DEF Execution
<1>3. /\ running' \in [Jobs -> Runs \cup {NoRun}]
      /\ pc' \in [Runs -> Step]
      /\ of' \in [Runs -> Execution]
      /\ stale' \subseteq Runs
  BY <1>1, <1>2 DEF Launched, Launch, TypeOK, Step
<1> QED
  BY <1>3 DEF Launched, Launch, TypeOK, store, planned, ticking, execution, history

LEMMA RunStepType ==
  ASSUME TypeOK, NEW r \in Runs, RunStep(r)
  PROVE  TypeOK'
<1>0. of[r] \in Execution /\ of[r].job \in Jobs /\ of[r].version \in Nat
  BY DEF TypeOK, Execution
<1>1. NoRow \in Row /\ RunningRow \in Row /\ [NoRow EXCEPT !.state = "failed"] \in Row
  BY DEF NoRow, RunningRow, Row, RowState
<1>2. CASE AppendIntent(r)
  <2>1. row' \in [Runs -> Row] /\ pc' \in [Runs -> Step]
    BY <1>1, <1>2 DEF AppendIntent, TypeOK, Step
  <2> QED
    BY <1>2, <2>1 DEF AppendIntent, TypeOK, store, planned, ticking, execution, history
<1>3. CASE Touch(r)
  <2>1. row' \in [Runs -> Row] /\ pc' \in [Runs -> Step]
    BY <1>1, <1>3 DEF Touch, TypeOK, Step
  <2> QED
    BY <1>3, <2>1 DEF Touch, TypeOK, store, planned, ticking, execution, history
<1>4. CASE Begin(r)
  <2>1. CASE Conclude(r, "not_started") /\ UNCHANGED begun
    <3>1. final' \in [Runs -> Row] /\ pc' \in [Runs -> Step]
      BY <2>1, ConcludeType
    <3> QED
      BY <1>4, <2>1, <3>1 DEF Begin, TypeOK, store, planned, ticking, execution, history
  <2>2. CASE ~ (Conclude(r, "not_started") /\ UNCHANGED begun)
    <3>1. pc' \in [Runs -> Step] /\ begun' \subseteq Runs
      BY <1>4, <2>2 DEF Begin, TypeOK, Step
    <3> QED
      BY <1>4, <2>2, <3>1 DEF Begin, TypeOK, store, planned, ticking, execution, history
  <2> QED
    BY <2>1, <2>2
<1>5. CASE Return(r)
  <2>1. PICK result \in {"ok", "error", "not_started"}: Conclude(r, result)
    BY <1>5 DEF Return
  <2>2. final' \in [Runs -> Row] /\ pc' \in [Runs -> Step]
    BY <2>1, ConcludeType
  <2> QED
    BY <1>5, <2>2 DEF Return, TypeOK, store, planned, ticking, execution, history
<1>6. CASE Disable(r)
  <2>1. job' \in [Jobs -> JobRecord]
    BY <1>0, <1>6, DisableIfUnchangedJob DEF Disable, TypeOK
  <2>2. pc' \in [Runs -> Step]
    BY <1>6 DEF Disable, TypeOK, Step
  <2> QED
    BY <1>6, <2>1, <2>2 DEF Disable, TypeOK, store, planned, ticking, execution, history
<1>7. CASE WriteReceipt(r)
  <2>1. job' \in [Jobs -> JobRecord]
    BY <1>0, <1>7, DisableIfUnchangedJob DEF WriteReceipt, TypeOK
  <2>2. pc' \in [Runs -> Step] /\ row' \in [Runs -> Row]
    BY <1>7 DEF WriteReceipt, TypeOK, Step
  <2> QED
    BY <1>7, <2>1, <2>2 DEF WriteReceipt, TypeOK, store, planned, ticking, execution, history
<1>8. CASE BlockAutomaticRun(r)
  <2>1. pc' \in [Runs -> Step] /\ blocked' \in [Jobs -> Nat] /\ nextFire' \subseteq Jobs
    BY <1>0, <1>8 DEF BlockAutomaticRun, TypeOK, Step
  <2> QED
    BY <1>8, <2>1 DEF BlockAutomaticRun, TypeOK, store, planned, ticking, execution, history
<1>9. CASE Replan(r)
  <2>1. pc' \in [Runs -> Step] /\ nextFire' \subseteq Jobs
    BY <1>0, <1>9 DEF Replan, TypeOK, Step
  <2> QED
    BY <1>9, <2>1 DEF Replan, TypeOK, store, planned, ticking, execution, history
<1>10. CASE Release(r)
  <2>1. /\ running' \in [Jobs -> Runs \cup {NoRun}]
        /\ pc' \in [Runs -> Step]
        /\ cause' \in [Runs -> {"none", "user", "close"}]
        /\ final' \in [Runs -> Row]
    BY <1>0, <1>1, <1>10 DEF Release, TypeOK, Step
  <2> QED
    BY <1>10, <2>1 DEF Release, TypeOK, store, planned, ticking, execution, history
<1> QED
  BY <1>2, <1>3, <1>4, <1>5, <1>6, <1>7, <1>8, <1>9, <1>10 DEF RunStep

LEMMA TickType ==
  ASSUME TypeOK, ListJobs \/ SelectDue \/ TickDone
  PROVE  TypeOK'
<1>1. CASE ListJobs
  BY <1>1 DEF ListJobs, TypeOK, store, planned, ticking, execution, history
<1>2. CASE SelectDue
  <2> DEFINE candidates == {j \in Jobs: Selectable(j)}
  <2>1. \A j \in Jobs: listed[j].version \in Nat
    BY DEF TypeOK, JobRecord
  <2>2. schedule' \in [Jobs -> Nat]
    BY <1>2, <2>1 DEF SelectDue, TypeOK
  <2>3. nextFire' \subseteq Jobs
    BY <1>2 DEF SelectDue, TypeOK
  <2>4. due' \subseteq JobVersion
    BY <1>2, <2>1 DEF SelectDue, JobVersion
  <2>5. tick' \in {"idle", "listed", "firing"} /\ listed' \in [Jobs -> JobRecord]
    BY <1>2 DEF SelectDue, NoJob, JobRecord
  <2> QED
    BY <1>2, <2>2, <2>3, <2>4, <2>5 DEF SelectDue, TypeOK, store, planned, ticking, execution, history
<1>3. CASE TickDone
  BY <1>3 DEF TickDone, TypeOK, store, planned, ticking, execution, history
<1> QED
  BY <1>1, <1>2, <1>3

LEMMA RecoverType ==
  ASSUME TypeOK, Recover
  PROVE  TypeOK'
<1>0. /\ \A r \in Runs: of[r].job \in Jobs
      /\ \A j \in Jobs: Disabled(job[j]) \in JobRecord
      /\ Interrupted \in Row
  BY JobType DEF TypeOK, Execution, Interrupted, Row, RowState
<1>1. CASE DisableInterrupted
  <2>1. interrupted' \subseteq Jobs
    BY <1>0, <1>1 DEF DisableInterrupted, RunningRows
  <2>2. job' \in [Jobs -> JobRecord]
    BY <1>0, <1>1 DEF DisableInterrupted, TypeOK
  <2> QED
    BY <1>1, <2>1, <2>2 DEF DisableInterrupted, BootUnchanged, TypeOK, store, planned, ticking, execution, history
<1>2. CASE CloseInterrupted
  <2>1. row' \in [Runs -> Row]
    BY <1>0, <1>2 DEF CloseInterrupted, TypeOK
  <2> QED
    BY <1>2, <2>1 DEF CloseInterrupted, BootUnchanged, TypeOK, store, planned, ticking, execution, history
<1>3. CASE \E r \in Runs: CloseInterruptedRow(r)
  <2>1. PICK r \in Runs: CloseInterruptedRow(r)
    BY <1>3
  <2>2. row' \in [Runs -> Row] /\ interrupted' \subseteq Jobs
    BY <1>0, <2>1 DEF CloseInterruptedRow, TypeOK
  <2> QED
    BY <2>1, <2>2 DEF CloseInterruptedRow, BootUnchanged, TypeOK, store, planned, ticking, execution, history
<1>4. CASE \E j \in Jobs: DisableInterruptedJob(j)
  <2>1. PICK j \in Jobs: DisableInterruptedJob(j)
    BY <1>4
  <2>2. job' \in [Jobs -> JobRecord] /\ interrupted' \subseteq Jobs
    BY <1>0, <2>1 DEF DisableInterruptedJob, TypeOK
  <2> QED
    BY <2>1, <2>2 DEF DisableInterruptedJob, BootUnchanged, TypeOK, store, planned, ticking, execution, history
<1> QED
  BY <1>1, <1>2, <1>3, <1>4 DEF Recover

LEMMA ProcessType ==
  ASSUME TypeOK, StartUp \/ Open \/ Close \/ Closed \/ Stop
  PROVE  TypeOK'
<1>1. CASE StartUp
  BY <1>1 DEF StartUp, BootUnchanged, TypeOK, Engine, store, planned, ticking, execution, history
<1>2. CASE Open
  <2>1. schedule' \in [Jobs -> Nat] /\ nextFire' \subseteq Jobs
    BY <1>2 DEF Open, TypeOK, JobRecord
  <2> QED
    BY <1>2, <2>1 DEF Open, BootUnchanged, TypeOK, Engine, store, planned, ticking, execution, history
<1>3. CASE Close
  BY <1>3 DEF Close, TypeOK, Engine, store, planned, ticking, execution, history
<1>4. CASE Closed
  BY <1>4 DEF Closed, TypeOK, Engine, store, planned, ticking, execution, history
<1>5. CASE Stop
  <2>1. starts' \in 0 .. MaxStarts
    BY <1>5, SchedulerAssumption DEF Stop, TypeOK
  <2>2. /\ listed' \in [Jobs -> JobRecord]
        /\ pc' \in [Runs -> Step]
        /\ cause' \in [Runs -> {"none", "user", "close"}]
        /\ final' \in [Runs -> Row]
    BY <1>5 DEF Stop, NoJob, JobRecord, NoRow, Row, RowState, TypeOK, Step
  <2> QED
    BY <1>5, <2>1, <2>2 DEF Stop, TypeOK, Engine, store, planned, ticking, execution, history
<1> QED
  BY <1>1, <1>2, <1>3, <1>4, <1>5

LEMMA TypeStep == TypeOK /\ [Next]_vars => TypeOK'
<1> SUFFICES ASSUME TypeOK, [Next]_vars PROVE TypeOK'
  OBVIOUS
<1>1. CASE UNCHANGED vars
  BY <1>1 DEF vars, TypeOK, store, planned, ticking, execution, history
<1>2. CASE \E j \in Jobs, r \in Runs: CancelRun(j, r)
  BY <1>2 DEF CancelRun, TypeOK, store, planned, ticking, execution, history
<1>3. CASE \E r \in Runs, d \in asked \cup due, cron \in BOOLEAN: Launched(r, d, cron)
  BY <1>3, LaunchedType
<1>4. CASE \E d \in asked \cup due: Refused(d)
  BY <1>4 DEF Refused, LaunchRefused, TypeOK, store, planned, ticking, execution, history
<1>5. CASE \E r \in Runs: RunStep(r)
  BY <1>5, RunStepType
<1>6. CASE ListJobs \/ SelectDue \/ TickDone
  BY <1>6, TickType
<1>7. CASE Recover
  BY <1>7, RecoverType
<1>8. CASE StartUp \/ Open \/ Close \/ Closed \/ Stop
  BY <1>8, ProcessType
<1>9. CASE \E j \in Jobs: PutJobVersioned(j) \/ DeleteJob(j) \/ TriggerNow(j)
  BY <1>9, UserType
<1> QED
  BY <1>1, <1>2, <1>3, <1>4, <1>5, <1>6, <1>7, <1>8, <1>9, StepCases DEF RunStep, Recover

(* Every variable keeps its type: the check of TypeOK in Scheduler.        *)
THEOREM TypeCorrect == Spec => []TypeOK
<1> QED
  BY InitType, TypeStep, PTL DEF Spec

-----------------------------------------------------------------------------
(* Slots, and silence after Close *)

(* Steps of an execution that keep it alive, and what they leave alone. *)
LEMMA RunStepFrame ==
  ASSUME TypeOK, NEW r \in Runs, RunStep(r), ~ Release(r)
  PROVE  /\ Live(r) /\ Live(r)'
         /\ \A q \in Runs: q # r => pc'[q] = pc[q]
         /\ pc'[r] # "idle"
         /\ UNCHANGED <<engine, interrupted, running, of, tick, listed, due, asked, stale, starts>>
<1>1. CASE Begin(r) \/ Return(r)
  <2>1. PICK result \in {"ok", "error", "not_started"}:
          \/ Conclude(r, result)
          \/ pc' = [pc EXCEPT ![r] = "executing"]
    BY <1>1 DEF Begin, Return
  <2>2. \/ pc' = [pc EXCEPT ![r] = "disable"]
        \/ pc' = [pc EXCEPT ![r] = "receipt"]
        \/ pc' = [pc EXCEPT ![r] = "executing"]
    BY <2>1, ConcludeType
  <2> QED
    BY <1>1, <2>2 DEF Begin, Return, Live, TypeOK, ticking, history
<1>2. CASE ~ (Begin(r) \/ Return(r))
  <2>1. /\ pc[r] \in {"intent", "touch", "disable", "receipt", "block", "replan"}
        /\ \E step \in {"touch", "begin", "receipt", "block", "replan", "release"}:
             pc' = [pc EXCEPT ![r] = step]
    BY <1>2 DEF RunStep, AppendIntent, Touch, Disable, WriteReceipt, BlockAutomaticRun, Replan
  <2>2. UNCHANGED <<engine, interrupted, running, of, tick, listed, due, asked, stale, starts>>
    BY <1>2 DEF RunStep, AppendIntent, Touch, Disable, WriteReceipt, BlockAutomaticRun, Replan,
         ticking, history
  <2> QED
    BY <2>1, <2>2 DEF Live, TypeOK
<1> QED
  BY <1>1, <1>2

LEMMA SlotStep ==
  ASSUME TypeOK, SlotOwned, [Next]_vars
  PROVE  SlotOwned'
<1>0. \A r \in Runs: of[r].job \in Jobs /\ r # NoRun
  BY RunsType DEF TypeOK, Execution
<1>1. CASE UNCHANGED <<running, pc, of>>
  BY <1>1 DEF SlotOwned, Live
<1>2. CASE \E r \in Runs, d \in asked \cup due, cron \in BOOLEAN: Launched(r, d, cron)
  <2>1. PICK r \in Runs, d \in asked \cup due, cron \in BOOLEAN: Launched(r, d, cron)
    BY <1>2
  <2>2. d.job \in Jobs
    BY DEF TypeOK, JobVersion
  <2>3. /\ running[d.job] = NoRun /\ running' = [running EXCEPT ![d.job] = r]
        /\ ~ Live(r) /\ pc' = [pc EXCEPT ![r] = "intent"]
        /\ of' = [of EXCEPT ![r] = [job |-> d.job, version |-> d.version, cron |-> cron]]
    BY <2>1 DEF Launched, Launch, NextRun, Live
  <2>4. /\ running'[d.job] = r /\ \A j \in Jobs \ {d.job}: running'[j] = running[j]
        /\ pc'[r] = "intent" /\ of'[r].job = d.job
        /\ \A q \in Runs \ {r}: pc'[q] = pc[q] /\ of'[q] = of[q]
    BY <2>2, <2>3 DEF TypeOK
  <2>5. ASSUME NEW j \in Jobs, running'[j] # NoRun
        PROVE  pc'[running'[j]] \notin {"idle", "gone"} /\ of'[running'[j]].job = j
    <3>1. CASE j = d.job
      BY <2>4, <3>1 DEF Live
    <3>2. CASE j # d.job
      <4>1. running'[j] = running[j] /\ running[j] \in Runs
        BY <2>4, <2>5, <3>2 DEF TypeOK
      <4>2. Live(running[j]) /\ of[running[j]].job = j
        BY <2>5, <4>1 DEF SlotOwned
      <4> QED
        BY <2>3, <2>4, <4>1, <4>2 DEF Live
    <3> QED
      BY <3>1, <3>2
  <2>6. ASSUME NEW q \in Runs, Live(q)'
        PROVE  running'[of'[q].job] = q
    <3>1. CASE q = r
      BY <2>4, <3>1
    <3>2. CASE q # r
      <4>1. Live(q) /\ of'[q] = of[q]
        BY <2>4, <2>6, <3>2 DEF Live
      <4>2. running[of[q].job] = q
        BY <4>1 DEF SlotOwned
      <4> QED
        BY <1>0, <2>3, <2>4, <4>1, <4>2
    <3> QED
      BY <3>1, <3>2
  <2> QED
    BY <2>5, <2>6 DEF SlotOwned, Live
<1>3. CASE \E r \in Runs: RunStep(r) /\ ~ Release(r)
  <2>1. PICK r \in Runs: RunStep(r) /\ ~ Release(r)
    BY <1>3
  <2>2. \A q \in Runs: Live(q)' <=> Live(q)
    BY <2>1, RunStepFrame DEF Live
  <2>3. UNCHANGED <<running, of>>
    BY <2>1, RunStepFrame
  <2> QED
    BY <2>2, <2>3 DEF SlotOwned, TypeOK
<1>4. CASE \E r \in Runs: Release(r)
  <2>1. PICK r \in Runs: Release(r)
    BY <1>4
  <2>2. /\ Live(r) /\ running[of[r].job] = r
        /\ running'[of[r].job] = NoRun
        /\ \A j \in Jobs: j # of[r].job => running'[j] = running[j]
        /\ pc'[r] = "gone" /\ \A q \in Runs: q # r => pc'[q] = pc[q]
        /\ of' = of
    BY <1>0, <2>1 DEF Release, SlotOwned, Live, TypeOK
  <2>3. \A q \in Runs: Live(q)' <=> Live(q) /\ q # r
    BY <2>2 DEF Live
  <2>4. \A j \in Jobs: running[j] \in Runs \cup {NoRun}
    BY DEF TypeOK
  <2> QED
    BY <1>0, <2>2, <2>3, <2>4 DEF SlotOwned
<1>5. CASE Stop
  BY <1>5 DEF Stop, SlotOwned, Live, TypeOK
<1> QED
  BY <1>1, <1>2, <1>3, <1>4, <1>5, StepCases
  DEF vars, RunStep, PutJobVersioned, DeleteJob, TriggerNow, CancelRun, Refused, LaunchRefused,
      ListJobs, SelectDue, TickDone, StartUp, DisableInterrupted, CloseInterrupted,
      CloseInterruptedRow, DisableInterruptedJob, Open, Close, Closed, BootUnchanged, execution

LEMMA QuietStep ==
  ASSUME TypeOK, QuietAfterClose, [Next]_vars
  PROVE  QuietAfterClose'
<1>1. CASE UNCHANGED <<engine, tick, pc>>
  BY <1>1 DEF QuietAfterClose, Live
<1>2. CASE \E r \in Runs, d \in asked \cup due, cron \in BOOLEAN: Launched(r, d, cron)
  BY <1>2 DEF Launched, Launch, QuietAfterClose
<1>3. CASE \E r \in Runs: RunStep(r)
  <2>1. PICK r \in Runs: RunStep(r)
    BY <1>3
  <2>2. Live(r) /\ UNCHANGED engine
    BY <2>1, RunStepFrame DEF Release, Live
  <2> QED
    BY <2>2 DEF QuietAfterClose
<1>4. CASE ListJobs \/ SelectDue \/ TickDone
  BY <1>4 DEF ListJobs, SelectDue, TickDone, QuietAfterClose
<1>5. CASE StartUp \/ Open \/ Close \/ Closed \/ Stop
  BY <1>5 DEF StartUp, Open, Close, Closed, Stop, BootUnchanged, QuietAfterClose, Live, execution,
       ticking, TypeOK
<1> QED
  BY <1>1, <1>2, <1>3, <1>4, <1>5, StepCases
  DEF vars, RunStep, PutJobVersioned, DeleteJob, TriggerNow, CancelRun, Refused, LaunchRefused,
      DisableInterrupted, CloseInterrupted, CloseInterruptedRow, DisableInterruptedJob,
      BootUnchanged, execution, ticking

LEMMA InitSlots == Init => SlotOwned /\ QuietAfterClose
BY DEF Init, SlotOwned, QuietAfterClose, Live

(* One execution per job, and no slot is kept by an execution that ended   *)
(* or never started, whichever step failed (launch and its release).       *)
THEOREM SlotsAreOwned == Spec => []SlotOwned
<1> QED
  BY InitType, TypeStep, InitSlots, SlotStep, PTL DEF Spec

(* When Close has returned, and until the next process has recovered,      *)
(* nothing executes and nothing is being launched (Close, launch).         *)
THEOREM CloseIsQuiet == Spec => []QuietAfterClose
<1> QED
  BY InitType, TypeStep, InitSlots, QuietStep, PTL DEF Spec

-----------------------------------------------------------------------------
(* Versions of jobs only go up *)

(* What an execution, a tick or a request has read is no newer than the job. *)
VersionsKnown ==
  /\ \A r \in Runs: of[r].version <= job[of[r].job].version
  /\ \A j \in Jobs: listed[j].version <= job[j].version
  /\ \A d \in due \cup asked: d.version <= job[d.job].version

(* A version that is edited, disabled or gone never comes back. *)
JobsAdvance ==
  \A j \in Jobs:
    /\ job'[j].version >= job[j].version
    /\ job'[j].version = job[j].version /\ job'[j].exists => job[j].exists

LEMMA Advance ==
  ASSUME TypeOK, [Next]_vars
  PROVE  JobsAdvance
<1>0. \A j \in Jobs: job[j].version \in Nat /\ job[j] \in JobRecord
  BY DEF TypeOK, JobRecord
<1>1. \A j \in Jobs: Disabled(job[j]).version = job[j].version + 1
  BY <1>0, JobType
<1>2. CASE job' = job
  BY <1>0, <1>2 DEF JobsAdvance
<1>3. CASE \E r \in Runs: job' = DisableIfUnchanged(of[r])
  <2>1. PICK r \in Runs: job' = DisableIfUnchanged(of[r])
    BY <1>3
  <2>2. \A j \in Jobs: job'[j] = job[j] \/ job'[j] = Disabled(job[j])
    BY <2>1, DisableIfUnchangedJob DEF TypeOK
  <2> QED
    BY <1>0, <1>1, <2>2 DEF JobsAdvance
<1>4. CASE \E j \in Jobs: PutJobVersioned(j)
  <2>1. PICK j \in Jobs: PutJobVersioned(j)
    BY <1>4
  <2>2. /\ job'[j].version = job[j].version + 1
        /\ \A i \in Jobs: i # j => job'[i] = job[i]
    BY <2>1 DEF PutJobVersioned, TypeOK
  <2> QED
    BY <1>0, <2>2 DEF JobsAdvance
<1>5. CASE \E j \in Jobs: DeleteJob(j)
  <2>1. PICK j \in Jobs: DeleteJob(j)
    BY <1>5
  <2>2. /\ job'[j].version = job[j].version /\ job[j].exists
        /\ \A i \in Jobs: i # j => job'[i] = job[i]
    BY <1>0, <2>1 DEF DeleteJob, TypeOK, JobRecord
  <2> QED
    BY <1>0, <2>2 DEF JobsAdvance
<1>6. CASE DisableInterrupted
  <2>1. \A j \in Jobs: job'[j] = job[j] \/ job'[j] = Disabled(job[j])
    BY <1>6 DEF DisableInterrupted
  <2> QED
    BY <1>0, <1>1, <2>1 DEF JobsAdvance
<1>7. CASE \E j \in Jobs: DisableInterruptedJob(j)
  <2>1. \A j \in Jobs: job'[j] = job[j] \/ job'[j] = Disabled(job[j])
    BY <1>7 DEF DisableInterruptedJob, TypeOK
  <2> QED
    BY <1>0, <1>1, <2>1 DEF JobsAdvance
<1> QED
  BY <1>2, <1>3, <1>4, <1>5, <1>6, <1>7, StepCases
  DEF vars, store, history, TriggerNow, CancelRun, Launched, Refused, AppendIntent, Touch, Begin,
      Return, Disable, WriteReceipt, BlockAutomaticRun, Replan, Release, ListJobs, SelectDue,
      TickDone, StartUp, CloseInterrupted, CloseInterruptedRow, Open, Close, Closed, Stop

(* An execution keeps the version it was launched with. *)
LEMMA OfKept ==
  ASSUME TypeOK, [Next]_vars
  PROVE  \A r \in Runs: pc[r] # "idle" => of'[r] = of[r] /\ pc'[r] # "idle"
<1>1. CASE UNCHANGED <<of, pc>>
  BY <1>1
<1>2. CASE \E r \in Runs, d \in asked \cup due, cron \in BOOLEAN: Launched(r, d, cron)
  BY <1>2 DEF Launched, Launch, NextRun, TypeOK
<1>3. CASE \E r \in Runs: RunStep(r) /\ ~ Release(r)
  BY <1>3, RunStepFrame
<1>4. CASE \E r \in Runs: Release(r)
  BY <1>4 DEF Release, TypeOK
<1>5. CASE Stop
  BY <1>5 DEF Stop, TypeOK
<1> QED
  BY <1>1, <1>2, <1>3, <1>4, <1>5, StepCases
  DEF vars, RunStep, PutJobVersioned, DeleteJob, TriggerNow, CancelRun, Refused, LaunchRefused,
      ListJobs, SelectDue, TickDone, StartUp, DisableInterrupted, CloseInterrupted,
      CloseInterruptedRow, DisableInterruptedJob, Open, Close, Closed, BootUnchanged, execution

LEMMA VersionsStep ==
  ASSUME TypeOK, TypeOK', VersionsKnown, [Next]_vars
  PROVE  VersionsKnown'
<1>0. /\ \A j \in Jobs: job[j].version \in Nat /\ job'[j].version \in Nat
                      /\ listed[j].version \in Nat
      /\ \A r \in Runs: of[r].job \in Jobs /\ of[r].version \in Nat
      /\ \A d \in due \cup asked: d.job \in Jobs /\ d.version \in Nat
  BY DEF TypeOK, JobRecord, Execution, JobVersion
<1>1. \A j \in Jobs: job[j].version <= job'[j].version
  BY <1>0, Advance DEF JobsAdvance
<1>2. ASSUME NEW r \in Runs
      PROVE  of'[r].version <= job'[of'[r].job].version
  <2>1. CASE of' = of
    BY <1>0, <1>1, <2>1 DEF VersionsKnown
  <2>2. CASE \E q \in Runs, d \in asked \cup due, cron \in BOOLEAN: Launched(q, d, cron)
    <3>1. PICK q \in Runs, d \in asked \cup due, cron \in BOOLEAN: Launched(q, d, cron)
      BY <2>2
    <3>2. of'[r] = of[r] \/ of'[r] = [job |-> d.job, version |-> d.version, cron |-> cron]
      BY <3>1 DEF Launched, Launch, TypeOK
    <3> QED
      BY <1>0, <1>1, <3>2 DEF VersionsKnown
  <2>3. CASE \E q \in Runs: RunStep(q)
    <3>1. of' = of
      BY <2>3, RunStepFrame DEF Release
    <3> QED
      BY <2>1, <3>1
  <2> QED
    BY <2>1, <2>2, <2>3, StepCases
    DEF vars, RunStep, PutJobVersioned, DeleteJob, TriggerNow, CancelRun, Refused, LaunchRefused,
        ListJobs, SelectDue, TickDone, StartUp, DisableInterrupted, CloseInterrupted,
        CloseInterruptedRow, DisableInterruptedJob, Open, Close, Closed, Stop, BootUnchanged, execution
<1>3. ASSUME NEW j \in Jobs
      PROVE  listed'[j].version <= job'[j].version
  <2>1. CASE listed' = listed
    BY <1>0, <1>1, <2>1 DEF VersionsKnown
  <2>2. CASE ListJobs
    BY <1>0, <1>1, <2>2 DEF ListJobs
  <2>3. CASE SelectDue \/ Stop
    BY <1>0, <2>3 DEF SelectDue, Stop, NoJob
  <2>4. CASE \E q \in Runs: RunStep(q)
    BY <2>1, <2>4 DEF RunStep, AppendIntent, Touch, Begin, Return, Disable, WriteReceipt,
       BlockAutomaticRun, Replan, Release, ticking
  <2> QED
    BY <2>1, <2>2, <2>3, <2>4, StepCases
    DEF vars, RunStep, PutJobVersioned, DeleteJob, TriggerNow, CancelRun, Launched, Refused,
        TickDone, StartUp, DisableInterrupted, CloseInterrupted, CloseInterruptedRow,
        DisableInterruptedJob, Open, Close, Closed, BootUnchanged, ticking
<1>4. ASSUME NEW d \in due' \cup asked'
      PROVE  d.version <= job'[d.job].version
  <2>1. CASE d \in due \cup asked
    BY <1>0, <1>1, <2>1 DEF VersionsKnown
  <2>2. CASE \E j \in Jobs: TriggerNow(j)
    <3>1. PICK j \in Jobs: TriggerNow(j)
      BY <2>2
    <3>2. d \in due \cup asked \/ d = [job |-> j, version |-> job[j].version]
      BY <3>1 DEF TriggerNow, ticking
    <3> QED
      BY <1>0, <1>1, <2>1, <3>2
  <2>3. CASE SelectDue
    <3>1. d \in asked \/ \E j \in Jobs: d = [job |-> j, version |-> listed[j].version]
      BY <2>3 DEF SelectDue
    <3> QED
      BY <1>0, <1>1, <2>1, <3>1 DEF VersionsKnown
  <2>4. CASE \E q \in Runs: RunStep(q)
    BY <2>1, <2>4 DEF RunStep, AppendIntent, Touch, Begin, Return, Disable, WriteReceipt,
       BlockAutomaticRun, Replan, Release, ticking
  <2>5. CASE Stop
    BY <2>5 DEF Stop
  <2> QED
    BY <2>1, <2>2, <2>3, <2>4, <2>5, StepCases
    DEF vars, RunStep, PutJobVersioned, DeleteJob, CancelRun, Launched, Refused, ListJobs,
        TickDone, StartUp, DisableInterrupted, CloseInterrupted, CloseInterruptedRow,
        DisableInterruptedJob, Open, Close, Closed, BootUnchanged, ticking
<1> QED
  BY <1>2, <1>3, <1>4 DEF VersionsKnown

(* Once not current, a version an execution captured stays not current. *)
LEMMA NotCurrentStays ==
  ASSUME TypeOK, TypeOK', VersionsKnown, [Next]_vars,
         NEW r \in Runs, pc[r] # "idle", ~ Current(of[r])
  PROVE  ~ Current(of[r])'
<1>1. of'[r] = of[r] /\ of[r].job \in Jobs /\ of[r].version \in Nat
  BY OfKept DEF TypeOK, Execution
<1>2. /\ job[of[r].job].version \in Nat /\ job'[of[r].job].version \in Nat
      /\ of[r].version <= job[of[r].job].version
  BY <1>1 DEF TypeOK, JobRecord, VersionsKnown
<1>3. /\ job'[of[r].job].version >= job[of[r].job].version
      /\ job'[of[r].job].version = job[of[r].job].version /\ job'[of[r].job].exists
           => job[of[r].job].exists
  BY <1>1, Advance DEF JobsAdvance
<1> QED
  BY <1>1, <1>2, <1>3 DEF Current

-----------------------------------------------------------------------------
(* A receipt comes after the stop, with the store of JSON files *)

(* An execution that was begun has been through its intent.                *)
BegunHasRow ==
  /\ \A r \in begun: pc[r] \notin {"idle", "intent", "touch", "begin"} /\ row[r].state # "none"
  /\ \A r \in Runs: pc[r] \in {"touch", "begin"} => row[r].state = "running"
  /\ \A r \in stale: pc[r] # "idle"

(* A receipt in the making has an end state, and when it forbids a repeat  *)
(* it waits for the stop of the version.                                   *)
StopsFirst(r) ==
  /\ pc[r] \in {"disable", "receipt"} => final[r].state \in {"succeeded", "failed"}
  /\ pc[r] = "receipt" /\ MustDisable(r, final[r]) => ~ Current(of[r])

FinalIsStopped == \A r \in Runs: StopsFirst(r)

(* What a row forbids once it is closed. *)
Forbids(r) ==
  row[r].state # "running" /\ (OneShot(of[r].job) \/ (row[r].state # "succeeded" /\ ~ row[r].cancelled))

ClosedIsStopped == \A r \in begun: Forbids(r) => ~ Current(of[r])

(* Recovery closes rows of disabled versions only. *)
RecoveryStops ==
  interrupted # {} =>
    /\ engine = "recovering"
    /\ \A r \in RunningRows: pc[r] # "idle" /\ ~ Current(of[r])

(* A row is written by a live execution or by recovery. *)
RowsAreLaunched == \A r \in Runs: row[r].state # "none" => pc[r] # "idle"

ReceiptInv ==
  /\ TypeOK /\ SlotOwned /\ QuietAfterClose /\ VersionsKnown
  /\ BegunHasRow /\ RowsAreLaunched
  /\ FinalIsStopped /\ ClosedIsStopped /\ RecoveryStops

LEMMA RowsStep ==
  ASSUME ReceiptInv, [Next]_vars
  PROVE  BegunHasRow' /\ RowsAreLaunched'
<1> USE DEF ReceiptInv
<1>1. CASE UNCHANGED <<row, pc, begun, stale>>
  BY <1>1 DEF BegunHasRow, RowsAreLaunched
<1>2. CASE \E r \in Runs, d \in asked \cup due, cron \in BOOLEAN: Launched(r, d, cron)
  <2>1. PICK r \in Runs, d \in asked \cup due, cron \in BOOLEAN: Launched(r, d, cron)
    BY <1>2
  <2>2. /\ pc[r] = "idle" /\ pc' = [pc EXCEPT ![r] = "intent"]
        /\ row' = row /\ begun' = begun /\ stale' \subseteq stale \cup {r}
    BY <2>1 DEF Launched, Launch, NextRun, store
  <2> QED
    BY <2>2 DEF BegunHasRow, RowsAreLaunched, TypeOK
<1>3. CASE \E r \in Runs: AppendIntent(r)
  <2>1. PICK r \in Runs: AppendIntent(r)
    BY <1>3
  <2>2. RunningRow.state = "running"
    BY DEF RunningRow, NoRow
  <2> QED
    BY <2>1, <2>2 DEF AppendIntent, BegunHasRow, RowsAreLaunched, TypeOK, history
<1>4. CASE \E r \in Runs: Touch(r)
  <2>1. PICK r \in Runs: Touch(r)
    BY <1>4
  <2> QED
    BY <2>1 DEF Touch, BegunHasRow, RowsAreLaunched, TypeOK, history
<1>5. CASE \E r \in Runs: Begin(r)
  <2>1. PICK r \in Runs: Begin(r)
    BY <1>5
  <2>2. /\ pc[r] = "begin" /\ row' = row /\ begun' \subseteq begun \cup {r} /\ stale' = stale
        /\ \E step \in {"executing", "disable", "receipt"}: pc' = [pc EXCEPT ![r] = step]
    BY <2>1, ConcludeType DEF Begin, store
  <2> QED
    BY <2>2 DEF BegunHasRow, RowsAreLaunched, TypeOK
<1>6. CASE \E r \in Runs: Return(r)
  <2>1. PICK r \in Runs: Return(r)
    BY <1>6
  <2>2. /\ pc[r] = "executing" /\ row' = row /\ begun' = begun /\ stale' = stale
        /\ \E step \in {"disable", "receipt"}: pc' = [pc EXCEPT ![r] = step]
    BY <2>1, ConcludeType DEF Return, store, history
  <2> QED
    BY <2>2 DEF BegunHasRow, RowsAreLaunched, TypeOK
<1>7. CASE \E r \in Runs: Disable(r) \/ BlockAutomaticRun(r) \/ Replan(r) \/ Release(r)
  BY <1>7 DEF Disable, BlockAutomaticRun, Replan, Release, BegunHasRow, RowsAreLaunched, TypeOK,
     store, history
<1>8. CASE \E r \in Runs: WriteReceipt(r)
  <2>1. PICK r \in Runs: WriteReceipt(r)
    BY <1>8
  <2>2. final[r].state # "none"
    BY <2>1 DEF WriteReceipt, FinalIsStopped, StopsFirst
  <2> QED
    BY <2>1, <2>2 DEF WriteReceipt, BegunHasRow, RowsAreLaunched, TypeOK, history
<1>9. CASE CloseInterrupted \/ \E r \in Runs: CloseInterruptedRow(r)
  <2>1. engine = "recovering" /\ UNCHANGED <<pc, begun, stale>>
    BY <1>9 DEF CloseInterrupted, CloseInterruptedRow, BootUnchanged, execution
  <2>2. \A r \in Runs: ~ Live(r)
    BY <2>1 DEF QuietAfterClose
  <2>3. \A r \in Runs: row'[r] = row[r] \/ (row[r].state = "running" /\ row'[r].state = "failed")
    BY <1>9 DEF CloseInterrupted, CloseInterruptedRow, RunningRows, Interrupted, TypeOK
  <2>4. begun \subseteq Runs
    BY DEF TypeOK
  <2> QED
    BY <2>1, <2>2, <2>3, <2>4 DEF BegunHasRow, RowsAreLaunched, Live
<1>10. CASE Stop
  BY <1>10 DEF Stop, BegunHasRow, RowsAreLaunched, Live, TypeOK, store
<1> QED
  BY <1>1, <1>2, <1>3, <1>4, <1>5, <1>6, <1>7, <1>8, <1>9, <1>10, StepCases
  DEF vars, store, execution, history, PutJobVersioned, DeleteJob, TriggerNow, CancelRun, Refused,
      LaunchRefused, ListJobs, SelectDue, TickDone, StartUp, DisableInterrupted,
      DisableInterruptedJob, Open, Close, Closed, BootUnchanged

LEMMA FinalStep ==
  ASSUME ReceiptInv, TypeOK', [Next]_vars
  PROVE  FinalIsStopped'
<1> USE DEF ReceiptInv
<1>0. \A r \in Runs: of[r] \in Execution
  BY DEF TypeOK
<1>1. ASSUME NEW r \in Runs, pc'[r] = pc[r], final'[r] = final[r]
      PROVE  StopsFirst(r)'
  <2>1. CASE pc[r] \in {"disable", "receipt"}
    <3>1. of'[r] = of[r]
      BY <2>1, OfKept
    <3> QED
      BY <1>1, <2>1, <3>1, NotCurrentStays DEF FinalIsStopped, StopsFirst, MustDisable
  <2>2. CASE pc[r] \notin {"disable", "receipt"}
    BY <1>1, <2>2 DEF StopsFirst
  <2> QED
    BY <2>1, <2>2
<1>2. ASSUME NEW r \in Runs, pc'[r] \notin {"disable", "receipt"}
      PROVE  StopsFirst(r)'
  BY <1>2 DEF StopsFirst
<1>3. ASSUME NEW r \in Runs, NEW result \in {"ok", "error", "not_started"},
             Conclude(r, result), of' = of
      PROVE  StopsFirst(r)'
  <2>1. final'[r] = ReceiptOf(r, result)
    BY <1>3, ConcludeType DEF TypeOK
  <2>2. \/ pc'[r] = "disable"
        \/ pc'[r] = "receipt" /\ ~ MustDisable(r, ReceiptOf(r, result))
    BY <1>3, ConcludeType DEF TypeOK
  <2>3. MustDisable(r, final[r])' = MustDisable(r, final'[r])
    BY <1>3 DEF MustDisable
  <2> QED
    BY <2>1, <2>2, <2>3, ReceiptOfType DEF StopsFirst
<1>4. ASSUME NEW r \in Runs, Disable(r)
      PROVE  StopsFirst(r)'
  <2>1. final' = final /\ of' = of /\ pc[r] = "disable"
    BY <1>4 DEF Disable
  <2>2. pc'[r] = "receipt" => ~ Current(of[r])'
    BY <1>0, <1>4, <2>1, DisableIfUnchangedJob DEF Disable, Current, TypeOK
  <2> QED
    BY <2>1, <2>2 DEF FinalIsStopped, StopsFirst
<1>5. CASE UNCHANGED <<pc, final>>
  BY <1>1, <1>5 DEF FinalIsStopped
<1>6. CASE \E r \in Runs, d \in asked \cup due, cron \in BOOLEAN: Launched(r, d, cron)
  <2>1. PICK r \in Runs, d \in asked \cup due, cron \in BOOLEAN: Launched(r, d, cron)
    BY <1>6
  <2>2. pc'[r] = "intent" /\ final' = final /\ \A q \in Runs: q # r => pc'[q] = pc[q]
    BY <2>1 DEF Launched, Launch, TypeOK
  <2> QED
    BY <1>1, <1>2, <2>2 DEF FinalIsStopped
<1>7. CASE \E r \in Runs: Begin(r) \/ Return(r)
  <2>1. PICK r \in Runs: Begin(r) \/ Return(r)
    BY <1>7
  <2>2. \A q \in Runs: q # r => pc'[q] = pc[q] /\ final'[q] = final[q]
    BY <2>1 DEF Begin, Return, Conclude, TypeOK
  <2>3. StopsFirst(r)'
    <3>1. \/ pc'[r] = "executing"
          \/ of' = of /\ \E result \in {"ok", "error", "not_started"}: Conclude(r, result)
      BY <2>1 DEF Begin, Return, TypeOK
    <3> QED
      BY <1>2, <1>3, <3>1
  <2> QED
    BY <1>1, <2>2, <2>3 DEF FinalIsStopped
<1>8. CASE \E r \in Runs: Disable(r)
  <2>1. PICK r \in Runs: Disable(r)
    BY <1>8
  <2>2. \A q \in Runs: q # r => pc'[q] = pc[q] /\ final'[q] = final[q]
    BY <2>1 DEF Disable, TypeOK
  <2> QED
    BY <1>1, <1>4, <2>1, <2>2 DEF FinalIsStopped
<1>9. CASE \E r \in Runs: \/ AppendIntent(r) \/ Touch(r) \/ WriteReceipt(r)
                           \/ BlockAutomaticRun(r) \/ Replan(r) \/ Release(r)
  <2>1. PICK r \in Runs: \/ AppendIntent(r) \/ Touch(r) \/ WriteReceipt(r)
                         \/ BlockAutomaticRun(r) \/ Replan(r) \/ Release(r)
    BY <1>9
  <2>2. /\ pc'[r] \notin {"disable", "receipt"}
        /\ \A q \in Runs: q # r => pc'[q] = pc[q] /\ final'[q] = final[q]
    BY <2>1 DEF AppendIntent, Touch, WriteReceipt, BlockAutomaticRun, Replan, Release, TypeOK
  <2> QED
    BY <1>1, <1>2, <2>2 DEF FinalIsStopped
<1>10. CASE Stop
  <2>1. \A r \in Runs: pc'[r] \notin {"disable", "receipt"}
    BY <1>10 DEF Stop, Live, TypeOK
  <2> QED
    BY <1>2, <2>1 DEF FinalIsStopped
<1> QED
  BY <1>5, <1>6, <1>7, <1>8, <1>9, <1>10, StepCases
  DEF vars, execution, PutJobVersioned, DeleteJob, TriggerNow, CancelRun, Refused,
      LaunchRefused, ListJobs, SelectDue, TickDone, StartUp, DisableInterrupted, CloseInterrupted,
      CloseInterruptedRow, DisableInterruptedJob, Open, Close, Closed, BootUnchanged

LEMMA ClosedStep ==
  ASSUME ReceiptInv, TypeOK', [Next]_vars, Writer = "json"
  PROVE  ClosedIsStopped'
<1> USE DEF ReceiptInv
<1>0. /\ begun \subseteq Runs /\ begun' \subseteq Runs
      /\ \A r \in Runs: row[r].cancelled \in BOOLEAN
  BY DEF TypeOK, Row
<1>1. ASSUME NEW r \in begun, row'[r] = row[r]
      PROVE  (Forbids(r) => ~ Current(of[r]))'
  <2>1. pc[r] # "idle" /\ of'[r] = of[r]
    BY <1>0, OfKept DEF BegunHasRow
  <2>2. Forbids(r)' => Forbids(r)
    BY <1>1, <2>1 DEF Forbids
  <2> QED
    BY <1>0, <2>1, <2>2, NotCurrentStays DEF ClosedIsStopped
<1>2. CASE UNCHANGED <<row, begun>>
  BY <1>1, <1>2 DEF ClosedIsStopped
<1>3. CASE \E r \in Runs: AppendIntent(r) \/ Touch(r)
  <2>1. PICK r \in Runs: AppendIntent(r) \/ Touch(r)
    BY <1>3
  <2>2. /\ pc[r] \in {"intent", "touch"} /\ begun' = begun
        /\ \A q \in Runs: q # r => row'[q] = row[q]
    BY <2>1 DEF AppendIntent, Touch, TypeOK, history
  <2>3. r \notin begun
    BY <2>2 DEF BegunHasRow
  <2> QED
    BY <1>0, <1>1, <2>2, <2>3 DEF ClosedIsStopped
<1>4. CASE \E r \in Runs: Begin(r)
  <2>1. PICK r \in Runs: Begin(r)
    BY <1>4
  <2>2. row' = row /\ begun' \subseteq begun \cup {r} /\ row[r].state = "running"
    BY <2>1 DEF Begin, store, BegunHasRow
  <2>3. ~ Forbids(r)'
    BY <2>2 DEF Forbids
  <2> QED
    BY <1>1, <2>2, <2>3 DEF ClosedIsStopped
<1>5. CASE \E r \in Runs: WriteReceipt(r)
  <2>1. PICK r \in Runs: WriteReceipt(r)
    BY <1>5
  <2>2. /\ pc[r] = "receipt" /\ begun' = begun /\ of' = of
        /\ \A q \in Runs: q # r => row'[q] = row[q]
        /\ row'[r] = row[r] \/ row'[r] = final[r]
    BY <2>1 DEF WriteReceipt, TypeOK, history
  <2>3. final[r].state \in {"succeeded", "failed"}
    BY <2>2 DEF FinalIsStopped, StopsFirst
  <2>4. CASE row'[r] = final[r]
    <3>1. ASSUME Forbids(r)'
          PROVE  ~ Current(of[r])'
      <4>1. OneShot(of[r].job) \/ (final[r].state # "succeeded" /\ ~ final[r].cancelled)
        BY <2>2, <2>4, <3>1 DEF Forbids, OneShot
      <4>2. MustDisable(r, final[r])
        BY <2>3, <4>1 DEF MustDisable
      <4>3. ~ Current(of[r])
        BY <2>2, <4>2 DEF FinalIsStopped, StopsFirst
      <4> QED
        BY <2>2, <4>3, NotCurrentStays
    <3> QED
      BY <1>0, <1>1, <2>2, <3>1 DEF ClosedIsStopped
  <2> QED
    BY <1>0, <1>1, <2>2, <2>4 DEF ClosedIsStopped
<1>6. CASE CloseInterrupted
  <2>1. begun' = begun /\ of' = of
    BY <1>6 DEF CloseInterrupted, BootUnchanged, execution
  <2>2. ASSUME NEW r \in begun, r \in RunningRows
        PROVE  ~ Current(of[r])'
    <3>1. pc[r] # "idle" /\ ~ Current(of[r])
      BY <1>6, <2>2 DEF CloseInterrupted, RecoveryStops
    <3> QED
      BY <1>0, <3>1, NotCurrentStays
  <2>3. \A r \in Runs: r \notin RunningRows => row'[r] = row[r]
    BY <1>6 DEF CloseInterrupted, TypeOK
  <2> QED
    BY <1>0, <1>1, <2>1, <2>2, <2>3 DEF ClosedIsStopped
<1> QED
  BY <1>2, <1>3, <1>4, <1>5, <1>6, StepCases
  DEF vars, store, history, PutJobVersioned, DeleteJob, TriggerNow, CancelRun, Launched, Launch,
      Refused, LaunchRefused, Return, Disable, BlockAutomaticRun, Replan, Release, ListJobs,
      SelectDue, TickDone, StartUp, DisableInterrupted, CloseInterruptedRow, DisableInterruptedJob,
      Open, Close, Closed, Stop, BootUnchanged

LEMMA RecoveryStep ==
  ASSUME ReceiptInv, TypeOK', [Next]_vars, Writer = "json"
  PROVE  RecoveryStops'
<1> USE DEF ReceiptInv
<1>1. CASE UNCHANGED <<row, engine, interrupted>>
  <2>1. RunningRows' = RunningRows
    BY <1>1 DEF RunningRows
  <2>2. \A r \in RunningRows: r \in Runs /\ pc[r] # "idle" => pc'[r] # "idle"
    BY OfKept DEF RunningRows
  <2> QED
    BY <1>1, <2>1, <2>2, NotCurrentStays DEF RecoveryStops, RunningRows
<1>2. CASE \E r \in Runs: RunStep(r)
  <2>1. PICK r \in Runs: RunStep(r)
    BY <1>2
  <2>2. Live(r) /\ interrupted' = interrupted
    BY <2>1, RunStepFrame DEF Release, Live
  <2>3. interrupted = {}
    BY <2>2 DEF QuietAfterClose, RecoveryStops
  <2> QED
    BY <2>2, <2>3 DEF RecoveryStops
<1>3. CASE StartUp \/ Open \/ Close \/ Closed \/ Stop \/ CloseInterrupted
  <2>1. interrupted' = {}
    BY <1>3 DEF StartUp, Open, Close, Closed, Stop, CloseInterrupted, RecoveryStops
  <2> QED
    BY <2>1 DEF RecoveryStops
<1>4. CASE DisableInterrupted
  <2>1. /\ engine' = "recovering" /\ UNCHANGED <<row, pc, of>>
        /\ interrupted' = {of[r].job: r \in RunningRows}
        /\ job' = [j \in Jobs |-> IF j \in interrupted' /\ job[j].exists
                                   THEN Disabled(job[j]) ELSE job[j]]
    BY <1>4 DEF DisableInterrupted, BootUnchanged, execution
  <2>2. ASSUME NEW r \in RunningRows
        PROVE  pc[r] # "idle" /\ ~ Current(of[r])'
    <3>1. r \in Runs /\ row[r].state = "running"
      BY DEF RunningRows
    <3>2. of[r].job \in Jobs /\ of[r].job \in interrupted' /\ of[r].version \in Nat
      BY <2>1, <3>1 DEF TypeOK, Execution
    <3>3. /\ job[of[r].job] \in JobRecord /\ job[of[r].job].version \in Nat
          /\ of[r].version <= job[of[r].job].version
      BY <3>1, <3>2 DEF TypeOK, JobRecord, VersionsKnown
    <3>4. CASE job[of[r].job].exists
      <4>1. job'[of[r].job] = Disabled(job[of[r].job])
        BY <2>1, <3>2, <3>4
      <4>2. job'[of[r].job].version = job[of[r].job].version + 1
        BY <3>3, <4>1, JobType
      <4> QED
        BY <2>1, <3>1, <3>2, <3>3, <4>2 DEF Current, RowsAreLaunched
    <3>5. CASE ~ job[of[r].job].exists
      <4>1. job'[of[r].job] = job[of[r].job]
        BY <2>1, <3>2, <3>5
      <4> QED
        BY <2>1, <3>1, <3>5, <4>1 DEF Current, RowsAreLaunched
    <3> QED
      BY <3>4, <3>5
  <2>3. RunningRows' = RunningRows
    BY <2>1 DEF RunningRows
  <2> QED
    BY <2>1, <2>2, <2>3 DEF RecoveryStops
<1> QED
  BY <1>1, <1>2, <1>3, <1>4, StepCases
  DEF vars, store, RunStep, PutJobVersioned, DeleteJob, TriggerNow, CancelRun, Launched, Refused,
      ListJobs, SelectDue, TickDone, CloseInterruptedRow, DisableInterruptedJob

LEMMA ReceiptInit == Init => ReceiptInv
<1> SUFFICES ASSUME Init PROVE ReceiptInv
  OBVIOUS
<1>1. TypeOK /\ SlotOwned /\ QuietAfterClose
  BY InitType, InitSlots
<1>2. NoExecution \in Execution
  BY SchedulerAssumption DEF NoExecution, Execution
<1>3. VersionsKnown
  BY <1>2 DEF Init, VersionsKnown, NoExecution, NoJob, Execution
<1> QED
  BY <1>1, <1>3 DEF Init, ReceiptInv, BegunHasRow, RowsAreLaunched, FinalIsStopped, StopsFirst,
     ClosedIsStopped, RecoveryStops, NoRow

THEOREM ReceiptInvariance ==
  ASSUME Writer = "json"
  PROVE  Spec => []ReceiptInv
<1>1. ReceiptInv /\ [Next]_vars => ReceiptInv'
  <2> SUFFICES ASSUME ReceiptInv, [Next]_vars PROVE ReceiptInv'
    OBVIOUS
  <2>1. TypeOK' /\ SlotOwned' /\ QuietAfterClose'
    BY TypeStep, SlotStep, QuietStep DEF ReceiptInv
  <2>2. VersionsKnown'
    BY <2>1, VersionsStep DEF ReceiptInv
  <2> QED
    BY <2>1, <2>2, RowsStep, FinalStep, ClosedStep, RecoveryStep DEF ReceiptInv
<1> QED
  BY ReceiptInit, <1>1, PTL DEF Spec

(* With the store of JSON files, a receipt that forbids a repeat is only   *)
(* there once the version it ran is disabled, edited or gone, and an       *)
(* execution has a row before it begins (launch, RecoverInterrupted).      *)
THEOREM ReceiptsComeAfterStop ==
  ASSUME Writer = "json"
  PROVE  Spec => []ReceiptAfterStop
<1>1. ReceiptInv => ReceiptAfterStop
  BY DEF ReceiptInv, ReceiptAfterStop, Spent, BegunHasRow, ClosedIsStopped, Forbids, TypeOK
<1> QED
  BY <1>1, ReceiptInvariance, PTL

-----------------------------------------------------------------------------
(* No automatic repeat, with the store of JSON files *)

Serving == engine \in {"open", "closing"}

(* The job was never run in a version that had been edited before the launch. *)
Fresh(j) == ~ \E q \in stale: of[q].job = j

(* An execution that goes to plan its job again has written its receipt.   *)
ReplannedIsClosed == \A r \in Runs: pc[r] = "replan" => row[r].state # "running"

(* An execution whose row could not be closed has blocked its version.     *)
OpenRowBlocks ==
  \A r \in begun:
    Serving /\ Fresh(of[r].job) /\ pc[r] \in {"release", "gone"} /\ row[r].state = "running"
      => blocked[of[r].job] = of[r].version \/ ~ Current(of[r])

(* The next execution of the job does not run another version beside it.   *)
SuccessorIsCurrent ==
  \A r \in begun, q \in Runs:
    pc[r] = "gone" /\ Live(q) /\ q \notin stale /\ of[q].job = of[r].job
      => of[q].version = of[r].version \/ ~ Current(of[r])

RepeatInv == ReceiptInv /\ ReplannedIsClosed /\ OpenRowBlocks /\ SuccessorIsCurrent

(* Once stale, always stale. *)
LEMMA FreshBefore ==
  ASSUME TypeOK, BegunHasRow, [Next]_vars, NEW j \in Jobs, Fresh(j)'
  PROVE  Fresh(j) /\ stale \subseteq stale'
<1>1. stale \subseteq stale'
  BY StepCases
  DEF vars, history, PutJobVersioned, DeleteJob, TriggerNow, CancelRun, Launched, Launch, Refused,
      LaunchRefused, AppendIntent, Touch, Begin, Return, Disable, WriteReceipt, BlockAutomaticRun,
      Replan, Release, ListJobs, SelectDue, TickDone, StartUp, DisableInterrupted, CloseInterrupted,
      CloseInterruptedRow, DisableInterruptedJob, Open, Close, Closed, Stop, BootUnchanged
<1>2. \A q \in stale: of'[q] = of[q]
  BY OfKept DEF BegunHasRow, TypeOK
<1> QED
  BY <1>1, <1>2 DEF Fresh

LEMMA ReplannedStep ==
  ASSUME RepeatInv, [Next]_vars
  PROVE  ReplannedIsClosed'
<1> USE DEF RepeatInv, ReceiptInv
<1>1. CASE UNCHANGED <<row, pc>>
  BY <1>1 DEF ReplannedIsClosed
<1>2. CASE \E r \in Runs, d \in asked \cup due, cron \in BOOLEAN: Launched(r, d, cron)
  BY <1>2 DEF Launched, Launch, ReplannedIsClosed, TypeOK, store
<1>3. CASE \E r \in Runs: RunStep(r)
  <2>1. PICK r \in Runs: RunStep(r)
    BY <1>3
  <2>2. \A q \in Runs: q # r => pc'[q] = pc[q] /\ row'[q] = row[q]
    BY <2>1 DEF RunStep, AppendIntent, Touch, Begin, Return, Conclude, Disable, WriteReceipt,
       BlockAutomaticRun, Replan, Release, TypeOK, store
  <2>3. CASE WriteReceipt(r)
    <3>1. final[r].state # "running"
      BY <2>3 DEF WriteReceipt, FinalIsStopped, StopsFirst
    <3> QED
      BY <2>2, <2>3, <3>1 DEF WriteReceipt, ReplannedIsClosed, TypeOK
  <2>4. CASE ~ WriteReceipt(r)
    <3>1. pc'[r] # "replan"
      BY <2>1, <2>4 DEF RunStep, AppendIntent, Touch, Begin, Return, Conclude, Disable,
         BlockAutomaticRun, Replan, Release, TypeOK
    <3> QED
      BY <2>2, <3>1 DEF ReplannedIsClosed
  <2> QED
    BY <2>3, <2>4
<1>4. CASE CloseInterrupted \/ \E r \in Runs: CloseInterruptedRow(r)
  BY <1>4 DEF CloseInterrupted, CloseInterruptedRow, BootUnchanged, execution, RunningRows,
     Interrupted, ReplannedIsClosed, TypeOK
<1>5. CASE Stop
  BY <1>5 DEF Stop, Live, ReplannedIsClosed, TypeOK
<1> QED
  BY <1>1, <1>2, <1>3, <1>4, <1>5, StepCases
  DEF vars, store, execution, RunStep, PutJobVersioned, DeleteJob, TriggerNow, CancelRun, Refused,
      LaunchRefused, ListJobs, SelectDue, TickDone, StartUp, DisableInterrupted,
      DisableInterruptedJob, Open, Close, Closed, BootUnchanged

LEMMA SuccessorStep ==
  ASSUME RepeatInv, TypeOK', [Next]_vars
  PROVE  SuccessorIsCurrent'
<1> USE DEF RepeatInv, ReceiptInv
<1> SUFFICES ASSUME NEW r \in begun', NEW q \in Runs,
                    pc'[r] = "gone", Live(q)', q \notin stale', of'[q].job = of'[r].job
             PROVE  of'[q].version = of'[r].version \/ ~ Current(of[r])'
  BY DEF SuccessorIsCurrent
<1>0. begun \subseteq Runs /\ begun' \subseteq Runs /\ r # q
  BY DEF TypeOK, Live
<1>1. CASE r \in begun /\ pc[r] = "gone" /\ Live(q)
  <2>1. of'[r] = of[r] /\ of'[q] = of[q]
    BY <1>0, <1>1, OfKept DEF Live
  <2>2. q \notin stale
    BY FreshBefore, StepCases
    DEF vars, history, PutJobVersioned, DeleteJob, TriggerNow, CancelRun, Launched, Launch, Refused,
      LaunchRefused, AppendIntent, Touch, Begin, Return, Disable, WriteReceipt, BlockAutomaticRun,
      Replan, Release, ListJobs, SelectDue, TickDone, StartUp, DisableInterrupted, CloseInterrupted,
      CloseInterruptedRow, DisableInterruptedJob, Open, Close, Closed, Stop, BootUnchanged
  <2> QED
    BY <1>0, <1>1, <2>1, <2>2, NotCurrentStays DEF SuccessorIsCurrent, Live
<1>2. CASE \E p \in Runs, d \in asked \cup due, cron \in BOOLEAN: Launched(p, d, cron)
  <2>1. PICK p \in Runs, d \in asked \cup due, cron \in BOOLEAN: Launched(p, d, cron)
    BY <1>2
  <2>2. /\ begun' = begun /\ pc' = [pc EXCEPT ![p] = "intent"] /\ job' = job
        /\ of' = [of EXCEPT ![p] = [job |-> d.job, version |-> d.version, cron |-> cron]]
        /\ stale' = IF job[d.job].version = d.version THEN stale ELSE stale \cup {p}
    BY <2>1 DEF Launched, Launch, store
  <2>3. r # p /\ pc[r] = "gone" /\ of'[r] = of[r]
    BY <1>0, <2>2 DEF TypeOK
  <2>4. CASE q = p
    <3>1. of'[q].job = d.job /\ of'[q].version = d.version /\ job[d.job].version = d.version
      BY <2>2, <2>4 DEF TypeOK
    <3> QED
      BY <2>2, <2>3, <3>1 DEF Current
  <2>5. CASE q # p
    BY <1>1, <2>2, <2>3, <2>5 DEF Live, TypeOK
  <2> QED
    BY <2>4, <2>5
<1>3. CASE \E p \in Runs: RunStep(p) /\ ~ Release(p)
  <2>1. PICK p \in Runs: RunStep(p) /\ ~ Release(p)
    BY <1>3
  <2>2. Live(p) /\ Live(p)' /\ \A x \in Runs: x # p => pc'[x] = pc[x]
    BY <2>1, RunStepFrame
  <2>3. r # p /\ pc[r] = "gone" /\ Live(q)
    BY <1>0, <2>2 DEF Live
  <2>4. begun' \subseteq begun \cup {p}
    BY <2>1 DEF RunStep, AppendIntent, Touch, Begin, Return, Disable, WriteReceipt,
       BlockAutomaticRun, Replan, history
  <2> QED
    BY <1>1, <2>3, <2>4
<1>4. CASE \E p \in Runs: Release(p)
  <2>1. PICK p \in Runs: Release(p)
    BY <1>4
  <2>2. /\ Live(p) /\ of' = of /\ begun' = begun /\ pc' = [pc EXCEPT ![p] = "gone"]
    BY <2>1 DEF Release, Live, history
  <2>3. Live(q) /\ q # p
    BY <2>2 DEF Live, TypeOK
  <2>4. running[of[p].job] = p /\ running[of[q].job] = q
    BY <2>2, <2>3 DEF SlotOwned
  <2>5. r # p
    BY <2>2, <2>3, <2>4
  <2> QED
    BY <1>0, <1>1, <2>2, <2>3, <2>5 DEF TypeOK
<1>5. CASE Stop
  BY <1>5 DEF Stop, Live, TypeOK
<1>6. CASE UNCHANGED <<pc, begun>>
  BY <1>1, <1>6 DEF Live
<1> QED
  BY <1>2, <1>3, <1>4, <1>5, <1>6, StepCases
  DEF vars, execution, history, RunStep, PutJobVersioned, DeleteJob, TriggerNow, CancelRun, Refused,
      LaunchRefused, ListJobs, SelectDue, TickDone, StartUp, DisableInterrupted, CloseInterrupted,
      CloseInterruptedRow, DisableInterruptedJob, Open, Close, Closed, BootUnchanged

LEMMA OpenRowStep ==
  ASSUME RepeatInv, TypeOK', [Next]_vars
  PROVE  OpenRowBlocks'
<1> USE DEF RepeatInv, ReceiptInv
<1> SUFFICES ASSUME NEW r \in begun',
                    Serving', Fresh(of[r].job)', pc'[r] \in {"release", "gone"},
                    row'[r].state = "running"
             PROVE  blocked'[of'[r].job] = of'[r].version \/ ~ Current(of[r])'
  BY DEF OpenRowBlocks, Fresh
<1>0. /\ begun \subseteq Runs /\ begun' \subseteq Runs /\ r \in Runs
      /\ \A q \in Runs: of[q].job \in Jobs
  BY DEF TypeOK, Execution
<1>1. ASSUME Serving, r \in begun, pc[r] \in {"release", "gone"}, row[r].state = "running",
             blocked'[of[r].job] = blocked[of[r].job]
      PROVE  blocked'[of'[r].job] = of'[r].version \/ ~ Current(of[r])'
  <2>1. of'[r] = of[r] /\ of[r].job \in Jobs
    BY <1>0, <1>1, OfKept DEF TypeOK, Execution
  <2>2. Fresh(of[r].job)
    BY <2>1, FreshBefore DEF Fresh
  <2>3. blocked[of[r].job] = of[r].version \/ ~ Current(of[r])
    BY <1>1, <2>2 DEF OpenRowBlocks
  <2> QED
    BY <1>0, <1>1, <2>1, <2>3, NotCurrentStays
<1>2. CASE UNCHANGED <<row, pc, begun, blocked, engine>>
  BY <1>1, <1>2 DEF Serving
<1>3. CASE \E p \in Runs, d \in asked \cup due, cron \in BOOLEAN: Launched(p, d, cron)
  <2>1. PICK p \in Runs, d \in asked \cup due, cron \in BOOLEAN: Launched(p, d, cron)
    BY <1>3
  <2>2. /\ UNCHANGED <<row, begun, blocked, engine>>
        /\ pc' = [pc EXCEPT ![p] = "intent"]
    BY <2>1 DEF Launched, Launch, store
  <2>3. pc'[r] = pc[r]
    BY <1>0, <2>2 DEF TypeOK
  <2> QED
    BY <1>1, <2>2, <2>3 DEF Serving
<1>4. CASE \E p \in Runs: BlockAutomaticRun(p)
  <2>1. PICK p \in Runs: BlockAutomaticRun(p)
    BY <1>4
  <2>2. /\ UNCHANGED <<job, row, begun, engine, of, stale>>
        /\ pc[p] = "block" /\ pc' = [pc EXCEPT ![p] = "release"]
        /\ blocked' = [blocked EXCEPT ![of[p].job] = of[p].version]
    BY <2>1 DEF BlockAutomaticRun, store, history
  <2>3. CASE r = p
    BY <1>0, <2>2, <2>3 DEF TypeOK
  <2>4. CASE r # p /\ of[r].job # of[p].job
    BY <1>0, <1>1, <2>2, <2>4 DEF TypeOK, Serving
  <2>5. CASE r # p /\ of[r].job = of[p].job
    <3>1. pc[r] = "gone"
      <4>1. pc[r] = pc'[r] /\ Live(p)
        BY <1>0, <2>2, <2>5 DEF TypeOK, Live
      <4>2. running[of[p].job] = p
        BY <4>1 DEF SlotOwned
      <4>3. ~ Live(r)
        BY <1>0, <2>5, <4>2 DEF SlotOwned
      <4> QED
        BY <4>1, <4>3 DEF Live
    <3>2. p \notin stale
      BY <2>2, <2>5 DEF Fresh
    <3>3. of[p].version = of[r].version \/ ~ Current(of[r])
      BY <2>2, <2>5, <3>1, <3>2 DEF SuccessorIsCurrent, Live
    <3> QED
      BY <1>0, <2>2, <2>5, <3>3 DEF TypeOK, Current
  <2> QED
    BY <2>3, <2>4, <2>5
<1>5. CASE \E p \in Runs: Release(p)
  <2>1. PICK p \in Runs: Release(p)
    BY <1>5
  <2>2. /\ UNCHANGED <<row, begun, blocked, engine>>
        /\ pc[p] = "release" /\ pc' = [pc EXCEPT ![p] = "gone"]
    BY <2>1 DEF Release, store, history
  <2>3. pc[r] \in {"release", "gone"}
    BY <1>0, <2>2 DEF TypeOK
  <2> QED
    BY <1>1, <2>2, <2>3 DEF Serving
<1>6. CASE \E p \in Runs: Replan(p)
  <2>1. PICK p \in Runs: Replan(p)
    BY <1>6
  <2>2. /\ UNCHANGED <<row, begun, blocked, engine>>
        /\ pc[p] = "replan" /\ pc' = [pc EXCEPT ![p] = "release"]
    BY <2>1 DEF Replan, store, history
  <2>3. r # p
    BY <2>2 DEF ReplannedIsClosed
  <2> QED
    BY <1>0, <1>1, <2>2, <2>3 DEF Serving, TypeOK
<1>7. CASE \E p \in Runs: AppendIntent(p) \/ Touch(p)
  <2>1. PICK p \in Runs: AppendIntent(p) \/ Touch(p)
    BY <1>7
  <2>2. /\ UNCHANGED <<begun, blocked, engine>>
        /\ pc[p] \in {"intent", "touch"}
        /\ \A q \in Runs: q # p => pc'[q] = pc[q] /\ row'[q] = row[q]
    BY <2>1 DEF AppendIntent, Touch, TypeOK, history
  <2>3. r # p
    BY <2>2 DEF BegunHasRow
  <2> QED
    BY <1>0, <1>1, <2>2, <2>3 DEF Serving
<1>8. CASE \E p \in Runs: Begin(p) \/ Return(p) \/ Disable(p) \/ WriteReceipt(p)
  <2>1. PICK p \in Runs: Begin(p) \/ Return(p) \/ Disable(p) \/ WriteReceipt(p)
    BY <1>8
  <2>2. /\ UNCHANGED <<blocked, engine>> /\ begun' \subseteq begun \cup {p}
        /\ pc'[p] \notin {"release", "gone"}
        /\ \A q \in Runs: q # p => pc'[q] = pc[q] /\ row'[q] = row[q]
    BY <2>1 DEF Begin, Return, Conclude, Disable, WriteReceipt, TypeOK, store, history
  <2> QED
    BY <1>0, <1>1, <2>2 DEF Serving
<1>9. CASE Open
  <2>1. row' = row /\ RunningRows = {}
    BY <1>9 DEF Open, store
  <2> QED
    BY <1>0, <2>1 DEF RunningRows
<1>10. CASE Close
  <2>1. UNCHANGED <<row, begun, blocked, pc>> /\ Serving
    BY <1>10 DEF Close, store, history, Serving
  <2> QED
    BY <1>1, <2>1
<1>11. CASE engine' \notin {"open", "closing"}
  BY <1>11 DEF Serving
<1> QED
  BY <1>2, <1>3, <1>4, <1>5, <1>6, <1>7, <1>8, <1>9, <1>10, <1>11, StepCases
  DEF vars, store, execution, history, PutJobVersioned, DeleteJob, TriggerNow, CancelRun, Refused,
      LaunchRefused, ListJobs, SelectDue, TickDone, StartUp, DisableInterrupted, CloseInterrupted,
      CloseInterruptedRow, DisableInterruptedJob, Closed, Stop, BootUnchanged

THEOREM RepeatInvariance ==
  ASSUME Writer = "json"
  PROVE  Spec => []RepeatInv
<1>1. Init => RepeatInv
  BY ReceiptInit DEF Init, RepeatInv, ReplannedIsClosed, OpenRowBlocks, SuccessorIsCurrent
<1>2. RepeatInv /\ ReceiptInv' /\ [Next]_vars => RepeatInv'
  BY ReplannedStep, SuccessorStep, OpenRowStep DEF RepeatInv, ReceiptInv
<1> QED
  BY ReceiptInvariance, <1>1, <1>2, PTL DEF Spec

(* With the store of JSON files, the tick never picks a job version that   *)
(* is current and spent, except for the exception NoRepeat names: across   *)
(* storage failures, restarts, edits and manual runs (dueJobs,             *)
(* blockAutomaticRun, RecoverInterrupted).                                 *)
THEOREM NothingIsRepeated ==
  ASSUME Writer = "json"
  PROVE  Spec => NoRepeat
<1> DEFINE Picked ==
      \A d \in due', r \in Spent:
        /\ of[r].job = d.job /\ of[r].version = d.version
        /\ ~\E q \in stale: of[q].job = d.job
        => ~Current(d)
<1>1. RepeatInv /\ [Next]_vars => [SelectDue => Picked]_vars
  <2> SUFFICES ASSUME RepeatInv, SelectDue,
                      NEW d \in due', NEW r \in Spent,
                      of[r].job = d.job, of[r].version = d.version, Fresh(d.job)
               PROVE  ~ Current(d)
    BY DEF Fresh
  <2>1. /\ r \in begun /\ r \in Runs /\ ~ Live(r)
        /\ OneShot(of[r].job) \/ (row[r].state # "succeeded" /\ ~ row[r].cancelled)
    BY DEF Spent, RepeatInv, ReceiptInv, TypeOK
  <2>2. PICK j \in Jobs: Selectable(j) /\ d = [job |-> j, version |-> listed[j].version]
    BY DEF SelectDue
  <2>3. CASE row[r].state # "running"
    <3>1. ~ Current(of[r])
      BY <2>1, <2>3 DEF RepeatInv, ReceiptInv, ClosedIsStopped, Forbids
    <3> QED
      BY <3>1 DEF Current
  <2>4. CASE row[r].state = "running"
    <3>1. tick # "idle"
      BY DEF SelectDue
    <3>2. Serving
      BY <3>1 DEF RepeatInv, ReceiptInv, TypeOK, QuietAfterClose, Engine, Serving
    <3>3. pc[r] = "gone"
      BY <2>1 DEF RepeatInv, ReceiptInv, BegunHasRow, Live
    <3>4. blocked[of[r].job] = of[r].version \/ ~ Current(of[r])
      BY <2>1, <2>4, <3>2, <3>3 DEF RepeatInv, OpenRowBlocks
    <3>5. blocked[d.job] # d.version
      BY <2>2 DEF Selectable
    <3> QED
      BY <3>4, <3>5 DEF Current
  <2> QED
    BY <2>3, <2>4
<1> QED
  BY RepeatInvariance, <1>1, PTL DEF Spec, NoRepeat
=============================================================================

------------------------------ MODULE Scheduler ------------------------------
(***************************************************************************)
(* Resident automation: jobs fire headless executions on a schedule or by  *)
(* hand.  Each execution leaves a durable run row before it begins and a   *)
(* receipt after it ends; a job version that must not run again by itself  *)
(* is disabled in the store, and blocked in memory when the store fails.   *)
(* A restart closes the rows a dead process left running.                  *)
(*                                                                         *)
(* The store (JSON files or SQLite) can refuse any write, the process can  *)
(* die between any two steps, and users edit, delete, trigger and cancel   *)
(* at any time.  Typed triggers and notifications are not in this module.  *)
(***************************************************************************)
EXTENDS Naturals, FiniteSets

CONSTANTS
  Jobs,       \* identities of jobs
  KindOf,     \* schedule of each job: cron, once (RunOnce on a cron) or at
  Writer,     \* store that recovers at start-up: json or sqlite
  MaxRuns,    \* bound: executions, numbered in the order of their ids
  MaxVersion, \* bound: versions a user makes of a job
  MaxAsked,   \* bound: launches by hand under way at once
  MaxStarts   \* bound: starts of the process after the first

Kinds == {"cron", "once", "at"}

ASSUME SchedulerAssumption ==
  /\ Jobs # {} /\ KindOf \in [Jobs -> Kinds]
  /\ Writer \in {"json", "sqlite"}
  /\ MaxRuns \in Nat /\ MaxVersion \in Nat /\ MaxAsked \in Nat /\ MaxStarts \in Nat

VARIABLES
  \* durable
  job,         \* job record: does it exist, is it enabled, its UpdatedAt
  row,         \* run row of an execution
  \* in memory
  engine,      \* life cycle of the process
  interrupted, \* jobs whose rows recovery found running
  running,     \* run that holds the slot of a job (running and controls)
  blocked,     \* version of a job blocked from automatic runs, 0 for none
  nextFire,    \* jobs that have a next fire time
  schedule,    \* version nextFire was computed from, 0 for none
  tick,        \* where the loop is in fireDue
  listed,      \* jobs as the tick listed them
  due,         \* job versions the tick has still to launch
  asked,       \* job versions read by "run now", not yet launched
  pc,          \* where an execution is
  of,          \* job version it executes, and whether the tick launched it
  cause,       \* why its context was cancelled
  final,       \* receipt it is going to write
  \* history
  starts,      \* starts so far
  begun,       \* executions whose executor was invoked
  stale        \* executions of a version that was not current at the launch

store == <<job, row>>
planned == <<nextFire, schedule>>
ticking == <<tick, listed, due>>
execution == <<pc, of, cause, final>>
history == <<starts, begun, stale>>

vars == <<store, engine, interrupted, running, blocked, planned, ticking, asked,
          execution, history>>

Runs == 1 .. MaxRuns

NoRun == 0

JobRecord == [exists: BOOLEAN, enabled: BOOLEAN, version: Nat]

NoJob == [exists |-> FALSE, enabled |-> FALSE, version |-> 0]

JobVersion == [job: Jobs, version: Nat]

(* The job version an execution captured, and whether the tick launched it. *)
Execution == [job: Jobs, version: Nat, cron: BOOLEAN]

NoExecution == [job |-> CHOOSE j \in Jobs: TRUE, version |-> 0, cron |-> FALSE]

RowState == {"none", "running", "succeeded", "failed"}

(* A receipt: its state, whether its outcome is unknown, whether the user  *)
(* cancelled the execution.                                                *)
Row == [state: RowState, unknown: BOOLEAN, cancelled: BOOLEAN]

NoRow == [state |-> "none", unknown |-> FALSE, cancelled |-> FALSE]

RunningRow == [NoRow EXCEPT !.state = "running"]

Interrupted == [state |-> "failed", unknown |-> TRUE, cancelled |-> FALSE]

Engine == {"off", "recovering", "open", "closing", "closed"}

(* intent, touch: in the store before the goroutine starts; disable,       *)
(* receipt, block, replan, release: after the executor returned.           *)
Step == {"idle", "intent", "touch", "begin", "executing", "disable", "receipt",
         "block", "replan", "release", "gone"}

TypeOK ==
  /\ job \in [Jobs -> JobRecord]
  /\ row \in [Runs -> Row]
  /\ engine \in Engine
  /\ interrupted \subseteq Jobs
  /\ running \in [Jobs -> Runs \cup {NoRun}]
  /\ blocked \in [Jobs -> Nat]
  /\ nextFire \subseteq Jobs
  /\ schedule \in [Jobs -> Nat]
  /\ tick \in {"idle", "listed", "firing"}
  /\ listed \in [Jobs -> JobRecord]
  /\ due \subseteq JobVersion
  /\ asked \subseteq JobVersion
  /\ pc \in [Runs -> Step]
  /\ of \in [Runs -> Execution]
  /\ cause \in [Runs -> {"none", "user", "close"}]
  /\ final \in [Runs -> Row]
  /\ starts \in 0 .. MaxStarts
  /\ begun \subseteq Runs
  /\ stale \subseteq Runs

Init ==
  /\ job = [j \in Jobs |-> [exists |-> TRUE, enabled |-> TRUE, version |-> 1]]
  /\ row = [r \in Runs |-> NoRow]
  /\ engine = "off"
  /\ interrupted = {}
  /\ running = [j \in Jobs |-> NoRun]
  /\ blocked = [j \in Jobs |-> 0]
  /\ nextFire = {}
  /\ schedule = [j \in Jobs |-> 0]
  /\ tick = "idle"
  /\ listed = [j \in Jobs |-> NoJob]
  /\ due = {}
  /\ asked = {}
  /\ pc = [r \in Runs |-> "idle"]
  /\ of = [r \in Runs |-> NoExecution]
  /\ cause = [r \in Runs |-> "none"]
  /\ final = [r \in Runs |-> NoRow]
  /\ starts = 0
  /\ begun = {}
  /\ stale = {}

OneShot(j) == KindOf[j] \in {"once", "at"}

Live(r) == pc[r] \notin {"idle", "gone"}

Unanswered(r) == pc[r] \in {"intent", "touch", "begin", "executing"}

Disabled(b) == [exists |-> b.exists, enabled |-> FALSE, version |-> b.version + 1]

(* DisableIfUnchanged: never touches a job edited since the run read it.   *)
DisableIfUnchanged(o) ==
  IF job[o.job].exists /\ job[o.job].version = o.version
  THEN [job EXCEPT ![o.job] = Disabled(@)]
  ELSE job

-----------------------------------------------------------------------------
(* Users *)

Served == engine \in {"open", "closing"}

(* An edit of a job as its user last saw it; an edit of an older revision  *)
(* is refused.  A deleted job may be created again under its id.           *)
PutJobVersioned(j) ==
  /\ Served
  /\ job[j].version < MaxVersion
  /\ \E on \in BOOLEAN:
       job' = [job EXCEPT ![j] = [exists |-> TRUE, enabled |-> on, version |-> @.version + 1]]
  /\ UNCHANGED <<row, engine, interrupted, running, blocked, planned, ticking, asked,
                 execution, history>>

DeleteJob(j) ==
  /\ Served
  /\ job[j].exists
  /\ job' = [job EXCEPT ![j].exists = FALSE]
  /\ UNCHANGED <<row, engine, interrupted, running, blocked, planned, ticking, asked,
                 execution, history>>

(* TriggerNow reads the job; the launch follows without a lock. *)
TriggerNow(j) ==
  /\ Served
  /\ job[j].exists
  /\ Cardinality(asked) < MaxAsked
  /\ asked' = asked \cup {[job |-> j, version |-> job[j].version]}
  /\ UNCHANGED <<store, engine, interrupted, running, blocked, planned, ticking, execution,
                 history>>

(* Only the named execution; the cause is not read once the executor has   *)
(* answered.                                                               *)
CancelRun(j, r) ==
  /\ Served
  /\ running[j] = r
  /\ Unanswered(r) /\ cause[r] = "none"
  /\ cause' = [cause EXCEPT ![r] = "user"]
  /\ UNCHANGED <<store, engine, interrupted, running, blocked, planned, ticking, asked,
                 pc, of, final, history>>

-----------------------------------------------------------------------------
(* launch *)

(* Executions take their ids in order. *)
NextRun(r) == pc[r] = "idle" /\ \A q \in Runs: q < r => pc[q] # "idle"

LaunchTwice(r, d, cron) == \* mutant: the slot is not looked at
  /\ engine = "open"
  /\ NextRun(r)
  /\ running' = [running EXCEPT ![d.job] = r]
  /\ pc' = [pc EXCEPT ![r] = "intent"]
  /\ of' = [of EXCEPT ![r] = [job |-> d.job, version |-> d.version, cron |-> cron]]
  /\ stale' = IF job[d.job].version = d.version THEN stale ELSE stale \cup {r}
  /\ UNCHANGED <<cause, final, starts, begun>>

LaunchLate(r, d, cron) == \* mutant: the shutdown is not joined
  /\ running[d.job] = NoRun
  /\ NextRun(r)
  /\ running' = [running EXCEPT ![d.job] = r]
  /\ pc' = [pc EXCEPT ![r] = "intent"]
  /\ of' = [of EXCEPT ![r] = [job |-> d.job, version |-> d.version, cron |-> cron]]
  /\ stale' = IF job[d.job].version = d.version THEN stale ELSE stale \cup {r}
  /\ UNCHANGED <<cause, final, starts, begun>>

(* The slot is taken and the shutdown joined under one lock.  Neither the  *)
(* enabled flag nor the block is looked at again.                          *)
Launch(r, d, cron) ==
  /\ engine = "open"
  /\ running[d.job] = NoRun
  /\ NextRun(r)
  /\ running' = [running EXCEPT ![d.job] = r]
  /\ pc' = [pc EXCEPT ![r] = "intent"]
  /\ of' = [of EXCEPT ![r] = [job |-> d.job, version |-> d.version, cron |-> cron]]
  /\ stale' = IF job[d.job].version = d.version THEN stale ELSE stale \cup {r}
  /\ UNCHANGED <<cause, final, starts, begun>>

(* Closed, or the same job already runs. *)
LaunchRefused(d) ==
  /\ engine # "open" \/ running[d.job] # NoRun
  /\ UNCHANGED <<running, execution, history>>

LaunchAsked(d) ==
  /\ d \in asked
  /\ \/ \E r \in Runs: Launch(r, d, FALSE)
     \/ LaunchRefused(d)
  /\ asked' = asked \ {d}
  /\ UNCHANGED <<store, engine, interrupted, blocked, planned, ticking>>

AppendIntent(r) ==
  /\ pc[r] = "intent"
  /\ \/ /\ row' = [row EXCEPT ![r] = RunningRow]
        /\ pc' = [pc EXCEPT ![r] = "touch"]
     \/ /\ pc' = [pc EXCEPT ![r] = "release"]
        /\ UNCHANGED row
  /\ UNCHANGED <<job, engine, interrupted, running, blocked, planned, ticking, asked,
                 of, cause, final, history>>

TouchLeaking(r) == \* mutant: a failed touch returns without its release
  /\ pc[r] = "touch"
  /\ \/ /\ job[of[r].job].exists
        /\ pc' = [pc EXCEPT ![r] = "begin"]
        /\ UNCHANGED row
     \/ /\ row' = [row EXCEPT ![r] = [NoRow EXCEPT !.state = "failed"]]
        /\ UNCHANGED pc
  /\ UNCHANGED <<job, engine, interrupted, running, blocked, planned, ticking, asked,
                 of, cause, final, history>>

(* TouchLastRun fails when the job is gone; the row is then closed, if the *)
(* store lets it.                                                          *)
Touch(r) ==
  /\ pc[r] = "touch"
  /\ \/ /\ job[of[r].job].exists
        /\ pc' = [pc EXCEPT ![r] = "begin"]
        /\ UNCHANGED row
     \/ /\ row' \in {row, [row EXCEPT ![r] = [NoRow EXCEPT !.state = "failed"]]}
        /\ pc' = [pc EXCEPT ![r] = "release"]
  /\ UNCHANGED <<job, engine, interrupted, running, blocked, planned, ticking, asked,
                 of, cause, final, history>>

-----------------------------------------------------------------------------
(* The goroutine of an execution *)

(* What the receipt will say.  A cancelled or timed out context makes an   *)
(* error of a success.                                                     *)
ReceiptOf(r, result) ==
  [state |-> IF result = "ok" /\ cause[r] = "none" THEN "succeeded" ELSE "failed",
   unknown |-> (result # "ok" \/ cause[r] # "none") /\ result # "not_started",
   cancelled |-> cause[r] = "user"]

DisableFailed(r, f) == f.state = "failed" /\ ~f.cancelled \* mutant: one-shots are forgotten

MustDisable(r, f) == (f.state = "failed" /\ ~f.cancelled) \/ OneShot(of[r].job)

Conclude(r, result) ==
  LET f == ReceiptOf(r, result) IN
  /\ final' = [final EXCEPT ![r] = f]
  /\ pc' = [pc EXCEPT ![r] = IF MustDisable(r, f) THEN "disable" ELSE "receipt"]

Begin(r) ==
  /\ pc[r] = "begin"
  /\ \/ /\ cause[r] # "none"
        /\ Conclude(r, "not_started")
        /\ UNCHANGED begun
     \/ /\ cause[r] = "none"
        /\ pc' = [pc EXCEPT ![r] = "executing"]
        /\ begun' = begun \cup {r}
        /\ UNCHANGED final
  /\ UNCHANGED <<store, engine, interrupted, running, blocked, planned, ticking, asked,
                 of, cause, starts, stale>>

(* The executor answers, panics or runs out of time. *)
Return(r) ==
  /\ pc[r] = "executing"
  /\ \E result \in {"ok", "error", "not_started"}: Conclude(r, result)
  /\ UNCHANGED <<store, engine, interrupted, running, blocked, planned, ticking, asked,
                 of, cause, history>>

(* The stop is durable before the receipt is written; when it cannot be,   *)
(* the row stays running for the next start-up.                            *)
Disable(r) ==
  /\ pc[r] = "disable"
  /\ \/ /\ job' = DisableIfUnchanged(of[r])
        /\ pc' = [pc EXCEPT ![r] = "receipt"]
     \/ /\ pc' = [pc EXCEPT ![r] = "block"]
        /\ UNCHANGED job
  /\ UNCHANGED <<row, engine, interrupted, running, blocked, planned, ticking, asked,
                 of, cause, final, history>>

WriteReceipt(r) ==
  /\ pc[r] = "receipt"
  /\ \/ /\ row' = [row EXCEPT ![r] = final[r]]
        /\ pc' = [pc EXCEPT ![r] = IF MustDisable(r, final[r]) THEN "block" ELSE "replan"]
        /\ UNCHANGED job
     \/ /\ job' \in {job, DisableIfUnchanged(of[r])}
        /\ pc' = [pc EXCEPT ![r] = "block"]
        /\ UNCHANGED row
  /\ UNCHANGED <<engine, interrupted, running, blocked, planned, ticking, asked,
                 of, cause, final, history>>

Unplan(r) == \* mutant: only the next fire time is dropped
  /\ pc[r] = "block"
  /\ nextFire' = nextFire \ {of[r].job}
  /\ pc' = [pc EXCEPT ![r] = "release"]
  /\ UNCHANGED <<store, engine, interrupted, running, blocked, schedule, ticking, asked,
                 of, cause, final, history>>

BlockAutomaticRun(r) ==
  /\ pc[r] = "block"
  /\ blocked' = [blocked EXCEPT ![of[r].job] = of[r].version]
  /\ nextFire' = nextFire \ {of[r].job}
  /\ pc' = [pc EXCEPT ![r] = "release"]
  /\ UNCHANGED <<store, engine, interrupted, running, schedule, ticking, asked,
                 of, cause, final, history>>

Replan(r) ==
  /\ pc[r] = "replan"
  /\ nextFire' = nextFire \cup {of[r].job}
  /\ pc' = [pc EXCEPT ![r] = "release"]
  /\ UNCHANGED <<store, engine, interrupted, running, blocked, schedule, ticking, asked,
                 of, cause, final, history>>

Release(r) ==
  /\ pc[r] = "release"
  /\ running' = [running EXCEPT ![of[r].job] = NoRun]
  /\ pc' = [pc EXCEPT ![r] = "gone"]
  /\ cause' = [cause EXCEPT ![r] = "none"]
  /\ final' = [final EXCEPT ![r] = NoRow]
  /\ UNCHANGED <<store, engine, interrupted, blocked, planned, ticking, asked, of, history>>

-----------------------------------------------------------------------------
(* The loop *)

(* dueJobs lists the jobs first and takes the lock afterwards. *)
ListJobs ==
  /\ engine = "open"
  /\ tick = "idle"
  /\ listed' = job
  /\ tick' = "listed"
  /\ UNCHANGED <<store, engine, interrupted, running, blocked, planned, due, asked,
                 execution, history>>

(* Jobs the tick considers: listed as enabled, neither running nor blocked. *)
Selectable(j) ==
  /\ listed[j].exists /\ listed[j].enabled
  /\ running[j] = NoRun
  /\ blocked[j] # listed[j].version

(* A job that is new to the loop, or edited since it was planned, is       *)
(* planned afresh: only the stamp of an at: schedule can have passed by    *)
(* then.  Where the clock stands is otherwise left open.                   *)
Reseeded(j) == j \notin nextFire \/ schedule[j] # listed[j].version

SelectDue ==
  /\ tick = "listed"
  /\ LET candidates == {j \in Jobs: Selectable(j)} IN
     /\ schedule' = [j \in Jobs |-> IF j \in candidates THEN listed[j].version ELSE schedule[j]]
     /\ nextFire' = nextFire \cup candidates
     /\ \E passed \in SUBSET {j \in candidates: Reseeded(j) => KindOf[j] = "at"}:
          due' = {[job |-> j, version |-> listed[j].version]: j \in passed}
  /\ tick' = IF due' = {} THEN "idle" ELSE "firing"
  /\ listed' = [j \in Jobs |-> NoJob]
  /\ UNCHANGED <<store, engine, interrupted, running, blocked, asked,
                 execution, history>>

(* No launch of the tick is still writing its rows. *)
StoreFree == \A r \in Runs: of[r].cron => pc[r] \notin {"intent", "touch"}

(* fireDue launches the due jobs one after another: the next one waits for *)
(* the store to have the rows of the one before.                           *)
FireDue(d) ==
  /\ tick = "firing"
  /\ d \in due
  /\ StoreFree
  /\ \/ \E r \in Runs: Launch(r, d, TRUE)
     \/ LaunchRefused(d)
  /\ due' = due \ {d}
  /\ UNCHANGED <<store, engine, interrupted, blocked, planned, tick, listed, asked>>

TickDone ==
  /\ tick = "firing"
  /\ due = {}
  /\ StoreFree
  /\ tick' = "idle"
  /\ UNCHANGED <<store, engine, interrupted, running, blocked, planned, listed, due, asked,
                 execution, history>>

-----------------------------------------------------------------------------
(* Life cycle of the process *)

RunningRows == {r \in Runs: row[r].state = "running"}

BootUnchanged == UNCHANGED <<running, blocked, ticking, asked, execution, begun, stale>>

(* RecoverInterrupted runs before anything else of the scheduler. *)
StartUp ==
  /\ engine = "off"
  /\ engine' = "recovering"
  /\ UNCHANGED <<store, interrupted, planned, starts>>
  /\ BootUnchanged

DisableByRun == \* mutant: the set is keyed by run, not by job
  /\ Writer = "json"
  /\ engine = "recovering"
  /\ interrupted = {} /\ RunningRows # {}
  /\ interrupted' = RunningRows
  /\ UNCHANGED <<store, engine, planned, starts>>
  /\ BootUnchanged

(* JSON: the jobs of all running rows are disabled in one file, then the   *)
(* rows are closed in another.                                             *)
DisableInterrupted ==
  /\ Writer = "json"
  /\ engine = "recovering"
  /\ interrupted = {} /\ RunningRows # {}
  /\ interrupted' = {of[r].job: r \in RunningRows}
  /\ job' = [j \in Jobs |-> IF j \in interrupted' /\ job[j].exists THEN Disabled(job[j]) ELSE job[j]]
  /\ UNCHANGED <<row, engine, planned, starts>>
  /\ BootUnchanged

CloseInterrupted ==
  /\ Writer = "json"
  /\ engine = "recovering"
  /\ interrupted # {}
  /\ row' = [r \in Runs |-> IF r \in RunningRows THEN Interrupted ELSE row[r]]
  /\ interrupted' = {}
  /\ UNCHANGED <<job, engine, planned, starts>>
  /\ BootUnchanged

(* SQLite: every row is closed by a statement of its own, then every job   *)
(* is disabled, without a transaction.                                     *)
CloseInterruptedRow(r) ==
  /\ Writer = "sqlite"
  /\ engine = "recovering"
  /\ r \in RunningRows
  /\ row' = [row EXCEPT ![r] = Interrupted]
  /\ interrupted' = interrupted \cup {of[r].job}
  /\ UNCHANGED <<job, engine, planned, starts>>
  /\ BootUnchanged

DisableInterruptedJob(j) ==
  /\ Writer = "sqlite"
  /\ engine = "recovering"
  /\ RunningRows = {}
  /\ j \in interrupted
  /\ job' = IF job[j].exists THEN [job EXCEPT ![j] = Disabled(@)] ELSE job
  /\ interrupted' = interrupted \ {j}
  /\ UNCHANGED <<row, engine, planned, starts>>
  /\ BootUnchanged

(* The loop starts and plans the enabled jobs. *)
Open ==
  /\ engine = "recovering"
  /\ interrupted = {} /\ RunningRows = {}
  /\ engine' = "open"
  /\ LET enabled == {j \in Jobs: job[j].exists /\ job[j].enabled} IN
     /\ schedule' = [j \in Jobs |-> IF j \in enabled THEN job[j].version ELSE 0]
     /\ nextFire' = enabled
  /\ UNCHANGED <<store, interrupted, starts>>
  /\ BootUnchanged

(* Close: no launch after this; every execution is cancelled. *)
Close ==
  /\ engine = "open"
  /\ engine' = "closing"
  /\ cause' = [r \in Runs |-> IF Unanswered(r) /\ cause[r] = "none" THEN "close" ELSE cause[r]]
  /\ UNCHANGED <<store, interrupted, running, blocked, planned, ticking, asked,
                 pc, of, final, history>>

(* Close returns when the loop and all executions have ended. *)
Closed ==
  /\ engine = "closing"
  /\ tick = "idle"
  /\ \A r \in Runs: ~Live(r)
  /\ engine' = "closed"
  /\ UNCHANGED <<store, interrupted, running, blocked, planned, ticking, asked,
                 execution, history>>

(* The process dies, or start-up fails on a store error, or it exits after *)
(* Close; memory is lost.                                                  *)
Stop ==
  /\ engine # "off"
  /\ starts < MaxStarts
  /\ starts' = starts + 1
  /\ engine' = "off"
  /\ interrupted' = {}
  /\ running' = [j \in Jobs |-> NoRun]
  /\ blocked' = [j \in Jobs |-> 0]
  /\ nextFire' = {}
  /\ schedule' = [j \in Jobs |-> 0]
  /\ tick' = "idle"
  /\ listed' = [j \in Jobs |-> NoJob]
  /\ due' = {}
  /\ asked' = {}
  /\ pc' = [r \in Runs |-> IF Live(r) THEN "gone" ELSE pc[r]]
  /\ cause' = [r \in Runs |-> "none"]
  /\ final' = [r \in Runs |-> NoRow]
  /\ UNCHANGED <<store, of, begun, stale>>

-----------------------------------------------------------------------------

User ==
  \/ \E j \in Jobs: PutJobVersioned(j) \/ DeleteJob(j) \/ TriggerNow(j)
  \/ \E j \in Jobs, r \in Runs: CancelRun(j, r)

(* What an execution does once it has its slot. *)
RunStep(r) ==
  \/ AppendIntent(r) \/ Touch(r) \/ Begin(r) \/ Return(r) \/ Disable(r)
  \/ WriteReceipt(r) \/ BlockAutomaticRun(r) \/ Replan(r) \/ Release(r)

Tick ==
  \/ ListJobs \/ SelectDue \/ TickDone
  \/ \E d \in due: FireDue(d)

Recover ==
  \/ DisableInterrupted \/ CloseInterrupted
  \/ \E r \in Runs: CloseInterruptedRow(r)
  \/ \E j \in Jobs: DisableInterruptedJob(j)

Next ==
  \/ User
  \/ \E d \in asked: LaunchAsked(d)
  \/ \E r \in Runs: RunStep(r)
  \/ Tick
  \/ StartUp \/ Recover \/ Open \/ Close \/ Closed \/ Stop

(* A goroutine that can step does; the executor answers because its context *)
(* ends after 20 minutes at the latest.  Close waits for all of them.       *)
Fairness ==
  /\ \A r \in Runs: WF_vars(RunStep(r))
  /\ WF_vars(SelectDue \/ TickDone \/ \E d \in due: FireDue(d))
  /\ WF_vars(Closed)

Spec == Init /\ [][Next]_vars /\ Fairness

-----------------------------------------------------------------------------
(* Properties *)

Current(d) == job[d.job].exists /\ job[d.job].version = d.version

(* Executions that may have had an effect and forbid another one of the    *)
(* same version without a user: of a one-shot, or not known to have ended  *)
(* well and not stopped by the user.                                       *)
Spent ==
  {r \in begun: ~Live(r) /\ (OneShot(of[r].job) \/ (row[r].state # "succeeded" /\ ~row[r].cancelled))}

(* A receipt that forbids a repeat is only there once the version it ran   *)
(* is disabled, edited or gone, and an execution has a row before it       *)
(* begins: a crash at any point leaves a row to reconcile or nothing to    *)
(* repeat (launch, RecoverInterrupted).                                    *)
ReceiptAfterStop ==
  \A r \in begun:
    /\ row[r].state # "none"
    /\ r \in Spent /\ row[r].state # "running" => ~Current(of[r])

(* The tick never picks a job version that is current and spent: across    *)
(* storage failures, restarts, edits and manual runs.  The exception is a  *)
(* run of an older version launched after the edit: the block remembers    *)
(* one version per job, and that run overwrites it (dueJobs,               *)
(* blockAutomaticRun).                                                     *)
NoRepeat ==
  [][SelectDue =>
       \A d \in due', r \in Spent:
         /\ of[r].job = d.job /\ of[r].version = d.version
         /\ ~\E q \in stale: of[q].job = d.job
         => ~Current(d)]_vars

(* One execution per job, and no slot is kept by an execution that ended   *)
(* or never started, whichever step failed (launch and its release).       *)
SlotOwned ==
  /\ \A j \in Jobs: running[j] # NoRun => Live(running[j]) /\ of[running[j]].job = j
  /\ \A r \in Runs: Live(r) => running[of[r].job] = r

(* When Close has returned, and until the next process has recovered,      *)
(* nothing executes and nothing is being launched: the database may be     *)
(* closed (Close, launch).                                                 *)
QuietAfterClose ==
  engine \in {"closed", "off", "recovering"} => tick = "idle" /\ \A r \in Runs: ~Live(r)

(* Whatever the store refuses, an execution comes to its end and frees its *)
(* slot, unless the process dies first (launch).                           *)
RunSettles == \A r \in Runs: Live(r) ~> ~Live(r)

(* Close returns, however many executions and launches are under way.      *)
CloseReturns == engine = "closing" ~> engine # "closing"
=============================================================================

----------------------------- MODULE MCScheduler -----------------------------
(* Scheduler with one one-shot reminder and one recurring job. *)
EXTENDS Scheduler

CONSTANTS reminder, report

MCKindOf == [j \in Jobs |-> IF j = reminder THEN "at" ELSE "cron"]
=============================================================================

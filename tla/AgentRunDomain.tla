--------------------------- MODULE AgentRunDomain ---------------------------
(***************************************************************************)
(* The state machines of the agent runtime (internal/domain/agentrun), as  *)
(* constant-level operators.  Every store update of the runtime goes       *)
(* through one of them: a change that the machine does not list is an      *)
(* error and rolls the whole transaction back.                             *)
(***************************************************************************)

(* AgentRun: agentrun.go. *)
RunActive == {"queued", "running", "paused_review", "paused_budget"}

RunTerminal == {"completed", "failed", "cancelled", "interrupted", "outcome_unknown"}

RunStatus == RunActive \cup RunTerminal

RunTransition(from, to) ==
  \/ from = "queued" /\ to = "running"
  \/ from = "running" /\ to \in {"paused_review", "paused_budget"} \cup RunTerminal
  \/ from \in {"paused_review", "paused_budget"} /\ to = "running"

(* RecoverRun in the store ends any active run; unlike TransitionRun it    *)
(* does not ask the machine above.                                         *)
RunRecovery(from, to) ==
  from \in RunActive /\ to \in {"interrupted", "outcome_unknown"}

(* EffectJournal: effect.go.  An unknown effect can be resolved once more, *)
(* but never to unknown again.                                             *)
EffectTerminal == {"committed", "failed"}

EffectStatus == {"prepared", "outcome_unknown"} \cup EffectTerminal

EffectResolve(from, to) ==
  \/ from = "prepared" /\ to \in EffectTerminal \cup {"outcome_unknown"}
  \/ from = "outcome_unknown" /\ to \in EffectTerminal

(* CommandJob: resource.go. *)
JobActive == {"queued", "running"}

JobTerminal == {"completed", "failed", "cancelled", "outcome_unknown"}

JobStatus == JobActive \cup JobTerminal

JobTransition(from, to) ==
  \/ from = "queued" /\ to \in {"running", "cancelled"}
  \/ from = "running" /\ to \in JobTerminal

(* ChangeSet: resource.go. *)
ChangeSetTerminal == {"reverted", "conflicted"}

ChangeSetStatus ==
  {"draft", "previewed", "approved", "applied"} \cup ChangeSetTerminal

ChangeSetTransition(from, to) ==
  \/ from = "draft" /\ to = "previewed"
  \/ from = "previewed" /\ to = "approved"
  \/ from = "approved" /\ to \in {"applied", "conflicted"}
  \/ from = "applied" /\ to \in {"reverted", "conflicted"}

(* ToolCall: lifecycle.go. *)
CallTerminal == {"succeeded", "failed", "denied", "cancelled", "outcome_unknown"}

CallStatus ==
  {"proposed", "policy_checked", "awaiting_review", "approved", "running"} \cup CallTerminal

CallTransition(from, to) ==
  \/ from = "proposed" /\ to = "policy_checked"
  \/ from = "policy_checked" /\ to = "awaiting_review"
  \/ from = "awaiting_review" /\ to \in {"approved", "denied"}
  \/ from = "approved" /\ to = "running"
  \/ from = "running" /\ to \in {"succeeded", "failed", "cancelled", "outcome_unknown"}
=============================================================================

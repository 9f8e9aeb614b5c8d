--------------------------- MODULE WriteAheadEffect ---------------------------
(***************************************************************************)
(* What the effect journal promises of every external side effect, stated  *)
(* without any of the machinery: the intent is durable before the world is *)
(* touched, each effect is settled along the journal's state machine, and  *)
(* a receipt ("committed") is written only for an effect that really       *)
(* happened.  An effect whose outcome is unknown may still happen - its    *)
(* process may be on its way - but a settled one never does.               *)
(*                                                                         *)
(* CommandRuntime, ChangeSetRuntime and PlanExecution implement it.        *)
(***************************************************************************)
EXTENDS AgentRunDomain

CONSTANT Effects \* effect keys: one per command job, one per apply or revert

VARIABLES
  journal, \* state of the effect's journal row, "none" before it is written
  acted    \* effects on whose behalf the outside world has been touched

effectVars == <<journal, acted>>

Init ==
  /\ journal = [e \in Effects |-> "none"]
  /\ acted = {}

(* The transaction that records the intent. *)
Prepare(e) ==
  /\ journal[e] = "none"
  /\ journal' = [journal EXCEPT ![e] = "prepared"]
  /\ UNCHANGED acted

(* The outside world is touched. *)
Act(e) ==
  /\ journal[e] \in {"prepared", "outcome_unknown"}
  /\ acted' = acted \cup {e}
  /\ UNCHANGED journal

(* One transaction may settle several effects: recovery does. *)
Settle(S) ==
  /\ journal' \in [Effects -> {"none"} \cup EffectStatus]
  /\ \A e \in S : /\ EffectResolve(journal[e], journal'[e])
                  /\ journal'[e] = "committed" => e \in acted
  /\ \A e \in Effects \ S : journal'[e] = journal[e]
  /\ UNCHANGED acted

Next ==
  \/ \E e \in Effects : Prepare(e) \/ Act(e)
  \/ \E S \in SUBSET Effects : Settle(S)

Spec == Init /\ [][Next]_effectVars
=============================================================================

------------------------ MODULE ChangeSetRuntimeProofs ------------------------
(***************************************************************************)
(* Proofs about ChangeSetRuntime, for every set of change sets, plan and   *)
(* set of leases.  The first part holds for any number of requests that    *)
(* overlap, the second for one request at a time.                          *)
(***************************************************************************)
EXTENDS ChangeSetRuntime, Integers, TLAPS

(* Every step is one of these. *)
LEMMA StepCases ==
  ASSUME Next
  PROVE  \/ RunMoves
         \/ Approve
         \/ Reject
         \/ Reconcile
         \/ \E l \in Leases : LeaseExpires(l)
         \/ \E s \in Sets, l \in Leases : Preview(s, l)
         \/ \E h \in Handlers, s \in Sets, a \in Action, l \in Leases : Prepare(h, s, a, l)
         \/ \E h \in Handlers, s \in Sets, a \in Action, l \in Leases : Retry(h, s, a, l)
         \/ \E h \in Handlers : Classify(h)
         \/ \E h \in Handlers : Check(h)
         \/ \E h \in Handlers : Write(h)
         \/ \E h \in Handlers : Uncheck(h)
         \/ \E h \in Handlers : Unwrite(h)
         \/ \E h \in Handlers : Fail(h)
         \/ \E h \in Handlers : Finalize(h)
         \/ \E h \in Handlers : Abandon(h)
         \/ Crash
         \/ Boot \/ DiagnosticsScan
         \/ \E p \in Paths : Outsider(p)
BY DEF Next, RunStep, HandlerStep, SurroundingStep

LEMMA PlanLength == Len(Plan) \in Nat \ {0}
BY PlanAssumption

-----------------------------------------------------------------------------
(***************************************************************************)
(* Types.                                                                  *)
(***************************************************************************)

(* The transition of the run keeps its row well typed. *)
LEMMA MoveRunType ==
  ASSUME NEW to \in RunStatus, MoveRun(to)
  PROVE  runStatus' \in RunStatus /\ audited' \subseteq Audited
BY DEF MoveRun

(* What a request becomes is a request, on a path of the plan. *)
LEMMA RequestType ==
  ASSUME NEW r \in Request
  PROVE  /\ \A p \in Phase : [r EXCEPT !.phase = p] \in Request
         /\ Doubt(r) \in Request
         /\ Back(r) \in Request
         /\ Forward(r) \in Request
         /\ PathOf(r) \in Paths
<1>1. \A p \in Phase : [r EXCEPT !.phase = p] \in Request
  BY DEF Request
<1>2. Doubt(r) \in Request
  BY DEF Request, Doubt
<1>3. r.at \in Paths /\ "fail" \in Phase /\ "uncheck" \in Phase /\ "check" \in Phase /\ "finalize" \in Phase
  BY DEF Request, Phase
<1>4. Back(r) \in Request
  <2>1. CASE r.at = 1
    BY <1>1, <1>3, <2>1 DEF Back
  <2>2. CASE r.at # 1
    <3>1. r.at - 1 \in Paths
      BY <1>3, <2>2, PlanLength DEF Paths
    <3> QED BY <1>3, <2>2, <3>1 DEF Back, Request
  <2> QED BY <2>1, <2>2
<1>5. Forward(r) \in Request
  <2>1. CASE r.at = Len(Plan)
    BY <1>1, <1>3, <2>1 DEF Forward
  <2>2. CASE r.at # Len(Plan)
    <3>1. r.at + 1 \in Paths
      BY <1>3, <2>2, PlanLength DEF Paths
    <3> QED BY <1>3, <2>2, <3>1 DEF Forward, Request
  <2> QED BY <2>1, <2>2
<1>6. PathOf(r) \in Paths
  BY <1>3, PlanLength DEF PathOf, Paths
<1> QED BY <1>1, <1>2, <1>4, <1>5, <1>6

(* Type correctness: every variable keeps its type, whatever requests,     *)
(* crashes and outsiders do; a request never leaves the paths of the plan. *)
THEOREM TypeCorrect == Spec => []TypeOK
<1>1. Init => TypeOK
  BY DEF Init, TypeOK, RunStatus, RunActive, Audited, ApprovalState, ChangeSetStatus,
         EffectStatus, Content
<1>2. TypeOK /\ [Next]_vars => TypeOK'
  <2> SUFFICES ASSUME TypeOK, [Next]_vars PROVE TypeOK'
    OBVIOUS
  <2> USE DEF TypeOK, runVars, setVars, fileVars
  <2>0. CASE UNCHANGED vars
    BY <2>0 DEF vars
  <2>1. CASE RunMoves
    <3>1. PICK to \in RunStatus : MoveRun(to)
      BY <2>1 DEF RunMoves, RunStatus, RunActive, RunTerminal
    <3> QED BY <2>1, <3>1, MoveRunType DEF RunMoves
  <2>2. CASE Approve
    <3>1. MoveRun("running") /\ "running" \in RunStatus
      BY <2>2 DEF Approve, RunStatus, RunActive
    <3>2. approval' \in [Action -> ApprovalState]
      BY <2>2 DEF Approve, ApprovalState
    <3> QED BY <2>2, <3>1, <3>2, MoveRunType DEF Approve
  <2>3. CASE Reject
    BY <2>3 DEF Reject, Audited
  <2>4. CASE Reconcile
    BY <2>4 DEF Reconcile, Audited, EffectStatus
  <2>5. ASSUME NEW l \in Leases, LeaseExpires(l) PROVE TypeOK'
    BY <2>5 DEF LeaseExpires
  <2>6. ASSUME NEW s \in Sets, NEW l \in Leases, Preview(s, l) PROVE TypeOK'
    <3>1. MoveRun("paused_review") /\ "paused_review" \in RunStatus
      BY <2>6 DEF Preview, RunStatus, RunActive
    <3>2. setStatus' \in [Sets -> ChangeSetStatus \cup {"none"}]
      BY <2>6 DEF Preview, ChangeSetStatus
    <3> QED BY <2>6, <3>1, <3>2, MoveRunType DEF Preview, Action
  <2>7. ASSUME NEW h \in Handlers, NEW s \in Sets, NEW a \in Action, NEW l \in Leases,
               Prepare(h, s, a, l)
        PROVE  TypeOK'
    <3>1. approval' \in [Action -> ApprovalState]
      BY <2>7 DEF Prepare, ConsumeReview, ApprovalState
    <3>2. /\ setStatus' \in [Sets -> ChangeSetStatus \cup {"none"}]
          /\ effect' \in [Effects -> EffectStatus \cup {"none"}]
          /\ bound' \in [Effects -> Leases \cup {None}]
      BY <2>7 DEF Prepare, Base, ChangeSetStatus, EffectStatus
    <3>3. handler' \in [Handlers -> Request \cup {None}]
      BY <2>7, PlanLength DEF Prepare, Begin, Request, Phase, Paths
    <3> QED BY <2>7, <3>1, <3>2, <3>3 DEF Prepare
  <2>8. ASSUME NEW h \in Handlers, NEW s \in Sets, NEW a \in Action, NEW l \in Leases,
               Retry(h, s, a, l)
        PROVE  TypeOK'
    <3>1. handler' \in [Handlers -> Request \cup {None}]
      BY <2>8, PlanLength DEF Retry, Begin, Request, Phase, Paths
    <3> QED BY <2>8, <3>1 DEF Retry
  <2>9. ASSUME NEW h \in Handlers, Classify(h) PROVE TypeOK'
    <3>1. handler[h] \in Request
      BY <2>9 DEF Classify, At
    <3> QED BY <2>9, <3>1, RequestType DEF Classify, Becomes, Phase
  <2>10. ASSUME NEW h \in Handlers, Check(h) PROVE TypeOK'
    <3>1. handler[h] \in Request
      BY <2>10 DEF Check, At
    <3> QED BY <2>10, <3>1, RequestType DEF Check, Becomes, Phase
  <2>11. ASSUME NEW h \in Handlers, Write(h) PROVE TypeOK'
    <3>1. handler[h] \in Request
      BY <2>11 DEF Write, At
    <3>2. Forward(handler[h]) \in Request /\ Back(handler[h]) \in Request
      BY <3>1, RequestType
    <3>3. handler' \in [Handlers -> Request \cup {None}]
      BY <2>11, <3>2 DEF Write, Becomes
    <3>4. Target(handler[h].action) \in Content /\ <<handler[h].set, handler[h].action>> \in Effects
      BY <3>1 DEF Target, Content, Effects, Request
    <3>5. file' \in [Paths -> Content] /\ written' \subseteq Effects
      BY <2>11, <3>4 DEF Write
    <3> QED BY <2>11, <3>3, <3>5 DEF Write
  <2>12. ASSUME NEW h \in Handlers, Uncheck(h) PROVE TypeOK'
    <3>1. handler[h] \in Request
      BY <2>12 DEF Uncheck, At
    <3>2. Back(Doubt(handler[h])) \in Request /\ [handler[h] EXCEPT !.phase = "unwrite"] \in Request
      BY <3>1, RequestType DEF Phase
    <3> QED BY <2>12, <3>2 DEF Uncheck, Becomes
  <2>13. ASSUME NEW h \in Handlers, Unwrite(h) PROVE TypeOK'
    <3>1. handler[h] \in Request
      BY <2>13 DEF Unwrite, At
    <3>2. Back(Doubt(handler[h])) \in Request /\ Back(handler[h]) \in Request
      BY <3>1, RequestType
    <3>3. handler' \in [Handlers -> Request \cup {None}]
      BY <2>13, <3>2 DEF Unwrite, Becomes
    <3>4. Source(handler[h].action) \in Content
      BY DEF Source, Content
    <3>5. file' \in [Paths -> Content]
      BY <2>13, <3>4 DEF Unwrite
    <3> QED BY <2>13, <3>3, <3>5 DEF Unwrite
  <2>14. ASSUME NEW h \in Handlers, Fail(h) PROVE TypeOK'
    <3>1. handler[h] \in Request
      BY <2>14 DEF Fail, At
    <3>2. "conflicted" \in ChangeSetStatus /\ handler[h].verdict \in EffectStatus
      BY <3>1 DEF Request, ChangeSetStatus, ChangeSetTerminal, EffectStatus, EffectTerminal
    <3> QED BY <2>14, <3>2 DEF Fail, Settle, Closes
  <2>15. ASSUME NEW h \in Handlers, Finalize(h) PROVE TypeOK'
    <3>1. /\ {"applied", "reverted"} \subseteq ChangeSetStatus
          /\ "committed" \in EffectStatus
          /\ "paused_review" \in RunStatus
      BY DEF ChangeSetStatus, ChangeSetTerminal, EffectStatus, EffectTerminal, RunStatus, RunActive
    <3>2. /\ setStatus' \in [Sets -> ChangeSetStatus \cup {"none"}]
          /\ effect' \in [Effects -> EffectStatus \cup {"none"}]
      BY <2>15, <3>1 DEF Finalize, Settle
    <3>3. runStatus' \in RunStatus /\ audited' \subseteq Audited /\ pending' \in Action \cup {None}
      BY <2>15, <3>1, MoveRunType DEF Finalize, Action
    <3> QED BY <2>15, <3>2, <3>3 DEF Finalize, Closes
  <2>16. ASSUME NEW h \in Handlers, Abandon(h) PROVE TypeOK'
    <3>1. handler[h] \in Request
      BY <2>16 DEF Abandon, At
    <3> QED BY <2>16, <3>1 DEF Abandon, Closes, Request, Effects
  <2>17. CASE Crash
    <3>1. \A h \in Busy : <<handler[h].set, handler[h].action>> \in Effects
      BY DEF Busy, Request, Effects
    <3> QED BY <2>17, <3>1 DEF Crash
  <2>18. CASE Boot \/ DiagnosticsScan
    BY <2>18 DEF Boot, DiagnosticsScan, RecoveryScan, RunStatus, RunTerminal
  <2>19. ASSUME NEW p \in Paths, Outsider(p) PROVE TypeOK'
    BY <2>19 DEF Outsider, Content
  <2> QED
    BY <2>0, <2>1, <2>2, <2>3, <2>4, <2>5, <2>6, <2>7, <2>8, <2>9, <2>10, <2>11, <2>12,
       <2>13, <2>14, <2>15, <2>16, <2>17, <2>18, <2>19, StepCases
<1> QED BY <1>1, <1>2, PTL DEF Spec

-----------------------------------------------------------------------------
(***************************************************************************)
(* Any number of requests at a time: sets, journal and approvals.          *)
(***************************************************************************)

(* These steps leave the set rows, the journal and the approvals alone. *)
LEMMA FileFrame ==
  ASSUME \/ RunMoves \/ Reject
         \/ \E l \in Leases : LeaseExpires(l)
         \/ \E h \in Handlers : \E s \in Sets, a \in Action, l \in Leases : Retry(h, s, a, l)
         \/ \E h \in Handlers : \/ Classify(h) \/ Check(h) \/ Write(h) \/ Uncheck(h) \/ Unwrite(h)
                               \/ Abandon(h)
         \/ Crash \/ Boot \/ DiagnosticsScan \/ \E p \in Paths : Outsider(p)
  PROVE  UNCHANGED <<setStatus, effect, approval>>
BY DEF RunMoves, Reject, LeaseExpires, Retry, Classify, Check, Write, Uncheck, Unwrite, Abandon,
       Crash, Boot, DiagnosticsScan, RecoveryScan, Outsider, runVars, setVars, fileVars

(* A request that may resolve its effect finds it open, and its set in the *)
(* one status that goes with an open effect, or already in conflict.       *)
LEMMA OpenEffect ==
  ASSUME TypeOK, SetEffectAgree, NEW r \in Request, NEW to, Resolves(r, to)
  PROVE  /\ effect[<<r.set, r.action>>] \in {"prepared", "outcome_unknown"}
         /\ setStatus[r.set] \in {Base(r.action), "conflicted"}
<1>1. r.set \in Sets /\ r.action \in Action
  BY DEF Request
<1>2. effect[<<r.set, r.action>>] \in {"prepared", "outcome_unknown"}
  BY DEF Resolves, EffectResolve
<1>3. setStatus[r.set] \in ChangeSetStatus \cup {"none"}
  BY <1>1 DEF TypeOK
<1>4. setStatus[r.set] \in {Base(r.action), "conflicted"}
  BY <1>1, <1>2, <1>3 DEF SetEffectAgree, Action, Base, ChangeSetStatus, ChangeSetTerminal
<1> QED BY <1>2, <1>4

(* What SetEffectAgree asks of one set and its two effects. *)
Agree(status, apply, revert) ==
  LET open == {"prepared", "outcome_unknown"}
  IN  /\ status \in {"none", "draft", "previewed"} => apply = "none" /\ revert = "none"
      /\ status = "approved" => apply \in open /\ revert = "none"
      /\ status = "applied" => apply = "committed" /\ revert \in open \cup {"none"}
      /\ status = "reverted" => apply = "committed" /\ revert = "committed"
      /\ status = "conflicted" =>
           \/ apply \in {"failed", "outcome_unknown"} /\ revert = "none"
           \/ apply = "committed" /\ revert \in {"failed", "outcome_unknown"}

(* A transaction for one set need only be judged at that set. *)
LEMMA OneSetMoves ==
  ASSUME TypeOK, SetEffectAgree, NEW s \in Sets, NEW a \in Action, NEW status, NEW verdict,
         setStatus' = [setStatus EXCEPT ![s] = status],
         effect' = [effect EXCEPT ![<<s, a>>] = verdict],
         Agree(status, IF a = "apply" THEN verdict ELSE effect[<<s, "apply">>],
                       IF a = "apply" THEN effect[<<s, "revert">>] ELSE verdict)
  PROVE  SetEffectAgree'
<1>1. \A t \in Sets : Agree(setStatus[t], effect[<<t, "apply">>], effect[<<t, "revert">>])
  BY DEF SetEffectAgree, Agree
<1>2. \A t \in Sets : setStatus'[t] = IF t = s THEN status ELSE setStatus[t]
  BY DEF TypeOK
<1>3. \A t \in Sets : /\ effect'[<<t, "apply">>] = IF t = s /\ a = "apply" THEN verdict ELSE effect[<<t, "apply">>]
                      /\ effect'[<<t, "revert">>] = IF t = s /\ a = "revert" THEN verdict ELSE effect[<<t, "revert">>]
  BY DEF TypeOK, Effects, Action
<1>4. a = "apply" \/ a = "revert"
  BY DEF Action
<1>5. ASSUME NEW t \in Sets
      PROVE  Agree(setStatus'[t], effect'[<<t, "apply">>], effect'[<<t, "revert">>])
  BY <1>1, <1>2, <1>3, <1>4
<1> QED BY <1>5 DEF SetEffectAgree, Agree

(* The set rows and the journal agree after every step. *)
LEMMA SetEffectAgreeStep ==
  ASSUME TypeOK, SetEffectAgree, [Next]_vars
  PROVE  SetEffectAgree'
<1>1. ASSUME UNCHANGED <<setStatus, effect>> PROVE SetEffectAgree'
  BY <1>1 DEF SetEffectAgree
<1>2. CASE Approve
  BY <1>1, <1>2 DEF Approve, setVars
<1>3. CASE Reconcile
  BY <1>3 DEF Reconcile, SetEffectAgree, Effects, Action
<1>4. ASSUME NEW s \in Sets, NEW l \in Leases, Preview(s, l) PROVE SetEffectAgree'
  BY <1>4 DEF Preview, SetEffectAgree, TypeOK
<1>5. ASSUME NEW h \in Handlers, NEW s \in Sets, NEW a \in Action, NEW l \in Leases,
             Prepare(h, s, a, l)
      PROVE  SetEffectAgree'
  <2>1. Agree(Base(a), IF a = "apply" THEN "prepared" ELSE effect[<<s, "apply">>],
                       IF a = "apply" THEN effect[<<s, "revert">>] ELSE "prepared")
    BY <1>5 DEF Prepare, Agree, Base, SetEffectAgree, Action
  <2> QED BY <1>5, <2>1, OneSetMoves DEF Prepare
<1>6. ASSUME NEW h \in Handlers, Fail(h) PROVE SetEffectAgree'
  <2> DEFINE r == handler[h]
  <2>1. r \in Request /\ r.set \in Sets /\ r.action \in Action /\ r.verdict \in {"failed", "outcome_unknown"}
    BY <1>6 DEF Fail, At, TypeOK, Request
  <2>2. setStatus[r.set] = Base(r.action)
    BY <1>6, <2>1, OpenEffect DEF Fail
  <2>3. Agree("conflicted", IF r.action = "apply" THEN r.verdict ELSE effect[<<r.set, "apply">>],
                            IF r.action = "apply" THEN effect[<<r.set, "revert">>] ELSE r.verdict)
    <3> HIDE DEF r
    <3> QED BY <2>1, <2>2 DEF Agree, Base, SetEffectAgree, Action
  <2> QED BY <1>6, <2>1, <2>3, OneSetMoves DEF Fail, Settle
<1>7. ASSUME NEW h \in Handlers, Finalize(h) PROVE SetEffectAgree'
  <2> DEFINE r == handler[h]
             status == IF r.action = "apply" THEN "applied" ELSE "reverted"
  <2>1. r \in Request /\ r.set \in Sets /\ r.action \in Action
    BY <1>7 DEF Finalize, At, TypeOK, Request
  <2>2. setStatus[r.set] = Base(r.action)
    BY <1>7 DEF Finalize, StillOpen
  <2>3. Agree(status, IF r.action = "apply" THEN "committed" ELSE effect[<<r.set, "apply">>],
                      IF r.action = "apply" THEN effect[<<r.set, "revert">>] ELSE "committed")
    <3> HIDE DEF r
    <3> QED BY <2>1, <2>2 DEF Agree, Base, SetEffectAgree, Action
  <2>4. /\ setStatus' = [setStatus EXCEPT ![r.set] = status]
        /\ effect' = [effect EXCEPT ![<<r.set, r.action>>] = "committed"]
    BY <1>7 DEF Finalize, Settle
  <2> QED BY <2>1, <2>3, <2>4, OneSetMoves
<1>8. CASE UNCHANGED vars
  BY <1>1, <1>8 DEF vars, setVars
<1> QED BY <1>1, <1>2, <1>3, <1>4, <1>5, <1>6, <1>7, <1>8, StepCases, FileFrame

(* The approvals stay in step with the journal. *)
LEMMA OneSetPerApprovalStep ==
  ASSUME TypeOK, OneSetPerApproval, [Next]_vars
  PROVE  OneSetPerApproval'
<1> DEFINE Paid(a) == {s \in Sets : effect[<<s, a>>] # "none"}
<1>0. "apply" \in Action /\ "revert" \in Action
  BY DEF Action
<1>1. ASSUME \A s \in Sets, a \in Action : effect'[<<s, a>>] = "none" <=> effect[<<s, a>>] = "none",
             \A a \in Action : approval'[a] = "consumed" <=> approval[a] = "consumed"
      PROVE  OneSetPerApproval'
  <2>1. \A a \in Action : Paid(a)' = Paid(a)
    BY <1>1
  <2>2. \A a \in Action : (approval[a] = "consumed" <=> Paid(a) # {}) /\ \A s, t \in Paid(a) : s = t
    BY DEF OneSetPerApproval
  <2>3. \A a \in Action : (approval'[a] = "consumed" <=> Paid(a)' # {}) /\ \A s, t \in Paid(a)' : s = t
    BY <1>1, <2>1, <2>2
  <2> QED BY <2>3 DEF OneSetPerApproval
<1>2. CASE Approve
  BY <1>1, <1>2 DEF Approve, TypeOK, setVars
<1>3. CASE Reconcile
  BY <1>1, <1>3 DEF Reconcile, Effects
<1>4. ASSUME NEW s \in Sets, NEW l \in Leases, Preview(s, l) PROVE OneSetPerApproval'
  BY <1>1, <1>4 DEF Preview
<1>5. ASSUME NEW h \in Handlers, NEW s \in Sets, NEW a \in Action, NEW l \in Leases,
             Prepare(h, s, a, l)
      PROVE  OneSetPerApproval'
  <2>1. approval[a] = "granted" /\ approval' = [approval EXCEPT ![a] = "consumed"]
    BY <1>5 DEF Prepare, ConsumeReview
  <2>2. effect' = [effect EXCEPT ![<<s, a>>] = "prepared"]
    BY <1>5 DEF Prepare
  <2>3. Paid(a) = {} /\ Paid(a)' = {s}
    <3>1. \A t \in Sets : effect[<<t, a>>] = "none"
      BY <2>1 DEF OneSetPerApproval
    <3>2. \A t \in Sets : effect'[<<t, a>>] = IF t = s THEN "prepared" ELSE effect[<<t, a>>]
      BY <2>2 DEF TypeOK, Effects
    <3> QED BY <3>1, <3>2
  <2>4. \A b \in Action \ {a} : Paid(b)' = Paid(b) /\ approval'[b] = approval[b]
    BY <2>1, <2>2 DEF TypeOK, Effects
  <2>5. approval'[a] = "consumed"
    BY <2>1 DEF TypeOK
  <2>6. \A b \in Action : (approval'[b] = "consumed" <=> Paid(b)' # {}) /\ \A t, u \in Paid(b)' : t = u
    BY <2>3, <2>4, <2>5 DEF OneSetPerApproval
  <2> QED BY <2>6 DEF OneSetPerApproval
<1>6. ASSUME NEW h \in Handlers, Fail(h) \/ Finalize(h) PROVE OneSetPerApproval'
  <2> DEFINE r == handler[h]
  <2>1. r \in Request /\ r.set \in Sets /\ r.action \in Action
    BY <1>6 DEF Fail, Finalize, At, TypeOK, Request
  <2>2. PICK v \in {"failed", "outcome_unknown", "committed"} :
          effect' = [effect EXCEPT ![<<r.set, r.action>>] = v]
    BY <1>6, <2>1 DEF Fail, Finalize, Settle, Request
  <2>3. effect[<<r.set, r.action>>] # "none" /\ UNCHANGED approval
    BY <1>6 DEF Fail, Finalize, Resolves, EffectResolve, runVars
  <2> HIDE DEF r
  <2>4. \A s \in Sets, a \in Action : effect'[<<s, a>>] = "none" <=> effect[<<s, a>>] = "none"
    BY <2>1, <2>2, <2>3 DEF TypeOK, Effects
  <2> QED BY <1>1, <2>3, <2>4
<1>7. CASE UNCHANGED vars
  BY <1>1, <1>7 DEF vars, setVars, runVars
<1>8. ASSUME UNCHANGED <<setStatus, effect, approval>> PROVE OneSetPerApproval'
  BY <1>1, <1>8
<1> QED BY <1>2, <1>3, <1>4, <1>5, <1>6, <1>7, <1>8, StepCases, FileFrame

(* However many requests overlap, the row of a set and its journal rows    *)
(* tell the same story, and an approval pays for one set.                  *)
THEOREM SetsAndJournalAgree == Spec => [](SetEffectAgree /\ OneSetPerApproval)
<1>1. Init => SetEffectAgree /\ OneSetPerApproval
  <2> SUFFICES ASSUME Init PROVE SetEffectAgree /\ OneSetPerApproval
    OBVIOUS
  <2>1. \A s \in Sets, a \in Action : effect[<<s, a>>] = "none"
    BY DEF Init, Effects
  <2>2. OneSetPerApproval
    BY <2>1 DEF Init, OneSetPerApproval
  <2>3. SetEffectAgree
    BY DEF Init, SetEffectAgree, Effects, Action
  <2> QED BY <2>2, <2>3
<1>2. /\ TypeOK /\ SetEffectAgree /\ [Next]_vars => SetEffectAgree'
      /\ TypeOK /\ OneSetPerApproval /\ [Next]_vars => OneSetPerApproval'
  BY SetEffectAgreeStep, OneSetPerApprovalStep
<1> QED BY <1>1, <1>2, TypeCorrect, PTL DEF Spec

(* An approval pays for the apply, or the revert, of one set. *)
THEOREM ApprovalPaysForOneSet == Spec => []OneSetPerApproval
<1> QED BY SetsAndJournalAgree, PTL

(* What SetFollowsMachine says of one step. *)
FollowsMachine ==
  \A s \in Sets :
    \/ setStatus'[s] = setStatus[s]
    \/ setStatus[s] = "none" /\ setStatus'[s] = "previewed"
    \/ ChangeSetTransition(setStatus[s], setStatus'[s])

(* A failing request writes the set from an old snapshot, and still never  *)
(* takes it back: its effect would have been settled already.              *)
THEOREM SetsFollowMachine == Spec => SetFollowsMachine
<1>1. TypeOK /\ SetEffectAgree /\ [Next]_vars => [FollowsMachine]_vars
  <2> SUFFICES ASSUME TypeOK, SetEffectAgree, Next PROVE FollowsMachine
    OBVIOUS
  <2> USE DEF FollowsMachine
  <2>1. ASSUME UNCHANGED setStatus PROVE FollowsMachine
    BY <2>1
  <2>2. CASE Approve \/ Reconcile
    BY <2>1, <2>2 DEF Approve, Reconcile, setVars
  <2>3. ASSUME NEW s \in Sets, NEW l \in Leases, Preview(s, l) PROVE FollowsMachine
    BY <2>3 DEF Preview, TypeOK
  <2>4. ASSUME NEW h \in Handlers, NEW s \in Sets, NEW a \in Action, NEW l \in Leases,
               Prepare(h, s, a, l)
        PROVE  FollowsMachine
    BY <2>4 DEF Prepare, Base, TypeOK, ChangeSetTransition
  <2>5. ASSUME NEW h \in Handlers, Fail(h) PROVE FollowsMachine
    <3>1. handler[h] \in Request /\ handler[h].set \in Sets
      BY <2>5 DEF Fail, At, TypeOK, Request
    <3>2. setStatus[handler[h].set] = Base(handler[h].action)
      BY <2>5, <3>1, OpenEffect DEF Fail
    <3>3. setStatus' = [setStatus EXCEPT ![handler[h].set] = "conflicted"]
      BY <2>5 DEF Fail, Settle
    <3> QED BY <3>1, <3>2, <3>3 DEF Base, TypeOK, ChangeSetTransition
  <2>6. ASSUME NEW h \in Handlers, Finalize(h) PROVE FollowsMachine
    <3>1. handler[h] \in Request /\ handler[h].set \in Sets
      BY <2>6 DEF Finalize, At, TypeOK, Request
    <3>2. setStatus[handler[h].set] = Base(handler[h].action)
      BY <2>6 DEF Finalize, StillOpen
    <3>3. setStatus' = [setStatus EXCEPT ![handler[h].set] =
                          IF handler[h].action = "apply" THEN "applied" ELSE "reverted"]
      BY <2>6 DEF Finalize, Settle
    <3> QED BY <3>1, <3>2, <3>3 DEF Base, TypeOK, ChangeSetTransition
  <2> QED BY <2>1, <2>2, <2>3, <2>4, <2>5, <2>6, StepCases, FileFrame
<1>2. [][FollowsMachine]_vars => SetFollowsMachine
  BY DEF FollowsMachine, SetFollowsMachine
<1> QED BY <1>1, <1>2, TypeCorrect, SetsAndJournalAgree, PTL DEF Spec

-----------------------------------------------------------------------------
(***************************************************************************)
(* One request at a time: the invariant of the tree.                       *)
(***************************************************************************)

(* No two requests are in flight at the same time. *)
OneAtATime == \A g, h \in Handlers : g = h

EffectOf(r) == <<r.set, r.action>>

(* The place of a path in the order of the action. *)
Rank(action, p) == IF action = "apply" THEN p ELSE Len(Plan) + 1 - p

(* The first n paths of the action have their target content, the others   *)
(* their source content - as far as no outsider has changed them.          *)
Done(action, n) ==
  \A p \in Paths \ edited :
    file[p] = IF Rank(action, p) <= n THEN Target(action) ELSE Source(action)

(* A request in flight has its set and its effect open. *)
Owns(r) ==
  /\ effect[EffectOf(r)] \in {"prepared", "outcome_unknown"}
  /\ setStatus[r.set] = Base(r.action)

RequestOwns == \A h \in Handlers : handler[h] # None => Owns(handler[h])

(* An effect that is prepared and has no request any more was torn. *)
PreparedIsHeld ==
  \A e \in Effects : effect[e] = "prepared" =>
    e \in torn \/ \E h \in Handlers : handler[h] # None /\ e = EffectOf(handler[h])

(* What each phase of a request says about the tree. *)
TreeKnown(r) ==
  /\ r.phase = "classify" => r.at = 1 /\ r.verdict = "failed" /\ EffectOf(r) \in torn
  /\ r.phase \in {"check", "write"} => r.verdict = "failed" /\ Done(r.action, r.at - 1)
  /\ r.phase \in {"uncheck", "unwrite"} /\ r.verdict = "failed" => Done(r.action, r.at)
  /\ r.phase = "fail" /\ r.verdict = "failed" => EffectOf(r) \in torn \/ Done(r.action, 0)
  /\ r.phase = "finalize" => Done(r.action, Len(Plan))

TreeOfRequest == \A h \in Handlers : handler[h] # None => TreeKnown(handler[h])

(* Before the first apply the tree is as it was previewed. *)
Untouched ==
  (\A s \in Sets : effect[<<s, "apply">>] = "none") =>
    \A p \in Paths \ edited : file[p] = "original"

(* What the journal says about the tree. *)
TreeOfJournal == Untouched /\ TreeFollowsReceipt /\ FailedIsClean

TreeInv == RequestOwns /\ PreparedIsHeld /\ TreeOfRequest /\ TreeOfJournal

(* A path is reached by its action exactly once. *)
LEMMA RankOfPath ==
  ASSUME NEW r \in Request
  PROVE  /\ PathOf(r) \in Paths
         /\ \A p \in Paths : Rank(r.action, p) \in Paths /\ (Rank(r.action, p) = r.at <=> p = PathOf(r))
<1>1. r.at \in Paths
  BY DEF Request
<1> QED BY <1>1, PlanLength, RequestType DEF Rank, PathOf, Paths

(* A write extends the done paths by one, its undo takes one back. *)
LEMMA WriteExtends ==
  ASSUME TypeOK, NEW r \in Request, Done(r.action, r.at - 1), edited' = edited,
         file' = [file EXCEPT ![PathOf(r)] = Target(r.action)]
  PROVE  Done(r.action, r.at)'
<1>1. r.at \in Int
  BY PlanLength DEF Request, Paths
<1>2. SUFFICES ASSUME NEW p \in Paths \ edited
               PROVE  file'[p] = IF Rank(r.action, p) <= r.at THEN Target(r.action) ELSE Source(r.action)
  BY DEF Done, Rank, Target, Source
<1>3. /\ Rank(r.action, p) \in Int
      /\ Rank(r.action, p) = r.at <=> p = PathOf(r)
  BY RankOfPath, PlanLength DEF Paths
<1>4. file[p] = IF Rank(r.action, p) <= r.at - 1 THEN Target(r.action) ELSE Source(r.action)
  BY DEF Done
<1>5. file'[p] = IF p = PathOf(r) THEN Target(r.action) ELSE file[p]
  BY DEF TypeOK
<1> QED BY <1>1, <1>3, <1>4, <1>5

LEMMA UnwriteRetracts ==
  ASSUME TypeOK, NEW r \in Request, Done(r.action, r.at), edited' = edited,
         file' = [file EXCEPT ![PathOf(r)] = Source(r.action)]
  PROVE  Done(r.action, r.at - 1)'
<1>1. r.at \in Int
  BY PlanLength DEF Request, Paths
<1>2. SUFFICES ASSUME NEW p \in Paths \ edited
               PROVE  file'[p] = IF Rank(r.action, p) <= r.at - 1 THEN Target(r.action) ELSE Source(r.action)
  BY DEF Done, Rank, Target, Source
<1>3. /\ Rank(r.action, p) \in Int
      /\ Rank(r.action, p) = r.at <=> p = PathOf(r)
  BY RankOfPath, PlanLength DEF Paths
<1>4. file[p] = IF Rank(r.action, p) <= r.at THEN Target(r.action) ELSE Source(r.action)
  BY DEF Done
<1>5. file'[p] = IF p = PathOf(r) THEN Source(r.action) ELSE file[p]
  BY DEF TypeOK
<1> QED BY <1>1, <1>3, <1>4, <1>5

(* Nothing done, and all done. *)
LEMMA DoneEnds ==
  ASSUME NEW a \in Action
  PROVE  /\ Done(a, 0) <=> \A p \in Paths \ edited : file[p] = Source(a)
         /\ Done(a, Len(Plan)) <=> \A p \in Paths \ edited : file[p] = Target(a)
<1>1. \A p \in Paths : Rank(a, p) \in Int /\ ~ (Rank(a, p) <= 0) /\ Rank(a, p) <= Len(Plan)
  BY PlanLength DEF Rank, Paths
<1> QED BY <1>1 DEF Done

(* Where a request goes, it knows the tree again. *)
LEMMA BackKnows ==
  ASSUME NEW r \in Request, Done(r.action, r.at - 1)'
  PROVE  TreeKnown(Back(r))'
<1>1. r.at \in Int /\ r.at - 1 \in Int
  BY PlanLength DEF Request, Paths
<1>2. CASE r.at = 1
  <2>1. Back(r).phase = "fail" /\ Back(r).action = r.action
    BY <1>2 DEF Back, Request
  <2>2. Done(r.action, 0)'
    BY <1>1, <1>2
  <2> QED BY <2>1, <2>2 DEF TreeKnown
<1>3. CASE r.at # 1
  <2>1. Back(r).phase = "uncheck" /\ Back(r).action = r.action /\ Back(r).at = r.at - 1
    BY <1>1, <1>3 DEF Back, Request
  <2> QED BY <2>1 DEF TreeKnown
<1> QED BY <1>2, <1>3

LEMMA DoubtKnows ==
  ASSUME NEW r \in Request
  PROVE  TreeKnown(Back(Doubt(r)))'
<1>1. /\ Back(Doubt(r)).verdict = "outcome_unknown"
      /\ Back(Doubt(r)).phase \in {"fail", "uncheck"}
  BY DEF Back, Doubt, Request
<1> QED BY <1>1 DEF TreeKnown

LEMMA ForwardKnows ==
  ASSUME NEW r \in Request, Done(r.action, r.at)', r.verdict = "failed"
  PROVE  TreeKnown(Forward(r))'
<1>1. r.at \in Int
  BY PlanLength DEF Request, Paths
<1>2. CASE r.at = Len(Plan)
  <2>1. Forward(r).phase = "finalize" /\ Forward(r).action = r.action
    BY <1>2 DEF Forward, Request
  <2> QED BY <1>2, <2>1 DEF TreeKnown
<1>3. CASE r.at # Len(Plan)
  <2>1. /\ Forward(r).phase = "check" /\ Forward(r).action = r.action
        /\ Forward(r).at - 1 = r.at /\ Forward(r).verdict = "failed"
    BY <1>1, <1>3 DEF Forward, Request
  <2> QED BY <2>1 DEF TreeKnown
<1> QED BY <1>2, <1>3

(* None of them is another request. *)
LEMMA SameEffect ==
  ASSUME NEW r \in Request
  PROVE  /\ \A p \in Phase : EffectOf([r EXCEPT !.phase = p]) = EffectOf(r)
         /\ EffectOf(Back(r)) = EffectOf(r)
         /\ EffectOf(Back(Doubt(r))) = EffectOf(r)
         /\ EffectOf(Forward(r)) = EffectOf(r)
BY DEF EffectOf, Back, Doubt, Forward, Request

(* While a request is in flight the journal promises nothing of the tree:  *)
(* nothing else was applied, reverted or taken back.                       *)
LEMMA BusyIsAlone ==
  ASSUME TypeOK, SetEffectAgree, OneSetPerApproval, NEW r \in Request, Owns(r)
  PROVE  /\ \A e \in Effects : effect[e] # "failed"
         /\ \A t \in Sets : setStatus[t] # "reverted"
         /\ \A t \in Sets : setStatus[t] = "applied" => effect[<<t, "revert">>] # "none"
         /\ effect[<<r.set, "apply">>] # "none"
<1>1. r.set \in Sets /\ (r.action = "apply" \/ r.action = "revert")
  BY DEF Request, Action
<1>2. effect[<<r.set, r.action>>] \in {"prepared", "outcome_unknown"} /\ setStatus[r.set] = Base(r.action)
  BY DEF Owns, EffectOf
<1>3. effect[<<r.set, "apply">>] # "none" /\ effect[<<r.set, "apply">>] # "failed"
  BY <1>1, <1>2 DEF SetEffectAgree, Base
<1>4. \A t \in Sets : effect[<<t, "apply">>] # "none" => t = r.set
  BY <1>1, <1>3 DEF OneSetPerApproval, Action
<1>5. \A t \in Sets : setStatus[t] \in ChangeSetStatus \cup {"none"}
  BY DEF TypeOK
<1>6. \A t \in Sets : effect[<<t, "revert">>] # "none" => effect[<<t, "apply">>] = "committed"
  BY <1>5 DEF SetEffectAgree, ChangeSetStatus, ChangeSetTerminal
<1>7. \A t \in Sets : setStatus[t] \in {"applied", "reverted"} => effect[<<t, "apply">>] = "committed"
  BY DEF SetEffectAgree
<1>8. \A t \in Sets : effect[<<t, "apply">>] # "failed" /\ effect[<<t, "revert">>] # "failed"
  BY <1>1, <1>2, <1>3, <1>4, <1>6 DEF SetEffectAgree, Base
<1>9. ASSUME NEW e \in Effects PROVE effect[e] # "failed"
  <2>1. PICK t \in Sets, a \in Action : e = <<t, a>>
    BY DEF Effects
  <2>2. a = "apply" \/ a = "revert"
    BY DEF Action
  <2> QED BY <1>8, <2>1, <2>2
<1>10. \A t \in Sets : setStatus[t] # "reverted"
  BY <1>1, <1>2, <1>4, <1>7 DEF Base
<1>11. \A t \in Sets : setStatus[t] = "applied" => effect[<<t, "revert">>] # "none"
  BY <1>1, <1>2, <1>4, <1>7 DEF Base
<1> QED BY <1>3, <1>9, <1>10, <1>11

(* While its request works on the tree, the journal stays silent. *)
LEMMA JournalIsSilent ==
  ASSUME TypeOK, SetEffectAgree, OneSetPerApproval, NEW r \in Request, Owns(r),
         UNCHANGED <<setStatus, effect>>
  PROVE  TreeOfJournal'
<1>1. /\ \A e \in Effects : effect'[e] # "failed"
      /\ \A t \in Sets : setStatus'[t] # "reverted"
      /\ \A t \in Sets : setStatus'[t] = "applied" => effect'[<<t, "revert">>] # "none"
      /\ effect'[<<r.set, "apply">>] # "none"
  BY BusyIsAlone
<1>2. FailedIsClean'
  BY <1>1 DEF FailedIsClean, Effects
<1>3. TreeFollowsReceipt'
  BY <1>1 DEF TreeFollowsReceipt
<1>4. Untouched'
  BY <1>1 DEF Untouched, Request
<1> QED BY <1>2, <1>3, <1>4 DEF TreeOfJournal

(* The request goes on for the same effect, and knows the tree. *)
LEMMA Continues ==
  ASSUME OneAtATime, TypeOK, SetEffectAgree, OneSetPerApproval, TreeInv,
         NEW h \in Handlers, NEW r \in Request, NEW q \in Request,
         handler[h] = r, handler' = [handler EXCEPT ![h] = q], EffectOf(q) = EffectOf(r),
         UNCHANGED <<setStatus, effect, torn>>, TreeKnown(q)'
  PROVE  TreeInv'
<1>1. r # None /\ q # None
  BY NoneAssumption
<1>2. Owns(r)
  BY <1>1 DEF TreeInv, RequestOwns
<1>3. \A g \in Handlers : g = h
  BY DEF OneAtATime
<1>4. handler'[h] = q
  BY DEF TypeOK
<1>5. q.set = r.set /\ q.action = r.action
  BY DEF EffectOf
<1>6. RequestOwns'
  BY <1>2, <1>3, <1>4, <1>5 DEF RequestOwns, Owns, EffectOf
<1>7. PreparedIsHeld'
  BY <1>1, <1>3, <1>4 DEF TreeInv, PreparedIsHeld
<1>8. TreeOfRequest'
  <2> SUFFICES ASSUME NEW g \in Handlers PROVE TreeKnown(handler[g])'
    BY DEF TreeOfRequest
  <2>1. handler'[g] = q
    BY <1>3, <1>4
  <2> QED BY <2>1 DEF TreeKnown, Done, EffectOf
<1>9. TreeOfJournal'
  BY <1>2, JournalIsSilent
<1> QED BY <1>6, <1>7, <1>8, <1>9 DEF TreeInv

(* The file phase keeps the invariant. *)
LEMMA FilePhaseStep ==
  ASSUME OneAtATime, TypeOK, SetEffectAgree, OneSetPerApproval, TreeInv, NEW h \in Handlers,
         Classify(h) \/ Check(h) \/ Write(h) \/ Uncheck(h) \/ Unwrite(h)
  PROVE  TreeInv'
<1>1. PICK r \in Request : handler[h] = r
  BY DEF Classify, Check, Write, Uncheck, Unwrite, At, TypeOK
<1>2. TreeKnown(r)
  BY <1>1, NoneAssumption DEF TreeInv, TreeOfRequest
<1>3. UNCHANGED <<setStatus, effect, torn, edited>>
  BY DEF Classify, Check, Write, Uncheck, Unwrite, setVars, fileVars
<1>4. ASSUME NEW q \in Request, Becomes(h, q), EffectOf(q) = EffectOf(r), TreeKnown(q)'
      PROVE  TreeInv'
  BY <1>1, <1>3, <1>4, Continues DEF Becomes
<1>5. r.at \in Int /\ r.action \in Action
  BY PlanLength DEF Request, Paths
<1>6. ASSUME UNCHANGED file, NEW n PROVE Done(r.action, n) => Done(r.action, n)'
  BY <1>3, <1>6 DEF Done, Rank, Target, Source
<1>7. CASE Classify(h)
  <2>0. r.phase = "classify" /\ r.at = 1 /\ r.verdict = "failed" /\ EffectOf(r) \in torn
    BY <1>1, <1>2, <1>7 DEF Classify, At, TreeKnown
  <2>1. UNCHANGED file
    BY <1>7 DEF Classify, fileVars
  <2>2. CASE (\A p \in Paths : file[p] = Target(r.action)) /\ Becomes(h, [r EXCEPT !.phase = "finalize"])
    <3>1. PICK q \in Request : q = [r EXCEPT !.phase = "finalize"]
      BY RequestType DEF Phase
    <3>2. Done(r.action, Len(Plan))'
      BY <1>5, <1>6, <2>1, <2>2, DoneEnds
    <3>3. q.phase = "finalize" /\ q.action = r.action
      BY <3>1 DEF Request
    <3>4. TreeKnown(q)'
      BY <3>2, <3>3 DEF TreeKnown
    <3>5. EffectOf(q) = EffectOf(r)
      BY <3>1, SameEffect DEF Phase
    <3> QED BY <1>4, <2>2, <3>1, <3>4, <3>5
  <2>3. CASE (\A p \in Paths : file[p] = Source(r.action)) /\ Becomes(h, [r EXCEPT !.phase = "check"])
    <3>1. PICK q \in Request : q = [r EXCEPT !.phase = "check"]
      BY RequestType DEF Phase
    <3>2. Done(r.action, 0)'
      BY <1>5, <1>6, <2>1, <2>3, DoneEnds
    <3>3. q.phase = "check" /\ q.action = r.action /\ q.at - 1 = 0 /\ q.verdict = "failed"
      BY <2>0, <3>1 DEF Request
    <3>4. TreeKnown(q)'
      BY <3>2, <3>3 DEF TreeKnown
    <3>5. EffectOf(q) = EffectOf(r)
      BY <3>1, SameEffect DEF Phase
    <3> QED BY <1>4, <2>3, <3>1, <3>4, <3>5
  <2>4. CASE Becomes(h, [r EXCEPT !.phase = "fail"])
    <3>1. PICK q \in Request : q = [r EXCEPT !.phase = "fail"]
      BY RequestType DEF Phase
    <3>2. q.phase = "fail"
      BY <3>1 DEF Request
    <3>3. EffectOf(q) = EffectOf(r)
      BY <3>1, SameEffect DEF Phase
    <3>4. (EffectOf(q) \in torn)'
      BY <1>3, <2>0, <3>3 DEF EffectOf
    <3>5. TreeKnown(q)'
      BY <3>2, <3>4 DEF TreeKnown
    <3> QED BY <1>4, <2>4, <3>1, <3>3, <3>5
  <2> QED BY <1>1, <1>7, <2>2, <2>3, <2>4 DEF Classify
<1>8. CASE Check(h)
  <2>0. r.phase = "check" /\ r.verdict = "failed" /\ Done(r.action, r.at - 1)
    BY <1>1, <1>2, <1>8 DEF Check, At, TreeKnown
  <2>1. Done(r.action, r.at - 1)'
    BY <1>6, <1>8, <2>0 DEF Check, fileVars
  <2>2. CASE Becomes(h, [r EXCEPT !.phase = "write"])
    <3>1. PICK q \in Request : q = [r EXCEPT !.phase = "write"]
      BY RequestType DEF Phase
    <3>2. q.phase = "write" /\ q.action = r.action /\ q.at = r.at /\ q.verdict = "failed"
      BY <2>0, <3>1 DEF Request
    <3>3. TreeKnown(q)'
      BY <2>1, <3>2 DEF TreeKnown
    <3>4. EffectOf(q) = EffectOf(r)
      BY <3>1, SameEffect DEF Phase
    <3> QED BY <1>4, <2>2, <3>1, <3>3, <3>4
  <2>3. CASE Becomes(h, Back(r))
    <3>1. TreeKnown(Back(r))'
      BY <2>1, BackKnows
    <3>2. PICK q \in Request : q = Back(r)
      BY RequestType
    <3> QED BY <1>4, <2>3, <3>1, <3>2, SameEffect
  <2> QED BY <1>1, <1>8, <2>2, <2>3 DEF Check
<1>9. CASE Write(h)
  <2>0. r.phase = "write" /\ r.verdict = "failed" /\ Done(r.action, r.at - 1)
    BY <1>1, <1>2, <1>9 DEF Write, At, TreeKnown
  <2>1. CASE file' = [file EXCEPT ![PathOf(r)] = Target(r.action)] /\ Becomes(h, Forward(r))
    <3>1. TreeKnown(Forward(r))'
      BY <1>3, <2>0, <2>1, WriteExtends, ForwardKnows
    <3>2. PICK q \in Request : q = Forward(r)
      BY RequestType
    <3> QED BY <1>4, <2>1, <3>1, <3>2, SameEffect
  <2>2. CASE UNCHANGED file /\ Becomes(h, Back(r))
    <3>1. TreeKnown(Back(r))'
      BY <1>6, <2>0, <2>2, BackKnows
    <3>2. PICK q \in Request : q = Back(r)
      BY RequestType
    <3> QED BY <1>4, <2>2, <3>1, <3>2, SameEffect
  <2> QED BY <1>1, <1>9, <2>1, <2>2 DEF Write
<1>10. ASSUME Becomes(h, Back(Doubt(r))) PROVE TreeInv'
  <2>1. TreeKnown(Back(Doubt(r)))'
    BY DoubtKnows
  <2>2. PICK q \in Request : q = Back(Doubt(r))
    BY RequestType
  <2> QED BY <1>4, <1>10, <2>1, <2>2, SameEffect
<1>11. CASE Uncheck(h)
  <2>0. r.phase = "uncheck" /\ (r.verdict = "failed" => Done(r.action, r.at))
    BY <1>1, <1>2, <1>11 DEF Uncheck, At, TreeKnown
  <2>1. r.verdict = "failed" => Done(r.action, r.at)'
    BY <1>6, <1>11, <2>0 DEF Uncheck, fileVars
  <2>2. CASE Becomes(h, [r EXCEPT !.phase = "unwrite"])
    <3>1. PICK q \in Request : q = [r EXCEPT !.phase = "unwrite"]
      BY RequestType DEF Phase
    <3>2. q.phase = "unwrite" /\ q.action = r.action /\ q.at = r.at /\ q.verdict = r.verdict
      BY <3>1 DEF Request
    <3>3. TreeKnown(q)'
      BY <2>1, <3>2 DEF TreeKnown
    <3>4. EffectOf(q) = EffectOf(r)
      BY <3>1, SameEffect DEF Phase
    <3> QED BY <1>4, <2>2, <3>1, <3>3, <3>4
  <2> QED BY <1>1, <1>10, <1>11, <2>2 DEF Uncheck
<1>12. CASE Unwrite(h)
  <2>0. r.phase = "unwrite" /\ (r.verdict = "failed" => Done(r.action, r.at))
    BY <1>1, <1>2, <1>12 DEF Unwrite, At, TreeKnown
  <2>1. CASE file' = [file EXCEPT ![PathOf(r)] = Source(r.action)] /\ Becomes(h, Back(r))
    <3>1. CASE r.verdict = "failed"
      <4>1. TreeKnown(Back(r))'
        BY <1>3, <2>0, <2>1, <3>1, UnwriteRetracts, BackKnows
      <4>2. PICK q \in Request : q = Back(r)
        BY RequestType
      <4> QED BY <1>4, <2>1, <4>1, <4>2, SameEffect
    <3>2. CASE r.verdict # "failed"
      <4>1. Doubt(r) = r
        BY <3>2 DEF Doubt, Request
      <4> QED BY <1>10, <2>1, <4>1
    <3> QED BY <3>1, <3>2
  <2> QED BY <1>1, <1>10, <1>12, <2>1 DEF Unwrite
<1> QED BY <1>7, <1>8, <1>9, <1>11, <1>12

(* A new request knows where it stands. *)
LEMMA BeginStep ==
  ASSUME OneAtATime, TypeOK, SetEffectAgree, OneSetPerApproval, TreeInv,
         NEW h \in Handlers, NEW s \in Sets, NEW a \in Action, NEW l \in Leases,
         Prepare(h, s, a, l) \/ Retry(h, s, a, l)
  PROVE  TreeInv'
<1>1. handler[h] = None /\ \A g \in Handlers : g = h /\ handler[g] = None
  BY DEF Prepare, Retry, Begin, OneAtATime
<1>2. UNCHANGED <<file, edited, torn>>
  BY DEF Prepare, Retry, fileVars
<1>3. \A e \in Effects : effect[e] = "prepared" => e \in torn
  BY <1>1 DEF TreeInv, PreparedIsHeld
<1>4. <<s, a>> \in Effects
  BY DEF Effects
<1>5. ASSUME NEW q \in Request, handler' = [handler EXCEPT ![h] = q], EffectOf(q) = <<s, a>>,
             Owns(q)', TreeKnown(q)',
             \A e \in Effects : effect'[e] = "prepared" => e \in torn \/ e = <<s, a>>
      PROVE  RequestOwns' /\ PreparedIsHeld' /\ TreeOfRequest'
  <2>1. q # None /\ handler'[h] = q
    BY <1>5, NoneAssumption DEF TypeOK
  <2>2. \A g \in Handlers : handler'[g] = q
    BY <1>1, <2>1
  <2>3. RequestOwns'
    BY <1>5, <2>2 DEF RequestOwns, Owns, EffectOf
  <2>4. PreparedIsHeld'
    BY <1>2, <1>5, <2>1 DEF PreparedIsHeld, EffectOf
  <2>5. TreeOfRequest'
    BY <1>5, <2>2 DEF TreeOfRequest, TreeKnown, Done, EffectOf
  <2> QED BY <2>3, <2>4, <2>5
<1>6. CASE Prepare(h, s, a, l)
  <2>1. PICK q : q = [set |-> s, action |-> a, phase |-> "check", at |-> 1, verdict |-> "failed"]
    OBVIOUS
  <2>2. q \in Request /\ EffectOf(q) = <<s, a>> /\ handler' = [handler EXCEPT ![h] = q]
    BY <1>6, <2>1, PlanLength DEF Prepare, Begin, Request, Phase, Paths, EffectOf
  <2>3. /\ setStatus[s] = (IF a = "apply" THEN "previewed" ELSE "applied")
        /\ effect[<<s, a>>] = "none"
        /\ approval[a] = "granted"
        /\ setStatus' = [setStatus EXCEPT ![s] = Base(a)]
        /\ effect' = [effect EXCEPT ![<<s, a>>] = "prepared"]
    BY <1>6 DEF Prepare, ConsumeReview
  <2>4. Owns(q)'
    BY <1>4, <2>1, <2>3 DEF Owns, EffectOf, TypeOK
  <2>5. a = "apply" \/ a = "revert"
    BY DEF Action
  <2>6. Done(a, 0)
    <3>1. CASE a = "apply"
      <4>1. \A t \in Sets : effect[<<t, "apply">>] = "none"
        BY <2>3, <3>1 DEF OneSetPerApproval
      <4> QED BY <3>1, <4>1, DoneEnds DEF TreeInv, TreeOfJournal, Untouched, Source
    <3>2. CASE a = "revert"
      BY <2>3, <3>2, DoneEnds DEF TreeInv, TreeOfJournal, TreeFollowsReceipt, Source
    <3> QED BY <2>5, <3>1, <3>2
  <2>7. TreeKnown(q)'
    <3>1. Done(a, 0)'
      BY <1>2, <2>6 DEF Done, Rank, Target, Source
    <3>2. q.phase = "check" /\ q.action = a /\ q.at - 1 = 0 /\ q.verdict = "failed"
      BY <2>1
    <3> QED BY <3>1, <3>2 DEF TreeKnown
  <2>8. \A e \in Effects : effect'[e] = IF e = <<s, a>> THEN "prepared" ELSE effect[e]
    BY <2>3 DEF TypeOK
  <2>9. \A t \in Sets : setStatus'[t] = IF t = s THEN Base(a) ELSE setStatus[t]
    BY <2>3 DEF TypeOK
  <2>10. Untouched'
    <3>1. CASE a = "apply"
      BY <1>4, <2>8, <3>1 DEF Untouched
    <3>2. CASE a = "revert"
      <4>1. \A t \in Sets : effect'[<<t, "apply">>] = effect[<<t, "apply">>]
        BY <2>8, <3>2 DEF Effects, Action
      <4> QED BY <1>2, <4>1 DEF TreeInv, TreeOfJournal, Untouched
    <3> QED BY <2>5, <3>1, <3>2
  <2>11. TreeFollowsReceipt'
    <3>1. \A t \in Sets : setStatus'[t] = "applied" /\ effect'[<<t, "revert">>] = "none" =>
             t # s /\ setStatus[t] = "applied" /\ effect[<<t, "revert">>] = "none"
      BY <2>5, <2>8, <2>9 DEF Base, Effects, Action
    <3>2. \A t \in Sets : setStatus'[t] = "reverted" => setStatus[t] = "reverted"
      BY <2>9 DEF Base
    <3> QED BY <1>2, <3>1, <3>2 DEF TreeInv, TreeOfJournal, TreeFollowsReceipt
  <2>12. FailedIsClean'
    <3>1. \A t \in Sets, b \in Action : effect'[<<t, b>>] = "failed" => effect[<<t, b>>] = "failed"
      BY <2>8 DEF Effects
    <3> QED BY <1>2, <3>1 DEF TreeInv, TreeOfJournal, FailedIsClean, Source
  <2> QED
    BY <1>3, <1>5, <2>2, <2>4, <2>7, <2>8, <2>10, <2>11, <2>12 DEF TreeInv, TreeOfJournal
<1>7. CASE Retry(h, s, a, l)
  <2>1. PICK q : q = [set |-> s, action |-> a, phase |-> "classify", at |-> 1, verdict |-> "failed"]
    OBVIOUS
  <2>2. q \in Request /\ EffectOf(q) = <<s, a>> /\ handler' = [handler EXCEPT ![h] = q]
    BY <1>7, <2>1, PlanLength DEF Retry, Begin, Request, Phase, Paths, EffectOf
  <2>3. effect[<<s, a>>] = "prepared" /\ setStatus[s] = Base(a) /\ UNCHANGED <<setStatus, effect>>
    BY <1>7 DEF Retry, setVars
  <2>4. Owns(q) /\ Owns(q)'
    BY <2>1, <2>3 DEF Owns, EffectOf
  <2>5. TreeKnown(q)'
    <3>1. q.phase = "classify" /\ q.at = 1 /\ q.verdict = "failed"
      BY <2>1
    <3>2. <<s, a>> \in torn'
      BY <1>2, <1>3, <1>4, <2>3
    <3> QED BY <2>2, <3>1, <3>2 DEF TreeKnown, EffectOf
  <2>6. TreeOfJournal'
    BY <2>2, <2>3, <2>4, JournalIsSilent
  <2> QED BY <1>3, <1>5, <2>2, <2>3, <2>4, <2>5, <2>6 DEF TreeInv
<1> QED BY <1>6, <1>7

(* Its closing transaction leaves the tree as the journal then says. *)
LEMMA CloseStep ==
  ASSUME OneAtATime, TypeOK, SetEffectAgree, OneSetPerApproval, TreeInv,
         NEW h \in Handlers, Fail(h) \/ Finalize(h)
  PROVE  TreeInv'
<1>1. PICK r \in Request : handler[h] = r
  BY DEF Fail, Finalize, At, TypeOK
<1>2. Owns(r) /\ TreeKnown(r)
  BY <1>1, NoneAssumption DEF TreeInv, TreeOfRequest, RequestOwns
<1>3. /\ r.set \in Sets /\ r.action \in Action /\ EffectOf(r) = <<r.set, r.action>>
      /\ EffectOf(r) \in Effects /\ (r.action = "apply" \/ r.action = "revert")
  BY DEF Request, EffectOf, Effects, Action
<1>4. UNCHANGED <<file, edited, torn>>
  BY DEF Fail, Finalize, fileVars
<1>5. \A g \in Handlers : g = h /\ handler'[g] = None
  BY DEF OneAtATime, Fail, Finalize, Closes, TypeOK
<1>6. PICK status, verdict :
        /\ setStatus' = [setStatus EXCEPT ![r.set] = status]
        /\ effect' = [effect EXCEPT ![EffectOf(r)] = verdict]
        /\ \/ r.phase = "fail" /\ status = "conflicted" /\ verdict = r.verdict
           \/ r.phase = "finalize" /\ r.action = "apply" /\ status = "applied" /\ verdict = "committed"
           \/ r.phase = "finalize" /\ r.action = "revert" /\ status = "reverted" /\ verdict = "committed"
  BY <1>1, <1>3 DEF Fail, Finalize, Settle, At, EffectOf
<1>7. verdict \in {"failed", "outcome_unknown", "committed"}
  BY <1>6 DEF Request
<1>8. \A e \in Effects : effect'[e] = IF e = EffectOf(r) THEN verdict ELSE effect[e]
  BY <1>6 DEF TypeOK
<1>9. \A t \in Sets : setStatus'[t] = IF t = r.set THEN status ELSE setStatus[t]
  BY <1>6 DEF TypeOK
<1>10. /\ \A e \in Effects : effect[e] # "failed"
       /\ \A t \in Sets : setStatus[t] # "reverted"
       /\ \A t \in Sets : setStatus[t] = "applied" => effect[<<t, "revert">>] # "none"
       /\ effect[<<r.set, "apply">>] # "none"
  BY <1>2, BusyIsAlone
<1>11. RequestOwns' /\ TreeOfRequest'
  BY <1>5 DEF RequestOwns, TreeOfRequest
<1>12. PreparedIsHeld'
  <2>1. \A e \in Effects : effect[e] = "prepared" => e \in torn \/ e = EffectOf(r)
    BY <1>1, <1>5 DEF TreeInv, PreparedIsHeld
  <2> QED BY <1>4, <1>7, <1>8, <2>1 DEF PreparedIsHeld
<1>13. Untouched'
  <2>1. <<r.set, "apply">> \in Effects
    BY <1>3 DEF Effects, Action
  <2>2. effect'[<<r.set, "apply">>] # "none"
    BY <1>7, <1>8, <1>10, <2>1
  <2> QED BY <1>3, <2>2 DEF Untouched
<1>14. TreeFollowsReceipt'
  <2>1. \A t \in Sets : setStatus'[t] = "applied" /\ effect'[<<t, "revert">>] = "none" =>
           r.phase = "finalize" /\ r.action = "apply"
    <3> SUFFICES ASSUME NEW t \in Sets, setStatus'[t] = "applied", effect'[<<t, "revert">>] = "none"
                 PROVE  r.phase = "finalize" /\ r.action = "apply"
      OBVIOUS
    <3>1. <<t, "revert">> \in Effects
      BY DEF Effects, Action
    <3>2. effect[<<t, "revert">>] = "none"
      BY <1>7, <1>8, <3>1
    <3>3. setStatus[t] # "applied"
      BY <1>10, <3>2
    <3> QED BY <1>6, <1>9, <3>3
  <2>2. \A t \in Sets : setStatus'[t] = "reverted" => r.phase = "finalize" /\ r.action = "revert"
    BY <1>6, <1>9, <1>10
  <2>3. r.phase = "finalize" => \A p \in Paths \ edited : file[p] = Target(r.action)
    BY <1>2, <1>3, DoneEnds DEF TreeKnown
  <2> QED BY <1>4, <2>1, <2>2, <2>3 DEF TreeFollowsReceipt, Target
<1>15. FailedIsClean'
  <2> SUFFICES ASSUME NEW s \in Sets, NEW a \in Action,
                      effect'[<<s, a>>] = "failed", <<s, a>> \notin torn
               PROVE  \A p \in Paths \ edited : file[p] = Source(a)
    BY <1>4 DEF FailedIsClean, Source
  <2>1. <<s, a>> \in Effects
    BY DEF Effects
  <2>2. <<s, a>> = EffectOf(r) /\ verdict = "failed"
    BY <1>8, <1>10, <2>1
  <2>3. r.phase = "fail" /\ r.verdict = "failed"
    BY <1>6, <2>2
  <2>4. Done(r.action, 0)
    BY <1>2, <2>2, <2>3 DEF TreeKnown
  <2>5. a = r.action
    BY <1>3, <2>2
  <2> QED BY <2>4, <2>5, DoneEnds
<1> QED BY <1>11, <1>12, <1>13, <1>14, <1>15 DEF TreeInv, TreeOfJournal

(* A request that ends without a receipt leaves a torn effect. *)
LEMMA TornStep ==
  ASSUME OneAtATime, TypeOK, TreeInv, Crash \/ \E h \in Handlers : Abandon(h)
  PROVE  TreeInv'
<1>1. UNCHANGED <<setStatus, effect, file, edited>>
  BY DEF Crash, Abandon, setVars, fileVars
<1>2. \A g \in Handlers : handler'[g] = None
  BY DEF Crash, Abandon, Closes, OneAtATime, TypeOK
<1>3. /\ torn \subseteq torn'
      /\ \A g \in Handlers : handler[g] # None => EffectOf(handler[g]) \in torn'
  <2>1. CASE Crash
    BY <2>1 DEF Crash, Busy, EffectOf
  <2>2. ASSUME NEW h \in Handlers, Abandon(h) PROVE <1>3!1 /\ <1>3!2
    BY <2>2 DEF Abandon, OneAtATime, EffectOf
  <2> QED BY <2>1, <2>2
<1>4. RequestOwns' /\ TreeOfRequest'
  BY <1>2 DEF RequestOwns, TreeOfRequest
<1>5. PreparedIsHeld'
  BY <1>1, <1>3 DEF TreeInv, PreparedIsHeld
<1>6. TreeOfJournal'
  BY <1>1, <1>3 DEF TreeInv, TreeOfJournal, Untouched, TreeFollowsReceipt, FailedIsClean, Source
<1> QED BY <1>4, <1>5, <1>6 DEF TreeInv

(* The whole step. *)
LEMMA TreeInvStep ==
  ASSUME OneAtATime, TypeOK, SetEffectAgree, OneSetPerApproval, TreeInv, [Next]_vars
  PROVE  TreeInv'
<1>1. ASSUME UNCHANGED <<setStatus, effect, file, edited, torn, handler>> PROVE TreeInv'
  BY <1>1 DEF TreeInv, RequestOwns, Owns, EffectOf, PreparedIsHeld, TreeOfRequest, TreeKnown, Done,
              TreeOfJournal, Untouched, TreeFollowsReceipt, FailedIsClean
<1>2. CASE UNCHANGED vars \/ RunMoves \/ Approve \/ Reject \/ \E l \in Leases : LeaseExpires(l)
  BY <1>1, <1>2 DEF vars, setVars, fileVars, RunMoves, Approve, Reject, LeaseExpires
<1>3. CASE Boot \/ DiagnosticsScan
  BY <1>1, <1>3 DEF setVars, fileVars, Boot, DiagnosticsScan, RecoveryScan
<1>4. CASE Reconcile
  <2>1. /\ UNCHANGED <<setStatus, file, edited, torn, handler>>
        /\ \A e \in Effects : effect'[e] = IF effect[e] = "prepared" THEN "outcome_unknown" ELSE effect[e]
    BY <1>4 DEF Reconcile, fileVars
  <2>2. \A s \in Sets, a \in Action : <<s, a>> \in Effects
    BY DEF Effects
  <2>3. "apply" \in Action /\ "revert" \in Action
    BY DEF Action
  <2>4. RequestOwns'
    <3> SUFFICES ASSUME NEW h \in Handlers, handler[h] # None PROVE Owns(handler[h])'
      BY <2>1 DEF RequestOwns
    <3>1. Owns(handler[h]) /\ EffectOf(handler[h]) \in Effects
      BY DEF TreeInv, RequestOwns, TypeOK, Request, Effects, EffectOf
    <3> QED BY <2>1, <3>1 DEF Owns, EffectOf
  <2>5. PreparedIsHeld'
    BY <2>1 DEF PreparedIsHeld
  <2>6. TreeOfRequest'
    BY <2>1 DEF TreeInv, TreeOfRequest, TreeKnown, Done, EffectOf
  <2>7. TreeOfJournal'
    BY <2>1, <2>2, <2>3 DEF TreeInv, TreeOfJournal, Untouched, TreeFollowsReceipt, FailedIsClean
  <2> QED BY <2>4, <2>5, <2>6, <2>7 DEF TreeInv
<1>5. ASSUME NEW s \in Sets, NEW l \in Leases, Preview(s, l) PROVE TreeInv'
  <2>1. /\ UNCHANGED <<effect, file, edited, torn, handler>>
        /\ setStatus[s] = "none"
        /\ \A t \in Sets : setStatus'[t] = IF t = s THEN "previewed" ELSE setStatus[t]
    BY <1>5 DEF Preview, fileVars, TypeOK
  <2>2. RequestOwns'
    <3> SUFFICES ASSUME NEW h \in Handlers, handler[h] # None PROVE Owns(handler[h])'
      BY <2>1 DEF RequestOwns
    <3>1. Owns(handler[h]) /\ handler[h].set \in Sets
      BY DEF TreeInv, RequestOwns, TypeOK, Request
    <3> QED BY <2>1, <3>1 DEF Owns, EffectOf, Base
  <2>3. PreparedIsHeld' /\ TreeOfRequest'
    BY <2>1 DEF TreeInv, PreparedIsHeld, TreeOfRequest, TreeKnown, Done, EffectOf
  <2>4. TreeOfJournal'
    BY <2>1 DEF TreeInv, TreeOfJournal, Untouched, TreeFollowsReceipt, FailedIsClean
  <2> QED BY <2>2, <2>3, <2>4 DEF TreeInv
<1>6. ASSUME NEW p \in Paths, Outsider(p) PROVE TreeInv'
  <2>1. /\ UNCHANGED <<setStatus, effect, torn, handler>>
        /\ edited' = edited \cup {p}
        /\ \A q \in Paths \ edited' : file'[q] = file[q] /\ q \in Paths \ edited
    BY <1>6 DEF Outsider, setVars, TypeOK
  <2>2. RequestOwns' /\ PreparedIsHeld'
    BY <2>1 DEF TreeInv, RequestOwns, Owns, EffectOf, PreparedIsHeld
  <2>3. TreeOfRequest'
    <3> SUFFICES ASSUME NEW h \in Handlers, handler[h] # None PROVE TreeKnown(handler[h])'
      BY <2>1 DEF TreeOfRequest
    <3>1. \A a, n : Done(a, n) => Done(a, n)'
      BY <2>1 DEF Done, Rank, Target, Source
    <3>2. TreeKnown(handler[h])
      BY DEF TreeInv, TreeOfRequest
    <3>3. PICK r : r = handler[h]
      OBVIOUS
    <3>4. TreeKnown(r)'
      BY <2>1, <3>1, <3>2, <3>3 DEF TreeKnown, EffectOf
    <3> QED BY <2>1, <3>3, <3>4 DEF TreeKnown, Done, EffectOf
  <2>4. TreeOfJournal'
    BY <2>1 DEF TreeInv, TreeOfJournal, Untouched, TreeFollowsReceipt, FailedIsClean, Source
  <2> QED BY <2>2, <2>3, <2>4 DEF TreeInv
<1> QED
  BY <1>2, <1>3, <1>4, <1>5, <1>6, StepCases, BeginStep, FilePhaseStep, CloseStep, TornStep

(* The invariant holds, whatever crashes, scans, outsiders and reconciles  *)
(* do, as long as requests do not overlap.                                 *)
THEOREM TreeInvariance ==
  ASSUME OneAtATime
  PROVE  Spec => []TreeInv
<1>1. Init => TreeInv
  <2> SUFFICES ASSUME Init PROVE TreeInv
    OBVIOUS
  <2>1. RequestOwns /\ TreeOfRequest
    BY DEF Init, RequestOwns, TreeOfRequest
  <2>2. \A e \in Effects : effect[e] = "none"
    BY DEF Init
  <2>3. \A s \in Sets : setStatus[s] = "none"
    BY DEF Init
  <2>4. PreparedIsHeld
    BY <2>2 DEF PreparedIsHeld
  <2>5. Untouched
    BY DEF Init, Untouched
  <2>6. TreeFollowsReceipt
    BY <2>3 DEF TreeFollowsReceipt
  <2>7. FailedIsClean
    BY <2>2 DEF FailedIsClean, Effects
  <2> QED BY <2>1, <2>4, <2>5, <2>6, <2>7 DEF TreeInv, TreeOfJournal
<1>2. TypeOK /\ SetEffectAgree /\ OneSetPerApproval /\ TreeInv /\ [Next]_vars => TreeInv'
  BY TreeInvStep
<1> QED BY <1>1, <1>2, TypeCorrect, SetsAndJournalAgree, PTL DEF Spec

(* Applied without a revert, the whole plan is in place; reverted, it is   *)
(* gone: outsiders aside.                                                  *)
THEOREM TreeIsAsReceipted ==
  ASSUME OneAtATime
  PROVE  Spec => []TreeFollowsReceipt
<1>1. TreeInv => TreeFollowsReceipt
  BY DEF TreeInv, TreeOfJournal
<1> QED BY <1>1, TreeInvariance, PTL

(* A request that failed in one piece has taken back all it wrote. *)
THEOREM FailureLeavesNoTrace ==
  ASSUME OneAtATime
  PROVE  Spec => []FailedIsClean
<1>1. TreeInv => FailedIsClean
  BY DEF TreeInv, TreeOfJournal
<1> QED BY <1>1, TreeInvariance, PTL

-----------------------------------------------------------------------------
(***************************************************************************)
(* One request at a time: the journal.  Prepare is its Prepare, a write    *)
(* its Act; Fail, Finalize and Reconcile settle; the rest stutters.        *)
(***************************************************************************)

(* Nothing is written for an effect without a journal row, and nothing is  *)
(* receipted that was not written.                                         *)
WrittenAndJournal ==
  \A e \in Effects :
    /\ e \in written => effect[e] # "none"
    /\ effect[e] = "committed" => e \in written

(* The paths an apply has passed are no longer original. *)
Passed(r) == \A p \in Paths : p < r.at => file[p] # "original"

(* A request that is past its first path, or has nothing more to do, has   *)
(* written something.                                                      *)
Progress(r) ==
  /\ r.phase = "finalize" \/ (r.phase \in {"check", "write"} /\ r.at # 1) => EffectOf(r) \in written
  /\ r.action = "apply" /\ r.phase \in {"check", "write"} => Passed(r)
  /\ r.action = "apply" /\ r.phase = "finalize" => \A p \in Paths : file[p] # "original"

ProgressOfRequest == \A h \in Handlers : handler[h] # None => Progress(handler[h])

(* Planned content is the work of an apply, original content after an      *)
(* apply that of its revert: a retry that finds its work done did it.      *)
ContentHasCause ==
  /\ \A p \in Paths : file[p] = "planned" => \E s \in Sets : <<s, "apply">> \in written
  /\ \A s \in Sets : effect[<<s, "apply">>] = "committed" /\ <<s, "revert">> \notin written =>
       \A p \in Paths : file[p] # "original"

JournalInv == WrittenAndJournal /\ ProgressOfRequest /\ ContentHasCause

(* An open apply has no receipt yet, and it is the only one; an open       *)
(* revert has the receipt of its apply.                                    *)
LEMMA OpenApply ==
  ASSUME TypeOK, SetEffectAgree, OneSetPerApproval, NEW r \in Request, Owns(r)
  PROVE  /\ r.action = "apply" => \A t \in Sets : effect[<<t, "apply">>] # "committed"
         /\ r.action = "revert" => effect[<<r.set, "apply">>] = "committed"
         /\ \A t \in Sets : effect[<<t, "apply">>] # "none" => t = r.set
<1>1. r.set \in Sets /\ (r.action = "apply" \/ r.action = "revert")
  BY DEF Request, Action
<1>2. effect[<<r.set, r.action>>] \in {"prepared", "outcome_unknown"} /\ setStatus[r.set] = Base(r.action)
  BY DEF Owns, EffectOf
<1>3. effect[<<r.set, "apply">>] # "none"
  BY <1>1, <1>2, BusyIsAlone
<1>4. \A t \in Sets : effect[<<t, "apply">>] # "none" => t = r.set
  BY <1>1, <1>3 DEF OneSetPerApproval, Action
<1>5. r.action = "revert" => effect[<<r.set, "apply">>] = "committed"
  BY <1>1, <1>2 DEF SetEffectAgree, Base
<1>6. r.action = "apply" => \A t \in Sets : effect[<<t, "apply">>] # "committed"
  BY <1>2, <1>4
<1> QED BY <1>4, <1>5, <1>6

(* The request goes on; the rest of the invariant is up to the step. *)
LEMMA ProgressGoesOn ==
  ASSUME OneAtATime, TypeOK, NEW h \in Handlers, NEW q \in Request,
         handler' = [handler EXCEPT ![h] = q], Progress(q)'
  PROVE  ProgressOfRequest'
<1>1. \A g \in Handlers : handler'[g] = q
  BY DEF OneAtATime, TypeOK
<1> QED BY <1>1 DEF ProgressOfRequest, Progress, Passed, EffectOf

(* Phases in which nothing is claimed. *)
LEMMA NoClaim ==
  ASSUME NEW q \in Request, q.phase \in {"classify", "uncheck", "unwrite", "fail"}
  PROVE  Progress(q)'
BY DEF Progress

LEMMA BackClaimsNothing ==
  ASSUME NEW r \in Request
  PROVE  /\ Back(r).phase \in {"fail", "uncheck"}
         /\ Back(Doubt(r)).phase \in {"fail", "uncheck"}
BY DEF Back, Doubt, Request

(* A retry that finds the whole tree in its target content has written it. *)
LEMMA FoundDone ==
  ASSUME TypeOK, SetEffectAgree, OneSetPerApproval, JournalInv, NEW r \in Request, Owns(r),
         \A p \in Paths : file[p] = Target(r.action)
  PROVE  EffectOf(r) \in written
<1>1. r.set \in Sets /\ (r.action = "apply" \/ r.action = "revert") /\ 1 \in Paths
  BY PlanLength DEF Request, Action, Paths
<1>2. CASE r.action = "apply"
  <2>1. PICK s \in Sets : <<s, "apply">> \in written
    BY <1>1, <1>2 DEF JournalInv, ContentHasCause, Target
  <2>2. effect[<<s, "apply">>] # "none"
    BY <2>1 DEF JournalInv, WrittenAndJournal, Effects, Action
  <2>3. s = r.set
    BY <2>2, OpenApply
  <2> QED BY <1>2, <2>1, <2>3 DEF EffectOf
<1>3. CASE r.action = "revert"
  <2>1. effect[<<r.set, "apply">>] = "committed"
    BY <1>3, OpenApply
  <2>2. file[1] = "original"
    BY <1>1, <1>3 DEF Target
  <2> QED BY <1>1, <1>3, <2>1, <2>2 DEF JournalInv, ContentHasCause, EffectOf
<1> QED BY <1>1, <1>2, <1>3

(* The file phase keeps the invariant. *)
LEMMA FilePhaseJournal ==
  ASSUME OneAtATime, TypeOK, SetEffectAgree, OneSetPerApproval, TreeInv, JournalInv,
         NEW h \in Handlers,
         Classify(h) \/ Check(h) \/ Write(h) \/ Uncheck(h) \/ Unwrite(h)
  PROVE  JournalInv'
<1>1. PICK r \in Request : handler[h] = r
  BY DEF Classify, Check, Write, Uncheck, Unwrite, At, TypeOK
<1>2. Owns(r) /\ TreeKnown(r) /\ Progress(r)
  BY <1>1, NoneAssumption DEF TreeInv, TreeOfRequest, RequestOwns, JournalInv, ProgressOfRequest
<1>3. UNCHANGED effect
  BY DEF Classify, Check, Write, Uncheck, Unwrite, setVars
<1>4. /\ r.set \in Sets /\ (r.action = "apply" \/ r.action = "revert") /\ r.at \in Int
      /\ EffectOf(r) = <<r.set, r.action>> /\ EffectOf(r) \in Effects
  BY PlanLength DEF Request, Action, Paths, EffectOf, Effects
<1>5. effect[EffectOf(r)] \in {"prepared", "outcome_unknown"}
  BY <1>2 DEF Owns
<1>6. /\ r.action = "apply" => \A t \in Sets : effect[<<t, "apply">>] # "committed"
      /\ r.action = "revert" => effect[<<r.set, "apply">>] = "committed"
      /\ \A t \in Sets : effect[<<t, "apply">>] # "none" => t = r.set
  BY <1>2, OpenApply
<1>7. ASSUME UNCHANGED <<file, written>> PROVE WrittenAndJournal' /\ ContentHasCause'
  BY <1>3, <1>7 DEF JournalInv, WrittenAndJournal, ContentHasCause
<1>8. ASSUME NEW q \in Request, Becomes(h, q), Progress(q)' PROVE ProgressOfRequest'
  BY <1>8, ProgressGoesOn DEF Becomes
<1>9. ASSUME Becomes(h, Back(r)) \/ Becomes(h, Back(Doubt(r))) PROVE ProgressOfRequest'
  <2>1. PICK q \in Request : Becomes(h, q) /\ q.phase \in {"fail", "uncheck"}
    BY <1>9, RequestType, BackClaimsNothing
  <2> QED BY <1>8, <2>1, NoClaim
<1>10. CASE Classify(h)
  <2>0. r.phase = "classify" /\ r.at = 1
    BY <1>1, <1>2, <1>10 DEF Classify, At, TreeKnown
  <2>1. UNCHANGED <<file, written>>
    BY <1>10 DEF Classify, fileVars
  <2>2. ASSUME (\A p \in Paths : file[p] = Target(r.action)), Becomes(h, [r EXCEPT !.phase = "finalize"])
        PROVE  ProgressOfRequest'
    <3>1. PICK q \in Request : q = [r EXCEPT !.phase = "finalize"]
      BY RequestType DEF Phase
    <3>2. EffectOf(r) \in written
      BY <1>2, <2>2, FoundDone
    <3>3. q.phase = "finalize" /\ q.action = r.action /\ EffectOf(q) = EffectOf(r)
      BY <3>1, SameEffect DEF Request, Phase
    <3>4. r.action = "apply" => \A p \in Paths : file[p] # "original"
      BY <2>2 DEF Target
    <3>5. Progress(q)'
      BY <2>1, <3>2, <3>3, <3>4 DEF Progress, EffectOf
    <3> QED BY <1>8, <2>2, <3>1, <3>5
  <2>3. ASSUME Becomes(h, [r EXCEPT !.phase = "check"]) PROVE ProgressOfRequest'
    <3>1. PICK q \in Request : q = [r EXCEPT !.phase = "check"]
      BY RequestType DEF Phase
    <3>2. q.phase = "check" /\ q.at = 1
      BY <2>0, <3>1 DEF Request
    <3>3. Progress(q)'
      BY <3>2, PlanLength DEF Progress, Passed, Paths
    <3> QED BY <1>8, <2>3, <3>1, <3>3
  <2>4. ASSUME Becomes(h, [r EXCEPT !.phase = "fail"]) PROVE ProgressOfRequest'
    <3>1. PICK q \in Request : q = [r EXCEPT !.phase = "fail"]
      BY RequestType DEF Phase
    <3>2. q.phase = "fail"
      BY <3>1 DEF Request
    <3> QED BY <1>8, <2>4, <3>1, <3>2, NoClaim
  <2>5. ProgressOfRequest'
    BY <1>1, <1>10, <2>2, <2>3, <2>4 DEF Classify
  <2> QED BY <1>7, <2>1, <2>5 DEF JournalInv
<1>11. CASE Check(h)
  <2>0. r.phase = "check"
    BY <1>1, <1>11 DEF Check, At
  <2>1. UNCHANGED <<file, written>>
    BY <1>11 DEF Check, fileVars
  <2>2. ASSUME Becomes(h, [r EXCEPT !.phase = "write"]) PROVE ProgressOfRequest'
    <3>1. PICK q \in Request : q = [r EXCEPT !.phase = "write"]
      BY RequestType DEF Phase
    <3>2. q.phase = "write" /\ q.action = r.action /\ q.at = r.at /\ EffectOf(q) = EffectOf(r)
      BY <3>1, SameEffect DEF Request, Phase
    <3>3. Progress(q)'
      BY <1>2, <2>0, <2>1, <3>2 DEF Progress, Passed, EffectOf
    <3> QED BY <1>8, <2>2, <3>1, <3>3
  <2>3. ProgressOfRequest'
    BY <1>1, <1>9, <1>11, <2>2 DEF Check
  <2> QED BY <1>7, <2>1, <2>3 DEF JournalInv
<1>12. CASE Write(h)
  <2>0. r.phase = "write"
    BY <1>1, <1>12 DEF Write, At
  <2>1. CASE /\ file' = [file EXCEPT ![PathOf(r)] = Target(r.action)]
             /\ written' = written \cup {EffectOf(r)}
             /\ Becomes(h, Forward(r))
    <3>1. \A p \in Paths : file'[p] = IF p = PathOf(r) THEN Target(r.action) ELSE file[p]
      BY <2>1 DEF TypeOK
    <3>2. WrittenAndJournal'
      BY <1>3, <1>5, <2>1 DEF JournalInv, WrittenAndJournal
    <3>3. ContentHasCause'
      <4>1. ASSUME NEW p \in Paths, file'[p] = "planned"
            PROVE  \E s \in Sets : <<s, "apply">> \in written'
        <5>1. CASE file[p] = "planned"
          BY <2>1, <5>1 DEF JournalInv, ContentHasCause
        <5>2. CASE file[p] # "planned"
          <6>1. r.action = "apply"
            BY <3>1, <4>1, <5>2 DEF Target
          <6> QED BY <1>4, <2>1, <6>1
        <5> QED BY <5>1, <5>2
      <4>2. ASSUME NEW s \in Sets, effect'[<<s, "apply">>] = "committed",
                   <<s, "revert">> \notin written', NEW p \in Paths
            PROVE  file'[p] # "original"
        <5>1. effect[<<s, "apply">>] = "committed" /\ <<s, "revert">> \notin written
          BY <1>3, <2>1, <4>2
        <5>2. s = r.set /\ r.action = "revert"
          BY <1>4, <1>6, <5>1
        <5> QED BY <1>4, <2>1, <4>2, <5>2
      <4> QED BY <4>1, <4>2 DEF ContentHasCause
    <3>4. PICK q \in Request : q = Forward(r)
      BY RequestType
    <3>5. q.action = r.action /\ EffectOf(q) = EffectOf(r) /\ EffectOf(q) \in written'
      BY <2>1, <3>4, SameEffect DEF Forward, Request
    <3>6. r.action = "apply" => \A p \in Paths : p <= r.at => file'[p] # "original"
      <4> SUFFICES ASSUME r.action = "apply", NEW p \in Paths, p <= r.at PROVE file'[p] # "original"
        OBVIOUS
      <4>1. PathOf(r) = r.at
        BY DEF PathOf
      <4>2. CASE p = r.at
        BY <3>1, <4>1, <4>2 DEF Target
      <4>3. CASE p # r.at
        <5>1. p < r.at
          BY <1>4, <4>3 DEF Paths
        <5> QED BY <1>2, <2>0, <3>1, <4>1, <4>3, <5>1 DEF Progress, Passed
      <4> QED BY <4>2, <4>3
    <3>7. CASE r.at = Len(Plan)
      <4>1. q.phase = "finalize"
        BY <3>4, <3>7 DEF Forward, Request
      <4>2. Progress(q)'
        BY <3>5, <3>6, <3>7, <4>1 DEF Progress, EffectOf, Paths
      <4> QED BY <1>8, <2>1, <3>2, <3>3, <3>4, <4>2 DEF JournalInv
    <3>8. CASE r.at # Len(Plan)
      <4>1. q.phase = "check" /\ q.at = r.at + 1
        BY <3>4, <3>8 DEF Forward, Request
      <4>2. \A p \in Paths : p < q.at => p <= r.at
        BY <1>4, <4>1 DEF Paths
      <4>3. Progress(q)'
        BY <3>5, <3>6, <4>1, <4>2 DEF Progress, Passed, EffectOf
      <4> QED BY <1>8, <2>1, <3>2, <3>3, <3>4, <4>3 DEF JournalInv
    <3> QED BY <3>7, <3>8
  <2>2. CASE UNCHANGED <<file, written>> /\ Becomes(h, Back(r))
    BY <1>7, <1>9, <2>2 DEF JournalInv
  <2> QED BY <1>1, <1>4, <1>12, <2>1, <2>2 DEF Write
<1>13. CASE Uncheck(h)
  <2>0. r.phase = "uncheck"
    BY <1>1, <1>13 DEF Uncheck, At
  <2>1. UNCHANGED <<file, written>>
    BY <1>13 DEF Uncheck, fileVars
  <2>2. ASSUME Becomes(h, [r EXCEPT !.phase = "unwrite"]) PROVE ProgressOfRequest'
    <3>1. PICK q \in Request : q = [r EXCEPT !.phase = "unwrite"]
      BY RequestType DEF Phase
    <3>2. q.phase = "unwrite"
      BY <3>1 DEF Request
    <3> QED BY <1>8, <2>2, <3>1, <3>2, NoClaim
  <2>3. ProgressOfRequest'
    BY <1>1, <1>9, <1>13, <2>2 DEF Uncheck
  <2> QED BY <1>7, <2>1, <2>3 DEF JournalInv
<1>14. CASE Unwrite(h)
  <2>1. ProgressOfRequest'
    BY <1>1, <1>9, <1>14 DEF Unwrite
  <2>2. written' = written
    BY <1>14 DEF Unwrite
  <2>3. CASE UNCHANGED file
    BY <1>7, <2>1, <2>2, <2>3 DEF JournalInv
  <2>4. CASE file' = [file EXCEPT ![PathOf(r)] = Source(r.action)]
    <3>1. \A p \in Paths : file'[p] = IF p = PathOf(r) THEN Source(r.action) ELSE file[p]
      BY <2>4 DEF TypeOK
    <3>2. WrittenAndJournal'
      BY <1>3, <2>2 DEF JournalInv, WrittenAndJournal
    <3>3. CASE r.action = "apply"
      <4>1. \A p \in Paths : file'[p] = "planned" => file[p] = "planned"
        BY <3>1, <3>3 DEF Source
      <4>2. ContentHasCause'
        BY <1>3, <1>6, <2>2, <3>3, <4>1 DEF JournalInv, ContentHasCause
      <4> QED BY <2>1, <3>2, <4>2 DEF JournalInv
    <3>4. CASE r.action = "revert"
      <4>1. \A p \in Paths : file'[p] = "original" => file[p] = "original"
        BY <3>1, <3>4 DEF Source
      <4>2. <<r.set, "apply">> \in written
        BY <1>4, <1>6, <3>4 DEF JournalInv, WrittenAndJournal, Effects, Action
      <4>3. ContentHasCause'
        BY <1>3, <1>4, <2>2, <4>1, <4>2 DEF JournalInv, ContentHasCause
      <4> QED BY <2>1, <3>2, <4>3 DEF JournalInv
    <3> QED BY <1>4, <3>3, <3>4
  <2> QED BY <1>1, <1>14, <2>3, <2>4 DEF Unwrite
<1> QED BY <1>10, <1>11, <1>12, <1>13, <1>14

(* A request that is about to finalize has written its effect. *)
LEMMA ReceiptIsEarned ==
  ASSUME TypeOK, JournalInv, NEW h \in Handlers, Finalize(h)
  PROVE  EffectOf(handler[h]) \in written
BY NoneAssumption DEF Finalize, At, JournalInv, ProgressOfRequest, Progress

(* A closing transaction settles one open effect. *)
LEMMA CloseSettles ==
  ASSUME TypeOK, JournalInv, NEW h \in Handlers, Fail(h) \/ Finalize(h)
  PROVE  \E e \in Effects, verdict \in {"failed", "outcome_unknown", "committed"} :
           /\ effect' = [effect EXCEPT ![e] = verdict]
           /\ EffectResolve(effect[e], verdict)
           /\ verdict = "committed" => e \in written
           /\ verdict = "committed" /\ e[2] = "apply" => \A p \in Paths : file[p] # "original"
<1>1. PICK r \in Request : handler[h] = r
  BY DEF Fail, Finalize, At, TypeOK
<1>2. EffectOf(r) \in Effects /\ EffectOf(r) = <<r.set, r.action>> /\ EffectOf(r)[2] = r.action
  BY DEF EffectOf, Request, Effects
<1>3. CASE Fail(h)
  <2>1. r.verdict \in {"failed", "outcome_unknown"}
    BY DEF Request
  <2>2. effect' = [effect EXCEPT ![EffectOf(r)] = r.verdict] /\ EffectResolve(effect[EffectOf(r)], r.verdict)
    BY <1>1, <1>2, <1>3 DEF Fail, Settle, Resolves
  <2> QED BY <1>2, <2>1, <2>2
<1>4. CASE Finalize(h)
  <2>1. /\ effect' = [effect EXCEPT ![EffectOf(r)] = "committed"]
        /\ EffectResolve(effect[EffectOf(r)], "committed")
        /\ r.phase = "finalize"
    BY <1>1, <1>2, <1>4 DEF Finalize, Settle, Resolves, At
  <2>2. EffectOf(r) \in written
    BY <1>1, <1>4, ReceiptIsEarned
  <2>3. r.action = "apply" => \A p \in Paths : file[p] # "original"
    BY <1>1, <2>1, NoneAssumption DEF JournalInv, ProgressOfRequest, Progress
  <2> QED BY <1>2, <2>1, <2>2, <2>3
<1> QED BY <1>3, <1>4

LEMMA JournalInvStep ==
  ASSUME OneAtATime, TypeOK, SetEffectAgree, OneSetPerApproval, TreeInv, JournalInv, [Next]_vars
  PROVE  JournalInv'
<1>1. ASSUME UNCHANGED <<effect, file, written, handler>> PROVE JournalInv'
  BY <1>1 DEF JournalInv, WrittenAndJournal, ProgressOfRequest, Progress, Passed, EffectOf,
              ContentHasCause
<1>2. CASE UNCHANGED vars \/ RunMoves \/ Approve \/ Reject \/ \E l \in Leases : LeaseExpires(l)
  BY <1>1, <1>2 DEF vars, setVars, fileVars, RunMoves, Approve, Reject, LeaseExpires
<1>3. CASE Boot \/ DiagnosticsScan \/ \E s \in Sets, l \in Leases : Preview(s, l)
  BY <1>1, <1>3 DEF setVars, fileVars, Boot, DiagnosticsScan, RecoveryScan, Preview
<1>4. CASE Reconcile
  <2>1. /\ UNCHANGED <<file, written, handler>>
        /\ \A e \in Effects : effect'[e] = IF effect[e] = "prepared" THEN "outcome_unknown" ELSE effect[e]
    BY <1>4 DEF Reconcile, fileVars
  <2>2. \A s \in Sets : <<s, "apply">> \in Effects
    BY DEF Effects, Action
  <2>3. WrittenAndJournal'
    BY <2>1 DEF JournalInv, WrittenAndJournal
  <2>4. ContentHasCause'
    BY <2>1, <2>2 DEF JournalInv, ContentHasCause
  <2>5. ProgressOfRequest'
    BY <2>1 DEF JournalInv, ProgressOfRequest, Progress, Passed, EffectOf
  <2> QED BY <2>3, <2>4, <2>5 DEF JournalInv
<1>5. ASSUME NEW h \in Handlers, NEW s \in Sets, NEW a \in Action, NEW l \in Leases,
             Prepare(h, s, a, l) \/ Retry(h, s, a, l)
      PROVE  JournalInv'
  <2>1. PICK q \in Request : /\ handler' = [handler EXCEPT ![h] = q]
                             /\ q.at = 1
                             /\ q.phase \in {"check", "classify"}
    <3> DEFINE q(phase) == [set |-> s, action |-> a, phase |-> phase, at |-> 1, verdict |-> "failed"]
    <3>1. q("check") \in Request /\ q("classify") \in Request
      BY PlanLength DEF Request, Phase, Paths
    <3> QED BY <1>5, <3>1 DEF Prepare, Retry, Begin
  <2>2. Progress(q)'
    BY <2>1, PlanLength DEF Progress, Passed, Paths
  <2>3. ProgressOfRequest'
    BY <2>1, <2>2, ProgressGoesOn
  <2>4. UNCHANGED <<file, written>>
    BY <1>5 DEF Prepare, Retry, fileVars
  <2>5. \A e \in Effects : effect'[e] = effect[e] \/ (effect[e] = "none" /\ effect'[e] = "prepared")
    BY <1>5 DEF Prepare, Retry, setVars, TypeOK
  <2>6. WrittenAndJournal'
    BY <2>4, <2>5 DEF JournalInv, WrittenAndJournal
  <2>7. \A t \in Sets : effect'[<<t, "apply">>] = "committed" => effect[<<t, "apply">>] = "committed"
    BY <2>5 DEF Effects, Action
  <2>8. ContentHasCause'
    BY <2>4, <2>7 DEF JournalInv, ContentHasCause
  <2> QED BY <2>3, <2>6, <2>8 DEF JournalInv
<1>6. ASSUME NEW h \in Handlers, Fail(h) \/ Finalize(h) PROVE JournalInv'
  <2>1. PICK e \in Effects, verdict \in {"failed", "outcome_unknown", "committed"} :
           /\ effect' = [effect EXCEPT ![e] = verdict]
           /\ EffectResolve(effect[e], verdict)
           /\ verdict = "committed" => e \in written
           /\ verdict = "committed" /\ e[2] = "apply" => \A p \in Paths : file[p] # "original"
    BY <1>6, CloseSettles
  <2>2. UNCHANGED <<file, written>>
    BY <1>6 DEF Fail, Finalize, fileVars
  <2>3. \A f \in Effects : effect'[f] = IF f = e THEN verdict ELSE effect[f]
    BY <2>1 DEF TypeOK
  <2>4. WrittenAndJournal'
    BY <2>1, <2>2, <2>3 DEF JournalInv, WrittenAndJournal
  <2>5. ContentHasCause'
    <3>1. ASSUME NEW s \in Sets, effect'[<<s, "apply">>] = "committed", <<s, "revert">> \notin written,
                 NEW p \in Paths
          PROVE  file[p] # "original"
      <4>1. <<s, "apply">> \in Effects
        BY DEF Effects, Action
      <4>2. CASE e = <<s, "apply">>
        BY <2>1, <2>3, <3>1, <4>1, <4>2
      <4>3. CASE e # <<s, "apply">>
        BY <2>3, <3>1, <4>1, <4>3 DEF JournalInv, ContentHasCause
      <4> QED BY <4>2, <4>3
    <3> QED BY <2>2, <3>1 DEF JournalInv, ContentHasCause
  <2>6. ProgressOfRequest'
    <3>1. \A g \in Handlers : handler'[g] = None
      BY <1>6 DEF OneAtATime, Fail, Finalize, Closes, TypeOK
    <3> QED BY <3>1 DEF ProgressOfRequest
  <2> QED BY <2>4, <2>5, <2>6 DEF JournalInv
<1>7. CASE Crash \/ \E h \in Handlers : Abandon(h)
  <2>1. UNCHANGED <<effect, file, written>>
    BY <1>7 DEF Crash, Abandon, setVars, fileVars
  <2>2. \A g \in Handlers : handler'[g] = None
    BY <1>7 DEF Crash, Abandon, Closes, OneAtATime, TypeOK
  <2> QED BY <2>1, <2>2 DEF JournalInv, WrittenAndJournal, ProgressOfRequest, ContentHasCause
<1>8. ASSUME NEW p \in Paths, Outsider(p) PROVE JournalInv'
  <2>1. /\ UNCHANGED <<effect, written, handler>>
        /\ \A q \in Paths : file'[q] = file[q] \/ file'[q] = "foreign"
    BY <1>8 DEF Outsider, setVars, TypeOK
  <2>2. WrittenAndJournal' /\ ContentHasCause'
    BY <2>1 DEF JournalInv, WrittenAndJournal, ContentHasCause
  <2>3. ProgressOfRequest'
    BY <2>1 DEF JournalInv, ProgressOfRequest, Progress, Passed, EffectOf
  <2> QED BY <2>2, <2>3 DEF JournalInv
<1> QED
  BY <1>2, <1>3, <1>4, <1>5, <1>6, <1>7, <1>8, StepCases, FilePhaseJournal

(* A request that finds its work done did it, whatever crashed in between. *)
THEOREM JournalInvariance ==
  ASSUME OneAtATime
  PROVE  Spec => []JournalInv
<1>1. Init => JournalInv
  <2> SUFFICES ASSUME Init PROVE JournalInv
    OBVIOUS
  <2>1. \A e \in Effects : effect[e] = "none" /\ e \notin written
    BY DEF Init
  <2>2. WrittenAndJournal
    BY <2>1 DEF WrittenAndJournal
  <2>3. ProgressOfRequest
    BY DEF Init, ProgressOfRequest
  <2>4. \A p \in Paths : file[p] = "original"
    BY DEF Init
  <2>5. \A s \in Sets : effect[<<s, "apply">>] = "none"
    BY <2>1 DEF Effects, Action
  <2>6. ContentHasCause
    BY <2>4, <2>5 DEF ContentHasCause
  <2> QED BY <2>2, <2>3, <2>6 DEF JournalInv
<1>2. /\ TypeOK /\ SetEffectAgree /\ OneSetPerApproval /\ TreeInv /\ JournalInv /\ [Next]_vars
      => JournalInv'
  BY JournalInvStep
<1> QED BY <1>1, <1>2, TypeCorrect, SetsAndJournalAgree, TreeInvariance, PTL DEF Spec

(* A transaction that moves every effect of S along the journal's machine  *)
(* is a step of the abstract specification.                                *)
LEMMA SettleStep ==
  ASSUME TypeOK', NEW S \in SUBSET Effects, written' = written,
         \A e \in S : /\ EffectResolve(effect[e], effect'[e])
                      /\ effect'[e] = "committed" => e \in written,
         \A e \in Effects \ S : effect'[e] = effect[e]
  PROVE  [Journal!Next]_Journal!effectVars
BY DEF Journal!Next, Journal!Settle, Journal!effectVars, Journal!EffectResolve, Journal!EffectStatus,
       Journal!EffectTerminal, EffectStatus, EffectTerminal, EffectResolve, TypeOK

(* Every step is a step of the journal or a stutter. *)
LEMMA JournalStep ==
  ASSUME TypeOK, TypeOK', TreeInv, JournalInv, [Next]_vars
  PROVE  [Journal!Next]_Journal!effectVars
<1>1. ASSUME UNCHANGED <<effect, written>> PROVE [Journal!Next]_Journal!effectVars
  BY <1>1 DEF Journal!effectVars
<1>2. CASE \/ UNCHANGED vars \/ RunMoves \/ Approve \/ Reject \/ \E l \in Leases : LeaseExpires(l)
           \/ \E s \in Sets, l \in Leases : Preview(s, l)
           \/ \E h \in Handlers : \E s \in Sets, a \in Action, l \in Leases : Retry(h, s, a, l)
  BY <1>1, <1>2 DEF vars, setVars, fileVars, RunMoves, Approve, Reject, LeaseExpires, Preview, Retry
<1>3. CASE \/ \E h \in Handlers : Classify(h) \/ Check(h) \/ Uncheck(h) \/ Unwrite(h) \/ Abandon(h)
           \/ Crash \/ Boot \/ DiagnosticsScan \/ \E p \in Paths : Outsider(p)
  BY <1>1, <1>3 DEF setVars, fileVars, Classify, Check, Uncheck, Unwrite, Abandon, Crash, Boot,
                    DiagnosticsScan, RecoveryScan, Outsider
<1>4. CASE Reconcile
  <2> DEFINE S == {e \in Effects : effect[e] = "prepared"}
  <2>1. /\ written' = written
        /\ S \in SUBSET Effects
        /\ \A e \in S : EffectResolve(effect[e], effect'[e]) /\ effect'[e] # "committed"
        /\ \A e \in Effects \ S : effect'[e] = effect[e]
    BY <1>4 DEF Reconcile, EffectResolve, fileVars
  <2> QED BY <2>1, SettleStep
<1>5. ASSUME NEW h \in Handlers, NEW s \in Sets, NEW a \in Action, NEW l \in Leases,
             Prepare(h, s, a, l)
      PROVE  [Journal!Next]_Journal!effectVars
  <2>1. <<s, a>> \in Effects
    BY DEF Effects
  <2>2. Journal!Prepare(<<s, a>>)
    BY <1>5 DEF Prepare, fileVars, Journal!Prepare
  <2> QED BY <2>1, <2>2 DEF Journal!Next
<1>6. ASSUME NEW h \in Handlers, Write(h) PROVE [Journal!Next]_Journal!effectVars
  <2>1. PICK r \in Request : handler[h] = r /\ r # None
    BY <1>6 DEF Write, At, TypeOK
  <2>2. UNCHANGED effect
    BY <1>6 DEF Write, setVars
  <2>3. CASE written' = written \cup {EffectOf(r)}
    <3>1. EffectOf(r) \in Effects
      BY DEF EffectOf, Effects, Request
    <3>2. effect[EffectOf(r)] \in {"prepared", "outcome_unknown"}
      BY <2>1 DEF TreeInv, RequestOwns, Owns
    <3>3. Journal!Act(EffectOf(r))
      BY <2>2, <2>3, <3>2 DEF Journal!Act
    <3> QED BY <3>1, <3>3 DEF Journal!Next
  <2>4. CASE written' = written
    BY <1>1, <2>2, <2>4
  <2> QED BY <1>6, <2>1, <2>3, <2>4 DEF Write, EffectOf
<1>7. ASSUME NEW h \in Handlers, Fail(h) \/ Finalize(h) PROVE [Journal!Next]_Journal!effectVars
  <2>1. PICK e \in Effects, verdict \in {"failed", "outcome_unknown", "committed"} :
           /\ effect' = [effect EXCEPT ![e] = verdict]
           /\ EffectResolve(effect[e], verdict)
           /\ verdict = "committed" => e \in written
    BY <1>7, CloseSettles
  <2>2. written' = written
    BY <1>7 DEF Fail, Finalize, fileVars
  <2>3. \A f \in Effects : effect'[f] = IF f = e THEN verdict ELSE effect[f]
    BY <2>1 DEF TypeOK
  <2>4. /\ {e} \in SUBSET Effects
        /\ \A f \in {e} : EffectResolve(effect[f], effect'[f]) /\ (effect'[f] = "committed" => f \in written)
        /\ \A f \in Effects \ {e} : effect'[f] = effect[f]
    BY <2>1, <2>3
  <2> QED BY <2>2, <2>4, SettleStep
<1> QED BY <1>2, <1>3, <1>4, <1>5, <1>6, <1>7, StepCases

(* Applying and reverting implement write-ahead effects: the intent is     *)
(* durable before the first write, and a receipt is written only for an    *)
(* effect that was.                                                        *)
THEOREM ChangeSetsImplementJournal ==
  ASSUME OneAtATime
  PROVE  Spec => ImplementsJournal
<1>1. Init => Journal!Init
  BY DEF Init, Journal!Init
<1>2. TypeOK /\ TypeOK' /\ TreeInv /\ JournalInv /\ [Next]_vars => [Journal!Next]_Journal!effectVars
  BY JournalStep
<1> QED
  BY <1>1, <1>2, TypeCorrect, TreeInvariance, JournalInvariance, PTL
  DEF Spec, ImplementsJournal, Journal!Spec

=============================================================================

------------------------ MODULE ExecutionBudgetProofs ------------------------
(***************************************************************************)
(* Proofs about ExecutionBudget, for every finite set of calls, every      *)
(* accounting scope and every policy.                                      *)
(*                                                                         *)
(* The first half is about who owns a row.  The second half counts: what   *)
(* the ledger is liable for is a number of tokens per call, a sum of such  *)
(* numbers is the size of a set of pairs, and a step changes the number of *)
(* the one call it is about.                                               *)
(***************************************************************************)
EXTENDS ExecutionBudget, FiniteSetTheorems, TLAPS

(* A call that has not been sent has a row nobody has settled. *)
UnsentIsBlank ==
  \A c \in Calls :
    phase[c] \in {"idle", "refused", "retry", "admitted"} =>
      ~ row[c].dispatched /\ row[c].receipt = "none" /\ row[c].revision = 0

(* A call that has been sent was marked dispatched. *)
SentIsDispatched == \A c \in Calls : phase[c] = "sent" => row[c].dispatched

(* An open reservation has no receipt yet, so that no receipt is stale. *)
OpenIsBlank ==
  \A c \in Calls :
    row[c].status = "reserved" => row[c].receipt = "none" /\ row[c].revision = 0

(* Task recovery only ever settles what was dispatched. *)
RecoveredIsDispatched == \A c \in isolating \cup late : row[c].dispatched

(* Without task recovery only the owner of a call charges it, as it ends. *)
ChargedIsDone ==
  \A c \in Calls \ WriteCalls : row[c].status = "committed" => phase[c] = "done"

IInv ==
  /\ TypeOK
  /\ ReservedHasOwner
  /\ UnsentIsBlank
  /\ SentIsDispatched
  /\ OpenIsBlank
  /\ RecoveredIsDispatched
  /\ ChargedIsDone

(* Every step is one of these. *)
LEMMA StepCases ==
  ASSUME Next
  PROVE  \/ \E c \in Calls : AdmitCall(c)
         \/ \E c \in Calls : Refuse(c)
         \/ \E c \in Calls : SweepTask(c)
         \/ \E c \in Calls : GiveUp(c)
         \/ \E c \in Calls : MarkDispatched(c)
         \/ \E c \in Calls : Settle(c)
         \/ \E c \in Calls : SettleLost(c)
         \/ \E c \in Calls : ResumeUnknown(c)
         \/ \E c \in Calls : Isolate(c)
         \/ \E c \in Calls : ReceiveLate(c)
         \/ \E c \in Calls : SettleLate(c)
         \/ Restart
BY DEF Next, AdapterStep, RecoveryStep

(* The fields of a row and their types. *)
RowType ==
  [status: RowStatus, dispatched: BOOLEAN, settled: Tokens, receipt: Receipt, revision: 0 .. 2]

(* The larger of two usages is a usage. *)
LEMMA ReportedType ==
  ASSUME NEW known \in Tokens, NEW usage \in Tokens
  PROVE  Reported(known, usage) \in Tokens
BY DEF Reported, Tokens

(* What a settlement does to the row of its call: nothing when its receipt *)
(* is stale, and otherwise it closes the row; other rows stay.             *)
LEMMA SettleCallRow ==
  ASSUME TypeOK, NEW c \in Calls,
         NEW receipt \in Receipt, NEW revision \in 0 .. 2,
         NEW integrity \in {"reported", "unknown"}, NEW usage \in Tokens,
         SettleCall(c, [receipt |-> receipt, revision |-> revision,
                        integrity |-> integrity, usage |-> usage])
  PROVE  /\ row' \in [Calls -> RowType]
         /\ \A d \in Calls : d # c => row'[d] = row[d]
         /\ \/ /\ row' = row
               /\ revision < row[c].revision \/ receipt = row[c].receipt
            \/ row'[c].status \in {"committed", "isolated"} /\ row'[c].dispatched
<1> DEFINE m == [receipt |-> receipt, revision |-> revision,
                 integrity |-> integrity, usage |-> usage]
           settled == IF integrity = "reported" THEN Reported(row[c].settled, usage) ELSE usage
           new == [status |-> StatusOf(integrity), dispatched |-> TRUE, settled |-> settled,
                   receipt |-> receipt, revision |-> revision]
<1>1. row \in [Calls -> RowType]
  BY DEF TypeOK, RowType
<1>2. /\ settled \in Tokens
      /\ StatusOf(integrity) \in {"committed", "isolated"}
  BY <1>1, ReportedType DEF RowType, StatusOf
<1>3. new \in RowType
  BY <1>2 DEF RowType, RowStatus
<1>4. \/ row' = row /\ (revision < row[c].revision \/ receipt = row[c].receipt)
      \/ row' = [row EXCEPT ![c] = new]
  BY DEF SettleCall
<1>5. CASE row' = row /\ (revision < row[c].revision \/ receipt = row[c].receipt)
  BY <1>1, <1>5
<1>6. CASE row' = [row EXCEPT ![c] = new]
  <2>1. row'[c] = new /\ \A d \in Calls : d # c => row'[d] = row[d]
    BY <1>1, <1>6
  <2>2. row' \in [Calls -> RowType]
    BY <1>1, <1>3, <1>6
  <2> QED
    BY <2>1, <2>2, <1>2
<1> QED
  BY <1>4, <1>5, <1>6

(* A release closes open rows and touches nothing else of any row. *)
LEMMA ReleaseRow ==
  ASSUME TypeOK, Release(Swept)
  PROVE  /\ row' \in [Calls -> RowType]
         /\ \A d \in Calls :
              /\ row[d].status \in {"reserved", "isolated"} =>
                   /\ row'[d] = [row[d] EXCEPT !.status = "released"]
                   /\ row[d].dispatched => d \in freed'
              /\ row[d].status \notin {"reserved", "isolated"} => row'[d] = row[d]
         /\ freed \subseteq freed' /\ freed' \subseteq Calls
BY DEF Release, Swept, InStatus, SweepStatuses, TypeOK, RowType, RowStatus

(* The initial states satisfy the invariant. *)
LEMMA InitInv == Init => IInv
BY DEF Init, IInv, TypeOK, ReservedHasOwner, UnsentIsBlank, SentIsDispatched, OpenIsBlank,
       RecoveredIsDispatched, ChargedIsDone, NoRow, NoTokens, Phase, RowStatus, Receipt, Tokens
(* Every step preserves the invariant.  A settlement is used through       *)
(* SettleCallRow and a sweep through ReleaseRow.                           *)
LEMMA NextInv == IInv /\ [Next]_vars => IInv'
<1> SUFFICES ASSUME IInv, [Next]_vars PROVE IInv'
  OBVIOUS
<1> USE DEF IInv
<1>0. row \in [Calls -> RowType] /\ phase \in [Calls -> Phase]
  BY DEF TypeOK, RowType
<1>1. CASE UNCHANGED vars
  BY <1>1 DEF vars, TypeOK, ReservedHasOwner, UnsentIsBlank, SentIsDispatched, OpenIsBlank,
              RecoveredIsDispatched, ChargedIsDone
<1>2. ASSUME NEW c \in Calls, AdmitCall(c) PROVE IInv'
  <2>1. TypeOK'
    BY <1>2 DEF AdmitCall, TypeOK, Phase, RowStatus
  <2>2. ReservedHasOwner' /\ UnsentIsBlank' /\ SentIsDispatched'
    BY <1>0, <1>2 DEF AdmitCall, ReservedHasOwner, UnsentIsBlank, SentIsDispatched, RowType
  <2>3. OpenIsBlank' /\ RecoveredIsDispatched' /\ ChargedIsDone'
    BY <1>0, <1>2 DEF AdmitCall, UnsentIsBlank, OpenIsBlank, RecoveredIsDispatched,
                      ChargedIsDone, TypeOK, RowType
  <2> QED
    BY <2>1, <2>2, <2>3
<1>3. ASSUME NEW c \in Calls, Refuse(c) PROVE IInv'
  <2>1. TypeOK'
    BY <1>3 DEF Refuse, TypeOK, Phase
  <2>2. ReservedHasOwner' /\ UnsentIsBlank' /\ SentIsDispatched'
    BY <1>0, <1>3 DEF Refuse, ReservedHasOwner, UnsentIsBlank, SentIsDispatched
  <2>3. OpenIsBlank' /\ RecoveredIsDispatched' /\ ChargedIsDone'
    BY <1>0, <1>3 DEF Refuse, OpenIsBlank, RecoveredIsDispatched, ChargedIsDone
  <2> QED
    BY <2>1, <2>2, <2>3
<1>4. ASSUME NEW c \in Calls, SweepTask(c) PROVE IInv'
  <2>0. Release(Swept)
    BY <1>4 DEF SweepTask
  <2>1. TypeOK'
    BY <1>4, <2>0, ReleaseRow DEF SweepTask, TypeOK, Phase, RowType
  <2>2. \A d \in Calls :
          /\ row'[d].status # "reserved"
          /\ row'[d].dispatched = row[d].dispatched
          /\ row'[d].receipt = row[d].receipt /\ row'[d].revision = row[d].revision
          /\ row'[d].status = "committed" => row[d].status = "committed"
    BY <1>0, <2>0, ReleaseRow DEF RowType
  <2>3. \A d \in Calls : phase'[d] # phase[d] => phase[d] = "refused" /\ phase'[d] \in {"done", "retry"}
    BY <1>0, <1>4 DEF SweepTask
  <2>4. ReservedHasOwner'
    <3> SUFFICES ASSUME NEW d \in Calls, phase'[d] = "sent", row'[d].status = "released"
                 PROVE  d \in freed'
      BY <2>2 DEF ReservedHasOwner
    <3>1. phase[d] = "sent" /\ row[d].dispatched
      BY <2>3 DEF SentIsDispatched
    <3> QED
      BY <3>1, <2>0, ReleaseRow DEF ReservedHasOwner
  <2>5. UnsentIsBlank' /\ SentIsDispatched' /\ OpenIsBlank'
    BY <1>0, <2>2, <2>3 DEF UnsentIsBlank, SentIsDispatched, OpenIsBlank
  <2>6. RecoveredIsDispatched' /\ ChargedIsDone'
    <3>1. UNCHANGED <<isolating, late>> /\ isolating \cup late \subseteq Calls
      BY <1>4, BudgetAssumption DEF SweepTask, TypeOK
    <3>2. RecoveredIsDispatched'
      BY <2>2, <3>1 DEF RecoveredIsDispatched
    <3>3. ChargedIsDone'
      BY <2>2, <2>3 DEF ChargedIsDone
    <3> QED
      BY <3>2, <3>3
  <2> QED
    BY <2>1, <2>4, <2>5, <2>6
<1>5. ASSUME NEW c \in Calls, GiveUp(c) PROVE IInv'
  <2>1. TypeOK'
    BY <1>5 DEF GiveUp, TypeOK, Phase, RowStatus, InStatus
  <2>2. ReservedHasOwner' /\ UnsentIsBlank' /\ SentIsDispatched'
    BY <1>0, <1>5 DEF GiveUp, ReservedHasOwner, UnsentIsBlank, SentIsDispatched, InStatus, RowType
  <2>3. OpenIsBlank' /\ RecoveredIsDispatched' /\ ChargedIsDone'
    <3>1. UNCHANGED <<isolating, late>> /\ isolating \cup late \subseteq Calls
      BY <1>5, BudgetAssumption DEF GiveUp, TypeOK
    <3>2. RecoveredIsDispatched'
      BY <1>0, <1>5, <3>1 DEF GiveUp, RecoveredIsDispatched, RowType
    <3>3. OpenIsBlank' /\ ChargedIsDone'
      BY <1>0, <1>5 DEF GiveUp, OpenIsBlank, ChargedIsDone, RowType
    <3> QED
      BY <3>2, <3>3
  <2> QED
    BY <2>1, <2>2, <2>3
<1>6. ASSUME NEW c \in Calls, MarkDispatched(c) PROVE IInv'
  <2>1. TypeOK'
    BY <1>6 DEF MarkDispatched, TypeOK, Phase
  <2>2. ReservedHasOwner' /\ UnsentIsBlank' /\ SentIsDispatched'
    BY <1>0, <1>6 DEF MarkDispatched, ReservedHasOwner, UnsentIsBlank, SentIsDispatched, RowType
  <2>3. OpenIsBlank' /\ RecoveredIsDispatched' /\ ChargedIsDone'
    BY <1>0, <1>6 DEF MarkDispatched, OpenIsBlank, RecoveredIsDispatched, ChargedIsDone,
                      TypeOK, RowType
  <2> QED
    BY <2>1, <2>2, <2>3
<1>7. ASSUME NEW c \in Calls, Settle(c) PROVE IInv'
  <2>0. PICK u \in Tokens :
          SettleCall(c, [receipt |-> "own", revision |-> 1, integrity |-> "reported", usage |-> u])
    BY <1>7, BudgetAssumption DEF Settle, Seen
  <2>1. /\ row' \in [Calls -> RowType]
        /\ \A d \in Calls : d # c => row'[d] = row[d]
        /\ \/ row' = row /\ (1 < row[c].revision \/ "own" = row[c].receipt)
           \/ row'[c].status \in {"committed", "isolated"} /\ row'[c].dispatched
    BY <2>0, SettleCallRow DEF Receipt
  <2>2. row'[c].status # "reserved" /\ row'[c].dispatched
    <3>1. row[c].dispatched
      BY <1>7 DEF Settle, SentIsDispatched
    <3>2. CASE row' = row /\ (1 < row[c].revision \/ "own" = row[c].receipt)
      BY <3>1, <3>2 DEF OpenIsBlank
    <3>3. CASE row'[c].status \in {"committed", "isolated"} /\ row'[c].dispatched
      BY <3>3
    <3> QED
      BY <2>1, <3>2, <3>3
  <2>3. /\ phase' = [phase EXCEPT ![c] = "done"]
        /\ UNCHANGED <<spent, isolating, late, freed, leaked, reopened>>
    BY <1>7 DEF Settle
  <2>4. TypeOK'
    BY <2>1, <2>3 DEF TypeOK, Phase, RowType
  <2>5. ReservedHasOwner' /\ UnsentIsBlank' /\ SentIsDispatched'
    BY <1>0, <2>1, <2>2, <2>3 DEF ReservedHasOwner, UnsentIsBlank, SentIsDispatched
  <2>6. OpenIsBlank' /\ RecoveredIsDispatched' /\ ChargedIsDone'
    <3>1. UNCHANGED <<isolating, late>> /\ isolating \cup late \subseteq Calls
      BY <2>3, BudgetAssumption DEF TypeOK
    <3>2. RecoveredIsDispatched'
      BY <2>1, <2>2, <3>1 DEF RecoveredIsDispatched
    <3>3. OpenIsBlank' /\ ChargedIsDone'
      BY <1>0, <2>1, <2>2, <2>3 DEF OpenIsBlank, ChargedIsDone
    <3> QED
      BY <3>2, <3>3
  <2> QED
    BY <2>4, <2>5, <2>6
<1>8. ASSUME NEW c \in Calls, SettleLost(c) PROVE IInv'
  <2>1. TypeOK'
    BY <1>8 DEF SettleLost, TypeOK, Phase
  <2>2. ReservedHasOwner' /\ UnsentIsBlank' /\ SentIsDispatched'
    BY <1>0, <1>8 DEF SettleLost, ReservedHasOwner, UnsentIsBlank, SentIsDispatched
  <2>3. OpenIsBlank' /\ RecoveredIsDispatched' /\ ChargedIsDone'
    BY <1>0, <1>8 DEF SettleLost, OpenIsBlank, RecoveredIsDispatched, ChargedIsDone
  <2> QED
    BY <2>1, <2>2, <2>3
<1>9. ASSUME NEW c \in Calls, ResumeUnknown(c) \/ ReceiveLate(c) PROVE IInv'
  BY <1>0, <1>9 DEF ResumeUnknown, ReceiveLate, TypeOK, ReservedHasOwner, UnsentIsBlank,
                    SentIsDispatched, OpenIsBlank, RecoveredIsDispatched, ChargedIsDone
<1>10. ASSUME NEW c \in Calls, Isolate(c) \/ SettleLate(c) PROVE IInv'
  <2>0. c \in WriteCalls /\ row[c].dispatched
    BY <1>10 DEF Isolate, SettleLate, TypeOK, RecoveredIsDispatched
  <2>1. PICK receipt \in {"isolate", "late"}, revision \in 1 .. 2,
             integrity \in {"reported", "unknown"}, usage \in Tokens :
          SettleCall(c, [receipt |-> receipt, revision |-> revision,
                         integrity |-> integrity, usage |-> usage])
    <3>1. NoTokens \in Tokens /\ spent[c] \in Tokens
      BY BudgetAssumption DEF TypeOK, NoTokens, Tokens
    <3> QED
      BY <1>10, <3>1 DEF Isolate, SettleLate
  <2>2. /\ row' \in [Calls -> RowType]
        /\ \A d \in Calls : d # c => row'[d] = row[d]
        /\ \/ row' = row
           \/ row'[c].status \in {"committed", "isolated"} /\ row'[c].dispatched
    BY <2>1, SettleCallRow DEF Receipt
  <2>3. /\ isolating' \subseteq isolating /\ late' \subseteq late
        /\ reopened' \subseteq reopened \cup {c}
        /\ UNCHANGED <<phase, spent, freed, leaked>>
    BY <1>10 DEF Isolate, SettleLate, Overtaken
  <2>4. TypeOK'
    BY <2>0, <2>2, <2>3 DEF TypeOK, RowType
  <2>5. phase[c] \notin {"idle", "refused", "retry", "admitted"}
    BY <2>0 DEF UnsentIsBlank
  <2>6. ReservedHasOwner' /\ UnsentIsBlank' /\ SentIsDispatched'
    BY <1>0, <2>2, <2>3, <2>5 DEF ReservedHasOwner, UnsentIsBlank, SentIsDispatched
  <2>7. OpenIsBlank' /\ RecoveredIsDispatched' /\ ChargedIsDone'
    <3>1. isolating \cup late \subseteq Calls
      BY BudgetAssumption DEF TypeOK
    <3>2. RecoveredIsDispatched'
      BY <2>0, <2>2, <2>3, <3>1 DEF RecoveredIsDispatched
    <3>3. OpenIsBlank' /\ ChargedIsDone'
      BY <1>0, <2>0, <2>2, <2>3 DEF OpenIsBlank, ChargedIsDone
    <3> QED
      BY <3>2, <3>3
  <2> QED
    BY <2>4, <2>6, <2>7
<1>11. CASE Restart
  <2>0. Release(Swept)
    BY <1>11 DEF Restart
  <2>1. TypeOK'
    BY <1>11, <2>0, ReleaseRow DEF Restart, TypeOK, Phase, RowType
  <2>2. \A d \in Calls :
          /\ row'[d].status # "reserved"
          /\ row'[d].dispatched = row[d].dispatched
          /\ row'[d].receipt = row[d].receipt /\ row'[d].revision = row[d].revision
          /\ row'[d].status = "committed" => row[d].status = "committed"
    BY <1>0, <2>0, ReleaseRow DEF RowType
  <2>3. \A d \in Calls :
          /\ phase'[d] \in {"idle", "done"}
          /\ phase'[d] = "idle" => phase[d] = "idle"
          /\ phase[d] = "done" => phase'[d] = "done"
    BY <1>0, <1>11 DEF Restart
  <2>4. ReservedHasOwner' /\ UnsentIsBlank' /\ SentIsDispatched' /\ OpenIsBlank'
    BY <2>2, <2>3 DEF ReservedHasOwner, UnsentIsBlank, SentIsDispatched, OpenIsBlank
  <2>5. RecoveredIsDispatched' /\ ChargedIsDone'
    <3>1. RecoveredIsDispatched'
      BY <1>11 DEF Restart, RecoveredIsDispatched
    <3>2. ChargedIsDone'
      BY <2>2, <2>3 DEF ChargedIsDone
    <3> QED
      BY <3>1, <3>2
  <2> QED
    BY <2>1, <2>4, <2>5
<1> QED
  BY <1>1, <1>2, <1>3, <1>4, <1>5, <1>6, <1>7, <1>8, <1>9, <1>10, <1>11, StepCases

-----------------------------------------------------------------------------

(* The invariant holds of every reachable state. *)
THEOREM Invariance == Spec => []IInv
  BY InitInv, NextInv, PTL DEF Spec

(* Type correctness: the ledger and the adapter keep their types, also     *)
(* where settlements raise a usage to the larger of two reports.           *)
THEOREM TypeCorrect == Spec => []TypeOK
<1>1. IInv => TypeOK
  BY DEF IInv
<1> QED
  BY <1>1, Invariance, PTL

(* An open reservation has an owner or is known to be leaked, and nothing  *)
(* is with the provider whose reservation was released before it was sent. *)
THEOREM ReservationsAreOwned == Spec => []ReservedHasOwner
<1>1. IInv => ReservedHasOwner
  BY DEF IInv
<1> QED
  BY <1>1, Invariance, PTL

(* What a model call has been charged stays charged. *)
THEOREM ChargesAreFinal == Spec => ChargeStays
<1>1. IInv /\ [Next]_vars =>
        [\A c \in Calls \ WriteCalls : row[c].status = "committed" => row'[c] = row[c]]_vars
  <2> SUFFICES ASSUME IInv, Next, NEW d \in Calls \ WriteCalls, row[d].status = "committed"
               PROVE  row'[d] = row[d]
    BY DEF vars
  <2>0. /\ row \in [Calls -> RowType] /\ phase[d] = "done"
        /\ isolating \subseteq WriteCalls /\ late \subseteq WriteCalls /\ TypeOK
    BY DEF IInv, TypeOK, RowType, ChargedIsDone
  <2>1. ASSUME NEW c \in Calls, AdmitCall(c) \/ GiveUp(c) \/ MarkDispatched(c)
        PROVE  row'[d] = row[d]
    BY <2>0, <2>1 DEF AdmitCall, GiveUp, MarkDispatched
  <2>2. ASSUME NEW c \in Calls, Refuse(c) \/ SettleLost(c) \/ ResumeUnknown(c) \/ ReceiveLate(c)
        PROVE  row'[d] = row[d]
    BY <2>2 DEF Refuse, SettleLost, ResumeUnknown, ReceiveLate
  <2>3. ASSUME NEW c \in Calls, Settle(c) \/ Isolate(c) \/ SettleLate(c)
        PROVE  row'[d] = row[d]
    <3>1. c # d
      BY <2>0, <2>3 DEF Settle, Isolate, SettleLate
    <3>2. PICK m : SettleCall(c, m)
      BY <2>3 DEF Settle, Isolate, SettleLate
    <3> QED
      BY <2>0, <3>1, <3>2 DEF SettleCall
  <2>4. ASSUME Release(Swept) PROVE row'[d] = row[d]
    BY <2>0, <2>4, ReleaseRow
  <2>5. ASSUME NEW c \in Calls, SweepTask(c) PROVE row'[d] = row[d]
    BY <2>4, <2>5 DEF SweepTask
  <2>6. CASE Restart
    BY <2>4, <2>6 DEF Restart
  <2> QED
    BY <2>1, <2>2, <2>3, <2>5, <2>6, StepCases
<1> QED
  BY <1>1, Invariance, PTL DEF Spec, ChargeStays

-----------------------------------------------------------------------------
(***************************************************************************)
(* Sums.  Tokens are counted one by one: a call with n tokens is a column  *)
(* of n pairs, and a sum the cardinality of a pile of columns.             *)
(***************************************************************************)

Weights == [Calls -> Nat]

Pile(w) == {p \in Calls \X Nat : p[2] \in 1 .. w[p[1]]}

(* A sum over some of the calls, the others counting nothing. *)
LEMMA SumIsPile ==
  ASSUME NEW S \in SUBSET Calls, NEW w \in Weights, \A c \in Calls \ S : w[c] = 0
  PROVE  UNION {{c} \X (1 .. w[c]) : c \in S} = Pile(w)
<1>1. ASSUME NEW p \in Pile(w) PROVE p \in UNION {{c} \X (1 .. w[c]) : c \in S}
  <2>1. PICK c \in Calls, i \in Nat : p = <<c, i>> /\ i \in 1 .. w[c]
    BY DEF Pile
  <2>2. c \in S
    BY <2>1
  <2> QED
    BY <2>1, <2>2
<1>2. ASSUME NEW p \in UNION {{c} \X (1 .. w[c]) : c \in S} PROVE p \in Pile(w)
  <2>1. PICK c \in S : p \in {c} \X (1 .. w[c])
    BY <1>2
  <2>2. p[1] = c /\ p[2] \in 1 .. w[c] /\ p[2] \in Nat /\ p = <<p[1], p[2]>>
    BY <2>1 DEF Weights
  <2> QED
    BY <2>2 DEF Pile
<1> QED
  BY <1>1, <1>2

(* A pile is finite. *)
LEMMA PileFinite ==
  ASSUME NEW w \in Weights
  PROVE  IsFiniteSet(Pile(w)) /\ Cardinality(Pile(w)) \in Nat
<1> DEFINE F == [c \in Calls |-> {c} \X (1 .. w[c])]
           T == {F[c] : c \in Calls}
<1>1. IsFiniteSet(T)
  <2>1. F \in Surjection(Calls, T)
    BY DEF Surjection
  <2> HIDE DEF T, F
  <2> QED
    BY <2>1, FS_Surjection, BudgetAssumption
<1>2. ASSUME NEW c \in Calls PROVE IsFiniteSet(F[c])
  <2>1. 1 \in Int /\ w[c] \in Int
    BY DEF Weights
  <2>2. IsFiniteSet({c}) /\ IsFiniteSet(1 .. w[c])
    BY <2>1, FS_Singleton, FS_Interval
  <2>3. IsFiniteSet({c} \X (1 .. w[c]))
    BY <2>2, FS_Product
  <2> QED
    BY <2>3
<1>3. \A X \in T : IsFiniteSet(X)
  BY <1>2
<1>4. UNION T = Pile(w)
  <2>1. T = {{c} \X (1 .. w[c]) : c \in Calls}
    OBVIOUS
  <2>2. Calls \in SUBSET Calls /\ \A c \in Calls \ Calls : w[c] = 0
    OBVIOUS
  <2> QED
    BY <2>1, <2>2, SumIsPile
<1> HIDE DEF T
<1>5. IsFiniteSet(Pile(w))
  BY <1>1, <1>3, <1>4, FS_UNION
<1> QED
  BY <1>5, FS_CardinalityType

(* Less of every call is less in sum. *)
LEMMA PileGrows ==
  ASSUME NEW v \in Weights, NEW w \in Weights, \A c \in Calls : v[c] <= w[c]
  PROVE  Cardinality(Pile(v)) <= Cardinality(Pile(w))
<1>1. Pile(v) \subseteq Pile(w)
  <2> SUFFICES ASSUME NEW p \in Calls \X Nat, p[2] \in 1 .. v[p[1]] PROVE p[2] \in 1 .. w[p[1]]
    BY DEF Pile
  <2>1. p[1] \in Calls /\ v[p[1]] \in Nat /\ w[p[1]] \in Nat /\ v[p[1]] <= w[p[1]]
    BY DEF Weights
  <2> QED
    BY <2>1
<1> QED
  BY <1>1, PileFinite, FS_Subset

(* Piles of different calls add up. *)
LEMMA PileJoin ==
  ASSUME NEW u \in Weights, NEW v \in Weights, NEW w \in Weights,
         \A c \in Calls : (u[c] = 0 /\ w[c] = v[c]) \/ (v[c] = 0 /\ w[c] = u[c])
  PROVE  Cardinality(Pile(w)) = Cardinality(Pile(u)) + Cardinality(Pile(v))
<1>1. ASSUME NEW p \in Calls \X Nat
      PROVE  /\ p \in Pile(w) <=> p \in Pile(u) \/ p \in Pile(v)
             /\ ~ (p \in Pile(u) /\ p \in Pile(v))
  <2>1. p[1] \in Calls /\ p[2] \in Nat
    OBVIOUS
  <2>2. u[p[1]] \in Nat /\ v[p[1]] \in Nat /\ w[p[1]] \in Nat
    BY <2>1 DEF Weights
  <2> QED
    BY <2>1, <2>2 DEF Pile
<1>2. \A x \in Weights : Pile(x) \subseteq Calls \X Nat
  BY DEF Pile
<1>3. Pile(w) = Pile(u) \cup Pile(v) /\ Pile(u) \cap Pile(v) = {}
  BY <1>1, <1>2
<1>4. Cardinality(Pile(u) \cap Pile(v)) = 0
  BY <1>3, FS_EmptySet
<1> QED
  <2>1. /\ IsFiniteSet(Pile(u)) /\ Cardinality(Pile(u)) \in Nat
        /\ IsFiniteSet(Pile(v)) /\ Cardinality(Pile(v)) \in Nat
    BY PileFinite
  <2>2. Cardinality(Pile(u) \cup Pile(v)) =
          Cardinality(Pile(u)) + Cardinality(Pile(v)) - Cardinality(Pile(u) \cap Pile(v))
    BY <2>1, FS_Union
  <2> QED
    BY <1>3, <1>4, <2>1, <2>2

(* A pile of one call. *)
LEMMA PileOne ==
  ASSUME NEW w \in Weights, NEW c \in Calls, \A d \in Calls : d # c => w[d] = 0
  PROVE  Cardinality(Pile(w)) = w[c]
<1>1. w[c] \in Nat /\ w[c] \in Int /\ 1 \in Int
  BY DEF Weights
<1>2. Pile(w) = UNION {{d} \X (1 .. w[d]) : d \in {c}}
  BY SumIsPile
<1>3. UNION {{d} \X (1 .. w[d]) : d \in {c}} = {c} \X (1 .. w[c])
  OBVIOUS
<1>4. /\ IsFiniteSet(1 .. w[c])
      /\ Cardinality(1 .. w[c]) = IF 1 > w[c] THEN 0 ELSE w[c] - 1 + 1
  BY <1>1, FS_Interval
<1>5. Cardinality(1 .. w[c]) = w[c]
  BY <1>1, <1>4
<1>6. IsFiniteSet({c}) /\ Cardinality({c}) = 1
  BY FS_Singleton
<1>7. Cardinality({c} \X (1 .. w[c])) = Cardinality({c}) * Cardinality(1 .. w[c])
  BY <1>4, <1>6, FS_Product
<1>8. 1 * w[c] = w[c]
  BY <1>1
<1> QED
  BY <1>2, <1>3, <1>5, <1>6, <1>7, <1>8

-----------------------------------------------------------------------------
(***************************************************************************)
(* The ledger as admission sees it.                                        *)
(***************************************************************************)

(* What the row of one call says: only a committed row has tokens to its   *)
(* name, a receipt that is not the owner's has all that was spent, a call  *)
(* not yet admitted has no row, and one that was sent keeps an open row    *)
(* unless a sweep freed it.                                                *)
CallKnown(c) ==
  /\ row[c].status # "committed" => row[c].settled = NoTokens
  /\ row[c].status = "committed" /\ row[c].receipt # "own" =>
       spent[c].in <= row[c].settled.in /\ spent[c].out <= row[c].settled.out
  /\ phase[c] \in {"idle", "refused", "retry"} => row[c].status = "none"
  /\ row[c].dispatched => row[c].status # "none"
  /\ row[c].dispatched /\ row[c].status = "released" => c \in freed

(* The owner's receipt is its last step. *)
OwnIsLast == \A c \in Calls : row[c].receipt = "own" => phase[c] = "done"

LedgerKnows == OwnIsLast /\ \A c \in Calls : CallKnown(c)

(* What the call was doing before it is admitted for good. *)
Early == {"idle", "refused", "retry"}

(* A call whose row and usage stay as they are. *)
LEMMA CallKept ==
  ASSUME NEW d \in Calls, CallKnown(d), row'[d] = row[d], spent'[d] = spent[d], freed \subseteq freed',
         phase'[d] \in Early => phase[d] \in Early
  PROVE  CallKnown(d)'
BY DEF CallKnown, Early

(* What a settlement writes into the row of its call. *)
LEMMA SettledRow ==
  ASSUME TypeOK, NEW c \in Calls,
         NEW receipt \in Receipt, NEW revision \in 0 .. 2,
         NEW integrity \in {"reported", "unknown"}, NEW usage \in Tokens,
         SettleCall(c, [receipt |-> receipt, revision |-> revision,
                        integrity |-> integrity, usage |-> usage])
  PROVE  /\ \A d \in Calls : d # c => row'[d] = row[d]
         /\ \/ /\ row' = row
               /\ revision < row[c].revision \/ receipt = row[c].receipt
            \/ /\ row'[c].status = IF integrity = "reported" THEN "committed" ELSE "isolated"
               /\ row'[c].dispatched
               /\ row'[c].receipt = receipt
               /\ row'[c].settled = IF integrity = "reported" THEN Reported(row[c].settled, usage)
                                    ELSE usage
<1> DEFINE settled == IF integrity = "reported" THEN Reported(row[c].settled, usage) ELSE usage
           new == [status |-> StatusOf(integrity), dispatched |-> TRUE, settled |-> settled,
                   receipt |-> receipt, revision |-> revision]
<1>1. row \in [Calls -> RowType]
  BY DEF TypeOK, RowType
<1>2. \/ row' = row /\ (revision < row[c].revision \/ receipt = row[c].receipt)
      \/ row' = [row EXCEPT ![c] = new]
  BY DEF SettleCall
<1>3. CASE row' = [row EXCEPT ![c] = new]
  <2>1. row'[c] = new /\ \A d \in Calls : d # c => row'[d] = row[d]
    BY <1>1, <1>3
  <2> QED
    BY <2>1 DEF StatusOf
<1> QED
  BY <1>2, <1>3

(* The larger of two usages is at least each of them, and the one that     *)
(* already was larger.                                                     *)
LEMMA ReportedBounds ==
  ASSUME NEW known \in Tokens, NEW usage \in Tokens
  PROVE  /\ usage.in <= Reported(known, usage).in /\ usage.out <= Reported(known, usage).out
         /\ usage.in <= known.in /\ usage.out <= known.out => Reported(known, usage) = known
<1>1. /\ known.in \in Nat /\ known.out \in Nat /\ usage.in \in Nat /\ usage.out \in Nat
      /\ known = [in |-> known.in, out |-> known.out]
  BY DEF Tokens
<1>2. usage.in <= known.in => (IF usage.in < known.in THEN known.in ELSE usage.in) = known.in
  BY <1>1
<1>3. usage.out <= known.out => (IF usage.out < known.out THEN known.out ELSE usage.out) = known.out
  BY <1>1
<1> QED
  BY <1>1, <1>2, <1>3 DEF Reported

(* Usages are tokens. *)
LEMMA UsagesTyped ==
  ASSUME TypeOK, NEW c \in Calls
  PROVE  spent[c] \in Tokens /\ NoTokens \in Tokens /\ row[c].settled \in Tokens
<1>1. NoTokens \in Tokens
  BY DEF NoTokens, Tokens
<1>2. spent[c] \in Tokens
  BY <1>1, BudgetAssumption DEF TypeOK
<1>3. row[c].settled \in Tokens
  BY DEF TypeOK
<1> QED
  BY <1>1, <1>2, <1>3

(* The call settles what it has seen of its usage. *)
LEMMA OwnSettlement ==
  ASSUME TypeOK, NEW c \in Calls, Settle(c)
  PROVE  /\ \A d \in Calls : d # c => row'[d] = row[d]
         /\ \/ row' = row
            \/ \E u \in Tokens :
                 /\ u.in <= spent[c].in /\ u.out <= spent[c].out
                 /\ row'[c].status = "committed" /\ row'[c].receipt = "own"
                 /\ row'[c].settled = Reported(row[c].settled, u)
<1>1. PICK u \in Tokens :
        /\ u.in <= spent[c].in /\ u.out <= spent[c].out
        /\ SettleCall(c, [receipt |-> "own", revision |-> 1, integrity |-> "reported", usage |-> u])
  BY BudgetAssumption DEF Settle, Seen
<1>2. PICK own \in Receipt, one \in 0 .. 2, reported \in {"reported", "unknown"} :
        own = "own" /\ one = 1 /\ reported = "reported"
  BY DEF Receipt
<1>3. SettleCall(c, [receipt |-> own, revision |-> one, integrity |-> reported, usage |-> u])
  BY <1>1, <1>2
<1>4. /\ \A d \in Calls : d # c => row'[d] = row[d]
      /\ \/ /\ row' = row
            /\ one < row[c].revision \/ own = row[c].receipt
         \/ /\ row'[c].status = IF reported = "reported" THEN "committed" ELSE "isolated"
            /\ row'[c].dispatched
            /\ row'[c].receipt = own
            /\ row'[c].settled = IF reported = "reported" THEN Reported(row[c].settled, u) ELSE u
  BY <1>3, SettledRow
<1> QED
  BY <1>1, <1>2, <1>4

(* Task recovery isolates the call, with nothing to its name. *)
LEMMA Isolation ==
  ASSUME TypeOK, NEW c \in Calls, Isolate(c)
  PROVE  /\ \A d \in Calls : d # c => row'[d] = row[d]
         /\ \/ row' = row
            \/ row'[c].status = "isolated" /\ row'[c].settled = NoTokens
<1>1. PICK isolate \in Receipt, one \in 0 .. 2, unknown \in {"reported", "unknown"} :
        isolate = "isolate" /\ one = 1 /\ unknown = "unknown"
  BY DEF Receipt
<1>2. SettleCall(c, [receipt |-> isolate, revision |-> one, integrity |-> unknown,
                     usage |-> NoTokens])
  BY <1>1 DEF Isolate
<1>3. NoTokens \in Tokens
  BY DEF NoTokens, Tokens
<1>4. /\ \A d \in Calls : d # c => row'[d] = row[d]
      /\ \/ /\ row' = row
            /\ one < row[c].revision \/ isolate = row[c].receipt
         \/ /\ row'[c].status = IF unknown = "reported" THEN "committed" ELSE "isolated"
            /\ row'[c].dispatched
            /\ row'[c].receipt = isolate
            /\ row'[c].settled = IF unknown = "reported" THEN Reported(row[c].settled, NoTokens)
                                 ELSE NoTokens
  BY <1>2, <1>3, SettledRow
<1> QED
  BY <1>1, <1>4

(* Task recovery settles a late receipt, which has all that was spent. *)
LEMMA LateSettlement ==
  ASSUME TypeOK, NEW c \in Calls, SettleLate(c)
  PROVE  /\ \A d \in Calls : d # c => row'[d] = row[d]
         /\ \/ row' = row
            \/ /\ row'[c].status = "committed"
               /\ row'[c].settled = Reported(row[c].settled, spent[c])
<1>1. PICK revision \in 1 .. 2 :
        SettleCall(c, [receipt |-> "late", revision |-> revision,
                       integrity |-> "reported", usage |-> spent[c]])
  BY DEF SettleLate
<1>2. PICK late1 \in Receipt, reported \in {"reported", "unknown"} :
        late1 = "late" /\ reported = "reported"
  BY DEF Receipt
<1>3. SettleCall(c, [receipt |-> late1, revision |-> revision, integrity |-> reported,
                     usage |-> spent[c]])
  BY <1>1, <1>2
<1>4. spent[c] \in Tokens /\ revision \in 0 .. 2
  BY UsagesTyped
<1>5. /\ \A d \in Calls : d # c => row'[d] = row[d]
      /\ \/ /\ row' = row
            /\ revision < row[c].revision \/ late1 = row[c].receipt
         \/ /\ row'[c].status = IF reported = "reported" THEN "committed" ELSE "isolated"
            /\ row'[c].dispatched
            /\ row'[c].receipt = late1
            /\ row'[c].settled = IF reported = "reported" THEN Reported(row[c].settled, spent[c])
                                 ELSE spent[c]
  BY <1>3, <1>4, SettledRow
<1> QED
  BY <1>2, <1>5

(* A call that has settled takes no further step. *)
LEMMA OwnStep ==
  ASSUME IInv, OwnIsLast, [Next]_vars
  PROVE  OwnIsLast'
<1> SUFFICES ASSUME NEW d \in Calls, row'[d].receipt = "own" PROVE phase'[d] = "done"
  BY DEF OwnIsLast
<1>0. /\ row \in [Calls -> RowType] /\ phase \in [Calls -> Phase] /\ TypeOK
      /\ row[d].receipt = "own" => phase[d] = "done"
  BY DEF IInv, OwnIsLast, TypeOK, RowType
<1>1. ASSUME NEW c \in Calls, AdmitCall(c) \/ GiveUp(c) \/ MarkDispatched(c) PROVE phase'[d] = "done"
  <2>1. row'[d].receipt = row[d].receipt
    BY <1>0, <1>1 DEF AdmitCall, GiveUp, MarkDispatched, RowType
  <2> QED
    BY <1>0, <1>1, <2>1 DEF AdmitCall, GiveUp, MarkDispatched
<1>2. ASSUME NEW c \in Calls, Refuse(c) \/ SettleLost(c) \/ ResumeUnknown(c) \/ ReceiveLate(c)
      PROVE  phase'[d] = "done"
  BY <1>0, <1>2 DEF Refuse, SettleLost, ResumeUnknown, ReceiveLate
<1>3. ASSUME NEW c \in Calls, SweepTask(c) PROVE phase'[d] = "done"
  <2>1. row'[d].receipt = row[d].receipt
    BY <1>0, <1>3, ReleaseRow DEF SweepTask, RowType
  <2> QED
    BY <1>0, <1>3, <2>1 DEF SweepTask
<1>4. CASE Restart
  <2>1. row'[d].receipt = row[d].receipt
    BY <1>0, <1>4, ReleaseRow DEF Restart, RowType
  <2> QED
    BY <1>0, <1>4, <2>1 DEF Restart
<1>5. ASSUME NEW c \in Calls, Settle(c) PROVE phase'[d] = "done"
  <2>1. c # d => row'[d] = row[d]
    BY <1>0, <1>5, OwnSettlement
  <2> QED
    BY <1>0, <1>5, <2>1 DEF Settle
<1>6. ASSUME NEW c \in Calls, Isolate(c) \/ SettleLate(c) PROVE phase'[d] = "done"
  <2>1. phase' = phase
    BY <1>6 DEF Isolate, SettleLate
  <2>2. row'[d].receipt = row[d].receipt \/ row'[d].receipt \in {"isolate", "late"}
    BY <1>0, <1>6 DEF Isolate, SettleLate, SettleCall
  <2> QED
    BY <1>0, <2>1, <2>2
<1>7. CASE UNCHANGED vars
  BY <1>0, <1>7 DEF vars
<1> QED
  BY <1>1, <1>2, <1>3, <1>4, <1>5, <1>6, <1>7, StepCases

(* The ledger keeps knowing it. *)
LEMMA LedgerStep ==
  ASSUME IInv, LedgerKnows, [Next]_vars
  PROVE  LedgerKnows'
<1> SUFFICES ASSUME NEW d \in Calls PROVE CallKnown(d)'
  BY OwnStep DEF LedgerKnows
<1>0. /\ row \in [Calls -> RowType] /\ phase \in [Calls -> Phase] /\ TypeOK /\ CallKnown(d)
      /\ spent \in [Calls -> Usages \cup {NoTokens}]
  BY DEF IInv, LedgerKnows, TypeOK, RowType
<1>1. ASSUME NEW c \in Calls, AdmitCall(c) PROVE CallKnown(d)'
  <2>1. UNCHANGED <<spent, freed>>
    BY <1>1 DEF AdmitCall
  <2>2. CASE c = d
    <3>1. /\ row'[d].status = "reserved" /\ row'[d].settled = row[d].settled
          /\ phase'[d] = "admitted" /\ row[d].status = "none"
      BY <1>0, <1>1, <2>2 DEF AdmitCall, CallKnown, RowType
    <3> QED
      BY <1>0, <2>1, <3>1 DEF CallKnown
  <2>3. CASE c # d
    BY <1>0, <1>1, <2>1, <2>3, CallKept DEF AdmitCall
  <2> QED
    BY <2>2, <2>3
<1>2. ASSUME NEW c \in Calls, Refuse(c) \/ SettleLost(c) \/ ResumeUnknown(c) \/ ReceiveLate(c)
      PROVE  CallKnown(d)'
  <2>1. UNCHANGED <<row, spent, freed>>
    BY <1>2 DEF Refuse, SettleLost, ResumeUnknown, ReceiveLate
  <2>2. phase'[d] \in Early => phase[d] \in Early
    BY <1>0, <1>2 DEF Refuse, SettleLost, ResumeUnknown, ReceiveLate, Early
  <2> QED
    BY <1>0, <2>1, <2>2, CallKept
<1>3. ASSUME Release(Swept), UNCHANGED spent, phase'[d] \in Early => phase[d] \in Early
      PROVE  CallKnown(d)'
  <2>1. CASE row[d].status \in {"reserved", "isolated"}
    <3>1. /\ row'[d].status = "released" /\ row'[d].settled = row[d].settled
          /\ row'[d].dispatched = row[d].dispatched /\ (row[d].dispatched => d \in freed')
      BY <1>0, <1>3, <2>1, ReleaseRow DEF RowType
    <3>2. phase[d] \notin Early
      BY <1>0, <2>1 DEF CallKnown, Early
    <3> QED
      BY <1>0, <1>3, <2>1, <3>1, <3>2 DEF CallKnown, Early
  <2>2. CASE row[d].status \notin {"reserved", "isolated"}
    BY <1>0, <1>3, <2>2, ReleaseRow, CallKept
  <2> QED
    BY <2>1, <2>2
<1>4. ASSUME NEW c \in Calls, SweepTask(c) PROVE CallKnown(d)'
  BY <1>0, <1>3, <1>4 DEF SweepTask, Early
<1>5. CASE Restart
  BY <1>0, <1>3, <1>5 DEF Restart, Early
<1>6. ASSUME NEW c \in Calls, GiveUp(c) PROVE CallKnown(d)'
  <2>1. UNCHANGED <<spent, freed>> /\ phase' = [phase EXCEPT ![c] = "done"]
    BY <1>6 DEF GiveUp
  <2>2. phase'[d] \in Early => phase[d] \in Early
    BY <1>0, <2>1 DEF Early
  <2>3. CASE row'[d] = row[d]
    BY <1>0, <2>1, <2>2, <2>3, CallKept
  <2>4. CASE row'[d] # row[d]
    <3>1. /\ row'[d].status = "released" /\ row'[d].settled = row[d].settled /\ ~ row'[d].dispatched
          /\ row[d].status = "reserved" /\ phase'[d] = "done"
      BY <1>0, <1>6, <2>1, <2>4 DEF GiveUp, RowType
    <3> QED
      BY <1>0, <3>1 DEF CallKnown
  <2> QED
    BY <2>3, <2>4
<1>7. ASSUME NEW c \in Calls, MarkDispatched(c) PROVE CallKnown(d)'
  <2>1. CASE c = d
    <3>1. /\ row'[d].status = "reserved" /\ row'[d].settled = row[d].settled
          /\ row[d].status = "reserved" /\ phase'[d] = "sent"
      BY <1>0, <1>7, <2>1 DEF MarkDispatched, RowType
    <3> QED
      BY <1>0, <3>1 DEF CallKnown
  <2>2. CASE c # d
    BY <1>0, <1>7, <2>2, CallKept DEF MarkDispatched
  <2> QED
    BY <2>1, <2>2
<1>8. ASSUME NEW c \in Calls, Settle(c) \/ Isolate(c) \/ SettleLate(c) PROVE CallKnown(d)'
  <2>1. UNCHANGED <<spent, freed>> /\ (phase'[d] \in Early => phase[d] \in Early)
    BY <1>0, <1>8 DEF Settle, Isolate, SettleLate, Early
  <2>2. CASE row'[d] = row[d]
    BY <1>0, <2>1, <2>2, CallKept
  <2>3. CASE c # d
    <3>1. \E m : SettleCall(c, m)
      BY <1>8 DEF Settle, Isolate, SettleLate
    <3>2. row'[d] = row[d]
      BY <1>0, <2>3, <3>1 DEF SettleCall
    <3> QED
      BY <2>2, <3>2
  <2>4. CASE c = d /\ row'[d] # row[d]
    <3>1. row[d].dispatched
      BY <1>8, <2>4 DEF Settle, Isolate, SettleLate, IInv, SentIsDispatched, RecoveredIsDispatched
    <3>2. phase[d] \notin Early /\ phase'[d] \notin Early
      BY <2>1, <3>1, <1>0 DEF CallKnown, Early
    <3>3. ASSUME Settle(d) PROVE CallKnown(d)'
      <4>1. row'[d].status = "committed" /\ row'[d].receipt = "own"
        BY <1>0, <2>4, <3>3, OwnSettlement
      <4> QED
        BY <3>2, <4>1 DEF CallKnown, Early
    <3>4. ASSUME Isolate(d) PROVE CallKnown(d)'
      <4>1. row'[d].status = "isolated" /\ row'[d].settled = NoTokens
        BY <1>0, <2>4, <3>4, Isolation
      <4> QED
        BY <3>2, <4>1 DEF CallKnown, Early
    <3>5. ASSUME SettleLate(d) PROVE CallKnown(d)'
      <4>1. /\ row'[d].status = "committed"
            /\ row'[d].settled = Reported(row[d].settled, spent[d])
        BY <1>0, <2>4, <3>5, LateSettlement
      <4>2. spent[d].in <= row'[d].settled.in /\ spent[d].out <= row'[d].settled.out
        <5>1. spent[d] \in Tokens /\ row[d].settled \in Tokens
          BY <1>0, UsagesTyped
        <5> QED
          BY <4>1, <5>1, ReportedBounds
      <4> QED
        BY <2>1, <3>2, <4>1, <4>2 DEF CallKnown, Early
    <3> QED
      BY <1>8, <2>4, <3>3, <3>4, <3>5
  <2> QED
    BY <2>2, <2>3, <2>4
<1>9. CASE UNCHANGED vars
  BY <1>0, <1>9, CallKept DEF vars
<1> QED
  BY <1>1, <1>2, <1>4, <1>5, <1>6, <1>7, <1>8, <1>9, StepCases

-----------------------------------------------------------------------------
(***************************************************************************)
(* What the ledger is liable for, call by call.                            *)
(***************************************************************************)

Open(c) == row[c].status \in {"reserved", "isolated"}

(* A committed call costs what was settled, an open one may still cost its *)
(* estimate.                                                               *)
Cost(c) ==
  IF row[c].status = "committed" THEN Total(row[c].settled)
  ELSE IF Open(c) THEN Total(Estimate[c]) ELSE 0

Liability(S) == [c \in Calls |-> IF c \in S THEN Cost(c) ELSE 0]

(* Estimates and settlements have totals. *)
CostsTyped ==
  \A c \in Calls : /\ Total(row[c].settled) \in Nat /\ Total(Estimate[c]) \in Nat
                   /\ Cost(c) \in Nat /\ Total(NoTokens) = 0

LEMMA TotalTyped == TypeOK => CostsTyped
<1> SUFFICES ASSUME TypeOK, NEW c \in Calls
             PROVE  /\ Total(row[c].settled) \in Nat /\ Total(Estimate[c]) \in Nat
                    /\ Cost(c) \in Nat /\ Total(NoTokens) = 0
  BY DEF CostsTyped
<1>1. row[c].settled \in Tokens /\ Estimate[c] \in Tokens
  BY UsagesTyped, BudgetAssumption
<1>2. \A x \in Tokens : Total(x) \in Nat
  BY DEF Total, Tokens
<1>3. Total(NoTokens) = 0
  BY DEF Total, NoTokens
<1> QED
  BY <1>1, <1>2, <1>3 DEF Cost

(* The three sums of the ledger make up what it is liable for. *)
UsageIsLiability ==
  \A S \in SUBSET Calls :
    /\ Liability(S) \in Weights
    /\ ConsumedTotal(S) + ReservedTotal(S) + IsolatedTotal(S) = Cardinality(Pile(Liability(S)))

LEMMA LiabilityIsUsage == TypeOK /\ LedgerKnows => UsageIsLiability
<1> SUFFICES ASSUME TypeOK, LedgerKnows, NEW S \in SUBSET Calls
             PROVE  /\ Liability(S) \in Weights
                    /\ ConsumedTotal(S) + ReservedTotal(S) + IsolatedTotal(S)
                         = Cardinality(Pile(Liability(S)))
  BY DEF UsageIsLiability
<1> DEFINE consumed == [c \in Calls |-> IF c \in S /\ row[c].status = "committed"
                                        THEN Total(row[c].settled) ELSE 0]
           reserved == [c \in Calls |-> IF c \in S /\ row[c].status = "reserved"
                                        THEN Total(Estimate[c]) ELSE 0]
           isolated == [c \in Calls |-> IF c \in S /\ row[c].status = "isolated"
                                        THEN Total(Estimate[c]) ELSE 0]
           both == [c \in Calls |-> consumed[c] + reserved[c]]
           C == InStatus(S, {"committed", "isolated"})
           R == InStatus(S, {"reserved"})
           I == {c \in InStatus(S, {"isolated"}) : Total(row[c].settled) <= Total(Estimate[c])}
<1>1. /\ consumed \in Weights /\ reserved \in Weights /\ isolated \in Weights /\ both \in Weights
      /\ Liability(S) \in Weights
  BY TotalTyped DEF CostsTyped, Weights, Liability
<1>2. \A c \in Calls : row[c].status = "isolated" =>
        Total(row[c].settled) = 0 /\ Total(Estimate[c]) - Total(row[c].settled) = Total(Estimate[c])
  BY TotalTyped DEF CostsTyped, LedgerKnows, CallKnown
<1>3. C \in SUBSET Calls /\ R \in SUBSET Calls /\ I \in SUBSET Calls
  BY DEF InStatus
<1>4. ConsumedTotal(S) = Cardinality(Pile(consumed))
  <2>1. \A c \in C : consumed[c] = Total(row[c].settled)
    BY <1>2 DEF InStatus
  <2>2. \A c \in Calls \ C : consumed[c] = 0
    BY DEF InStatus
  <2> HIDE DEF consumed
  <2>3. UNION {{c} \X (1 .. consumed[c]) : c \in C} = Pile(consumed)
    BY <1>1, <1>3, <2>2, SumIsPile
  <2>4. UNION {{c} \X (1 .. Total(row[c].settled)) : c \in C} = UNION {{c} \X (1 .. consumed[c]) : c \in C}
    BY <2>1
  <2> QED
    BY <2>3, <2>4 DEF ConsumedTotal, Sum
<1>5. ReservedTotal(S) = Cardinality(Pile(reserved))
  <2>1. \A c \in R : reserved[c] = Total(Estimate[c])
    BY DEF InStatus
  <2>2. \A c \in Calls \ R : reserved[c] = 0
    BY DEF InStatus
  <2> HIDE DEF reserved
  <2>3. UNION {{c} \X (1 .. reserved[c]) : c \in R} = Pile(reserved)
    BY <1>1, <1>3, <2>2, SumIsPile
  <2>4. UNION {{c} \X (1 .. Total(Estimate[c])) : c \in R} = UNION {{c} \X (1 .. reserved[c]) : c \in R}
    BY <2>1
  <2> QED
    BY <2>3, <2>4 DEF ReservedTotal, Sum
<1>6. IsolatedTotal(S) = Cardinality(Pile(isolated))
  <2>1. \A c \in I : isolated[c] = Total(Estimate[c]) - Total(row[c].settled)
    BY <1>2 DEF InStatus
  <2>2. \A c \in Calls \ I : isolated[c] = 0
    <3>1. \A c \in Calls : row[c].status = "isolated" => Total(row[c].settled) <= Total(Estimate[c])
      BY <1>2, TotalTyped DEF CostsTyped
    <3> QED
      BY <3>1 DEF InStatus
  <2> HIDE DEF isolated
  <2>3. UNION {{c} \X (1 .. isolated[c]) : c \in I} = Pile(isolated)
    BY <1>1, <1>3, <2>2, SumIsPile
  <2>4. UNION {{c} \X (1 .. (Total(Estimate[c]) - Total(row[c].settled))) : c \in I}
          = UNION {{c} \X (1 .. isolated[c]) : c \in I}
    BY <2>1
  <2> QED
    BY <2>3, <2>4 DEF IsolatedTotal, Sum
<1>7. \A c \in Calls : (consumed[c] = 0 /\ both[c] = reserved[c]) \/ (reserved[c] = 0 /\ both[c] = consumed[c])
  BY TotalTyped DEF CostsTyped
<1>8. \A c \in Calls : \/ both[c] = 0 /\ Liability(S)[c] = isolated[c]
                       \/ isolated[c] = 0 /\ Liability(S)[c] = both[c]
  BY TotalTyped DEF CostsTyped, Liability, Cost, Open
<1> HIDE DEF consumed, reserved, isolated, both
<1>9. Cardinality(Pile(both)) = Cardinality(Pile(consumed)) + Cardinality(Pile(reserved))
  BY <1>1, <1>7, PileJoin
<1>10. Cardinality(Pile(Liability(S))) = Cardinality(Pile(both)) + Cardinality(Pile(isolated))
  BY <1>1, <1>8, PileJoin
<1> QED
  BY <1>1, <1>4, <1>5, <1>6, <1>9, <1>10

(* How one row can change while no sweep frees a dispatched call and task  *)
(* recovery settles no committed one: the call is admitted, or the row     *)
(* counts for what it did, or it was open.                                 *)
RowShape(d) ==
  \/ AdmitCall(d)
  \/ row'[d].status = row[d].status /\ row'[d].settled = row[d].settled
  \/ Open(d) /\ row'[d].status \in {"released", "committed", "isolated"}

(* No row changes in another way. *)
LEMMA RowShapes ==
  ASSUME IInv, LedgerKnows, [Next]_vars, freed' = {}, reopened' = {}, NEW d \in Calls
  PROVE  RowShape(d)
<1>0. /\ row \in [Calls -> RowType] /\ TypeOK /\ CallKnown(d) /\ isolating \cup late \subseteq Calls
      /\ row[d].receipt = "own" => phase[d] = "done"
  BY BudgetAssumption DEF IInv, LedgerKnows, OwnIsLast, TypeOK, RowType
<1>1. ASSUME row'[d] = row[d] PROVE RowShape(d)
  BY <1>1 DEF RowShape
<1>2. ASSUME row[d].dispatched, freed = {} PROVE Open(d) \/ row[d].status = "committed"
  BY <1>0, <1>2 DEF RowType, RowStatus, CallKnown, Open
<1>3. ASSUME NEW c \in Calls, AdmitCall(c) PROVE RowShape(d)
  <2>1. CASE c = d
    BY <1>3, <2>1 DEF RowShape
  <2>2. CASE c # d
    BY <1>0, <1>1, <1>3, <2>2 DEF AdmitCall
  <2> QED
    BY <2>1, <2>2
<1>4. ASSUME NEW c \in Calls, Refuse(c) \/ SettleLost(c) \/ ResumeUnknown(c) \/ ReceiveLate(c)
      PROVE  RowShape(d)
  BY <1>1, <1>4 DEF Refuse, SettleLost, ResumeUnknown, ReceiveLate
<1>5. ASSUME Release(Swept) PROVE RowShape(d)
  <2>1. CASE Open(d)
    <3>1. row'[d].status = "released"
      BY <1>0, <1>5, <2>1, ReleaseRow DEF Open, RowType
    <3> QED
      BY <2>1, <3>1 DEF RowShape
  <2>2. CASE ~ Open(d)
    BY <1>0, <1>1, <1>5, <2>2, ReleaseRow DEF Open
  <2> QED
    BY <2>1, <2>2
<1>6. ASSUME NEW c \in Calls, GiveUp(c) PROVE RowShape(d)
  BY <1>0, <1>6 DEF GiveUp, RowShape, Open, RowType
<1>7. ASSUME NEW c \in Calls, MarkDispatched(c) PROVE RowShape(d)
  BY <1>0, <1>7 DEF MarkDispatched, RowShape, RowType
<1>8. ASSUME NEW c \in Calls, Settle(c) PROVE RowShape(d)
  <2>0. freed = {}
    BY <1>8 DEF Settle
  <2>1. CASE row'[d] = row[d]
    BY <1>1, <2>1
  <2>2. CASE row'[d] # row[d]
    <3>1. c = d /\ phase[d] = "sent" /\ row[d].dispatched
      BY <1>0, <1>8, <2>2, OwnSettlement DEF Settle, IInv, SentIsDispatched
    <3>2. PICK u \in Tokens :
            /\ u.in <= spent[d].in /\ u.out <= spent[d].out
            /\ row'[d].status = "committed"
            /\ row'[d].settled = Reported(row[d].settled, u)
      BY <1>0, <1>8, <2>2, <3>1, OwnSettlement
    <3>3. CASE Open(d)
      BY <3>2, <3>3 DEF RowShape
    <3>4. CASE row[d].status = "committed"
      <4>1. spent[d].in <= row[d].settled.in /\ spent[d].out <= row[d].settled.out
        BY <1>0, <3>1, <3>4 DEF CallKnown
      <4>2. spent[d] \in Tokens /\ row[d].settled \in Tokens
        BY <1>0, UsagesTyped
      <4>3. u.in <= row[d].settled.in /\ u.out <= row[d].settled.out
        BY <3>2, <4>1, <4>2 DEF Tokens
      <4>4. row'[d].settled = row[d].settled
        BY <3>2, <4>2, <4>3, ReportedBounds
      <4> QED
        BY <3>2, <3>4, <4>4 DEF RowShape
    <3> QED
      BY <1>2, <2>0, <3>1, <3>3, <3>4
  <2> QED
    BY <2>1, <2>2
<1>9. ASSUME NEW c \in Calls, Isolate(c) \/ SettleLate(c) PROVE RowShape(d)
  <2>0. freed = {}
    BY <1>9 DEF Isolate, SettleLate
  <2>1. CASE row'[d] = row[d]
    BY <1>1, <2>1
  <2>2. CASE row'[d] # row[d]
    <3>1. c = d /\ row[d].dispatched
      BY <1>0, <1>9, <2>2, Isolation, LateSettlement
         DEF Isolate, SettleLate, IInv, RecoveredIsDispatched
    <3>2. row'[d].status \in {"isolated", "committed"}
      BY <1>0, <1>9, <2>2, <3>1, Isolation, LateSettlement
    <3>3. row[d].status # "committed"
      <4>1. Overtaken(d) = {}
        BY <1>9, <3>1 DEF Isolate, SettleLate
      <4> QED
        BY <2>2, <4>1 DEF Overtaken
    <3> QED
      BY <1>2, <2>0, <3>1, <3>2, <3>3 DEF RowShape
  <2> QED
    BY <2>1, <2>2
<1>10. CASE UNCHANGED vars
  BY <1>1, <1>10 DEF vars
<1> QED
  BY <1>3, <1>4, <1>5, <1>6, <1>7, <1>8, <1>9, <1>10, StepCases DEF SweepTask, Restart

-----------------------------------------------------------------------------
(***************************************************************************)
(* Admission keeps every budget.                                           *)
(***************************************************************************)

(* The premise of WithinBudget, and its conclusion for one budget. *)
Affordable == \A c \in Calls : Total(row[c].settled) <= Total(Estimate[c])

Undisturbed == Affordable /\ freed = {} /\ reopened = {}

Within(limit, S) ==
  /\ ConsumedTotal(S) + ReservedTotal(S) + IsolatedTotal(S) <= limit.total
  /\ Attempts(S) <= limit.attempts

Budgets == {<<TaskLimit, Calls>>} \cup {<<ScopeLimit[s], InScope(s)>> : s \in Scopes}

(* A budget is a policy and the calls it is for. *)
LEMMA BudgetsTyped == \A b \in Budgets : b[1] \in Limits /\ b[2] \in SUBSET Calls
BY BudgetAssumption DEF Budgets, InScope

(* WithinBudget, one budget at a time. *)
LEMMA WithinBudgetIs == WithinBudget <=> (Undisturbed => \A b \in Budgets : Within(b[1], b[2]))
BY DEF WithinBudget, Undisturbed, Affordable, Budgets, Within

(* What the histories record stays recorded. *)
LEMMA HistoriesGrow ==
  ASSUME IInv, [Next]_vars
  PROVE  freed \subseteq freed' /\ reopened \subseteq reopened'
<1>1. ASSUME NEW c \in Calls,
             \/ AdmitCall(c) \/ Refuse(c) \/ GiveUp(c) \/ MarkDispatched(c) \/ Settle(c)
             \/ SettleLost(c) \/ ResumeUnknown(c) \/ ReceiveLate(c)
      PROVE  UNCHANGED <<freed, reopened>>
  BY <1>1 DEF AdmitCall, Refuse, GiveUp, MarkDispatched, Settle, SettleLost, ResumeUnknown, ReceiveLate
<1>2. ASSUME NEW c \in Calls, Isolate(c) \/ SettleLate(c)
      PROVE  freed \subseteq freed' /\ reopened \subseteq reopened'
  BY <1>2 DEF Isolate, SettleLate
<1>3. ASSUME Release(Swept) PROVE freed \subseteq freed'
  BY <1>3 DEF Release
<1> QED
  BY <1>1, <1>2, <1>3, StepCases DEF SweepTask, Restart, vars

(* A ledger that is undisturbed after a step was undisturbed before it. *)
LEMMA UndisturbedBefore ==
  ASSUME IInv, LedgerKnows, [Next]_vars, Undisturbed'
  PROVE  Undisturbed
<1>1. freed = {} /\ reopened = {}
  BY HistoriesGrow DEF Undisturbed
<1>2. Affordable
  <2> SUFFICES ASSUME NEW d \in Calls PROVE Total(row[d].settled) <= Total(Estimate[d])
    BY DEF Affordable
  <2>0. /\ TypeOK /\ CallKnown(d) /\ row \in [Calls -> RowType]
        /\ Total(row'[d].settled) <= Total(Estimate[d])
    BY DEF IInv, LedgerKnows, Undisturbed, Affordable, TypeOK, RowType
  <2>1. RowShape(d)
    BY RowShapes DEF Undisturbed
  <2>2. ASSUME row'[d].settled = row[d].settled PROVE Total(row[d].settled) <= Total(Estimate[d])
    BY <2>0, <2>2
  <2>3. CASE AdmitCall(d)
    BY <2>0, <2>2, <2>3 DEF AdmitCall, RowType
  <2>4. CASE Open(d)
    <3>1. row[d].settled = NoTokens
      BY <2>0, <2>4 DEF CallKnown, Open
    <3>2. Total(NoTokens) = 0 /\ Total(Estimate[d]) \in Nat
      BY <2>0, TotalTyped DEF CostsTyped
    <3> QED
      BY <3>1, <3>2
  <2> QED
    BY <2>1, <2>2, <2>3, <2>4 DEF RowShape
<1> QED
  BY <1>1, <1>2 DEF Undisturbed

(* A step that admits none of the calls of a budget leaves no more to be   *)
(* liable for, call by call.                                               *)
LEMMA LiabilityShrinks ==
  ASSUME IInv, LedgerKnows, [Next]_vars, Undisturbed', NEW d \in Calls, ~ AdmitCall(d)
  PROVE  Cost(d)' <= Cost(d) /\ (Open(d)' => Open(d))
<1>0. /\ TypeOK /\ TypeOK' /\ Total(row'[d].settled) <= Total(Estimate[d])
  BY NextInv DEF IInv, Undisturbed, Affordable
<1>1. /\ Total(row[d].settled) \in Nat /\ Total(Estimate[d]) \in Nat /\ Cost(d) \in Nat
  BY <1>0, TotalTyped DEF CostsTyped
<1>2. Total(row'[d].settled) \in Nat
  <2>1. CostsTyped'
    BY <1>0, TotalTyped, PTL
  <2> QED
    BY <2>1 DEF CostsTyped
<1>3. RowShape(d)
  BY RowShapes DEF Undisturbed
<1>4. CASE row'[d].status = row[d].status /\ row'[d].settled = row[d].settled
  BY <1>1, <1>4 DEF Cost, Open
<1>5. CASE Open(d) /\ row'[d].status \in {"released", "committed", "isolated"}
  <2>1. Cost(d) = Total(Estimate[d])
    BY <1>5 DEF Cost, Open
  <2>2. Cost(d)' <= Total(Estimate[d])
    BY <1>0, <1>1, <1>2, <1>5 DEF Cost, Open
  <2> QED
    BY <1>5, <2>1, <2>2
<1> QED
  BY <1>3, <1>4, <1>5 DEF RowShape

(* One more call is one more column and one more attempt. *)
LEMMA AdmissionAdds ==
  ASSUME IInv, LedgerKnows, LedgerKnows', TypeOK', NEW c \in Calls, AdmitCall(c),
         NEW S \in SUBSET Calls, c \in S
  PROVE  /\ Cardinality(Pile(Liability(S)')) = Cardinality(Pile(Liability(S))) + Total(Estimate[c])
         /\ Attempts(S)' = Attempts(S) + 1
<1> DEFINE added == [d \in Calls |-> IF d = c THEN Total(Estimate[c]) ELSE 0]
<1>0. /\ row \in [Calls -> RowType] /\ TypeOK /\ CallKnown(c) /\ IsFiniteSet(S)
  BY BudgetAssumption, FS_Subset DEF IInv, LedgerKnows, TypeOK, RowType
<1>1. Total(Estimate[c]) \in Nat
  BY <1>0, TotalTyped DEF CostsTyped
<1>2. added \in Weights /\ Liability(S) \in Weights
  BY <1>0, <1>1, LiabilityIsUsage DEF UsageIsLiability, Weights
<1>3. Liability(S)' \in Weights
  <2>1. UsageIsLiability'
    BY LiabilityIsUsage, PTL
  <2> QED
    BY <2>1 DEF UsageIsLiability, Weights
<1>4. row[c].status = "none" /\ row'[c].status = "reserved"
  BY <1>0 DEF AdmitCall, CallKnown, RowType
<1>5. \A d \in Calls : d # c => row'[d] = row[d]
  BY <1>0 DEF AdmitCall
<1>6. \A d \in Calls : \/ Liability(S)[d] = 0 /\ Liability(S)'[d] = added[d]
                       \/ added[d] = 0 /\ Liability(S)'[d] = Liability(S)[d]
  <2> SUFFICES ASSUME NEW d \in Calls
               PROVE  \/ Liability(S)[d] = 0 /\ Liability(S)'[d] = added[d]
                      \/ added[d] = 0 /\ Liability(S)'[d] = Liability(S)[d]
    OBVIOUS
  <2>1. CASE d = c
    BY <1>4, <2>1 DEF Liability, Cost, Open
  <2>2. CASE d # c
    BY <1>5, <2>2 DEF Liability, Cost, Open
  <2> QED
    BY <2>1, <2>2
<1>7. Cardinality(Pile(added)) = Total(Estimate[c])
  <2>1. \A d \in Calls : d # c => added[d] = 0
    OBVIOUS
  <2>2. Cardinality(Pile(added)) = added[c]
    BY <1>2, <2>1, PileOne
  <2> QED
    BY <2>2
<1>8. PICK after \in Weights : after = Liability(S)'
  BY <1>3
<1> HIDE DEF added
<1>9. Cardinality(Pile(after)) = Cardinality(Pile(Liability(S))) + Cardinality(Pile(added))
  BY <1>2, <1>6, <1>8, PileJoin
<1>10. Attempts(S)' = Attempts(S) + 1
  <2> DEFINE before == InStatus(S, {"reserved", "isolated"})
  <2>1. InStatus(S, {"reserved", "isolated"})' = before \cup {c} /\ c \notin before
    BY <1>4, <1>5 DEF InStatus
  <2>2. before \subseteq S
    BY DEF InStatus
  <2> HIDE DEF before
  <2>3. IsFiniteSet(before)
    BY <1>0, <2>2, FS_Subset
  <2>4. Cardinality(before \cup {c}) = Cardinality(before) + 1
    BY <2>1, <2>3, FS_AddElement
  <2> QED
    BY <2>1, <2>4 DEF Attempts, before
<1> QED
  BY <1>7, <1>8, <1>9, <1>10

(* Every budget that held before a step holds after it, if admission asked *)
(* for it.                                                                 *)
LEMMA BudgetKept ==
  ASSUME IInv, LedgerKnows, [Next]_vars, Undisturbed',
         NEW limit \in Limits, NEW S \in SUBSET Calls, Within(limit, S),
         \A c \in S : AdmitCall(c) => AdmitPolicy(limit, S, c)
  PROVE  Within(limit, S)'
<1>0. TypeOK /\ TypeOK' /\ LedgerKnows' /\ IsFiniteSet(S)
  <2>1. IInv' /\ LedgerKnows'
    BY NextInv, LedgerStep
  <2> QED
    BY <2>1, BudgetAssumption, FS_Subset DEF IInv
<1>1. /\ Liability(S) \in Weights
      /\ ConsumedTotal(S) + ReservedTotal(S) + IsolatedTotal(S) = Cardinality(Pile(Liability(S)))
  BY <1>0, LiabilityIsUsage DEF UsageIsLiability
<1>2. /\ Liability(S)' \in Weights
      /\ (ConsumedTotal(S) + ReservedTotal(S) + IsolatedTotal(S))' = Cardinality(Pile(Liability(S)'))
  <2>1. UsageIsLiability'
    BY <1>0, LiabilityIsUsage, PTL
  <2> QED
    BY <2>1 DEF UsageIsLiability, Pile, Weights
<1>3. PICK after \in Weights : after = Liability(S)'
  BY <1>2
<1>4. limit.total \in Nat /\ limit.attempts \in Nat
  BY DEF Limits
<1>5. /\ Cardinality(Pile(Liability(S))) \in Nat
      /\ Cardinality(Pile(after)) \in Nat
      /\ Cardinality(Pile(Liability(S))) <= limit.total
  BY <1>1, PileFinite DEF Within
<1>6. ASSUME NEW c \in S, AdmitCall(c) PROVE Within(limit, S)'
  <2>1. AdmitPolicy(limit, S, c) /\ c \in Calls
    BY <1>6
  <2>2. /\ Cardinality(Pile(Liability(S)')) = Cardinality(Pile(Liability(S))) + Total(Estimate[c])
        /\ Attempts(S)' = Attempts(S) + 1
    BY <1>0, <1>6, <2>1, AdmissionAdds
  <2>3. /\ Cardinality(Pile(Liability(S))) + Total(Estimate[c]) <= limit.total
        /\ Attempts(S) + 1 <= limit.attempts
    BY <1>1, <2>1 DEF AdmitPolicy
  <2> QED
    BY <1>2, <2>2, <2>3 DEF Within
<1>7. ASSUME \A c \in S : ~ AdmitCall(c) PROVE Within(limit, S)'
  <2>1. \A d \in S : Cost(d)' <= Cost(d) /\ (Open(d)' => Open(d))
    BY <1>7, LiabilityShrinks
  <2>2. \A d \in Calls : after[d] <= Liability(S)[d]
    BY <1>3, <2>1 DEF Liability
  <2>3. Cardinality(Pile(after)) <= Cardinality(Pile(Liability(S)))
    BY <1>1, <2>2, PileGrows
  <2>4. Attempts(S)' <= Attempts(S) /\ Attempts(S)' \in Nat /\ Attempts(S) \in Nat
    <3>1. PICK before \in SUBSET S : before = InStatus(S, {"reserved", "isolated"})
      BY DEF InStatus
    <3>2. PICK later \in SUBSET S : later = InStatus(S, {"reserved", "isolated"})'
      BY DEF InStatus
    <3>3. later \subseteq before
      BY <2>1, <3>1, <3>2 DEF InStatus, Open
    <3>4. /\ IsFiniteSet(before) /\ Cardinality(before) \in Nat
          /\ Cardinality(later) \in Nat /\ Cardinality(later) <= Cardinality(before)
      BY <1>0, <3>1, <3>2, <3>3, FS_Subset, FS_CardinalityType
    <3> QED
      BY <3>1, <3>2, <3>4 DEF Attempts
  <2>5. Attempts(S) <= limit.attempts
    BY DEF Within
  <2> QED
    BY <1>2, <1>3, <1>4, <1>5, <2>3, <2>4, <2>5 DEF Within
<1> QED
  BY <1>6, <1>7

(* Within every budget is inductive with what the ledger knows. *)
LEMMA BudgetStep ==
  ASSUME IInv, LedgerKnows, WithinBudget, [Next]_vars
  PROVE  WithinBudget'
<1> SUFFICES ASSUME Undisturbed', NEW b \in Budgets PROVE Within(b[1], b[2])'
  <2>1. (Undisturbed => \A b \in Budgets : Within(b[1], b[2]))' => WithinBudget'
    BY WithinBudgetIs, PTL
  <2>2. Budgets' = Budgets
    BY DEF Budgets, InScope
  <2> QED
    BY <2>1, <2>2
<1>2. Within(b[1], b[2]) /\ b[1] \in Limits /\ b[2] \in SUBSET Calls
  BY UndisturbedBefore, WithinBudgetIs, BudgetsTyped
<1>3. \A c \in b[2] : AdmitCall(c) => AdmitPolicy(b[1], b[2], c)
  <2> SUFFICES ASSUME NEW c \in b[2], AdmitCall(c) PROVE AdmitPolicy(b[1], b[2], c)
    OBVIOUS
  <2>1. c \in Calls /\ Fits(c)
    BY <1>2 DEF AdmitCall
  <2>2. CASE b = <<TaskLimit, Calls>>
    BY <2>1, <2>2 DEF Fits
  <2>3. CASE b \in {<<ScopeLimit[s], InScope(s)>> : s \in Scopes}
    <3>1. PICK s \in Scopes : b[1] = ScopeLimit[s] /\ b[2] = InScope(s)
      BY <2>3
    <3>2. ScopeOf[c] = s
      BY <3>1 DEF InScope
    <3> QED
      BY <2>1, <3>1, <3>2 DEF Fits
  <2> QED
    BY <2>2, <2>3 DEF Budgets
<1> QED
  BY <1>2, <1>3, BudgetKept

(* What is consumed and what may still be consumed stays within the policy *)
(* of the task and of every scope, for any number of calls in any order,   *)
(* unless a call overran its estimate, a sweep freed a call that was sent  *)
(* or task recovery settled a committed call again.                        *)
THEOREM StaysWithinBudget == Spec => []WithinBudget
<1>1. Init => LedgerKnows
  BY DEF Init, LedgerKnows, OwnIsLast, CallKnown, NoRow
<1>2. Init => WithinBudget
  <2> SUFFICES ASSUME Init, NEW b \in Budgets PROVE Within(b[1], b[2])
    BY WithinBudgetIs
  <2>0. TypeOK /\ LedgerKnows /\ b[1] \in Limits /\ b[2] \in SUBSET Calls
    BY InitInv, <1>1, BudgetsTyped DEF IInv
  <2>1. b[1].total \in Nat /\ b[1].attempts \in Nat
    BY <2>0 DEF Limits
  <2>2. \A c \in Calls : row[c].status = "none"
    BY DEF Init, NoRow
  <2>3. /\ Liability(b[2]) \in Weights /\ \A c \in Calls : Liability(b[2])[c] = 0
        /\ InStatus(b[2], {"reserved", "isolated"}) = {}
    BY <2>0, <2>2, LiabilityIsUsage DEF UsageIsLiability, Liability, Cost, Open, InStatus
  <2>4. Pile(Liability(b[2])) = {}
    BY <2>3 DEF Pile
  <2>5. ConsumedTotal(b[2]) + ReservedTotal(b[2]) + IsolatedTotal(b[2]) = 0
    BY <2>0, <2>4, LiabilityIsUsage, FS_EmptySet DEF UsageIsLiability
  <2>6. Attempts(b[2]) = 0
    BY <2>3, FS_EmptySet DEF Attempts
  <2> QED
    BY <2>1, <2>5, <2>6 DEF Within
<1>3. IInv /\ LedgerKnows /\ WithinBudget /\ [Next]_vars => LedgerKnows' /\ WithinBudget'
  BY LedgerStep, BudgetStep
<1> QED
  BY <1>1, <1>2, <1>3, Invariance, PTL DEF Spec
=============================================================================

--------------------------- MODULE ExecutionBudget ---------------------------
(***************************************************************************)
(* The execution budget of one task (a typed user turn): model calls       *)
(* reserve their estimate before they are sent and are settled with the    *)
(* usage that came back.  Nested calls of a turn share its ledger and run  *)
(* concurrently.  A refused call sweeps reservations it takes for leaked   *)
(* and tries once more; a restart sweeps them all.                         *)
(*                                                                         *)
(* Calls of the write-effect path can also be settled by task recovery:    *)
(* isolated when their outcome is unknown, or by a late receipt.           *)
(***************************************************************************)
EXTENDS Naturals, FiniteSets

CONSTANTS
  Calls,      \* call attempts of the task
  WriteCalls, \* those that task recovery knows
  Scopes,     \* accounting scopes: the root of the task and its children
  ScopeOf,    \* the scope of each call
  Estimate,   \* [in, out]: the tokens each call reserves
  Usages,     \* [in, out]: the tokens a call can cost
  TaskLimit,  \* [total, output, attempts]: the policy of the task
  ScopeLimit  \* the policy of each scope

Limits == [total: Nat, output: Nat, attempts: Nat]

Tokens == [in: Nat, out: Nat]

ASSUME BudgetAssumption ==
  /\ IsFiniteSet(Calls)
  /\ WriteCalls \subseteq Calls
  /\ ScopeOf \in [Calls -> Scopes]
  /\ Estimate \in [Calls -> Tokens]
  /\ Usages \subseteq Tokens
  /\ TaskLimit \in Limits
  /\ ScopeLimit \in [Scopes -> Limits]

VARIABLES
  phase,     \* where the metered adapter is with a call
  row,       \* reservation of a call
  spent,     \* what the provider charges for a call
  isolating, \* calls task recovery has found unknown, not yet isolated
  late,      \* calls whose late receipt has been read, not yet settled
  freed,     \* history: reservations released although they were sent
  leaked,    \* history: reservations whose owner gave up without settling
  reopened   \* history: committed calls that task recovery settled again

vars == <<phase, row, spent, isolating, late, freed, leaked, reopened>>

(* refused: not admitted, about to sweep; retry: about to ask once more;   *)
(* sent: the request is with the provider.                                 *)
Phase == {"idle", "refused", "retry", "admitted", "sent", "done"}

RowStatus == {"none", "reserved", "committed", "isolated", "released"}

NoTokens == [in |-> 0, out |-> 0]

(* Receipts: of the call itself, of task recovery, and one that came late. *)
Receipt == {"none", "own", "isolate", "late"}

NoRow ==
  [status |-> "none", dispatched |-> FALSE, settled |-> NoTokens,
   receipt |-> "none", revision |-> 0]

TypeOK ==
  /\ phase \in [Calls -> Phase]
  /\ row \in [Calls -> [status: RowStatus, dispatched: BOOLEAN,
                        settled: Tokens, receipt: Receipt, revision: 0 .. 2]]
  /\ spent \in [Calls -> Usages \cup {NoTokens}]
  /\ isolating \subseteq WriteCalls
  /\ late \subseteq WriteCalls
  /\ freed \subseteq Calls
  /\ leaked \subseteq Calls
  /\ reopened \subseteq WriteCalls

Init ==
  /\ phase = [c \in Calls |-> "idle"]
  /\ row = [c \in Calls |-> NoRow]
  /\ spent = [c \in Calls |-> NoTokens]
  /\ isolating = {}
  /\ late = {}
  /\ freed = {}
  /\ leaked = {}
  /\ reopened = {}

(***************************************************************************)
(* The ledger.                                                             *)
(***************************************************************************)

Total(tokens) == tokens.in + tokens.out

(* Token by token, as a set that can be reasoned about. *)
Sum(S, amount(_)) == Cardinality(UNION {{c} \X (1 .. amount(c)) : c \in S})

InStatus(S, statuses) == {c \in S : row[c].status \in statuses}

(* ActiveExecutionUsage over the rows of the calls S. *)
ConsumedTotal(S) ==
  Sum(InStatus(S, {"committed", "isolated"}), LAMBDA c : Total(row[c].settled))

ConsumedOutput(S) ==
  Sum(InStatus(S, {"committed", "isolated"}), LAMBDA c : row[c].settled.out)

ReservedTotal(S) == Sum(InStatus(S, {"reserved"}), LAMBDA c : Total(Estimate[c]))

(* An isolated call may still cost the rest of its estimate. *)
IsolatedTotal(S) ==
  Sum({c \in InStatus(S, {"isolated"}) : Total(row[c].settled) <= Total(Estimate[c])},
      LAMBDA c : Total(Estimate[c]) - Total(row[c].settled))

(* Committed calls are not counted. *)
Attempts(S) == Cardinality(InStatus(S, {"reserved", "isolated"}))

(* admitPolicy: output looks at what is consumed only. *)
AdmitPolicy(limit, S, c) ==
  /\ ConsumedTotal(S) + ReservedTotal(S) + IsolatedTotal(S) + Total(Estimate[c]) <= limit.total
  /\ ConsumedOutput(S) + Estimate[c].out <= limit.output
  /\ Attempts(S) + 1 <= limit.attempts

InScope(s) == {c \in Calls : ScopeOf[c] = s}

FitsTask(c) == AdmitPolicy(TaskLimit, Calls, c) \* mutant: the child's policy is forgotten

Fits(c) ==
  /\ AdmitPolicy(TaskLimit, Calls, c)
  /\ AdmitPolicy(ScopeLimit[ScopeOf[c]], InScope(ScopeOf[c]), c)

(***************************************************************************)
(* The metered adapter.                                                    *)
(***************************************************************************)

(* AdmitCall: check, attempt intent and reservation in one transaction. *)
AdmitCall(c) ==
  /\ phase[c] \in {"idle", "retry"}
  /\ Fits(c)
  /\ row' = [row EXCEPT ![c].status = "reserved"]
  /\ phase' = [phase EXCEPT ![c] = "admitted"]
  /\ UNCHANGED <<spent, isolating, late, freed, leaked, reopened>>

(* The first refusal leads to the sweep, the second is final. *)
Refuse(c) ==
  /\ phase[c] \in {"idle", "retry"}
  /\ ~ Fits(c)
  /\ phase' = [phase EXCEPT ![c] = IF @ = "idle" THEN "refused" ELSE "done"]
  /\ UNCHANGED <<row, spent, isolating, late, freed, leaked, reopened>>

Greedy == {"reserved", "isolated", "committed"} \* mutant: the sweep takes all

Timid == {"isolated"} \* mutant: the sweep leaves reservations alone

SweepStatuses == {"reserved", "isolated"}

(* recoverOrphanedReservations releases every open row, sent or not. *)
Swept == InStatus(Calls, SweepStatuses)

Release(S) ==
  /\ row' = [c \in Calls |-> IF c \in S THEN [row[c] EXCEPT !.status = "released"] ELSE row[c]]
  /\ freed' = freed \cup {c \in S : row[c].dispatched}

(* The sweep of the task after a refusal, in a statement of its own. *)
SweepTask(c) ==
  /\ phase[c] = "refused"
  /\ Release(Swept)
  /\ phase' = [phase EXCEPT ![c] = IF Swept = {} THEN "done" ELSE "retry"]
  /\ UNCHANGED <<spent, isolating, late, leaked, reopened>>

(* The call is given up before it is sent: ReleaseUnsent, whose error - of *)
(* the state of the row or of the store - is dropped.                      *)
GiveUp(c) ==
  /\ phase[c] = "admitted"
  /\ phase' = [phase EXCEPT ![c] = "done"]
  /\ \/ /\ row[c].status = "reserved" /\ ~ row[c].dispatched
        /\ row' = [row EXCEPT ![c].status = "released"]
        /\ UNCHANGED leaked
     \/ /\ leaked' = leaked \cup InStatus({c}, {"reserved"})
        /\ UNCHANGED row
  /\ UNCHANGED <<spent, isolating, late, freed, reopened>>

(* MarkDispatched commits, then the request goes out. *)
MarkDispatched(c) ==
  /\ phase[c] = "admitted"
  /\ row[c].status = "reserved"
  /\ row' = [row EXCEPT ![c].dispatched = TRUE]
  /\ phase' = [phase EXCEPT ![c] = "sent"]
  /\ \E u \in Usages : spent' = [spent EXCEPT ![c] = u]
  /\ UNCHANGED <<isolating, late, freed, leaked, reopened>>

(***************************************************************************)
(* Settlement.                                                             *)
(***************************************************************************)

(* What a "reported" settlement writes: never less than what is there. *)
Reported(known, usage) ==
  [in |-> IF usage.in < known.in THEN known.in ELSE usage.in,
   out |-> IF usage.out < known.out THEN known.out ELSE usage.out]

RawStatus(integrity) == integrity \* mutant: the integrity of the usage as a status

StatusOf(integrity) == IF integrity = "reported" THEN "committed" ELSE "isolated"

(* SettleCall.  An older revision and a repetition change nothing; each    *)
(* receipt comes with one digest, so that none conflicts.  The status of   *)
(* the row is not asked.                                                   *)
SettleCall(c, m) ==
  LET r == row[c]
      stale == m.revision < r.revision \/ (m.receipt = r.receipt /\ m.revision = r.revision)
  IN  row' = IF stale THEN row
             ELSE [row EXCEPT ![c] =
                    [status |-> StatusOf(m.integrity),
                     dispatched |-> TRUE,
                     settled |-> IF m.integrity = "reported" THEN Reported(r.settled, m.usage) ELSE m.usage,
                     receipt |-> m.receipt,
                     revision |-> m.revision]]

(* What the adapter has seen of the usage when the stream ends: everything *)
(* or, when it breaks, any part.                                           *)
Seen(usage) == {u \in Usages : u.in <= usage.in /\ u.out <= usage.out}

(* The adapter settles whatever it has seen as "reported". *)
Settle(c) ==
  /\ phase[c] = "sent"
  /\ \E u \in Seen(spent[c]) :
       SettleCall(c, [receipt |-> "own", revision |-> 1, integrity |-> "reported", usage |-> u])
  /\ phase' = [phase EXCEPT ![c] = "done"]
  /\ UNCHANGED <<spent, isolating, late, freed, leaked, reopened>>

(* Both tries to settle fail. *)
SettleLost(c) ==
  /\ phase[c] = "sent"
  /\ phase' = [phase EXCEPT ![c] = "done"]
  /\ leaked' = leaked \cup {c}
  /\ UNCHANGED <<row, spent, isolating, late, freed, reopened>>

(* ResumeUnknownEffect: found in one transaction ... *)
ResumeUnknown(c) ==
  /\ c \in WriteCalls
  /\ row[c].status = "reserved" /\ row[c].dispatched
  /\ isolating' = isolating \cup {c}
  /\ UNCHANGED <<phase, row, spent, late, freed, leaked, reopened>>

(* Task recovery settles a row the call itself has committed since task    *)
(* recovery read it.                                                       *)
Overtaken(c) == {d \in {c} : row[d].status = "committed" /\ row' # row}

(* ... and isolated in another. *)
Isolate(c) ==
  /\ c \in isolating
  /\ SettleCall(c, [receipt |-> "isolate", revision |-> 1, integrity |-> "unknown", usage |-> NoTokens])
  /\ isolating' = isolating \ {c}
  /\ reopened' = reopened \cup Overtaken(c)
  /\ UNCHANGED <<phase, spent, late, freed, leaked>>

(* ApplyLateReceipt: the reservation is read ... *)
ReceiveLate(c) ==
  /\ c \in WriteCalls
  /\ row[c].dispatched
  /\ row[c].status # "committed"
  /\ late' = late \cup {c}
  /\ UNCHANGED <<phase, row, spent, isolating, freed, leaked, reopened>>

(* ... and then settled. *)
SettleLate(c) ==
  /\ c \in late
  /\ \E revision \in 1 .. 2 :
       SettleCall(c, [receipt |-> "late", revision |-> revision, integrity |-> "reported", usage |-> spent[c]])
  /\ late' = late \ {c}
  /\ reopened' = reopened \cup Overtaken(c)
  /\ UNCHANGED <<phase, spent, isolating, freed, leaked>>

(* The engine dies and starts again: the calls in flight are gone, every   *)
(* open reservation is released before anything else happens.              *)
Restart ==
  /\ Release(Swept)
  /\ phase' = [c \in Calls |-> IF phase[c] = "idle" THEN "idle" ELSE "done"]
  /\ isolating' = {}
  /\ late' = {}
  /\ UNCHANGED <<spent, leaked, reopened>>

-----------------------------------------------------------------------------

AdapterStep ==
  \E c \in Calls :
    \/ AdmitCall(c) \/ Refuse(c) \/ SweepTask(c) \/ GiveUp(c) \/ MarkDispatched(c)
    \/ Settle(c) \/ SettleLost(c)

RecoveryStep ==
  \/ Restart
  \/ \E c \in Calls : ResumeUnknown(c) \/ Isolate(c) \/ ReceiveLate(c) \/ SettleLate(c)

Next == AdapterStep \/ RecoveryStep

Spec == Init /\ [][Next]_vars

-----------------------------------------------------------------------------
(***************************************************************************)
(* Properties.                                                             *)
(***************************************************************************)

(* However many calls of a turn are admitted, settled, isolated and        *)
(* resumed at the same time, what is consumed and what may still be        *)
(* consumed stay within the policy of the task and of every scope - as     *)
(* long as no call has cost more than its estimate, no reservation was     *)
(* swept away under a call that had been sent, and task recovery has not   *)
(* settled a call that committed after recovery had found it unknown: the  *)
(* tokens such a call had given back may have been reserved by another.    *)
WithinBudget ==
  (\A c \in Calls : Total(row[c].settled) <= Total(Estimate[c])) /\ freed = {} /\ reopened = {} =>
    \A b \in {<<TaskLimit, Calls>>} \cup {<<ScopeLimit[s], InScope(s)>> : s \in Scopes} :
      /\ ConsumedTotal(b[2]) + ReservedTotal(b[2]) + IsolatedTotal(b[2]) <= b[1].total
      /\ Attempts(b[2]) <= b[1].attempts

(* An open reservation, which blocks other calls, has an owner that will   *)
(* settle it, or is one that an owner of this very engine leaked; the next *)
(* start frees it.  And a request is only with the provider once its       *)
(* reservation was committed as dispatched, even if a sweep came between   *)
(* admission and dispatch.                                                 *)
ReservedHasOwner ==
  \A c \in Calls :
    /\ row[c].status = "reserved" => phase[c] \in {"admitted", "sent"} \/ c \in leaked
    /\ phase[c] = "sent" => row[c].status # "released" \/ c \in freed

(* What a model call has been charged stays charged: no sweep, restart or  *)
(* second settlement takes it from the ledger again.                       *)
ChargeStays ==
  [][\A c \in Calls \ WriteCalls : row[c].status = "committed" => row'[c] = row[c]]_vars
=============================================================================

--------------------------- MODULE ChangeSetRuntime ---------------------------
(***************************************************************************)
(* Reviewed change sets of the agent runtime: preview, approval, apply and *)
(* revert of a plan of file operations, each apply and revert being a      *)
(* prepare transaction, a file phase outside the store with a check before *)
(* every write and compensation behind it, and a finalize transaction;     *)
(* the retry of a prepared effect; and what a crash, a lost connection,    *)
(* agent.run.reconcile and the recovery scan do in between.                *)
(*                                                                         *)
(* The model follows one run and the change sets of one plan, previewed on *)
(* the same base.  Their approval digests are equal: the digest binds run, *)
(* base and operations, not the identity of the set.                       *)
(***************************************************************************)
EXTENDS AgentRunDomain, Naturals, Sequences

CONSTANTS
  Sets,     \* identities of change sets
  Plan,     \* the operations: a sequence over OpKind, one path each
  Leases,   \* workspace leases a request can name
  Handlers, \* requests in flight at the same time
  None      \* "no value"

OpKind == {"create", "update", "delete"}

ASSUME PlanAssumption == Plan \in Seq(OpKind) /\ Len(Plan) > 0

Action == {"apply", "revert"}

Paths == 1 .. Len(Plan)

VARIABLES
  runStatus,  \* status of the run
  audited,    \* actions audited at the present version of the run row
  pending,    \* action of the latest AgentRunReviewRequested event
  approval,   \* approval of each action: "none", "granted", "consumed"
  setStatus,  \* status of each change set, "none" before its preview
  effect,     \* journal row "changeset.<action>/<set>"
  bound,      \* the lease in the request digest of that row
  live,       \* leases that have not expired
  file,       \* content of each path: "original", "planned" or "foreign"
  handler,    \* requests between their transactions
  engine,     \* "down" or "ready"
  edited,     \* history: paths an outsider has changed
  written,    \* history: effects on whose behalf a path was written
  torn        \* history: effects a request left behind half-way

runVars == <<runStatus, audited, pending, approval>>
setVars == <<setStatus, effect, bound, live>>
fileVars == <<file, edited, written>>
vars == <<runVars, setVars, fileVars, handler, engine, torn>>

ApprovalState == {"none", "granted", "consumed"}

Effects == Sets \X Action

Content == {"original", "planned", "foreign"}

(* classify: a retry looks at the tree; check and write: the forward pass; *)
(* uncheck and unwrite: compensation; fail and finalize: the closing       *)
(* transaction is due.  "at" counts the operations in the order of the     *)
(* action, "verdict" is what a failure will put into the journal.          *)
Phase == {"classify", "check", "write", "uncheck", "unwrite", "fail", "finalize"}

Request ==
  [set: Sets, action: Action, phase: Phase, at: Paths,
   verdict: {"failed", "outcome_unknown"}]

ASSUME NoneAssumption == None \notin Leases \cup Sets \cup Request

Audited == {"review.reject", "agent.run.reconcile"}

TypeOK ==
  /\ runStatus \in RunStatus
  /\ audited \subseteq Audited
  /\ pending \in Action \cup {None}
  /\ approval \in [Action -> ApprovalState]
  /\ setStatus \in [Sets -> ChangeSetStatus \cup {"none"}]
  /\ effect \in [Effects -> EffectStatus \cup {"none"}]
  /\ bound \in [Effects -> Leases \cup {None}]
  /\ live \subseteq Leases
  /\ file \in [Paths -> Content]
  /\ handler \in [Handlers -> Request \cup {None}]
  /\ engine \in {"down", "ready"}
  /\ edited \subseteq Paths
  /\ written \subseteq Effects
  /\ torn \subseteq Effects

Init ==
  /\ runStatus = "running"
  /\ audited = {}
  /\ pending = None
  /\ approval = [a \in Action |-> "none"]
  /\ setStatus = [s \in Sets |-> "none"]
  /\ effect = [e \in Effects |-> "none"]
  /\ bound = [e \in Effects |-> None]
  /\ live = Leases
  /\ file = [p \in Paths |-> "original"]
  /\ handler = [h \in Handlers |-> None]
  /\ engine = "ready"
  /\ edited = {}
  /\ written = {}
  /\ torn = {}

(***************************************************************************)
(* The run and its reviews.                                                *)
(***************************************************************************)

(* TransitionRun: the machine of the domain and a version bump. *)
MoveRun(to) ==
  /\ RunTransition(runStatus, to)
  /\ runStatus' = to
  /\ audited' = {}

(* The kernel, a client or the budget ends, pauses or resumes the run. *)
RunMoves ==
  /\ engine = "ready"
  /\ \/ runStatus = "running" /\ \E to \in {"completed", "failed", "cancelled", "paused_budget"} : MoveRun(to)
     \/ runStatus = "paused_budget" /\ MoveRun("running")
  /\ UNCHANGED <<pending, approval, setVars, fileVars, handler, engine, torn>>

(* review.decide, approved: one approval row per digest and action. *)
Approve ==
  /\ engine = "ready"
  /\ runStatus = "paused_review"
  /\ pending # None
  /\ approval[pending] = "none"
  /\ approval' = [approval EXCEPT ![pending] = "granted"]
  /\ MoveRun("running")
  /\ UNCHANGED <<pending, setVars, fileVars, handler, engine, torn>>

(* review.decide, rejected: the run stays where it is. *)
Reject ==
  /\ engine = "ready"
  /\ runStatus = "paused_review"
  /\ pending # None
  /\ "review.reject" \notin audited
  /\ audited' = audited \cup {"review.reject"}
  /\ UNCHANGED <<runStatus, pending, approval, setVars, fileVars, handler, engine, torn>>

(* agent.run.reconcile: once per version of the run row, prepared effects  *)
(* become unknown, also those of a request that is still at work.          *)
Reconcile ==
  /\ engine = "ready"
  /\ "agent.run.reconcile" \notin audited
  /\ audited' = audited \cup {"agent.run.reconcile"}
  /\ effect' = [e \in Effects |-> IF effect[e] = "prepared" THEN "outcome_unknown" ELSE effect[e]]
  /\ UNCHANGED <<runStatus, pending, approval, setStatus, bound, live, fileVars, handler, engine, torn>>

LeaseExpires(l) ==
  /\ l \in live
  /\ live' = live \ {l}
  /\ UNCHANGED <<runVars, setStatus, effect, bound, fileVars, handler, engine, torn>>

(***************************************************************************)
(* The transactions before the file phase.                                 *)
(***************************************************************************)

(* changeset.preview: snapshots the base and asks for a review. *)
Preview(s, l) ==
  /\ engine = "ready"
  /\ setStatus[s] = "none"
  /\ l \in live
  /\ \A p \in Paths : file[p] = "original"
  /\ MoveRun("paused_review")
  /\ setStatus' = [setStatus EXCEPT ![s] = "previewed"]
  /\ pending' = "apply"
  /\ UNCHANGED <<approval, effect, bound, live, fileVars, handler, engine, torn>>

(* What the set is while its apply, or its revert, is under way. *)
Base(action) == IF action = "apply" THEN "approved" ELSE "applied"

KeepReview(action) == \* mutant: the approval stays valid
  /\ approval[action] = "granted"
  /\ UNCHANGED approval

(* ConsumeReview of this run, digest and action. *)
ConsumeReview(action) ==
  /\ approval[action] = "granted"
  /\ approval' = [approval EXCEPT ![action] = "consumed"]

Begin(h, s, action, phase) ==
  /\ handler[h] = None
  /\ handler' = [handler EXCEPT ![h] =
       [set |-> s, action |-> action, phase |-> phase, at |-> 1, verdict |-> "failed"]]

(* First request: all guards and the approval precede the journal row. *)
Prepare(h, s, action, l) ==
  /\ engine = "ready"
  /\ effect[<<s, action>>] = "none"
  /\ setStatus[s] = (IF action = "apply" THEN "previewed" ELSE "applied")
  /\ runStatus = "running"
  /\ l \in live
  /\ ConsumeReview(action)
  /\ setStatus' = [setStatus EXCEPT ![s] = Base(action)]
  /\ effect' = [effect EXCEPT ![<<s, action>>] = "prepared"]
  /\ bound' = [bound EXCEPT ![<<s, action>>] = l]
  /\ Begin(h, s, action, "check")
  /\ UNCHANGED <<runStatus, audited, pending, live, fileVars, engine, torn>>

(* The same request again, after a crash or a lost reply - or while the    *)
(* first one is still at work: no guard tells them apart.  It must name    *)
(* the lease of the first request and neither run nor approval is asked.   *)
Retry(h, s, action, l) ==
  /\ engine = "ready"
  /\ effect[<<s, action>>] = "prepared"
  /\ setStatus[s] = Base(action)
  /\ bound[<<s, action>>] = l
  /\ l \in live
  /\ Begin(h, s, action, "classify")
  /\ UNCHANGED <<runVars, setVars, fileVars, engine, torn>>

(***************************************************************************)
(* The file phase, outside any transaction.                                *)
(***************************************************************************)

At(h, phase) == handler[h] # None /\ handler[h].phase = phase

(* Apply goes through the plan forwards, revert backwards. *)
PathOf(r) == IF r.action = "apply" THEN r.at ELSE Len(Plan) + 1 - r.at

Source(action) == IF action = "apply" THEN "original" ELSE "planned"

Target(action) == IF action = "apply" THEN "planned" ELSE "original"

(* Contents that mean the path does not exist. *)
Absent(p, content) ==
  \/ Plan[p] = "create" /\ content = "original"
  \/ Plan[p] = "delete" /\ content = "planned"

(* Whether the file system carries out a write of r to its path: a remove  *)
(* needs the file, a create needs its absence (apply and every undo create *)
(* exclusively, the revert of a delete does not), a replace needs nothing. *)
Works(r, content) ==
  LET p == PathOf(r)
      exclusive == Plan[p] # "update" /\ ~ (r.action = "revert" /\ r.phase = "write")
  IN  IF Absent(p, content) THEN ~ Absent(p, file[p])
      ELSE exclusive => Absent(p, file[p])

BackShort(r) == \* mutant: the last write is forgotten
  IF r.at <= 2 THEN [r EXCEPT !.phase = "fail"]
  ELSE [r EXCEPT !.phase = "uncheck", !.at = @ - 2]

(* A failed request takes back what it did, last write first, and then     *)
(* closes.                                                                 *)
Back(r) ==
  IF r.at = 1 THEN [r EXCEPT !.phase = "fail"]
  ELSE [r EXCEPT !.phase = "uncheck", !.at = @ - 1]

Becomes(h, r) == handler' = [handler EXCEPT ![h] = r]

(* A retry finds its work done, not begun, or - a path in between, changed *)
(* or unreadable - fails closed without touching the tree.                 *)
ClassifyBlind(h) == \* mutant: a prepared effect is taken for a finished one
  /\ At(h, "classify")
  /\ Becomes(h, [handler[h] EXCEPT !.phase = "finalize"])
  /\ UNCHANGED <<runVars, setVars, fileVars, engine, torn>>

Classify(h) ==
  /\ At(h, "classify")
  /\ LET r == handler[h]
     IN  \/ (\A p \in Paths : file[p] = Target(r.action)) /\ Becomes(h, [r EXCEPT !.phase = "finalize"])
         \/ (\A p \in Paths : file[p] = Source(r.action)) /\ Becomes(h, [r EXCEPT !.phase = "check"])
         \/ Becomes(h, [r EXCEPT !.phase = "fail"])
  /\ UNCHANGED <<runVars, setVars, fileVars, engine, torn>>

(* The path guard and the compare before a write. *)
Check(h) ==
  /\ At(h, "check")
  /\ LET r == handler[h]
     IN  \/ file[PathOf(r)] = Source(r.action) /\ Becomes(h, [r EXCEPT !.phase = "write"])
         \/ Becomes(h, Back(r))
  /\ UNCHANGED <<runVars, setVars, fileVars, engine, torn>>

ForwardEarly(r) == \* mutant: the last operation is left out
  IF r.at + 1 >= Len(Plan) THEN [r EXCEPT !.phase = "finalize"]
  ELSE [r EXCEPT !.phase = "check", !.at = @ + 1]

(* On to the next operation, or to the finalize transaction. *)
Forward(r) ==
  IF r.at = Len(Plan) THEN [r EXCEPT !.phase = "finalize"]
  ELSE [r EXCEPT !.phase = "check", !.at = @ + 1]

(* The write itself, atomic on its own, not together with the compare. *)
Write(h) ==
  /\ At(h, "write")
  /\ LET r == handler[h]
     IN  \/ /\ Works(r, Target(r.action))
            /\ file' = [file EXCEPT ![PathOf(r)] = Target(r.action)]
            /\ written' = written \cup {<<r.set, r.action>>}
            /\ Becomes(h, Forward(r))
         \/ /\ Becomes(h, Back(r))
            /\ UNCHANGED <<file, written>>
  /\ UNCHANGED <<runVars, setVars, edited, engine, torn>>

DoubtConflict(r) == [r EXCEPT !.verdict = "conflicted"] \* mutant: a set status

(* What could not be taken back leaves the outcome unknown. *)
Doubt(r) == [r EXCEPT !.verdict = "outcome_unknown"]

(* Compensation compares and writes in the same way; whatever it cannot    *)
(* take back makes the outcome unknown, and it goes on with the next path. *)
Uncheck(h) ==
  /\ At(h, "uncheck")
  /\ LET r == handler[h]
     IN  \/ file[PathOf(r)] = Target(r.action) /\ Becomes(h, [r EXCEPT !.phase = "unwrite"])
         \/ Becomes(h, Back(Doubt(r)))
  /\ UNCHANGED <<runVars, setVars, fileVars, engine, torn>>

Unwrite(h) ==
  /\ At(h, "unwrite")
  /\ LET r == handler[h]
     IN  \/ /\ Works(r, Source(r.action))
            /\ file' = [file EXCEPT ![PathOf(r)] = Source(r.action)]
            /\ Becomes(h, Back(r))
         \/ /\ Becomes(h, Back(Doubt(r)))
            /\ UNCHANGED file
  /\ UNCHANGED <<runVars, setVars, edited, written, engine, torn>>

(***************************************************************************)
(* The transactions after the file phase.                                  *)
(***************************************************************************)

Closes(h) == handler' = [handler EXCEPT ![h] = None]

AlwaysResolves(r, to) == TRUE \* mutant: the journal row is overwritten

(* Both transactions read the journal row afresh and ask its machine. *)
Resolves(r, to) == EffectResolve(effect[<<r.set, r.action>>], to)

(* Only finalize reads the status of the set again. *)
StillOpen(r) == setStatus[r.set] = Base(r.action)

Settle(r, status, verdict) ==
  /\ setStatus' = [setStatus EXCEPT ![r.set] = status]
  /\ effect' = [effect EXCEPT ![<<r.set, r.action>>] = verdict]

(* failPreparedChangeSet writes the set from the request's own snapshot,   *)
(* taken when it was prepared: whatever the row says by now is replaced.   *)
(* A set is audited as conflicted once: the id of the audit row is a hash  *)
(* of request, set and action.                                             *)
Fail(h) ==
  /\ At(h, "fail")
  /\ setStatus[handler[h].set] # "conflicted"
  /\ Resolves(handler[h], handler[h].verdict)
  /\ Settle(handler[h], "conflicted", handler[h].verdict)
  /\ Closes(h)
  /\ UNCHANGED <<runVars, bound, live, fileVars, engine, torn>>

(* The finalize transaction; that of an apply also pauses the run for the  *)
(* review of the revert, and is refused when the run is not running.       *)
Finalize(h) ==
  /\ At(h, "finalize")
  /\ StillOpen(handler[h])
  /\ Resolves(handler[h], "committed")
  /\ IF handler[h].action = "apply"
     THEN /\ Settle(handler[h], "applied", "committed")
          /\ MoveRun("paused_review")
          /\ pending' = "revert"
     ELSE /\ Settle(handler[h], "reverted", "committed")
          /\ UNCHANGED <<runStatus, audited, pending>>
  /\ Closes(h)
  /\ UNCHANGED <<approval, bound, live, fileVars, engine, torn>>

(* The closing transaction is refused, or fails with the connection whose  *)
(* context it uses: the request ends, everything stays as it is.           *)
Abandon(h) ==
  /\ At(h, "fail") \/ At(h, "finalize")
  /\ torn' = torn \cup {<<handler[h].set, handler[h].action>>}
  /\ Closes(h)
  /\ UNCHANGED <<runVars, setVars, fileVars, engine>>

(***************************************************************************)
(* The surroundings.                                                       *)
(***************************************************************************)

(* Somebody else changes a file.  What an outsider leaves is always a      *)
(* third content: nobody does by chance what the plan would have done.     *)
Outsider(p) ==
  /\ file' = [file EXCEPT ![p] = "foreign"]
  /\ edited' = edited \cup {p}
  /\ UNCHANGED <<runVars, setVars, written, handler, engine, torn>>

Busy == {h \in Handlers : handler[h] # None}

Crash ==
  /\ engine = "ready"
  /\ engine' = "down"
  /\ handler' = [h \in Handlers |-> None]
  /\ torn' = torn \cup {<<handler[h].set, handler[h].action>> : h \in Busy}
  /\ UNCHANGED <<runVars, setVars, fileVars>>

(* RunRecoveryScanner: a run with a prepared effect is skipped. *)
Protected == \E e \in Effects : effect[e] = "prepared"

RecoveryScan ==
  /\ IF ~ Protected /\ runStatus \in RunActive
     THEN runStatus' = "interrupted" /\ audited' = {}
     ELSE UNCHANGED <<runStatus, audited>>
  /\ UNCHANGED <<pending, approval, setVars, fileVars, handler, torn>>

Boot ==
  /\ engine = "down"
  /\ RecoveryScan
  /\ engine' = "ready"

(* The diagnostics page of a running engine runs the same scan. *)
DiagnosticsScan ==
  /\ engine = "ready"
  /\ RecoveryScan
  /\ UNCHANGED engine

-----------------------------------------------------------------------------

RunStep ==
  \/ RunMoves \/ Approve \/ Reject \/ Reconcile
  \/ \E l \in Leases : LeaseExpires(l) \/ \E s \in Sets : Preview(s, l)

HandlerStep ==
  \E h \in Handlers :
    \/ \E s \in Sets, a \in Action, l \in Leases : Prepare(h, s, a, l) \/ Retry(h, s, a, l)
    \/ Classify(h) \/ Check(h) \/ Write(h) \/ Uncheck(h) \/ Unwrite(h)
    \/ Fail(h) \/ Finalize(h) \/ Abandon(h)

SurroundingStep ==
  \/ Crash \/ Boot \/ DiagnosticsScan
  \/ \E p \in Paths : Outsider(p)

Next == RunStep \/ HandlerStep \/ SurroundingStep

Spec == Init /\ [][Next]_vars

-----------------------------------------------------------------------------
(***************************************************************************)
(* Properties.                                                             *)
(***************************************************************************)

(* The row of a set and its two journal rows tell the same story at every  *)
(* commit, however many requests for the same set overlap - although a     *)
(* failing request writes the set from a snapshot that may be out of date. *)
SetEffectAgree ==
  \A s \in Sets :
    LET apply == effect[<<s, "apply">>]
        revert == effect[<<s, "revert">>]
        open == {"prepared", "outcome_unknown"}
    IN  /\ setStatus[s] \in {"none", "draft", "previewed"} => apply = "none" /\ revert = "none"
        /\ setStatus[s] = "approved" => apply \in open /\ revert = "none"
        /\ setStatus[s] = "applied" => apply = "committed" /\ revert \in open \cup {"none"}
        /\ setStatus[s] = "reverted" => apply = "committed" /\ revert = "committed"
        /\ setStatus[s] = "conflicted" =>
             \/ apply \in {"failed", "outcome_unknown"} /\ revert = "none"
             \/ apply = "committed" /\ revert \in {"failed", "outcome_unknown"}

(* A set only ever moves along its state machine: the stale snapshot of a  *)
(* late request never takes an applied or reverted set back.               *)
SetFollowsMachine ==
  [][\A s \in Sets :
       \/ setStatus'[s] = setStatus[s]
       \/ setStatus[s] = "none" /\ setStatus'[s] = "previewed"
       \/ ChangeSetTransition(setStatus[s], setStatus'[s])]_vars

(* An approval pays for the apply, or the revert, of one set: not for a    *)
(* second set with the same digest, and not for a second try.              *)
OneSetPerApproval ==
  \A a \in Action :
    LET paid == {s \in Sets : effect[<<s, a>>] # "none"}
    IN  /\ approval[a] = "consumed" <=> paid # {}
        /\ \A s, t \in paid : s = t

(* What the tree must look like, outsiders aside, once the journal calls   *)
(* an apply or a revert committed: the whole plan is in place, or gone.    *)
TreeFollowsReceipt ==
  \A s \in Sets :
    /\ setStatus[s] = "applied" /\ effect[<<s, "revert">>] = "none" =>
         \A p \in Paths \ edited : file[p] = "planned"
    /\ setStatus[s] = "reverted" =>
         \A p \in Paths \ edited : file[p] = "original"

(* A request that failed in one piece has taken everything back. *)
FailedIsClean ==
  \A s \in Sets, a \in Action :
    effect[<<s, a>>] = "failed" /\ <<s, a>> \notin torn =>
      \A p \in Paths \ edited : file[p] = Source(a)

(* Applying and reverting implement write-ahead effects, as long as no two *)
(* requests for one set overlap.                                           *)
Journal == INSTANCE WriteAheadEffect WITH
  Effects <- Effects, journal <- effect, acted <- written

ImplementsJournal == Journal!Spec
=============================================================================

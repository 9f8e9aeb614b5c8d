---------------------------- MODULE QueueDelivery ----------------------------
(***************************************************************************)
(* Input a user adds while a session is busy.  Queued items are claimed in *)
(* batches; a batch (a delivery) is written into the history, then handed  *)
(* over to a stream of the model, and confirmed when that stream answered. *)
(* Two consumers take deliveries: the renderer, which starts a new turn    *)
(* with one, and the running stream, which adds one to its own turn.       *)
(*                                                                         *)
(* The session reservation lets one of run.queueConsume, chat.start, a     *)
(* rewind and a stream work at a time; run.queueInput, run.queueWithdraw   *)
(* and run.queueList take no reservation.  The process may die between any *)
(* two steps: the store stays, the memory goes.                            *)
(***************************************************************************)
EXTENDS Naturals, FiniteSets, Sequences

CONSTANTS
  MaxItems,   \* bound: items, numbered in the order of their seq
  Pivots,     \* items whose text changes the task: they start a turn of their own
  Capacity,   \* MaxQueuedPerSession
  MaxStreams, \* bound: streams, numbered in the order of their ids
  MaxAsked    \* bound: resumes of each delivery by the user

Items == 1 .. MaxItems

(* A delivery holds at least one item, so there are no more of them. *)
Deliveries == 1 .. MaxItems

Streams == 1 .. MaxStreams

Renderer == 0

Consumers == {Renderer} \cup Streams

NoDelivery == 0

NoStream == 0

ASSUME QueueAssumption ==
  /\ MaxItems \in Nat /\ MaxStreams \in Nat /\ MaxAsked \in Nat
  /\ Capacity \in Nat \ {0}
  /\ Pivots \subseteq Items

VARIABLES
  \* durable
  item,      \* status of a queued item
  batch,     \* delivery an item belongs to
  delivery,  \* delivery record
  receipts,  \* items with a permanent receipt of their message
  log,       \* items whose message is in the history, in its order
  \* in memory
  turn,      \* who holds the session reservation, and where it is
  listing,   \* a run.queueList under way
  \* history
  streams,   \* streams so far
  handed,    \* number of times an item was handed over to a stream
  asked,     \* number of times the user had a delivery resumed
  dismissed, \* deliveries the user dismissed
  answered   \* deliveries a completed stream settled

stored == <<item, batch, delivery, receipts, log>>
counted == <<streams, handed, asked, dismissed, answered>>

vars == <<stored, turn, listing, counted>>

DeliveryState == {"none", "claimed", "prepared", "started", "unknown", "confirmed"}

DeliveryRecord == [state: DeliveryState, consumer: Consumers, stream: {NoStream} \cup Streams]

NoRecord == [state |-> "none", consumer |-> Renderer, stream |-> NoStream]

(* "found" is a delivery the renderer was returned and has not reconciled   *)
(* yet; "prepare" writes the messages; "start" hands over; "begun", "loop", *)
(* "claim", "check" and "ending" are stations of the stream.                *)
Stations == {"idle", "found", "prepare", "start", "begun", "loop", "claim", "check", "ending"}

(* passed: items of d whose message was found or written; ok: how it ended. *)
Turn == [by: {"none", "consume", "chat", "stream"}, at: Stations,
         d: {NoDelivery} \cup Deliveries, passed: SUBSET Items,
         id: {NoStream} \cup Streams, ok: BOOLEAN]

Free == [by |-> "none", at |-> "idle", d |-> NoDelivery, passed |-> {},
         id |-> NoStream, ok |-> FALSE]

Listing == [at: {"none", "read", "mark"}, d: {NoDelivery} \cup Deliveries,
            owner: Consumers]

NoListing == [at |-> "none", d |-> NoDelivery, owner |-> Renderer]

TypeOK ==
  /\ item \in [Items -> {"absent", "queued", "injected", "withdrawn"}]
  /\ Cardinality({i \in Items: item[i] = "queued"}) <= Capacity
  /\ batch \in [Items -> {NoDelivery} \cup Deliveries]
  /\ delivery \in [Deliveries -> DeliveryRecord]
  /\ receipts \subseteq Items
  /\ log \in Seq(receipts)
  /\ turn \in Turn
  /\ turn.at \in {"found", "prepare", "start", "check"} => turn.d # NoDelivery
  /\ listing \in Listing
  /\ streams \in {NoStream} \cup Streams
  /\ handed \in [Items -> Nat]
  /\ asked \in [Deliveries -> 0 .. MaxAsked]
  /\ dismissed \subseteq Deliveries /\ answered \subseteq Deliveries

Init ==
  /\ item = [i \in Items |-> "absent"]
  /\ batch = [i \in Items |-> NoDelivery]
  /\ delivery = [d \in Deliveries |-> NoRecord]
  /\ receipts = {} /\ log = <<>>
  /\ turn = Free /\ listing = NoListing
  /\ streams = 0
  /\ handed = [i \in Items |-> 0]
  /\ asked = [d \in Deliveries |-> 0]
  /\ dismissed = {} /\ answered = {}

-----------------------------------------------------------------------------
(* The queue *)

(* Rows still queued that no delivery has claimed. *)
Waiting == {i \in Items: item[i] = "queued" /\ batch[i] = NoDelivery}

Parts(d) == {i \in Items: batch[i] = d}

InLog(i) == \E n \in DOMAIN log: log[n] = i

AdmitsOneMore == \* mutant: off by one
  Cardinality({i \in Items: item[i] = "queued"}) <= Capacity

Admits == Cardinality({i \in Items: item[i] = "queued"}) < Capacity

Enqueue(i) ==
  /\ item[i] = "absent" /\ \A j \in 1 .. i - 1: item[j] # "absent"
  /\ Admits
  /\ item' = [item EXCEPT ![i] = "queued"]
  /\ UNCHANGED <<batch, delivery, receipts, log, turn, listing, counted>>

WithdrawableClaimed(i) == \* mutant: the claim is not looked for
  item[i] = "queued"

Withdrawable(i) == item[i] = "queued" /\ batch[i] = NoDelivery

Withdraw(i) ==
  /\ Withdrawable(i)
  /\ item' = [item EXCEPT ![i] = "withdrawn"]
  /\ UNCHANGED <<batch, delivery, receipts, log, turn, listing, counted>>

(* The oldest delivery in one of the states, or none. *)
Oldest(states) ==
  LET found == {d \in Deliveries: delivery[d].state \in states}
  IN  IF found = {} THEN NoDelivery ELSE CHOOSE d \in found: \A e \in found: d <= e

Reusable(c) ==
  {"claimed", "prepared"} \cup (IF c = Renderer THEN {"started", "unknown"} ELSE {})

NextDelivery == 1 + Cardinality({d \in Deliveries: delivery[d].state # "none"})

(* A new batch: everything that waits, in the order of seq, up to the quota. *)
Batch == {i \in Waiting: Cardinality({j \in Waiting: j < i}) < Capacity}

ClaimNew(c) ==
  /\ Oldest(Reusable(c)) = NoDelivery /\ Waiting # {}
  /\ delivery' = [delivery EXCEPT ![NextDelivery] =
                    [state |-> "claimed", consumer |-> c, stream |-> NoStream]]
  /\ batch' = [i \in Items |-> IF i \in Batch THEN NextDelivery ELSE batch[i]]

Injected(d) == [i \in Items |-> IF batch[i] = d /\ item[i] = "queued" THEN "injected" ELSE item[i]]

MarkClaimed(d) == \* mutant: recovery replays an unfinished delivery
  delivery' = IF delivery[d].state \in {"confirmed", "unknown"} THEN delivery
              ELSE [delivery EXCEPT ![d] =
                      [state |-> "claimed", consumer |-> Renderer, stream |-> NoStream]]

(* mark-unknown of RecoverQueueDelivery compares the state, not the owner. *)
MarkUnknown(d) ==
  delivery' = IF delivery[d].state \in {"confirmed", "unknown"} THEN delivery
              ELSE [delivery EXCEPT ![d].state = "unknown"]

Owner(record) == IF record.stream # NoStream THEN record.stream ELSE record.consumer

(* A stream in the table of streams whose terminal is not selected yet. *)
OwnerActive(c) == c # Renderer /\ turn.by = "stream" /\ turn.id = c /\ turn.at # "ending"

-----------------------------------------------------------------------------
(* run.queueList: reads the oldest open delivery, looks for its owner, and  *)
(* declares it unknown, in three separate steps and with no reservation.    *)

ListRead ==
  LET d == Oldest(DeliveryState \ {"none", "confirmed"})
  IN  /\ listing.at = "none"
      /\ d # NoDelivery
      /\ delivery[d].state # "unknown" /\ Owner(delivery[d]) # Renderer
      /\ listing' = [at |-> "read", d |-> d, owner |-> Owner(delivery[d])]
      /\ UNCHANGED <<stored, turn, counted>>

ListLook ==
  /\ listing.at = "read"
  /\ listing' = IF OwnerActive(listing.owner) THEN NoListing ELSE [listing EXCEPT !.at = "mark"]
  /\ UNCHANGED <<stored, turn, counted>>

ListMark ==
  /\ listing.at = "mark"
  /\ MarkUnknown(listing.d)
  /\ listing' = NoListing
  /\ UNCHANGED <<item, batch, receipts, log, turn, counted>>

-----------------------------------------------------------------------------
(* run.queueConsume, under the reservation *)

Reserve(by, at, d) == turn' = [Free EXCEPT !.by = by, !.at = at, !.d = d]

(* What the handler does with the delivery a transaction returned. *)
Returned(d, record) ==
  IF Owner(record) # Renderer /\ record.state \notin {"unknown", "confirmed"}
    THEN Reserve("consume", "found", d)
    ELSE IF record.state \in {"claimed", "prepared"}
           THEN Reserve("consume", "prepare", d)
           ELSE turn' = Free

ConsumeClaim ==
  /\ turn.by = "none"
  /\ \/ /\ ClaimNew(Renderer)
        /\ Reserve("consume", "prepare", NextDelivery)
     \/ LET d == Oldest(Reusable(Renderer))
        IN  /\ d # NoDelivery /\ Returned(d, delivery[d])
            /\ UNCHANGED <<delivery, batch>>
  /\ UNCHANGED <<item, receipts, log, listing, counted>>

(* No stream of the session is active while the handler holds it. *)
ConsumeResume(d) ==
  /\ turn.by = "none"
  /\ \/ /\ delivery[d].state \in {"claimed", "prepared"}
        /\ delivery[d].consumer = Renderer /\ delivery[d].stream = NoStream
        /\ UNCHANGED <<delivery, asked>>
     \/ /\ delivery[d].state = "unknown" /\ asked[d] < MaxAsked
        /\ delivery' = [delivery EXCEPT ![d] =
                          [state |-> "claimed", consumer |-> Renderer, stream |-> NoStream]]
        /\ asked' = [asked EXCEPT ![d] = @ + 1]
  /\ Reserve("consume", "prepare", d)
  /\ UNCHANGED <<item, batch, receipts, log, listing, streams, handed, dismissed, answered>>

ConsumeDismiss(d) ==
  /\ turn.by = "none"
  /\ delivery[d].state \in {"unknown", "claimed", "prepared"}
  /\ delivery' = [delivery EXCEPT ![d].state = "confirmed"]
  /\ item' = Injected(d)
  /\ dismissed' = dismissed \cup {d}
  /\ UNCHANGED <<batch, receipts, log, turn, listing, streams, handed, asked, answered>>

ConsumeReconcile ==
  /\ turn.at = "found"
  /\ MarkUnknown(turn.d)
  /\ turn' = Free
  /\ UNCHANGED <<item, batch, receipts, log, listing, counted>>

-----------------------------------------------------------------------------
(* prepareQueueDelivery: the messages one by one, then the delivery *)

StandsAlways(i) == \* mutant: the receipt is trusted, the message is not read
  TRUE

(* A permanent receipt counts only with the message it names. *)
Stands(i) == i \in receipts => InLog(i)

(* An error ends a handler, and sends a stream to its failed terminal. *)
GivesUp ==
  turn' = IF turn.by = "stream" THEN [turn EXCEPT !.at = "ending", !.ok = FALSE] ELSE Free

NextPart == CHOOSE i \in Parts(turn.d) \ turn.passed:
              \A j \in Parts(turn.d) \ turn.passed: i <= j

AppendPart ==
  /\ turn.at = "prepare" /\ Parts(turn.d) \ turn.passed # {}
  /\ Stands(NextPart)
  /\ log' = IF NextPart \in receipts THEN log ELSE Append(log, NextPart)
  /\ receipts' = receipts \cup {NextPart}
  /\ turn' = [turn EXCEPT !.passed = @ \cup {NextPart}]
  /\ UNCHANGED <<item, batch, delivery, listing, counted>>

(* The receipt names a message the user has rewound. *)
AppendRewound ==
  /\ turn.at = "prepare" /\ Parts(turn.d) \ turn.passed # {}
  /\ ~Stands(NextPart)
  /\ MarkUnknown(turn.d) \/ UNCHANGED delivery
  /\ GivesUp
  /\ UNCHANGED <<item, batch, receipts, log, listing, counted>>

Prepare ==
  /\ turn.at = "prepare" /\ Parts(turn.d) = turn.passed
  /\ IF delivery[turn.d].state \in {"claimed", "prepared"}
       THEN /\ delivery' = [delivery EXCEPT ![turn.d].state = "prepared"]
            /\ IF turn.by = "consume" THEN turn' = Free ELSE turn' = [turn EXCEPT !.at = "start"]
       ELSE GivesUp /\ UNCHANGED delivery
  /\ UNCHANGED <<item, batch, receipts, log, listing, counted>>

-----------------------------------------------------------------------------
(* chat.start and the stream *)

NewStream == [Free EXCEPT !.by = "stream", !.at = "begun", !.id = streams + 1]

ChatPlain ==
  /\ turn.by = "none" /\ streams < MaxStreams
  /\ turn' = NewStream
  /\ streams' = streams + 1
  /\ UNCHANGED <<stored, listing, handed, asked, dismissed, answered>>

(* validateQueueChatStart; a new stream gets its id here. *)
ChatValidate(d) ==
  /\ turn.by = "none" /\ streams < MaxStreams
  /\ delivery[d].consumer = Renderer /\ delivery[d].state = "prepared"
  /\ turn' = [Free EXCEPT !.by = "chat", !.at = "prepare", !.d = d, !.id = streams + 1]
  /\ streams' = streams + 1
  /\ UNCHANGED <<stored, listing, handed, asked, dismissed, answered>>

MayStart(d) ==
  delivery[d].state = "prepared" /\ delivery[d].consumer \in {Renderer, turn.id}

(* Hands the delivery over: a chat start becomes its stream. *)
Start ==
  /\ turn.at = "start"
  /\ IF MayStart(turn.d)
       THEN /\ delivery' = [delivery EXCEPT ![turn.d].state = "started", ![turn.d].stream = turn.id]
            /\ item' = Injected(turn.d)
            /\ handed' = [i \in Items |-> IF batch[i] = turn.d THEN handed[i] + 1 ELSE handed[i]]
            /\ turn' = [turn EXCEPT !.by = "stream", !.d = NoDelivery, !.passed = {},
                                    !.at = IF turn.by = "chat" THEN "begun" ELSE "loop"]
       ELSE GivesUp /\ UNCHANGED <<delivery, item, handed>>
  /\ UNCHANGED <<batch, receipts, log, listing, streams, asked, dismissed, answered>>

StreamEnters ==
  /\ turn.at = "begun"
  /\ turn' = [turn EXCEPT !.at = "loop"]
  /\ UNCHANGED <<stored, listing, counted>>

(* No checkpoint, no capability, or a panic: a terminal without receipts. *)
StreamLeavesEarly ==
  /\ turn.at \in {"begun", "loop"}
  /\ turn' = Free
  /\ UNCHANGED <<stored, listing, counted>>

(* pullQueuedSupplements leaves the queue alone while a pivot waits. *)
StreamLooks ==
  /\ turn.at = "loop" /\ Waiting \cap Pivots = {}
  /\ turn' = [turn EXCEPT !.at = "claim"]
  /\ UNCHANGED <<stored, listing, counted>>

StreamClaims ==
  LET d == Oldest(Reusable(turn.id))
      takes(e) == turn' = [turn EXCEPT !.at = "check", !.d = e]
      leaves == turn' = [turn EXCEPT !.at = "loop"]
  IN  /\ turn.at = "claim"
      /\ \/ ClaimNew(turn.id) /\ takes(NextDelivery)
         \/ /\ d # NoDelivery \/ Waiting = {}
            /\ IF d # NoDelivery /\ delivery[d].consumer = turn.id THEN takes(d) ELSE leaves
            /\ UNCHANGED <<delivery, batch>>
      /\ UNCHANGED <<item, receipts, log, listing, counted>>

HandsOffNever(d) == \* mutant: the claimed batch is not looked at again
  FALSE

HandsOff(d) == Parts(d) \cap Pivots # {}

StreamChecks ==
  /\ turn.at = "check"
  /\ IF ~HandsOff(turn.d)
       THEN turn' = [turn EXCEPT !.at = "prepare"] /\ UNCHANGED delivery
       ELSE IF delivery[turn.d].state = "claimed"
         THEN /\ delivery' = [delivery EXCEPT ![turn.d].consumer = Renderer]
              /\ turn' = [turn EXCEPT !.at = "loop", !.d = NoDelivery]
         ELSE GivesUp /\ UNCHANGED delivery
  /\ UNCHANGED <<item, batch, receipts, log, listing, counted>>

(* selectTerminal: completed, or failed or cancelled. *)
StreamSelectsTerminal(ok) ==
  /\ turn.at = "loop"
  /\ turn' = [turn EXCEPT !.at = "ending", !.ok = ok]
  /\ UNCHANGED <<stored, listing, counted>>

(* FinishQueueDeliveries, then the reservation is released. *)
Finish ==
  LET mine == {d \in Deliveries: delivery[d].state = "started" /\ delivery[d].stream = turn.id}
  IN  /\ turn.at = "ending"
      /\ delivery' = [d \in Deliveries |->
                        IF d \in mine
                          THEN [delivery[d] EXCEPT !.state = IF turn.ok THEN "confirmed" ELSE "unknown"]
                          ELSE delivery[d]]
      /\ answered' = IF turn.ok
                       THEN answered \cup {d \in Deliveries: delivery[d].stream = turn.id}
                       ELSE answered
      /\ turn' = Free
      /\ UNCHANGED <<item, batch, receipts, log, listing, streams, handed, asked, dismissed>>

(* A transaction is refused, or the project can no longer be edited. *)
Refused ==
  /\ turn.at \in {"found", "prepare", "start", "claim", "check"}
  /\ GivesUp
  /\ UNCHANGED <<stored, listing, counted>>

FinishRefused ==
  /\ turn.at = "ending"
  /\ turn' = Free
  /\ UNCHANGED <<stored, listing, counted>>

-----------------------------------------------------------------------------
(* message.rewind drops a message and everything after it; the receipts of  *)
(* queued messages stay.                                                    *)
Rewind(n) ==
  /\ turn.by = "none" /\ n \in DOMAIN log
  /\ log' = SubSeq(log, 1, n - 1)
  /\ UNCHANGED <<item, batch, delivery, receipts, turn, listing, counted>>

Crash ==
  /\ turn # Free \/ listing # NoListing
  /\ turn' = Free /\ listing' = NoListing
  /\ UNCHANGED <<stored, counted>>

Next ==
  \/ \E i \in Items: Enqueue(i) \/ Withdraw(i)
  \/ ListRead \/ ListLook \/ ListMark
  \/ ConsumeClaim \/ ConsumeReconcile
  \/ \E d \in Deliveries: ConsumeResume(d) \/ ConsumeDismiss(d) \/ ChatValidate(d)
  \/ AppendPart \/ AppendRewound \/ Prepare \/ Start
  \/ ChatPlain \/ StreamEnters \/ StreamLeavesEarly
  \/ StreamLooks \/ StreamClaims \/ StreamChecks
  \/ \E ok \in BOOLEAN: StreamSelectsTerminal(ok)
  \/ Finish \/ Refused \/ FinishRefused
  \/ \E n \in Items: Rewind(n)
  \/ Crash

Spec == Init /\ [][Next]_vars
-----------------------------------------------------------------------------
(* Properties *)

(* Input is handed over to a stream once, and once more each time the user  *)
(* asks for it: no crash, failure, mark or reclaim replays work by itself.  *)
NoReplay == \A i \in Items: batch[i] # NoDelivery => handed[i] <= 1 + asked[batch[i]]

(* No input is lost or spent twice: an unclaimed item is still queued or    *)
(* was withdrawn, a claimed one is never withdrawn, an injected one was     *)
(* handed over or dismissed, and a delivery closes only when its items are  *)
(* injected and the user dismissed it or a completed stream settled it.     *)
InputAccounted ==
  \A i \in Items:
    /\ batch[i] = NoDelivery => item[i] # "injected"
    /\ batch[i] # NoDelivery => item[i] \in {"queued", "injected"}
    /\ item[i] = "injected" => handed[i] > 0 \/ batch[i] \in dismissed
    /\ batch[i] # NoDelivery /\ delivery[batch[i]].state = "confirmed" =>
         item[i] = "injected" /\ batch[i] \in dismissed \cup answered

(* A message the user has rewound is never handed over again: whatever is   *)
(* handed over is in the history at that moment.                            *)
RewoundStaysAway ==
  [][\A i \in Items: handed'[i] > handed[i] => InLog(i)]_vars

(* A text that changes the task is never absorbed by a turn under way, not  *)
(* even when it arrives between the stream's look and its claim.            *)
PivotStartsOwnTurn ==
  [][\A i \in Pivots: handed'[i] > handed[i] => turn.by = "chat"]_vars

=============================================================================

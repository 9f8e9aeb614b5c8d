------------------------- MODULE QueueDeliveryProofs -------------------------
(***************************************************************************)
(* Proofs about QueueDelivery, for any number of items, streams and        *)
(* resumes, any capacity of the queue and any choice of pivots.            *)
(***************************************************************************)
EXTENDS QueueDelivery, FiniteSetTheorems, WellFoundedInduction, TLAPS

(* A nonempty set of numbers has a least one. *)
LEMMA Least ==
  ASSUME NEW S \in SUBSET Nat, S # {}
  PROVE  \E d \in S: \A e \in S: d <= e
<1> DEFINE R == OpToRel(<, Nat)
<1>1. PICK d \in S: \A e \in S: <<e, d>> \notin R
  <2>1. IsWellFoundedOn(R, Nat)
    BY NatLessThanWellFounded, Zenon
  <2> HIDE DEF R
  <2> QED
    BY <2>1, WFMin
<1>2. \A e \in S: ~ (e < d)
  BY <1>1 DEF OpToRel
<1> QED
  BY <1>2

LEMMA Constants ==
  /\ Items \subseteq Nat /\ Deliveries \subseteq Nat /\ Streams \subseteq Nat
  /\ NoDelivery \notin Deliveries /\ NoStream \notin Streams /\ Renderer \notin Streams
  /\ IsFiniteSet(Items) /\ Cardinality(Items) = MaxItems
  /\ IsFiniteSet(Deliveries) /\ Cardinality(Deliveries) = MaxItems
BY QueueAssumption, FS_Interval
DEF Items, Deliveries, Streams, NoDelivery, NoStream, Renderer

(* The oldest delivery is one of those it is looked for among. *)
LEMMA OldestFound ==
  ASSUME NEW states, Oldest(states) # NoDelivery
  PROVE  Oldest(states) \in Deliveries /\ delivery[Oldest(states)].state \in states
<1> DEFINE found == {d \in Deliveries: delivery[d].state \in states}
<1>1. found # {}
  BY DEF Oldest
<1>2. \E d \in found: \A e \in found: d <= e
  BY <1>1, Least, Constants
<1>3. Oldest(states) = CHOOSE d \in found: \A e \in found: d <= e
  BY <1>1 DEF Oldest
<1>4. Oldest(states) \in found
  BY <1>2, <1>3
<1> QED
  BY <1>4

(* The next part is one that has not been written. *)
LEMMA NextPartLeft ==
  ASSUME Parts(turn.d) \ turn.passed # {}
  PROVE  NextPart \in Parts(turn.d) \ turn.passed
<1>1. Parts(turn.d) \ turn.passed \in SUBSET Nat
  BY Constants DEF Parts
<1> QED
  BY <1>1, Least DEF NextPart

-----------------------------------------------------------------------------
(* The invariant                                                           *)

Used == {d \in Deliveries: delivery[d].state # "none"}

(* Deliveries are made one after another and hold something; what an item  *)
(* belongs to has been made.                                               *)
BatchesInOrder ==
  /\ Used = 1 .. Cardinality(Used)
  /\ \A d \in Used: Parts(d) # {}
  /\ \A i \in Items: batch[i] # NoDelivery => batch[i] \in Used

(* A delivery that is still to be handed over was handed over as often as  *)
(* the user asked for it again.                                            *)
HandedAsAsked ==
  \A i \in Items:
    /\ batch[i] = NoDelivery => handed[i] = 0
    /\ batch[i] # NoDelivery =>
         handed[i] <= IF delivery[batch[i]].state \in {"claimed", "prepared"}
                      THEN asked[batch[i]] ELSE 1 + asked[batch[i]]

StartedIsInjected ==
  \A i \in Items:
    batch[i] # NoDelivery /\ delivery[batch[i]].state = "started" => item[i] = "injected"

(* What the holder of the reservation, and a list, have in their hands.    *)
TurnKnows ==
  /\ turn.by = "none" => turn.at = "idle"
  /\ turn.at \in {"found", "prepare", "start", "check"} => turn.d \in Used
  /\ turn.at \in {"begun", "loop", "claim", "check"} => turn.passed = {}
  /\ turn.at \in {"prepare", "start"} =>
       /\ \A i \in turn.passed: batch[i] = turn.d /\ InLog(i)
       /\ turn.by = "stream" => Parts(turn.d) \cap Pivots = {}
  /\ turn.at = "start" => turn.by \in {"chat", "stream"} /\ Parts(turn.d) \subseteq turn.passed
  /\ listing.at # "none" => listing.d \in Used

IInv ==
  /\ TypeOK
  /\ BatchesInOrder
  /\ HandedAsAsked
  /\ InputAccounted /\ StartedIsInjected
  /\ TurnKnows

(* A delivery declared unknown keeps its place and its items.              *)
LEMMA MarkUnknownStates ==
  ASSUME TypeOK, NEW d \in Used, MarkUnknown(d)
  PROVE  /\ delivery' \in [Deliveries -> DeliveryRecord]
         /\ \A e \in Deliveries: \/ delivery'[e] = delivery[e]
                                 \/ /\ delivery[e].state \in {"claimed", "prepared", "started"}
                                    /\ delivery'[e].state = "unknown"
<1>1. d \in Deliveries /\ delivery[d] \in DeliveryRecord /\ delivery[d].state # "none"
  BY DEF Used, TypeOK
<1>2. CASE delivery' = delivery
  BY <1>2 DEF TypeOK
<1>3. CASE delivery' # delivery
  <2>1. /\ delivery' = [delivery EXCEPT ![d].state = "unknown"]
        /\ delivery[d].state \notin {"confirmed", "unknown"}
    BY <1>3 DEF MarkUnknown
  <2> QED
    BY <1>1, <2>1 DEF TypeOK, DeliveryRecord, DeliveryState
<1> QED
  BY <1>2, <1>3

(* There is room for the delivery of whatever waits.                       *)
LEMMA RoomForNext ==
  ASSUME TypeOK, BatchesInOrder, Waiting # {}
  PROVE  /\ NextDelivery \in Deliveries \ Used
         /\ Used \cup {NextDelivery} = 1 .. Cardinality(Used \cup {NextDelivery})
<1> DEFINE claimed == {i \in Items: batch[i] # NoDelivery}
           f == [i \in claimed |-> batch[i]]
<1>1. /\ IsFiniteSet(claimed) /\ Cardinality(claimed) \in Nat
      /\ IsFiniteSet(Used) /\ Cardinality(Used) \in Nat
  BY Constants, FS_Subset, FS_CardinalityType DEF Used
<1>2. Cardinality(claimed) < MaxItems
  <2>1. claimed \subseteq Items /\ claimed # Items
    BY DEF Waiting
  <2>2. Cardinality(claimed) <= Cardinality(Items) /\ Cardinality(claimed) # Cardinality(Items)
    BY <2>1, Constants, FS_Subset
  <2> QED
    BY <1>1, <2>2, Constants, QueueAssumption
<1>3. Cardinality(Used) <= Cardinality(claimed)
  <2>1. f \in Surjection(claimed, Used)
    BY DEF BatchesInOrder, Surjection, Parts, Used, Deliveries, NoDelivery
  <2> HIDE DEF f, claimed
  <2> QED
    BY <1>1, <2>1, FS_Surjection
<1>4. NextDelivery = 1 + Cardinality(Used)
  BY DEF NextDelivery, Used
<1>5. NextDelivery \in Deliveries /\ NextDelivery \notin Used
  BY <1>1, <1>2, <1>3, <1>4, QueueAssumption DEF BatchesInOrder, Deliveries
<1>6. Cardinality(Used \cup {NextDelivery}) = 1 + Cardinality(Used)
  <2>1. Cardinality(Used \cup {NextDelivery}) =
          IF NextDelivery \in Used THEN Cardinality(Used) ELSE Cardinality(Used) + 1
    BY <1>1, FS_AddElement
  <2> QED
    BY <1>1, <1>5, <2>1
<1> QED
  BY <1>1, <1>4, <1>5, <1>6 DEF BatchesInOrder

(* What a claim does.                                                      *)
LEMMA ClaimNewEffect ==
  ASSUME TypeOK, BatchesInOrder, NEW c \in Consumers, ClaimNew(c)
  PROVE  /\ NextDelivery \in Deliveries \ Used
         /\ Used' = Used \cup {NextDelivery}
         /\ Used' = 1 .. Cardinality(Used')
         /\ delivery' \in [Deliveries -> DeliveryRecord]
         /\ delivery'[NextDelivery].state = "claimed"
         /\ \A d \in Deliveries: d # NextDelivery => delivery'[d] = delivery[d]
         /\ batch' \in [Items -> {NoDelivery} \cup Deliveries]
         /\ \A i \in Items: \/ batch'[i] = batch[i]
                            \/ /\ batch'[i] = NextDelivery /\ batch[i] = NoDelivery
                               /\ item[i] = "queued"
         /\ \E i \in Items: batch'[i] = NextDelivery
         /\ \A d \in Used: Parts(d)' = Parts(d)
<1>1. /\ NextDelivery \in Deliveries \ Used
      /\ Used \cup {NextDelivery} = 1 .. Cardinality(Used \cup {NextDelivery})
  BY RoomForNext DEF ClaimNew
<1>2. /\ delivery' = [delivery EXCEPT ![NextDelivery] =
                       [state |-> "claimed", consumer |-> c, stream |-> NoStream]]
      /\ batch' = [i \in Items |-> IF i \in Batch THEN NextDelivery ELSE batch[i]]
      /\ Waiting # {}
  BY DEF ClaimNew
<1>3. [state |-> "claimed", consumer |-> c, stream |-> NoStream] \in DeliveryRecord
  BY DEF DeliveryRecord, DeliveryState
<1>4. /\ delivery' \in [Deliveries -> DeliveryRecord]
      /\ delivery'[NextDelivery].state = "claimed"
      /\ \A d \in Deliveries: d # NextDelivery => delivery'[d] = delivery[d]
  BY <1>1, <1>2, <1>3 DEF TypeOK
<1>5. Used' = Used \cup {NextDelivery}
  BY <1>1, <1>4 DEF Used
<1>6. \A i \in Items: /\ batch'[i] \in {NoDelivery} \cup Deliveries
                     /\ \/ batch'[i] = batch[i]
                        \/ /\ batch'[i] = NextDelivery /\ batch[i] = NoDelivery
                           /\ item[i] = "queued"
  BY <1>1, <1>2 DEF Batch, Waiting, TypeOK
<1>7. Batch # {}
  <2>1. PICK i \in Waiting: \A j \in Waiting: i <= j
    BY <1>2, Least, Constants DEF Waiting
  <2>2. {j \in Waiting: j < i} = {}
    <3>1. ASSUME NEW j \in Waiting PROVE ~ (j < i)
      <4>1. i <= j /\ i \in Nat /\ j \in Nat
        BY <2>1, Constants DEF Waiting
      <4> QED
        BY <4>1
    <3> QED
      BY <3>1
  <2>3. Cardinality({j \in Waiting: j < i}) = 0
    BY <2>2, FS_EmptySet
  <2> QED
    BY <2>1, <2>3, QueueAssumption DEF Batch
<1>8. \E i \in Items: batch'[i] = NextDelivery
  BY <1>2, <1>7 DEF Batch, Waiting
<1>9. \A d \in Used: Parts(d)' = Parts(d)
  BY <1>1, <1>6, Constants DEF Parts, Used
<1> QED
  BY <1>1, <1>2, <1>4, <1>5, <1>6, <1>8, <1>9

-----------------------------------------------------------------------------
(* What a step does to the deliveries                                      *)

(* A claim by the renderer or by a stream.                                 *)
Claims ==
  /\ \/ ConsumeClaim /\ ClaimNew(Renderer) /\ Reserve("consume", "prepare", NextDelivery)
     \/ /\ StreamClaims /\ ClaimNew(turn.id)
        /\ turn' = [turn EXCEPT !.at = "check", !.d = NextDelivery]
  /\ UNCHANGED <<item, receipts, log, listing, counted>>

(* A delivery is declared unknown. *)
Marks == \E d \in Used: MarkUnknown(d) /\ UNCHANGED <<item, batch, counted>>

(* Nothing that decides who gets an item. *)
Keeps == UNCHANGED <<batch, delivery, handed, asked, dismissed, answered>>

LEMMA StepCases ==
  ASSUME TypeOK, TurnKnows, [Next]_vars
  PROVE  \/ Claims \/ Marks
         \/ Keeps /\ (item' = item \/ \E i \in Items: Enqueue(i) \/ Withdraw(i))
         \/ \E d \in Deliveries: ConsumeResume(d)
         \/ \E d \in Deliveries: ConsumeDismiss(d)
         \/ Prepare \/ Start \/ StreamChecks \/ Finish
<1>1. CASE ConsumeClaim
  BY <1>1 DEF ConsumeClaim, Claims, Keeps, counted
<1>2. CASE StreamClaims
  BY <1>2 DEF StreamClaims, Claims, Keeps, counted
<1>3. CASE ListMark
  BY <1>3 DEF ListMark, Marks, TurnKnows
<1>4. CASE ConsumeReconcile
  BY <1>4 DEF ConsumeReconcile, Marks, TurnKnows
<1>5. CASE AppendRewound
  BY <1>5 DEF AppendRewound, Marks, Keeps, TurnKnows, counted
<1>6. CASE AppendPart
  BY <1>6 DEF AppendPart, Keeps, counted
<1> QED
  BY <1>1, <1>2, <1>3, <1>4, <1>5, <1>6
  DEF Next, vars, Keeps, stored, counted, Enqueue, Withdraw, ListRead, ListLook, ChatPlain, ChatValidate, StreamEnters, StreamLeavesEarly,
      StreamLooks, StreamSelectsTerminal, Refused, FinishRefused, Rewind, Crash

LEMMA ClaimsEffect ==
  ASSUME TypeOK, BatchesInOrder, Claims
  PROVE  /\ \E c \in Consumers: ClaimNew(c)
         /\ UNCHANGED <<item, receipts, log, listing, counted>>
<1>1. Renderer \in Consumers /\ turn.id \in Consumers
  BY DEF Consumers, TypeOK, Turn, Renderer, NoStream
<1> QED
  BY <1>1 DEF Claims

(* What an assignment to one delivery does. *)
LEMMA OneDelivery ==
  ASSUME TypeOK, NEW d \in Deliveries, NEW r \in DeliveryRecord,
         delivery' = [delivery EXCEPT ![d] = r]
  PROVE  /\ delivery' \in [Deliveries -> DeliveryRecord]
         /\ delivery'[d] = r
         /\ \A e \in Deliveries: e # d => delivery'[e] = delivery[e]
BY DEF TypeOK

LEMMA ResumeEffect ==
  ASSUME TypeOK, NEW d \in Deliveries, ConsumeResume(d)
  PROVE  /\ delivery' \in [Deliveries -> DeliveryRecord]
         /\ asked' \in [Deliveries -> 0 .. MaxAsked]
         /\ \A e \in Deliveries:
              \/ delivery'[e] = delivery[e] /\ asked'[e] = asked[e]
              \/ /\ delivery[e].state = "unknown" /\ delivery'[e].state = "claimed"
                 /\ asked'[e] = asked[e] + 1
         /\ UNCHANGED <<item, batch, handed, dismissed, answered>>
<1> DEFINE r == [state |-> "claimed", consumer |-> Renderer, stream |-> NoStream]
<1>1. r \in DeliveryRecord
  BY DEF DeliveryRecord, DeliveryState, Consumers
<1>2. UNCHANGED <<item, batch, handed, dismissed, answered>>
  BY DEF ConsumeResume
<1>3. CASE UNCHANGED <<delivery, asked>>
  BY <1>2, <1>3 DEF TypeOK
<1>4. CASE /\ delivery[d].state = "unknown" /\ asked[d] < MaxAsked
           /\ delivery' = [delivery EXCEPT ![d] = r] /\ asked' = [asked EXCEPT ![d] = @ + 1]
  <2>1. /\ delivery' \in [Deliveries -> DeliveryRecord]
        /\ delivery'[d].state = "claimed"
        /\ \A e \in Deliveries: e # d => delivery'[e] = delivery[e]
    BY <1>1, <1>4, OneDelivery
  <2>2. /\ asked' \in [Deliveries -> 0 .. MaxAsked]
        /\ asked'[d] = asked[d] + 1
        /\ \A e \in Deliveries: e # d => asked'[e] = asked[e]
    BY <1>4, QueueAssumption DEF TypeOK
  <2> QED
    BY <1>2, <1>4, <2>1, <2>2
<1> QED
  BY <1>3, <1>4 DEF ConsumeResume

LEMMA DismissEffect ==
  ASSUME TypeOK, NEW d \in Deliveries, ConsumeDismiss(d)
  PROVE  /\ delivery' \in [Deliveries -> DeliveryRecord]
         /\ delivery[d].state \in {"unknown", "claimed", "prepared"}
         /\ delivery'[d].state = "confirmed"
         /\ \A e \in Deliveries: e # d => delivery'[e] = delivery[e]
         /\ item' = Injected(d)
         /\ dismissed' = dismissed \cup {d}
         /\ UNCHANGED <<batch, handed, asked, answered>>
<1> DEFINE r == [delivery[d] EXCEPT !.state = "confirmed"]
<1>1. r \in DeliveryRecord /\ r.state = "confirmed"
  BY DEF TypeOK, DeliveryRecord, DeliveryState
<1>2. delivery' = [delivery EXCEPT ![d] = r]
  BY DEF ConsumeDismiss
<1>3. /\ delivery' \in [Deliveries -> DeliveryRecord]
      /\ delivery'[d] = r
      /\ \A e \in Deliveries: e # d => delivery'[e] = delivery[e]
  BY <1>1, <1>2, OneDelivery
<1> QED
  BY <1>1, <1>3 DEF ConsumeDismiss

(* Writing a delivery's messages, and giving it back to the renderer,      *)
(* leave it as open as it was.                                             *)
LEMMA OpenStays ==
  ASSUME TypeOK, TurnKnows, Prepare \/ StreamChecks
  PROVE  /\ delivery' \in [Deliveries -> DeliveryRecord]
         /\ \A e \in Deliveries:
              \/ delivery'[e] = delivery[e]
              \/ /\ delivery[e].state \in {"claimed", "prepared"}
                 /\ delivery'[e].state \in {"claimed", "prepared"}
         /\ UNCHANGED <<item, batch, counted>>
<1> DEFINE d == turn.d
           p == [delivery[d] EXCEPT !.state = "prepared"]
           c == [delivery[d] EXCEPT !.consumer = Renderer]
<1>1. d \in Deliveries /\ delivery[d] \in DeliveryRecord
  BY DEF Prepare, StreamChecks, TurnKnows, Used, TypeOK
<1>2. /\ p \in DeliveryRecord /\ p.state = "prepared"
      /\ c \in DeliveryRecord /\ c.state = delivery[d].state
  BY <1>1 DEF DeliveryRecord, DeliveryState, Consumers
<1>3. UNCHANGED <<item, batch, counted>>
  BY DEF Prepare, StreamChecks
<1>4. CASE UNCHANGED delivery
  BY <1>3, <1>4 DEF TypeOK
<1>5. CASE delivery[d].state \in {"claimed", "prepared"} /\ delivery' = [delivery EXCEPT ![d] = p]
  <2>1. /\ delivery' \in [Deliveries -> DeliveryRecord] /\ delivery'[d] = p
        /\ \A e \in Deliveries: e # d => delivery'[e] = delivery[e]
    BY <1>1, <1>2, <1>5, OneDelivery
  <2> QED
    BY <1>2, <1>3, <1>5, <2>1
<1>6. CASE delivery[d].state = "claimed" /\ delivery' = [delivery EXCEPT ![d] = c]
  <2>1. /\ delivery' \in [Deliveries -> DeliveryRecord] /\ delivery'[d] = c
        /\ \A e \in Deliveries: e # d => delivery'[e] = delivery[e]
    BY <1>1, <1>2, <1>6, OneDelivery
  <2> QED
    BY <1>2, <1>3, <1>6, <2>1
<1> QED
  BY <1>4, <1>5, <1>6 DEF Prepare, StreamChecks

(* A delivery that is handed over. *)
Hands == Start /\ MayStart(turn.d)

LEMMA StartEffect ==
  ASSUME TypeOK, TurnKnows, Hands
  PROVE  /\ turn.d \in Used /\ delivery[turn.d].state = "prepared"
         /\ delivery' \in [Deliveries -> DeliveryRecord]
         /\ delivery'[turn.d].state = "started"
         /\ \A e \in Deliveries: e # turn.d => delivery'[e] = delivery[e]
         /\ item' = Injected(turn.d)
         /\ handed' = [i \in Items |-> IF batch[i] = turn.d THEN handed[i] + 1 ELSE handed[i]]
         /\ UNCHANGED <<batch, asked, dismissed, answered>>
<1> DEFINE d == turn.d
           r == [delivery[d] EXCEPT !.state = "started", !.stream = turn.id]
<1>1. d \in Used /\ d \in Deliveries /\ delivery[d] \in DeliveryRecord
      /\ turn.id \in {NoStream} \cup Streams
  BY DEF Hands, Start, TurnKnows, Used, TypeOK, Turn
<1>2. r \in DeliveryRecord /\ r.state = "started"
  BY <1>1 DEF DeliveryRecord, DeliveryState
<1>3. delivery' = [delivery EXCEPT ![d] = r]
  <2>1. delivery' = [delivery EXCEPT ![d].state = "started", ![d].stream = turn.id]
    BY DEF Hands, Start
  <2> QED
    BY <1>1, <2>1 DEF TypeOK, DeliveryRecord
<1>4. /\ delivery' \in [Deliveries -> DeliveryRecord] /\ delivery'[d] = r
      /\ \A e \in Deliveries: e # d => delivery'[e] = delivery[e]
  BY <1>1, <1>2, <1>3, OneDelivery
<1> QED
  BY <1>1, <1>2, <1>4 DEF Hands, Start, MayStart

(* One that is refused stays as it is. *)
LEMMA StartRefused ==
  ASSUME Start, ~ Hands
  PROVE  UNCHANGED <<delivery, item, handed, batch, asked, dismissed, answered>>
BY DEF Start, Hands

LEMMA FinishEffect ==
  ASSUME TypeOK, Finish
  PROVE  /\ delivery' \in [Deliveries -> DeliveryRecord]
         /\ \A d \in Deliveries:
              \/ delivery'[d] = delivery[d]
              \/ /\ delivery[d].state = "started"
                 /\ delivery'[d].state \in {"confirmed", "unknown"}
                 /\ delivery'[d].state = "confirmed" => d \in answered'
         /\ answered \subseteq answered' /\ answered' \subseteq Deliveries
         /\ UNCHANGED <<item, batch, handed, asked, dismissed>>
<1> DEFINE s == IF turn.ok THEN "confirmed" ELSE "unknown"
           r(d) == [delivery[d] EXCEPT !.state = s]
<1>1. ASSUME NEW d \in Deliveries
      PROVE  /\ delivery[d] \in DeliveryRecord /\ r(d) \in DeliveryRecord
             /\ r(d).state = s
  BY DEF TypeOK, DeliveryRecord, DeliveryState
<1>2. /\ \A d \in Deliveries:
           delivery'[d] = IF delivery[d].state = "started" /\ delivery[d].stream = turn.id
                            THEN r(d) ELSE delivery[d]
      /\ delivery' = [d \in Deliveries |-> delivery'[d]]
      /\ answered' = IF turn.ok
                       THEN answered \cup {d \in Deliveries: delivery[d].stream = turn.id}
                       ELSE answered
      /\ UNCHANGED <<item, batch, handed, asked, dismissed>>
  BY DEF Finish
<1> HIDE DEF r
<1>3. delivery' \in [Deliveries -> DeliveryRecord]
  BY <1>1, <1>2
<1>4. answered \subseteq answered' /\ answered' \subseteq Deliveries
  BY <1>2 DEF TypeOK
<1> QED
  BY <1>1, <1>2, <1>3, <1>4

(* Once made, a delivery keeps its items and is never unmade.              *)
LEMMA DeliveriesKept ==
  ASSUME TypeOK, BatchesInOrder, TurnKnows, [Next]_vars, ~ Claims
  PROVE  /\ batch' = batch
         /\ delivery' \in [Deliveries -> DeliveryRecord]
         /\ Used' = Used
<1>1. CASE Marks
  BY <1>1, MarkUnknownStates DEF Marks, Used
<1>2. CASE Keeps
  BY <1>2 DEF Keeps, Used, TypeOK
<1>3. CASE \E d \in Deliveries: ConsumeResume(d)
  BY <1>3, ResumeEffect DEF Used
<1>4. CASE \E d \in Deliveries: ConsumeDismiss(d)
  <2>1. PICK d \in Deliveries: ConsumeDismiss(d)
    BY <1>4
  <2> QED
    BY <2>1, DismissEffect DEF Used
<1>5. CASE Prepare \/ StreamChecks
  BY <1>5, OpenStays DEF Used
<1>6. CASE Start
  <2>1. CASE Hands
    BY <2>1, StartEffect DEF Used
  <2>2. CASE ~ Hands
    BY <1>6, <2>2, StartRefused DEF Used, TypeOK
  <2> QED
    BY <2>1, <2>2
<1>7. CASE Finish
  BY <1>7, FinishEffect DEF Used
<1> QED
  BY <1>1, <1>2, <1>3, <1>4, <1>5, <1>6, <1>7, StepCases

LEMMA BatchesStep ==
  ASSUME TypeOK, BatchesInOrder, TurnKnows, [Next]_vars
  PROVE  BatchesInOrder'
<1>1. CASE Claims
  <2>1. PICK c \in Consumers: ClaimNew(c)
    BY <1>1, ClaimsEffect
  <2> QED
    BY <2>1, ClaimNewEffect DEF BatchesInOrder, Parts
<1>2. CASE ~ Claims
  BY <1>2, DeliveriesKept DEF BatchesInOrder, Parts
<1> QED
  BY <1>1, <1>2

-----------------------------------------------------------------------------
(* Who gets an item                                                        *)

LEMMA HandedStep ==
  ASSUME IInv, [Next]_vars
  PROVE  HandedAsAsked'
<1> USE DEF IInv
<1>0. /\ \A i \in Items: handed[i] \in Nat /\ (batch[i] # NoDelivery => batch[i] \in Used)
      /\ \A d \in Deliveries: asked[d] \in Nat
      /\ Used \subseteq Deliveries /\ NoDelivery \notin Deliveries
  BY Constants DEF TypeOK, BatchesInOrder, Used
<1>1. CASE Claims
  <2>1. PICK c \in Consumers: ClaimNew(c)
    BY <1>1, ClaimsEffect
  <2>2. UNCHANGED <<handed, asked>>
    BY <1>1 DEF Claims, counted
  <2> QED
    BY <1>0, <2>1, <2>2, ClaimNewEffect DEF HandedAsAsked
<1>2. CASE Marks
  BY <1>0, <1>2, MarkUnknownStates DEF Marks, HandedAsAsked, counted
<1>3. CASE Keeps
  BY <1>3 DEF Keeps, HandedAsAsked
<1>4. CASE \E d \in Deliveries: ConsumeResume(d)
  <2>1. PICK d \in Deliveries: ConsumeResume(d)
    BY <1>4
  <2> QED
    BY <1>0, <2>1, ResumeEffect DEF HandedAsAsked
<1>5. CASE \E d \in Deliveries: ConsumeDismiss(d)
  <2>1. PICK d \in Deliveries: ConsumeDismiss(d)
    BY <1>5
  <2> QED
    BY <1>0, <2>1, DismissEffect DEF HandedAsAsked
<1>6. CASE Prepare \/ StreamChecks
  BY <1>0, <1>6, OpenStays DEF HandedAsAsked, counted
<1>7. CASE Start
  <2>1. CASE Hands
    BY <1>0, <2>1, StartEffect DEF HandedAsAsked
  <2>2. CASE ~ Hands
    BY <1>7, <2>2, StartRefused DEF HandedAsAsked
  <2> QED
    BY <2>1, <2>2
<1>8. CASE Finish
  BY <1>0, <1>8, FinishEffect DEF HandedAsAsked
<1> QED
  BY <1>1, <1>2, <1>3, <1>4, <1>5, <1>6, <1>7, <1>8, StepCases

LEMMA AccountedStep ==
  ASSUME IInv, [Next]_vars
  PROVE  InputAccounted' /\ StartedIsInjected'
<1> USE DEF IInv
<1>0. /\ \A i \in Items: handed[i] \in Nat /\ (batch[i] # NoDelivery => batch[i] \in Used)
      /\ Used \subseteq Deliveries /\ NoDelivery \notin Deliveries
  BY Constants DEF TypeOK, BatchesInOrder, Used
<1>1. CASE Claims
  <2>1. PICK c \in Consumers: ClaimNew(c)
    BY <1>1, ClaimsEffect
  <2>2. UNCHANGED <<item, handed, dismissed, answered>>
    BY <1>1 DEF Claims, counted
  <2> QED
    BY <1>0, <2>1, <2>2, ClaimNewEffect DEF InputAccounted, StartedIsInjected
<1>2. CASE Marks
  <2>1. PICK d \in Used: MarkUnknown(d) /\ UNCHANGED <<item, batch, counted>>
    BY <1>2 DEF Marks
  <2>2. UNCHANGED <<item, batch, handed, dismissed, answered>>
    BY <2>1 DEF counted
  <2> QED
    BY <1>0, <2>1, <2>2, MarkUnknownStates DEF InputAccounted, StartedIsInjected
<1>3. CASE Keeps /\ item' = item
  BY <1>3 DEF Keeps, InputAccounted, StartedIsInjected
<1>4. CASE \E i \in Items: Enqueue(i) \/ Withdraw(i)
  <2>1. PICK i \in Items: Enqueue(i) \/ Withdraw(i)
    BY <1>4
  <2>2. /\ UNCHANGED <<batch, delivery, handed, dismissed, answered>>
        /\ batch[i] = NoDelivery
        /\ item'[i] \in {"queued", "withdrawn"}
        /\ \A j \in Items: j # i => item'[j] = item[j]
    BY <2>1 DEF Enqueue, Withdraw, Withdrawable, TypeOK, InputAccounted, counted
  <2> QED
    BY <2>2 DEF InputAccounted, StartedIsInjected
<1>5. CASE \E d \in Deliveries: ConsumeResume(d)
  <2>1. PICK d \in Deliveries: ConsumeResume(d)
    BY <1>5
  <2> QED
    BY <1>0, <2>1, ResumeEffect DEF InputAccounted, StartedIsInjected
<1>6. CASE \E d \in Deliveries: ConsumeDismiss(d)
  <2>1. PICK d \in Deliveries: ConsumeDismiss(d)
    BY <1>6
  <2> QED
    BY <1>0, <2>1, DismissEffect DEF InputAccounted, StartedIsInjected, Injected
<1>7. CASE Prepare \/ StreamChecks
  <2>1. UNCHANGED <<item, batch, handed, dismissed, answered>>
    BY <1>7, OpenStays DEF counted
  <2> QED
    BY <1>0, <1>7, <2>1, OpenStays DEF InputAccounted, StartedIsInjected
<1>8. CASE Start
  <2>1. CASE Hands
    BY <1>0, <2>1, StartEffect DEF InputAccounted, StartedIsInjected, Injected
  <2>2. CASE ~ Hands
    BY <1>8, <2>2, StartRefused DEF InputAccounted, StartedIsInjected
  <2> QED
    BY <2>1, <2>2
<1>9. CASE Finish
  BY <1>0, <1>9, FinishEffect DEF InputAccounted, StartedIsInjected
<1> QED
  BY <1>1, <1>2, <1>3, <1>4, <1>5, <1>6, <1>7, <1>8, <1>9, StepCases

-----------------------------------------------------------------------------
(* What the holder of the reservation knows                                *)

(* Nothing that was made goes away, and a message leaves the history only  *)
(* when nobody holds the reservation.                                      *)
LEMMA MadeStays ==
  ASSUME TypeOK, BatchesInOrder, TurnKnows, [Next]_vars
  PROVE  /\ Used \subseteq Used'
         /\ \A d \in Used: Parts(d)' = Parts(d)
<1>1. CASE Claims
  <2>1. PICK c \in Consumers: ClaimNew(c)
    BY <1>1, ClaimsEffect
  <2> QED
    BY <2>1, ClaimNewEffect
<1>2. CASE ~ Claims
  BY <1>2, DeliveriesKept DEF Parts
<1> QED
  BY <1>1, <1>2

(* What it takes for the holder to know what it should.                    *)
TurnKnowsWhat ==
  /\ turn.by = "none" => turn.at = "idle"
  /\ turn.at \in {"found", "prepare", "start", "check"} => turn.d \in Used
  /\ turn.at \in {"begun", "loop", "claim", "check"} => turn.passed = {}
  /\ turn.at \in {"prepare", "start"} =>
       /\ \A i \in turn.passed: batch[i] = turn.d /\ InLog(i)
       /\ turn.by = "stream" => Parts(turn.d) \cap Pivots = {}
  /\ turn.at = "start" => turn.by \in {"chat", "stream"} /\ Parts(turn.d) \subseteq turn.passed

(* A turn in which no message has been written, by no stream that looked.  *)
LEMMA FreshTurn ==
  ASSUME turn'.passed = {},
         turn'.by = "none" => turn'.at = "idle",
         turn'.at \in {"found", "prepare", "check"} => turn'.d \in Used',
         turn'.at = "prepare" => turn'.by # "stream",
         turn'.at # "start"
  PROVE  TurnKnowsWhat'
BY DEF TurnKnowsWhat

(* A turn that is over, or on its way to its terminal. *)
LEMMA OverTurn ==
  ASSUME turn'.at \in {"idle", "ending"}, turn'.by = "none" => turn'.at = "idle"
  PROVE  TurnKnowsWhat'
BY DEF TurnKnowsWhat

LEMMA GivingUpIsOver ==
  ASSUME TypeOK, turn' = Free \/ GivesUp
  PROVE  TurnKnowsWhat'
<1>1. CASE turn' = Free
  BY <1>1, OverTurn DEF Free
<1>2. CASE turn.by = "stream" /\ turn' = [turn EXCEPT !.at = "ending", !.ok = FALSE]
  <2>1. turn'.at = "ending" /\ turn'.by = "stream"
    BY <1>2 DEF TypeOK, Turn
  <2> QED
    BY <2>1, OverTurn
<1> QED
  BY <1>1, <1>2 DEF GivesUp

(* A turn that holds on to what it had, over a history that grew. *)
LEMMA SameTurn ==
  ASSUME TypeOK, BatchesInOrder, TurnKnows, [Next]_vars, turn' = turn, log' = log
  PROVE  TurnKnowsWhat'
<1>1. /\ Used \subseteq Used'
      /\ \A d \in Used: Parts(d)' = Parts(d)
  BY MadeStays
<1>2. \A d \in Used: \A i \in Items: batch[i] = d => batch'[i] = d
  BY <1>1 DEF Parts
<1>3. turn.passed \subseteq Items
  BY DEF TypeOK, Turn
<1>4. \A i: InLog(i) => InLog(i)'
  BY DEF InLog
<1>5. turn.d \in Used => turn'.d \in Used' /\ Parts(turn.d)' = Parts(turn.d)
  BY <1>1 DEF Parts
<1> QED
  BY <1>1, <1>2, <1>3, <1>4, <1>5 DEF TurnKnows, TurnKnowsWhat

(* One more message is found or written. *)
LEMMA AppendKnows ==
  ASSUME TypeOK, BatchesInOrder, TurnKnows, AppendPart
  PROVE  TurnKnowsWhat'
<1>0. PICK n: n = NextPart
  OBVIOUS
<1>1. /\ n \in Parts(turn.d) \ turn.passed
      /\ turn.at = "prepare" /\ turn.d \in Used
  BY <1>0, NextPartLeft DEF AppendPart, TurnKnows
<1>2. /\ turn' = [turn EXCEPT !.passed = @ \cup {n}]
      /\ log' = IF n \in receipts THEN log ELSE Append(log, n)
      /\ UNCHANGED <<batch, delivery>>
      /\ n \in receipts => InLog(n)
  BY <1>0 DEF AppendPart, Stands
<1>3. /\ turn'.at = "prepare" /\ turn'.d = turn.d /\ turn'.by = turn.by
      /\ turn'.passed = turn.passed \cup {n}
      /\ turn.by # "none"
  BY <1>1, <1>2 DEF TypeOK, Turn, TurnKnows
<1>4. /\ \A i: InLog(i) => InLog(i)'
      /\ InLog(n)'
  <2>1. CASE n \in receipts
    BY <1>2, <2>1 DEF InLog
  <2>2. CASE n \notin receipts
    <3>1. log \in Seq(Items) /\ n \in Items
      BY <1>1 DEF TypeOK, Parts
    <3>2. /\ Len(log) \in Nat /\ DOMAIN log = 1 .. Len(log)
          /\ DOMAIN log' = 1 .. Len(log) + 1
          /\ log'[Len(log) + 1] = n
          /\ \A k \in 1 .. Len(log): log'[k] = log[k]
      BY <1>2, <2>2, <3>1
    <3>3. Len(log) + 1 \in DOMAIN log' /\ DOMAIN log \subseteq DOMAIN log'
      BY <3>2
    <3> QED
      BY <3>2, <3>3 DEF InLog
  <2> QED
    BY <2>1, <2>2
<1>5. \A i \in turn'.passed: batch'[i] = turn'.d /\ InLog(i)'
  BY <1>1, <1>2, <1>3, <1>4 DEF TurnKnows, Parts
<1>6. /\ turn'.d \in Used'
      /\ Parts(turn.d)' = Parts(turn.d)
  BY <1>1, <1>2, <1>3 DEF Used, Parts
<1>7. turn'.by = "stream" => (Parts(turn.d) \cap Pivots = {})'
  BY <1>1, <1>2, <1>3 DEF TurnKnows, Parts
<1> QED
  BY <1>1, <1>3, <1>5, <1>6, <1>7 DEF TurnKnowsWhat

(* Everything is written: the delivery may be handed over. *)
LEMMA PrepareKnows ==
  ASSUME TypeOK, BatchesInOrder, TurnKnows, [Next]_vars, Prepare
  PROVE  TurnKnowsWhat'
<1>1. CASE turn' = Free \/ GivesUp
  BY <1>1, GivingUpIsOver
<1>2. CASE turn.by # "consume" /\ turn' = [turn EXCEPT !.at = "start"]
  <2>1. /\ turn.at = "prepare" /\ turn.d \in Used /\ Parts(turn.d) = turn.passed
        /\ log' = log /\ batch' = batch
    BY DEF Prepare, TurnKnows
  <2>2. /\ turn'.at = "start" /\ turn'.d = turn.d /\ turn'.by = turn.by
        /\ turn'.passed = turn.passed
        /\ turn.by \in {"chat", "stream"}
    BY <1>2, <2>1 DEF TypeOK, Turn, TurnKnows
  <2>3. turn'.d \in Used'
    BY <2>1, <2>2, MadeStays
  <2>4. (Parts(turn.d) = turn.passed)'
    BY <2>1, <2>2 DEF Parts
  <2>5. \A i \in turn'.passed: batch'[i] = turn'.d /\ InLog(i)'
    BY <2>1, <2>2 DEF TurnKnows, InLog
  <2>6. turn'.by = "stream" => (Parts(turn.d) \cap Pivots = {})'
    BY <2>1, <2>2 DEF TurnKnows, Parts
  <2> QED
    BY <2>2, <2>3, <2>4, <2>5, <2>6 DEF TurnKnowsWhat
<1> QED
  BY <1>1, <1>2 DEF Prepare

(* The claimed batch has no pivot: its messages may be written. *)
LEMMA CheckKnows ==
  ASSUME TypeOK, BatchesInOrder, TurnKnows, [Next]_vars, StreamChecks
  PROVE  TurnKnowsWhat'
<1>1. CASE GivesUp
  BY <1>1, GivingUpIsOver
<1>2. CASE turn' = [turn EXCEPT !.at = "loop", !.d = NoDelivery]
  <2>1. turn'.at = "loop" /\ turn'.passed = {} /\ turn'.by = turn.by /\ turn.by # "none"
    BY <1>2 DEF TypeOK, Turn, TurnKnows, StreamChecks
  <2> QED
    BY <2>1, FreshTurn
<1>3. CASE ~ HandsOff(turn.d) /\ turn' = [turn EXCEPT !.at = "prepare"]
  <2>1. /\ turn.d \in Used /\ batch' = batch
        /\ turn'.at = "prepare" /\ turn'.d = turn.d /\ turn'.passed = {}
        /\ turn'.by = turn.by /\ turn.by # "none"
    BY <1>3 DEF TypeOK, Turn, TurnKnows, StreamChecks
  <2>2. turn'.d \in Used'
    BY <2>1, MadeStays
  <2>3. (Parts(turn.d) \cap Pivots = {})'
    BY <1>3, <2>1 DEF HandsOff, Parts
  <2> QED
    BY <2>1, <2>2, <2>3 DEF TurnKnowsWhat
<1> QED
  BY <1>1, <1>2, <1>3 DEF StreamChecks

(* A delivery is taken, or a stream begins. *)
LEMMA TakenKnows ==
  ASSUME TypeOK, BatchesInOrder, TurnKnows, [Next]_vars,
         \/ ConsumeClaim \/ ChatPlain \/ StreamClaims
         \/ \E d \in Deliveries: ConsumeResume(d) \/ ChatValidate(d)
  PROVE  TurnKnowsWhat'
<1>1. Used \subseteq Used'
  BY MadeStays
<1>2. \A S \in {Reusable(Renderer), Reusable(turn.id)}:
        Oldest(S) # NoDelivery => Oldest(S) \in Used
  BY OldestFound DEF Used, Reusable
<1>3. CASE ConsumeClaim
  <2>1. CASE ClaimNew(Renderer) /\ Reserve("consume", "prepare", NextDelivery)
    <3>1. NextDelivery \in Used'
      BY <2>1, ClaimNewEffect DEF Consumers
    <3>2. turn'.passed = {} /\ turn'.by = "consume" /\ turn'.at = "prepare" /\ turn'.d = NextDelivery
      BY <2>1 DEF Reserve, Free
    <3> QED
      BY <3>1, <3>2, FreshTurn
  <2>2. CASE LET d == Oldest(Reusable(Renderer))
             IN  d # NoDelivery /\ Returned(d, delivery[d])
    <3>1. PICK d \in Used: Returned(d, delivery[d])
      BY <1>2, <2>2
    <3>2. CASE turn' = Free
      BY <3>2, GivingUpIsOver
    <3>3. CASE Reserve("consume", "found", d) \/ Reserve("consume", "prepare", d)
      <4>1. turn'.passed = {} /\ turn'.by = "consume" /\ turn'.at \in {"found", "prepare"} /\ turn'.d = d
        BY <3>3 DEF Reserve, Free
      <4> QED
        BY <1>1, <4>1, FreshTurn
    <3> QED
      BY <3>1, <3>2, <3>3 DEF Returned
  <2> QED
    BY <1>3, <2>1, <2>2 DEF ConsumeClaim
<1>4. CASE ChatPlain
  <2>1. turn'.passed = {} /\ turn'.by = "stream" /\ turn'.at = "begun"
    BY <1>4 DEF ChatPlain, NewStream, Free
  <2> QED
    BY <2>1, FreshTurn
<1>5. CASE StreamClaims
  <2>1. turn.at = "claim" /\ turn.passed = {} /\ turn.by # "none"
    BY <1>5 DEF StreamClaims, TurnKnows
  <2>2. CASE turn' = [turn EXCEPT !.at = "loop"]
    <3>1. turn'.passed = {} /\ turn'.by # "none" /\ turn'.at = "loop"
      BY <2>1, <2>2 DEF TypeOK, Turn
    <3> QED
      BY <3>1, FreshTurn
  <2>3. ASSUME NEW d, d \in Used', turn' = [turn EXCEPT !.at = "check", !.d = d]
        PROVE  TurnKnowsWhat'
    <3>1. turn'.passed = {} /\ turn'.by # "none" /\ turn'.at = "check" /\ turn'.d = d
      BY <2>1, <2>3 DEF TypeOK, Turn
    <3> QED
      BY <2>3, <3>1, FreshTurn
  <2>4. turn.id \in Consumers
    BY DEF TypeOK, Turn, Consumers, Renderer, NoStream
  <2>5. ClaimNew(turn.id) => NextDelivery \in Used'
    BY <2>4, ClaimNewEffect
  <2> QED
    BY <1>1, <1>2, <1>5, <2>2, <2>3, <2>5 DEF StreamClaims
<1>6. CASE \E d \in Deliveries: ConsumeResume(d)
  <2>1. PICK d \in Deliveries: ConsumeResume(d)
    BY <1>6
  <2>2. d \in Used'
    BY <1>1, <2>1 DEF ConsumeResume, Used
  <2>3. turn'.passed = {} /\ turn'.by = "consume" /\ turn'.at = "prepare" /\ turn'.d = d
    BY <2>1 DEF ConsumeResume, Reserve, Free
  <2> QED
    BY <2>2, <2>3, FreshTurn
<1>7. CASE \E d \in Deliveries: ChatValidate(d)
  <2>1. PICK d \in Deliveries: ChatValidate(d)
    BY <1>7
  <2>2. d \in Used'
    BY <1>1, <2>1 DEF ChatValidate, Used
  <2>3. turn'.passed = {} /\ turn'.by = "chat" /\ turn'.at = "prepare" /\ turn'.d = d
    BY <2>1 DEF ChatValidate, Free
  <2> QED
    BY <2>2, <2>3, FreshTurn
<1> QED
  BY <1>3, <1>4, <1>5, <1>6, <1>7

(* A stream moves on. *)
LEMMA MovesOnKnows ==
  ASSUME TypeOK, TurnKnows,
         \/ Hands \/ StreamEnters \/ StreamLooks
         \/ \E ok \in BOOLEAN: StreamSelectsTerminal(ok)
  PROVE  TurnKnowsWhat'
<1>1. CASE Hands
  <2>1. turn' = [turn EXCEPT !.by = "stream", !.d = NoDelivery, !.passed = {},
                             !.at = IF turn.by = "chat" THEN "begun" ELSE "loop"]
    BY <1>1 DEF Hands, Start
  <2>2. turn'.by = "stream" /\ turn'.passed = {} /\ turn'.at \in {"begun", "loop"}
    BY <2>1 DEF TypeOK, Turn
  <2> QED
    BY <2>2, FreshTurn
<1>2. CASE StreamEnters \/ StreamLooks
  <2>1. /\ turn.passed = {} /\ turn.by # "none"
        /\ \/ turn' = [turn EXCEPT !.at = "loop"]
           \/ turn' = [turn EXCEPT !.at = "claim"]
    BY <1>2 DEF StreamEnters, StreamLooks, TurnKnows
  <2>2. turn'.passed = {} /\ turn'.by # "none" /\ turn'.at \in {"loop", "claim"}
    BY <2>1 DEF TypeOK, Turn
  <2> QED
    BY <2>2, FreshTurn
<1>3. CASE \E ok \in BOOLEAN: StreamSelectsTerminal(ok)
  <2>1. PICK ok \in BOOLEAN: StreamSelectsTerminal(ok)
    BY <1>3
  <2>2. turn'.at = "ending" /\ turn'.by # "none"
    BY <2>1 DEF StreamSelectsTerminal, TypeOK, Turn, TurnKnows
  <2> QED
    BY <2>2, OverTurn
<1> QED
  BY <1>1, <1>2, <1>3

LEMMA TurnStep ==
  ASSUME TypeOK, BatchesInOrder, TurnKnows, [Next]_vars
  PROVE  TurnKnowsWhat'
<1>1. CASE turn' = turn /\ log' = log
  BY <1>1, SameTurn
<1>2. CASE \E n \in Items: Rewind(n)
  <2>1. turn'.at = "idle"
    BY <1>2 DEF Rewind, TurnKnows
  <2> QED
    BY <2>1, OverTurn
<1>3. CASE turn' = Free \/ GivesUp
  BY <1>3, GivingUpIsOver
<1>4. CASE AppendPart
  BY <1>4, AppendKnows
<1>5. CASE Prepare
  BY <1>5, PrepareKnows
<1>6. CASE StreamChecks
  BY <1>6, CheckKnows
<1>7. CASE \/ ConsumeClaim \/ ChatPlain \/ StreamClaims
           \/ \E d \in Deliveries: ConsumeResume(d) \/ ChatValidate(d)
  BY <1>7, TakenKnows
<1>8. CASE \/ Hands \/ StreamEnters \/ StreamLooks
           \/ \E ok \in BOOLEAN: StreamSelectsTerminal(ok)
  BY <1>8, MovesOnKnows
<1> QED
  BY <1>1, <1>2, <1>3, <1>4, <1>5, <1>6, <1>7, <1>8
  DEF Next, vars, stored, Hands, Start, Enqueue, Withdraw, ListRead, ListLook, ListMark,
      ConsumeReconcile, ConsumeDismiss, AppendRewound, StreamLeavesEarly, Finish, Refused,
      FinishRefused, Crash

LEMMA ListingStep ==
  ASSUME TypeOK, BatchesInOrder, TurnKnows, [Next]_vars
  PROVE  listing'.at # "none" => listing'.d \in Used'
<1>1. Used \subseteq Used'
  BY MadeStays
<1>2. CASE listing' = listing
  BY <1>1, <1>2 DEF TurnKnows
<1>3. CASE listing' = NoListing
  BY <1>3 DEF NoListing
<1>4. CASE ListRead
  <2>1. PICK d: /\ d = Oldest(DeliveryState \ {"none", "confirmed"})
               /\ d # NoDelivery
    BY <1>4 DEF ListRead
  <2>2. d \in Used
    BY <2>1, OldestFound DEF Used
  <2>3. listing'.d = d
    BY <1>4, <2>1 DEF ListRead
  <2> QED
    BY <1>1, <2>2, <2>3
<1>5. CASE ListLook
  <2>1. listing.d \in Used
    BY <1>5 DEF ListLook, TurnKnows
  <2>2. CASE listing' = [listing EXCEPT !.at = "mark"]
    BY <1>1, <2>1, <2>2 DEF TypeOK, Listing
  <2> QED
    BY <1>3, <1>5, <2>2 DEF ListLook
<1> QED
  BY <1>2, <1>3, <1>4, <1>5
  DEF Next, vars, stored, Enqueue, Withdraw, ListMark, ConsumeClaim, ConsumeReconcile,
      ConsumeResume, ConsumeDismiss, ChatValidate, AppendPart, AppendRewound, Prepare, Start,
      ChatPlain, StreamEnters, StreamLeavesEarly, StreamLooks, StreamClaims, StreamChecks,
      StreamSelectsTerminal, Finish, Refused, FinishRefused, Rewind, Crash

LEMMA KnowsStep ==
  ASSUME TypeOK, BatchesInOrder, TurnKnows, [Next]_vars
  PROVE  TurnKnows'
BY TurnStep, ListingStep DEF TurnKnows, TurnKnowsWhat

-----------------------------------------------------------------------------
(* Types                                                                   *)

LEMMA ItemsStep ==
  ASSUME TypeOK, TurnKnows, [Next]_vars
  PROVE  /\ item' \in [Items -> {"absent", "queued", "injected", "withdrawn"}]
         /\ Cardinality({i \in Items: item'[i] = "queued"}) <= Capacity
<1> DEFINE waiting == {i \in Items: item[i] = "queued"}
           left == {i \in Items: item'[i] = "queued"}
<1>1. /\ IsFiniteSet(waiting) /\ Cardinality(waiting) \in Nat
      /\ Cardinality(waiting) <= Capacity
  BY Constants, FS_Subset, FS_CardinalityType DEF TypeOK
<1>2. left \subseteq waiting => Cardinality(left) <= Capacity
  <2> HIDE DEF waiting, left
  <2>1. ASSUME left \subseteq waiting
        PROVE  Cardinality(left) <= Capacity
    <3>1. /\ IsFiniteSet(left) /\ Cardinality(left) \in Nat
          /\ Cardinality(left) <= Cardinality(waiting)
      BY <1>1, <2>1, FS_Subset, FS_CardinalityType
    <3> QED
      BY <1>1, <3>1, QueueAssumption
  <2> QED
    BY <2>1
<1>3. CASE item' = item
  BY <1>3 DEF TypeOK
<1>4. CASE \E d: item' = Injected(d)
  <2>1. left \subseteq waiting
    BY <1>4 DEF Injected, TypeOK
  <2> QED
    BY <1>2, <1>4, <2>1 DEF Injected, TypeOK
<1>5. CASE \E i \in Items: Withdraw(i)
  <2>1. /\ left \subseteq waiting
        /\ item' \in [Items -> {"absent", "queued", "injected", "withdrawn"}]
    BY <1>5 DEF Withdraw, TypeOK
  <2> QED
    BY <1>2, <2>1
<1>6. CASE \E i \in Items: Enqueue(i)
  <2>1. PICK i \in Items: Enqueue(i)
    BY <1>6
  <2>2. /\ item' \in [Items -> {"absent", "queued", "injected", "withdrawn"}]
        /\ left = waiting \cup {i}
    BY <2>1 DEF Enqueue, TypeOK
  <2>3. Cardinality(waiting) < Capacity
    BY <2>1 DEF Enqueue, Admits
  <2> HIDE DEF waiting, left
  <2>4. Cardinality(waiting \cup {i}) = IF i \in waiting THEN Cardinality(waiting)
                                        ELSE Cardinality(waiting) + 1
    BY <1>1, FS_AddElement
  <2>5. Cardinality(left) <= Capacity
    BY <1>1, <2>2, <2>3, <2>4, QueueAssumption
  <2> QED
    BY <2>2, <2>5 DEF left
<1>7. item' = item \/ (\E d: item' = Injected(d)) \/ \E i \in Items: Enqueue(i) \/ Withdraw(i)
  <2>1. Claims \/ Marks \/ Prepare \/ StreamChecks \/ Finish => item' = item
    BY DEF Claims, Marks, Prepare, StreamChecks, Finish
  <2>2. Start => item' = item \/ item' = Injected(turn.d)
    BY DEF Start
  <2>3. \A d \in Deliveries: /\ ConsumeResume(d) => item' = item
                             /\ ConsumeDismiss(d) => item' = Injected(d)
    BY DEF ConsumeResume, ConsumeDismiss
  <2> QED
    BY <2>1, <2>2, <2>3, StepCases
<1> QED
  BY <1>3, <1>4, <1>5, <1>6, <1>7

LEMMA HistoryStep ==
  ASSUME TypeOK, TurnKnows, [Next]_vars
  PROVE  receipts' \subseteq Items /\ log' \in Seq(receipts')
<1>1. CASE UNCHANGED <<receipts, log>>
  BY <1>1 DEF TypeOK
<1>2. CASE AppendPart
  <2>1. PICK n: n = NextPart
    OBVIOUS
  <2>2. n \in Items
    BY <1>2, <2>1, NextPartLeft DEF AppendPart, Parts
  <2>3. /\ receipts' = receipts \cup {n}
        /\ log' = IF n \in receipts THEN log ELSE Append(log, n)
    BY <1>2, <2>1 DEF AppendPart
  <2>4. log \in Seq(receipts') /\ n \in receipts'
    BY <2>3 DEF TypeOK
  <2>5. Append(log, n) \in Seq(receipts')
    BY <2>4
  <2> QED
    BY <2>2, <2>3, <2>4, <2>5 DEF TypeOK
<1>3. CASE \E n \in Items: Rewind(n)
  <2>1. PICK n \in Items: Rewind(n)
    BY <1>3
  <2>2. /\ log' = SubSeq(log, 1, n - 1) /\ receipts' = receipts
        /\ n \in 1 .. Len(log) /\ Len(log) \in Nat /\ log \in Seq(receipts)
    BY <2>1 DEF Rewind, TypeOK
  <2>3. \A k \in 1 .. n - 1: log[k] \in receipts
    BY <2>2
  <2>4. SubSeq(log, 1, n - 1) \in Seq(receipts)
    BY <2>2, <2>3
  <2> QED
    BY <2>2, <2>4 DEF TypeOK
<1> QED
  BY <1>1, <1>2, <1>3
  DEF Next, vars, stored, Enqueue, Withdraw, ListRead, ListLook, ListMark, ConsumeClaim,
      ConsumeReconcile, ConsumeResume, ConsumeDismiss, ChatValidate, AppendRewound, Prepare,
      Start, ChatPlain, StreamEnters, StreamLeavesEarly, StreamLooks, StreamClaims,
      StreamChecks, StreamSelectsTerminal, Finish, Refused, FinishRefused, Crash

(* The places a turn can move to. *)
LEMMA TurnTypes ==
  /\ Free \in Turn
  /\ \A t \in Turn, at \in Stations, d \in {NoDelivery} \cup Deliveries:
       /\ [t EXCEPT !.at = at] \in Turn
       /\ [t EXCEPT !.at = at, !.d = d] \in Turn
       /\ [t EXCEPT !.at = at, !.ok = FALSE] \in Turn
<1>1. Free \in Turn
  BY DEF Free, Turn, Stations, NoDelivery, NoStream
<1>2. ASSUME NEW t \in Turn, NEW at \in Stations, NEW d \in {NoDelivery} \cup Deliveries
      PROVE  /\ [t EXCEPT !.at = at] \in Turn
             /\ [t EXCEPT !.at = at, !.d = d] \in Turn
             /\ [t EXCEPT !.at = at, !.ok = FALSE] \in Turn
  BY DEF Turn
<1> QED
  BY <1>1, <1>2

LEMMA GivingUpType ==
  ASSUME TypeOK, turn' = Free \/ GivesUp
  PROVE  turn' \in Turn
BY TurnTypes DEF GivesUp, TypeOK, Stations

LEMMA ReservedType ==
  ASSUME NEW d \in Deliveries, NEW at \in Stations, Reserve("consume", at, d)
  PROVE  turn' \in Turn
BY DEF Reserve, Free, Turn, Stations, NoStream

LEMMA NewStreamType ==
  ASSUME TypeOK, streams < MaxStreams
  PROVE  streams + 1 \in Streams
BY QueueAssumption DEF TypeOK, Streams, NoStream

LEMMA TurnTypeStep ==
  ASSUME TypeOK, BatchesInOrder, TurnKnows, [Next]_vars
  PROVE  turn' \in Turn
<1>0. turn \in Turn
  BY DEF TypeOK
<1>1. CASE turn' = turn \/ turn' = Free \/ GivesUp
  BY <1>0, <1>1, GivingUpType
<1>2. CASE AppendPart
  <2>1. NextPart \in Items
    BY <1>2, NextPartLeft DEF AppendPart, Parts
  <2> QED
    BY <1>0, <1>2, <2>1 DEF AppendPart, Turn
<1>3. CASE \E at \in Stations: turn' = [turn EXCEPT !.at = at]
  BY <1>0, <1>3, TurnTypes
<1>4. CASE StreamChecks
  <2>1. CASE turn' = [turn EXCEPT !.at = "loop", !.d = NoDelivery]
    BY <1>0, <2>1, TurnTypes DEF Stations
  <2> QED
    BY <1>1, <1>3, <1>4, <2>1 DEF StreamChecks, Stations
<1>5. CASE ConsumeClaim
  <2>1. CASE ClaimNew(Renderer) /\ Reserve("consume", "prepare", NextDelivery)
    <3>1. NextDelivery \in Deliveries
      BY <2>1, ClaimNewEffect DEF Consumers
    <3> QED
      BY <2>1, <3>1, ReservedType DEF Stations
  <2>2. CASE LET d == Oldest(Reusable(Renderer))
             IN  d # NoDelivery /\ Returned(d, delivery[d])
    <3>1. PICK d \in Deliveries: Returned(d, delivery[d])
      BY <2>2, OldestFound
    <3> QED
      BY <1>1, <3>1, ReservedType DEF Returned, Stations
  <2> QED
    BY <1>5, <2>1, <2>2 DEF ConsumeClaim
<1>6. CASE \E d \in Deliveries: ConsumeResume(d)
  BY <1>6, ReservedType DEF ConsumeResume, Stations
<1>7. CASE ChatPlain \/ \E d \in Deliveries: ChatValidate(d)
  <2>1. streams + 1 \in Streams
    BY <1>7, NewStreamType DEF ChatPlain, ChatValidate
  <2> QED
    BY <1>7, <2>1 DEF ChatPlain, ChatValidate, NewStream, Free, Turn, Stations, NoDelivery
<1>8. CASE Hands
  <2>1. turn' = [turn EXCEPT !.by = "stream", !.d = NoDelivery, !.passed = {},
                             !.at = IF turn.by = "chat" THEN "begun" ELSE "loop"]
    BY <1>8 DEF Hands, Start
  <2> QED
    BY <1>0, <2>1 DEF Turn, Stations
<1>9. CASE StreamClaims
  <2>1. turn.id \in Consumers
    BY <1>0 DEF Turn, Consumers, Renderer, NoStream
  <2>2. ClaimNew(turn.id) => NextDelivery \in Deliveries
    BY <2>1, ClaimNewEffect
  <2>3. Oldest(Reusable(turn.id)) # NoDelivery => Oldest(Reusable(turn.id)) \in Deliveries
    BY OldestFound
  <2>4. ASSUME NEW d \in Deliveries, turn' = [turn EXCEPT !.at = "check", !.d = d]
        PROVE  turn' \in Turn
    BY <1>0, <2>4, TurnTypes DEF Stations
  <2>5. CASE turn' = [turn EXCEPT !.at = "loop"]
    BY <1>3, <2>5 DEF Stations
  <2> QED
    BY <1>9, <2>2, <2>3, <2>4, <2>5 DEF StreamClaims
<1>10. CASE \E ok \in BOOLEAN: StreamSelectsTerminal(ok)
  <2>1. PICK ok \in BOOLEAN: turn' = [turn EXCEPT !.at = "ending", !.ok = ok]
    BY <1>10 DEF StreamSelectsTerminal
  <2> QED
    BY <1>0, <2>1 DEF Turn, Stations
<1>11. CASE Prepare \/ StreamEnters \/ StreamLooks
  BY <1>1, <1>3, <1>11 DEF Prepare, StreamEnters, StreamLooks, Stations
<1>12. CASE Start
  BY <1>1, <1>8, <1>12 DEF Start, Hands
<1>13. CASE \/ \E i \in Items: Enqueue(i) \/ Withdraw(i)
            \/ ListRead \/ ListLook \/ ListMark \/ ConsumeReconcile \/ AppendRewound
            \/ \E d \in Deliveries: ConsumeDismiss(d)
            \/ StreamLeavesEarly \/ Finish \/ Refused \/ FinishRefused
            \/ \E n \in Items: Rewind(n)
            \/ Crash \/ UNCHANGED vars
  <2>1. turn' = turn \/ turn' = Free \/ GivesUp
    BY <1>13
    DEF vars, Enqueue, Withdraw, ListRead, ListLook, ListMark, ConsumeReconcile,
        ConsumeDismiss, AppendRewound, StreamLeavesEarly, Finish, Refused, FinishRefused,
        Rewind, Crash
  <2> QED
    BY <1>1, <2>1
<1> QED
  BY <1>2, <1>4, <1>5, <1>6, <1>7, <1>9, <1>10, <1>11, <1>12, <1>13 DEF Next

LEMMA ListingTypeStep ==
  ASSUME TypeOK, [Next]_vars
  PROVE  listing' \in Listing
<1>1. CASE listing' = listing \/ listing' = NoListing
  BY <1>1 DEF TypeOK, NoListing, Listing, Consumers
<1>2. CASE ListRead
  <2>1. PICK d: /\ d = Oldest(DeliveryState \ {"none", "confirmed"})
               /\ d # NoDelivery
    BY <1>2 DEF ListRead
  <2>2. d \in Deliveries /\ delivery[d] \in DeliveryRecord
    BY <2>1, OldestFound DEF TypeOK
  <2>3. Owner(delivery[d]) \in Consumers
    BY <2>2 DEF Owner, DeliveryRecord, Consumers
  <2>4. listing' = [at |-> "read", d |-> d, owner |-> Owner(delivery[d])]
    BY <1>2, <2>1 DEF ListRead
  <2> QED
    BY <2>2, <2>3, <2>4 DEF Listing
<1>3. CASE ListLook
  BY <1>1, <1>3 DEF ListLook, TypeOK, Listing
<1> QED
  BY <1>1, <1>2, <1>3
  DEF Next, vars, stored, Enqueue, Withdraw, ListMark, ConsumeClaim, ConsumeReconcile,
      ConsumeResume, ConsumeDismiss, ChatValidate, AppendPart, AppendRewound, Prepare, Start,
      ChatPlain, StreamEnters, StreamLeavesEarly, StreamLooks, StreamClaims, StreamChecks,
      StreamSelectsTerminal, Finish, Refused, FinishRefused, Rewind, Crash

LEMMA CountedStep ==
  ASSUME TypeOK, TurnKnows, [Next]_vars
  PROVE  /\ streams' \in {NoStream} \cup Streams
         /\ handed' \in [Items -> Nat]
         /\ asked' \in [Deliveries -> 0 .. MaxAsked]
         /\ dismissed' \subseteq Deliveries /\ answered' \subseteq Deliveries
<1>1. CASE UNCHANGED counted
  BY <1>1 DEF counted, TypeOK
<1>2. CASE ChatPlain \/ \E d \in Deliveries: ChatValidate(d)
  BY <1>2, NewStreamType DEF ChatPlain, ChatValidate, TypeOK
<1>3. CASE \E d \in Deliveries: ConsumeResume(d)
  <2>1. PICK d \in Deliveries: ConsumeResume(d)
    BY <1>3
  <2> QED
    BY <2>1, ResumeEffect DEF ConsumeResume, TypeOK
<1>4. CASE \E d \in Deliveries: ConsumeDismiss(d)
  BY <1>4 DEF ConsumeDismiss, TypeOK
<1>5. CASE Start
  <2>1. handed' \in [Items -> Nat]
    BY <1>5 DEF Start, TypeOK
  <2> QED
    BY <1>5, <2>1 DEF Start, TypeOK
<1>6. CASE Finish
  BY <1>6, FinishEffect DEF Finish, TypeOK
<1> QED
  BY <1>1, <1>2, <1>3, <1>4, <1>5, <1>6
  DEF Next, vars, counted, Enqueue, Withdraw, ListRead, ListLook, ListMark, ConsumeClaim,
      ConsumeReconcile, AppendPart, AppendRewound, Prepare, StreamEnters, StreamLeavesEarly,
      StreamLooks, StreamClaims, StreamChecks, StreamSelectsTerminal, Refused, FinishRefused,
      Rewind, Crash

LEMMA TypeStep ==
  ASSUME TypeOK, BatchesInOrder, TurnKnows, [Next]_vars
  PROVE  TypeOK'
<1>1. /\ batch' \in [Items -> {NoDelivery} \cup Deliveries]
      /\ delivery' \in [Deliveries -> DeliveryRecord]
  <2>1. CASE Claims
    <3>1. PICK c \in Consumers: ClaimNew(c)
      BY <2>1, ClaimsEffect
    <3> QED
      BY <3>1, ClaimNewEffect
  <2>2. CASE ~ Claims
    BY <2>2, DeliveriesKept DEF TypeOK
  <2> QED
    BY <2>1, <2>2
<1>2. turn'.at \in {"found", "prepare", "start", "check"} => turn'.d # NoDelivery
  BY <1>1, KnowsStep, Constants DEF TurnKnows, Used
<1> QED
  BY <1>1, <1>2, ItemsStep, HistoryStep, TurnTypeStep, ListingTypeStep, CountedStep DEF TypeOK

-----------------------------------------------------------------------------
(* Theorems                                                                *)

LEMMA InitInv == Init => IInv
<1> SUFFICES ASSUME Init PROVE IInv
  OBVIOUS
<1>1. Used = {} /\ Cardinality(Used) = 0 /\ 1 .. 0 = {}
  <2>1. Used = {}
    BY DEF Init, Used, NoRecord
  <2> QED
    BY <2>1, FS_EmptySet
<1>2. TypeOK
  <2>1. Cardinality({i \in Items: item[i] = "queued"}) = 0
    <3>1. {i \in Items: item[i] = "queued"} = {}
      BY DEF Init
    <3> QED
      BY <3>1, FS_EmptySet
  <2>2. /\ item \in [Items -> {"absent", "queued", "injected", "withdrawn"}]
        /\ batch \in [Items -> {NoDelivery} \cup Deliveries]
        /\ delivery \in [Deliveries -> DeliveryRecord]
    BY DEF Init, NoRecord, DeliveryRecord, DeliveryState, Consumers
  <2>3. turn \in Turn /\ turn.at = "idle"
    BY TurnTypes DEF Init, Free
  <2>4. listing \in Listing
    BY DEF Init, NoListing, Listing, Consumers
  <2>5. /\ receipts \subseteq Items /\ log \in Seq(receipts)
        /\ streams \in {NoStream} \cup Streams
        /\ dismissed \subseteq Deliveries /\ answered \subseteq Deliveries
    BY DEF Init, NoStream
  <2>6. handed \in [Items -> Nat] /\ asked \in [Deliveries -> 0 .. MaxAsked]
    BY QueueAssumption DEF Init
  <2> QED
    BY <2>1, <2>2, <2>3, <2>4, <2>5, <2>6, QueueAssumption DEF TypeOK
<1>3. BatchesInOrder
  BY <1>1 DEF BatchesInOrder, Init
<1>4. HandedAsAsked /\ InputAccounted /\ StartedIsInjected
  BY DEF Init, HandedAsAsked, InputAccounted, StartedIsInjected
<1>5. TurnKnows
  BY DEF Init, TurnKnows, Free, NoListing
<1> QED
  BY <1>2, <1>3, <1>4, <1>5 DEF IInv

LEMMA StepInv == IInv /\ [Next]_vars => IInv'
BY TypeStep, BatchesStep, HandedStep, AccountedStep, KnowsStep DEF IInv

LEMMA Invariance == Spec => []IInv
BY InitInv, StepInv, PTL DEF Spec

(* Every variable keeps to its type, and the queue to its capacity.        *)
THEOREM TypeCorrect == Spec => []TypeOK
<1>1. IInv => TypeOK
  BY DEF IInv
<1> QED
  BY <1>1, Invariance, PTL

(* Whatever crashes, fails, is marked or reclaimed: an item is handed over *)
(* to a stream once, and once more for each time the user asks for it.     *)
THEOREM NothingIsReplayed == Spec => []NoReplay
<1>1. IInv => NoReplay
  <2> SUFFICES ASSUME IInv, NEW i \in Items, batch[i] # NoDelivery
               PROVE  handed[i] <= 1 + asked[batch[i]]
    BY DEF NoReplay
  <2>1. batch[i] \in Deliveries /\ asked[batch[i]] \in Nat /\ handed[i] \in Nat
    BY DEF IInv, TypeOK
  <2>2. handed[i] <= asked[batch[i]] \/ handed[i] <= 1 + asked[batch[i]]
    BY DEF IInv, HandedAsAsked
  <2> QED
    BY <2>1, <2>2
<1> QED
  BY <1>1, Invariance, PTL

(* No item is lost or spent twice, and a delivery closes only over items   *)
(* that were injected, by the user or by a stream that completed.          *)
THEOREM InputIsAccounted == Spec => []InputAccounted
<1>1. IInv => InputAccounted
  BY DEF IInv
<1> QED
  BY <1>1, Invariance, PTL

(* Only a hand-over counts. *)
LEMMA OnlyHands ==
  ASSUME IInv, [Next]_vars, NEW i \in Items, handed'[i] > handed[i]
  PROVE  Hands /\ turn.at = "start" /\ batch[i] = turn.d
<1>1. handed[i] \in Nat /\ ~ (handed[i] > handed[i])
  BY DEF IInv, TypeOK
<1>2. handed' # handed
  BY <1>1
<1>3. Start
  BY <1>2
  DEF Next, vars, counted, Enqueue, Withdraw, ListRead, ListLook, ListMark, ConsumeClaim,
      ConsumeReconcile, ConsumeResume, ConsumeDismiss, ChatValidate, AppendPart,
      AppendRewound, Prepare, ChatPlain, StreamEnters, StreamLeavesEarly, StreamLooks,
      StreamClaims, StreamChecks, StreamSelectsTerminal, Finish, Refused, FinishRefused,
      Rewind, Crash
<1>4. Hands
  BY <1>2, <1>3 DEF Start, Hands
<1>5. handed' = [j \in Items |-> IF batch[j] = turn.d THEN handed[j] + 1 ELSE handed[j]]
  BY <1>4, StartEffect DEF IInv
<1> QED
  BY <1>1, <1>3, <1>4, <1>5 DEF Start

(* What is handed over is in the history at that moment: a message the     *)
(* user has rewound is not handed over again.                              *)
THEOREM RewoundStays == Spec => RewoundStaysAway
<1>1. IInv /\ [Next]_vars => [\A i \in Items: handed'[i] > handed[i] => InLog(i)]_vars
  <2>1. ASSUME IInv, [Next]_vars, NEW i \in Items, handed'[i] > handed[i]
        PROVE  InLog(i)
    <3>1. turn.at = "start" /\ batch[i] = turn.d
      BY <2>1, OnlyHands
    <3> QED
      BY <3>1, <2>1 DEF IInv, TurnKnows, Parts
  <2> QED
    BY <2>1
<1> QED
  BY <1>1, Invariance, PTL DEF Spec, RewoundStaysAway

(* A text that changes the task is handed over by a chat start only, never *)
(* to the turn under way.                                                  *)
THEOREM PivotsStartTurns == Spec => PivotStartsOwnTurn
<1>1. IInv /\ [Next]_vars => [\A i \in Pivots: handed'[i] > handed[i] => turn.by = "chat"]_vars
  <2>1. ASSUME IInv, [Next]_vars, NEW i \in Pivots, handed'[i] > handed[i]
        PROVE  turn.by = "chat"
    <3>0. i \in Items
      BY QueueAssumption
    <3>1. turn.at = "start" /\ batch[i] = turn.d
      BY <2>1, <3>0, OnlyHands
    <3>2. turn.by \in {"chat", "stream"} /\ i \in Parts(turn.d)
      BY <2>1, <3>0, <3>1 DEF IInv, TurnKnows, Parts
    <3>3. turn.by # "stream"
      BY <2>1, <3>1, <3>2 DEF IInv, TurnKnows
    <3> QED
      BY <3>2, <3>3
  <2> QED
    BY <2>1
<1> QED
  BY <1>1, Invariance, PTL DEF Spec, PivotStartsOwnTurn
=============================================================================

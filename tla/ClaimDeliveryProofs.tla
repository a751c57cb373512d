------------------------- MODULE ClaimDeliveryProofs -------------------------
(***************************************************************************)
(* Proofs about ClaimDelivery, for every set of claims and workers, every  *)
(* number of attempts and every kind of benefit and provider.              *)
(***************************************************************************)
EXTENDS ClaimDelivery, FiniteSetTheorems, SumTheorems, TLAPS

-----------------------------------------------------------------------------
(* Typing.  The sets of rows stay closed: each fact below says that one way *)
(* of building a row gives a row.                                           *)

\* Each way the code writes an outbox row gives an outbox row.
LEMMA BoxesType ==
  /\ NoBox \in Boxes
  /\ [NoBox EXCEPT !.status = "pending"] \in Boxes
  /\ \A b \in Boxes : b.attempt \in 0..MaxAttempts /\ [b EXCEPT !.expired = TRUE] \in Boxes
  /\ \A n \in 0..MaxAttempts, w \in Workers :
       [status |-> "processing", attempt |-> n, holder |-> w, expired |-> FALSE] \in Boxes
  /\ \A k \in Keys, s \in BoxStatuses : box[k] \in Boxes => Released(k, s) \in Boxes
  <1>1. 0 \in 0..MaxAttempts
    BY NumbersAssumption
  <1>2. NoBox \in Boxes /\ [NoBox EXCEPT !.status = "pending"] \in Boxes
    BY <1>1 DEF Boxes, BoxStatuses, NoBox
  <1>3. ASSUME NEW b \in Boxes
        PROVE  b.attempt \in 0..MaxAttempts /\ [b EXCEPT !.expired = TRUE] \in Boxes
    BY DEF Boxes
  <1>4. ASSUME NEW n \in 0..MaxAttempts, NEW w \in Workers
        PROVE  [status |-> "processing", attempt |-> n, holder |-> w, expired |-> FALSE] \in Boxes
    BY DEF Boxes, BoxStatuses
  <1>5. ASSUME NEW k \in Keys, NEW s \in BoxStatuses, box[k] \in Boxes
        PROVE  Released(k, s) \in Boxes
    BY <1>5 DEF Boxes, Released
  <1> QED BY <1>2, <1>3, <1>4, <1>5

\* Each way the code writes a claim gives a claim.
LEMMA ClaimsType ==
  /\ NoClaim \in ClaimRows
  /\ \A amount \in Nat, r \in ReservationStatuses :
       [status |-> "success", delivery |-> "pending", reservation |-> r, amount |-> amount]
         \in ClaimRows
  /\ \A c \in ClaimRows :
       /\ Settled(c) \in ClaimRows /\ Confirmed(c) \in ClaimRows
       /\ \A s \in ClaimStatuses : [c EXCEPT !.status = s] \in ClaimRows
       /\ \A d \in DeliveryStatuses : [c EXCEPT !.delivery = d] \in ClaimRows
       /\ \A d \in DeliveryStatuses, s \in ClaimStatuses, r \in ReservationStatuses :
            [c EXCEPT !.delivery = d, !.status = s, !.reservation = r] \in ClaimRows
  <1> USE DEF ClaimRows, ClaimStatuses, DeliveryStatuses, ReservationStatuses
  <1>1. NoClaim \in ClaimRows
    BY DEF NoClaim
  <1>2. ASSUME NEW c \in ClaimRows PROVE Settled(c) \in ClaimRows /\ Confirmed(c) \in ClaimRows
    <2>1. Settled(c) \in ClaimRows
      BY DEF Settled
    <2>2. Confirmed(c) \in ClaimRows
      <3>1. \A x \in ClaimRows, v \in ClaimStatuses : [x EXCEPT !.status = v] \in ClaimRows
        OBVIOUS
      <3>2. (IF c.status = "claimed" THEN "delivered" ELSE Settled(c).status) \in ClaimStatuses
        BY <2>1
      <3> QED BY <2>1, <3>1, <3>2 DEF Confirmed
    <2> QED BY <2>1, <2>2
  <1>3. \A amount \in Nat, r \in ReservationStatuses :
          [status |-> "success", delivery |-> "pending", reservation |-> r, amount |-> amount]
            \in ClaimRows
    OBVIOUS
  <1>4. ASSUME NEW c \in ClaimRows
        PROVE  /\ \A s \in ClaimStatuses : [c EXCEPT !.status = s] \in ClaimRows
               /\ \A d \in DeliveryStatuses : [c EXCEPT !.delivery = d] \in ClaimRows
               /\ \A d \in DeliveryStatuses, s \in ClaimStatuses, r \in ReservationStatuses :
                    [c EXCEPT !.delivery = d, !.status = s, !.reservation = r] \in ClaimRows
    OBVIOUS
  <1> HIDE DEF ClaimRows, ClaimStatuses, DeliveryStatuses, ReservationStatuses
  <1> QED BY <1>1, <1>2, <1>3, <1>4

\* What settling a row reads as afterwards.
LEMMA SettledFields ==
  ASSUME NEW c \in ClaimRows
  PROVE  \A x \in {Settled(c), Confirmed(c)} :
           /\ x.delivery = "success" /\ x.amount = c.amount
           /\ x.reservation = (IF c.reservation = "reserved" THEN "settled" ELSE c.reservation)
           /\ x.status = c.status \/ (c.status = "claimed" /\ x.status = "delivered")
  <1>1. /\ Settled(c).delivery = "success" /\ Settled(c).amount = c.amount
        /\ Settled(c).reservation =
             (IF c.reservation = "reserved" THEN "settled" ELSE c.reservation)
        /\ Settled(c).status = c.status
    BY DEF Settled, ClaimRows
  <1>2. Settled(c) \in ClaimRows
    BY ClaimsType
  <1>3. /\ Confirmed(c).delivery = Settled(c).delivery
        /\ Confirmed(c).amount = Settled(c).amount
        /\ Confirmed(c).reservation = Settled(c).reservation
        /\ Confirmed(c).status =
             (IF c.status = "claimed" THEN "delivered" ELSE Settled(c).status)
    BY <1>2 DEF Confirmed, ClaimRows
  <1> QED BY <1>1, <1>3

\* The end of a lease keeps the attempt and clears the holder.
LEMMA ReleasedFields ==
  ASSUME NEW k \in Keys, box[k] \in Boxes, NEW s
  PROVE  Released(k, s).status = s
  BY DEF Released, Boxes

\* ClaimRows, refunds and edits keep the benefit row a benefit row.
LEMMA BenefitsType ==
  \A b \in Benefits :
    /\ b.used \in Int /\ b.claimed \in Int /\ b.total \in Nat /\ b.limit \in Nat
    /\ \A m, n \in Int : [b EXCEPT !.used = m, !.claimed = n] \in Benefits
    /\ \A s \in {"active", "inactive"}, t \in StockChoices, n \in LimitChoices :
         [b EXCEPT !.status = s, !.total = t, !.limit = n] \in Benefits
  BY NumbersAssumption DEF Benefits

\* What the results and callbacks store of a delivery is a delivery row.
LEMMA DeliveriesType ==
  /\ NoDelivery \in Deliveries
  /\ \A s \in {"success", "pending"}, ext \in ExternalIds :
       [status |-> s, ext |-> ext] \in Deliveries
  /\ \A d \in Deliveries, s \in Outcomes : [d EXCEPT !.status = s] \in Deliveries
  BY DEF Deliveries, NoDelivery, Outcomes, ExternalIds

\* What a worker has in hand is a job, and its batch holds leased items.
LEMMA JobsType ==
  /\ Idle \in Jobs
  /\ \A item \in Items, fresh \in BOOLEAN : item.key \in Keys /\ Ready(item, fresh) \in Jobs
  /\ \A k \in Keys : Failing(k) \in Jobs
  /\ \A j \in Jobs, s \in {"success", "pending"}, ext \in ExternalIds :
       j.phase = "ready" => [j EXCEPT !.phase = "answered", !.answer = s, !.ext = ext] \in Jobs
  BY DEF Idle, Jobs, Ready, Failing, Items, Phases, ExternalIds

\* The amount of a claim is a natural number while stock is left.
LEMMA AmountsType == TypeOK /\ benefit.used < benefit.total => Amounts \subseteq Nat
  <1> SUFFICES ASSUME TypeOK, benefit.used < benefit.total PROVE Amounts \subseteq Nat
    OBVIOUS
  <1>1. /\ benefit.used \in Int /\ benefit.claimed \in Int /\ benefit.total \in Nat
    BY BenefitsType DEF TypeOK
  <1>2. (Budget - benefit.claimed) \div (benefit.total - benefit.used) \in Int
    BY <1>1, ConfigAssumption
  <1> QED BY <1>2, ConfigAssumption DEF Amounts, LuckyAmount, Greatest

\* The rows the campaign starts with are well typed.
THEOREM TypingInit == Init => TypeOK
  <1> SUFFICES ASSUME Init PROVE TypeOK
    OBVIOUS
  <1>1. campaign \in Campaigns /\ benefit \in Benefits
    BY DEF Init, Campaigns, Benefits
  <1> QED
    BY <1>1, BoxesType, ClaimsType, DeliveriesType, JobsType DEF Init, TypeOK

\* What a worker has in hand when it is not idle, and when it has an answer.
LEMMA InHandType ==
  ASSUME TypeOK, NEW w \in Workers
  PROVE  /\ job[w].phase # "idle" => job[w].key \in Keys
         /\ job[w].phase = "answered" =>
              job[w].answer \in {"success", "pending"} /\ job[w].ext \in ExternalIds
  BY DEF TypeOK, Jobs

\* Every step keeps the types; one case per action.
THEOREM TypingNext == TypeOK /\ [Next]_vars => TypeOK'
  <1> SUFFICES ASSUME TypeOK, [Next]_vars PROVE TypeOK'
    OBVIOUS
  <1>1. ASSUME NEW s \in {"active", "paused", "ended"}, TransitionCampaign(s) PROVE TypeOK'
    <2>1. campaign' \in Campaigns
      BY <1>1 DEF TransitionCampaign, TypeOK, Campaigns
    <2> QED BY <1>1, <2>1 DEF TransitionCampaign, TypeOK, worker
  <1>2. ASSUME NEW n \in LimitChoices, UpdateCampaign(n) PROVE TypeOK'
    <2>1. campaign' \in Campaigns
      BY <1>2 DEF UpdateCampaign, TypeOK, Campaigns
    <2> QED BY <1>2, <2>1 DEF UpdateCampaign, TypeOK, worker
  <1>3. ASSUME NEW status \in {"active", "inactive"}, NEW total \in StockChoices,
               NEW limit \in LimitChoices, UpdateBenefit(status, total, limit)
        PROVE TypeOK'
    BY <1>3, BenefitsType DEF UpdateBenefit, TypeOK, worker
  <1>4. ASSUME NEW k \in Keys, Claim(k) PROVE TypeOK'
    <2>1. PICK amount \in Amounts :
            /\ benefit' = [benefit EXCEPT !.used = @ + 1, !.claimed = @ + amount]
            /\ claim' = [claim EXCEPT ![k] =
                 [status |-> "success", delivery |-> "pending",
                  reservation |-> IF Cash THEN "reserved" ELSE "not_required",
                  amount |-> amount]]
      BY <1>4 DEF Claim
    <2>2. amount \in Nat
      BY <1>4, AmountsType DEF Claim
    <2>3. benefit' \in Benefits
      <3>1. benefit \in Benefits /\ benefit.used + 1 \in Int /\ benefit.claimed + amount \in Int
        BY <2>2 DEF TypeOK, Benefits
      <3> QED BY <2>1, <3>1, BenefitsType
    <2>4. claim' \in [Keys -> ClaimRows]
      BY <2>1, <2>2, ClaimsType DEF TypeOK, ReservationStatuses
    <2> QED BY <1>4, <2>3, <2>4, BoxesType DEF Claim, TypeOK, worker
  <1>5. ASSUME NEW k \in Keys, Redeem(k) PROVE TypeOK'
    <2>1. claim' \in [Keys -> ClaimRows]
      BY <1>5, ClaimsType DEF Redeem, TypeOK, ClaimStatuses
    <2> QED BY <1>5, <2>1 DEF Redeem, TypeOK, worker
  <1>6. ASSUME NEW w \in Workers, Lease(w) PROVE TypeOK'
    <2>1. PICK S \in SUBSET Keys :
            LET timedOut(k) == box[k].status = "awaiting_callback"
            IN /\ \A k \in S : Leasable(k)
               /\ box' = [k \in Keys |->
                     IF k \in S THEN [status |-> "processing", attempt |-> NextAttempt(k),
                                      holder |-> w, expired |-> FALSE]
                     ELSE box[k]]
               /\ batch' = [batch EXCEPT ![w] =
                     {[key |-> k, timedOut |-> timedOut(k),
                       giveUp |-> timedOut(k) /\ NextAttempt(k) >= MaxAttempts] : k \in S}]
      BY <1>6 DEF Lease
    <2>2. ASSUME NEW k \in S
          PROVE  NextAttempt(k) \in 0..MaxAttempts
      <3>1. box[k] \in Boxes /\ box[k].attempt \in 0..MaxAttempts
        BY BoxesType DEF TypeOK
      <3>2. Leasable(k)
        BY <2>1
      <3> QED BY <3>1, <3>2, NumbersAssumption DEF Leasable, NextAttempt
    <2>3. box' \in [Keys -> Boxes]
      BY <2>1, <2>2, BoxesType DEF TypeOK
    <2>4. batch' \in [Workers -> SUBSET Items]
      <3> DEFINE timedOut(k) == box[k].status = "awaiting_callback"
                 item(k) == [key |-> k, timedOut |-> timedOut(k),
                             giveUp |-> timedOut(k) /\ NextAttempt(k) >= MaxAttempts]
      <3>1. \A k \in S : item(k) \in Items
        BY DEF Items
      <3>2. batch' = [batch EXCEPT ![w] = {item(k) : k \in S}]
        BY <2>1
      <3> HIDE DEF item
      <3> QED BY <3>1, <3>2 DEF TypeOK
    <2> QED BY <1>6, <2>3, <2>4 DEF Lease, TypeOK
  <1>7. ASSUME NEW w \in Workers, Begin(w) PROVE TypeOK'
    <2>1. PICK item \in batch[w] :
            /\ batch' = [batch EXCEPT ![w] = @ \ {item}]
            /\ \/ /\ job' = [job EXCEPT ![w] = Ready(item, Live(w, item.key))]
                  /\ UNCHANGED <<benefit, claim, box, delivery>>
               \/ /\ job' = [job EXCEPT ![w] = Failing(item.key)]
                  /\ UNCHANGED <<benefit, claim, box, delivery>>
               \/ Complete(item.key) /\ UNCHANGED job
      BY <1>7 DEF Begin
    <2>2. item \in Items /\ item.key \in Keys /\ Live(w, item.key) \in BOOLEAN
      BY JobsType DEF TypeOK, Live, Holds
    <2>3. batch' \in [Workers -> SUBSET Items]
      BY <2>1 DEF TypeOK
    <2>4. CASE job' = [job EXCEPT ![w] = Ready(item, Live(w, item.key))]
               /\ UNCHANGED <<benefit, claim, box, delivery>>
      BY <1>7, <2>2, <2>3, <2>4, JobsType DEF TypeOK, Begin
    <2>5. CASE job' = [job EXCEPT ![w] = Failing(item.key)]
               /\ UNCHANGED <<benefit, claim, box, delivery>>
      BY <1>7, <2>2, <2>3, <2>5, JobsType DEF TypeOK, Begin
    <2>6. CASE Complete(item.key) /\ UNCHANGED job
      <3>1. box' \in [Keys -> Boxes] /\ claim' \in [Keys -> ClaimRows]
        BY <2>2, <2>6, BoxesType, ClaimsType DEF Complete, TypeOK, BoxStatuses
      <3> QED BY <1>7, <2>3, <2>6, <3>1 DEF TypeOK, Begin, Complete
    <2> QED BY <2>1, <2>4, <2>5, <2>6
  <1>8. ASSUME NEW w \in Workers, CallProvider(w) PROVE TypeOK'
    <2>1. job[w] \in Jobs /\ job[w].key \in Keys
      BY <1>8, InHandType DEF CallProvider, TypeOK
    <2> DEFINE k == job[w].key
    <2>2. PICK p \in {"none", "accepted", "granted", "refused"} :
            /\ provider' = [provider EXCEPT ![k] = p]
            /\ calls' = [calls EXCEPT ![k] = IF p = "granted" THEN @ \cup {"success"} ELSE @]
            /\ \/ \E a \in Answers(p) :
                    job' = [job EXCEPT ![w].phase = "answered", ![w].answer = a[1],
                                       ![w].ext = a[2]]
               \/ job' = [job EXCEPT ![w] = Failing(k)]
      <3>1. /\ provider[k] \in {"none", "accepted", "granted", "refused"}
            /\ Ordered(provider[k]) \subseteq {"none", "accepted", "granted", "refused"}
        BY <2>1 DEF TypeOK, Ordered
      <3> QED BY <1>8, <3>1 DEF CallProvider
    <2>3. \A a \in Answers(p) : a[1] \in {"success", "pending"} /\ a[2] \in ExternalIds
      BY ConfigAssumption DEF Answers, OwnId, ExternalIds
    <2>4. job' \in [Workers -> Jobs]
      <3>1. CASE job' = [job EXCEPT ![w] = Failing(k)]
        BY <2>1, <3>1, JobsType DEF TypeOK
      <3>2. ASSUME NEW a \in Answers(p),
                   job' = [job EXCEPT ![w].phase = "answered", ![w].answer = a[1],
                                      ![w].ext = a[2]]
            PROVE  job' \in [Workers -> Jobs]
        <4>1. job' = [job EXCEPT ![w] =
                        [@ EXCEPT !.phase = "answered", !.answer = a[1], !.ext = a[2]]]
          BY <3>2 DEF TypeOK
        <4>2. [job[w] EXCEPT !.phase = "answered", !.answer = a[1], !.ext = a[2]] \in Jobs
          BY <1>8, <2>1, <2>3, <3>2, JobsType DEF CallProvider
        <4> QED BY <4>1, <4>2 DEF TypeOK
      <3> QED BY <2>2, <3>1, <3>2
    <2>5. /\ provider' \in [Keys -> {"none", "accepted", "granted", "refused"}]
          /\ calls' \in [Keys -> SUBSET Outcomes]
      BY <2>1, <2>2 DEF TypeOK, Outcomes
    <2> QED BY <1>8, <2>4, <2>5 DEF CallProvider, TypeOK
  <1>9. ASSUME NEW w \in Workers, Record(w) PROVE TypeOK'
    <2> DEFINE k == job[w].key
               s == job[w].answer
    <2>1. k \in Keys /\ s \in {"success", "pending"} /\ job[w].ext \in ExternalIds
      BY <1>9, InHandType DEF Record
    <2>2. box[k] \in Boxes /\ claim[k] \in ClaimRows
      BY <2>1 DEF TypeOK
    <2>3. RecordResult(k, s, job[w].ext) /\ job' = [job EXCEPT ![w] = Idle]
      BY <1>9 DEF Record
    <2>4. box' \in [Keys -> Boxes]
      BY <2>1, <2>2, <2>3, BoxesType DEF RecordResult, TypeOK, BoxStatuses
    <2>5. claim' \in [Keys -> ClaimRows]
      BY <2>1, <2>2, <2>3, ClaimsType, ZenonT(40) DEF RecordResult, TypeOK, DeliveryStatuses
    <2>6. delivery' \in [Keys -> Deliveries]
      BY <2>1, <2>3, DeliveriesType DEF RecordResult, TypeOK
    <2>7. UNCHANGED <<campaign, benefit, receipts, provider, calls, batch>>
      BY <1>9, <2>3 DEF Record, RecordResult
    <2> QED BY <2>3, <2>4, <2>5, <2>6, <2>7, JobsType DEF TypeOK
  <1>10. ASSUME NEW w \in Workers, RecordRefused(w) PROVE TypeOK'
    <2>1. job[w].key \in Keys
      BY <1>10, InHandType DEF RecordRefused
    <2> QED BY <1>10, <2>1, JobsType DEF RecordRefused, TypeOK, rows
  <1>11. ASSUME NEW w \in Workers, Fail(w) PROVE TypeOK'
    <2> DEFINE k == job[w].key
    <2>1. k \in Keys
      BY <1>11, InHandType DEF Fail
    <2>1a. box[k] \in Boxes /\ claim[k] \in ClaimRows /\ claim[k].amount \in Nat
      BY <2>1 DEF TypeOK, ClaimRows
    <2>2. FailBox(k) /\ job' = [job EXCEPT ![w] = Idle]
      BY <1>11 DEF Fail
    <2>3. box' \in [Keys -> Boxes]
      BY <2>1, <2>1a, <2>2, BoxesType DEF FailBox, Refundable, AfterRefund, TypeOK, BoxStatuses
    <2>4. claim' \in [Keys -> ClaimRows]
      <3>1. PICK d \in DeliveryStatuses, s \in ClaimStatuses, r \in ReservationStatuses :
              claim' = [claim EXCEPT ![k] = [@ EXCEPT !.delivery = d, !.status = s, !.reservation = r]]
        <4> DEFINE terminal == box[k].attempt >= MaxAttempts
                   open == claim[k].status \in {"success", "claimed"}
                   refund == terminal /\ open /\ claim[k].reservation = "reserved"
                   d == IF terminal THEN "dead_letter" ELSE "pending"
                   s == IF terminal /\ open THEN "failed" ELSE claim[k].status
                   r == IF refund THEN "refunded" ELSE claim[k].reservation
        <4>1. d \in DeliveryStatuses /\ s \in ClaimStatuses /\ r \in ReservationStatuses
          BY <2>1a DEF ClaimRows, ClaimStatuses, DeliveryStatuses, ReservationStatuses
        <4>2. claim' = [claim EXCEPT ![k] =
                          [@ EXCEPT !.delivery = d, !.status = s, !.reservation = r]]
          BY <2>1, <2>1a, <2>2 DEF FailBox, Refundable, AfterRefund, TypeOK, ClaimRows
        <4> QED BY <4>1, <4>2
      <3> QED BY <2>1a, <3>1, ClaimsType DEF TypeOK
    <2>5. benefit' \in Benefits
      <3>1. benefit.used - 1 \in Int /\ benefit.claimed - claim[k].amount \in Int
        BY <2>1a DEF TypeOK, Benefits
      <3> QED BY <2>2, <3>1, BenefitsType DEF FailBox, Refundable, AfterRefund, TypeOK
    <2>6. UNCHANGED <<campaign, delivery, receipts, provider, calls, batch>>
      BY <1>11, <2>2 DEF Fail, FailBox, Refundable, AfterRefund
    <2> QED BY <2>2, <2>3, <2>4, <2>5, <2>6, JobsType DEF TypeOK
  <1>12. ASSUME NEW w \in Workers, FailLost(w) \/ Crash(w) PROVE TypeOK'
    BY <1>12, JobsType DEF FailLost, Crash, TypeOK, rows
  <1>13. ASSUME NEW k \in Keys, ProviderSettles(k) PROVE TypeOK'
    BY <1>13 DEF ProviderSettles, TypeOK, rows, worker, Outcomes
  <1>14. ASSUME NEW k \in Keys, LeaseExpires(k) PROVE TypeOK'
    <2>1. box' \in [Keys -> Boxes]
      BY <1>14, BoxesType DEF LeaseExpires, TypeOK
    <2> QED BY <1>14, <2>1 DEF LeaseExpires, TypeOK, worker
  <1>15. ASSUME NEW k \in Keys, NEW s \in Outcomes, Callback(k, s) PROVE TypeOK'
    <2>1. box[k] \in Boxes /\ claim[k] \in ClaimRows /\ delivery[k] \in Deliveries
      BY DEF TypeOK
    <2>2. CASE CallbackSuccess(k)
      <3>1. claim' \in [Keys -> ClaimRows]
        BY <2>1, <2>2, ClaimsType DEF CallbackSuccess, TypeOK
      <3>2. box' \in [Keys -> Boxes] /\ delivery' \in [Keys -> Deliveries]
        BY <2>1, <2>2, BoxesType, DeliveriesType DEF CallbackSuccess, TypeOK, BoxStatuses, Outcomes
      <3> QED BY <1>15, <3>1, <3>2 DEF Callback, TypeOK, worker
    <2>3. CASE CallbackFailed(k)
      BY <1>15, <2>1, <2>3, BoxesType, ClaimsType, DeliveriesType
      DEF CallbackFailed, Callback, TypeOK, BoxStatuses, DeliveryStatuses, Outcomes, worker
    <2> QED BY <1>15, <2>2, <2>3 DEF Callback
  <1>16. CASE UNCHANGED vars
    BY <1>16 DEF vars, TypeOK
  <1> QED
    BY <1>1, <1>2, <1>3, <1>4, <1>5, <1>6, <1>7, <1>8, <1>9, <1>10, <1>11, <1>12, <1>13, <1>14,
       <1>15, <1>16
    DEF Next, Operate

\* Type correctness of every reachable state.
THEOREM TypeCorrect == Spec => []TypeOK
  BY TypingInit, TypingNext, PTL DEF Spec
-----------------------------------------------------------------------------
(* The inductive invariant.                                                *)

Rest == RowsAgree /\ RefundedIsDead /\ SuccessReceiptIsFinal /\ WithinBudget /\ StockLedger

Unrefunded == {k \in Keys : HoldsStock(k)}

\* The claims that hold stock can be counted.
LEMMA UnrefundedFinite == IsFiniteSet(Unrefunded) /\ Cardinality(Unrefunded) \in Nat
  BY FS_Subset, FS_CardinalityType, KeysAssumption DEF Unrefunded

\* The rows agree before the first claim.
LEMMA RestInit == Init => Rest
  <1> SUFFICES ASSUME Init PROVE Rest
    OBVIOUS
  <1>1. RowsAgree /\ RefundedIsDead /\ SuccessReceiptIsFinal /\ WithinBudget
    BY ConfigAssumption
    DEF Init, RowsAgree, RefundedIsDead, SuccessReceiptIsFinal, WithinBudget, NoClaim, NoBox, Claimed
  <1>2. StockLedger
    <2>1. Unrefunded = {}
      BY DEF Init, Unrefunded, HoldsStock, Claimed, NoClaim
    <2>2. benefit.used = 0 /\ benefit.total \in Nat
      BY NumbersAssumption DEF Init
    <2> QED BY <2>1, <2>2, FS_EmptySet DEF StockLedger, Unrefunded
  <1> QED BY <1>1, <1>2 DEF Rest

\* A step that leaves the rows the parts speak of alone keeps them.
LEMMA RestStutter ==
  ASSUME Rest, UNCHANGED <<benefit, claim, box, delivery, receipts>>
  PROVE  Rest'
  BY DEF Rest, RowsAgree, RefundedIsDead, SuccessReceiptIsFinal, WithinBudget, StockLedger,
         HoldsStock, Claimed

\* So does one that moves outbox rows among the states that are neither absent,
\* delivered nor dead (a lease, an expiry).
LEMMA RestBoxMoves ==
  ASSUME Rest, UNCHANGED <<benefit, claim, delivery, receipts>>,
         \A k \in Keys : \/ box'[k] = box[k]
                        \/ /\ box[k].status \notin {"none", "delivered", "dead_letter"}
                           /\ box'[k].status \notin {"none", "delivered", "dead_letter"}
  PROVE  Rest'
  <1>1. StockLedger' /\ WithinBudget'
    BY DEF Rest, StockLedger, WithinBudget, HoldsStock, Claimed
  <1>2. RowsAgree' /\ RefundedIsDead' /\ SuccessReceiptIsFinal'
    BY DEF Rest, RowsAgree, RefundedIsDead, SuccessReceiptIsFinal, Claimed
  <1> QED BY <1>1, <1>2 DEF Rest

\* A step that rewrites one claim that is neither absent nor refunded, and keeps
\* it so, leaves the stock ledger alone.
LEMMA StockKept ==
  ASSUME TypeOK, StockLedger, UNCHANGED benefit, NEW k \in Keys,
         \A j \in Keys : j # k => claim'[j] = claim[j],
         HoldsStock(k) <=> HoldsStock(k)'
  PROVE  StockLedger'
  <1>1. Unrefunded' = Unrefunded
    BY DEF Unrefunded, HoldsStock, Claimed
  <1> QED BY <1>1 DEF StockLedger, Unrefunded

\* Settling a claim whose outbox row a worker or a callback holds.
LEMMA SettleKeeps ==
  ASSUME TypeOK, Rest, UNCHANGED benefit, NEW k \in Keys,
         box[k].status \notin {"none", "dead_letter"},
         claim' \in {[claim EXCEPT ![k] = Settled(@)], [claim EXCEPT ![k] = Confirmed(@)]},
         box' = [box EXCEPT ![k] = Released(k, "delivered")],
         \A j \in Keys : j # k => delivery'[j] = delivery[j] /\ receipts'[j] = receipts[j],
         "success" \in receipts'[k] => delivery'[k].status = "success"
  PROVE  Rest'
  <1>1. /\ claim[k] \in ClaimRows /\ box[k] \in Boxes
        /\ \A j \in Keys : j # k => claim'[j] = claim[j] /\ box'[j] = box[j]
        /\ claim'[k] \in {Settled(claim[k]), Confirmed(claim[k])}
        /\ box'[k] = Released(k, "delivered")
    BY DEF TypeOK
  <1>2. /\ claim'[k].status # "none" /\ claim[k].status # "none"
        /\ claim'[k].delivery = "success"
        /\ claim'[k].reservation = (IF Cash THEN "settled" ELSE "not_required")
        /\ claim[k].reservation # "refunded"
        /\ box'[k].status = "delivered"
    <2>1. /\ claim[k].status # "none" /\ claim[k].reservation # "refunded"
          /\ Cash <=> claim[k].reservation # "not_required"
      BY DEF Rest, RowsAgree, RefundedIsDead, Claimed
    <2>2. claim[k].reservation \in ReservationStatuses
      BY <1>1 DEF ClaimRows
    <2> QED BY <1>1, <2>1, <2>2, SettledFields, ReleasedFields DEF ReservationStatuses
  <1>3. RowsAgree' /\ RefundedIsDead' /\ SuccessReceiptIsFinal'
    <2>1. ASSUME NEW j \in Keys, j # k
          PROVE  /\ claim'[j] = claim[j] /\ box'[j] = box[j]
                 /\ delivery'[j] = delivery[j] /\ receipts'[j] = receipts[j]
      BY <1>1, <2>1
    <2>2. RowsAgree'
      BY <1>2, <2>1, ConfigAssumption DEF Rest, RowsAgree, Claimed
    <2>3. RefundedIsDead'
      BY <1>2, <2>1 DEF Rest, RefundedIsDead
    <2>4. SuccessReceiptIsFinal'
      BY <1>2, <2>1 DEF Rest, SuccessReceiptIsFinal
    <2> QED BY <2>2, <2>3, <2>4
  <1>4. StockLedger'
    <2>1. HoldsStock(k) /\ HoldsStock(k)'
      BY <1>2 DEF HoldsStock, Claimed
    <2> QED BY <1>1, <2>1, StockKept DEF Rest
  <1> QED BY <1>3, <1>4 DEF Rest, WithinBudget

\* So does a step that rewrites the rows of one claim, keeps its money where it is
\* and undoes no success receipt.
LEMMA RewriteKeeps ==
  ASSUME TypeOK, Rest, UNCHANGED benefit, NEW k \in Keys,
         \A j \in Keys : j # k => /\ claim'[j] = claim[j] /\ box'[j] = box[j]
                                 /\ delivery'[j] = delivery[j] /\ receipts'[j] = receipts[j],
         claim[k].status # "none", claim'[k].status # "none", box'[k].status # "none",
         claim'[k].reservation = claim[k].reservation, claim[k].reservation # "refunded",
         "success" \in receipts'[k] =>
           /\ box'[k].status = "delivered" /\ claim'[k].delivery = "success"
           /\ delivery'[k].status = "success"
           /\ claim'[k].reservation = (IF Cash THEN "settled" ELSE "not_required")
  PROVE  Rest'
  <1>1. RowsAgree'
    BY DEF Rest, RowsAgree, Claimed
  <1>2. RefundedIsDead'
    BY DEF Rest, RefundedIsDead
  <1>3. SuccessReceiptIsFinal'
    BY DEF Rest, SuccessReceiptIsFinal
  <1>4. StockLedger'
    <2>1. HoldsStock(k) <=> HoldsStock(k)'
      BY DEF HoldsStock, Claimed
    <2> QED BY <2>1, StockKept DEF Rest
  <1> QED BY <1>1, <1>2, <1>3, <1>4 DEF Rest, WithinBudget

\* A claim takes its unit and its amount, and has no receipt yet.
LEMMA ClaimKeeps ==
  ASSUME TypeOK, Rest, NEW k \in Keys, Claim(k)
  PROVE  Rest'
  <1>1. PICK amount \in Amounts :
          /\ Cash => benefit.claimed + amount <= Budget
          /\ benefit' = [benefit EXCEPT !.used = @ + 1, !.claimed = @ + amount]
          /\ claim' = [claim EXCEPT ![k] =
               [status |-> "success", delivery |-> "pending",
                reservation |-> IF Cash THEN "reserved" ELSE "not_required",
                amount |-> amount]]
    BY DEF Claim
  <1>2. /\ claim[k].status = "none" /\ benefit.used < benefit.total
        /\ box' = [box EXCEPT ![k] = [NoBox EXCEPT !.status = "pending"]]
        /\ UNCHANGED <<delivery, receipts>>
    BY DEF Claim
  <1>3. /\ claim'[k].status = "success"
        /\ claim'[k].reservation = (IF Cash THEN "reserved" ELSE "not_required")
        /\ box'[k].status = "pending"
        /\ \A j \in Keys : j # k => claim'[j] = claim[j] /\ box'[j] = box[j]
    BY <1>1, <1>2 DEF TypeOK, NoBox
  <1>4. "success" \notin receipts[k]
    BY <1>2 DEF Rest, RowsAgree, SuccessReceiptIsFinal
  <1>5. RowsAgree' /\ RefundedIsDead' /\ SuccessReceiptIsFinal'
    <2>1. RowsAgree'
      BY <1>3, ConfigAssumption DEF Rest, RowsAgree, Claimed
    <2>2. RefundedIsDead'
      BY <1>3 DEF Rest, RefundedIsDead
    <2>3. SuccessReceiptIsFinal'
      BY <1>2, <1>3, <1>4 DEF Rest, SuccessReceiptIsFinal
    <2> QED BY <2>1, <2>2, <2>3
  <1>6. /\ benefit.used \in Int /\ benefit.claimed \in Int /\ benefit.total \in Nat
        /\ benefit'.used = benefit.used + 1 /\ benefit'.total = benefit.total
        /\ benefit'.claimed = benefit.claimed + amount
    BY <1>1, BenefitsType DEF TypeOK, Benefits
  <1>7. WithinBudget'
    <2>1. CASE Cash
      BY <1>1, <1>6, <2>1 DEF WithinBudget
    <2>2. CASE ~Cash
      <3>1. amount = 0
        BY <1>1, <2>2 DEF Amounts
      <3> QED BY <1>6, <3>1 DEF Rest, WithinBudget
    <2> QED BY <2>1, <2>2
  <1>8. StockLedger'
    <2>1. Unrefunded' = Unrefunded \cup {k} /\ k \notin Unrefunded
      BY <1>2, <1>3 DEF Unrefunded, HoldsStock, Claimed
    <2>2. Cardinality(Unrefunded') = Cardinality(Unrefunded) + 1
      BY <2>1, UnrefundedFinite, FS_AddElement
    <2> QED BY <1>2, <1>6, <2>2 DEF Rest, StockLedger, Unrefunded
  <1> QED BY <1>5, <1>7, <1>8 DEF Rest

\* A terminal failure that refunds gives back exactly one unit and no more money
\* than was held.
LEMMA RefundKeeps ==
  ASSUME TypeOK, Rest, NEW k \in Keys, box[k].status = "processing", UNCHANGED receipts,
         claim[k].reservation = "reserved", FailBox(k), box[k].attempt >= MaxAttempts,
         claim[k].status \in {"success", "claimed"}
  PROVE  Rest'
  <1>1. claim[k] \in ClaimRows /\ box[k] \in Boxes /\ claim[k].amount \in Nat
    BY DEF TypeOK, ClaimRows
  <1>2. /\ claim'[k].status = "failed" /\ claim'[k].reservation = "refunded"
        /\ \A j \in Keys : j # k => claim'[j] = claim[j]
    BY <1>1 DEF FailBox, Refundable, AfterRefund, TypeOK, ClaimRows
  <1>3. /\ box'[k].status = "dead_letter"
        /\ \A j \in Keys : j # k => box'[j] = box[j]
    BY <1>1, ReleasedFields DEF FailBox, Refundable, AfterRefund, TypeOK
  <1>4. /\ benefit' = [benefit EXCEPT !.used = @ - 1, !.claimed = @ - claim[k].amount]
        /\ UNCHANGED delivery
    BY DEF FailBox, Refundable, AfterRefund
  <1>5. "success" \notin receipts[k]
    BY DEF Rest, SuccessReceiptIsFinal
  <1>6. RowsAgree' /\ RefundedIsDead' /\ SuccessReceiptIsFinal'
    <2>1. RowsAgree'
      BY <1>2, <1>3 DEF Rest, RowsAgree, Claimed
    <2>2. RefundedIsDead'
      BY <1>2, <1>3 DEF Rest, RefundedIsDead
    <2>3. SuccessReceiptIsFinal'
      BY <1>2, <1>3, <1>4, <1>5 DEF Rest, SuccessReceiptIsFinal
    <2> QED BY <2>1, <2>2, <2>3
  <1>7. /\ benefit.used \in Int /\ benefit.claimed \in Int /\ benefit.total \in Nat
        /\ benefit'.used = benefit.used - 1 /\ benefit'.total = benefit.total
        /\ benefit'.claimed = benefit.claimed - claim[k].amount
    BY <1>4, BenefitsType DEF TypeOK, Benefits
  <1>8. WithinBudget'
    BY <1>1, <1>7, ConfigAssumption DEF Rest, WithinBudget
  <1>9. StockLedger'
    <2>1. Unrefunded' = Unrefunded \ {k} /\ k \in Unrefunded
      BY <1>2 DEF Unrefunded, HoldsStock, Claimed
    <2>2. Cardinality(Unrefunded') = Cardinality(Unrefunded) - 1
      BY <2>1, UnrefundedFinite, FS_RemoveElement
    <2> QED BY <1>7, <2>2 DEF Rest, StockLedger, Unrefunded
  <1> QED BY <1>6, <1>8, <1>9 DEF Rest

\* A failed delivery: back to pending, or dead with or without a refund.
LEMMA FailKeeps ==
  ASSUME TypeOK, Rest, NEW k \in Keys, box[k].status = "processing", UNCHANGED receipts,
         FailBox(k)
  PROVE  Rest'
  <1> DEFINE terminal == box[k].attempt >= MaxAttempts
             open == claim[k].status \in {"success", "claimed"}
  <1>1. CASE terminal /\ open /\ claim[k].reservation = "reserved"
    BY <1>1, RefundKeeps
  <1>2. CASE ~(terminal /\ open /\ claim[k].reservation = "reserved")
    <2>1. claim[k] \in ClaimRows /\ box[k] \in Boxes
      BY DEF TypeOK
    <2>2. UNCHANGED <<benefit, delivery>>
      BY <1>2 DEF FailBox, Refundable, AfterRefund
    <2>3. /\ claim'[k].status = (IF terminal /\ open THEN "failed" ELSE claim[k].status)
          /\ claim'[k].reservation = claim[k].reservation
          /\ \A j \in Keys : j # k => claim'[j] = claim[j]
      BY <1>2, <2>1 DEF FailBox, Refundable, AfterRefund, TypeOK, ClaimRows
    <2>4. /\ box'[k].status \in {"dead_letter", "pending"}
          /\ \A j \in Keys : j # k => box'[j] = box[j]
      BY <2>1, ReleasedFields DEF FailBox, Refundable, AfterRefund, TypeOK
    <2>5. claim[k].status # "none" /\ claim[k].reservation # "refunded"
      BY DEF Rest, RowsAgree, RefundedIsDead
    <2>6. "success" \notin receipts[k]
      BY DEF Rest, SuccessReceiptIsFinal
    <2> QED BY <2>2, <2>3, <2>4, <2>5, <2>6, RewriteKeeps
  <1> QED BY <1>1, <1>2

\* The result of a delivery: settled, or waiting for the callback.
LEMMA RecordKeeps ==
  ASSUME TypeOK, Rest, NEW k \in Keys, box[k].status = "processing", UNCHANGED receipts,
         NEW s \in {"success", "pending"}, NEW ext, RecordResult(k, s, ext)
  PROVE  Rest'
  <1>1. /\ delivery' = [delivery EXCEPT ![k] = [status |-> s, ext |-> ext]]
        /\ UNCHANGED benefit
        /\ \A j \in Keys : j # k => delivery'[j] = delivery[j]
        /\ delivery'[k].status = s
    BY DEF RecordResult, TypeOK
  <1>2. CASE s = "success"
    <2>1. /\ claim' = [claim EXCEPT ![k] = Settled(@)]
          /\ box' = [box EXCEPT ![k] = Released(k, "delivered")]
      BY <1>2 DEF RecordResult
    <2> QED BY <1>1, <1>2, <2>1, SettleKeeps
  <1>3. CASE s = "pending"
    <2>1. claim[k] \in ClaimRows /\ box[k] \in Boxes
      BY DEF TypeOK
    <2>2. /\ claim'[k].status = claim[k].status /\ claim'[k].reservation = claim[k].reservation
          /\ \A j \in Keys : j # k => claim'[j] = claim[j]
      BY <1>3, <2>1 DEF RecordResult, TypeOK, ClaimRows
    <2>3. /\ box'[k].status = "awaiting_callback"
          /\ \A j \in Keys : j # k => box'[j] = box[j]
      BY <1>3, <2>1, ReleasedFields DEF RecordResult, TypeOK
    <2>4. claim[k].status # "none" /\ claim[k].reservation # "refunded"
      BY DEF Rest, RowsAgree, RefundedIsDead
    <2>5. "success" \notin receipts[k]
      BY DEF Rest, SuccessReceiptIsFinal
    <2> QED BY <1>1, <2>2, <2>3, <2>4, <2>5, RewriteKeeps
  <1> QED BY <1>2, <1>3

\* A callback, in whatever order it arrives.
LEMMA CallbackKeeps ==
  ASSUME TypeOK, Rest, NEW k \in Keys, NEW s \in Outcomes, Callback(k, s)
  PROVE  Rest'
  <1>1. /\ box[k].status \notin {"none", "dead_letter"} /\ "success" \notin receipts[k]
        /\ receipts' = [receipts EXCEPT ![k] = @ \cup {s}] /\ UNCHANGED benefit
        /\ claim[k] \in ClaimRows /\ box[k] \in Boxes /\ delivery[k] \in Deliveries
        /\ \A j \in Keys : j # k => receipts'[j] = receipts[j]
    BY DEF Callback, Admissible, Settleable, TypeOK
  <1>2. CASE s = "success"
    <2>1. CallbackSuccess(k)
      BY <1>2 DEF Callback
    <2>2. /\ delivery'[k].status = "success"
          /\ \A j \in Keys : j # k => delivery'[j] = delivery[j]
      BY <1>1, <2>1 DEF CallbackSuccess, TypeOK, Deliveries
    <2> QED BY <1>1, <2>1, <2>2, SettleKeeps DEF CallbackSuccess
  <1>3. CASE s = "failed"
    <2>1. CallbackFailed(k) /\ "success" \notin receipts'[k]
      BY <1>1, <1>3 DEF Callback, Admissible, Settleable, TypeOK
    <2>2. /\ claim'[k].status = claim[k].status /\ claim'[k].reservation = claim[k].reservation
          /\ \A j \in Keys : j # k => claim'[j] = claim[j] /\ delivery'[j] = delivery[j]
      BY <1>1, <2>1 DEF CallbackFailed, TypeOK, ClaimRows
    <2>3. /\ box'[k].status = "pending"
          /\ \A j \in Keys : j # k => box'[j] = box[j]
      BY <1>1, <2>1, ReleasedFields DEF CallbackFailed, TypeOK
    <2>4. claim[k].status # "none" /\ claim[k].reservation # "refunded"
      BY <1>1 DEF Rest, RowsAgree, RefundedIsDead
    <2> QED BY <1>1, <2>1, <2>2, <2>3, <2>4, RewriteKeeps
  <1> QED BY <1>2, <1>3 DEF Outcomes

\* Every step keeps the invariant; one case per action.
THEOREM RestNext == TypeOK /\ Rest /\ [Next]_vars => Rest'
  <1> SUFFICES ASSUME TypeOK, Rest, [Next]_vars PROVE Rest'
    OBVIOUS
  <1>1. ASSUME \/ \E s \in {"active", "paused", "ended"} : TransitionCampaign(s)
               \/ \E n \in LimitChoices : UpdateCampaign(n)
        PROVE  Rest'
    BY <1>1, RestStutter DEF TransitionCampaign, UpdateCampaign
  <1>2. ASSUME NEW status \in {"active", "inactive"}, NEW total \in StockChoices,
               NEW limit \in LimitChoices, UpdateBenefit(status, total, limit)
        PROVE Rest'
    <2>1. /\ benefit'.used = benefit.used /\ benefit'.total = total
          /\ benefit'.claimed = benefit.claimed
          /\ total >= benefit.used /\ UNCHANGED <<claim, box, delivery, receipts>>
      BY <1>2 DEF UpdateBenefit, TypeOK, Benefits
    <2>2. RowsAgree' /\ RefundedIsDead' /\ SuccessReceiptIsFinal'
      BY <2>1 DEF Rest, RowsAgree, RefundedIsDead, SuccessReceiptIsFinal, Claimed
    <2>3. Unrefunded' = Unrefunded
      BY <2>1 DEF Unrefunded, HoldsStock, Claimed
    <2>4. total \in Nat /\ benefit.used \in Int
      BY NumbersAssumption, BenefitsType DEF TypeOK
    <2>5. StockLedger' /\ WithinBudget'
      BY <2>1, <2>3, <2>4 DEF Rest, StockLedger, Unrefunded, WithinBudget
    <2> QED BY <2>2, <2>5 DEF Rest
  <1>3. ASSUME NEW k \in Keys, Claim(k) PROVE Rest'
    BY <1>3, ClaimKeeps
  <1>4. ASSUME NEW k \in Keys, Redeem(k) PROVE Rest'
    <2>1. claim[k] \in ClaimRows
      BY DEF TypeOK
    <2>2. /\ claim'[k].status = "used" /\ claim'[k].reservation = claim[k].reservation
          /\ claim'[k].delivery = claim[k].delivery
          /\ \A j \in Keys : j # k => claim'[j] = claim[j]
          /\ UNCHANGED <<benefit, box, delivery, receipts>>
      BY <1>4, <2>1 DEF Redeem, TypeOK, ClaimRows
    <2>3. claim[k].status # "none" /\ claim[k].reservation # "refunded" /\ box[k].status # "none"
      BY <1>4 DEF Redeem, Rest, RowsAgree, RefundedIsDead
    <2>4. "success" \in receipts'[k] =>
            /\ box'[k].status = "delivered" /\ claim'[k].delivery = "success"
            /\ delivery'[k].status = "success"
            /\ claim'[k].reservation = (IF Cash THEN "settled" ELSE "not_required")
      BY <2>2 DEF Rest, SuccessReceiptIsFinal
    <2> QED BY <2>2, <2>3, <2>4, RewriteKeeps
  <1>5. ASSUME NEW w \in Workers, Lease(w) PROVE Rest'
    <2>1. \A k \in Keys :
            \/ box'[k] = box[k]
            \/ /\ box[k].status \notin {"none", "delivered", "dead_letter"}
               /\ box'[k].status \notin {"none", "delivered", "dead_letter"}
      BY <1>5 DEF Lease, Leasable
    <2> QED BY <1>5, <2>1, RestBoxMoves DEF Lease
  <1>6. ASSUME NEW w \in Workers, Begin(w) PROVE Rest'
    <2>1. PICK item \in batch[w] :
            \/ UNCHANGED <<benefit, claim, box, delivery>>
            \/ Live(w, item.key) /\ Complete(item.key)
      BY <1>6 DEF Begin
    <2>2. UNCHANGED receipts /\ item.key \in Keys
      BY <1>6, JobsType DEF Begin, TypeOK
    <2>3. CASE UNCHANGED <<benefit, claim, box, delivery>>
      BY <2>2, <2>3, RestStutter
    <2>4. CASE Live(w, item.key) /\ Complete(item.key)
      <3>1. /\ box[item.key].status = "processing" /\ UNCHANGED <<benefit, delivery>>
            /\ claim' = [claim EXCEPT ![item.key] = Settled(@)]
            /\ box' = [box EXCEPT ![item.key] = Released(item.key, "delivered")]
        BY <2>4 DEF Live, Holds, Complete
      <3>2. "success" \in receipts'[item.key] => delivery'[item.key].status = "success"
        BY <2>2, <3>1 DEF Rest, SuccessReceiptIsFinal
      <3> QED BY <2>2, <3>1, <3>2, SettleKeeps
    <2> QED BY <2>1, <2>3, <2>4
  <1>7. ASSUME NEW w \in Workers, Record(w) PROVE Rest'
    <2>1. /\ job[w].key \in Keys /\ job[w].answer \in {"success", "pending"}
          /\ box[job[w].key].status = "processing" /\ UNCHANGED receipts
          /\ RecordResult(job[w].key, job[w].answer, job[w].ext)
      BY <1>7, InHandType DEF Record, Holds
    <2> QED BY <2>1, RecordKeeps
  <1>8. ASSUME NEW w \in Workers, Fail(w) PROVE Rest'
    <2>1. /\ job[w].key \in Keys /\ box[job[w].key].status = "processing"
          /\ UNCHANGED receipts /\ FailBox(job[w].key)
      BY <1>8, InHandType DEF Fail, Live, Holds
    <2> QED BY <2>1, FailKeeps
  <1>9. ASSUME NEW w \in Workers,
               CallProvider(w) \/ RecordRefused(w) \/ FailLost(w) \/ Crash(w)
        PROVE  Rest'
    BY <1>9, RestStutter DEF CallProvider, RecordRefused, FailLost, Crash, rows
  <1>10. ASSUME NEW k \in Keys, ProviderSettles(k) PROVE Rest'
    BY <1>10, RestStutter DEF ProviderSettles, rows
  <1>11. ASSUME NEW k \in Keys, LeaseExpires(k) PROVE Rest'
    <2>1. \A j \in Keys :
            \/ box'[j] = box[j]
            \/ /\ box[j].status \notin {"none", "delivered", "dead_letter"}
               /\ box'[j].status \notin {"none", "delivered", "dead_letter"}
      BY <1>11 DEF LeaseExpires, TypeOK, Boxes
    <2> QED BY <1>11, <2>1, RestBoxMoves DEF LeaseExpires
  <1>12. ASSUME NEW k \in Keys, NEW s \in Outcomes, Callback(k, s) PROVE Rest'
    BY <1>12, CallbackKeeps
  <1>13. CASE UNCHANGED vars
    BY <1>13, RestStutter DEF vars
  <1> QED
    BY <1>1, <1>2, <1>3, <1>4, <1>5, <1>6, <1>7, <1>8, <1>9, <1>10, <1>11, <1>12, <1>13
    DEF Next, Operate

-----------------------------------------------------------------------------
(* What a step does to the rows of one claim.  Six kinds are all there are;  *)
(* each of the authority's functions is of one kind for its own claim and of *)
(* the first for every other.                                                *)

\* Nothing, or a lease.
RowKept(k) ==
  /\ claim'[k] = claim[k] /\ receipts'[k] = receipts[k]
  /\ \/ box'[k].status = box[k].status
     \/ /\ box[k].status \in {"pending", "processing", "awaiting_callback"}
        /\ box'[k].status = "processing"

\* The claim is made.
RowMade(k) ==
  /\ Claim(k) /\ receipts'[k] = receipts[k]
  /\ claim'[k].status = "success" /\ claim'[k].delivery = "pending"
  /\ claim'[k].reservation = (IF Cash THEN "reserved" ELSE "not_required")
  /\ box'[k].status = "pending"

\* A store uses it.
RowUsed(k) ==
  /\ claim[k].status \in {"success", "claimed", "delivered"} /\ claim'[k].status = "used"
  /\ claim'[k].delivery = claim[k].delivery /\ claim'[k].reservation = claim[k].reservation
  /\ claim'[k].amount = claim[k].amount
  /\ box'[k] = box[k] /\ receipts'[k] = receipts[k]

\* A success is settled.
RowSettled(k) ==
  /\ box[k].status \notin {"none", "dead_letter"} /\ box'[k].status = "delivered"
  /\ claim'[k].delivery = "success" /\ claim'[k].amount = claim[k].amount
  /\ claim'[k].reservation =
       (IF claim[k].reservation = "reserved" THEN "settled" ELSE claim[k].reservation)
  /\ \/ claim'[k].status = claim[k].status
     \/ claim[k].status = "claimed" /\ claim'[k].status = "delivered"
  /\ receipts'[k] \in {receipts[k], receipts[k] \cup {"success"}}

\* The provider is not sure yet, or takes back what it reported.
RowDeferred(k) ==
  /\ box[k].status \notin {"none", "dead_letter"}
  /\ claim'[k].status = claim[k].status /\ claim'[k].reservation = claim[k].reservation
  /\ claim'[k].amount = claim[k].amount
  /\ \/ /\ box[k].status = "processing" /\ box'[k].status = "awaiting_callback"
        /\ claim'[k].delivery = "processing" /\ receipts'[k] = receipts[k]
     \/ /\ box'[k].status = "pending" /\ claim'[k].delivery = "pending"
        /\ receipts'[k] = receipts[k] \cup {"failed"}

\* A delivery failed: is retried, or dead, with or without a refund.
RowFailed(k) ==
  /\ FailBox(k) /\ box[k].status = "processing" /\ UNCHANGED receipts
  /\ claim'[k].amount = claim[k].amount
  /\ \/ /\ box'[k].status = "pending" /\ claim'[k].delivery = "pending"
        /\ claim'[k].status = claim[k].status /\ claim'[k].reservation = claim[k].reservation
     \/ /\ box'[k].status = "dead_letter" /\ claim'[k].delivery = "dead_letter"
        /\ claim'[k].status =
             (IF claim[k].status \in {"success", "claimed"} THEN "failed" ELSE claim[k].status)
        /\ claim'[k].reservation = (IF Refundable(k) THEN "refunded" ELSE claim[k].reservation)

RowStep(k) ==
  \/ RowKept(k) \/ RowMade(k) \/ RowUsed(k)
  \/ RowSettled(k) \/ RowDeferred(k) \/ RowFailed(k)

\* A function that writes the rows of one claim keeps those of every other.
LEMMA OneRowWritten ==
  ASSUME NEW j \in Keys, RowStep(j), NEW k \in Keys,
         j # k => /\ claim'[k] = claim[k] /\ box'[k] = box[k] /\ receipts'[k] = receipts[k]
  PROVE  RowStep(k)
  BY DEF RowStep, RowKept

\* A failed delivery, told by fields.
LEMMA FailFields ==
  ASSUME TypeOK, NEW k \in Keys, FailBox(k), box[k].status = "processing", UNCHANGED receipts
  PROVE  /\ RowFailed(k)
         /\ \A j \in Keys : j # k => claim'[j] = claim[j] /\ box'[j] = box[j]
         /\ benefit' = (IF box[k].attempt >= MaxAttempts /\ Refundable(k)
                        THEN AfterRefund(k) ELSE benefit)
         /\ claim'[k].reservation = (IF box[k].attempt >= MaxAttempts /\ Refundable(k)
                                     THEN "refunded" ELSE claim[k].reservation)
  <1>1. claim[k] \in ClaimRows /\ box[k] \in Boxes
    BY DEF TypeOK
  <1> DEFINE terminal == box[k].attempt >= MaxAttempts
             open == claim[k].status \in {"success", "claimed"}
             refund == terminal /\ Refundable(k)
  <1>2. /\ claim'[k].status = (IF terminal /\ open THEN "failed" ELSE claim[k].status)
        /\ claim'[k].reservation = (IF refund THEN "refunded" ELSE claim[k].reservation)
        /\ claim'[k].delivery = (IF terminal THEN "dead_letter" ELSE "pending")
        /\ claim'[k].amount = claim[k].amount
        /\ \A j \in Keys : j # k => claim'[j] = claim[j]
    BY <1>1 DEF FailBox, TypeOK, ClaimRows
  <1>3. /\ box'[k].status = (IF terminal THEN "dead_letter" ELSE "pending")
        /\ \A j \in Keys : j # k => box'[j] = box[j]
    BY <1>1, ReleasedFields DEF FailBox, TypeOK
  <1>4. benefit' = IF refund THEN AfterRefund(k) ELSE benefit
    BY DEF FailBox
  <1> QED BY <1>2, <1>3, <1>4 DEF RowFailed

\* A settled success, told by fields.
LEMMA SettleFields ==
  ASSUME TypeOK, NEW k \in Keys, box[k].status \notin {"none", "dead_letter"},
         claim' \in {[claim EXCEPT ![k] = Settled(@)], [claim EXCEPT ![k] = Confirmed(@)]},
         box' = [box EXCEPT ![k] = Released(k, "delivered")],
         receipts'[k] \in {receipts[k], receipts[k] \cup {"success"}}
  PROVE  /\ RowSettled(k)
         /\ \A j \in Keys : j # k => claim'[j] = claim[j] /\ box'[j] = box[j]
  <1>1. /\ claim[k] \in ClaimRows /\ box[k] \in Boxes
        /\ claim'[k] \in {Settled(claim[k]), Confirmed(claim[k])}
        /\ box'[k] = Released(k, "delivered")
        /\ \A j \in Keys : j # k => claim'[j] = claim[j] /\ box'[j] = box[j]
    BY DEF TypeOK
  <1> QED BY <1>1, SettledFields, ReleasedFields DEF RowSettled

\* Every step is of one of the six kinds for every claim.
THEOREM RowSteps == TypeOK /\ [Next]_vars => \A k \in Keys : RowStep(k)
  <1> SUFFICES ASSUME TypeOK, [Next]_vars, NEW k \in Keys PROVE RowStep(k)
    OBVIOUS
  <1>1. ASSUME NEW j \in Keys, Claim(j) PROVE RowStep(k)
    <2>1. RowMade(j)
      <3>1. /\ receipts'[j] = receipts[j] /\ box'[j].status = "pending"
            /\ claim'[j].status = "success" /\ claim'[j].delivery = "pending"
            /\ claim'[j].reservation = (IF Cash THEN "reserved" ELSE "not_required")
        BY <1>1 DEF Claim, TypeOK, NoBox
      <3> QED BY <1>1, <3>1 DEF RowMade
    <2>2. k # j => claim'[k] = claim[k] /\ box'[k] = box[k]
      BY <1>1 DEF Claim, TypeOK
    <2> QED BY <1>1, <2>1, <2>2, OneRowWritten DEF RowStep, Claim
  <1>2. ASSUME NEW j \in Keys, Redeem(j) PROVE RowStep(k)
    <2>1. claim[j] \in ClaimRows
      BY DEF TypeOK
    <2>2. RowUsed(j)
      BY <1>2, <2>1 DEF Redeem, RowUsed, TypeOK, ClaimRows
    <2>3. k # j => claim'[k] = claim[k]
      BY <1>2 DEF Redeem, TypeOK
    <2> QED BY <1>2, <2>2, <2>3, OneRowWritten DEF RowStep, Redeem
  <1>3. ASSUME NEW w \in Workers, Lease(w) PROVE RowStep(k)
    <2>1. RowKept(k)
      BY <1>3 DEF Lease, Leasable, RowKept
    <2> QED BY <2>1 DEF RowStep
  <1>4. ASSUME NEW w \in Workers, Begin(w) PROVE RowStep(k)
    <2>1. PICK item \in batch[w] :
            \/ UNCHANGED <<benefit, claim, box, delivery>>
            \/ Live(w, item.key) /\ Complete(item.key)
      BY <1>4 DEF Begin
    <2>2. item.key \in Keys /\ UNCHANGED receipts
      BY <1>4, JobsType DEF TypeOK, Begin
    <2>3. CASE UNCHANGED <<benefit, claim, box, delivery>>
      BY <2>2, <2>3 DEF RowStep, RowKept
    <2>4. CASE Live(w, item.key) /\ Complete(item.key)
      <3>1. /\ RowSettled(item.key)
            /\ \A j \in Keys : j # item.key => claim'[j] = claim[j] /\ box'[j] = box[j]
        BY <2>2, <2>4, SettleFields DEF Live, Holds, Complete
      <3> QED BY <2>2, <3>1, OneRowWritten DEF RowStep
    <2> QED BY <2>1, <2>3, <2>4
  <1>5. ASSUME NEW w \in Workers, Record(w) PROVE RowStep(k)
    <2> DEFINE j == job[w].key
    <2>1. /\ j \in Keys /\ box[j].status = "processing" /\ UNCHANGED receipts
          /\ RecordResult(j, job[w].answer, job[w].ext)
          /\ claim[j] \in ClaimRows /\ box[j] \in Boxes
      BY <1>5, InHandType DEF Record, Holds, TypeOK
    <2>2. CASE job[w].answer = "success"
      <3>1. /\ RowSettled(j)
            /\ \A i \in Keys : i # j => claim'[i] = claim[i] /\ box'[i] = box[i]
        BY <2>1, <2>2, SettleFields DEF RecordResult
      <3> QED BY <2>1, <3>1, OneRowWritten DEF RowStep
    <2>3. CASE job[w].answer # "success"
      <3>1. /\ claim' = [claim EXCEPT ![j].delivery = "processing"]
            /\ box' = [box EXCEPT ![j] = Released(j, "awaiting_callback")]
        BY <2>1, <2>3 DEF RecordResult
      <3>2. RowDeferred(j)
        BY <2>1, <3>1, ReleasedFields DEF RowDeferred, TypeOK, ClaimRows
      <3>3. k # j => claim'[k] = claim[k] /\ box'[k] = box[k]
        BY <3>1 DEF TypeOK
      <3> QED BY <2>1, <3>2, <3>3, OneRowWritten DEF RowStep
    <2> QED BY <2>2, <2>3
  <1>6. ASSUME NEW w \in Workers, Fail(w) PROVE RowStep(k)
    <2> DEFINE j == job[w].key
    <2>1. /\ j \in Keys /\ box[j].status = "processing" /\ UNCHANGED receipts /\ FailBox(j)
      BY <1>6, InHandType DEF Fail, Live, Holds
    <2>2. /\ RowFailed(j)
          /\ \A i \in Keys : i # j => claim'[i] = claim[i] /\ box'[i] = box[i]
      BY <2>1, FailFields
    <2> QED BY <2>1, <2>2, OneRowWritten DEF RowStep
  <1>7. ASSUME NEW j \in Keys, NEW s \in Outcomes, Callback(j, s) PROVE RowStep(k)
    <2>1. /\ box[j].status \notin {"none", "dead_letter"}
          /\ receipts' = [receipts EXCEPT ![j] = @ \cup {s}]
          /\ claim[j] \in ClaimRows /\ box[j] \in Boxes
      BY <1>7 DEF Callback, Admissible, Settleable, TypeOK
    <2>2. receipts'[j] = receipts[j] \cup {s} /\ (k # j => receipts'[k] = receipts[k])
      BY <2>1 DEF TypeOK
    <2>3. CASE s = "success"
      <3>1. /\ RowSettled(j)
            /\ \A i \in Keys : i # j => claim'[i] = claim[i] /\ box'[i] = box[i]
        BY <1>7, <2>1, <2>2, <2>3, SettleFields DEF Callback, CallbackSuccess
      <3> QED BY <2>2, <3>1, OneRowWritten DEF RowStep
    <2>4. CASE s = "failed"
      <3>1. /\ claim' = [claim EXCEPT ![j].delivery = "pending"]
            /\ box' = [box EXCEPT ![j] = Released(j, "pending")]
        BY <1>7, <2>4 DEF Callback, CallbackFailed
      <3>2. RowDeferred(j)
        BY <2>1, <2>2, <2>4, <3>1, ReleasedFields DEF RowDeferred, TypeOK, ClaimRows
      <3>3. k # j => claim'[k] = claim[k] /\ box'[k] = box[k]
        BY <3>1 DEF TypeOK
      <3> QED BY <2>2, <3>2, <3>3, OneRowWritten DEF RowStep
    <2> QED BY <2>3, <2>4 DEF Outcomes
  <1>8. ASSUME NEW j \in Keys, LeaseExpires(j) PROVE RowStep(k)
    <2>1. box[j] \in Boxes
      BY DEF TypeOK
    <2>2. RowKept(k)
      BY <1>8, <2>1 DEF LeaseExpires, RowKept, TypeOK, Boxes
    <2> QED BY <2>2 DEF RowStep
  <1>9. ASSUME UNCHANGED <<claim, box, receipts>> PROVE RowStep(k)
    BY <1>9 DEF RowStep, RowKept
  <1> QED
    BY <1>1, <1>2, <1>3, <1>4, <1>5, <1>6, <1>7, <1>8, <1>9
    DEF Next, Operate, TransitionCampaign, UpdateCampaign, UpdateBenefit, CallProvider,
        RecordRefused, FailLost, Crash, ProviderSettles, vars, rows
-----------------------------------------------------------------------------
(* Failed claims and their money.                                          *)

Failures == FailuresAgree /\ FailedKeepsMoneyOnlyIf

\* Before the first claim nothing has failed.
LEMMA FailuresInit == Init => Failures
  BY DEF Init, Failures, FailuresAgree, FailedKeepsMoneyOnlyIf, NoClaim, NoBox, ConsumerStatus,
         HoldsMoney

\* A claim that keeps money when it fails has been used, or its settled money was
\* taken back: no kind of step makes another.
THEOREM FailuresNext == TypeOK /\ Rest /\ Failures /\ [Next]_vars => Failures'
  <1> SUFFICES ASSUME TypeOK, Rest, Failures, [Next]_vars, NEW k \in Keys
               PROVE  /\ claim'[k].status \notin {"claimed", "delivered"}
                      /\ box'[k].status = "dead_letter" <=> claim'[k].delivery = "dead_letter"
                      /\ claim'[k].status = "failed" => box'[k].status = "dead_letter"
                      /\ claim'[k].reservation = "settled" =>
                           box'[k].status = "delivered" \/ "failed" \in receipts'[k]
                      /\ box'[k].status = "dead_letter"
                           /\ claim'[k].reservation \in {"reserved", "settled"} =>
                             claim'[k].status = "used" \/ "failed" \in receipts'[k]
    BY DEF Failures, FailuresAgree, FailedKeepsMoneyOnlyIf, ConsumerStatus, HoldsMoney
  <1>1. /\ claim[k].status \notin {"claimed", "delivered"}
        /\ box[k].status = "dead_letter" <=> claim[k].delivery = "dead_letter"
        /\ claim[k].status = "failed" => box[k].status = "dead_letter"
        /\ claim[k].reservation = "settled" =>
             box[k].status = "delivered" \/ "failed" \in receipts[k]
        /\ box[k].status = "dead_letter" /\ claim[k].reservation \in {"reserved", "settled"} =>
             claim[k].status = "used" \/ "failed" \in receipts[k]
    BY DEF Failures, FailuresAgree, FailedKeepsMoneyOnlyIf, ConsumerStatus, HoldsMoney
  <1>2. RowStep(k)
    BY RowSteps
  <1>3. CASE RowKept(k)
    BY <1>1, <1>3 DEF RowKept
  <1>4. CASE RowMade(k)
    BY <1>4 DEF RowMade
  <1>5. CASE RowUsed(k)
    BY <1>1, <1>5 DEF RowUsed
  <1>6. CASE RowSettled(k)
    BY <1>1, <1>6 DEF RowSettled
  <1>7. CASE RowDeferred(k)
    BY <1>1, <1>7 DEF RowDeferred
  <1>8. CASE RowFailed(k)
    <2>1. claim[k].status \in ClaimStatuses /\ claim[k].status # "none"
      BY <1>8 DEF RowFailed, Rest, RowsAgree, TypeOK, ClaimRows
    <2> QED BY <1>1, <1>8, <2>1 DEF RowFailed, Refundable, ClaimStatuses
  <1> QED BY <1>2, <1>3, <1>4, <1>5, <1>6, <1>7, <1>8 DEF RowStep

-----------------------------------------------------------------------------
(* What the provider has answered for.                                     *)

Orders == OrdersAgree /\ DeliveredWasOrdered

\* Before the first claim nothing is ordered.
LEMMA OrdersInit == Init => Orders
  BY DEF Init, Orders, OrdersAgree, DeliveredWasOrdered, NoBox, Idle

\* What a call makes of the order, and what the worker takes from it.
LEMMA CallFields ==
  ASSUME TypeOK, NEW w \in Workers, CallProvider(w)
  PROVE  LET k == job[w].key IN
         /\ k \in Keys
         /\ \E p \in {"none", "accepted", "granted", "refused"} :
              /\ provider' = [provider EXCEPT ![k] = p]
              /\ p = provider[k] \/ p \in Ordered(provider[k])
              /\ calls' = [calls EXCEPT ![k] = IF p = "granted" THEN @ \cup {"success"} ELSE @]
              /\ job'[w].phase = "answered" /\ job'[w].answer = "success" =>
                   job'[w].key = k /\ p \in Answerable
         /\ \A v \in Workers : v # w => job'[v] = job[v]
  <1> DEFINE k == job[w].key
  <1>1. k \in Keys /\ job[w] \in Jobs
    BY InHandType DEF CallProvider, TypeOK
  <1>2. PICK p \in {"none", "accepted", "granted", "refused"} :
          /\ p = provider[k] \/ p \in Ordered(provider[k])
          /\ provider' = [provider EXCEPT ![k] = p]
          /\ calls' = [calls EXCEPT ![k] = IF p = "granted" THEN @ \cup {"success"} ELSE @]
          /\ \/ \E a \in Answers(p) :
                  job' = [job EXCEPT ![w].phase = "answered", ![w].answer = a[1],
                                     ![w].ext = a[2]]
             \/ job' = [job EXCEPT ![w] = Failing(k)]
    <2>1. /\ provider[k] \in {"none", "accepted", "granted", "refused"}
          /\ Ordered(provider[k]) \subseteq {"none", "accepted", "granted", "refused"}
      BY <1>1 DEF TypeOK, Ordered
    <2> QED BY <2>1, ZenonT(40) DEF CallProvider
  <1>3. \A a \in Answers(p) : a[1] = "success" => p \in Answerable
    BY ConfigAssumption DEF Answers, Answerable
  <1>4. job'[w].phase = "answered" /\ job'[w].answer = "success" =>
          job'[w].key = k /\ p \in Answerable
    <2>1. CASE job' = [job EXCEPT ![w] = Failing(k)]
      BY <2>1 DEF Failing, TypeOK
    <2>2. ASSUME NEW a \in Answers(p),
                 job' = [job EXCEPT ![w].phase = "answered", ![w].answer = a[1], ![w].ext = a[2]]
          PROVE  job'[w].answer = "success" => job'[w].key = k /\ p \in Answerable
      <3>1. job'[w] = [job[w] EXCEPT !.phase = "answered", !.answer = a[1], !.ext = a[2]]
        BY <2>2 DEF TypeOK
      <3>2. job'[w].answer = a[1] /\ job'[w].key = k
        BY <1>1, <3>1 DEF Jobs
      <3> QED BY <1>3, <3>2
    <2> QED BY <1>2, <2>1, <2>2
  <1>5. \A v \in Workers : v # w => job'[v] = job[v]
    BY <1>2 DEF TypeOK
  <1> QED BY <1>1, <1>2, <1>4, <1>5

\* A grant is final, and what the provider has answered for stays so.
LEMMA OrdersStand ==
  ASSUME TypeOK, [Next]_vars, NEW k \in Keys
  PROVE  /\ provider[k] = "granted" => provider'[k] = "granted"
         /\ provider[k] \in Answerable => provider'[k] \in Answerable
  <1>1. ASSUME NEW w \in Workers, CallProvider(w)
        PROVE  \/ provider'[k] = provider[k]
               \/ provider'[k] \in Ordered(provider[k])
    BY <1>1, CallFields DEF TypeOK
  <1>2. ASSUME NEW j \in Keys, ProviderSettles(j)
        PROVE  \/ provider'[k] = provider[k]
               \/ provider[k] = "accepted" /\ provider'[k] \in {"granted", "refused"}
    BY <1>2 DEF ProviderSettles, TypeOK
  <1>3. ASSUME UNCHANGED provider
        PROVE  provider'[k] = provider[k]
    BY <1>3
  <1>4. \/ provider'[k] = provider[k] \/ provider'[k] \in Ordered(provider[k])
        \/ provider[k] = "accepted" /\ provider'[k] \in {"granted", "refused"}
    BY <1>1, <1>2, <1>3
    DEF Next, Operate, TransitionCampaign, UpdateCampaign, UpdateBenefit, Claim, Redeem, Lease,
        Begin, Record, RecordRefused, Fail, FailLost, Crash, LeaseExpires, Callback, vars
  <1> QED BY <1>4 DEF Ordered, Answerable

\* A worker has an answer of success only from a call of its own.
LEMMA AnswersComeFromCalls ==
  ASSUME TypeOK, [Next]_vars, NEW w \in Workers,
         job'[w].phase = "answered", job'[w].answer = "success"
  PROVE  CallProvider(w) \/ job'[w] = job[w]
  <1>0. /\ Idle.phase = "idle" /\ \A k : Failing(k).phase = "failing"
        /\ \A item, fresh : Ready(item, fresh).phase = "ready"
    BY DEF Idle, Failing, Ready
  <1>1. ASSUME NEW v \in Workers, Begin(v) PROVE job'[w] = job[w]
    <2>1. PICK item \in batch[v] :
            \/ job' = [job EXCEPT ![v] = Ready(item, Live(v, item.key))]
            \/ job' = [job EXCEPT ![v] = Failing(item.key)]
            \/ UNCHANGED job
      BY <1>1 DEF Begin
    <2> QED BY <1>0, <2>1 DEF TypeOK
  <1>2. ASSUME NEW v \in Workers, CallProvider(v) PROVE CallProvider(w) \/ job'[w] = job[w]
    BY <1>2, CallFields
  <1>3. ASSUME NEW v \in Workers,
               Record(v) \/ RecordRefused(v) \/ Fail(v) \/ FailLost(v) \/ Crash(v)
        PROVE  job'[w] = job[w]
    <2>1. \/ job' = [job EXCEPT ![v] = Idle]
          \/ job' = [job EXCEPT ![v] = Failing(job[v].key)]
      BY <1>3 DEF Record, RecordRefused, Fail, FailLost, Crash
    <2> QED BY <1>0, <2>1 DEF TypeOK
  <1>4. ASSUME UNCHANGED job PROVE job'[w] = job[w]
    BY <1>4
  <1> QED
    BY <1>1, <1>2, <1>3, <1>4
    DEF Next, Operate, TransitionCampaign, UpdateCampaign, UpdateBenefit, Claim, Redeem, Lease,
        LeaseExpires, Callback, ProviderSettles, vars, worker

\* An outbox row becomes delivered by a recorded success, a success call, or for
\* want of a connector.
LEMMA DeliveriesComeFromOrders ==
  ASSUME TypeOK, OrdersAgree, [Next]_vars, HasConnector, NEW k \in Keys,
         box'[k].status = "delivered"
  PROVE  box[k].status = "delivered" \/ provider'[k] \in Answerable
  <1>1. ASSUME NEW j \in Keys, Claim(j) PROVE box[k].status = "delivered"
    BY <1>1 DEF Claim, TypeOK, NoBox
  <1>2. ASSUME NEW w \in Workers, Lease(w) PROVE box[k].status = "delivered"
    BY <1>2 DEF Lease
  <1>3. ASSUME NEW w \in Workers, Begin(w) PROVE box[k].status = "delivered"
    BY <1>3 DEF Begin
  <1>4. ASSUME NEW w \in Workers, Record(w)
        PROVE  box[k].status = "delivered" \/ provider'[k] \in Answerable
    <2> DEFINE j == job[w].key
    <2>1. j \in Keys /\ RecordResult(j, job[w].answer, job[w].ext) /\ UNCHANGED provider
      BY <1>4, InHandType DEF Record
    <2>2. CASE job[w].answer = "success"
      BY <1>4, <2>1, <2>2 DEF Record, RecordResult, OrdersAgree, TypeOK
    <2>3. CASE job[w].answer # "success"
      BY <2>1, <2>3, ReleasedFields DEF RecordResult, TypeOK
    <2> QED BY <2>2, <2>3
  <1>5. ASSUME NEW w \in Workers, Fail(w) PROVE box[k].status = "delivered"
    <2>1. job[w].key \in Keys /\ box[job[w].key].status = "processing" /\ UNCHANGED receipts
          /\ FailBox(job[w].key)
      BY <1>5, InHandType DEF Fail, Live, Holds
    <2> QED BY <2>1, FailFields DEF RowFailed
  <1>6. ASSUME NEW j \in Keys, NEW s \in Outcomes, Callback(j, s)
        PROVE  box[k].status = "delivered" \/ provider'[k] \in Answerable
    <2>1. CASE s = "success"
      <3>1. provider'[j] \in Answerable
        BY <1>6, <2>1 DEF Callback, OrdersAgree, Answerable
      <3> QED BY <1>6, <2>1, <3>1 DEF Callback, CallbackSuccess, TypeOK
    <2>2. CASE s = "failed"
      BY <1>6, <2>2, ReleasedFields DEF Callback, CallbackFailed, TypeOK
    <2> QED BY <2>1, <2>2 DEF Outcomes
  <1>7. ASSUME NEW j \in Keys, LeaseExpires(j) PROVE box[k].status = "delivered"
    BY <1>7 DEF LeaseExpires, TypeOK, Boxes
  <1>8. ASSUME UNCHANGED box PROVE box[k].status = "delivered"
    BY <1>8
  <1> QED
    BY <1>1, <1>2, <1>3, <1>4, <1>5, <1>6, <1>7, <1>8
    DEF Next, Operate, TransitionCampaign, UpdateCampaign, UpdateBenefit, Redeem, CallProvider,
        RecordRefused, FailLost, Crash, ProviderSettles, vars, rows

\* Success in a worker's hand, on its way or on the row is of an order the provider
\* has answered for.
THEOREM OrdersNext == TypeOK /\ Orders /\ [Next]_vars => Orders'
  <1> SUFFICES ASSUME TypeOK, Orders, [Next]_vars PROVE Orders'
    OBVIOUS
  <1>1. OrdersAgree /\ DeliveredWasOrdered
    BY DEF Orders
  <1>2. ASSUME NEW w \in Workers, job'[w].phase = "answered", job'[w].answer = "success"
        PROVE  provider'[job'[w].key] \in Answerable
    <2>1. CASE CallProvider(w)
      BY <1>2, <2>1, CallFields DEF TypeOK
    <2>2. CASE job'[w] = job[w]
      <3>1. job[w].key \in Keys /\ provider[job[w].key] \in Answerable
        BY <1>1, <1>2, <2>2, InHandType DEF OrdersAgree
      <3> QED BY <2>2, <3>1, OrdersStand
    <2> QED BY <1>2, <2>1, <2>2, AnswersComeFromCalls
  <1>3. ASSUME NEW k \in Keys, "success" \in calls'[k] PROVE provider'[k] = "granted"
    <2>1. CASE "success" \in calls[k]
      BY <1>1, <2>1, OrdersStand DEF OrdersAgree
    <2>2. CASE "success" \notin calls[k]
      <3>1. ASSUME NEW w \in Workers, CallProvider(w) PROVE provider'[k] = "granted"
        BY <1>3, <2>2, <3>1, CallFields DEF TypeOK
      <3>2. ASSUME NEW j \in Keys, ProviderSettles(j) PROVE provider'[k] = "granted"
        BY <1>3, <2>2, <3>2 DEF ProviderSettles, TypeOK
      <3> QED
        BY <1>3, <2>2, <3>1, <3>2
        DEF Next, Operate, TransitionCampaign, UpdateCampaign, UpdateBenefit, Claim, Redeem, Lease,
            Begin, Record, RecordRefused, Fail, FailLost, Crash, LeaseExpires, Callback, vars
    <2> QED BY <2>1, <2>2
  <1>4. ASSUME HasConnector, NEW k \in Keys, box'[k].status = "delivered"
        PROVE  provider'[k] \in Answerable
    BY <1>1, <1>4, DeliveriesComeFromOrders, OrdersStand DEF DeliveredWasOrdered
  <1> QED BY <1>2, <1>3, <1>4 DEF Orders, OrdersAgree, DeliveredWasOrdered, Answerable

-----------------------------------------------------------------------------
(* Money.                                                                  *)

Money == MoneyLedger /\ HeldIsDue
Holders == {k \in Keys : HoldsMoney(k)}
Held == [k \in Keys |-> claim[k].amount]

\* The amounts can be summed.
LEMMA HeldType ==
  ASSUME TypeOK
  PROVE  IsFiniteSet(Holders) /\ \A k \in Keys : Held[k] = claim[k].amount /\ Held[k] \in Nat
  <1>1. IsFiniteSet(Holders)
    BY FS_Subset, KeysAssumption DEF Holders
  <1>2. \A k \in Keys : claim[k].amount \in Nat
    BY DEF TypeOK, ClaimRows
  <1> QED BY <1>1, <1>2 DEF Held

\* The ledger in these terms.
LEMMA LedgerInTerms ==
  MoneyLedger <=> /\ benefit.claimed = SumFunctionOnSet(Held, Holders)
                  /\ Cash => benefit.claimed <= Budget
  BY DEF MoneyLedger, Held, Holders

\* The ledger before the first claim is empty.
LEMMA MoneyInit == Init => Money
  <1> SUFFICES ASSUME Init PROVE Money
    OBVIOUS
  <1>1. Holders = {} /\ HeldIsDue
    BY DEF Init, Holders, HeldIsDue, HoldsMoney, NoClaim
  <1>2. benefit.claimed = 0
    BY DEF Init
  <1> QED BY <1>1, <1>2, SumOfNone, ConfigAssumption DEF Money, MoneyLedger, Holders

\* A step that neither makes, refunds nor revalues a claim keeps the ledger.
LEMMA MoneyKept ==
  ASSUME TypeOK, Money, benefit'.claimed = benefit.claimed,
         \A k \in Keys : (HoldsMoney(k)' <=> HoldsMoney(k)) /\ claim'[k].amount = claim[k].amount
  PROVE  Money'
  <1>1. Holders' = Holders /\ Held' = Held
    BY DEF Holders, Held
  <1>2. HeldIsDue'
    BY DEF Money, HeldIsDue
  <1> QED BY <1>1, <1>2 DEF Money, MoneyLedger, Holders, Held

\* An amount is the minimum at least.
LEMMA AmountsAreDue ==
  ASSUME TypeOK, benefit.used < benefit.total, Cash, NEW amount \in Amounts
  PROVE  amount \in Nat /\ amount >= MinAmount
  <1>1. amount \in Nat
    BY AmountsType
  <1>2. CASE AmountType \in {"fixed", "random"}
    BY <1>2, ConfigAssumption DEF Amounts
  <1>3. CASE AmountType = "lucky"
    <2>1. /\ benefit.used \in Int /\ benefit.claimed \in Int /\ benefit.total \in Nat
      BY BenefitsType DEF TypeOK
    <2>2. amount = Greatest(MinAmount, (Budget - benefit.claimed) \div (benefit.total - benefit.used))
      BY <1>3 DEF Amounts, LuckyAmount
    <2>3. (Budget - benefit.claimed) \div (benefit.total - benefit.used) \in Int
      BY <2>1, ConfigAssumption
    <2> QED BY <2>2, <2>3, ConfigAssumption DEF Greatest
  <1> QED BY <1>1, <1>2, <1>3, ConfigAssumption

\* A claim adds its amount to what the claims hold.
LEMMA MoneyTaken ==
  ASSUME TypeOK, Rest, Money, NEW k \in Keys, Claim(k)
  PROVE  Money'
  <1>1. PICK amount \in Amounts :
          /\ Cash => benefit.claimed + amount <= Budget
          /\ benefit' = [benefit EXCEPT !.used = @ + 1, !.claimed = @ + amount]
          /\ claim' = [claim EXCEPT ![k] =
               [status |-> "success", delivery |-> "pending",
                reservation |-> IF Cash THEN "reserved" ELSE "not_required",
                amount |-> amount]]
    BY DEF Claim
  <1>2. /\ claim'[k].amount = amount
        /\ claim'[k].reservation = (IF Cash THEN "reserved" ELSE "not_required")
        /\ \A j \in Keys : j # k => claim'[j] = claim[j]
        /\ Held'[k] = amount /\ \A j \in Keys : j # k => Held'[j] = Held[j]
    BY <1>1 DEF TypeOK, Held
  <1>3. ~HoldsMoney(k)
    BY DEF Claim, Rest, RowsAgree, HoldsMoney, NoClaim
  <1>4. benefit'.claimed = benefit.claimed + amount /\ benefit.claimed \in Int
    BY <1>1 DEF TypeOK, Benefits
  <1>5. amount \in Nat
    BY <1>1, AmountsType DEF Claim
  <1>6. CASE Cash
    <2>1. Holders' = Holders \cup {k} /\ k \notin Holders
      BY <1>2, <1>3, <1>6 DEF Holders, HoldsMoney
    <2>2. SumFunctionOnSet(Held', Holders) = SumFunctionOnSet(Held, Holders)
      BY <1>2, <2>1, HeldType, SumOfSame DEF Holders
    <2>3. SumFunctionOnSet(Held', Holders') = SumFunctionOnSet(Held', Holders) + amount
      <3>1. \A j \in Holders : Held'[j] \in Int
        BY <1>2, <2>1, HeldType DEF Holders
      <3> QED BY <1>2, <1>5, <2>1, <3>1, HeldType, SumWith
    <2>4. benefit'.claimed = SumFunctionOnSet(Held', Holders')
      BY <1>4, <2>2, <2>3, LedgerInTerms DEF Money
    <2>5. amount >= MinAmount
      BY <1>1, <1>6, AmountsAreDue DEF Claim
    <2>6. HeldIsDue'
      BY <1>2, <2>5 DEF Money, HeldIsDue, HoldsMoney
    <2>7. benefit'.claimed <= Budget
      BY <1>1, <1>4, <1>6
    <2> QED BY <2>4, <2>6, <2>7 DEF Money, MoneyLedger, Holders, Held
  <1>7. CASE ~Cash
    <2>1. amount = 0
      BY <1>1, <1>7 DEF Amounts
    <2>2. Holders' = Holders
      BY <1>2, <1>3, <1>7 DEF Holders, HoldsMoney
    <2>3. SumFunctionOnSet(Held', Holders) = SumFunctionOnSet(Held, Holders)
      <3>1. k \notin Holders
        BY <1>3 DEF Holders
      <3> QED BY <1>2, <3>1, HeldType, SumOfSame DEF Holders
    <2>4. benefit'.claimed = SumFunctionOnSet(Held', Holders')
      BY <1>4, <2>1, <2>2, <2>3, LedgerInTerms DEF Money
    <2>5. HeldIsDue'
      BY <1>2, <1>7 DEF Money, HeldIsDue, HoldsMoney
    <2> QED BY <1>7, <2>4, <2>5 DEF Money, MoneyLedger, Holders, Held
  <1> QED BY <1>6, <1>7

\* A refund takes its amount out of what the claims hold.
LEMMA MoneyGivenBack ==
  ASSUME TypeOK, Money, NEW k \in Keys, RowFailed(k)
  PROVE  Money'
  <1>1. /\ claim'[k].amount = claim[k].amount
        /\ \A j \in Keys : j # k => claim'[j] = claim[j]
        /\ benefit' = (IF box[k].attempt >= MaxAttempts /\ Refundable(k)
                       THEN AfterRefund(k) ELSE benefit)
        /\ claim'[k].reservation = (IF box[k].attempt >= MaxAttempts /\ Refundable(k)
                                    THEN "refunded" ELSE claim[k].reservation)
    BY FailFields DEF RowFailed
  <1>2. CASE ~(box[k].attempt >= MaxAttempts /\ Refundable(k))
    <2>1. \A j \in Keys :
            (HoldsMoney(j)' <=> HoldsMoney(j)) /\ claim'[j].amount = claim[j].amount
      BY <1>1, <1>2 DEF HoldsMoney
    <2> QED BY <1>1, <1>2, <2>1, MoneyKept
  <1>3. CASE box[k].attempt >= MaxAttempts /\ Refundable(k)
    <2>1. Holders' = Holders \ {k} /\ k \in Holders
      BY <1>1, <1>3 DEF Holders, HoldsMoney, Refundable
    <2>2. Held' = Held
      BY <1>1 DEF Held
    <2>3. SumFunctionOnSet(Held, Holders) =
            claim[k].amount + SumFunctionOnSet(Held, Holders \ {k})
      <3>1. \A j \in Holders : Held[j] \in Int
        BY HeldType DEF Holders
      <3> QED BY <2>1, <3>1, HeldType, SumWithout
    <2>4. SumFunctionOnSet(Held, Holders \ {k}) \in Int
      <3>1. IsFiniteSet(Holders \ {k}) /\ \A j \in Holders \ {k} : Held[j] \in Int
        BY HeldType, FS_RemoveElement DEF Holders
      <3> QED BY <3>1, SumType
    <2>5. /\ benefit'.claimed = benefit.claimed - claim[k].amount
          /\ benefit.claimed \in Int /\ claim[k].amount \in Nat
      BY <1>1, <1>3, HeldType DEF AfterRefund, TypeOK, Benefits
    <2>6. benefit'.claimed = SumFunctionOnSet(Held', Holders')
      BY <2>1, <2>2, <2>3, <2>4, <2>5, LedgerInTerms DEF Money
    <2>7. HeldIsDue'
      BY <1>1, <1>3 DEF Money, HeldIsDue, HoldsMoney
    <2>8. Cash => benefit'.claimed <= Budget
      BY <2>5, ConfigAssumption DEF Money, MoneyLedger
    <2> QED BY <2>6, <2>7, <2>8 DEF Money, MoneyLedger, Holders, Held
  <1> QED BY <1>2, <1>3

\* The counters change with a claim or a failure only.
LEMMA CountersMove ==
  ASSUME TypeOK, [Next]_vars
  PROVE  \/ \E k \in Keys : Claim(k)
         \/ \E k \in Keys : RowFailed(k)
         \/ benefit'.claimed = benefit.claimed /\ benefit'.used = benefit.used
  <1>1. ASSUME NEW status \in {"active", "inactive"}, NEW total \in StockChoices,
               NEW limit \in LimitChoices, UpdateBenefit(status, total, limit)
        PROVE benefit'.claimed = benefit.claimed /\ benefit'.used = benefit.used
    BY <1>1 DEF UpdateBenefit, TypeOK, Benefits
  <1>2. ASSUME NEW w \in Workers, Begin(w) PROVE benefit' = benefit
    BY <1>2 DEF Begin, Complete
  <1>3. ASSUME NEW w \in Workers, Fail(w)
        PROVE  \E k \in Keys : RowFailed(k)
    BY <1>3, InHandType, FailFields DEF Fail, Live, Holds
  <1> QED
    BY <1>1, <1>2, <1>3
    DEF Next, Operate, TransitionCampaign, UpdateCampaign, Redeem, Lease, CallProvider, Record,
        RecordResult, RecordRefused, FailLost, Crash, LeaseExpires, Callback, ProviderSettles,
        vars, rows

\* Every step keeps the counter equal to what the claims hold.
THEOREM MoneyNext == TypeOK /\ Rest /\ Money /\ [Next]_vars => Money'
  <1> SUFFICES ASSUME TypeOK, Rest, Money, [Next]_vars PROVE Money'
    OBVIOUS
  <1>1. CASE \E k \in Keys : Claim(k)
    BY <1>1, MoneyTaken
  <1>2. CASE \E k \in Keys : RowFailed(k)
    BY <1>2, MoneyGivenBack
  <1>3. CASE benefit'.claimed = benefit.claimed /\ ~ \E k \in Keys : RowFailed(k) \/ Claim(k)
    <2>1. ASSUME NEW k \in Keys
          PROVE  (HoldsMoney(k)' <=> HoldsMoney(k)) /\ claim'[k].amount = claim[k].amount
      BY <1>3, RowSteps
      DEF RowStep, RowKept, RowMade, RowUsed, RowSettled, RowDeferred, HoldsMoney
    <2> QED BY <1>3, <2>1, MoneyKept
  <1> QED BY <1>1, <1>2, <1>3, CountersMove

-----------------------------------------------------------------------------
(* The parts together.                                                     *)

\* The inductive invariant holds before the first claim.
THEOREM IInvInit == Init => IInv
  BY TypingInit, RestInit, FailuresInit, OrdersInit, MoneyInit
  DEF IInv, Rest, Failures, Orders, Money

\* IInv is inductive.
THEOREM IInvNext == IInv /\ [Next]_vars => IInv'
  <1> SUFFICES ASSUME IInv, [Next]_vars PROVE IInv'
    OBVIOUS
  <1>1. TypeOK /\ Rest /\ Failures /\ Orders /\ Money
    BY DEF IInv, Rest, Failures, Orders, Money
  <1>2. TypeOK' /\ Rest' /\ Failures' /\ Orders' /\ Money'
    BY <1>1, TypingNext, RestNext, FailuresNext, OrdersNext, MoneyNext
  <1> QED BY <1>2 DEF IInv, Rest, Failures, Orders, Money

\* The invariant of the claim rows holds in every reachable state.
THEOREM Invariance == Spec => []IInv
  BY IInvInit, IInvNext, PTL DEF Spec

\* Stock: stock_used is the number of claims that were not refunded and never
\* passes stock_total, however many claims, workers and edits there are.
THEOREM StockIsCounted == Spec => []StockLedger
  <1>1. IInv => StockLedger
    BY DEF IInv
  <1> QED BY <1>1, Invariance, PTL

\* Money: claimed_budget is the sum of what the claims hold, and within the budget.
THEOREM MoneyIsCounted == Spec => []MoneyLedger
  <1>1. IInv => MoneyLedger
    BY DEF IInv
  <1> QED BY <1>1, Invariance, PTL

\* A failed claim keeps its money only if a store has used it or the provider took
\* back what it had reported.
THEOREM FailuresGiveBack == Spec => []FailedKeepsMoneyOnlyIf
  <1>1. IInv => FailedKeepsMoneyOnlyIf
    BY DEF IInv
  <1> QED BY <1>1, Invariance, PTL

\* Nothing is shown delivered that the provider has not answered for.
THEOREM DeliveriesWereOrdered == Spec => []DeliveredWasOrdered
  <1>1. IInv => DeliveredWasOrdered
    BY DEF IInv
  <1> QED BY <1>1, Invariance, PTL

\* A settled success callback is never undone by a worker that still holds a
\* lease, an answer or a failure of the same claim, nor by a late callback.
THEOREM SuccessIsKept == Spec => []SuccessReceiptIsFinal
  <1>1. IInv => SuccessReceiptIsFinal
    BY DEF IInv
  <1> QED BY <1>1, Invariance, PTL

\* A refund is final: no late record, callback, lease or store touches the rows of
\* a refunded claim.
THEOREM RefundStep ==
  IInv /\ [Next]_vars =>
    \A k \in Keys : claim[k].reservation = "refunded" =>
      claim'[k] = claim[k] /\ box'[k] = box[k] /\ delivery'[k] = delivery[k]
  <1> SUFFICES ASSUME IInv, [Next]_vars, NEW r \in Keys, claim[r].reservation = "refunded"
               PROVE  claim'[r] = claim[r] /\ box'[r] = box[r] /\ delivery'[r] = delivery[r]
    OBVIOUS
  <1>1. TypeOK /\ claim[r].status = "failed" /\ box[r].status = "dead_letter"
    BY DEF IInv, RefundedIsDead
  <1>2. ASSUME NEW k \in Keys, Claim(k) \/ Redeem(k) PROVE UNCHANGED <<claim[r], box[r], delivery[r]>>
    BY <1>1, <1>2 DEF Claim, Redeem, TypeOK
  <1>3. ASSUME NEW w \in Workers, Lease(w) PROVE UNCHANGED <<claim[r], box[r], delivery[r]>>
    BY <1>1, <1>3 DEF Lease, Leasable
  <1>4. ASSUME NEW w \in Workers, Begin(w) PROVE UNCHANGED <<claim[r], box[r], delivery[r]>>
    <2>1. PICK item \in batch[w] :
            \/ UNCHANGED <<benefit, claim, box, delivery>>
            \/ Live(w, item.key) /\ Complete(item.key)
      BY <1>4 DEF Begin
    <2> QED BY <1>1, <2>1 DEF Live, Holds, Complete, TypeOK
  <1>5. ASSUME NEW w \in Workers, Record(w) PROVE UNCHANGED <<claim[r], box[r], delivery[r]>>
    BY <1>1, <1>5 DEF Record, Holds, RecordResult, TypeOK
  <1>6. ASSUME NEW w \in Workers, Fail(w) PROVE UNCHANGED <<claim[r], box[r], delivery[r]>>
    BY <1>1, <1>6 DEF Fail, Live, Holds, FailBox, Refundable, AfterRefund, TypeOK
  <1>7. ASSUME NEW k \in Keys, NEW s \in Outcomes, Callback(k, s)
        PROVE  UNCHANGED <<claim[r], box[r], delivery[r]>>
    BY <1>1, <1>7 DEF Callback, Admissible, Settleable, CallbackSuccess, CallbackFailed, TypeOK
  <1>8. ASSUME NEW k \in Keys, LeaseExpires(k) PROVE UNCHANGED <<claim[r], box[r], delivery[r]>>
    BY <1>1, <1>8 DEF LeaseExpires, TypeOK
  <1>9. ASSUME \/ Operate \/ UNCHANGED vars \/ \E k \in Keys : ProviderSettles(k)
               \/ \E w \in Workers :
                    CallProvider(w) \/ RecordRefused(w) \/ FailLost(w) \/ Crash(w)
        PROVE  UNCHANGED <<claim[r], box[r], delivery[r]>>
    BY <1>9
    DEF Operate, TransitionCampaign, UpdateCampaign, UpdateBenefit, vars, ProviderSettles,
        CallProvider, RecordRefused, FailLost, Crash, rows
  <1> QED
    BY <1>2, <1>3, <1>4, <1>5, <1>6, <1>7, <1>8, <1>9 DEF Next

\* No step of any worker, callback or operator changes a refunded claim.
THEOREM RefundsAreFinal == Spec => RefundIsFinal
  BY Invariance, RefundStep, PTL DEF Spec, RefundIsFinal
-----------------------------------------------------------------------------
(* The limits.                                                             *)

\* A claim is counted among those of its own consumer, and no other step makes
\* one count.
LEMMA CountedMoves ==
  ASSUME TypeOK, [Next]_vars, NEW c \in Consumers
  PROVE  \/ Counted(c)' \subseteq Counted(c)
         \/ \E k \in Keys : Claim(k) /\ ConsumerOf[k] = c /\ Counted(c)' = Counted(c) \cup {k}
  <1>1. CASE \E k \in Keys : Claim(k)
    <2>1. PICK k \in Keys : Claim(k)
      BY <1>1
    <2>2. claim'[k].status = "success" /\ \A j \in Keys : j # k => claim'[j] = claim[j]
      BY <2>1 DEF Claim, TypeOK
    <2> QED BY <2>1, <2>2 DEF Counted, CountedStatuses
  <1>2. CASE ~ \E k \in Keys : Claim(k)
    <2>1. ASSUME NEW k \in Keys, claim'[k].status \in CountedStatuses
          PROVE  claim[k].status \in CountedStatuses
      BY <1>2, <2>1, RowSteps
      DEF RowStep, RowKept, RowMade, RowUsed, RowSettled, RowDeferred, RowFailed, CountedStatuses
    <2> QED BY <2>1 DEF Counted
  <1> QED BY <1>1, <1>2

\* A claim is made within the limits it leaves behind.
THEOREM LimitsStep ==
  TypeOK /\ [Next]_vars =>
    \A c \in Consumers : Cardinality(Counted(c)') > Cardinality(Counted(c)) =>
      Cardinality(Counted(c)') <= campaign.limit /\ Cardinality(Counted(c)') <= benefit.limit
  <1> SUFFICES ASSUME TypeOK, [Next]_vars, NEW c \in Consumers,
                      Cardinality(Counted(c)') > Cardinality(Counted(c))
               PROVE  /\ Cardinality(Counted(c)') <= campaign.limit
                      /\ Cardinality(Counted(c)') <= benefit.limit
    OBVIOUS
  <1>1. IsFiniteSet(Counted(c)) /\ Cardinality(Counted(c)) \in Nat
    BY FS_Subset, FS_CardinalityType, KeysAssumption DEF Counted
  <1>2. CASE Counted(c)' \subseteq Counted(c)
    <2>1. Cardinality(Counted(c)') <= Cardinality(Counted(c)) /\ Cardinality(Counted(c)') \in Nat
      BY <1>1, <1>2, FS_Subset, FS_CardinalityType
    <2> QED BY <1>1, <2>1
  <1>3. ASSUME NEW k \in Keys, Claim(k), ConsumerOf[k] = c,
               Counted(c)' = Counted(c) \cup {k}
        PROVE  /\ Cardinality(Counted(c)') <= campaign.limit
               /\ Cardinality(Counted(c)') <= benefit.limit
    <2>1. Cardinality(Counted(c)') <= Cardinality(Counted(c)) + 1
      <3>1. Cardinality(Counted(c) \cup {k}) =
              IF k \in Counted(c) THEN Cardinality(Counted(c)) ELSE Cardinality(Counted(c)) + 1
        BY <1>1, FS_AddElement, Zenon
      <3> QED BY <1>1, <1>3, <3>1
    <2>2. Cardinality(Counted(c)) < campaign.limit /\ Cardinality(Counted(c)) < benefit.limit
      BY <1>3 DEF Claim, WithinLimits
    <2>3. campaign.limit \in Nat /\ benefit.limit \in Nat /\ Cardinality(Counted(c)') \in Nat
      BY <1>1, <1>3, FS_AddElement, FS_CardinalityType, NumbersAssumption
      DEF TypeOK, Campaigns, Benefits
    <2> QED BY <1>1, <2>1, <2>2, <2>3
  <1> QED BY <1>2, <1>3, CountedMoves

\* No claim takes a consumer past the limits in force when it is made.
THEOREM LimitsHoldAtClaim == Spec => LimitsAtClaim
  <1> DEFINE A == \A c \in Consumers : Cardinality(Counted(c)') > Cardinality(Counted(c)) =>
                    /\ Cardinality(Counted(c)') <= campaign.limit
                    /\ Cardinality(Counted(c)') <= benefit.limit
  <1>1. TypeOK /\ [Next]_vars => A
    BY LimitsStep
  <1>2. LimitsAtClaim <=> [][A]_vars
    BY DEF LimitsAtClaim
  <1> HIDE DEF A
  <1> QED BY TypeCorrect, <1>1, <1>2, PTL DEF Spec
-----------------------------------------------------------------------------
(* Lucky amounts.                                                          *)

\* An equal share, rounded down, of what covers r minimums: it is a minimum at
\* least, what it leaves covers the others, and the last share is everything.
LEMMA EqualShare ==
  ASSUME NEW left \in Int, NEW r \in Nat, r > 0, NEW least \in Nat, left >= least * r
  PROVE  LET share == left \div r
         IN  /\ share \in Int /\ share >= least
             /\ left - share >= least * (r - 1)
             /\ r = 1 => share = left
  <1> DEFINE share == left \div r
  <1>1. share \in Int /\ share * r <= left /\ left < share * r + r
    OBVIOUS
  <1>2. share >= least
    <2> SUFFICES ASSUME share < least PROVE FALSE
      BY <1>1
    <2> HIDE DEF share
    <2>1. least * r >= (share + 1) * r
      BY <1>1
    <2> QED BY <1>1, <2>1
  <1>3. left - share >= least * (r - 1)
    <2> HIDE DEF share
    <2>1. share * (r - 1) >= least * (r - 1)
      BY <1>1, <1>2
    <2>2. share * (r - 1) = share * r - share
      BY <1>1
    <2>3. least * (r - 1) \in Int /\ share * r \in Int
      BY <1>1
    <2> QED BY <1>1, <2>1, <2>2, <2>3
  <1>4. r = 1 => share = left
    BY <1>1
  <1> QED BY <1>1, <1>2, <1>3, <1>4

\* What a lucky packet needs to be funded: the stock it started with, a minimum for
\* every unit of it.
Funded(stock) ==
  /\ stock \in Nat \ {0} /\ StockChoices = {stock}
  /\ MinAmount * stock <= Budget

\* A funded benefit starts so.
LEMMA LuckyInit == ASSUME NEW stock, Funded(stock), Init PROVE LuckyNeverStarves
  <1>1. benefit.used = 0 /\ benefit.claimed = 0 /\ benefit.total = stock
    BY DEF Init, Funded
  <1>2. MinAmount * stock \in Int /\ stock # 0 /\ stock \in Nat
    BY ConfigAssumption DEF Funded
  <1> QED BY <1>1, <1>2, ConfigAssumption DEF LuckyNeverStarves, Funded

\* What is left covers the minimum of the units left after every step, and nothing
\* is left after the last unit.
THEOREM LuckyNext ==
  ASSUME NEW stock, Funded(stock), IInv, LuckyNeverStarves, [Next]_vars
  PROVE  LuckyNeverStarves'
  <1> SUFFICES ASSUME Cash, AmountType = "lucky"
               PROVE  /\ Budget - benefit'.claimed >= MinAmount * (benefit'.total - benefit'.used)
                      /\ benefit'.used = benefit'.total => benefit'.claimed = Budget
    BY DEF LuckyNeverStarves
  <1> DEFINE left == Budget - benefit.claimed
             units == benefit.total - benefit.used
  <1>1. TypeOK /\ TypeOK' /\ benefit.total = stock /\ benefit'.total = stock
    BY TypingNext DEF IInv, TypeOK, Benefits, Funded
  <1>2. /\ stock \in Nat /\ benefit.used \in Int /\ benefit.claimed \in Int /\ units \in Nat
        /\ left \in Int
    <2>1. stock \in Nat /\ benefit.used \in Int /\ benefit.claimed \in Int
      BY <1>1, BenefitsType DEF TypeOK, Funded
    <2>2. benefit.used <= benefit.total
      BY DEF IInv, StockLedger
    <2> QED BY <1>1, <2>1, <2>2, ConfigAssumption
  <1>3. left >= MinAmount * units /\ (units = 0 => left = 0)
    <2>1. left >= MinAmount * units
      BY DEF LuckyNeverStarves
    <2>2. benefit.used = benefit.total => benefit.claimed = Budget
      BY DEF LuckyNeverStarves
    <2>3. units = 0 => left = 0
      BY <1>1, <1>2, <2>2, ConfigAssumption
    <2> QED BY <2>1, <2>3
  <1>4. CASE \E k \in Keys : Claim(k)
    <2>1. PICK k \in Keys : Claim(k)
      BY <1>4
    <2>2. PICK amount \in Amounts :
            benefit' = [benefit EXCEPT !.used = @ + 1, !.claimed = @ + amount]
      BY <2>1 DEF Claim
    <2>3. benefit'.used = benefit.used + 1 /\ benefit'.claimed = benefit.claimed + amount
      BY <1>1, <2>2 DEF TypeOK, Benefits
    <2>4. units > 0
      BY <1>1, <1>2, <2>1 DEF Claim
    <2>5. /\ left \div units \in Int /\ left \div units >= MinAmount
          /\ left - (left \div units) >= MinAmount * (units - 1)
          /\ units = 1 => left \div units = left
      <3> HIDE DEF left, units
      <3> QED BY <1>2, <1>3, <2>4, EqualShare, ConfigAssumption
    <2>6. amount = left \div units
      <3>1. amount = Greatest(MinAmount, left \div units)
        BY <2>2 DEF Amounts, LuckyAmount
      <3> QED BY <2>5, <3>1, ConfigAssumption DEF Greatest
    <2>7. /\ Budget - benefit'.claimed = left - amount
          /\ benefit'.total - benefit'.used = units - 1
      BY <1>1, <1>2, <2>3, <2>5, <2>6, ConfigAssumption
    <2>8. benefit'.used = benefit'.total => units = 1
      BY <1>1, <1>2, <2>3
    <2> QED BY <1>1, <1>2, <2>3, <2>5, <2>6, <2>7, <2>8, ConfigAssumption
  <1>5. ASSUME NEW k \in Keys, RowFailed(k), box[k].attempt >= MaxAttempts, Refundable(k)
        PROVE  /\ Budget - benefit'.claimed >= MinAmount * (benefit'.total - benefit'.used)
               /\ benefit'.used = benefit'.total => benefit'.claimed = Budget
    <2> DEFINE amount == claim[k].amount
    <2>1. amount \in Nat /\ amount >= MinAmount
      BY <1>1, <1>5, HeldType DEF IInv, HeldIsDue, HoldsMoney, Refundable
    <2>2. benefit' = AfterRefund(k)
      BY <1>1, <1>5, FailFields DEF RowFailed
    <2>3. benefit'.used = benefit.used - 1 /\ benefit'.claimed = benefit.claimed - amount
      BY <1>1, <2>2 DEF AfterRefund, TypeOK, Benefits
    <2> HIDE DEF amount
    <2>4. /\ Budget - benefit'.claimed = left + amount
          /\ benefit'.total - benefit'.used = units + 1
      BY <1>1, <1>2, <2>1, <2>3, ConfigAssumption
    <2>5. left + amount >= MinAmount * (units + 1)
      <3> HIDE DEF left, units
      <3>1. MinAmount * (units + 1) = MinAmount * units + MinAmount /\ MinAmount * units \in Int
        BY <1>2, ConfigAssumption
      <3> QED BY <1>2, <1>3, <2>1, <3>1, ConfigAssumption
    <2>6. benefit'.used # benefit'.total
      BY <1>1, <1>2, <2>3
    <2> QED BY <2>4, <2>5, <2>6
  <1>6. ASSUME UNCHANGED <<benefit.used, benefit.claimed>>
        PROVE  /\ Budget - benefit'.claimed >= MinAmount * (benefit'.total - benefit'.used)
               /\ benefit'.used = benefit'.total => benefit'.claimed = Budget
    BY <1>1, <1>6 DEF LuckyNeverStarves
  <1>7. ASSUME NEW k \in Keys, RowFailed(k), ~(box[k].attempt >= MaxAttempts /\ Refundable(k))
        PROVE  UNCHANGED <<benefit.used, benefit.claimed>>
    BY <1>1, <1>7, FailFields DEF RowFailed
  <1> QED BY <1>1, <1>4, <1>5, <1>6, <1>7, CountersMove

\* A lucky packet whose budget covers the minimum of every unit in stock never
\* refuses a unit in stock for lack of money, and its last unit takes all that is
\* left, whatever is refunded in between, as long as nobody changes the stock.
THEOREM LuckyIsFunded ==
  ASSUME NEW stock, Funded(stock)
  PROVE  Spec => []LuckyNeverStarves
  <1>1. Init => LuckyNeverStarves
    BY LuckyInit
  <1>2. IInv /\ LuckyNeverStarves /\ [Next]_vars => LuckyNeverStarves'
    BY LuckyNext
  <1> QED BY <1>1, <1>2, Invariance, PTL DEF Spec
-----------------------------------------------------------------------------
(* The rows implement the ledger: its variables as functions of the rows.  *)

Accounts == [k \in Keys |-> Account(k)]
LedgerStep == Ledger!Next \/ UNCHANGED <<Accounts, benefit.claimed, benefit.used>>

\* An account depends on three fields of the claim row.
LEMMA AccountsKept ==
  ASSUME UNCHANGED <<benefit.claimed, benefit.used>>,
         \A k \in Keys : /\ claim'[k].status = "none" <=> claim[k].status = "none"
                         /\ claim'[k].reservation = claim[k].reservation
                         /\ claim'[k].amount = claim[k].amount
  PROVE  LedgerStep
  <1>1. \A k \in Keys : Account(k)' = Account(k)
    BY DEF Account
  <1> QED BY <1>1 DEF LedgerStep, Accounts

\* Whatever step rewrites the row of one claim leaves the accounts of the others.
LEMMA AccountsRewritten ==
  ASSUME NEW k \in Keys, \A j \in Keys : j # k => claim'[j] = claim[j]
  PROVE  Accounts' = [Accounts EXCEPT ![k] = Account(k)']
  <1>1. \A j \in Keys : j # k => Account(j)' = Account(j)
    BY DEF Account
  <1> QED BY <1>1 DEF Accounts

\* The rows start as an empty ledger.
LEMMA LedgerInit == Init => Ledger!Init
  BY DEF Init, Ledger!Init, Ledger!Free, Account, NoClaim

\* A claim takes one unit and its amount, within the budget.
LEMMA ClaimTakes ==
  ASSUME IInv, NEW k \in Keys, Claim(k)
  PROVE  Ledger!Take(k)
  <1>1. PICK amount \in Amounts :
          /\ Cash => benefit.claimed + amount <= Budget
          /\ benefit' = [benefit EXCEPT !.used = @ + 1, !.claimed = @ + amount]
          /\ claim' = [claim EXCEPT ![k] =
               [status |-> "success", delivery |-> "pending",
                reservation |-> IF Cash THEN "reserved" ELSE "not_required",
                amount |-> amount]]
    BY DEF Claim
  <1>2. TypeOK /\ RowsAgree /\ claim[k].status = "none" /\ benefit.used < benefit.total
    BY DEF Claim, IInv
  <1>3. /\ benefit'.used = benefit.used + 1 /\ benefit'.claimed = benefit.claimed + amount
        /\ benefit.claimed \in Int
    BY <1>1, <1>2 DEF TypeOK, Benefits
  <1>4. benefit.claimed + amount <= Budget
    <2>1. CASE Cash
      BY <1>1, <2>1
    <2>2. CASE ~Cash
      <3>1. amount = 0
        BY <1>1, <2>2 DEF Amounts
      <3> QED BY <1>3, <3>1, ConfigAssumption DEF IInv, WithinBudget
    <2> QED BY <2>1, <2>2
  <1>5. Account(k) = [state |-> "free", amount |-> 0]
    BY <1>2 DEF RowsAgree, Account, NoClaim
  <1>6. /\ Account(k)' = [state |-> "held", amount |-> amount]
        /\ \A j \in Keys : j # k => claim'[j] = claim[j]
    BY <1>1, <1>2 DEF TypeOK, Account
  <1>7. /\ Accounts' = [Accounts EXCEPT ![k] = [state |-> "held", amount |-> amount]]
        /\ Accounts'[k].amount = amount
    BY <1>6, AccountsRewritten DEF Accounts
  <1> QED
    BY <1>3, <1>4, <1>5, <1>7 DEF Ledger!Take, Ledger!Free, Accounts

\* A settled success pays a held amount once.
LEMMA SettlingPays ==
  ASSUME IInv, UNCHANGED benefit, NEW k \in Keys, box[k].status \notin {"none", "dead_letter"},
         claim' \in {[claim EXCEPT ![k] = Settled(@)], [claim EXCEPT ![k] = Confirmed(@)]}
  PROVE  LedgerStep
  <1>1. /\ claim[k] \in ClaimRows
        /\ \A j \in Keys : j # k => claim'[j] = claim[j]
        /\ claim'[k] \in {Settled(claim[k]), Confirmed(claim[k])}
    BY DEF IInv, TypeOK
  <1>2. claim[k].status # "none" /\ claim[k].reservation # "refunded"
    BY DEF IInv, RowsAgree, RefundedIsDead
  <1>3. /\ claim'[k].amount = claim[k].amount /\ claim'[k].status # "none"
        /\ claim'[k].reservation =
             (IF claim[k].reservation = "reserved" THEN "settled" ELSE claim[k].reservation)
    BY <1>1, <1>2, SettledFields
  <1>4. CASE claim[k].reservation = "reserved"
    <2>1. /\ Account(k) = [state |-> "held", amount |-> claim[k].amount]
          /\ Account(k)' = [state |-> "paid", amount |-> claim[k].amount]
      BY <1>2, <1>3, <1>4 DEF Account
    <2>2. Account(k)' = [Accounts[k] EXCEPT !.state = "paid"]
      BY <2>1 DEF Accounts
    <2>3. Accounts' = [Accounts EXCEPT ![k].state = "paid"]
      BY <1>1, <2>2, AccountsRewritten DEF Accounts
    <2>4. Ledger!Pay(k)
      BY <2>1, <2>3 DEF Ledger!Pay, Accounts
    <2> QED BY <2>4 DEF LedgerStep, Ledger!Next
  <1>5. CASE claim[k].reservation # "reserved"
    BY <1>1, <1>2, <1>3, <1>5, AccountsKept
  <1> QED BY <1>4, <1>5

\* A terminal failure gives a held amount back, any other moves no money.
LEMMA FailureGivesBack ==
  ASSUME IInv, NEW k \in Keys, box[k].status = "processing", FailBox(k)
  PROVE  LedgerStep
  <1> DEFINE terminal == box[k].attempt >= MaxAttempts
             open == claim[k].status \in {"success", "claimed"}
             refund == terminal /\ open /\ claim[k].reservation = "reserved"
  <1>1. /\ claim[k] \in ClaimRows /\ benefit \in Benefits
        /\ claim[k].status # "none" /\ claim[k].reservation # "refunded"
    BY DEF IInv, TypeOK, RowsAgree, RefundedIsDead
  <1>2. /\ claim'[k].status # "none" /\ claim'[k].amount = claim[k].amount
        /\ claim'[k].reservation = (IF refund THEN "refunded" ELSE claim[k].reservation)
        /\ \A j \in Keys : j # k => claim'[j] = claim[j]
    BY <1>1 DEF FailBox, Refundable, AfterRefund, IInv, TypeOK, ClaimRows
  <1>3. CASE refund
    <2>1. /\ Account(k) = [state |-> "held", amount |-> claim[k].amount]
          /\ Account(k)' = [state |-> "returned", amount |-> claim[k].amount]
      BY <1>1, <1>2, <1>3 DEF Account
    <2>2. Account(k)' = [Accounts[k] EXCEPT !.state = "returned"]
      BY <2>1 DEF Accounts
    <2>3. Accounts' = [Accounts EXCEPT ![k].state = "returned"]
      BY <1>2, <2>2, AccountsRewritten DEF Accounts
    <2>4. /\ benefit'.used = benefit.used - 1
          /\ benefit'.claimed = benefit.claimed - claim[k].amount
      BY <1>1, <1>3 DEF FailBox, Refundable, AfterRefund, Benefits
    <2>5. Ledger!GiveBack(k)
      BY <2>1, <2>3, <2>4 DEF Ledger!GiveBack, Accounts
    <2> QED BY <2>5 DEF LedgerStep, Ledger!Next
  <1>4. CASE ~refund
    <2>1. UNCHANGED benefit
      BY <1>4 DEF FailBox, Refundable, AfterRefund
    <2> QED BY <1>1, <1>2, <1>4, <2>1, AccountsKept
  <1> QED BY <1>3, <1>4

\* Every step of the rows is a step of the ledger or changes none of its variables.
THEOREM LedgerNext == IInv /\ [Next]_vars => LedgerStep
  <1> SUFFICES ASSUME IInv, [Next]_vars PROVE LedgerStep
    OBVIOUS
  <1>1. TypeOK
    BY DEF IInv
  <1>2. ASSUME NEW k \in Keys, Claim(k) PROVE LedgerStep
    BY <1>2, ClaimTakes DEF LedgerStep, Ledger!Next
  <1>3. ASSUME NEW k \in Keys, Redeem(k) PROVE LedgerStep
    <2>1. claim[k] \in ClaimRows /\ benefit' = benefit
      BY <1>1, <1>3 DEF TypeOK, Redeem
    <2>2. \A j \in Keys : /\ claim'[j].status = "none" <=> claim[j].status = "none"
                          /\ claim'[j].reservation = claim[j].reservation
                          /\ claim'[j].amount = claim[j].amount
      BY <1>1, <1>3, <2>1 DEF Redeem, TypeOK, ClaimRows
    <2> QED BY <2>1, <2>2, AccountsKept
  <1>4. ASSUME NEW w \in Workers, Begin(w) PROVE LedgerStep
    <2>1. PICK item \in batch[w] :
            \/ UNCHANGED <<benefit, claim, box, delivery>>
            \/ Live(w, item.key) /\ Complete(item.key)
      BY <1>4 DEF Begin
    <2>2. item.key \in Keys
      BY <1>1, JobsType DEF TypeOK
    <2>3. CASE UNCHANGED <<benefit, claim, box, delivery>>
      BY <2>3, AccountsKept
    <2>4. CASE Live(w, item.key) /\ Complete(item.key)
      BY <2>2, <2>4, SettlingPays DEF Live, Holds, Complete
    <2> QED BY <2>1, <2>3, <2>4
  <1>5. ASSUME NEW w \in Workers, Record(w) PROVE LedgerStep
    <2> DEFINE k == job[w].key
    <2>1. /\ k \in Keys /\ box[k].status = "processing" /\ UNCHANGED benefit
          /\ RecordResult(k, job[w].answer, job[w].ext)
      BY <1>1, <1>5, InHandType DEF Record, Holds, RecordResult
    <2>2. CASE job[w].answer = "success"
      BY <2>1, <2>2, SettlingPays DEF RecordResult
    <2>3. CASE job[w].answer # "success"
      <3>1. claim' = [claim EXCEPT ![k].delivery = "processing"] /\ claim[k] \in ClaimRows
        BY <1>1, <2>1, <2>3 DEF RecordResult, TypeOK
      <3>2. \A j \in Keys : /\ claim'[j].status = "none" <=> claim[j].status = "none"
                            /\ claim'[j].reservation = claim[j].reservation
                            /\ claim'[j].amount = claim[j].amount
        BY <1>1, <3>1 DEF TypeOK, ClaimRows
      <3> QED BY <2>1, <3>2, AccountsKept
    <2> QED BY <2>2, <2>3
  <1>6. ASSUME NEW w \in Workers, Fail(w) PROVE LedgerStep
    BY <1>1, <1>6, InHandType, FailureGivesBack DEF Fail, Live, Holds
  <1>7. ASSUME NEW k \in Keys, NEW s \in Outcomes, Callback(k, s) PROVE LedgerStep
    <2>1. box[k].status \notin {"none", "dead_letter"} /\ UNCHANGED benefit
      BY <1>7 DEF Callback, Admissible, Settleable
    <2>2. CASE s = "success"
      BY <1>7, <2>1, <2>2, SettlingPays DEF Callback, CallbackSuccess
    <2>3. CASE s # "success"
      <3>1. claim' = [claim EXCEPT ![k].delivery = "pending"] /\ claim[k] \in ClaimRows
        BY <1>1, <1>7, <2>3 DEF Callback, CallbackFailed, TypeOK
      <3>2. \A j \in Keys : /\ claim'[j].status = "none" <=> claim[j].status = "none"
                            /\ claim'[j].reservation = claim[j].reservation
                            /\ claim'[j].amount = claim[j].amount
        BY <1>1, <3>1 DEF TypeOK, ClaimRows
      <3> QED BY <2>1, <3>2, AccountsKept
    <2> QED BY <2>2, <2>3
  <1>8. ASSUME NEW status \in {"active", "inactive"}, NEW total \in StockChoices,
               NEW limit \in LimitChoices, UpdateBenefit(status, total, limit)
        PROVE LedgerStep
    <2>1. UNCHANGED <<benefit.claimed, benefit.used, claim>>
      BY <1>1, <1>8 DEF UpdateBenefit, TypeOK, Benefits
    <2> QED BY <2>1, AccountsKept
  <1>9. ASSUME UNCHANGED <<benefit, claim>> PROVE LedgerStep
    BY <1>9, AccountsKept
  <1> QED
    BY <1>2, <1>3, <1>4, <1>5, <1>6, <1>7, <1>8, <1>9
    DEF Next, Operate, TransitionCampaign, UpdateCampaign, Lease, CallProvider, RecordRefused,
        FailLost, Crash, ProviderSettles, LeaseExpires, vars, rows

\* The claim authority implements the ledger: whatever workers, providers,
\* callbacks and crashes do, each claim takes its unit and amount once, within the
\* budget, and pays them or gives them back at most once.
THEOREM ImplementsLedger == Spec => LedgerSpec
  BY LedgerInit, Invariance, LedgerNext, PTL
  DEF Spec, LedgerSpec, Ledger!Spec, LedgerStep, Accounts
=============================================================================

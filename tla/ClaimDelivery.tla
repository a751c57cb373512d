---------------------------- MODULE ClaimDelivery ----------------------------
(***************************************************************************)
(* One benefit of one campaign, from the consumer's claim to the delivery  *)
(* the provider confirms.  The authority over every row is a PostgreSQL    *)
(* function (SECURITY DEFINER, one transaction): each of them is one       *)
(* action here.  Around them run the workers that poll the claim outbox    *)
(* (campaign_claim_worker.py), which read, call a provider over the        *)
(* network and write in different steps, and the provider, which answers,  *)
(* settles and calls back whenever it likes.                               *)
(*                                                                         *)
(* A claim is identified by its idempotency key: the function replays the  *)
(* row of a known key and changes nothing (a stuttering step), and the     *)
(* request digest bound to the key refuses another request under it.       *)
(*                                                                         *)
(* Time is abstract: a lease expires in a step of its own, a retry or a    *)
(* callback deadline is any later moment.  Conditions that can only refuse *)
(* a claim (code, batch, scan, risk, time window, launch release) are left *)
(* out: the consumer may always not claim.                                 *)
(***************************************************************************)
EXTENDS Integers, FiniteSets, FiniteSetsExt

CONSTANTS
  Keys,             \* claim idempotency keys, one claim each at most
  Consumers,        \* consumer references
  ConsumerOf,       \* the consumer a key was derived for
  Workers,          \* poll loops that may run at the same time
  NoWorker, NoKey,  \* nobody holds the lease, no item in hand
  MaxAttempts,      \* campaign_claim_outbox.max_attempts (8 in the code)
  BatchLimit,       \* rows one poll leases (20 in the code)
  StockChoices,     \* stock_total values an operator may set
  LimitChoices,     \* per_person_limit and claim_limit_count values
  Cash,             \* benefit_type = 'cash_red_packet'
  AmountType,       \* 'fixed', 'random' or 'lucky'
  MinAmount, MaxAmount, \* config_json of a cash benefit
  Budget,           \* its budget less the claimed_budget it was configured with
  HasConnector,     \* benefit.connector_id IS NOT NULL
  HasReconcile,     \* the adapter can ask for the state of an earlier delivery
  AcceptedAnswers,  \* what deliver() reports of an order the provider only accepted
  ReportsOwnId      \* the provider answers with an id of its own

ASSUME KeysAssumption ==
  /\ IsFiniteSet(Keys)
  /\ ConsumerOf \in [Keys -> Consumers]
  /\ NoWorker \notin Workers
  /\ NoKey \notin Keys

ASSUME NumbersAssumption ==
  /\ MaxAttempts \in Nat \ {0}
  /\ BatchLimit \in Nat \ {0}
  /\ StockChoices \subseteq Nat /\ StockChoices # {}
  /\ LimitChoices \subseteq Nat \ {0} /\ LimitChoices # {}

\* validate_campaign_benefit_config and the connector rule of mutate_campaign_benefit
ASSUME ConfigAssumption ==
  /\ Cash \in BOOLEAN /\ HasConnector \in BOOLEAN
  /\ HasReconcile \in BOOLEAN /\ ReportsOwnId \in BOOLEAN
  /\ AmountType \in {"fixed", "random", "lucky"}
  /\ MinAmount \in Nat \ {0} /\ MaxAmount \in Nat /\ MaxAmount >= MinAmount
  /\ Budget \in Nat \ {0}
  /\ Cash => HasConnector
  /\ AcceptedAnswers \subseteq {"success", "pending"}

VARIABLES
  campaign,  \* the campaign row: lifecycle status and per-consumer limit
  benefit,   \* the benefit row: status, stock, limit and claimed_budget
  claim,     \* benefit_claims, by key
  box,       \* campaign_claim_outbox, by key
  delivery,  \* benefit_deliveries, by key
  receipts,  \* campaign_delivery_callback_attempts: callback statuses settled
  provider,  \* what the provider did under the claim's own number
  calls,     \* callbacks the provider has sent; they may arrive late or again
  batch,     \* items a poll has leased and not yet begun
  job        \* the item a worker has in hand

worker == <<batch, job>>
rows == <<campaign, benefit, claim, box, delivery, receipts>>
vars == <<campaign, benefit, claim, box, delivery, receipts, provider, calls, batch, job>>
-----------------------------------------------------------------------------
ClaimStatuses == {"none", "success", "claimed", "delivered", "used", "failed"}
CountedStatuses == {"success", "claimed", "delivered", "used"}
DeliveryStatuses == {"not_required", "pending", "processing", "success", "dead_letter"}
ReservationStatuses == {"not_required", "reserved", "settled", "refunded"}
BoxStatuses == {"none", "pending", "processing", "awaiting_callback", "delivered", "dead_letter"}
ExternalIds == {"key", "own"}
Phases == {"idle", "ready", "answered", "failing"}

ClaimRows == [status : ClaimStatuses, delivery : DeliveryStatuses,
              reservation : ReservationStatuses, amount : Nat]
Boxes == [status : BoxStatuses, attempt : 0..MaxAttempts,
          holder : Workers \cup {NoWorker}, expired : BOOLEAN]
Items == [key : Keys, timedOut : BOOLEAN, giveUp : BOOLEAN]
Jobs == {j \in [phase : Phases, key : Keys \cup {NoKey}, timedOut : BOOLEAN, fresh : BOOLEAN,
                 answer : {"none", "success", "pending"}, ext : ExternalIds \cup {"none"}] :
           /\ j.phase # "idle" => j.key \in Keys
           /\ j.phase = "answered" => j.answer # "none" /\ j.ext # "none"}

NoClaim == [status |-> "none", delivery |-> "not_required",
            reservation |-> "not_required", amount |-> 0]
NoBox == [status |-> "none", attempt |-> 0, holder |-> NoWorker, expired |-> FALSE]
NoDelivery == [status |-> "none", ext |-> "none"]
Idle == [phase |-> "idle", key |-> NoKey, timedOut |-> FALSE, fresh |-> FALSE,
         answer |-> "none", ext |-> "none"]

Campaigns == [status : {"draft", "active", "paused", "ended"}, limit : LimitChoices]
Benefits == [status : {"active", "inactive"}, total : StockChoices, used : Int,
             limit : LimitChoices, claimed : Int]
Deliveries == [status : {"none", "pending", "success", "failed"}, ext : ExternalIds \cup {"none"}]
Outcomes == {"success", "failed"}

TypeOK ==
  /\ campaign \in Campaigns
  /\ benefit \in Benefits
  /\ claim \in [Keys -> ClaimRows]
  /\ box \in [Keys -> Boxes]
  /\ delivery \in [Keys -> Deliveries]
  /\ receipts \in [Keys -> SUBSET Outcomes]
  /\ provider \in [Keys -> {"none", "accepted", "granted", "refused"}]
  /\ calls \in [Keys -> SUBSET Outcomes]
  /\ batch \in [Workers -> SUBSET Items]
  /\ job \in [Workers -> Jobs]

Init ==
  /\ campaign \in [status : {"draft"}, limit : LimitChoices]
  /\ benefit \in [status : {"active"}, total : StockChoices, used : {0},
                  limit : LimitChoices, claimed : {0}]
  /\ claim = [k \in Keys |-> NoClaim]
  /\ box = [k \in Keys |-> NoBox]
  /\ delivery = [k \in Keys |-> NoDelivery]
  /\ receipts = [k \in Keys |-> {}]
  /\ provider = [k \in Keys |-> "none"]
  /\ calls = [k \in Keys |-> {}]
  /\ batch = [w \in Workers |-> {}]
  /\ job = [w \in Workers |-> Idle]
-----------------------------------------------------------------------------
(* Operators: campaign and benefit authority.                              *)

\* transition_campaign: the lifecycle, and what activation requires.
TransitionCampaign(s) ==
  /\ \/ campaign.status = "draft" /\ s = "active"
     \/ campaign.status = "active" /\ s \in {"paused", "ended"}
     \/ campaign.status = "paused" /\ s \in {"active", "ended"}
  /\ s = "active" => benefit.status = "active" /\ benefit.total > benefit.used
  /\ campaign' = [campaign EXCEPT !.status = s]
  /\ UNCHANGED <<benefit, claim, box, delivery, receipts, provider, calls, worker>>

\* update_campaign: only while the campaign is not live.
UpdateCampaign(n) ==
  /\ campaign.status \in {"draft", "paused"}
  /\ campaign' = [campaign EXCEPT !.limit = n]
  /\ UNCHANGED <<benefit, claim, box, delivery, receipts, provider, calls, worker>>

\* mutate_campaign_benefit 'update': stock never falls below what is used; the
\* delivery contract (type, config, connector) is frozen by the first claim, so
\* it is constant here.
UpdateBenefit(status, total, limit) ==
  /\ campaign.status \in {"draft", "paused"}
  /\ total >= benefit.used
  /\ benefit' = [benefit EXCEPT !.status = status, !.total = total, !.limit = limit]
  /\ UNCHANGED <<campaign, claim, box, delivery, receipts, provider, calls, worker>>
-----------------------------------------------------------------------------
(* Consumers and stores.                                                   *)

Counted(c) == {k \in Keys : ConsumerOf[k] = c /\ claim[k].status \in CountedStatuses}

Greatest(a, b) == IF a >= b THEN a ELSE b

\* A lucky packet is an equal share of what is left, and the minimum at least.
LuckyAmountOfTotal == Greatest(MinAmount, (Budget - benefit.claimed) \div benefit.total)
LuckyAmount ==
  Greatest(MinAmount, (Budget - benefit.claimed) \div (benefit.total - benefit.used))

\* The amounts claim_campaign_benefit may reserve now (random: a hash of the claim id).
Amounts ==
  CASE ~Cash -> {0}
    [] Cash /\ AmountType = "fixed" -> {MinAmount}
    [] Cash /\ AmountType = "random" -> MinAmount..MaxAmount
    [] Cash /\ AmountType = "lucky" -> {LuckyAmount}

\* The two limits on the claims of one consumer.
WithinCampaignLimit(c) == Cardinality(Counted(c)) < campaign.limit
WithinLimits(c) ==
  /\ Cardinality(Counted(c)) < campaign.limit
  /\ Cardinality(Counted(c)) < benefit.limit

\* claim_campaign_benefit: stock, limits and budget are checked and taken, and
\* the claim and its outbox row inserted, in one transaction.
Claim(k) ==
  /\ claim[k].status = "none"
  /\ campaign.status = "active"
  /\ benefit.status = "active" /\ benefit.used < benefit.total
  /\ WithinLimits(ConsumerOf[k])
  /\ \E amount \in Amounts :
       /\ Cash => benefit.claimed + amount <= Budget
       /\ benefit' = [benefit EXCEPT !.used = @ + 1, !.claimed = @ + amount]
       /\ claim' = [claim EXCEPT ![k] =
            [status |-> "success", delivery |-> "pending",
             reservation |-> IF Cash THEN "reserved" ELSE "not_required", amount |-> amount]]
  /\ box' = [box EXCEPT ![k] = [NoBox EXCEPT !.status = "pending"]]
  /\ UNCHANGED <<campaign, delivery, receipts, provider, calls, worker>>

\* redeem_campaign_benefit_claim: a store uses the coupon up.
Redeem(k) ==
  /\ claim[k].status \in {"success", "claimed", "delivered"}
  /\ claim' = [claim EXCEPT ![k].status = "used"]
  /\ UNCHANGED <<campaign, benefit, box, delivery, receipts, provider, calls, worker>>
-----------------------------------------------------------------------------
(* The outbox functions: what each writes when it does not raise.          *)

Leasable(k) ==
  \/ box[k].status = "pending" /\ box[k].attempt < MaxAttempts
  \/ box[k].status = "processing" /\ box[k].expired /\ box[k].attempt < MaxAttempts
  \/ box[k].status = "awaiting_callback" /\ box[k].attempt <= MaxAttempts

\* The lease token a worker was given is still the row's.
Holds(w, k) == box[k].status = "processing" /\ box[k].holder = w

Live(w, k) == Holds(w, k) /\ ~box[k].expired

\* Every function that ends a lease clears its token, deadline and owner.
Released(k, s) == [box[k] EXCEPT !.status = s, !.holder = NoWorker, !.expired = FALSE]

\* What success writes on the claim; money only ever moves from reserved to settled.
Settled(c) == [c EXCEPT !.delivery = "success",
                        !.reservation = IF @ = "reserved" THEN "settled" ELSE @]

\* What a success callback writes on it: a claimed coupon is delivered as well.
Confirmed(c) == [Settled(c) EXCEPT !.status = IF c.status = "claimed" THEN "delivered" ELSE @]

\* complete_campaign_claim_outbox: a benefit without a connector needs no delivery.
Complete(k) ==
  /\ box' = [box EXCEPT ![k] = Released(k, "delivered")]
  /\ claim' = [claim EXCEPT ![k] = Settled(@)]
  /\ UNCHANGED <<benefit, delivery>>

\* record_campaign_claim_delivery_result, for result status s and external id ext:
\* a delivery keeps the external id it was first recorded with.
RecordResult(k, s, ext) ==
  /\ delivery[k].ext \in {"none", ext}
  /\ delivery' = [delivery EXCEPT ![k] = [status |-> s, ext |-> ext]]
  /\ IF s = "success"
     THEN /\ box' = [box EXCEPT ![k] = Released(k, "delivered")]
          /\ claim' = [claim EXCEPT ![k] = Settled(@)]
     ELSE /\ box' = [box EXCEPT ![k] = Released(k, "awaiting_callback")]
          /\ claim' = [claim EXCEPT ![k].delivery = "processing"]
  /\ UNCHANGED benefit

\* A terminal failure refunds money that is still reserved, of a claim nobody used.
RefundableEvenUsed(k) == claim[k].reservation = "reserved"
RefundableEvenSettled(k) == claim[k].status \in {"success", "claimed"}
NeverRefundable(k) == FALSE
Refundable(k) == claim[k].status \in {"success", "claimed"} /\ claim[k].reservation = "reserved"

\* What the refund of a claim leaves on the benefit row.
StockAfterRefund(k) == [benefit EXCEPT !.used = @ - 1]
MoneyAfterRefund(k) == [benefit EXCEPT !.claimed = @ - claim[k].amount]
AfterRefund(k) == [benefit EXCEPT !.used = @ - 1, !.claimed = @ - claim[k].amount]

\* fail_campaign_claim_outbox: the last attempt is terminal.
FailBox(k) ==
  LET terminal == box[k].attempt >= MaxAttempts
      open == claim[k].status \in {"success", "claimed"}
      refund == terminal /\ Refundable(k)
  IN /\ box' = [box EXCEPT ![k] = Released(k, IF terminal THEN "dead_letter" ELSE "pending")]
     /\ claim' = [claim EXCEPT
          ![k].delivery = IF terminal THEN "dead_letter" ELSE "pending",
          ![k].status = IF terminal /\ open THEN "failed" ELSE @,
          ![k].reservation = IF refund THEN "refunded" ELSE @]
     /\ benefit' = IF refund THEN AfterRefund(k) ELSE benefit
     /\ UNCHANGED delivery
-----------------------------------------------------------------------------
(* The workers.  poll: lease up to BatchLimit rows in one transaction, then *)
(* process the items one after the other, each in a transaction that stays  *)
(* open across the provider call.                                           *)

\* A timed out callback is leased at the last attempt too, to give up on it.
NextAttemptUncounted(k) ==
  IF box[k].status = "awaiting_callback" THEN box[k].attempt ELSE box[k].attempt + 1
NextAttempt(k) ==
  IF box[k].status = "awaiting_callback" /\ box[k].attempt >= MaxAttempts
  THEN box[k].attempt ELSE box[k].attempt + 1

\* lease_campaign_claim_outbox: rows another transaction has locked are skipped,
\* and due times are any, so any non-empty set of leasable rows.
Lease(w) ==
  /\ job[w].phase = "idle" /\ batch[w] = {}
  /\ \E S \in SUBSET {k \in Keys : Leasable(k)} :
       /\ S # {} /\ Cardinality(S) <= BatchLimit
       /\ LET timedOut(k) == box[k].status = "awaiting_callback"
          IN /\ box' = [k \in Keys |->
                   IF k \in S THEN [status |-> "processing", attempt |-> NextAttempt(k),
                                    holder |-> w, expired |-> FALSE]
                   ELSE box[k]]
             /\ batch' = [batch EXCEPT ![w] =
                   {[key |-> k, timedOut |-> timedOut(k),
                     giveUp |-> timedOut(k) /\ NextAttempt(k) >= MaxAttempts] : k \in S}]
  /\ UNCHANGED <<campaign, benefit, claim, delivery, receipts, provider, calls, job>>

\* _process_leased up to the provider call.  The transaction opens here, and
\* every check of the lease deadline it makes later compares with this moment
\* (CURRENT_TIMESTAMP): that is fresh.  It fails when the callback timed out at
\* the last attempt, and may fail for what it reads: connector disabled, circuit
\* open, recipient or token missing.
Ready(item, fresh) ==
  [Idle EXCEPT !.phase = "ready", !.key = item.key, !.timedOut = item.timedOut, !.fresh = fresh]

Failing(k) == [Idle EXCEPT !.phase = "failing", !.key = k]

Begin(w) ==
  /\ job[w].phase = "idle"
  /\ \E item \in batch[w] :
       /\ batch' = [batch EXCEPT ![w] = @ \ {item}]
       /\ \/ /\ ~item.giveUp /\ HasConnector
             /\ job' = [job EXCEPT ![w] = Ready(item, Live(w, item.key))]
             /\ UNCHANGED <<benefit, claim, box, delivery>>
          \/ /\ item.giveUp \/ HasConnector \/ ~Live(w, item.key)
             /\ job' = [job EXCEPT ![w] = Failing(item.key)]
             /\ UNCHANGED <<benefit, claim, box, delivery>>
          \/ /\ ~item.giveUp /\ ~HasConnector /\ Live(w, item.key)
             /\ Complete(item.key)
             /\ UNCHANGED job
  /\ UNCHANGED <<campaign, receipts, provider, calls>>

OwnId == IF ReportsOwnId THEN "own" ELSE "key"

\* What the provider makes of a delivery order under a number it may know already.
Ordered(p) == IF p = "granted" THEN {"granted"}
              ELSE IF p = "accepted" THEN {"accepted", "granted"}
              ELSE {p, "accepted", "granted", "refused"}

\* An adapter that takes an accepted order for a granted one.
AnswersAcceptedAsGranted(p) ==
  {<<"pending", "key">>} \cup
  (IF p \in {"granted", "accepted"} THEN {<<"success", OwnId>>} ELSE {})

\* The answers an adapter maps to success or pending; a lost answer is pending,
\* under the claim's own number.  Anything else is a failed delivery.
Answers(p) ==
  {<<"pending", "key">>} \cup
  (IF p = "granted" THEN {<<"success", OwnId>>} ELSE {}) \cup
  (IF p = "accepted" THEN {<<s, OwnId>> : s \in AcceptedAnswers} ELSE {})

\* Adapter deliver(), or reconcile() of a delivery whose callback timed out.
CallProvider(w) ==
  LET k == job[w].key
      reconcile == job[w].timedOut /\ HasReconcile
  IN /\ job[w].phase = "ready"
     /\ \E p \in IF reconcile THEN {provider[k]} ELSE Ordered(provider[k]) :
          /\ provider' = [provider EXCEPT ![k] = p]
          /\ calls' = [calls EXCEPT ![k] = IF p = "granted" THEN @ \cup {"success"} ELSE @]
          /\ \/ \E a \in Answers(p) :
                  job' = [job EXCEPT ![w].phase = "answered", ![w].answer = a[1],
                                     ![w].ext = a[2]]
             \/ job' = [job EXCEPT ![w] = Failing(k)]
     /\ UNCHANGED <<campaign, benefit, claim, box, delivery, receipts, batch>>

Record(w) ==
  LET k == job[w].key
  IN /\ job[w].phase = "answered"
     /\ Holds(w, k) /\ job[w].fresh
     /\ RecordResult(k, job[w].answer, job[w].ext)
     /\ job' = [job EXCEPT ![w] = Idle]
     /\ UNCHANGED <<campaign, receipts, provider, calls, batch>>

\* The record raised: stale lease, another external id, or a row lock of a
\* concurrent claim, edit or callback (NOWAIT).
RecordRefused(w) ==
  /\ job[w].phase = "answered"
  /\ job' = [job EXCEPT ![w] = Failing(job[w].key)]
  /\ UNCHANGED <<rows, provider, calls, batch>>

\* The failure is recorded in a transaction of its own, which checks the lease again.
Fail(w) ==
  /\ job[w].phase = "failing"
  /\ Live(w, job[w].key)
  /\ FailBox(job[w].key)
  /\ job' = [job EXCEPT ![w] = Idle]
  /\ UNCHANGED <<campaign, receipts, provider, calls, batch>>

\* _fail raises on a lost lease; nothing catches it, and the poll ends with the
\* rest of its batch leased and never begun.
FailLost(w) ==
  /\ job[w].phase = "failing"
  /\ ~Live(w, job[w].key)
  /\ job' = [job EXCEPT ![w] = Idle]
  /\ batch' = [batch EXCEPT ![w] = {}]
  /\ UNCHANGED <<rows, provider, calls>>

\* The worker process dies, or the poll raises anywhere else.
Crash(w) ==
  /\ job[w].phase # "idle" \/ batch[w] # {}
  /\ job' = [job EXCEPT ![w] = Idle]
  /\ batch' = [batch EXCEPT ![w] = {}]
  /\ UNCHANGED <<rows, provider, calls>>
-----------------------------------------------------------------------------
(* The provider and its callbacks.                                         *)

\* An accepted order is granted or refused, and the provider says so.
ProviderSettles(k) ==
  /\ provider[k] = "accepted"
  /\ \/ /\ provider' = [provider EXCEPT ![k] = "granted"]
        /\ calls' = [calls EXCEPT ![k] = @ \cup {"success"}]
     \/ /\ provider' = [provider EXCEPT ![k] = "refused"]
        /\ calls' = [calls EXCEPT ![k] = @ \cup {"failed"}]
  /\ UNCHANGED <<rows, worker>>

\* settle_campaign_claim_callback: a success finds the claim alive, and settles it.
CallbackSuccess(k) ==
  /\ claim[k].status # "failed" /\ claim[k].reservation # "refunded"
  /\ delivery' = [delivery EXCEPT ![k].status = "success"]
  /\ claim' = [claim EXCEPT ![k] = Confirmed(@)]
  /\ box' = [box EXCEPT ![k] = Released(k, "delivered")]

\* A failure puts the outbox row back to pending, whatever state it is in.
CallbackFailed(k) ==
  /\ delivery' = [delivery EXCEPT ![k].status = "failed"]
  /\ claim' = [claim EXCEPT ![k].delivery = "pending"]
  /\ box' = [box EXCEPT ![k] = Released(k, "pending")]

\* One receipt is kept for each status; a status that has its receipt is a replay
\* and changes nothing, and a failure after a success is refused.
NotReplayed(k, s) == s \notin receipts[k]
Admissible(k, s) == s \notin receipts[k] /\ "success" \notin receipts[k]

\* The outbox states a callback settles.  A success after a failure reopens a
\* pending row for the settlement.
SettleableAnyTime(k, s) == box[k].status # "none"
Settleable(k, s) ==
  \/ box[k].status \in {"awaiting_callback", "processing", "delivered"}
  \/ box[k].status = "pending" /\ "failed" \in receipts[k] /\ s = "success"

\* The callback endpoint with the settlement it calls; the delivery is looked up by
\* its external id.
Callback(k, s) ==
  /\ s \in calls[k]
  /\ delivery[k].ext = OwnId
  /\ Admissible(k, s) /\ Settleable(k, s)
  /\ IF s = "success" THEN CallbackSuccess(k) ELSE CallbackFailed(k)
  /\ receipts' = [receipts EXCEPT ![k] = @ \cup {s}]
  /\ UNCHANGED <<campaign, benefit, provider, calls, worker>>

LeaseExpires(k) ==
  /\ box[k].status = "processing" /\ ~box[k].expired
  /\ box' = [box EXCEPT ![k].expired = TRUE]
  /\ UNCHANGED <<campaign, benefit, claim, delivery, receipts, provider, calls, worker>>
-----------------------------------------------------------------------------
Operate ==
  \/ \E s \in {"active", "paused", "ended"} : TransitionCampaign(s)
  \/ \E n \in LimitChoices : UpdateCampaign(n)
  \/ \E status \in {"active", "inactive"}, total \in StockChoices, limit \in LimitChoices :
       UpdateBenefit(status, total, limit)

Next ==
  \/ Operate
  \/ \E k \in Keys : Claim(k) \/ Redeem(k)
  \/ \E w \in Workers :
       \/ Lease(w) \/ Begin(w) \/ CallProvider(w) \/ Record(w) \/ RecordRefused(w)
       \/ Fail(w) \/ FailLost(w) \/ Crash(w)
  \/ \E k \in Keys :
       \/ ProviderSettles(k) \/ LeaseExpires(k)
       \/ \E s \in Outcomes : Callback(k, s)

Spec == Init /\ [][Next]_vars

\* The polls run again and again, a worker that has an item goes on with it and
\* every lease runs out.  Nobody is bound to claim, to operate, to call back or to
\* crash, and the provider need not settle anything.
WorkerStep(w) ==
  Lease(w) \/ Begin(w) \/ CallProvider(w) \/ Record(w) \/ RecordRefused(w) \/ Fail(w) \/ FailLost(w)

FairSpec ==
  /\ Spec
  /\ \A w \in Workers : WF_vars(WorkerStep(w))
  /\ \A k \in Keys : WF_vars(LeaseExpires(k))
-----------------------------------------------------------------------------
(* What the consumer is shown.                                             *)

\* derive_consumer_claim_status
ConsumerStatus(k) ==
  IF box[k].status = "dead_letter" \/ claim[k].delivery = "dead_letter" THEN "failed"
  ELSE IF box[k].status = "delivered" \/ claim[k].delivery \in {"success", "not_required"}
       THEN "success"
  ELSE "processing"

Claimed == {k \in Keys : claim[k].status # "none"}
HoldsMoney(k) == claim[k].reservation \in {"reserved", "settled"}
HoldsStock(k) == k \in Claimed /\ claim[k].reservation # "refunded"
-----------------------------------------------------------------------------
(* Properties.                                                             *)

\* claimed_budget is exactly the money of the claims that hold any, and within
\* the budget: no interleaving of claims, terminal failures, crashes, late
\* records and callbacks counts an amount twice or returns one twice.
MoneyLedger ==
  /\ benefit.claimed =
       SumFunctionOnSet([k \in Keys |-> claim[k].amount], {k \in Keys : HoldsMoney(k)})
  /\ Cash => benefit.claimed <= Budget

\* stock_used counts exactly the claims that were not refunded, and never passes
\* stock_total, which an operator may lower while workers refund.
StockLedger ==
  /\ benefit.used = Cardinality({k \in Keys : HoldsStock(k)})
  /\ benefit.used <= benefit.total

\* The row of a claim and its outbox row come together, a cash claim and no other
\* has a reservation, a refunded claim is dead, and the budget holds: what the
\* ledgers and the finality of refunds and receipts rest on.
RowsAgree ==
  \A k \in Keys :
    /\ box[k].status = "none" <=> claim[k].status = "none"
    /\ claim[k].status = "none" => claim[k] = NoClaim
    /\ k \in Claimed => (Cash <=> claim[k].reservation # "not_required")

RefundedIsDead ==
  \A k \in Keys : claim[k].reservation = "refunded" =>
    /\ claim[k].status = "failed"
    /\ box[k].status = "dead_letter"

WithinBudget == benefit.claimed <= Budget

\* A lucky red packet with a budget for the minimum of every unit never refuses
\* a unit in stock for lack of money, and the last unit takes what is left,
\* whatever was refunded in between.
LuckyNeverStarves ==
  (Cash /\ AmountType = "lucky") =>
    /\ Budget - benefit.claimed >= MinAmount * (benefit.total - benefit.used)
    /\ benefit.used = benefit.total => benefit.claimed = Budget

\* A refund is the end of a claim: the row is failed and dead, nothing about it
\* changes any more (no late record, no late callback pays it), and the consumer
\* sees it failed.
RefundIsFinal ==
  [][\A k \in Keys : claim[k].reservation = "refunded" =>
       claim'[k] = claim[k] /\ box'[k] = box[k] /\ delivery'[k] = delivery[k]]_vars

\* Once a success callback is settled the claim stays delivered and its money
\* settled, whatever worker still holds a lease or an answer on it.
SuccessReceiptIsFinal ==
  \A k \in Keys : "success" \in receipts[k] =>
    /\ box[k].status = "delivered" /\ claim[k].delivery = "success"
    /\ delivery[k].status = "success"
    /\ claim[k].reservation = (IF Cash THEN "settled" ELSE "not_required")

\* What the provider may have answered when an adapter reports a success.
Answerable == IF "success" \in AcceptedAnswers THEN {"accepted", "granted", "refused"}
              ELSE {"granted"}

\* Nothing is shown delivered that the provider was not asked for; and where an
\* accepted order is answered as pending only, nothing that it did not grant.
DeliveredWasOrdered ==
  \A k \in Keys : HasConnector /\ box[k].status = "delivered" => provider[k] \in Answerable

\* The only claims shown failed that keep the benefit's money are those a store
\* has used and those the provider took back after it had reported them.
FailedKeepsMoneyOnlyIf ==
  \A k \in Keys : ConsumerStatus(k) = "failed" /\ HoldsMoney(k) =>
    claim[k].status = "used" \/ "failed" \in receipts[k]

\* What that rests on: a claim and its outbox row die together, a claim is failed
\* only then, and settled money is of a delivered row until the provider takes it
\* back.  No status between success and the end of a claim is ever written.
FailuresAgree ==
  \A k \in Keys :
    /\ claim[k].status \notin {"claimed", "delivered"}
    /\ box[k].status = "dead_letter" <=> claim[k].delivery = "dead_letter"
    /\ claim[k].status = "failed" => box[k].status = "dead_letter"
    /\ claim[k].reservation = "settled" =>
         box[k].status = "delivered" \/ "failed" \in receipts[k]

\* What DeliveredWasOrdered rests on: an answer of success in a worker's hand, and
\* a success call on its way, are of orders the provider has answered for.
OrdersAgree ==
  /\ \A w \in Workers : job[w].phase = "answered" /\ job[w].answer = "success" =>
       provider[job[w].key] \in Answerable
  /\ \A k \in Keys : "success" \in calls[k] => provider[k] = "granted"

\* What a refund gives back is no less than any claim was due.
HeldIsDue == \A k \in Keys : HoldsMoney(k) => claim[k].amount >= MinAmount

IInv ==
  /\ TypeOK
  /\ RowsAgree /\ RefundedIsDead /\ SuccessReceiptIsFinal
  /\ WithinBudget /\ StockLedger
  /\ MoneyLedger /\ HeldIsDue
  /\ FailuresAgree /\ FailedKeepsMoneyOnlyIf
  /\ OrdersAgree /\ DeliveredWasOrdered

\* No claim takes a consumer past the limits in force when it is made, though
\* limits change and failed claims stop counting.
LimitsAtClaim ==
  [][\A c \in Consumers : Cardinality(Counted(c)') > Cardinality(Counted(c)) =>
       /\ Cardinality(Counted(c)') <= campaign.limit
       /\ Cardinality(Counted(c)') <= benefit.limit]_vars

\* The retry chain ends: every outbox row is leased a last time, however workers
\* crash, leases expire and callbacks put delivered rows back to pending.
RetriesEnd == \A k \in Keys : <>[]~Leasable(k)

\* What became of a claim's money, in the ledger's terms.
Account(k) ==
  [state |-> IF claim[k].status = "none" THEN "free"
             ELSE IF claim[k].reservation = "settled" THEN "paid"
             ELSE IF claim[k].reservation = "refunded" THEN "returned"
             ELSE "held",
   amount |-> claim[k].amount]

Ledger == INSTANCE ClaimLedger WITH
  Limit <- Budget,
  account <- [k \in Keys |-> Account(k)],
  committed <- benefit.claimed,
  sold <- benefit.used

\* The rows of this module implement the ledger: every unit and amount is taken
\* once, paid or given back once, and never again touched.
LedgerSpec == Ledger!Spec

\* PRD h5-consumer-journey-resilience 6.1: processing, then success or failed,
\* terminal and irreversible.
ConsumerStatusIsMonotone ==
  [][\A k \in Keys : k \in Claimed /\ ConsumerStatus(k) # "processing" =>
       ConsumerStatus(k)' = ConsumerStatus(k)]_vars

\* PRD 4.3: never "the consumer sees processing while the system stopped retrying":
\* a row shown as processing can be leased, now or when its lease expires, or is
\* in the hands of a worker.
InHandOf(w, k) == Holds(w, k) /\ (job[w].key = k \/ \E item \in batch[w] : item.key = k)

ProcessingIsRetried ==
  \A k \in Claimed : ConsumerStatus(k) = "processing" =>
    \/ Leasable(k)
    \/ box[k].attempt < MaxAttempts
    \/ \E w \in Workers : InHandOf(w, k)
=============================================================================

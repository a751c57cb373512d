---------------------------- MODULE MCCouponCalls ----------------------------
(* Instances of MemberCoupon, and one of the claims that issue coupons, in one   *)
(* run.  They share no state, so the run chooses one at the start:               *)
(*   "rivals"   two orders, members and wallet requests after the same coupons;  *)
(*   "retries"  one of each, whose every call may be repeated under a second key;*)
(*   "plain"    claims of a benefit without connector, two keys of one           *)
(*              consumer, a poll loop.                                        *)
EXTENDS MemberCoupon, TLC

CONSTANTS Keys, Consumer, Workers, NoWorker, NoKey   \* of "plain"

VARIABLES part,
  campaign, benefit, claim, box, delivery, receipts, provider, calls, batch, job
claimVars == <<campaign, benefit, claim, box, delivery, receipts, provider, calls, batch, job>>

Plain == INSTANCE ClaimDelivery WITH
  Consumers <- {Consumer}, ConsumerOf <- [k \in Keys |-> Consumer],
  MaxAttempts <- 2, BatchLimit <- 2, StockChoices <- {1, 2}, LimitChoices <- {1, 2},
  Cash <- FALSE, AmountType <- "fixed", MinAmount <- 2, MaxAmount <- 2, Budget <- 3,
  HasConnector <- FALSE, HasReconcile <- FALSE, ReportsOwnId <- FALSE,
  AcceptedAnswers <- {"success", "pending"}

LimitOne == [r \in Rules |-> 1]
OnlineOnly == [r \in Rules |-> "online"]
TwoDays == [r \in Rules |-> [mode |-> "relative", days |-> 2]]
Alike == Permutations(Coupons) \cup Permutations(Claims) \cup Permutations(Members)
         \cup Permutations(Orders) \cup Permutations(Readers)

AtMostOne(S) == \A x, y \in S : x = y

\* What an instance leaves out.  The ids are alike, so "one" is any one.
Within ==
  CASE part = "rivals" -> \A e \in events : e.try <= 1
    [] part = "retries" ->
         /\ now <= 2
         /\ AtMostOne({c \in Coupons : Exists(c)})
         /\ AtMostOne({coupons[c].membership_id : c \in {c \in Coupons : Exists(c)}})
         /\ AtMostOne({e.ref : e \in {e \in events : e.type \in {"reserved", "committed"}}})
         /\ AtMostOne({w \in Readers : open[w] # {}})
         /\ \A m \in Members : members[m] = "active"
    [] OTHER -> TRUE

MCInit == /\ Init /\ Plain!Init /\ part \in {"rivals", "retries", "plain"}
          /\ part # "plain" =>
               campaign.limit = 1 /\ benefit.limit = 1 /\ benefit.total = 1
MCNext ==
  \/ UNCHANGED <<part, claimVars>> /\ part # "plain" /\ Next /\ Within'
  \/ UNCHANGED <<part, vars>> /\ part = "plain" /\ Plain!Next
MCSpec == MCInit /\ [][MCNext]_<<vars, claimVars, part>>

\* The property of ClaimDelivery.
LimitsAtClaim == Plain!LimitsAtClaim
=============================================================================

---------------------------- MODULE MCMemberCoupon ----------------------------
(* Instances of MemberCoupon for TLC: every rule has the same terms, and each  *)
(* run chooses how many coupons, channels and moments they allow.              *)
EXTENDS MemberCoupon, TLC

LimitTwo == [r \in Rules |-> 2]
LimitOne == [r \in Rules |-> 1]
OnlineOnly == [r \in Rules |-> "online"]
BothChannels == [r \in Rules |-> "both"]
TwoDays == [r \in Rules |-> [mode |-> "relative", days |-> 2]]
FixedWindow == [r \in Rules |-> [mode |-> "fixed", from |-> 1, until |-> 2]]

Alike == Permutations(Coupons) \cup Permutations(Members)

\* Two instances in one run, without a choice at the start: two coupons, one member
\* and two claims, or one coupon that may be asked for again, and merged away.
OneCoupon == \A c, d \in Coupons : Exists(c) /\ Exists(d) => c = d
OneMember == /\ \A c, d \in Coupons : Exists(c) /\ Exists(d) =>
                  coupons[c].membership_id = coupons[d].membership_id
             /\ \A m \in Members : members[m] = "active"
Spare == CHOOSE cl \in ExternalClaims : TRUE
AssetNext == Next /\ (OneCoupon \/ (OneMember /\ \A e \in events : e.ref # Spare))'
AssetSpec == Init /\ [][AssetNext]_vars
=============================================================================

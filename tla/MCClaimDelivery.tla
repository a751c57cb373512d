--------------------------- MODULE MCClaimDelivery ---------------------------
(* Instances of ClaimDelivery for TLC: claims of one consumer, one poll loop  *)
(* or two.                                                                    *)
EXTENDS ClaimDelivery, TLC

CONSTANTS k1, k2, k3, c1, w1, w2

OneConsumer == [k \in Keys |-> c1]
ClaimsAlike == Permutations(Keys)

\* Several claims, with a campaign that is paused but not ended: an ended one takes
\* no claim either, and can be restarted by nobody.
MoneySpec == Init /\ [][Next /\ campaign'.status # "ended" /\ benefit'.status = "active"]_vars
=============================================================================

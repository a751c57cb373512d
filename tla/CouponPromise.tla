---------------------------- MODULE CouponPromise ----------------------------
(***************************************************************************)
(* What a coupon promises its member and the brand, with no keys, clocks,  *)
(* wallets or synchronisation: it is issued within the limit of its rule;  *)
(* it is free, or locked by one order; only the order that holds the lock  *)
(* turns it into a use; a use can only be taken back, never moved to       *)
(* another order; once over it stays over.  MemberCoupon implements it.    *)
(***************************************************************************)
EXTENDS Integers

CONSTANTS Coupons, Rules, Orders, Nil, IssuanceLimit

VARIABLES
  asset,   \* by coupon: where it is, and the order that locked or used it
  issued   \* by rule: how many were issued

In(s, o) == [state |-> s, order |-> o]

Init ==
  /\ asset = [c \in Coupons |-> In("absent", Nil)]
  /\ issued = [r \in Rules |-> 0]

Issue(c, r) ==
  /\ asset[c] = In("absent", Nil)
  /\ issued[r] < IssuanceLimit[r]
  /\ asset' = [asset EXCEPT ![c] = In("free", Nil)]
  /\ issued' = [issued EXCEPT ![r] = @ + 1]

Becomes(c, old, new) ==
  /\ asset[c] = old
  /\ asset' = [asset EXCEPT ![c] = new]
  /\ UNCHANGED issued

Lock(c, o) == Becomes(c, In("free", Nil), In("locked", o))
Spend(c, o) == Becomes(c, In("locked", o), In("spent", o))
Unlock(c, o) == Becomes(c, In("locked", o), In("free", Nil))
SpendElsewhere(c) == Becomes(c, In("free", Nil), In("spent", Nil))
TakeBack(c, o) == Becomes(c, In("spent", o), In("free", Nil))

\* Coupons run out or are revoked, several at a time; a refund may come too late.
End(S) ==
  /\ \A c \in S : asset[c].state \in {"free", "locked", "spent"}
  /\ asset' = [c \in Coupons |-> IF c \in S THEN In("over", Nil) ELSE asset[c]]
  /\ UNCHANGED issued

Next ==
  \/ \E c \in Coupons, r \in Rules : Issue(c, r)
  \/ \E c \in Coupons, o \in Orders : Lock(c, o) \/ Spend(c, o) \/ Unlock(c, o)
  \/ \E c \in Coupons, o \in Orders \cup {Nil} : TakeBack(c, o)
  \/ \E c \in Coupons : SpendElsewhere(c)
  \/ \E S \in SUBSET Coupons : End(S)

Spec == Init /\ [][Next]_<<asset, issued>>
=============================================================================

----------------------------- MODULE ClaimLedger -----------------------------
(***************************************************************************)
(* What the claim authority promises about a benefit's stock and money,    *)
(* with no workers, leases, providers or callbacks: every claim takes one  *)
(* unit and its amount, once; the amount is then paid or given back, once, *)
(* and neither is ever undone.  ClaimDelivery implements it.               *)
(***************************************************************************)
EXTENDS Integers

CONSTANTS Keys, Limit

VARIABLES
  account,    \* by claim: what became of its money
  committed,  \* money held by claims or paid
  sold        \* units of stock taken and not given back

Free == [state |-> "free", amount |-> 0]

Init ==
  /\ account = [k \in Keys |-> Free]
  /\ committed = 0
  /\ sold = 0

\* The amount is whatever the claim is given.
Take(k) ==
  LET amount == account'[k].amount
  IN /\ account[k] = Free
     /\ account' = [account EXCEPT ![k] = [state |-> "held", amount |-> amount]]
     /\ committed + amount <= Limit
     /\ committed' = committed + amount
     /\ sold' = sold + 1

Pay(k) ==
  /\ account[k].state = "held"
  /\ account' = [account EXCEPT ![k].state = "paid"]
  /\ UNCHANGED <<committed, sold>>

GiveBack(k) ==
  /\ account[k].state = "held"
  /\ account' = [account EXCEPT ![k].state = "returned"]
  /\ committed' = committed - account[k].amount
  /\ sold' = sold - 1

Next == \E k \in Keys : Take(k) \/ Pay(k) \/ GiveBack(k)

Spec == Init /\ [][Next]_<<account, committed, sold>>
=============================================================================

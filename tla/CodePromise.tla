------------------------------ MODULE CodePromise ------------------------------
(***************************************************************************)
(* What the packaging codes of a tenant promise, with no requests, locks,  *)
(* printers or batch states: under a key codes are made once, all those of *)
(* a batch or none, within the quota; they go live together; a code that   *)
(* was bound is bound when it is recovered, however often it was frozen; a *)
(* recall silences every live code of its production batch at once, and    *)
(* none of them comes back.  CodeLifecycle implements it.                  *)
(***************************************************************************)
EXTENDS Integers, FiniteSets

CONSTANTS Productions, Batches, Items, Keys, Nil, Source, ItemsOf, MaxCodes

VARIABLES
  codes,     \* by code: where it is, and whether it is bound
  receipts,  \* by idempotency key: the batch it made
  recalled,  \* production batches
  expired    \* whether they are past their date

Code(state, bound) == [state |-> state, bound |-> bound]
None == Code("none", FALSE)
Made == {i \in Items : codes[i] # None}
Live == {i \in Items : codes[i].state = "live"}
Standing == {i \in Items : codes[i].state \notin {"none", "void"}}
Open(b) == Source[b] \notin recalled /\ ~expired
Of(p) == UNION {ItemsOf[b] : b \in {c \in Batches : Source[c] = p}}

Become(S, code) == codes' = [i \in Items |-> IF i \in S THEN code ELSE codes[i]]
Move(S, state) ==
  codes' = [i \in Items |-> IF i \in S THEN Code(state, codes[i].bound) ELSE codes[i]]

Init ==
  /\ codes = [i \in Items |-> None]
  /\ receipts = [k \in Keys |-> Nil]
  /\ recalled = {} /\ expired = FALSE

Make(k, b) ==
  /\ receipts[k] = Nil /\ receipts' = [receipts EXCEPT ![k] = b]
  /\ Open(b) /\ \A i \in ItemsOf[b] : codes[i] = None
  /\ Cardinality(Made) + Cardinality(ItemsOf[b]) <= MaxCodes
  /\ Become(ItemsOf[b], Code("made", FALSE))
  /\ UNCHANGED <<recalled, expired>>

GoLive(b) ==
  /\ Open(b) /\ \A i \in ItemsOf[b] : codes[i] = Code("made", FALSE)
  /\ Move(ItemsOf[b], "live")
  /\ UNCHANGED <<receipts, recalled, expired>>

Bind(b, i) ==
  /\ i \in ItemsOf[b] /\ Open(b) /\ codes[i] = Code("live", FALSE)
  /\ Become({i}, Code("live", TRUE))
  /\ UNCHANGED <<receipts, recalled, expired>>

Freeze(S) ==
  /\ Move(S, "frozen")
  /\ UNCHANGED <<receipts, recalled, expired>>

Thaw(b, i) ==
  /\ i \in ItemsOf[b] /\ Open(b) /\ codes[i].state = "frozen"
  /\ Move({i}, "live")
  /\ UNCHANGED <<receipts, recalled, expired>>

Void(S) ==
  /\ Become(S, Code("void", FALSE))
  /\ UNCHANGED <<receipts, recalled, expired>>

Recall(p) ==
  /\ p \notin recalled /\ ~expired
  /\ recalled' = recalled \cup {p}
  /\ Move(Live \cap Of(p), "frozen")
  /\ UNCHANGED <<receipts, expired>>

Expire == ~expired /\ expired' = TRUE /\ UNCHANGED <<codes, receipts, recalled>>

Next ==
  \/ \E S \in SUBSET Live : Freeze(S)
  \/ \E S \in SUBSET Standing : Void(S)
  \/ \E b \in Batches, i \in Items : Bind(b, i) \/ Thaw(b, i)
  \/ \E b \in Batches : GoLive(b)
  \/ \E k \in Keys, b \in Batches : Make(k, b)
  \/ \E p \in Productions : Recall(p)
  \/ Expire

Spec == Init /\ [][Next]_<<codes, receipts, recalled, expired>>
=============================================================================

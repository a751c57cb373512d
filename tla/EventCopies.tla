------------------------------ MODULE EventCopies ------------------------------
(***************************************************************************)
(* What the outbox promises the endpoints of a tenant, with no expanders,  *)
(* workers, leases or configurations: an event is turned into copies once, *)
(* all together; nobody who heard it and stayed as it was is left out;     *)
(* each copy is retried a bounded number of times and settled once.        *)
(* WebhookOutbox implements it.                                            *)
(***************************************************************************)
EXTENDS Integers

CONSTANTS Endpoints, Events, MAX_RETRIES

VARIABLES
  progress,  \* by event: "none", "recorded", "expanded"
  owed,      \* by event: the endpoints that must get a copy
  copies     \* by event and endpoint: where the copy is, and its retries

In(state, retries) == [state |-> state, retries |-> retries]

Init ==
  /\ progress = [v \in Events |-> "none"]
  /\ owed = [v \in Events |-> {}]
  /\ copies = [v \in Events |-> [e \in Endpoints |-> In("absent", 0)]]

Tell(v, S) ==
  /\ progress[v] = "none"
  /\ progress' = [progress EXCEPT ![v] = "recorded"]
  /\ owed' = [owed EXCEPT ![v] = S]
  /\ UNCHANGED copies

\* The endpoint is changed or deleted: it is owed nothing of what it heard before.
Touch(e) ==
  /\ owed' = [v \in Events |-> owed[v] \ {e}]
  /\ UNCHANGED <<progress, copies>>

Expand(v, S) ==
  /\ progress[v] = "recorded" /\ owed[v] \subseteq S
  /\ progress' = [progress EXCEPT ![v] = "expanded"]
  /\ owed' = [owed EXCEPT ![v] = {}]
  /\ copies' = [copies EXCEPT ![v] =
       [e \in Endpoints |-> In(IF e \in S THEN "open" ELSE "absent", 0)]]

Becomes(v, e, old, new) ==
  /\ copies[v][e] = old
  /\ copies' = [copies EXCEPT ![v][e] = new]
  /\ UNCHANGED <<progress, owed>>

Retry(v, e, n) == n < MAX_RETRIES /\ Becomes(v, e, In("open", n), In("open", n + 1))
Settle(v, e, n) == \E s \in {"delivered", "failed"} : Becomes(v, e, In("open", n), In(s, n))
Archive(v, e, n) ==
  \E s \in {"delivered", "failed"} : Becomes(v, e, In(s, n), In("archived", n))

Next ==
  \/ \E v \in Events, S \in SUBSET Endpoints : Tell(v, S) \/ Expand(v, S)
  \/ \E e \in Endpoints : Touch(e)
  \/ \E v \in Events, e \in Endpoints, n \in 0..MAX_RETRIES :
       Retry(v, e, n) \/ Settle(v, e, n) \/ Archive(v, e, n)

Spec == Init /\ [][Next]_<<progress, owed, copies>>
=============================================================================

----------------------------- MODULE MessagePromise -----------------------------
(***************************************************************************)
(* What messages to members promise, with no preferences, consents, leases *)
(* or workers: a message is paid for, when it is made, with an             *)
(* authorisation of its member and purpose that nothing else spends; it is *)
(* tried a bounded number of times and ends once; a withdrawal takes every *)
(* unspent marketing authorisation of the members it is about, and what it *)
(* stops stays stopped.  MemberNotification implements it.                 *)
(***************************************************************************)
EXTENDS Integers

CONSTANTS Members, Grants, Marketing, Service, MaxAttempts

VARIABLES
  messages,  \* by source: how the message stands, how often it was tried, whose it is
  grants     \* by authorisation: unspent or not, whose it is and what for

Sources == Marketing \cup Service
None == [state |-> "none"]
In(state, tries, m) == [state |-> state, tries |-> tries, member |-> m]
Grant(status, m, purpose) == [status |-> status, member |-> m, purpose |-> purpose]
For(s) == IF s \in Marketing THEN "marketing" ELSE "service"
OpenTo(M) == {s \in Marketing : messages[s].state = "open" /\ messages[s].member \in M}
Unspent(g) == grants[g].status = "available" /\ grants[g].purpose = "marketing"

Init ==
  /\ messages = [s \in Sources |-> None]
  /\ grants = [g \in Grants |-> [status |-> "none"]]

Give(g, m, purpose) ==
  /\ grants[g].status = "none"
  /\ grants' = [grants EXCEPT ![g] = Grant("available", m, purpose)]
  /\ UNCHANGED messages

Pay(s, m, g) ==
  /\ messages[s] = None /\ grants[g] = Grant("available", m, For(s))
  /\ messages' = [messages EXCEPT ![s] = In("open", 0, m)]
  /\ grants' = [grants EXCEPT ![g] = Grant("consumed", m, For(s))]

Refuse(s, m) ==
  /\ messages[s] = None
  /\ \E state \in {"suppressed", "authorization_missing"} :
       messages' = [messages EXCEPT ![s] = In(state, 0, m)]
  /\ UNCHANGED grants

Stop(S) == [s \in Sources |->
  IF s \in S THEN In("suppressed", messages[s].tries, messages[s].member) ELSE messages[s]]

\* M have withdrawn; T of theirs is stopped with it.
Withdraw(M, T) ==
  /\ T \subseteq OpenTo(M)
  /\ messages' = Stop(T)
  /\ grants' = [g \in Grants |->
       IF Unspent(g) /\ grants[g].member \in M
       THEN Grant("revoked", grants[g].member, "marketing") ELSE grants[g]]

\* A worker finds that its member has withdrawn.
Drop(s) == s \in OpenTo(Members) /\ messages' = Stop({s}) /\ UNCHANGED grants

\* Everything of m becomes n's; T, of either, is stopped.
Merge(m, n, T) ==
  /\ m # n /\ T \subseteq OpenTo({m, n})
  /\ messages' = [s \in Sources |->
       IF messages[s] # None /\ messages[s].member = m
       THEN In(Stop(T)[s].state, messages[s].tries, n) ELSE Stop(T)[s]]
  /\ grants' = [g \in Grants |->
       IF grants[g].status # "none" /\ grants[g].member = m
       THEN Grant(grants[g].status, n, grants[g].purpose) ELSE grants[g]]

Try(s, m, n, state) ==
  /\ messages[s] = In("open", n, m) /\ n < MaxAttempts
  /\ state = "open" => n + 1 < MaxAttempts
  /\ messages' = [messages EXCEPT ![s] = In(state, n + 1, m)]
  /\ UNCHANGED grants

Next ==
  \/ \E g \in Grants, m \in Members, purpose \in {"marketing", "service"} : Give(g, m, purpose)
  \/ \E s \in Sources, m \in Members : Refuse(s, m) \/ \E g \in Grants : Pay(s, m, g)
  \/ \E M \in SUBSET Members, T \in SUBSET Marketing : Withdraw(M, T)
  \/ \E s \in Marketing : Drop(s)
  \/ \E m, n \in Members, T \in SUBSET Marketing : Merge(m, n, T)
  \/ \E s \in Sources, m \in Members, n \in 0..MaxAttempts,
        state \in {"open", "accepted", "exhausted"} : Try(s, m, n, state)

Spec == Init /\ [][Next]_<<messages, grants>>
=============================================================================

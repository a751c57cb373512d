----------------------------- MODULE CommerceFeed -----------------------------
(***************************************************************************)
(* What the feed of a platform's orders promises, with no sessions, clocks, *)
(* members or refunds: one connection is open at a time, and what was      *)
(* closed stays closed; a message is taken once, under a key that is still *)
(* good; each order shows the newest of its messages, whatever the order   *)
(* they come in; a coupon is shown by one order.  CommerceOrder implements *)
(* it.                                                                     *)
(***************************************************************************)
EXTENDS Integers

CONSTANTS Connections, Orders, Events, Event, Nil

VARIABLES
  state,     \* by connection: "none", "active", "disconnected"
  versions,  \* by connection: how many keys it was ever given
  keys,      \* by connection: those of them that are good
  told,      \* by connection: the messages taken, each with its key
  shown      \* by connection and order: the message the order shows, or Nil

Same(e, f) == Event[e].id = Event[f].id /\ Event[e].version = Event[f].version
After(e, f) ==
  \/ Event[e].at > Event[f].at
  \/ Event[e].at = Event[f].at /\ Event[e].version > Event[f].version

Init ==
  /\ state = [c \in Connections |-> "none"]
  /\ versions = [c \in Connections |-> 0]
  /\ keys = [c \in Connections |-> {}]
  /\ told = [c \in Connections |-> {}]
  /\ shown = [c \in Connections |-> [o \in Orders |-> Nil]]

Gives(c, more) ==
  /\ versions' = [versions EXCEPT ![c] = @ + 1]
  /\ keys' = [keys EXCEPT ![c] = more]
  /\ UNCHANGED <<told, shown>>

Open(c) ==
  /\ state[c] = "none" /\ \A d \in Connections : state[d] # "active"
  /\ state' = [state EXCEPT ![c] = "active"]
  /\ Gives(c, {versions[c] + 1})
Rotate(c) ==
  /\ state[c] = "active" /\ UNCHANGED state
  /\ Gives(c, keys[c] \cup {versions[c] + 1})
Revoke(c, v) ==
  /\ state[c] = "active" /\ v \in keys[c]
  /\ keys' = [keys EXCEPT ![c] = @ \ {v}]
  /\ UNCHANGED <<state, versions, told, shown>>
Close(c) ==
  /\ state[c] = "active"
  /\ state' = [state EXCEPT ![c] = "disconnected"]
  /\ keys' = [keys EXCEPT ![c] = {}]
  /\ UNCHANGED <<versions, told, shown>>

Free(k, c, o) ==
  k = Nil \/ \A d \in Connections, p \in Orders :
               <<d, p>> # <<c, o>> /\ shown[d][p] # Nil => Event[shown[d][p]].coupon # k

Take(c, v, e) ==
  LET o == Event[e].order IN
  /\ state[c] = "active" /\ v \in keys[c]
  /\ \A i \in told[c] : ~Same(i.event, e)
  /\ told' = [told EXCEPT ![c] = @ \cup {[event |-> e, version |-> v]}]
  /\ IF \A i \in told[c] : Event[i.event].order = o => After(e, i.event)
     THEN /\ Free(Event[e].coupon, c, o)
          /\ shown' = [shown EXCEPT ![c][o] = e]
     ELSE UNCHANGED shown
  /\ UNCHANGED <<state, versions, keys>>

feedVars == <<state, versions, keys, told, shown>>

\* Most of what happens to members and their handoffs shows nowhere here.
Next ==
  \/ UNCHANGED feedVars
  \/ \E c \in Connections :
       \/ Open(c) \/ Rotate(c) \/ Close(c)
       \/ \E v \in keys[c] : Revoke(c, v) \/ \E e \in Events : Take(c, v, e)

Spec == Init /\ [][Next]_feedVars
=============================================================================

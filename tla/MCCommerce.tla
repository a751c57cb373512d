------------------------------- MODULE MCCommerce -------------------------------
(* What the platform's orders, members and codes leave in the database: four     *)
(* components that share no state, in one run.  The run chooses an instance of   *)
(* one of them at the start; the others keep their initial values.               *)
(*   "feed"     order events of two orders, late, again and together;            *)
(*   "gate"     one event against rotation, revocation and disconnection;        *)
(*   "handoff"  references, handoffs and an order of members who merge;          *)
(*   "ration"   three campaigns to one member over three days;                   *)
(*   "people"   two members who merge, marketing and service messages;           *)
(*   "codes"    generation, printing and the life of three codes;                *)
(*   "routes"   takeover by redirect: two routes, one edit at a time;            *)
(*   "editors"  takeover by redirect: one route, two edits at a time;            *)
(*   "rivals"   two takeovers, one by redirect and one by CNAME, of one domain.  *)
EXTENDS CommerceOrder, TLC

CONSTANTS
  Consents, Grants, Workers, Marketing, Service, NoChannel,   \* of the notifications
  Week, MaxDay, MaxAttempts,
  Productions, Batches, Items, Keys, Generations, MaxCodes,   \* of the codes
  Takeovers, Routes, Domains, Calls                           \* of the takeovers

VARIABLES part,
  day, consents, preferences, grants, notes, checked, workers, merged, faults,
  today, recalled, batches, items, usage, receipts, generations,
  projects, known, routes, claims, last, proved, probing, calls

noteVars == <<day, consents, preferences, grants, notes, checked, workers, merged, faults>>
codeVars == <<today, recalled, batches, items, usage, receipts, generations>>
takeVars == <<projects, known, routes, claims, last, proved, probing, calls>>

Note == INSTANCE MemberNotification WITH
  deliveries <- notes, DailyMax <- 1, WeeklyMax <- 2, MaxFaults <- 0
Code == INSTANCE CodeLifecycle WITH
  requests <- generations, Requests <- Generations, MaxDay <- 1,
  Source <- [b \in Batches |-> IF b = "b1" THEN "p1" ELSE "p2"],
  ItemsOf <- [b \in Batches |-> IF b = "b1" THEN {"i1", "i2"} ELSE {"i3"}],
  PairId <- [i \in Items |-> IF i = "i3" THEN Nil ELSE "pair"]

RouteOwner == [r \in Routes |-> IF r = "r3" THEN "cname" ELSE "legacy"]
SameDomain == [p \in Takeovers |-> CHOOSE d \in Domains : TRUE]
Modes == [p \in Takeovers |-> IF p = "cname" THEN "cname" ELSE "legacy_redirect"]
Take == INSTANCE TakeoverRouting WITH
  Projects <- Takeovers, ProjectOf <- RouteOwner, DomainOf <- SameDomain, Mode <- Modes,
  facts <- known, MaxVersion <- 2, MaxImports <- 1, MaxEvents <- 8
ASSUME TakeoverAssumption == Take!Sound
-----------------------------------------------------------------------------
(* The events: an order paid with a coupon, then refunded in two steps, the   *)
(* second told as a correction of the first; another order with that coupon; *)
(* one without; and one of nobody's.                                          *)
Paid == [id |-> "a", version |-> 1, at |-> 1, order |-> "o1", ref |-> "r1",
         coupon |-> "k1", coupon_order |-> Nil, original |-> 3, refunds |-> <<>>,
         sold |-> TRUE, products |-> {"p1"}, complete |-> TRUE]
FeedEvent ==
  [paid |-> Paid,
   refund |-> [Paid EXCEPT !.id = "b", !.at = 2, !.refunds = [f1 |-> 1]],
   corrected |-> [Paid EXCEPT !.id = "b", !.version = 2, !.at = 2,
                              !.refunds = [f1 |-> 1, f2 |-> 2]],
   again |-> [Paid EXCEPT !.id = "c", !.order = "o2", !.coupon_order = "o2"],
   plain |-> [Paid EXCEPT !.id = "e", !.order = "o2", !.coupon = Nil],
   bare |-> [Paid EXCEPT !.id = "d", !.order = "o2", !.ref = Nil, !.coupon = Nil]]
FeedEvents == DOMAIN FeedEvent

OneOf(S) == CHOOSE x \in S : TRUE
Others(S) == S \ {OneOf(S)}
\* Campaigns and grants are numbers, and alike: they are used in their order.
InOrder(S) == \A n \in S : n > 1 => n - 1 \in S
Nobody == /\ \A c \in Connections : judged[c] = {} /\ \A r \in Refs : references[c][r] = Nil
          /\ \A k \in Coupons : used[k].member = Nil
NoHandoff == \A h \in Handoffs : handoffs[h].status = "none"
OneConnection == \A c \in Others(Connections) : connections[c] = "none"
StaysOpen(c) == connections[c] # "disconnected"
                /\ \A v \in DOMAIN credentials[c] : ~credentials[c][v].revoked
NoCall(c) == calls[c] = Take!Idle
OneEdit == \A c \in Others(Calls) : NoCall(c)
OneProject == /\ projects["cname"] = Take!Blank /\ known["cname"] = Take!Unknown
              /\ \A c \in Calls : NoCall(c) \/ calls[c].project = "legacy"
OneRoute == routes["r2"].event = 0 /\ \A c \in Calls : NoCall(c) \/ calls[c].route # "r2"
Within ==
  CASE part = "feed" -> /\ now = 0 /\ OneConnection /\ NoHandoff
                        /\ \A c \in Connections : judged[c] \subseteq {OneOf(Members)}   \* alike
                        /\ \A c \in Connections : Len(credentials[c]) <= 1 /\ StaysOpen(c)
                        /\ \A q \in Requests : requests[q].pc = "idle" \/ requests[q].event \notin {"plain", "bare"}
    [] part = "gate" -> /\ Nobody /\ \A m \in Members : members[m] = "active"
                        /\ \A c \in Connections : mapped[c] = {}
                        /\ \A q \in Requests : requests[q].pc = "idle" \/ requests[q].event = "bare"
                        /\ \A q \in Others(Requests) : requests[q].pc = "idle"
    [] part = "handoff" -> /\ OneConnection /\ \A c \in Connections : mapped[c] = {}
                           /\ \A c \in Connections : Len(credentials[c]) <= 1
                           /\ \A q \in Requests : requests[q].pc = "idle" \/ requests[q].event = "plain"
                           /\ \A q \in Others(Requests) : requests[q].pc = "idle"
    [] part = "ration" -> /\ \A n \in Note!Sources : notes[n].status # "delivering"
                          /\ \A m \in Members : preferences[m].service
                          /\ \A g \in Grants : grants[g].status # "none" => grants[g].purpose = "marketing"
                          /\ \A n \in Service : ~Note!Has(n)
                          /\ \A m \in Others(Members) : preferences[m] = Note!NoPreference
                          /\ InOrder({n \in Marketing : Note!Has(n)})
                          /\ InOrder({g \in Grants : grants[g].status # "none"})
    [] part = "people" -> /\ day = 0 /\ \A n \in Others(Marketing) : ~Note!Has(n)
                          /\ \A m \in Others(Members) : preferences[m].service
                          /\ \/ \A m \in Members : preferences[m].service
                             \/ \A n \in Marketing : ~Note!Has(n)
                          /\ \A n \in Service : notes[n].status # "delivering"
                          /\ \A n \in Marketing : notes[n].status = "pending" => notes[n].due
                          /\ \A g \in Grants : grants[g].status # "none" =>
                               g = IF grants[g].purpose = "service" THEN 2 ELSE 1
    [] part = "routes" -> /\ OneEdit /\ OneProject /\ projects["legacy"].version = 1
                          /\ routes["r1"].event = 0 => routes["r2"].event = 0   \* alike
    [] part = "editors" -> /\ OneProject /\ OneRoute /\ last["legacy"] <= 3
                           /\ \A c \in Calls : calls[c].kind # IF c = OneOf(Calls) THEN "confirm" ELSE "assess"
    [] part = "rivals" -> /\ OneEdit /\ OneRoute
                          /\ \A p \in Takeovers : last[p] <= 3 /\ projects[p].version = 1
    [] OTHER -> TRUE

MCInit == /\ Init /\ Note!Init /\ Code!Init /\ Take!Init
          /\ part \in {"feed", "gate", "handoff", "ration", "people", "codes",
                      "routes", "editors", "rivals"}
MCNext ==
  /\ UNCHANGED part
  /\ \/ /\ part \in {"feed", "gate", "handoff"}
        /\ UNCHANGED <<noteVars, codeVars, takeVars>> /\ Next
     \/ /\ part \in {"ration", "people"}
        /\ UNCHANGED <<vars, codeVars, takeVars>> /\ Note!Next
     \/ /\ part = "codes"
        /\ UNCHANGED <<vars, noteVars, takeVars>> /\ Code!Next
     \/ /\ part \in {"routes", "editors", "rivals"}
        /\ UNCHANGED <<vars, noteVars, codeVars>> /\ Take!Next
  /\ Within'
MCSpec == MCInit /\ [][MCNext]_<<part, vars, noteVars, codeVars, takeVars>>
-----------------------------------------------------------------------------
(* The properties of MemberNotification, CodeLifecycle and TakeoverRouting.   *)
Ration == Note!Ration
GrantsPayOnce == Note!GrantsPayOnce
HistoryIsKept == Code!HistoryIsKept
GeneratedOnce == Code!GeneratedOnce
LiveRouteIsClaimed == Take!LiveRouteIsClaimed
DarkIsExplained == Take!DarkIsExplained
HandoverSpec == Take!HandoverSpec
CodeSpec == Code!CodeSpec
=============================================================================

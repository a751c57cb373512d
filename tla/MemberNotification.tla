--------------------------- MODULE MemberNotification ---------------------------
(***************************************************************************)
(* Messages to members over WeChat.  A notification of a paid order, of a  *)
(* coupon, or of a campaign gives one delivery; a delivery spends one      *)
(* authorisation of the member (a channel grant).  Marketing also needs    *)
(* the member's preference and a consent that stands, and is rationed by   *)
(* day and by week.  Workers lease a delivery, read it, send it outside    *)
(* any transaction and record the answer, each in a session of its own.    *)
(*                                                                         *)
(* Times are left out but for the day a delivery was made on: a delivery   *)
(* comes due, and a lease runs out, by a step of its own.                  *)
(***************************************************************************)
EXTENDS Integers, FiniteSets

CONSTANTS
  Members, Consents, Grants, Workers, Nil,
  Marketing,     \* source events of campaigns: each makes one notification
  Service,       \* source events of orders and coupons
  NoChannel,     \* those of them that are only shown, never sent
  DailyMax, WeeklyMax, Week,
  MaxAttempts,   \* 3
  MaxFaults,     \* bounds the workers lost or slower than their lease
  MaxDay

VARIABLES
  day,          \* the date in Shanghai
  consents,     \* by consent: its status
  preferences,  \* by member: whether there is a row; marketing, its consent, service
  grants,       \* by grant: its row
  deliveries,   \* by source: the notification and its delivery
  checked,      \* by member: the transaction that holds its preference row
  workers,      \* by worker: where it is
  merged,       \* memberships merged, and into which
  faults

vars == <<day, consents, preferences, grants, deliveries, checked, workers, merged, faults>>
-----------------------------------------------------------------------------
OrNil(S) == S \cup {Nil}
Sources == Marketing \cup Service
Open == {"pending", "failed", "delivering"}
Counted == {"pending", "delivering", "accepted", "failed", "exhausted"}
Absent == [status |-> "absent"]
Idle == [pc |-> "idle"]
NoPreference == [row |-> FALSE, marketing |-> FALSE, consent |-> Nil, service |-> TRUE]

Init ==
  /\ day = 0
  /\ consents = [k \in Consents |-> "none"]
  /\ preferences = [m \in Members |-> NoPreference]
  /\ grants = [g \in Grants |-> [status |-> "none"]]
  /\ deliveries = [s \in Sources |-> Absent]
  /\ checked = [m \in Members |-> Idle]
  /\ workers = [w \in Workers |-> Idle]
  /\ merged = [m \in Members |-> Nil]
  /\ faults = 0

Active(m) == merged[m] = Nil
Stands(k) == k # Nil /\ consents[k] = "granted"
MayMarket(m) == preferences[m].marketing /\ Stands(preferences[m].consent)
Has(s) == deliveries[s] # Absent
MarketingOf(m) == {s \in Marketing : Has(s) /\ deliveries[s].member = m}
Stopped(row) == [row EXCEPT !.status = "suppressed", !.due = FALSE, !.token = Nil]
Suppress(S) == [s \in Sources |->
  IF s \in S /\ deliveries[s].status \in Open THEN Stopped(deliveries[s]) ELSE deliveries[s]]
RevokeGrants(m) == [g \in Grants |->
  IF grants[g].status = "available" /\ grants[g].member = m /\ grants[g].purpose = "marketing"
  THEN [grants[g] EXCEPT !.status = "revoked"] ELSE grants[g]]
Given(g, m, purpose) ==   \* ON CONFLICT(tenant_id,authorization_ref) DO NOTHING
  IF grants[g].status # "none" THEN grants
  ELSE [grants EXCEPT ![g] = [status |-> "available", member |-> m, purpose |-> purpose]]
-----------------------------------------------------------------------------
(* Consents and preferences                                                *)

GiveConsent(k) ==
  /\ consents[k] = "none"
  /\ consents' = [consents EXCEPT ![k] = "granted"]
  /\ UNCHANGED <<day, preferences, grants, deliveries, checked, workers, merged, faults>>

\* The trigger on consent_records: whoever's preference rests on this consent.
WithdrawConsent(k) ==
  LET M == {m \in Members : preferences[m].consent = k} IN
  /\ consents[k] = "granted"
  /\ consents' = [consents EXCEPT ![k] = "withdrawn"]
  /\ grants' = [g \in Grants |->
       IF \E m \in M : RevokeGrants(m)[g] # grants[g]
       THEN [grants[g] EXCEPT !.status = "revoked"] ELSE grants[g]]
  /\ deliveries' = Suppress(UNION {MarketingOf(m) : m \in M})
  /\ UNCHANGED <<day, preferences, checked, workers, merged, faults>>

\* Locks the preference row, then looks at the consent, which is not locked.
BeginSubscribe(m, k) ==
  /\ Active(m) /\ checked[m] = Idle /\ Stands(k)
  /\ checked' = [checked EXCEPT ![m] = [pc |-> "subscribe", consent |-> k]]
  /\ UNCHANGED <<day, consents, preferences, grants, deliveries, workers, merged, faults>>

Subscribe(m, g) ==
  /\ checked[m].pc = "subscribe"
  /\ preferences' = [preferences EXCEPT ![m].row = TRUE, ![m].marketing = TRUE,
                                        ![m].consent = checked[m].consent]
  /\ grants' = Given(g, m, "marketing")
  /\ checked' = [checked EXCEPT ![m] = Idle]
  /\ UNCHANGED <<day, consents, deliveries, workers, merged, faults>>

Unsubscribe(m) ==
  /\ Active(m) /\ checked[m] = Idle
  /\ preferences' = [preferences EXCEPT ![m].row = TRUE, ![m].marketing = FALSE]
  /\ grants' = RevokeGrants(m)
  /\ deliveries' = LET open == {s \in MarketingOf(m) : deliveries[s].status # "delivering"}
                   IN Suppress(IF preferences[m].marketing THEN MarketingOf(m) ELSE open)
  /\ UNCHANGED <<day, consents, checked, workers, merged, faults>>

SetService(m, on) ==
  /\ Active(m) /\ checked[m] = Idle /\ preferences[m].service # on
  /\ preferences' = [preferences EXCEPT ![m].row = TRUE, ![m].service = on]
  /\ UNCHANGED <<day, consents, grants, deliveries, checked, workers, merged, faults>>

GrantService(m, g) ==
  /\ Active(m) /\ checked[m] = Idle /\ grants[g].status = "none"
  /\ grants' = Given(g, m, "service")
  /\ preferences' = [preferences EXCEPT ![m].row = TRUE]
  /\ UNCHANGED <<day, consents, deliveries, checked, workers, merged, faults>>

\* merge_brand_memberships_authority: everything of s becomes t's.  Marketing stays
\* on only if both had it; the trigger fires when that turns t's off.
Joined(p, q) ==
  IF p.row /\ q.row THEN [q EXCEPT !.marketing = @ /\ p.marketing, !.service = @ /\ p.service]
  ELSE IF p.row THEN p ELSE q

Merge(s, t) ==
  LET both == preferences[s].row /\ preferences[t].row
      off == both /\ preferences[t].marketing /\ ~preferences[s].marketing
      moved == [d \in Sources |-> IF Has(d) /\ deliveries[d].member = s
                                  THEN [deliveries[d] EXCEPT !.member = t] ELSE deliveries[d]]
  IN
  /\ s # t /\ Active(s) /\ Active(t) /\ checked[s] = Idle /\ checked[t] = Idle
  /\ merged' = [merged EXCEPT ![s] = t]
  /\ grants' = [g \in Grants |-> IF grants[g].status # "none" /\ grants[g].member = s
                                 THEN [grants[g] EXCEPT !.member = t] ELSE grants[g]]
  /\ preferences' = [preferences EXCEPT ![t] = Joined(preferences[s], @), ![s] = NoPreference]
  /\ deliveries' = [d \in Sources |->
       IF off /\ d \in Marketing /\ moved[d].status \in Open /\ moved[d].member = t
       THEN Stopped(moved[d]) ELSE moved[d]]
  /\ UNCHANGED <<day, consents, checked, workers, faults>>
-----------------------------------------------------------------------------
(* Notifications                                                           *)

UsableForAny(m, purpose) == {g \in Grants : grants[g].status = "available" /\ grants[g].member = m}
Usable(m, purpose) == {g \in Grants : /\ grants[g].status = "available"
                                      /\ grants[g].member = m /\ grants[g].purpose = purpose}
Row(m, status, g, due) ==
  [status |-> status, member |-> m, grant |-> g, due |-> due, attempts |-> 0,
   token |-> Nil, expired |-> FALSE, day |-> day]

\* The delivery of a new notification: it spends a grant, if there is one.
Made(s, m, purpose, refused, due) ==
  \/ /\ refused
     /\ deliveries' = [deliveries EXCEPT ![s] = Row(m, "suppressed", Nil, FALSE)]
     /\ UNCHANGED grants
  \/ /\ ~refused /\ Usable(m, purpose) = {}
     /\ deliveries' = [deliveries EXCEPT ![s] = Row(m, "authorization_missing", Nil, FALSE)]
     /\ UNCHANGED grants
  \/ \E g \in Usable(m, purpose) :
     /\ ~refused
     /\ deliveries' = [deliveries EXCEPT ![s] = Row(m, "pending", g, due)]
     /\ grants' = [grants EXCEPT ![g].status = "consumed"]

\* record_commerce_member_notification_authority, record_coupon_member_notification_authority
Notify(s, m) ==
  /\ ~Has(s) /\ Active(m)
  /\ Made(s, m, "service", ~preferences[m].service \/ s \in NoChannel, TRUE)
  /\ UNCHANGED <<day, consents, preferences, checked, workers, merged, faults>>

\* create_member_marketing_notification_authority, which locks the preference row.
BeginMarketing(s, m) ==
  /\ ~Has(s) /\ Active(m) /\ checked[m] = Idle /\ MayMarket(m)
  /\ checked' = [checked EXCEPT ![m] = [pc |-> "create", source |-> s]]
  /\ UNCHANGED <<day, consents, preferences, grants, deliveries, workers, merged, faults>>

AcceptedSince(m, from) ==
  Cardinality({s \in MarketingOf(m) : deliveries[s].status = "accepted" /\ deliveries[s].day >= from})
CountSince(m, from) ==
  Cardinality({s \in MarketingOf(m) : deliveries[s].status \in Counted /\ deliveries[s].day >= from})
Limited(m) == CountSince(m, day) >= DailyMax \/ CountSince(m, day - Week + 1) >= WeeklyMax

\* Made in the quiet hours, it is due the next morning.
CreateMarketing(m, quiet) ==
  LET s == checked[m].source IN
  /\ checked[m].pc = "create" /\ ~Has(s)
  /\ Made(s, m, "marketing", Limited(m), ~quiet)
  /\ checked' = [checked EXCEPT ![m] = Idle]
  /\ UNCHANGED <<day, consents, preferences, workers, merged, faults>>

RollBack(m) ==
  /\ checked[m] # Idle
  /\ checked' = [checked EXCEPT ![m] = Idle]
  /\ UNCHANGED <<day, consents, preferences, grants, deliveries, workers, merged, faults>>
-----------------------------------------------------------------------------
(* Workers                                                                 *)

At(w, pc, s) == workers[w].pc = pc /\ workers[w].source = s
LeasableOnce(s) == Has(s) /\ deliveries[s].due /\ deliveries[s].status \in {"pending", "failed"}
Leasable(s) ==
  /\ Has(s) /\ deliveries[s].due
  /\ \/ deliveries[s].status \in {"pending", "failed"}
     \/ deliveries[s].status = "delivering" /\ deliveries[s].expired

Lease(w, s) ==
  /\ workers[w] = Idle /\ Leasable(s)
  /\ IF s \in Marketing /\ ~MayMarket(deliveries[s].member)
     THEN /\ deliveries' = Suppress({s})
          /\ UNCHANGED workers
     ELSE /\ deliveries' = [deliveries EXCEPT ![s].status = "delivering", ![s].token = w,
                                              ![s].expired = FALSE]
          /\ workers' = [workers EXCEPT ![w] = [pc |-> "leased", source |-> s]]
  /\ UNCHANGED <<day, consents, preferences, grants, checked, merged, faults>>

HoldsAny(w, s) == TRUE
Holds(w, s) == deliveries[s].status = "delivering" /\ deliveries[s].token = w

\* _snapshot_delivery: the message is read again, or the worker turns away and
\* leaves the delivery to its lease.
Snapshot(w, s) ==
  /\ At(w, "leased", s)
  /\ workers' = [workers EXCEPT ![w] =
       IF Holds(w, s) /\ (s \in Marketing => MayMarket(deliveries[s].member))
       THEN [pc |-> "sending", source |-> s] ELSE Idle]
  /\ UNCHANGED <<day, consents, preferences, grants, deliveries, checked, merged, faults>>

\* _send, with no transaction open.
Send(w, s, result) ==
  /\ At(w, "sending", s)
  /\ workers' = [workers EXCEPT ![w] = [pc |-> "sent", source |-> s, result |-> result]]
  /\ UNCHANGED <<day, consents, preferences, grants, deliveries, checked, merged, faults>>

\* mutate_member_notification_delivery_authority raises for a lease that was lost.
After(row, result) ==
  LET n == row.attempts + 1
      status == IF result = "accepted" THEN "accepted"
                ELSE IF result = "permanent_failure" \/ n >= MaxAttempts THEN "exhausted"
                ELSE "failed"
  IN [row EXCEPT !.attempts = n, !.token = Nil, !.due = FALSE, !.status = status]

Record(w, s) ==
  /\ At(w, "sent", s)
  /\ deliveries' = IF Holds(w, s) /\ ~deliveries[s].expired
                   THEN [deliveries EXCEPT ![s] = After(@, workers[w].result)] ELSE deliveries
  /\ workers' = [workers EXCEPT ![w] = Idle]
  /\ UNCHANGED <<day, consents, preferences, grants, checked, merged, faults>>

Crash(w) ==
  /\ workers[w] # Idle /\ faults < MaxFaults
  /\ workers' = [workers EXCEPT ![w] = Idle]
  /\ faults' = faults + 1
  /\ UNCHANGED <<day, consents, preferences, grants, deliveries, checked, merged>>

\* The moment a delivery was put off to: the next morning, or the backoff.
ComesDue(s) ==
  /\ Has(s) /\ deliveries[s].status \in {"pending", "failed"} /\ ~deliveries[s].due
  /\ deliveries' = [deliveries EXCEPT ![s].due = TRUE]
  /\ UNCHANGED <<day, consents, preferences, grants, checked, workers, merged, faults>>

\* The lease outlives every request of a worker that runs (two of 8 seconds in
\* 30), so it runs out on one that is gone, or on a slow one.
Expires(s) ==
  /\ Has(s) /\ deliveries[s].status = "delivering" /\ ~deliveries[s].expired
  /\ deliveries' = [deliveries EXCEPT ![s].expired = TRUE]
  /\ IF \E w \in Workers : workers[w] # Idle /\ workers[w].source = s /\ Holds(w, s)
     THEN faults < MaxFaults /\ faults' = faults + 1
     ELSE UNCHANGED faults
  /\ UNCHANGED <<day, consents, preferences, grants, checked, workers, merged>>

NextDay ==
  /\ day < MaxDay /\ day' = day + 1
  /\ UNCHANGED <<consents, preferences, grants, deliveries, checked, workers, merged, faults>>
-----------------------------------------------------------------------------
Results == {"accepted", "transient_failure", "permanent_failure"}
Work(w, s) == Lease(w, s) \/ Snapshot(w, s) \/ (\E r \in Results : Send(w, s, r)) \/ Record(w, s)
Next ==
  \/ NextDay
  \/ \E k \in Consents : GiveConsent(k) \/ WithdrawConsent(k)
  \/ \E m \in Members, k \in Consents : BeginSubscribe(m, k)
  \/ \E m \in Members, g \in Grants : Subscribe(m, g) \/ GrantService(m, g)
  \/ \E m \in Members : Unsubscribe(m) \/ RollBack(m)
  \/ \E m \in Members, on \in BOOLEAN : SetService(m, on)
  \/ \E s, t \in Members : Merge(s, t)
  \/ \E s \in Service, m \in Members : Notify(s, m)
  \/ \E s \in Marketing, m \in Members : BeginMarketing(s, m)
  \/ \E m \in Members, quiet \in BOOLEAN : CreateMarketing(m, quiet)
  \/ \E w \in Workers, s \in Sources : Work(w, s)
  \/ \E w \in Workers : Crash(w)
  \/ \E s \in Sources : ComesDue(s) \/ Expires(s)

\* A worker polls and works as long as it lives; time passes.
Fairness == \A s \in Sources :
  /\ WF_vars(ComesDue(s)) /\ WF_vars(Expires(s))
  /\ \A w \in Workers : WF_vars(Work(w, s))

Spec == Init /\ [][Next]_vars /\ Fairness
-----------------------------------------------------------------------------
TypeOK ==
  /\ day \in 0..MaxDay /\ faults \in 0..MaxFaults
  /\ consents \in [Consents -> {"none", "granted", "withdrawn"}]
  /\ preferences \in [Members -> [row : BOOLEAN, marketing : BOOLEAN, consent : OrNil(Consents), service : BOOLEAN]]
  /\ grants \in [Grants -> [status : {"none"}] \cup
       [status : {"available", "consumed", "revoked"}, member : Members,
        purpose : {"marketing", "service"}]]
  /\ deliveries \in [Sources -> {Absent} \cup
       [status : Counted \cup {"suppressed", "authorization_missing"}, member : Members,
        grant : OrNil(Grants), due : BOOLEAN, attempts : 0..MaxAttempts,
        token : OrNil(Workers), expired : BOOLEAN, day : 0..MaxDay]]
  /\ merged \in [Members -> OrNil(Members)]

\* create_member_marketing_notification_authority: marketing that may still reach a
\* member, or has, stays within its ration for any day and any week, whoever makes
\* it.  A membership merged into another brings its own along.
Ration ==
  \A m \in Members : (\A n \in Members : merged[n] # m) => \A d \in 0..day :
    LET made(from) == {s \in MarketingOf(m) : /\ deliveries[s].status \in Counted
                                              /\ deliveries[s].day \in from..d}
    IN Cardinality(made(d)) <= DailyMax /\ Cardinality(made(d - Week + 1)) <= WeeklyMax

\* member_channel_grants: an authorisation pays for one message, of its member and
\* purpose, and every message that may be sent has one.
GrantsPayOnce ==
  \A s \in Sources : Has(s) /\ deliveries[s].status \in Counted =>
    LET g == deliveries[s].grant IN
    /\ g # Nil /\ grants[g].status = "consumed" /\ grants[g].member = deliveries[s].member
    /\ grants[g].purpose = IF s \in Marketing THEN "marketing" ELSE "service"
    /\ \A u \in Sources \ {s} : Has(u) => deliveries[u].grant # g

\* The triggers on preferences and consents, and the checks of lease and snapshot:
\* nothing is sent on a consent that had been withdrawn when the worker took it up.
SendsStand ==
  [][\A w \in Workers : workers'[w].pc = "sending" /\ workers'[w].source \in Marketing
        /\ workers[w].pc # "sending" =>
          MayMarket(deliveries[workers'[w].source].member)]_vars

\* Withdrawal is for good: what it stopped is not recorded as accepted, nor taken
\* up again, by the worker that was sending it or by another.
SuppressedStays ==
  [][\A s \in Sources : Has(s) /\ deliveries[s].status = "suppressed" =>
        deliveries'[s].status = "suppressed"]_vars

\* lease, result and poll: whatever the workers do, what may be sent is settled.
Settles == \A s \in Sources :
  (Has(s) /\ deliveries[s].status \in Open) ~> deliveries[s].status \notin Open
-----------------------------------------------------------------------------
(* What is promised of messages                                            *)

Shown(row) ==
  IF row = Absent THEN [state |-> "none"]
  ELSE [state |-> IF row.status \in Open THEN "open" ELSE row.status,
        tries |-> row.attempts, member |-> row.member]
Messages == [s \in Sources |-> Shown(deliveries[s])]

Promise == INSTANCE MessagePromise WITH messages <- Messages

\* The notification authorities, the triggers and the worker: a message is paid for once,
\* with an authorisation of its member and purpose, is tried within its attempts and ends
\* once; whom a withdrawal is about is left no authorisation for more.
MessageSpec == Promise!Spec
=============================================================================

----------------------------- MODULE WebhookOutbox -----------------------------
(***************************************************************************)
(* The webhook outbox.  An event is recorded in the transaction of what it *)
(* tells.  An expander turns it, in a transaction of its own, into one     *)
(* delivery for each endpoint that listens, with a copy of the endpoint's  *)
(* address and secret.  Workers lease a delivery, send it with no          *)
(* transaction open, and record the answer if the lease is still theirs.   *)
(*                                                                         *)
(* The address and the secret of an endpoint are stood for by the version  *)
(* of its configuration.  The queue in Redis only makes a worker look      *)
(* sooner: what is lost there is found in the table, so it is left out, as *)
(* are deliveries from before the events were recorded.  A retry comes     *)
(* due, and a lease runs out, by a step of its own.                        *)
(***************************************************************************)
EXTENDS Integers, FiniteSets

CONSTANTS
  Endpoints, Events, Expanders, Workers, Nil,
  MAX_RETRIES,   \* 3
  MaxVersions,   \* bounds the changes of an endpoint
  MaxFaults      \* bounds the processes lost or slower than their lease

ASSUME BoundsAssumption ==
  /\ MAX_RETRIES \in Nat /\ MaxVersions \in Nat \ {0} /\ MaxFaults \in Nat
  /\ Nil \notin Workers

VARIABLES
  endpoints,    \* by endpoint: its row
  events,       \* by event: recorded, expanded; and the versions that heard it
  deliveries,   \* by event and endpoint
  expanders,    \* by expander: the transaction it is in
  workers,      \* by worker: the delivery it has leased
  faults

vars == <<endpoints, events, deliveries, expanders, workers, faults>>
-----------------------------------------------------------------------------
Idle == [pc |-> "idle"]
Absent == [status |-> "absent"]
Open == {"pending", "retrying", "delivering"}
Settled == {"delivered", "failed", "archived"}
Pairs == Events \X Endpoints
At(d) == deliveries[d[1]][d[2]]
Exists(d) == At(d) # Absent
To(d, row) == deliveries' = [deliveries EXCEPT ![d[1]][d[2]] = row]

Init ==
  /\ endpoints = [e \in Endpoints |-> [status |-> "none", version |-> 0,
                                       enabled |-> FALSE, wants |-> {}]]
  /\ events = [v \in Events |-> [status |-> "none"]]
  /\ deliveries = [v \in Events |-> [e \in Endpoints |-> Absent]]
  /\ expanders = [x \in Expanders |-> Idle]
  /\ workers = [w \in Workers |-> Idle]
  /\ faults = 0

Listens(e, v) == /\ endpoints[e].status = "live" /\ endpoints[e].enabled
                 /\ v \in endpoints[e].wants
-----------------------------------------------------------------------------
(* The manager                                                             *)

CreateEndpoint(e, wants) ==
  /\ endpoints[e].status = "none"
  /\ endpoints' = [endpoints EXCEPT ![e] =
       [status |-> "live", version |-> 1, enabled |-> TRUE, wants |-> wants]]
  /\ UNCHANGED <<events, deliveries, expanders, workers, faults>>

\* The version the manager saw must be the one there is, or nothing happens.
UpdateEndpoint(e, on, wants) ==
  /\ endpoints[e].status = "live" /\ endpoints[e].version < MaxVersions
  /\ endpoints' = [endpoints EXCEPT ![e] =
       [status |-> "live", version |-> @.version + 1, enabled |-> on, wants |-> wants]]
  /\ UNCHANGED <<events, deliveries, expanders, workers, faults>>

\* The foreign key of its deliveries keeps an endpoint, the uncommitted ones too.
DeleteEndpoint(e) ==
  /\ endpoints[e].status = "live"
  /\ \A v \in Events : ~Exists(<<v, e>>)
  /\ \A x \in Expanders : expanders[x].pc = "expanding" => e \notin expanders[x].made
  /\ endpoints' = [endpoints EXCEPT ![e].status = "deleted"]
  /\ UNCHANGED <<events, deliveries, expanders, workers, faults>>

\* record_domain_event, or transition_campaign.  Who listens is noted for NobodyIsMissed.
RecordEvent(v) ==
  /\ events[v].status = "none"
  /\ events' = [events EXCEPT ![v] =
       [status |-> "recorded",
        heard |-> [e \in {e \in Endpoints : Listens(e, v)} |-> endpoints[e].version]]]
  /\ UNCHANGED <<endpoints, deliveries, expanders, workers, faults>>
-----------------------------------------------------------------------------
(* expand_committed_events, one event                                      *)

Locked(v) == \E x \in Expanders : expanders[x].pc = "expanding" /\ expanders[x].event = v

\* The mark is committed before the deliveries.
BeginExpansionMarked(x, v) ==
  /\ expanders[x] = Idle
  /\ events[v].status = "recorded" /\ ~Locked(v)
  /\ events' = [events EXCEPT ![v].status = "expanded"]
  /\ expanders' = [expanders EXCEPT ![x] =
       [pc |-> "expanding", event |-> v, made |-> {},
        found |-> [e \in {e \in Endpoints : Listens(e, v)} |-> endpoints[e].version]]]
  /\ UNCHANGED <<endpoints, deliveries, workers, faults>>

BeginExpansion(x, v) ==
  /\ expanders[x] = Idle
  /\ events[v].status = "recorded" /\ ~Locked(v)
  /\ expanders' = [expanders EXCEPT ![x] =
       [pc |-> "expanding", event |-> v, made |-> {},
        found |-> [e \in {e \in Endpoints : Listens(e, v)} |-> endpoints[e].version]]]
  /\ UNCHANGED <<endpoints, events, deliveries, workers, faults>>

\* guard_webhook_delivery_snapshot compares the copy with the endpoint as it is now.
Matches(e, version) == endpoints[e].status = "live" /\ endpoints[e].version = version

\* A copy that no longer matches ends the loop.
MakeDeliveryOrStop(x, e) ==
  LET t == expanders[x] IN
  /\ t.pc = "expanding" /\ e \in DOMAIN t.found \ t.made
  /\ expanders' = [expanders EXCEPT ![x] =
       IF Matches(e, t.found[e]) THEN [t EXCEPT !.made = @ \cup {e}] ELSE [pc |-> "stopped"]]
  /\ UNCHANGED <<endpoints, events, deliveries, workers, faults>>

MakeDelivery(x, e) ==
  LET t == expanders[x] IN
  /\ t.pc = "expanding" /\ e \in DOMAIN t.found \ t.made
  /\ expanders' = [expanders EXCEPT ![x] =
       IF Matches(e, t.found[e]) THEN [t EXCEPT !.made = @ \cup {e}] ELSE Idle]
  /\ UNCHANGED <<endpoints, events, deliveries, workers, faults>>

New(version) == [status |-> "pending", version |-> version, retries |-> 0, attempts |-> 0,
                 token |-> Nil, expired |-> FALSE, due |-> TRUE]

FinishExpansion(x) ==
  LET t == expanders[x] IN
  /\ t.pc = "expanding" /\ t.made = DOMAIN t.found
  /\ deliveries' = [deliveries EXCEPT ![t.event] =
       [e \in Endpoints |-> IF e \in t.made THEN New(t.found[e]) ELSE @[e]]]
  /\ events' = [events EXCEPT ![t.event].status = "expanded"]
  /\ expanders' = [expanders EXCEPT ![x] = Idle]
  /\ UNCHANGED <<endpoints, workers, faults>>

CrashExpander(x) ==
  /\ expanders[x] # Idle /\ faults < MaxFaults
  /\ expanders' = [expanders EXCEPT ![x] = Idle]
  /\ faults' = faults + 1
  /\ UNCHANGED <<endpoints, events, deliveries, workers>>
-----------------------------------------------------------------------------
(* process_single_delivery                                                 *)

LeasableTwice(d) == Exists(d) /\ At(d).status \in Open /\ At(d).due
LeasableUnheld(d) == LeasableTwice(d) /\ At(d).token = Nil
Leasable(d) ==
  /\ Exists(d) /\ At(d).status \in Open /\ At(d).due
  /\ At(d).token = Nil \/ At(d).expired

Lease(w, d) ==
  /\ workers[w] = Idle /\ Leasable(d)
  /\ To(d, [At(d) EXCEPT !.status = "delivering", !.token = w, !.expired = FALSE,
                         !.attempts = @ + 1])
  /\ workers' = [workers EXCEPT ![w] = [pc |-> "leased", on |-> d]]
  /\ UNCHANGED <<endpoints, events, expanders, faults>>

\* What comes of it: an answer of the 200s; one to try again after (429, the
\* 500s, none at all); another; or the secret cannot be read and nothing is sent.
Results == {"ok", "again", "refused", "unreadable"}
Send(w, d, result) ==
  /\ workers[w] = [pc |-> "leased", on |-> d]
  /\ workers' = [workers EXCEPT ![w] = [pc |-> "sent", on |-> d, result |-> result]]
  /\ UNCHANGED <<endpoints, events, deliveries, expanders, faults>>

HoldsAny(w, d) == TRUE
Holds(w, d) == At(d).status = "delivering" /\ At(d).token = w

AnsweredOnceMore(row, result) ==
  LET free == [row EXCEPT !.token = Nil, !.expired = FALSE] IN
  IF result = "ok" THEN [free EXCEPT !.status = "delivered"]
  ELSE IF result = "again" /\ row.retries <= MAX_RETRIES
  THEN [free EXCEPT !.status = "retrying", !.retries = @ + 1, !.due = FALSE]
  ELSE [free EXCEPT !.status = "failed"]
Answered(row, result) ==
  LET free == [row EXCEPT !.token = Nil, !.expired = FALSE] IN
  IF result = "ok" THEN [free EXCEPT !.status = "delivered"]
  ELSE IF result = "again" /\ row.retries < MAX_RETRIES
  THEN [free EXCEPT !.status = "retrying", !.retries = @ + 1, !.due = FALSE]
  ELSE [free EXCEPT !.status = "failed"]

\* A lease that ran out and was not taken again is still the worker's.
Record(w, d) ==
  /\ workers[w].pc = "sent" /\ workers[w].on = d
  /\ IF Holds(w, d) THEN To(d, Answered(At(d), workers[w].result)) ELSE UNCHANGED deliveries
  /\ workers' = [workers EXCEPT ![w] = Idle]
  /\ UNCHANGED <<endpoints, events, expanders, faults>>

Crash(w) ==
  /\ workers[w] # Idle /\ faults < MaxFaults
  /\ workers' = [workers EXCEPT ![w] = Idle]
  /\ faults' = faults + 1
  /\ UNCHANGED <<endpoints, events, deliveries, expanders>>

ComesDue(d) ==
  /\ Exists(d) /\ At(d).status = "retrying" /\ ~At(d).due
  /\ To(d, [At(d) EXCEPT !.due = TRUE])
  /\ UNCHANGED <<endpoints, events, expanders, workers, faults>>

\* A lease of 30 seconds runs out on a worker that is gone, or on a slow one.
Expires(d) ==
  /\ Exists(d) /\ At(d).status = "delivering" /\ ~At(d).expired
  /\ To(d, [At(d) EXCEPT !.expired = TRUE])
  /\ IF \E w \in Workers : workers[w] # Idle /\ workers[w].on = d /\ Holds(w, d)
     THEN faults < MaxFaults /\ faults' = faults + 1
     ELSE UNCHANGED faults
  /\ UNCHANGED <<endpoints, events, expanders, workers>>

\* cleanup_old_deliveries, a month or three after.
Archive(d) ==
  /\ Exists(d) /\ At(d).status \in {"delivered", "failed"}
  /\ To(d, [At(d) EXCEPT !.status = "archived"])
  /\ UNCHANGED <<endpoints, events, expanders, workers, faults>>
-----------------------------------------------------------------------------
Expand(x) == \/ \E v \in Events : BeginExpansion(x, v)
             \/ \E e \in Endpoints : MakeDelivery(x, e)
             \/ FinishExpansion(x)
Work(w, d) == Lease(w, d) \/ (\E r \in Results : Send(w, d, r)) \/ Record(w, d)

Next ==
  \/ \E e \in Endpoints, wants \in SUBSET Events :
        CreateEndpoint(e, wants) \/ \E on \in BOOLEAN : UpdateEndpoint(e, on, wants)
  \/ \E e \in Endpoints : DeleteEndpoint(e)
  \/ \E v \in Events : RecordEvent(v)
  \/ \E x \in Expanders : Expand(x) \/ CrashExpander(x)
  \/ \E w \in Workers, d \in Pairs : Work(w, d)
  \/ \E w \in Workers : Crash(w)
  \/ \E d \in Pairs : ComesDue(d) \/ Expires(d) \/ Archive(d)

\* worker_loop polls the tables for as long as it lives; time passes.
Fairness ==
  /\ \A x \in Expanders : WF_vars(Expand(x))
  /\ \A d \in Pairs : /\ WF_vars(ComesDue(d)) /\ WF_vars(Expires(d))
                      /\ \A w \in Workers : WF_vars(Work(w, d))

Spec == Init /\ [][Next]_vars /\ Fairness
-----------------------------------------------------------------------------
Versions == UNION {[S -> 0..MaxVersions] : S \in SUBSET Endpoints}
Rows == [status : Open \cup Settled, version : 0..MaxVersions, retries : 0..MAX_RETRIES,
         attempts : Nat, token : Workers \cup {Nil}, expired : BOOLEAN, due : BOOLEAN]
TypeOK ==
  /\ endpoints \in [Endpoints -> [status : {"none", "live", "deleted"},
                                  version : 0..MaxVersions, enabled : BOOLEAN,
                                  wants : SUBSET Events]]
  /\ events \in [Events -> [status : {"none"}] \cup
                           [status : {"recorded", "expanded"}, heard : Versions]]
  /\ deliveries \in [Events -> [Endpoints -> {Absent} \cup Rows]]
  /\ expanders \in [Expanders -> {Idle} \cup
       [pc : {"expanding"}, event : Events, made : SUBSET Endpoints, found : Versions]]
  /\ workers \in [Workers -> {Idle} \cup [pc : {"leased"}, on : Pairs] \cup
                             [pc : {"sent"}, on : Pairs, result : Results]]
  /\ faults \in 0..MaxFaults

\* expand_committed_events: an expanded event has a delivery for every endpoint that
\* listened to it when it was recorded and was not touched since, whatever expander
\* died and whatever other endpoint was changed under it.
NobodyIsMissed ==
  \A v \in Events : events[v].status = "expanded" =>
    \A e \in DOMAIN events[v].heard :
      endpoints[e].status = "live" /\ endpoints[e].version = events[v].heard[e] =>
        Exists(<<v, e>>)

\* process_single_delivery: an endpoint gets a copy more than the retries it asked
\* for only when a worker was lost or slow; no two workers hold one lease.
CopiesAreExplained ==
  \A d \in Pairs : Exists(d) => At(d).attempts <= 1 + At(d).retries + faults

\* The token and the status a recording asks for: no late answer changes a delivery
\* that another worker settled, and nothing sends it again.
SettledStands ==
  [][\A d \in Pairs : Exists(d) /\ At(d).status \in Settled =>
        At(d)' = At(d) \/ At(d)' = [At(d) EXCEPT !.status = "archived"]]_vars

\* worker_loop: every recorded event is expanded in the end, although an endpoint that
\* changes under an expander undoes its work, and expanders die.
EventsExpand ==
  \A v \in Events : events[v].status = "recorded" ~> events[v].status = "expanded"

\* worker_loop: every delivery is settled, although workers die and endpoints fail.
DeliveriesSettle ==
  \A d \in Pairs : (Exists(d) /\ At(d).status \in Open) ~> At(d).status \in Settled
-----------------------------------------------------------------------------
(* What the events and the deliveries implement: see EventCopies.           *)

Progress == [v \in Events |-> events[v].status]
Owed == [v \in Events |->
  IF events[v].status # "recorded" THEN {}
  ELSE {e \in DOMAIN events[v].heard : Matches(e, events[v].heard[e])}]
Copy(row) ==
  IF row = Absent THEN [state |-> "absent", retries |-> 0]
  ELSE [state |-> IF row.status \in Open THEN "open" ELSE row.status, retries |-> row.retries]
Copies == [v \in Events |-> [e \in Endpoints |-> Copy(deliveries[v][e])]]

Outbox == INSTANCE EventCopies WITH progress <- Progress, owed <- Owed, copies <- Copies

\* expand_committed_events, process_single_delivery: whoever dies or is late, an event
\* is expanded once and for all who are owed a copy, and a copy is retried as often as
\* MAX_RETRIES allows, settled once, and then only archived.
OutboxSpec == Outbox!Spec
=============================================================================

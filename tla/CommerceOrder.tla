----------------------------- MODULE CommerceOrder -----------------------------
(***************************************************************************)
(* The connection of a tenant to its commerce platform and what arrives    *)
(* over it: credentials that rotate, references that stand for members,    *)
(* one-time sign-in handoffs, and the order events the platform sends, in  *)
(* any order, late and again.  Each function of the database is one        *)
(* transaction and one action, but an event takes several: the request is  *)
(* authenticated in one session, looked up in another, and written in a    *)
(* third, whose statements see what others commit in between.  What names  *)
(* a member reads, without a lock, that the membership is active, and      *)
(* writes the name later.                                                  *)
(*                                                                         *)
(* An event carries the whole order.  What the properties tell apart of it *)
(* is in Event: its place in time, its refunds, the coupon it names.  The  *)
(* scan that may have led to an order is left out: it only sets the grade  *)
(* of an attribution.  Calls with a used idempotency key write nothing.    *)
(***************************************************************************)
EXTENDS Integers, FiniteSets, Sequences, FiniteSetsExt, Functions

CONSTANTS
  Connections, Members, Refs, Handoffs, Orders, Products, Coupons,
  Events,       \* the bodies the platform may send
  Event,        \* by body: id, version, at, order, ref, coupon, coupon_order,
                \*   original, refunds (amount by refund), sold, products, complete
  Requests,     \* event requests that may be under way together
  Nil,          \* SQL NULL
  Life,         \* of a credential (90 days)
  Overlap,      \* how long a superseded credential is honoured (24 hours)
  HandoffLife,  \* 5 minutes
  MaxVersions,  \* bounds the rotations
  MaxTime

VARIABLES
  now,           \* statement_timestamp()
  connections,   \* by connection: its status
  credentials,   \* by connection: its inbound credentials, by version
  members,       \* by member: the status of the membership
  references,    \* by connection and member_ref: the membership
  judged,        \* by connection: the members that sessions have read active
  handoffs,      \* by handoff: its row
  mapped,        \* by connection: the products that have a mapping
  used,          \* by coupon: its member and the orders that committed it
  inbox,         \* by connection: the bodies accepted, each with its credential
  orders,        \* commerce_order_facts with their lines
  refunds,       \* commerce_refund_facts: amounts, by refund
  attributions,  \* commerce_repurchase_attributions
  requests       \* by request: what it has read so far

vars == <<now, connections, credentials, members, references, judged, handoffs,
          mapped, used, inbox, orders, refunds, attributions, requests>>
wire == <<connections, credentials>>
people == <<members, references, judged, used>>
facts == <<inbox, orders, refunds, attributions>>
-----------------------------------------------------------------------------
OrNil(S) == S \cup {Nil}
NoRow == [last |-> Nil]
Idle == [pc |-> "idle"]
Refunded(e) == SumFunction(Event[e].refunds)
SameMessage(e, f) == Event[e].id = Event[f].id /\ Event[e].version = Event[f].version
Newer(e, f) ==
  \/ Event[e].at > Event[f].at
  \/ Event[e].at = Event[f].at /\ Event[e].version > Event[f].version
RefundIds == UNION {DOMAIN Event[e].refunds : e \in Events}
Amounts == UNION {{Event[e].refunds[x] : x \in DOMAIN Event[e].refunds} : e \in Events}
Refundings == UNION {[S -> Amounts] : S \in SUBSET RefundIds}

ASSUME BoundsAssumption ==
  {Life, Overlap, HandoffLife, MaxVersions, MaxTime} \subseteq Nat
ASSUME MembersAssumption == Nil \notin Members
ASSUME EventsAssumption ==
  /\ Nil \notin Events
  /\ Amounts \subseteq Int
  /\ \A e \in Events :
       /\ {Event[e].at, Event[e].version, Event[e].original} \subseteq Int
       /\ IsFiniteSet(DOMAIN Event[e].refunds)
       /\ Event[e].order \in Orders /\ Event[e].ref \in OrNil(Refs)
       /\ Event[e].coupon \in OrNil(Coupons) /\ Event[e].refunds \in Refundings
       /\ Event[e].products \subseteq Products /\ Event[e].complete \in BOOLEAN

Init ==
  /\ now = 0
  /\ connections = [c \in Connections |-> "none"]
  /\ credentials = [c \in Connections |-> <<>>]
  /\ members = [m \in Members |-> "active"]
  /\ references = [c \in Connections |-> [r \in Refs |-> Nil]]
  /\ judged = [c \in Connections |-> {}]
  /\ handoffs = [h \in Handoffs |-> [status |-> "none"]]
  /\ mapped = [c \in Connections |-> {}]
  /\ used = [k \in Coupons |-> [member |-> Nil, by |-> {}]]
  /\ inbox = [c \in Connections |-> {}]
  /\ orders = [c \in Connections |-> [o \in Orders |-> NoRow]]
  /\ refunds = [c \in Connections |-> [o \in Orders |-> <<>>]]
  /\ attributions = [c \in Connections |-> [o \in Orders |-> NoRow]]
  /\ requests = [q \in Requests |-> Idle]
-----------------------------------------------------------------------------
(* The connection and its credentials                                      *)

Issued == [from |-> now, until |-> now + Life, overlap |-> 0, revoked |-> FALSE]

Usable(c, v) ==
  LET k == credentials[c][v] IN
  /\ connections[c] = "active" /\ ~k.revoked
  /\ k.from <= now /\ now < k.until
  /\ v = Len(credentials[c]) \/ now < k.overlap

\* A transaction that accepts an event holds the row of its credential.
HeldByNobody(c, v) == FALSE
Held(c, v) == \E q \in Requests : requests[q].pc = "scoped" /\ requests[q].conn = c
                                  /\ requests[q].version = v

Connect(c) ==
  /\ connections[c] = "none"
  /\ \A d \in Connections : connections[d] # "active"
  /\ connections' = [connections EXCEPT ![c] = "active"]
  /\ credentials' = [credentials EXCEPT ![c] = <<Issued>>]
  /\ UNCHANGED <<now, handoffs, mapped, requests, people, facts>>

Rotate(c) ==
  LET v == Len(credentials[c])
      old == credentials[c][v]
      cut == IF now + Overlap < old.until THEN now + Overlap ELSE old.until
  IN
  /\ connections[c] = "active" /\ v < MaxVersions /\ ~Held(c, v)
  /\ credentials' = [credentials EXCEPT ![c] =
       Append(IF old.revoked THEN @ ELSE [@ EXCEPT ![v].overlap = cut], Issued)]
  /\ UNCHANGED <<now, connections, handoffs, mapped, requests, people, facts>>

Revoke(c, v) ==
  /\ connections[c] = "active" /\ ~Held(c, v)
  /\ v \in DOMAIN credentials[c] /\ ~credentials[c][v].revoked
  /\ credentials' = [credentials EXCEPT ![c][v].revoked = TRUE]
  /\ UNCHANGED <<now, connections, handoffs, mapped, requests, people, facts>>

Disconnect(c) ==
  /\ connections[c] = "active"
  /\ \A v \in DOMAIN credentials[c] : ~credentials[c][v].revoked => ~Held(c, v)
  /\ connections' = [connections EXCEPT ![c] = "disconnected"]
  /\ credentials' = [credentials EXCEPT ![c] =
                       [v \in DOMAIN @ |-> [@[v] EXCEPT !.revoked = TRUE]]]
  /\ UNCHANGED <<now, handoffs, mapped, requests, people, facts>>

MapProduct(c, p) ==
  /\ connections[c] = "active"
  /\ mapped' = [mapped EXCEPT ![c] = @ \cup {p}]
  /\ UNCHANGED <<now, handoffs, requests, wire, people, facts>>
-----------------------------------------------------------------------------
(* Members, as the platform knows them                                     *)

\* What names a member judges the connection and the membership first, and locks
\* neither: until it writes, either may change.  Any number of sessions may be under way.
ReadMember(c, m) ==
  /\ connections[c] = "active" /\ members[m] = "active"
  /\ judged' = [judged EXCEPT ![c] = @ \cup {m}]
  /\ UNCHANGED <<now, members, references, used, handoffs, mapped, requests, wire, facts>>

\* The reference of a member on a connection: the one there is, or a new one.
Names(c, m, r) ==
  \/ references[c][r] = m
  \/ references[c][r] = Nil /\ \A s \in Refs : references[c][s] # m

EnsureReference(c, m, r) ==
  /\ m \in judged[c] /\ Names(c, m, r)
  /\ references' = [references EXCEPT ![c][r] = m]
  /\ UNCHANGED <<now, members, judged, used, handoffs, mapped, requests, wire, facts>>

IssueHandoff(h, c, m, r) ==
  /\ handoffs[h].status = "none"
  /\ m \in judged[c] /\ Names(c, m, r)
  /\ references' = [references EXCEPT ![c][r] = m]
  /\ handoffs' = [handoffs EXCEPT ![h] =
       [status |-> "issued", conn |-> c, ref |-> r, expires |-> now + HandoffLife]]
  /\ UNCHANGED <<now, members, judged, used, mapped, requests, wire, facts>>

RedeemHandoff(h) ==
  /\ handoffs[h].status = "issued" /\ now < handoffs[h].expires
  /\ connections[handoffs[h].conn] = "active"
  /\ handoffs' = [handoffs EXCEPT ![h].status = "redeemed"]
  /\ UNCHANGED <<now, mapped, requests, wire, people, facts>>

\* The coupon authority: an order commits a coupon of its member.  A full
\* refund restores the coupon, so another order may commit it later.
CommitCoupon(k, m, o) ==
  /\ members[m] = "active" /\ used[k].member \in {Nil, m}
  /\ used' = [used EXCEPT ![k] = [member |-> m, by |-> @.by \cup {o}]]
  /\ UNCHANGED <<now, members, references, judged, handoffs, mapped, requests, wire, facts>>

Moved(s, t, row) == IF row # NoRow /\ row.member = s THEN [row EXCEPT !.member = t] ELSE row

\* Not a member with a coupon or with a reference: the merge would move either, which
\* a trigger refuses, and so the whole merge.  (What the merge itself refuses, two
\* members with references on one connection, falls under that.)
Couponless(s) == \A k \in Coupons : used[k].member # s
Movable(s) == Couponless(s) /\ \A c \in Connections, r \in Refs : references[c][r] # s

MergeMembers(s, t) ==
  /\ s # t /\ members[s] = "active" /\ members[t] = "active" /\ Movable(s)
  /\ members' = [members EXCEPT ![s] = "merged"]
  /\ orders' = [c \in Connections |-> [o \in Orders |-> Moved(s, t, orders[c][o])]]
  /\ attributions' = [c \in Connections |-> [o \in Orders |-> Moved(s, t, attributions[c][o])]]
  /\ UNCHANGED <<now, references, judged, used, handoffs, mapped, inbox, refunds, requests, wire>>
-----------------------------------------------------------------------------
(* An event request                                                        *)

To(q, state) == requests' = [requests EXCEPT ![q] = state]

\* The control session: the signature's credential is looked up and judged.
Resolve(q, c, v, e) ==
  /\ requests[q].pc = "idle"
  /\ v \in DOMAIN credentials[c] /\ Usable(c, v)
  /\ To(q, [pc |-> "resolved", conn |-> c, version |-> v, event |-> e])
  /\ UNCHANGED <<now, handoffs, mapped, wire, people, facts>>

Received(c, e) == {i \in inbox[c] : SameMessage(i.event, e)}
RefKnown(c, e) == Event[e].ref = Nil \/ references[c][Event[e].ref] # Nil

\* The request's own session.  A message already there is answered, or refused
\* if its body differs; so is one of a member the connection does not know.
ReadInbox(q) ==
  LET r == requests[q] IN
  /\ r.pc = "resolved"
  /\ To(q, IF Received(r.conn, r.event) = {} /\ RefKnown(r.conn, r.event)
           THEN [r EXCEPT !.pc = "new"] ELSE Idle)
  /\ UNCHANGED <<now, handoffs, mapped, wire, people, facts>>

\* The callback session: the message is accepted, and whom the order belongs to
\* is read.  The credential is judged again and stays locked to the end.
MemberOf(c, e) == IF Event[e].ref = Nil THEN Nil ELSE references[c][Event[e].ref]
CouponUsed(c, e) ==
  LET k == Event[e].coupon
      o == Event[e].coupon_order
  IN k = Nil \/ /\ MemberOf(c, e) # Nil /\ used[k].member = MemberOf(c, e)
                /\ used[k].by # {} /\ (o = Nil \/ o \in used[k].by)
Acceptable(c, v, e) ==
  /\ Received(c, e) = {} /\ Usable(c, v) /\ RefKnown(c, e)
  /\ MemberOf(c, e) # Nil => members[MemberOf(c, e)] = "active"
  /\ CouponUsed(c, e)

Accept(q) ==
  LET r == requests[q] IN
  /\ r.pc = "new"
  /\ To(q, IF Acceptable(r.conn, r.version, r.event)
           THEN [pc |-> "scoped", conn |-> r.conn, version |-> r.version,
                 event |-> r.event, member |-> MemberOf(r.conn, r.event)]
           ELSE Idle)
  /\ UNCHANGED <<now, handoffs, mapped, wire, people, facts>>

Agrees(f, g) == \A x \in DOMAIN f \cap DOMAIN g : f[x] = g[x]
IsNewerInTime(c, e) ==
  orders[c][Event[e].order] = NoRow \/ Event[e].at > Event[orders[c][Event[e].order].last].at
AlwaysNewer(c, e) == TRUE
IsNewer(c, e) == LET row == orders[c][Event[e].order]
                 IN row = NoRow \/ Newer(e, row.last)
CouponTaken(c, e) ==
  \E d \in Connections, o \in Orders :
     /\ <<d, o>> # <<c, Event[e].order>> /\ attributions[d][o] # NoRow
     /\ attributions[d][o].coupon = Event[e].coupon
\* What raises, and so undoes the whole transaction: a copy of the message that
\* was written first, a refund told differently, a coupon another order carries.
Projectable(c, e) ==
  /\ Received(c, e) = {}
  /\ Agrees(refunds[c][Event[e].order], Event[e].refunds)
  /\ IsNewer(c, e) => Event[e].coupon = Nil \/ ~CouponTaken(c, e)

OrderRow(c, e, m) ==
  [last |-> e, member |-> m, refunded |-> Refunded(e),
   lines |-> [p \in Event[e].products |-> p \in mapped[c]],
   complete |-> Event[e].complete /\ Event[e].products \subseteq mapped[c]]
Attribution(c, e, m) ==
  [last |-> e, member |-> m, coupon |-> Event[e].coupon,
   net |-> Event[e].original - Refunded(e),
   member_order |-> m # Nil /\ Event[e].sold /\ Event[e].original > Refunded(e)]

\* The rest of the same transaction, under the lock of the order.
Project(q) ==
  LET r == requests[q]
      c == r.conn
      e == r.event
      o == Event[e].order
  IN
  /\ r.pc = "scoped" /\ Projectable(c, e)
  /\ inbox' = [inbox EXCEPT ![c] = @ \cup {[event |-> e, version |-> r.version]}]
  /\ refunds' = [refunds EXCEPT ![c][o] =
       [x \in DOMAIN @ \cup DOMAIN Event[e].refunds |->
          IF x \in DOMAIN @ THEN @[x] ELSE Event[e].refunds[x]]]
  /\ IF IsNewer(c, e)
     THEN /\ orders' = [orders EXCEPT ![c][o] = OrderRow(c, e, r.member)]
          /\ attributions' = [attributions EXCEPT ![c][o] = Attribution(c, e, r.member)]
     ELSE UNCHANGED <<orders, attributions>>
  /\ To(q, Idle)
  /\ UNCHANGED <<now, handoffs, mapped, wire, people>>

\* The transaction raises, or its session is lost, before it commits.
RollBack(q) ==
  /\ requests[q].pc = "scoped"
  /\ To(q, Idle)
  /\ UNCHANGED <<now, handoffs, mapped, wire, people, facts>>

Tick ==
  /\ now < MaxTime /\ now' = now + 1
  /\ UNCHANGED <<handoffs, mapped, requests, wire, people, facts>>
-----------------------------------------------------------------------------
Next ==
  \/ Tick
  \/ \E c \in Connections : Connect(c) \/ Rotate(c) \/ Disconnect(c)
  \/ \E c \in Connections, v \in 1..MaxVersions : Revoke(c, v)
  \/ \E c \in Connections, p \in Products : MapProduct(c, p)
  \/ \E c \in Connections, m \in Members : ReadMember(c, m)
  \/ \E c \in Connections, m \in Members, r \in Refs : EnsureReference(c, m, r)
  \/ \E h \in Handoffs, c \in Connections, m \in Members, r \in Refs : IssueHandoff(h, c, m, r)
  \/ \E h \in Handoffs : RedeemHandoff(h)
  \/ \E k \in Coupons, m \in Members, o \in Orders : CommitCoupon(k, m, o)
  \/ \E s, t \in Members : MergeMembers(s, t)
  \/ \E q \in Requests, c \in Connections, v \in 1..MaxVersions, e \in Events : Resolve(q, c, v, e)
  \/ \E q \in Requests : ReadInbox(q) \/ Accept(q) \/ Project(q) \/ RollBack(q)

Spec == Init /\ [][Next]_vars
-----------------------------------------------------------------------------
OrderRows == [last : Events, member : OrNil(Members), refunded : Int, complete : BOOLEAN,
              lines : UNION {[S -> BOOLEAN] : S \in SUBSET Products}]
Attributions == [last : Events, member : OrNil(Members), coupon : OrNil(Coupons),
                 net : Int, member_order : BOOLEAN]
Requested == [pc : {"resolved", "new"}, conn : Connections, version : 1..MaxVersions,
              event : Events]
Scoped == [pc : {"scoped"}, conn : Connections, version : 1..MaxVersions, event : Events,
           member : OrNil(Members)]
TypeOK ==
  /\ now \in 0..MaxTime
  /\ connections \in [Connections -> {"none", "active", "disconnected"}]
  /\ credentials \in [Connections -> Seq([from : Nat, until : Nat, overlap : Nat,
                                          revoked : BOOLEAN])]
  /\ members \in [Members -> {"active", "merged"}]
  /\ references \in [Connections -> [Refs -> OrNil(Members)]]
  /\ judged \in [Connections -> SUBSET Members]
  /\ handoffs \in [Handoffs -> [status : {"none"}] \cup
                     [status : {"issued", "redeemed"}, conn : Connections, ref : Refs,
                      expires : Nat]]
  /\ mapped \in [Connections -> SUBSET Products]
  /\ used \in [Coupons -> [member : OrNil(Members), by : SUBSET Orders]]
  /\ inbox \in [Connections -> SUBSET [event : Events, version : 1..MaxVersions]]
  /\ orders \in [Connections -> [Orders -> {NoRow} \cup OrderRows]]
  /\ refunds \in [Connections -> [Orders -> Refundings]]
  /\ attributions \in [Connections -> [Orders -> {NoRow} \cup Attributions]]
  /\ requests \in [Requests -> {Idle} \cup Requested \cup Scoped]

\* commerce_order_facts, its lines and its attribution: whatever the order in which
\* events come, each row shows the newest of the order's accepted events, and both
\* rows the same one.
Told(c, o) == {i.event : i \in {j \in inbox[c] : Event[j.event].order = o}}
RowIsNewest ==
  \A c \in Connections, o \in Orders :
    IF Told(c, o) = {} THEN orders[c][o] = NoRow /\ attributions[c][o] = NoRow
    ELSE LET last == orders[c][o].last IN
         /\ last \in Told(c, o) /\ ~\E e \in Told(c, o) : Newer(e, last)
         /\ attributions[c][o].last = last
         /\ orders[c][o].refunded + attributions[c][o].net = Event[last].original

\* commerce_refund_facts: the refunds of an order add up to what its row says was
\* refunded, although late events add refunds and leave the row alone.  The
\* platform's part is that an event repeats the refunds of those it is no older than.
Cumulative == \A e, f \in Events :
  Event[e].order = Event[f].order /\ ~Newer(e, f) =>
    DOMAIN Event[e].refunds \subseteq DOMAIN Event[f].refunds
RefundsAddUp ==
  Cumulative => \A c \in Connections, o \in Orders :
    orders[c][o] # NoRow => SumFunction(refunds[c][o]) = orders[c][o].refunded

\* accept_commerce_message_authority: no event is accepted after its connection was
\* closed or its credential revoked, although both were judged sessions earlier.
NothingAfterRevocation ==
  [][\A c \in Connections : \A i \in inbox'[c] \ inbox[c] :
       connections[c] = "active" /\ ~credentials[c][i.version].revoked]_vars

\* project_commerce_order_event_authority: an order and its attribution belong to
\* nobody or to a live membership, although whom an event belongs to is read before the
\* rows are written, and a member judged active may be merged before it is named.
RowsNameTheLiving ==
  \A c \in Connections, o \in Orders : \A row \in {orders[c][o], attributions[c][o]} :
     row # NoRow /\ row.member # Nil => members[row.member] = "active"
-----------------------------------------------------------------------------
(* What the connections and the orders implement: see CommerceFeed.         *)

Versions == [c \in Connections |-> Len(credentials[c])]
GoodKeys == [c \in Connections |-> {v \in DOMAIN credentials[c] : ~credentials[c][v].revoked}]
Shown == [c \in Connections |-> [o \in Orders |-> orders[c][o].last]]

Feed == INSTANCE CommerceFeed WITH
  state <- connections, versions <- Versions, keys <- GoodKeys, told <- inbox, shown <- Shown

\* receive_commerce_event: however requests, rotations, revocations and members
\* interleave, a message is taken once and under a good key, an order shows its newest
\* message, and a coupon is not shown by two orders.
FeedSpec == Feed!Spec
=============================================================================

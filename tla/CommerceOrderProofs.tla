-------------------------- MODULE CommerceOrderProofs --------------------------
(***************************************************************************)
(* Proofs about CommerceOrder, for every set of connections, members,      *)
(* orders, requests and events, whatever the events say.                   *)
(***************************************************************************)
EXTENDS CommerceOrder, SumTheorems, SequenceTheorems, TLAPS

\* uq_commerce_repurchase_attributions_coupon: two orders never both count as
\* brought by one coupon, even when a refund let it be used again.
CouponCountsOnce ==
  \A c, d \in Connections, o, p \in Orders :
     /\ attributions[c][o] # NoRow /\ attributions[d][p] # NoRow
     /\ attributions[c][o].coupon # Nil
     /\ attributions[c][o].coupon = attributions[d][p].coupon
     => c = d /\ o = p

\* A request that has accepted its message keeps the connection open and the
\* credential unrevoked, by the lock it holds.
ScopedIsOpen ==
  \A q \in Requests : requests[q].pc # "idle" =>
    LET r == requests[q] IN
    /\ r.version \in DOMAIN credentials[r.conn]
    /\ r.pc = "scoped" => /\ connections[r.conn] = "active"
                          /\ ~credentials[r.conn][r.version].revoked

\* A connection has its first credential from its start.
Fresh == \A c \in Connections : connections[c] = "none" => credentials[c] = <<>>

\* An event that is newer repeats the refunds of the order, so those kept are the
\* refunds of the event the row shows.
RefundsAreOfLast ==
  \A c \in Connections, o \in Orders :
    IF orders[c][o] = NoRow THEN DOMAIN refunds[c][o] = {}
    ELSE /\ orders[c][o].refunded = Refunded(orders[c][o].last)
         /\ Cumulative => refunds[c][o] = Event[orders[c][o].last].refunds

\* A membership that an order may name: one that is live and has a reference.  While it
\* has, it cannot be merged, so it stays live between the sessions of a request.
Settled(m) == m # Nil => /\ members[m] = "active"
                         /\ \E c \in Connections, r \in Refs : references[c][r] = m
SettledNext(m) == m # Nil => /\ members'[m] = "active"
                             /\ \E c \in Connections, r \in Refs : references'[c][r] = m
RowsAreSettled ==
  /\ \A c \in Connections, o \in Orders :
       /\ orders[c][o] # NoRow => Settled(orders[c][o].member)
       /\ attributions[c][o] # NoRow => Settled(attributions[c][o].member)
  /\ \A q \in Requests : requests[q].pc = "scoped" => Settled(requests[q].member)

IInv == /\ TypeOK /\ RowsAreSettled /\ Fresh /\ ScopedIsOpen
        /\ RowIsNewest /\ RefundsAreOfLast /\ CouponCountsOnce
-----------------------------------------------------------------------------
(* Which steps touch what                                                  *)

WireStep == \E c \in Connections :
  Connect(c) \/ Rotate(c) \/ Disconnect(c) \/ \E v \in 1..MaxVersions : Revoke(c, v)
PeopleStep ==
  \/ \E c \in Connections, m \in Members : ReadMember(c, m)
  \/ \E c \in Connections, m \in Members, r \in Refs :
       EnsureReference(c, m, r) \/ \E h \in Handoffs : IssueHandoff(h, c, m, r)
  \/ \E k \in Coupons, m \in Members, o \in Orders : CommitCoupon(k, m, o)
  \/ \E s, t \in Members : MergeMembers(s, t)
RequestStep ==
  \E q \in Requests :
    \/ \E c \in Connections, v \in 1..MaxVersions, e \in Events : Resolve(q, c, v, e)
    \/ ReadInbox(q) \/ Accept(q) \/ Project(q) \/ RollBack(q)

\* The manager's steps move the wire, the members' steps move the people, those of the
\* requests move the requests; only a merge and a projection rewrite facts.
LEMMA Frames ==
  ASSUME [Next]_vars
  PROVE  /\ WireStep \/ UNCHANGED wire
         /\ PeopleStep \/ UNCHANGED people
         /\ RequestStep \/ UNCHANGED requests
         /\ (\E s, t \in Members : MergeMembers(s, t)) \/ (\E q \in Requests : Project(q))
              \/ UNCHANGED facts
  <1>1. CASE WireStep
    BY <1>1 DEF WireStep, Connect, Rotate, Disconnect, Revoke
  <1>2. CASE PeopleStep
    <2>1. UNCHANGED wire /\ UNCHANGED requests
      BY <1>2 DEF PeopleStep, ReadMember, EnsureReference, IssueHandoff, CommitCoupon, MergeMembers
    <2>2. (\E s, t \in Members : MergeMembers(s, t)) \/ UNCHANGED facts
      BY <1>2 DEF PeopleStep, ReadMember, EnsureReference, IssueHandoff, CommitCoupon
    <2> QED BY <1>2, <2>1, <2>2
  <1>3. CASE RequestStep
    <2>1. UNCHANGED wire /\ UNCHANGED people
      BY <1>3 DEF RequestStep, Resolve, ReadInbox, Accept, Project, RollBack
    <2>2. (\E q \in Requests : Project(q)) \/ UNCHANGED facts
      BY <1>3 DEF RequestStep, Resolve, ReadInbox, Accept, RollBack
    <2> QED BY <1>3, <2>1, <2>2
  <1>4. CASE Tick
    BY <1>4 DEF Tick
  <1>5. ASSUME NEW c \in Connections, NEW p \in Products, MapProduct(c, p)
        PROVE  UNCHANGED <<wire, people, requests, facts>>
    BY <1>5 DEF MapProduct
  <1>6. ASSUME NEW h \in Handoffs, RedeemHandoff(h)
        PROVE  UNCHANGED <<wire, people, requests, facts>>
    BY <1>6 DEF RedeemHandoff
  <1>7. CASE UNCHANGED vars
    BY <1>7 DEF vars, wire, people, facts
  <1>8. \/ WireStep \/ PeopleStep \/ RequestStep \/ Tick \/ UNCHANGED vars
        \/ \E c \in Connections, p \in Products : MapProduct(c, p)
        \/ \E h \in Handoffs : RedeemHandoff(h)
    BY DEF Next, WireStep, PeopleStep, RequestStep
  <1> QED BY <1>1, <1>2, <1>3, <1>4, <1>5, <1>6, <1>7, <1>8
-----------------------------------------------------------------------------
(* Typing                                                                  *)

Credential == [from : Nat, until : Nat, overlap : Nat, revoked : BOOLEAN]

\* What an event says was refunded is a number: an event lists finitely many refunds.
LEMMA RefundedType ==
  ASSUME NEW e \in Events
  PROVE  Refunded(e) \in Int
  <1> DEFINE f == Event[e].refunds
             D == DOMAIN f
  <1>1. IsFiniteSet(D)
    BY EventsAssumption
  <1>2. \A x \in D : f[x] \in Int
    BY EventsAssumption DEF Amounts
  <1> HIDE DEF f, D
  <1>3. SumFunctionOnSet(f, D) \in Int
    BY <1>1, <1>2, SumType
  <1> QED BY <1>3 DEF Refunded, SumFunction, f, D

\* What cuts a credential short, or revokes it, leaves a credential.
LEMMA CredentialType ==
  /\ now \in Nat => Issued \in Credential /\ Issued.from = now /\ ~Issued.revoked
  /\ \A k \in Credential :
       /\ k.from \in Nat /\ k.until \in Nat /\ k.overlap \in Nat
       /\ \A n \in Nat : /\ [k EXCEPT !.overlap = n] \in Credential
                         /\ [k EXCEPT !.overlap = n].revoked = k.revoked
       /\ [k EXCEPT !.revoked = TRUE] \in Credential /\ [k EXCEPT !.revoked = TRUE].revoked
  <1> USE DEF Credential
  <1>1. now \in Nat => Issued \in Credential /\ Issued.from = now /\ ~Issued.revoked
    BY BoundsAssumption DEF Issued
  <1>2. ASSUME NEW k \in Credential
        PROVE  /\ k.from \in Nat /\ k.until \in Nat /\ k.overlap \in Nat
               /\ [k EXCEPT !.revoked = TRUE] \in Credential /\ [k EXCEPT !.revoked = TRUE].revoked
    OBVIOUS
  <1>3. ASSUME NEW k \in Credential, NEW n \in Nat
        PROVE  [k EXCEPT !.overlap = n] \in Credential /\ [k EXCEPT !.overlap = n].revoked = k.revoked
    OBVIOUS
  <1> QED BY <1>1, <1>2, <1>3

\* The credentials a connection had before a step are there after it, and one that a
\* request holds is neither revoked nor closed under it.
LEMMA WireKeeps ==
  ASSUME TypeOK, Fresh, WireStep
  PROVE  /\ Fresh'
         /\ connections' \in [Connections -> {"none", "active", "disconnected"}]
         /\ credentials' \in [Connections -> Seq(Credential)]
         /\ \A c \in Connections : \A v \in DOMAIN credentials[c] :
              /\ v \in DOMAIN credentials'[c]
              /\ Held(c, v) /\ connections[c] = "active" /\ ~credentials[c][v].revoked =>
                   connections'[c] = "active" /\ ~credentials'[c][v].revoked
  <1> DEFINE Kept(old, new, c) ==
        /\ new \in Seq(Credential)
        /\ \A v \in DOMAIN old : /\ v \in DOMAIN new
                                 /\ Held(c, v) /\ ~old[v].revoked => ~new[v].revoked
  <1>0. /\ now \in Nat /\ Issued \in Credential
        /\ \A c \in Connections : credentials[c] \in Seq(Credential)
        /\ credentials = [c \in Connections |-> credentials[c]]
        /\ connections \in [Connections -> {"none", "active", "disconnected"}]
    BY CredentialType DEF TypeOK, Credential
  <1>1. ASSUME NEW c \in Connections, NEW new, credentials' = [credentials EXCEPT ![c] = new],
               Kept(credentials[c], new, c)
        PROVE  /\ credentials' \in [Connections -> Seq(Credential)]
               /\ \A d \in Connections : \A v \in DOMAIN credentials[d] :
                    /\ v \in DOMAIN credentials'[d]
                    /\ Held(d, v) /\ ~credentials[d][v].revoked => ~credentials'[d][v].revoked
    <2>1. \A d \in Connections : credentials'[d] = IF d = c THEN new ELSE credentials[d]
      BY <1>0, <1>1
    <2>2. credentials' \in [Connections -> Seq(Credential)]
      BY <1>0, <1>1
    <2> QED BY <1>1, <2>1, <2>2
  <1>2. ASSUME NEW c \in Connections, Connect(c)
        PROVE  \E new : credentials' = [credentials EXCEPT ![c] = new] /\ Kept(credentials[c], new, c)
    <2>1. <<Issued>> \in Seq(Credential)
      BY <1>0
    <2>2. DOMAIN credentials[c] = {}
      BY <1>2 DEF Connect, Fresh
    <2> QED BY <1>2, <2>1, <2>2 DEF Connect
  <1>3. ASSUME NEW c \in Connections, Rotate(c)
        PROVE  \E new : credentials' = [credentials EXCEPT ![c] = new] /\ Kept(credentials[c], new, c)
    <2> DEFINE s == credentials[c]
               v == Len(s)
               cut == IF now + Overlap < s[v].until THEN now + Overlap ELSE s[v].until
               kept == IF s[v].revoked THEN s ELSE [s EXCEPT ![v] = [s[v] EXCEPT !.overlap = cut]]
    <2>0. s \in Seq(Credential) /\ v \in Nat /\ DOMAIN s = 1..v
      BY <1>0, LenProperties
    <2>1. kept \in Seq(Credential) /\ Len(kept) = v
          /\ \A u \in DOMAIN s : u \in DOMAIN kept /\ (~s[u].revoked => ~kept[u].revoked)
      <3>1. CASE v \in DOMAIN s
        <4>1. s[v] \in Credential
          BY <2>0, <3>1, ElementOfSeq
        <4>2. cut \in Nat
          <5>1. s[v].until \in Nat /\ Overlap \in Nat
            BY <4>1, BoundsAssumption, CredentialType
          <5> QED BY <1>0, <5>1
        <4> DEFINE k == [s[v] EXCEPT !.overlap = cut]
        <4>3. k \in Credential /\ k.revoked = s[v].revoked
          BY <4>1, <4>2, CredentialType
        <4> HIDE DEF k, cut
        <4>4. /\ [s EXCEPT ![v] = k] \in Seq(Credential) /\ Len([s EXCEPT ![v] = k]) = v
              /\ \A u \in 1..v : [s EXCEPT ![v] = k][u] = IF u = v THEN k ELSE s[u]
          BY <2>0, <3>1, <4>3, ExceptSeq
        <4>5. kept = s \/ kept = [s EXCEPT ![v] = k]
          BY DEF k
        <4>6. DOMAIN kept = 1..v
          BY <2>0, <4>4, <4>5, LenProperties
        <4> HIDE DEF kept
        <4> QED BY <2>0, <4>3, <4>4, <4>5, <4>6
      <3>2. CASE v \notin DOMAIN s
        <4>1. kept = s
          BY <2>0, <3>2
        <4> QED BY <2>0, <4>1
      <3> QED BY <3>1, <3>2
    <2>2. credentials' = [credentials EXCEPT ![c] = Append(kept, Issued)]
      BY <1>3 DEF Rotate
    <2> HIDE DEF kept, s, v
    <2>3. /\ Append(kept, Issued) \in Seq(Credential)
          /\ DOMAIN Append(kept, Issued) = 1..(v + 1)
          /\ \A u \in 1..v : Append(kept, Issued)[u] = kept[u]
      BY <1>0, <2>0, <2>1, AppendProperties, LenProperties
    <2>4. \A u \in DOMAIN s : u \in 1..(v + 1)
      BY <2>0
    <2>5. Kept(s, Append(kept, Issued), c)
      BY <2>0, <2>1, <2>3, <2>4
    <2> QED BY <2>2, <2>5 DEF s
  <1>4. ASSUME NEW c \in Connections, NEW v \in 1..MaxVersions, Revoke(c, v)
        PROVE  \E new : credentials' = [credentials EXCEPT ![c] = new] /\ Kept(credentials[c], new, c)
    <2> DEFINE s == credentials[c]
               k == [s[v] EXCEPT !.revoked = TRUE]
               new == [s EXCEPT ![v] = k]
    <2>0. s \in Seq(Credential) /\ v \in 1..Len(s) /\ DOMAIN s = 1..Len(s) /\ ~Held(c, v)
      BY <1>0, <1>4, LenProperties DEF Revoke
    <2>1. k \in Credential
      BY <2>0, ElementOfSeq, CredentialType
    <2>2. credentials' = [credentials EXCEPT ![c] = new]
      BY <1>4 DEF Revoke
    <2> HIDE DEF k, s
    <2>3. /\ new \in Seq(Credential) /\ Len(new) = Len(s)
          /\ \A u \in 1..Len(s) : new[u] = IF u = v THEN k ELSE s[u]
      BY <2>0, <2>1, ExceptSeq
    <2>4. DOMAIN new = DOMAIN s
      BY <2>0, <2>3, LenProperties
    <2> HIDE DEF new
    <2>5. Kept(s, new, c)
      BY <2>0, <2>3, <2>4
    <2> QED BY <2>2, <2>5 DEF s
  <1>5. ASSUME NEW c \in Connections, Disconnect(c)
        PROVE  \E new : credentials' = [credentials EXCEPT ![c] = new] /\ Kept(credentials[c], new, c)
    <2> DEFINE s == credentials[c]
               new == [v \in DOMAIN s |-> [s[v] EXCEPT !.revoked = TRUE]]
    <2>0. s \in Seq(Credential) /\ Len(s) \in Nat /\ DOMAIN s = 1..Len(s)
      BY <1>0, LenProperties
    <2>1. \A v \in DOMAIN s : [s[v] EXCEPT !.revoked = TRUE] \in Credential
      BY <2>0, ElementOfSeq, CredentialType
    <2>2. new \in [1..Len(s) -> Credential]
      BY <2>0, <2>1
    <2>3. new \in Seq(Credential) /\ DOMAIN new = DOMAIN s
      BY <2>0, <2>2
    <2>4. credentials' = [credentials EXCEPT ![c] = new]
      BY <1>5 DEF Disconnect
    <2>5. \A v \in DOMAIN s : ~s[v].revoked => ~Held(c, v)
      BY <1>5 DEF Disconnect
    <2> HIDE DEF new, s
    <2>6. Kept(s, new, c)
      BY <2>3, <2>5
    <2> QED BY <2>4, <2>6 DEF s
  <1>6. PICK c \in Connections :
          Connect(c) \/ Rotate(c) \/ Disconnect(c) \/ \E v \in 1..MaxVersions : Revoke(c, v)
    BY DEF WireStep
  <1>7. \E new : credentials' = [credentials EXCEPT ![c] = new] /\ Kept(credentials[c], new, c)
    BY <1>2, <1>3, <1>4, <1>5, <1>6
  <1>8. /\ credentials' \in [Connections -> Seq(Credential)]
        /\ \A d \in Connections : \A v \in DOMAIN credentials[d] :
             /\ v \in DOMAIN credentials'[d]
             /\ Held(d, v) /\ ~credentials[d][v].revoked => ~credentials'[d][v].revoked
    BY <1>1, <1>7
  <1>9. connections' \in [Connections -> {"none", "active", "disconnected"}]
    BY <1>0, <1>6 DEF Connect, Rotate, Revoke, Disconnect
  <1>10. \A d \in Connections : \A v \in DOMAIN credentials[d] :
           Held(d, v) /\ connections[d] = "active" /\ ~credentials[d][v].revoked =>
             connections'[d] = "active"
    BY <1>0, <1>6 DEF Connect, Rotate, Revoke, Disconnect
  <1>11. connections'[c] # "none"
         /\ \A d \in Connections \ {c} : connections'[d] = connections[d]
                                         /\ credentials'[d] = credentials[d]
    <2>1. \A d \in Connections \ {c} : credentials'[d] = credentials[d]
      BY <1>0, <1>7
    <2>2. connections'[c] # "none" /\ \A d \in Connections \ {c} : connections'[d] = connections[d]
      BY <1>0, <1>6 DEF Connect, Rotate, Revoke, Disconnect
    <2> QED BY <2>1, <2>2
  <1> QED BY <1>8, <1>9, <1>10, <1>11 DEF Fresh

\* A row that moves with its member is a row, of the same event.
LEMMA MovedType ==
  ASSUME NEW s \in Members, NEW t \in Members
  PROVE  /\ \A row \in {NoRow} \cup OrderRows :
              /\ Moved(s, t, row) \in {NoRow} \cup OrderRows
              /\ row = NoRow <=> Moved(s, t, row) = NoRow
              /\ Moved(s, t, row).last = row.last
              /\ row # NoRow => Moved(s, t, row).refunded = row.refunded
         /\ \A row \in {NoRow} \cup Attributions :
              /\ Moved(s, t, row) \in {NoRow} \cup Attributions
              /\ row = NoRow <=> Moved(s, t, row) = NoRow
              /\ Moved(s, t, row).last = row.last
              /\ row # NoRow => /\ Moved(s, t, row).net = row.net
                                /\ Moved(s, t, row).coupon = row.coupon
  <1>1. ASSUME NEW row \in OrderRows
        PROVE  [row EXCEPT !.member = t] \in OrderRows /\ row # NoRow
    BY <1>1, EventsAssumption DEF OrderRows, OrNil, NoRow
  <1>2. ASSUME NEW row \in Attributions
        PROVE  [row EXCEPT !.member = t] \in Attributions /\ row # NoRow
    BY <1>2, EventsAssumption DEF Attributions, OrNil, NoRow
  <1>3. ASSUME NEW row \in OrderRows
        PROVE  /\ [row EXCEPT !.member = t].last = row.last
               /\ [row EXCEPT !.member = t].refunded = row.refunded
    BY <1>3 DEF OrderRows
  <1>4. ASSUME NEW row \in Attributions
        PROVE  /\ [row EXCEPT !.member = t].last = row.last
               /\ [row EXCEPT !.member = t].net = row.net
               /\ [row EXCEPT !.member = t].coupon = row.coupon
    BY <1>4 DEF Attributions
  <1> QED BY <1>1, <1>2, <1>3, <1>4 DEF Moved

\* The memberships, references and coupons keep their types.
LEMMA PeopleType ==
  ASSUME TypeOK, PeopleStep
  PROVE  /\ members' \in [Members -> {"active", "merged"}]
         /\ references' \in [Connections -> [Refs -> OrNil(Members)]]
         /\ judged' \in [Connections -> SUBSET Members]
         /\ used' \in [Coupons -> [member : OrNil(Members), by : SUBSET Orders]]
  <1> USE DEF TypeOK, OrNil
  <1>1. ASSUME NEW c \in Connections, NEW m \in Members, NEW r \in Refs,
               EnsureReference(c, m, r) \/ \E h \in Handoffs : IssueHandoff(h, c, m, r)
        PROVE  /\ UNCHANGED <<members, judged, used>>
               /\ references' \in [Connections -> [Refs -> OrNil(Members)]]
    <2>1. references' = [references EXCEPT ![c][r] = m] /\ UNCHANGED <<members, judged, used>>
      BY <1>1 DEF EnsureReference, IssueHandoff
    <2> QED BY <2>1
  <1>2. ASSUME NEW k \in Coupons, NEW m \in Members, NEW o \in Orders, CommitCoupon(k, m, o)
        PROVE  /\ UNCHANGED <<members, references, judged>>
               /\ used' \in [Coupons -> [member : OrNil(Members), by : SUBSET Orders]]
    BY <1>2 DEF CommitCoupon
  <1>3. ASSUME NEW a \in Members, NEW b \in Members, MergeMembers(a, b)
        PROVE  /\ UNCHANGED <<references, judged, used>>
               /\ members' \in [Members -> {"active", "merged"}]
    BY <1>3 DEF MergeMembers
  <1>4. ASSUME NEW c \in Connections, NEW m \in Members, ReadMember(c, m)
        PROVE  /\ UNCHANGED <<members, references, used>>
               /\ judged' \in [Connections -> SUBSET Members]
    BY <1>4 DEF ReadMember
  <1> QED BY <1>1, <1>2, <1>3, <1>4 DEF PeopleStep

\* A request moves from idle to resolved to new to scoped, and keeps what it has read.
LEMMA RequestType ==
  ASSUME TypeOK, RequestStep
  PROVE  requests' \in [Requests -> {Idle} \cup Requested \cup Scoped]
  <1> USE DEF TypeOK
  <1>0. /\ \A r \in Requested : r # Idle /\ r.pc # "idle" /\ r.pc # "scoped"
        /\ \A r \in Scoped : r.pc = "scoped"
        /\ Idle.pc = "idle"
    BY DEF Requested, Scoped, Idle
  <1>1. ASSUME NEW q \in Requests, NEW state \in {Idle} \cup Requested \cup Scoped, To(q, state)
        PROVE  requests' \in [Requests -> {Idle} \cup Requested \cup Scoped]
    BY <1>1 DEF To
  <1>2. ASSUME NEW q \in Requests, NEW c \in Connections, NEW v \in 1..MaxVersions,
               NEW e \in Events, Resolve(q, c, v, e)
        PROVE  requests' \in [Requests -> {Idle} \cup Requested \cup Scoped]
    <2>1. [pc |-> "resolved", conn |-> c, version |-> v, event |-> e] \in Requested
      BY DEF Requested
    <2> QED BY <1>1, <1>2, <2>1 DEF Resolve
  <1>3. ASSUME NEW q \in Requests, ReadInbox(q)
        PROVE  requests' \in [Requests -> {Idle} \cup Requested \cup Scoped]
    <2>1. requests[q] \in Requested
      BY <1>0, <1>3 DEF ReadInbox
    <2>2. [requests[q] EXCEPT !.pc = "new"] \in Requested
      BY <2>1 DEF Requested
    <2> QED BY <1>1, <1>3, <2>2 DEF ReadInbox
  <1>4. ASSUME NEW q \in Requests, Accept(q)
        PROVE  requests' \in [Requests -> {Idle} \cup Requested \cup Scoped]
    <2> DEFINE r == requests[q]
               next == [pc |-> "scoped", conn |-> r.conn, version |-> r.version,
                        event |-> r.event, member |-> MemberOf(r.conn, r.event)]
    <2>1. r \in Requested
      BY <1>0, <1>4 DEF Accept
    <2>2. r.conn \in Connections /\ r.version \in 1..MaxVersions /\ r.event \in Events
      BY <2>1 DEF Requested
    <2>3. MemberOf(r.conn, r.event) \in OrNil(Members)
      BY <2>2, EventsAssumption DEF MemberOf, OrNil
    <2>4. next \in Scoped
      BY <2>2, <2>3 DEF Scoped
    <2>5. To(q, next) \/ To(q, Idle)
      BY <1>4 DEF Accept
    <2> HIDE DEF next
    <2> QED BY <1>1, <2>4, <2>5
  <1>5. ASSUME NEW q \in Requests, Project(q) \/ RollBack(q)
        PROVE  requests' \in [Requests -> {Idle} \cup Requested \cup Scoped]
    BY <1>1, <1>5 DEF Project, RollBack
  <1> QED BY <1>2, <1>3, <1>4, <1>5 DEF RequestStep

FactsType ==
  /\ inbox \in [Connections -> SUBSET [event : Events, version : 1..MaxVersions]]
  /\ orders \in [Connections -> [Orders -> {NoRow} \cup OrderRows]]
  /\ refunds \in [Connections -> [Orders -> Refundings]]
  /\ attributions \in [Connections -> [Orders -> {NoRow} \cup Attributions]]

\* What the projection of event e, of order o on connection c, writes: the message, the
\* refunds that are new and, if the event is newer, both rows; of that order alone.
Writes(q, c, e, o) ==
  /\ requests[q].conn = c /\ requests[q].event = e /\ Event[e].order = o
  /\ \A d \in Connections : inbox'[d] = IF d = c
       THEN inbox[d] \cup {[event |-> e, version |-> requests[q].version]} ELSE inbox[d]
  /\ \A d \in Connections, p \in Orders : ~(d = c /\ p = o) =>
       /\ orders'[d][p] = orders[d][p] /\ refunds'[d][p] = refunds[d][p]
       /\ attributions'[d][p] = attributions[d][p]
  /\ refunds'[c][o] =
       [x \in DOMAIN refunds[c][o] \cup DOMAIN Event[e].refunds |->
          IF x \in DOMAIN refunds[c][o] THEN refunds[c][o][x] ELSE Event[e].refunds[x]]
  /\ ~IsNewer(c, e) =>
       orders'[c][o] = orders[c][o] /\ attributions'[c][o] = attributions[c][o]
  /\ IsNewer(c, e) =>
       /\ orders'[c][o] # NoRow
       /\ orders'[c][o].last = e /\ orders'[c][o].refunded = Refunded(e)
       /\ attributions'[c][o].last = e /\ attributions'[c][o].coupon = Event[e].coupon
       /\ attributions'[c][o].net = Event[e].original - Refunded(e)
       /\ orders'[c][o].member = requests[q].member
       /\ attributions'[c][o].member = requests[q].member

\* A projection writes no more than that.
LEMMA ProjectWrites ==
  ASSUME TypeOK, NEW q \in Requests, Project(q)
  PROVE  /\ FactsType' /\ UNCHANGED wire
         /\ \E c \in Connections, e \in Events, o \in Orders :
              Writes(q, c, e, o) /\ Projectable(c, e)
  <1> DEFINE r == requests[q]
             c == r.conn
             e == r.event
             o == Event[e].order
             row == OrderRow(c, e, r.member)
             told == Attribution(c, e, r.member)
             kept == [x \in DOMAIN refunds[c][o] \cup DOMAIN Event[e].refunds |->
                       IF x \in DOMAIN refunds[c][o] THEN refunds[c][o][x] ELSE Event[e].refunds[x]]
  <1>0. r \in Scoped
    <2>1. r.pc = "scoped" /\ r \in {Idle} \cup Requested \cup Scoped
      BY DEF Project, TypeOK
    <2>2. Idle.pc = "idle" /\ \A k \in Requested : k.pc \in {"resolved", "new"}
      BY DEF Idle, Requested
    <2> QED BY <2>1, <2>2
  <1>1. /\ c \in Connections /\ e \in Events /\ o \in Orders
        /\ r.version \in 1..MaxVersions /\ r.member \in OrNil(Members)
    BY <1>0, EventsAssumption DEF Scoped
  <1>2. /\ row \in OrderRows /\ row.last = e /\ row.refunded = Refunded(e)
        /\ row.member = r.member
    <2>1. [p \in Event[e].products |-> p \in mapped[c]] \in [Event[e].products -> BOOLEAN]
      OBVIOUS
    <2>2. [p \in Event[e].products |-> p \in mapped[c]] \in
            UNION {[S -> BOOLEAN] : S \in SUBSET Products}
      BY <1>1, <2>1, EventsAssumption
    <2>3. Refunded(e) \in Int
      BY <1>1, RefundedType
    <2>4. (Event[e].complete /\ Event[e].products \subseteq mapped[c]) \in BOOLEAN
      OBVIOUS
    <2> QED BY <1>1, <2>2, <2>3, <2>4 DEF OrderRow, OrderRows
  <1>3. /\ told \in Attributions /\ told.last = e /\ told.coupon = Event[e].coupon
        /\ told.net = Event[e].original - Refunded(e) /\ told.member = r.member
    <2>1. Event[e].original \in Int /\ Refunded(e) \in Int /\ Event[e].coupon \in OrNil(Coupons)
      BY <1>1, EventsAssumption, RefundedType
    <2>2. Event[e].original - Refunded(e) \in Int
      BY <2>1
    <2>3. (r.member # Nil /\ Event[e].sold /\ Event[e].original > Refunded(e)) \in BOOLEAN
      OBVIOUS
    <2> QED BY <1>1, <2>1, <2>2, <2>3 DEF Attribution, Attributions
  <1>4. /\ \A d \in Connections : inbox'[d] = IF d = c
             THEN inbox[d] \cup {[event |-> e, version |-> r.version]} ELSE inbox[d]
        /\ inbox' \in [Connections -> SUBSET [event : Events, version : 1..MaxVersions]]
    <2>1. inbox' = [inbox EXCEPT ![c] = @ \cup {[event |-> e, version |-> r.version]}]
      BY DEF Project
    <2>2. [event |-> e, version |-> r.version] \in [event : Events, version : 1..MaxVersions]
      BY <1>1
    <2> DEFINE i == [event |-> e, version |-> r.version]
    <2> HIDE DEF c, e, r, i
    <2> QED BY <1>1, <2>1, <2>2 DEF TypeOK, i
  <1>5. IF IsNewer(c, e)
        THEN /\ orders' = [orders EXCEPT ![c][o] = row]
             /\ attributions' = [attributions EXCEPT ![c][o] = told]
        ELSE UNCHANGED <<orders, attributions>>
    BY DEF Project
  <1>6. refunds' = [refunds EXCEPT ![c][o] = kept]
    BY DEF Project
  <1>7. kept \in Refundings
    <2>1. refunds[c][o] \in Refundings /\ Event[e].refunds \in Refundings
      BY <1>1, EventsAssumption DEF TypeOK
    <2>2. PICK A \in SUBSET RefundIds : refunds[c][o] \in [A -> Amounts]
      BY <2>1 DEF Refundings
    <2>3. PICK B \in SUBSET RefundIds : Event[e].refunds \in [B -> Amounts]
      BY <2>1 DEF Refundings
    <2>4. kept \in [A \cup B -> Amounts] /\ A \cup B \in SUBSET RefundIds
      BY <2>2, <2>3
    <2> QED BY <2>4 DEF Refundings
  <1>8. UNCHANGED wire /\ Projectable(c, e)
    BY DEF Project
  <1> HIDE DEF kept, row, told, e, c, o
  <1>9. /\ \A d \in Connections, p \in Orders :
             /\ orders'[d][p] = IF d = c /\ p = o /\ IsNewer(c, e) THEN row ELSE orders[d][p]
             /\ attributions'[d][p] =
                  IF d = c /\ p = o /\ IsNewer(c, e) THEN told ELSE attributions[d][p]
        /\ orders' \in [Connections -> [Orders -> {NoRow} \cup OrderRows]]
        /\ attributions' \in [Connections -> [Orders -> {NoRow} \cup Attributions]]
    <2>1. /\ orders \in [Connections -> [Orders -> {NoRow} \cup OrderRows]]
          /\ attributions \in [Connections -> [Orders -> {NoRow} \cup Attributions]]
      BY DEF TypeOK
    <2>2. CASE IsNewer(c, e)
      <3>1. /\ orders' = [orders EXCEPT ![c][o] = row]
            /\ attributions' = [attributions EXCEPT ![c][o] = told]
        BY <1>5, <2>2
      <3> QED BY <1>1, <1>2, <1>3, <2>1, <2>2, <3>1
    <2>3. CASE ~IsNewer(c, e)
      BY <1>5, <2>1, <2>3
    <2> QED BY <2>2, <2>3
  <1>10. /\ refunds'[c][o] = kept
         /\ \A d \in Connections, p \in Orders :
              ~(d = c /\ p = o) => refunds'[d][p] = refunds[d][p]
         /\ refunds' \in [Connections -> [Orders -> Refundings]]
    BY <1>1, <1>6, <1>7 DEF TypeOK
  <1>11. row # NoRow
    BY <1>2, EventsAssumption DEF OrderRows, NoRow
  <1>12. FactsType'
    BY <1>4, <1>9, <1>10 DEF FactsType
  <1>13. Writes(q, c, e, o)
    <2>1. IsNewer(c, e) => orders'[c][o] = row /\ attributions'[c][o] = told
      BY <1>1, <1>9
    <2>2. ~IsNewer(c, e) => orders'[c][o] = orders[c][o] /\ attributions'[c][o] = attributions[c][o]
      BY <1>1, <1>9
    <2>3. \A d \in Connections, p \in Orders : ~(d = c /\ p = o) =>
            orders'[d][p] = orders[d][p] /\ attributions'[d][p] = attributions[d][p]
      BY <1>9
    <2>4. requests[q].conn = c /\ requests[q].event = e /\ Event[e].order = o
          /\ requests[q].version = r.version
      BY DEF c, e, o
    <2>5. refunds'[c][o] = [x \in DOMAIN refunds[c][o] \cup DOMAIN Event[e].refunds |->
            IF x \in DOMAIN refunds[c][o] THEN refunds[c][o][x] ELSE Event[e].refunds[x]]
      BY <1>10 DEF kept
    <2> QED BY <1>2, <1>3, <1>4, <1>10, <1>11, <2>1, <2>2, <2>3, <2>4, <2>5 DEF Writes
  <1> QED BY <1>1, <1>8, <1>12, <1>13

\* What a merge writes: the rows of one member become another's.
LEMMA MergeWrites ==
  ASSUME TypeOK, NEW s \in Members, NEW t \in Members, MergeMembers(s, t)
  PROVE  /\ UNCHANGED <<inbox, refunds>>
         /\ \A c \in Connections, o \in Orders :
              /\ orders'[c][o] = Moved(s, t, orders[c][o])
              /\ attributions'[c][o] = Moved(s, t, attributions[c][o])
         /\ orders' \in [Connections -> [Orders -> {NoRow} \cup OrderRows]]
         /\ attributions' \in [Connections -> [Orders -> {NoRow} \cup Attributions]]
  <1>1. /\ \A c \in Connections, o \in Orders :
             /\ orders'[c][o] = Moved(s, t, orders[c][o])
             /\ attributions'[c][o] = Moved(s, t, attributions[c][o])
        /\ orders' = [c \in Connections |-> [o \in Orders |-> Moved(s, t, orders[c][o])]]
        /\ attributions' = [c \in Connections |-> [o \in Orders |-> Moved(s, t, attributions[c][o])]]
    BY DEF MergeMembers
  <1>2. \A c \in Connections, o \in Orders :
          /\ Moved(s, t, orders[c][o]) \in {NoRow} \cup OrderRows
          /\ Moved(s, t, attributions[c][o]) \in {NoRow} \cup Attributions
    BY MovedType DEF TypeOK
  <1> QED BY <1>1, <1>2 DEF MergeMembers

\* Nothing has been connected, named, sold or received at the start.
LEMMA TypeInit == Init => TypeOK
  <1> SUFFICES ASSUME Init PROVE TypeOK
    OBVIOUS
  <1>1. 0 \in 0..MaxTime /\ <<>> \in Seq(Credential)
    BY BoundsAssumption
  <1>2. <<>> \in Refundings
    <2>1. <<>> \in [{} -> Amounts]
      OBVIOUS
    <2> QED BY <2>1 DEF Refundings
  <1> QED BY <1>1, <1>2 DEF Init, TypeOK, Credential, OrNil

\* No step leaves the types.
LEMMA TypeStep == TypeOK /\ Fresh /\ [Next]_vars => TypeOK'
  <1> SUFFICES ASSUME TypeOK, Fresh, [Next]_vars PROVE TypeOK'
    OBVIOUS
  <1>1. /\ connections' \in [Connections -> {"none", "active", "disconnected"}]
        /\ credentials' \in [Connections -> Seq(Credential)]
    <2>1. CASE WireStep
      BY <2>1, WireKeeps
    <2>2. CASE UNCHANGED wire
      BY <2>2 DEF wire, TypeOK, Credential
    <2> QED BY <2>1, <2>2, Frames
  <1>2. /\ members' \in [Members -> {"active", "merged"}]
        /\ references' \in [Connections -> [Refs -> OrNil(Members)]]
        /\ judged' \in [Connections -> SUBSET Members]
        /\ used' \in [Coupons -> [member : OrNil(Members), by : SUBSET Orders]]
    <2>1. CASE PeopleStep
      BY <2>1, PeopleType
    <2>2. CASE UNCHANGED people
      BY <2>2 DEF people, TypeOK
    <2> QED BY <2>1, <2>2, Frames
  <1>3. requests' \in [Requests -> {Idle} \cup Requested \cup Scoped]
    <2>1. CASE RequestStep
      BY <2>1, RequestType
    <2>2. CASE UNCHANGED requests
      BY <2>2 DEF TypeOK
    <2> QED BY <2>1, <2>2, Frames
  <1> DEFINE HandoffsTyped == handoffs' \in [Handoffs -> [status : {"none"}] \cup
               [status : {"issued", "redeemed"}, conn : Connections, ref : Refs, expires : Nat]]
  <1>4. FactsType'
    <2>1. ASSUME NEW q \in Requests, Project(q) PROVE  FactsType'
      BY <2>1, ProjectWrites
    <2>2. ASSUME NEW a \in Members, NEW b \in Members, MergeMembers(a, b)
          PROVE  FactsType'
      BY <2>2, MergeWrites DEF TypeOK, FactsType
    <2>3. CASE UNCHANGED facts
      BY <2>3 DEF facts, TypeOK, FactsType
    <2> QED BY <2>1, <2>2, <2>3, Frames
  <1>5. now' \in 0..MaxTime /\ mapped' \in [Connections -> SUBSET Products]
    <2>1. CASE UNCHANGED mapped
      <3>1. CASE Tick
        BY <2>1, <3>1, BoundsAssumption DEF Tick, TypeOK
      <3>2. CASE UNCHANGED now
        BY <2>1, <3>2 DEF TypeOK
      <3>3. UNCHANGED now \/ Tick
        BY DEF Next, Connect, Rotate, Disconnect, Revoke, MapProduct, ReadMember, EnsureReference,
               IssueHandoff, RedeemHandoff, CommitCoupon, MergeMembers, Resolve, ReadInbox,
               Accept, Project, RollBack, vars
      <3> QED BY <3>1, <3>2, <3>3
    <2>2. ASSUME NEW c \in Connections, NEW p \in Products, MapProduct(c, p)
          PROVE  now' \in 0..MaxTime /\ mapped' \in [Connections -> SUBSET Products]
      BY <2>2 DEF MapProduct, TypeOK
    <2>3. UNCHANGED mapped \/ \E c \in Connections, p \in Products : MapProduct(c, p)
      BY DEF Next, Tick, Connect, Rotate, Disconnect, Revoke, ReadMember, EnsureReference,
             IssueHandoff, RedeemHandoff, CommitCoupon, MergeMembers, Resolve, ReadInbox,
             Accept, Project, RollBack, vars
    <2> QED BY <2>1, <2>2, <2>3
  <1>6. HandoffsTyped
    <2>1. ASSUME NEW h \in Handoffs, NEW c \in Connections, NEW m \in Members, NEW r \in Refs,
                 IssueHandoff(h, c, m, r)
          PROVE  HandoffsTyped
      <3>1. now + HandoffLife \in Nat
        BY BoundsAssumption DEF TypeOK
      <3> QED BY <2>1, <3>1 DEF IssueHandoff, TypeOK
    <2>2. ASSUME NEW h \in Handoffs, RedeemHandoff(h) PROVE HandoffsTyped
      <3> DEFINE row == [handoffs[h] EXCEPT !.status = "redeemed"]
      <3>1. handoffs[h] \in [status : {"issued", "redeemed"}, conn : Connections, ref : Refs,
                             expires : Nat]
        BY <2>2 DEF RedeemHandoff, TypeOK
      <3>2. row \in [status : {"issued", "redeemed"}, conn : Connections, ref : Refs, expires : Nat]
        BY <3>1
      <3>3. handoffs' = [handoffs EXCEPT ![h] = row]
        BY <2>2 DEF RedeemHandoff
      <3> HIDE DEF row
      <3> QED BY <3>2, <3>3 DEF TypeOK
    <2>3. CASE UNCHANGED handoffs
      BY <2>3 DEF TypeOK
    <2>4. \/ UNCHANGED handoffs \/ \E h \in Handoffs : RedeemHandoff(h)
          \/ \E h \in Handoffs, c \in Connections, m \in Members, r \in Refs : IssueHandoff(h, c, m, r)
      BY DEF Next, Tick, Connect, Rotate, Disconnect, Revoke, MapProduct, ReadMember, EnsureReference,
             CommitCoupon, MergeMembers, Resolve, ReadInbox, Accept, Project, RollBack, vars
    <2> QED BY <2>1, <2>2, <2>3, <2>4
  <1> QED BY <1>1, <1>2, <1>3, <1>4, <1>5, <1>6 DEF TypeOK, FactsType, Credential
-----------------------------------------------------------------------------
(* The credential, and the references                                      *)

\* Whatever the manager does between the sessions of a request, the credential that
\* accepted its message is good until the message is written.
LEMMA ScopedIsOpenStep == TypeOK /\ Fresh /\ ScopedIsOpen /\ [Next]_vars => Fresh' /\ ScopedIsOpen'
  <1> SUFFICES ASSUME TypeOK, Fresh, ScopedIsOpen, [Next]_vars PROVE Fresh' /\ ScopedIsOpen'
    OBVIOUS
  <1>0. /\ \A q \in Requests : requests[q].pc # "idle" => requests[q].conn \in Connections
        /\ Idle.pc = "idle"
    BY DEF TypeOK, Idle, Requested, Scoped
  <1>1. CASE UNCHANGED <<wire, requests>>
    BY <1>1 DEF wire, Fresh, ScopedIsOpen
  <1>2. CASE WireStep /\ UNCHANGED requests
    <2> SUFFICES ASSUME NEW q \in Requests, requests[q].pc # "idle"
                 PROVE  LET r == requests[q] IN
                        /\ r.version \in DOMAIN credentials'[r.conn]
                        /\ r.pc = "scoped" => /\ connections'[r.conn] = "active"
                                              /\ ~credentials'[r.conn][r.version].revoked
      BY <1>2, WireKeeps DEF ScopedIsOpen
    <2> DEFINE c == requests[q].conn
               v == requests[q].version
    <2>1. c \in Connections /\ v \in DOMAIN credentials[c]
      BY <1>0 DEF ScopedIsOpen
    <2>2. requests[q].pc = "scoped" =>
            Held(c, v) /\ connections[c] = "active" /\ ~credentials[c][v].revoked
      BY DEF ScopedIsOpen, Held
    <2> QED BY <1>2, <2>1, <2>2, WireKeeps
  <1>3. CASE RequestStep /\ UNCHANGED wire
    <2>1. Fresh'
      BY <1>3 DEF wire, Fresh
    <2>2. ASSUME NEW q \in Requests, NEW state, To(q, state), UNCHANGED wire,
                 state.pc # "idle" =>
                   /\ state.version \in DOMAIN credentials[state.conn]
                   /\ state.pc = "scoped" => /\ connections[state.conn] = "active"
                                             /\ ~credentials[state.conn][state.version].revoked
          PROVE  ScopedIsOpen'
      <3>1. \A p \in Requests : requests'[p] = IF p = q THEN state ELSE requests[p]
        BY <2>2 DEF To, TypeOK
      <3> QED BY <2>2, <3>1 DEF ScopedIsOpen, wire
    <2>3. ASSUME NEW q \in Requests, NEW c \in Connections, NEW v \in 1..MaxVersions,
                 NEW e \in Events, Resolve(q, c, v, e)
          PROVE  ScopedIsOpen'
      BY <1>3, <2>2, <2>3 DEF Resolve
    <2>4. ASSUME NEW q \in Requests, ReadInbox(q) PROVE ScopedIsOpen'
      <3> DEFINE next == [requests[q] EXCEPT !.pc = "new"]
      <3>1. requests[q] \in Requested
        BY <1>0, <2>4 DEF ReadInbox, TypeOK, Scoped
      <3>2. /\ next.pc = "new" /\ next.conn = requests[q].conn
            /\ next.version = requests[q].version
        BY <3>1 DEF Requested
      <3>3. next.version \in DOMAIN credentials[next.conn]
        BY <2>4, <3>2 DEF ReadInbox, ScopedIsOpen
      <3>4. To(q, next) \/ To(q, Idle)
        BY <2>4 DEF ReadInbox
      <3> HIDE DEF next
      <3> QED BY <1>0, <1>3, <2>2, <3>2, <3>3, <3>4
    <2>5. ASSUME NEW q \in Requests, Accept(q) PROVE ScopedIsOpen'
      <3> DEFINE r == requests[q]
                 next == [pc |-> "scoped", conn |-> r.conn, version |-> r.version,
                          event |-> r.event, member |-> MemberOf(r.conn, r.event)]
      <3>1. r.version \in DOMAIN credentials[r.conn]
        BY <2>5 DEF Accept, ScopedIsOpen
      <3>2. next.conn = r.conn /\ next.version = r.version
        OBVIOUS
      <3>3. CASE Acceptable(r.conn, r.version, r.event)
        <4>1. connections[r.conn] = "active" /\ ~credentials[r.conn][r.version].revoked
          BY <3>3 DEF Acceptable, Usable
        <4>2. To(q, next)
          BY <2>5, <3>3 DEF Accept
        <4> HIDE DEF next
        <4> QED BY <1>3, <2>2, <3>1, <3>2, <4>1, <4>2
      <3>4. CASE ~Acceptable(r.conn, r.version, r.event)
        <4>1. To(q, Idle)
          BY <2>5, <3>4 DEF Accept
        <4> QED BY <1>0, <1>3, <2>2, <4>1
      <3> QED BY <3>3, <3>4
    <2>6. ASSUME NEW q \in Requests, Project(q) \/ RollBack(q) PROVE ScopedIsOpen'
      BY <1>0, <1>3, <2>2, <2>6 DEF Project, RollBack
    <2> QED BY <1>3, <2>1, <2>3, <2>4, <2>5, <2>6 DEF RequestStep
  <1>4. ~(WireStep /\ RequestStep) \/ UNCHANGED wire \/ UNCHANGED requests
    BY DEF RequestStep, Resolve, ReadInbox, Accept, Project, RollBack
  <1> QED BY <1>1, <1>2, <1>3, <1>4, Frames DEF RequestStep, Resolve, ReadInbox, Accept, Project,
             RollBack

\* Nothing ends a membership that has a reference: references are never rewritten, and a
\* merge takes only members without.
LEMMA SettledStays ==
  ASSUME TypeOK, [Next]_vars, NEW x \in OrNil(Members), Settled(x)
  PROVE  SettledNext(x)
  <1> SUFFICES ASSUME x # Nil
               PROVE  /\ members'[x] = "active"
                      /\ \E c \in Connections, r \in Refs : references'[c][r] = x
    BY DEF SettledNext
  <1>1. /\ x \in Members /\ members[x] = "active"
        /\ \E c \in Connections, r \in Refs : references[c][r] = x
    BY DEF Settled, OrNil
  <1>2. PICK d \in Connections, s \in Refs : references[d][s] = x
    BY <1>1
  <1>3. ASSUME NEW c \in Connections, NEW m \in Members, NEW r \in Refs,
               EnsureReference(c, m, r) \/ \E h \in Handoffs : IssueHandoff(h, c, m, r)
        PROVE  members'[x] = "active" /\ references'[d][s] = x
    <2>1. /\ Names(c, m, r) /\ UNCHANGED members
          /\ references' = [references EXCEPT ![c][r] = m]
      BY <1>3 DEF EnsureReference, IssueHandoff
    <2>2. references[c][r] = m \/ references[c][r] = Nil
      BY <2>1 DEF Names
    <2>3. references'[d][s] = IF d = c /\ s = r THEN m ELSE references[d][s]
      BY <2>1 DEF TypeOK
    <2> QED BY <1>1, <1>2, <2>1, <2>2, <2>3
  <1>4. ASSUME NEW a \in Members, NEW b \in Members, MergeMembers(a, b)
        PROVE  members'[x] = "active" /\ references'[d][s] = x
    <2>1. /\ Movable(a) /\ UNCHANGED references
          /\ members' = [members EXCEPT ![a] = "merged"]
      BY <1>4 DEF MergeMembers
    <2>2. x # a
      BY <1>2, <2>1 DEF Movable
    <2> QED BY <1>1, <1>2, <2>1, <2>2 DEF TypeOK
  <1>5. CASE UNCHANGED <<members, references>>
    BY <1>1, <1>2, <1>5
  <1>6. (\E c \in Connections, m \in Members : ReadMember(c, m))
          \/ (\E k \in Coupons, m \in Members, o \in Orders : CommitCoupon(k, m, o))
          \/ UNCHANGED people => UNCHANGED <<members, references>>
    BY DEF ReadMember, CommitCoupon, people
  <1> QED BY <1>2, <1>3, <1>4, <1>5, <1>6, Frames DEF PeopleStep

\* A merge finds no order of the member it takes.
LEMMA MergeLeavesRows ==
  ASSUME TypeOK, RowsAreSettled, NEW a \in Members, NEW b \in Members, MergeMembers(a, b)
  PROVE  \A c \in Connections, o \in Orders :
           orders'[c][o] = orders[c][o] /\ attributions'[c][o] = attributions[c][o]
  <1>1. ~Settled(a)
    BY MembersAssumption DEF MergeMembers, Movable, Settled
  <1>2. \A row : (row # NoRow => Settled(row.member)) => Moved(a, b, row) = row
    BY <1>1 DEF Moved
  <1> QED BY <1>2, MergeWrites DEF RowsAreSettled

\* What a request has read about its member stays so until it writes, and what it wrote
\* stays so for good.
LEMMA RowsAreSettledStep == TypeOK /\ RowsAreSettled /\ [Next]_vars => RowsAreSettled'
  <1> SUFFICES ASSUME TypeOK, RowsAreSettled, [Next]_vars PROVE RowsAreSettled'
    OBVIOUS
  <1>1. \A x \in OrNil(Members) : Settled(x) => SettledNext(x)
    BY SettledStays
  <1>2. ASSUME NEW c \in Connections, NEW o \in Orders
        PROVE  /\ orders[c][o] # NoRow => SettledNext(orders[c][o].member)
               /\ attributions[c][o] # NoRow => SettledNext(attributions[c][o].member)
    <2>1. /\ orders[c][o] \in {NoRow} \cup OrderRows
          /\ attributions[c][o] \in {NoRow} \cup Attributions
      BY DEF TypeOK
    <2>2. /\ orders[c][o] # NoRow => orders[c][o].member \in OrNil(Members)
          /\ attributions[c][o] # NoRow => attributions[c][o].member \in OrNil(Members)
      BY <2>1 DEF OrderRows, Attributions
    <2> QED BY <1>1, <2>2 DEF RowsAreSettled
  <1>3. ASSUME NEW q \in Requests, requests[q].pc = "scoped"
        PROVE  SettledNext(requests[q].member)
    <2>1. requests[q] \in Scoped
      <3>1. requests[q] \in {Idle} \cup Requested \cup Scoped
        BY DEF TypeOK
      <3>2. Idle.pc = "idle" /\ \A k \in Requested : k.pc \in {"resolved", "new"}
        BY DEF Idle, Requested
      <3> QED BY <1>3, <3>1, <3>2
    <2>2. requests[q].member \in OrNil(Members)
      BY <2>1 DEF Scoped
    <2> QED BY <1>1, <1>3, <2>2 DEF RowsAreSettled
  <1> DEFINE RowsGood == \A c \in Connections, o \in Orders :
               /\ orders'[c][o] # NoRow => SettledNext(orders'[c][o].member)
               /\ attributions'[c][o] # NoRow => SettledNext(attributions'[c][o].member)
             RequestsGood == \A q \in Requests :
               requests'[q].pc = "scoped" => SettledNext(requests'[q].member)
  <1>4. RowsGood
    <2>1. ASSUME NEW q \in Requests, Project(q) PROVE RowsGood
      <3>1. PICK c \in Connections, e \in Events, o \in Orders : Writes(q, c, e, o)
        BY <2>1, ProjectWrites
      <3>2. SettledNext(requests[q].member)
        BY <1>3, <2>1 DEF Project
      <3>3. \A d \in Connections, p \in Orders :
              \/ orders'[d][p] = orders[d][p] /\ attributions'[d][p] = attributions[d][p]
              \/ /\ orders'[d][p].member = requests[q].member
                 /\ attributions'[d][p].member = requests[q].member
        BY <3>1 DEF Writes
      <3> QED BY <1>2, <3>2, <3>3
    <2>2. ASSUME NEW a \in Members, NEW b \in Members, MergeMembers(a, b) PROVE RowsGood
      BY <1>2, <2>2, MergeLeavesRows
    <2>3. CASE UNCHANGED facts
      BY <1>2, <2>3 DEF facts
    <2> QED BY <2>1, <2>2, <2>3, Frames
  <1>5. RequestsGood
    <2>0. Idle.pc = "idle"
      BY DEF Idle
    <2>1. ASSUME NEW q \in Requests, NEW state, To(q, state),
                 state.pc = "scoped" => SettledNext(state.member)
          PROVE  RequestsGood
      <3>1. \A p \in Requests : requests'[p] = IF p = q THEN state ELSE requests[p]
        BY <2>1 DEF To, TypeOK
      <3> QED BY <1>3, <2>1, <3>1
    <2>2. ASSUME NEW q \in Requests, To(q, Idle) PROVE RequestsGood
      BY <2>0, <2>1, <2>2
    <2>3. ASSUME NEW q \in Requests, NEW c \in Connections, NEW v \in 1..MaxVersions,
                 NEW e \in Events, Resolve(q, c, v, e)
          PROVE  RequestsGood
      BY <2>1, <2>3 DEF Resolve
    <2>4. ASSUME NEW q \in Requests, ReadInbox(q) PROVE RequestsGood
      <3> DEFINE next == [requests[q] EXCEPT !.pc = "new"]
      <3>1. requests[q] \in Requested
        BY <2>0, <2>4 DEF ReadInbox, TypeOK, Scoped
      <3>2. next.pc = "new"
        BY <3>1 DEF Requested
      <3>3. To(q, next) \/ To(q, Idle)
        BY <2>4 DEF ReadInbox
      <3> HIDE DEF next
      <3> QED BY <2>1, <2>2, <3>2, <3>3
    <2>5. ASSUME NEW q \in Requests, Accept(q) PROVE RequestsGood
      <3> DEFINE r == requests[q]
                 m == MemberOf(r.conn, r.event)
                 next == [pc |-> "scoped", conn |-> r.conn, version |-> r.version,
                          event |-> r.event, member |-> m]
      <3>1. CASE Acceptable(r.conn, r.version, r.event)
        <4>1. To(q, next) /\ next.member = m
          BY <2>5, <3>1 DEF Accept
        <4>2. r.conn \in Connections /\ r.event \in Events
          BY <2>0, <2>5 DEF Accept, TypeOK, Requested, Scoped
        <4>3. m # Nil => members[m] = "active"
          BY <3>1 DEF Acceptable
        <4>4. m # Nil => Event[r.event].ref \in Refs /\ references[r.conn][Event[r.event].ref] = m
          BY <4>2, EventsAssumption DEF MemberOf, OrNil
        <4>5. UNCHANGED <<members, references>>
          BY <2>5 DEF Accept, people
        <4> HIDE DEF m, next
        <4>6. SettledNext(m)
          BY <4>2, <4>3, <4>4, <4>5 DEF SettledNext
        <4> QED BY <2>1, <4>1, <4>6
      <3>2. CASE ~Acceptable(r.conn, r.version, r.event)
        BY <2>2, <2>5, <3>2 DEF Accept
      <3> QED BY <3>1, <3>2
    <2>6. ASSUME NEW q \in Requests, Project(q) \/ RollBack(q) PROVE RequestsGood
      BY <2>2, <2>6 DEF Project, RollBack
    <2>7. CASE UNCHANGED requests
      BY <1>3, <2>7
    <2> QED BY <2>3, <2>4, <2>5, <2>6, <2>7, Frames DEF RequestStep
  <1> QED BY <1>4, <1>5 DEF RowsAreSettled, Settled, SettledNext
-----------------------------------------------------------------------------
(* The rows                                                                *)

\* By time and then by version, the events are in order.
LEMMA NewerIsAnOrder ==
  \A e, f, g \in Events : /\ ~Newer(e, e)
                          /\ Newer(e, f) => ~Newer(f, e)
                          /\ Newer(e, f) /\ ~Newer(g, f) => ~Newer(g, e)
  <1>1. \A e \in Events : Event[e].at \in Int /\ Event[e].version \in Int
    BY EventsAssumption
  <1> QED BY <1>1 DEF Newer

\* Only events are told.
LEMMA ToldType == TypeOK => \A c \in Connections, o \in Orders : Told(c, o) \subseteq Events
  BY DEF TypeOK, Told

\* A projection tells its order one event more, and no other order any.
LEMMA ToldWrites ==
  ASSUME NEW q \in Requests, NEW c \in Connections, NEW e \in Events, NEW o \in Orders,
         Writes(q, c, e, o), NEW d \in Connections, NEW p \in Orders
  PROVE  Told(d, p)' = IF d = c /\ p = o THEN Told(d, p) \cup {e} ELSE Told(d, p)
  <1> DEFINE i == [event |-> e, version |-> requests[q].version]
  <1>1. inbox'[d] = IF d = c THEN inbox[d] \cup {i} ELSE inbox[d]
    BY DEF Writes
  <1>2. i.event = e /\ Event[e].order = o
    BY DEF Writes
  <1> HIDE DEF i
  <1> QED BY <1>1, <1>2 DEF Told

\* Whichever event comes when, both rows show the newest.
LEMMA RowIsNewestStep == TypeOK /\ RowIsNewest /\ [Next]_vars => RowIsNewest'
  <1> SUFFICES ASSUME TypeOK, RowIsNewest, [Next]_vars PROVE RowIsNewest'
    OBVIOUS
  <1>0. /\ Nil \notin Events /\ NoRow.last = Nil
        /\ \A c \in Connections, o \in Orders : Told(c, o) \subseteq Events
    BY EventsAssumption, ToldType DEF NoRow
  <1>1. ASSUME NEW q \in Requests, Project(q) PROVE RowIsNewest'
    <2>0. PICK c \in Connections, e \in Events, o \in Orders :
            Writes(q, c, e, o) /\ Projectable(c, e)
      BY <1>1, ProjectWrites
    <2> SUFFICES ASSUME NEW d \in Connections, NEW p \in Orders
                 PROVE  IF Told(d, p)' = {} THEN orders'[d][p] = NoRow /\ attributions'[d][p] = NoRow
                        ELSE LET last == orders'[d][p].last IN
                             /\ last \in Told(d, p)' /\ ~\E f \in Told(d, p)' : Newer(f, last)
                             /\ attributions'[d][p].last = last
                             /\ orders'[d][p].refunded + attributions'[d][p].net
                                  = Event[last].original
      BY DEF RowIsNewest
    <2>9. Event[e].order = o
      BY <2>0 DEF Writes
    <2>1. CASE ~(d = c /\ p = o)
      <3>1. Told(d, p)' = Told(d, p) /\ orders'[d][p] = orders[d][p]
            /\ attributions'[d][p] = attributions[d][p]
        <4>1. Told(d, p)' = Told(d, p)
          BY <2>0, <2>1, ToldWrites
        <4> QED BY <2>0, <2>1, <4>1 DEF Writes
      <3> QED BY <3>1 DEF RowIsNewest
    <2>2. CASE d = c /\ p = o /\ IsNewer(c, e)
      <3>1. Told(d, p)' = Told(c, o) \cup {e}
        BY <2>0, <2>2, ToldWrites
      <3>2. /\ orders'[d][p].last = e /\ orders'[d][p].refunded = Refunded(e)
            /\ attributions'[d][p].last = e
            /\ attributions'[d][p].net = Event[e].original - Refunded(e)
        BY <2>0, <2>2 DEF Writes
      <3>3. \A f \in Told(c, o) : ~Newer(f, e)
        <4>1. CASE Told(c, o) = {}
          BY <4>1
        <4>2. CASE Told(c, o) # {}
          <5> DEFINE last == orders[c][o].last
          <5>1. last \in Told(c, o) /\ \A f \in Told(c, o) : ~Newer(f, last)
            BY <4>2 DEF RowIsNewest
          <5>2. orders[c][o] # NoRow
            BY <1>0, <5>1
          <5>3. Newer(e, last)
            BY <2>2, <2>9, <5>2 DEF IsNewer
          <5> QED BY <1>0, <5>1, <5>3, NewerIsAnOrder
        <4> QED BY <4>1, <4>2
      <3>4. Refunded(e) + (Event[e].original - Refunded(e)) = Event[e].original
        <4>1. Refunded(e) \in Int /\ Event[e].original \in Int
          BY EventsAssumption, RefundedType
        <4> QED BY <4>1
      <3>5. ~Newer(e, e)
        BY NewerIsAnOrder
      <3> QED BY <3>1, <3>2, <3>3, <3>4, <3>5
    <2>3. CASE d = c /\ p = o /\ ~IsNewer(c, e)
      <3>1. Told(d, p)' = Told(c, o) \cup {e}
        BY <2>0, <2>3, ToldWrites
      <3>2. orders'[d][p] = orders[c][o] /\ attributions'[d][p] = attributions[c][o]
        BY <2>0, <2>3 DEF Writes
      <3>3. orders[c][o] # NoRow /\ ~Newer(e, orders[c][o].last)
        BY <2>3, <2>9 DEF IsNewer
      <3>4. Told(c, o) # {}
        BY <3>3 DEF RowIsNewest
      <3> QED BY <2>3, <3>1, <3>2, <3>3, <3>4 DEF RowIsNewest
    <2> QED BY <2>1, <2>2, <2>3
  <1>2. ASSUME NEW a \in Members, NEW b \in Members, MergeMembers(a, b) PROVE RowIsNewest'
    <2>1. ASSUME NEW c \in Connections, NEW o \in Orders
          PROVE  /\ Told(c, o)' = Told(c, o)
                 /\ orders[c][o] = NoRow <=> orders'[c][o] = NoRow
                 /\ attributions[c][o] = NoRow <=> attributions'[c][o] = NoRow
                 /\ orders'[c][o].last = orders[c][o].last
                 /\ attributions'[c][o].last = attributions[c][o].last
                 /\ orders[c][o] # NoRow => orders'[c][o].refunded = orders[c][o].refunded
                 /\ attributions[c][o] # NoRow =>
                      attributions'[c][o].net = attributions[c][o].net
      <3>1. /\ orders[c][o] \in {NoRow} \cup OrderRows
            /\ attributions[c][o] \in {NoRow} \cup Attributions
        BY DEF TypeOK
      <3>2. /\ orders'[c][o] = Moved(a, b, orders[c][o])
            /\ attributions'[c][o] = Moved(a, b, attributions[c][o])
            /\ inbox' = inbox
        BY <1>2, MergeWrites
      <3>3. Told(c, o)' = Told(c, o)
        BY <3>2 DEF Told
      <3> QED BY <3>1, <3>2, <3>3, MovedType
    <2>2. ASSUME NEW c \in Connections, NEW o \in Orders, Told(c, o) # {}
          PROVE  orders[c][o] # NoRow /\ attributions[c][o] # NoRow
      BY <1>0, <2>2 DEF RowIsNewest
    <2> QED BY <2>1, <2>2 DEF RowIsNewest
  <1>3. CASE UNCHANGED facts
    BY <1>3 DEF facts, RowIsNewest, Told
  <1> QED BY <1>1, <1>2, <1>3, Frames

\* The refunds kept are those of the event shown, when the platform repeats them.
LEMMA RefundsAreOfLastStep ==
  TypeOK /\ RowIsNewest /\ RefundsAreOfLast /\ [Next]_vars => RefundsAreOfLast'
  <1> SUFFICES ASSUME TypeOK, RowIsNewest, RefundsAreOfLast, [Next]_vars
               PROVE  RefundsAreOfLast'
    OBVIOUS
  <1>1. ASSUME NEW q \in Requests, Project(q) PROVE RefundsAreOfLast'
    <2>0. PICK c \in Connections, e \in Events, o \in Orders :
            Writes(q, c, e, o) /\ Projectable(c, e)
      BY <1>1, ProjectWrites
    <2> DEFINE old == refunds[c][o]
               told == Event[e].refunds
               last == orders[c][o].last
               kept == [x \in DOMAIN old \cup DOMAIN told |->
                         IF x \in DOMAIN old THEN old[x] ELSE told[x]]
    <2>1. /\ Event[e].order = o /\ refunds'[c][o] = kept
          /\ \A d \in Connections, p \in Orders : ~(d = c /\ p = o) =>
               orders'[d][p] = orders[d][p] /\ refunds'[d][p] = refunds[d][p]
      BY <2>0 DEF Writes
    <2>6. \A x \in DOMAIN old \cap DOMAIN told : old[x] = told[x]
      BY <2>0, <2>1 DEF Projectable, Agrees
    <2>2. /\ told = [x \in DOMAIN told |-> told[x]] /\ old = [x \in DOMAIN old |-> old[x]]
      <3>1. told \in Refundings /\ old \in Refundings
        BY EventsAssumption DEF TypeOK
      <3> QED BY <3>1 DEF Refundings
    <2>3. orders[c][o] # NoRow => last \in Events /\ Event[last].order = o
      <3>1. orders[c][o] # NoRow => last \in Told(c, o)
        BY DEF RowIsNewest
      <3> QED BY <3>1, ToldType DEF Told
    <2> HIDE DEF old, told, last
    <2>4. CASE IsNewer(c, e)
      <3>1. orders'[c][o] # NoRow /\ orders'[c][o].last = e /\ orders'[c][o].refunded = Refunded(e)
        BY <2>0, <2>4 DEF Writes
      <3>2. Cumulative => kept = told
        <4>1. CASE orders[c][o] = NoRow
          <5>1. DOMAIN old = {}
            BY <4>1 DEF RefundsAreOfLast, old
          <5> QED BY <2>2, <5>1
        <4>2. CASE orders[c][o] # NoRow
          <5>1. Newer(e, last)
            BY <2>1, <2>4, <4>2 DEF IsNewer, last
          <5>2. ~Newer(last, e)
            BY <2>1, <2>3, <4>2, <5>1, NewerIsAnOrder
          <5>3. Cumulative => old = Event[last].refunds
            BY <4>2 DEF RefundsAreOfLast, old, last
          <5>4. Cumulative => DOMAIN old \subseteq DOMAIN told
            BY <2>1, <2>3, <4>2, <5>2, <5>3 DEF Cumulative, told
          <5> QED BY <2>2, <2>6, <5>4
        <4> QED BY <4>1, <4>2
      <3> QED BY <2>1, <3>1, <3>2 DEF RefundsAreOfLast, told
    <2>5. CASE ~IsNewer(c, e)
      <3>1. orders'[c][o] = orders[c][o]
        BY <2>0, <2>5 DEF Writes
      <3>2. orders[c][o] # NoRow /\ ~Newer(e, last)
        BY <2>1, <2>5 DEF IsNewer, last
      <3>3. Cumulative => old = Event[last].refunds
        BY <3>2 DEF RefundsAreOfLast, old, last
      <3>4. Cumulative => DOMAIN told \subseteq DOMAIN old
        BY <2>1, <2>3, <3>2, <3>3 DEF Cumulative, told
      <3>5. Cumulative => kept = old
        BY <2>2, <3>4
      <3> QED BY <2>1, <3>1, <3>2, <3>3, <3>5 DEF RefundsAreOfLast, last
    <2> QED BY <2>4, <2>5
  <1>2. ASSUME NEW a \in Members, NEW b \in Members, MergeMembers(a, b) PROVE RefundsAreOfLast'
    <2>1. ASSUME NEW c \in Connections, NEW o \in Orders
          PROVE  /\ orders[c][o] = NoRow <=> orders'[c][o] = NoRow
                 /\ orders'[c][o].last = orders[c][o].last
                 /\ orders[c][o] # NoRow => orders'[c][o].refunded = orders[c][o].refunded
                 /\ refunds' = refunds
      <3>1. orders[c][o] \in {NoRow} \cup OrderRows
        BY DEF TypeOK
      <3>2. orders'[c][o] = Moved(a, b, orders[c][o]) /\ refunds' = refunds
        BY <1>2, MergeWrites
      <3> QED BY <3>1, <3>2, MovedType
    <2> QED BY <2>1 DEF RefundsAreOfLast
  <1>3. CASE UNCHANGED facts
    BY <1>3 DEF facts, RefundsAreOfLast
  <1> QED BY <1>1, <1>2, <1>3, Frames

\* A coupon that brought one order never comes to have brought another.
LEMMA CouponCountsOnceStep == TypeOK /\ CouponCountsOnce /\ [Next]_vars => CouponCountsOnce'
  <1> SUFFICES ASSUME TypeOK, CouponCountsOnce, [Next]_vars PROVE CouponCountsOnce'
    OBVIOUS
  <1>1. ASSUME NEW q \in Requests, Project(q) PROVE CouponCountsOnce'
    <2>0. PICK c \in Connections, e \in Events, o \in Orders :
            Writes(q, c, e, o) /\ Projectable(c, e)
      BY <1>1, ProjectWrites
    <2>1. /\ \A d \in Connections, p \in Orders :
               ~(d = c /\ p = o) => attributions'[d][p] = attributions[d][p]
          /\ IsNewer(c, e) => attributions'[c][o].coupon = Event[e].coupon
          /\ ~IsNewer(c, e) => attributions'[c][o] = attributions[c][o]
      BY <2>0 DEF Writes
    <2>2. IsNewer(c, e) /\ Event[e].coupon # Nil =>
            \A d \in Connections, p \in Orders :
              ~(d = c /\ p = o) /\ attributions[d][p] # NoRow =>
                attributions[d][p].coupon # Event[e].coupon
      BY <2>0 DEF Projectable, CouponTaken, Writes
    <2> QED BY <2>1, <2>2 DEF CouponCountsOnce
  <1>2. ASSUME NEW a \in Members, NEW b \in Members, MergeMembers(a, b) PROVE CouponCountsOnce'
    <2>1. ASSUME NEW c \in Connections, NEW o \in Orders
          PROVE  /\ attributions[c][o] = NoRow <=> attributions'[c][o] = NoRow
                 /\ attributions[c][o] # NoRow =>
                      attributions'[c][o].coupon = attributions[c][o].coupon
      <3>1. attributions[c][o] \in {NoRow} \cup Attributions
        BY DEF TypeOK
      <3>2. attributions'[c][o] = Moved(a, b, attributions[c][o])
        BY <1>2, MergeWrites
      <3> QED BY <3>1, <3>2, MovedType
    <2> QED BY <2>1 DEF CouponCountsOnce
  <1>3. CASE UNCHANGED facts
    BY <1>3 DEF facts, CouponCountsOnce
  <1> QED BY <1>1, <1>2, <1>3, Frames
-----------------------------------------------------------------------------
(* The theorems                                                            *)

\* Before anything is connected, the rows are absent and the inbox is empty.
LEMMA InvInit == Init => IInv
  <1> SUFFICES ASSUME Init PROVE IInv
    OBVIOUS
  <1>1. TypeOK
    BY TypeInit
  <1>2. RowsAreSettled /\ Fresh
    BY DEF Init, RowsAreSettled, Fresh, Idle
  <1>3. ScopedIsOpen
    BY DEF Init, ScopedIsOpen, Idle
  <1>4. RowIsNewest
    BY DEF Init, RowIsNewest, Told
  <1>5. RefundsAreOfLast
    BY DEF Init, RefundsAreOfLast
  <1>6. CouponCountsOnce
    BY DEF Init, CouponCountsOnce
  <1> QED BY <1>1, <1>2, <1>3, <1>4, <1>5, <1>6 DEF IInv

\* Every step of the manager, the members and the requests keeps the invariant.
LEMMA InvStep == IInv /\ [Next]_vars => IInv'
  BY TypeStep, ScopedIsOpenStep, RowsAreSettledStep, RowIsNewestStep, RefundsAreOfLastStep,
     CouponCountsOnceStep DEF IInv

\* The invariant the theorems below rest on holds in every reachable state.
THEOREM Invariance == Spec => []IInv
  BY InvInit, InvStep, PTL DEF Spec

\* Every variable keeps its type, the rows of orders, refunds and attributions included.
THEOREM TypeCorrect == Spec => []TypeOK
  <1>1. IInv => TypeOK
    BY DEF IInv
  <1> QED BY <1>1, Invariance, PTL

\* project_commerce_order_event_authority: however events, the naming of members and their
\* merges interleave, no order and no attribution belongs to a membership that is gone.
THEOREM RowsStayLive == Spec => []RowsNameTheLiving
  <1>1. IInv => RowsNameTheLiving
    BY DEF IInv, RowsAreSettled, Settled, RowsNameTheLiving
  <1> QED BY <1>1, Invariance, PTL

\* commerce_order_facts: events of an order, late, again or together, leave both rows at
\* the newest that was accepted.
THEOREM NewestIsShown == Spec => []RowIsNewest
  <1>1. IInv => RowIsNewest
    BY DEF IInv
  <1> QED BY <1>1, Invariance, PTL

\* commerce_refund_facts: the refunds of an order add up to what its row says, if the
\* platform repeats in an event the refunds of the events before.
THEOREM RefundsAreComplete == Spec => []RefundsAddUp
  <1>1. IInv => RefundsAddUp
    BY DEF IInv, RefundsAddUp, RefundsAreOfLast, Refunded
  <1> QED BY <1>1, Invariance, PTL

\* commerce_repurchase_attributions: no coupon ever counts for two orders.
THEOREM CouponsCountOnce == Spec => []CouponCountsOnce
  <1>1. IInv => CouponCountsOnce
    BY DEF IInv
  <1> QED BY <1>1, Invariance, PTL

\* accept_commerce_message_authority: no message is written under a connection that was
\* closed or a credential that was revoked, at whatever point of the request it was.
THEOREM RevocationIsFinal == Spec => NothingAfterRevocation
  <1> DEFINE Good == \A c \in Connections : \A i \in inbox'[c] \ inbox[c] :
                       connections[c] = "active" /\ ~credentials[c][i.version].revoked
  <1>1. IInv /\ [Next]_vars => Good
    <2> SUFFICES ASSUME IInv, [Next]_vars PROVE Good
      OBVIOUS
    <2>1. ASSUME NEW q \in Requests, Project(q) PROVE Good
      <3>1. PICK c \in Connections, e \in Events, o \in Orders : Writes(q, c, e, o)
        BY <2>1, ProjectWrites DEF IInv
      <3>2. requests[q].pc = "scoped"
        BY <2>1 DEF Project
      <3>3. connections[c] = "active" /\ ~credentials[c][requests[q].version].revoked
        BY <3>1, <3>2 DEF IInv, ScopedIsOpen, Writes
      <3>4. \A d \in Connections : \A i \in inbox'[d] \ inbox[d] :
              d = c /\ i.version = requests[q].version
        <4> DEFINE j == [event |-> e, version |-> requests[q].version]
        <4>1. \A d \in Connections : inbox'[d] = IF d = c THEN inbox[d] \cup {j} ELSE inbox[d]
          BY <3>1 DEF Writes
        <4>2. j.version = requests[q].version
          OBVIOUS
        <4> HIDE DEF j
        <4> QED BY <4>1, <4>2
      <3> QED BY <3>3, <3>4
    <2>2. ASSUME NEW a \in Members, NEW b \in Members, MergeMembers(a, b) PROVE Good
      BY <2>2 DEF MergeMembers
    <2>3. CASE UNCHANGED facts
      BY <2>3 DEF facts
    <2> QED BY <2>1, <2>2, <2>3, Frames
  <1> QED BY <1>1, Invariance, PTL DEF Spec, NothingAfterRevocation
-----------------------------------------------------------------------------
(* The connections and the orders implement CommerceFeed                   *)

\* The coupon of an attribution is the one its event names.
CouponIsOfLast ==
  \A c \in Connections, o \in Orders : attributions[c][o] # NoRow =>
    attributions[c][o].coupon = Event[attributions[c][o].last].coupon

LEMMA CouponIsOfLastStep == TypeOK /\ CouponIsOfLast /\ [Next]_vars => CouponIsOfLast'
  <1> SUFFICES ASSUME TypeOK, CouponIsOfLast, [Next]_vars PROVE CouponIsOfLast'
    OBVIOUS
  <1>1. ASSUME NEW q \in Requests, Project(q) PROVE CouponIsOfLast'
    <2>0. PICK c \in Connections, e \in Events, o \in Orders : Writes(q, c, e, o)
      BY <1>1, ProjectWrites
    <2>1. /\ \A d \in Connections, p \in Orders :
               ~(d = c /\ p = o) => attributions'[d][p] = attributions[d][p]
          /\ IsNewer(c, e) => /\ attributions'[c][o].coupon = Event[e].coupon
                              /\ attributions'[c][o].last = e
          /\ ~IsNewer(c, e) => attributions'[c][o] = attributions[c][o]
      BY <2>0 DEF Writes
    <2> QED BY <2>1 DEF CouponIsOfLast
  <1>2. ASSUME NEW a \in Members, NEW b \in Members, MergeMembers(a, b) PROVE CouponIsOfLast'
    <2>1. ASSUME NEW c \in Connections, NEW o \in Orders, attributions'[c][o] # NoRow
          PROVE  attributions'[c][o].coupon = Event[attributions'[c][o].last].coupon
      <3>1. attributions[c][o] \in {NoRow} \cup Attributions
        BY DEF TypeOK
      <3>2. attributions'[c][o] = Moved(a, b, attributions[c][o])
        BY <1>2, MergeWrites
      <3>3. /\ attributions[c][o] # NoRow
            /\ attributions'[c][o].last = attributions[c][o].last
            /\ attributions'[c][o].coupon = attributions[c][o].coupon
        BY <2>1, <3>1, <3>2, MovedType
      <3> QED BY <3>3 DEF CouponIsOfLast
    <2> QED BY <2>1 DEF CouponIsOfLast
  <1>3. CASE UNCHANGED facts
    BY <1>3 DEF facts, CouponIsOfLast
  <1> QED BY <1>1, <1>2, <1>3, Frames

Good(s) == {v \in DOMAIN s : ~s[v].revoked}

\* What a new credential, and one that is written, do to the good ones.
LEMMA GoodAppend ==
  ASSUME NEW s \in Seq(Credential), NEW k \in Credential, ~k.revoked
  PROVE  Len(Append(s, k)) = Len(s) + 1 /\ Good(Append(s, k)) = Good(s) \cup {Len(s) + 1}
  <1> DEFINE t == Append(s, k)
             n == Len(s)
  <1>1. /\ n \in Nat /\ DOMAIN s = 1..n /\ t \in Seq(Credential)
        /\ Len(t) = n + 1 /\ DOMAIN t = 1..(n + 1)
        /\ \A u \in 1..n : t[u] = s[u]
        /\ t[n + 1] = k
    BY AppendProperties, LenProperties
  <1> HIDE DEF t, n
  <1>2. \A u \in 1..(n + 1) : u \in 1..n \/ u = n + 1
    BY <1>1
  <1>3. n + 1 \in 1..(n + 1) /\ \A u \in 1..n : u \in 1..(n + 1)
    BY <1>1
  <1>4. Good(t) = Good(s) \cup {n + 1}
    BY <1>1, <1>2, <1>3 DEF Good
  <1> QED BY <1>1, <1>4 DEF t, n

LEMMA GoodExcept ==
  ASSUME NEW s \in Seq(Credential), NEW v \in 1..Len(s), NEW k \in Credential
  PROVE  /\ [s EXCEPT ![v] = k] \in Seq(Credential)
         /\ Len([s EXCEPT ![v] = k]) = Len(s)
         /\ Good([s EXCEPT ![v] = k]) =
              IF k.revoked THEN Good(s) \ {v} ELSE Good(s) \cup {v}
  <1> DEFINE t == [s EXCEPT ![v] = k]
             n == Len(s)
  <1>1. /\ n \in Nat /\ DOMAIN s = 1..n /\ t \in Seq(Credential) /\ Len(t) = n
        /\ \A u \in 1..n : t[u] = IF u = v THEN k ELSE s[u]
    BY ExceptSeq, LenProperties
  <1>2. DOMAIN t = 1..n
    BY <1>1, LenProperties
  <1> HIDE DEF t, n
  <1>3. v \in 1..n
    BY DEF n
  <1>4. Good(t) = IF k.revoked THEN Good(s) \ {v} ELSE Good(s) \cup {v}
    BY <1>1, <1>2, <1>3 DEF Good
  <1> QED BY <1>1, <1>4 DEF t, n

\* What the manager does to the credentials of a connection.
LEMMA WireFeeds ==
  ASSUME TypeOK, Fresh, NEW c \in Connections,
         Connect(c) \/ Rotate(c) \/ Disconnect(c) \/ \E v \in 1..MaxVersions : Revoke(c, v)
  PROVE  Feed!Next
  <1> DEFINE s == credentials[c]
             n == Len(s)
  <1>0. /\ now \in Nat /\ Issued \in Credential /\ ~Issued.revoked
        /\ s \in Seq(Credential) /\ n \in Nat /\ DOMAIN s = 1..n
        /\ credentials \in [Connections -> Seq(Credential)]
    <2>1. now \in Nat /\ credentials \in [Connections -> Seq(Credential)]
      BY DEF TypeOK, Credential
    <2>2. s \in Seq(Credential)
      BY <2>1
    <2> QED BY <2>1, <2>2, CredentialType, LenProperties
  <1>1. ASSUME NEW new, credentials' = [credentials EXCEPT ![c] = new]
        PROVE  /\ Versions' = [Versions EXCEPT ![c] = Len(new)]
               /\ GoodKeys' = [GoodKeys EXCEPT ![c] = Good(new)]
    <2>1. \A d \in Connections : credentials'[d] = IF d = c THEN new ELSE credentials[d]
      BY <1>0, <1>1
    <2> QED BY <2>1 DEF Versions, GoodKeys, Good
  <1>2. Versions[c] = n /\ GoodKeys[c] = Good(s) /\ Versions = [d \in Connections |-> Versions[d]]
    BY DEF Versions, GoodKeys, Good
  <1>3. UNCHANGED facts /\ Shown' = Shown /\ inbox' = inbox
    BY DEF Connect, Rotate, Disconnect, Revoke, facts, Shown
  <1> HIDE DEF n, s
  <1>4. ASSUME Connect(c) PROVE Feed!Open(c)
    <2>1. s = <<>> /\ n = 0
      BY <1>4 DEF Connect, Fresh, s, n
    <2>2. credentials' = [credentials EXCEPT ![c] = <<Issued>>]
      BY <1>4 DEF Connect
    <2>3. <<Issued>> = Append(s, Issued)
      BY <2>1
    <2>4. Good(s) = {}
      BY <2>1 DEF Good
    <2>5. Len(<<Issued>>) = 1 /\ Good(<<Issued>>) = {1}
      BY <1>0, <2>1, <2>3, <2>4, GoodAppend DEF n
    <2>6. Versions[c] + 1 = 1
      BY <1>2, <2>1
    <2>7. /\ Versions' = [Versions EXCEPT ![c] = 1]
          /\ GoodKeys' = [GoodKeys EXCEPT ![c] = {1}]
      BY <1>1, <2>2, <2>5
    <2>8. Versions' = [Versions EXCEPT ![c] = Versions[c] + 1]
      BY <2>6, <2>7
    <2>9. Feed!Gives(c, {Versions[c] + 1})
      BY <1>3, <2>6, <2>7, <2>8 DEF Feed!Gives
    <2> QED BY <1>4, <2>9 DEF Connect, Feed!Open
  <1>5. ASSUME Rotate(c) PROVE Feed!Rotate(c)
    <2> DEFINE cut == IF now + Overlap < s[n].until THEN now + Overlap ELSE s[n].until
               kept == IF s[n].revoked THEN s ELSE [s EXCEPT ![n] = [s[n] EXCEPT !.overlap = cut]]
    <2>1. kept \in Seq(Credential) /\ Len(kept) = n /\ Good(kept) = Good(s)
      <3>1. CASE n \in 1..n
        <4>1. s[n] \in Credential
          BY <1>0, <3>1, ElementOfSeq DEF n
        <4>2. cut \in Nat
          <5>1. s[n].until \in Nat /\ Overlap \in Nat
            BY <4>1, BoundsAssumption, CredentialType
          <5> QED BY <1>0, <5>1
        <4> DEFINE k == [s[n] EXCEPT !.overlap = cut]
        <4>3. k \in Credential /\ k.revoked = s[n].revoked
          BY <4>1, <4>2, CredentialType
        <4> HIDE DEF k, cut
        <4>4. /\ [s EXCEPT ![n] = k] \in Seq(Credential) /\ Len([s EXCEPT ![n] = k]) = n
              /\ ~s[n].revoked => Good([s EXCEPT ![n] = k]) = Good(s) \cup {n}
          BY <1>0, <3>1, <4>3, GoodExcept DEF n
        <4>5. ~s[n].revoked => n \in Good(s)
          BY <1>0, <3>1 DEF Good
        <4>6. kept = IF s[n].revoked THEN s ELSE [s EXCEPT ![n] = k]
          BY DEF k
        <4> HIDE DEF kept
        <4> QED BY <1>0, <4>4, <4>5, <4>6 DEF n
      <3>2. CASE n \notin 1..n
        <4>1. kept = s
          BY <1>0, <3>2
        <4> QED BY <1>0, <4>1 DEF n
      <3> QED BY <3>1, <3>2
    <2>2. credentials' = [credentials EXCEPT ![c] = Append(kept, Issued)]
      BY <1>5 DEF Rotate, s, n
    <2> HIDE DEF kept
    <2>3. Len(Append(kept, Issued)) = n + 1 /\ Good(Append(kept, Issued)) = Good(s) \cup {n + 1}
      BY <1>0, <2>1, GoodAppend
    <2>4. Feed!Gives(c, GoodKeys[c] \cup {Versions[c] + 1})
      BY <1>1, <1>2, <1>3, <2>2, <2>3 DEF Feed!Gives
    <2> QED BY <1>5, <2>4 DEF Rotate, Feed!Rotate
  <1>6. ASSUME NEW v \in 1..MaxVersions, Revoke(c, v) PROVE v \in GoodKeys[c] /\ Feed!Revoke(c, v)
    <2> DEFINE k == [s[v] EXCEPT !.revoked = TRUE]
    <2>1. v \in 1..n /\ ~s[v].revoked
      BY <1>0, <1>6 DEF Revoke, s
    <2>2. s[v] \in Credential
      BY <1>0, <2>1, ElementOfSeq DEF n
    <2>3. k \in Credential /\ k.revoked
      BY <2>2, CredentialType
    <2>4. credentials' = [credentials EXCEPT ![c] = [s EXCEPT ![v] = k]]
      BY <1>6 DEF Revoke, s
    <2> HIDE DEF k
    <2>5. Len([s EXCEPT ![v] = k]) = n /\ Good([s EXCEPT ![v] = k]) = Good(s) \ {v}
      BY <1>0, <2>1, <2>3, GoodExcept DEF n
    <2>6. v \in GoodKeys[c]
      BY <1>0, <1>2, <2>1 DEF Good
    <2>7. GoodKeys' = [GoodKeys EXCEPT ![c] = GoodKeys[c] \ {v}]
      BY <1>1, <1>2, <2>4, <2>5
    <2>8. Versions' = [Versions EXCEPT ![c] = n]
      BY <1>1, <2>4, <2>5
    <2>9. Versions' = Versions
      BY <1>2, <2>8 DEF Versions
    <2> QED BY <1>3, <1>6, <2>6, <2>7, <2>9 DEF Revoke, Feed!Revoke
  <1>7. ASSUME Disconnect(c) PROVE Feed!Close(c)
    <2> DEFINE new == [v \in DOMAIN s |-> [s[v] EXCEPT !.revoked = TRUE]]
    <2>1. \A v \in DOMAIN s : [s[v] EXCEPT !.revoked = TRUE] \in Credential
                              /\ [s[v] EXCEPT !.revoked = TRUE].revoked
      BY <1>0, ElementOfSeq, CredentialType DEF n
    <2>2. new \in [1..n -> Credential] /\ \A v \in 1..n : new[v].revoked
      BY <1>0, <2>1
    <2>4. credentials' = [credentials EXCEPT ![c] = new]
      BY <1>7 DEF Disconnect, s
    <2> HIDE DEF new
    <2>3. new \in Seq(Credential) /\ DOMAIN new = 1..n
      <3>1. n \in Nat
        BY <1>0
      <3> HIDE DEF n, s
      <3>2. new \in Seq(Credential)
        BY <2>2, <3>1, SeqDef
      <3> QED BY <2>2, <3>2
    <2>5. Len(new) \in Nat /\ DOMAIN new = 1..Len(new)
      BY <2>3, LenProperties
    <2>6. Len(new) = n
      BY <1>0, <2>3, <2>5
    <2>7. Good(new) = {}
      BY <2>2, <2>3 DEF Good
    <2>8. Versions' = [Versions EXCEPT ![c] = n] /\ GoodKeys' = [GoodKeys EXCEPT ![c] = {}]
      BY <1>1, <2>4, <2>6, <2>7
    <2>9. Versions' = Versions
      BY <1>2, <2>8 DEF Versions
    <2> QED BY <1>3, <1>7, <2>8, <2>9 DEF Disconnect, Feed!Close
  <1> QED BY <1>4, <1>5, <1>6, <1>7 DEF Feed!Next

\* A projection takes one message, under a key that is still good.
LEMMA ProjectFeeds ==
  ASSUME IInv, CouponIsOfLast, RowIsNewest', NEW q \in Requests, Project(q)
  PROVE  Feed!Next
  <1>0. TypeOK /\ ScopedIsOpen /\ RowIsNewest
    BY DEF IInv
  <1>1. PICK c \in Connections, e \in Events, o \in Orders :
          Writes(q, c, e, o) /\ Projectable(c, e)
    BY <1>0, ProjectWrites
  <1> DEFINE v == requests[q].version
             i == [event |-> e, version |-> v]
             x == orders[c][o].last
  <1>2. /\ requests[q].conn = c /\ o = Event[e].order /\ requests[q].pc = "scoped"
        /\ \A d \in Connections : inbox'[d] = IF d = c THEN inbox[d] \cup {i} ELSE inbox[d]
        /\ \A d \in Connections, p \in Orders : ~(d = c /\ p = o) => orders'[d][p] = orders[d][p]
        /\ ~IsNewer(c, e) => orders'[c][o] = orders[c][o]
        /\ IsNewer(c, e) => orders'[c][o].last = e
    BY <1>1 DEF Writes, Project
  <1>3. connections[c] = "active" /\ v \in GoodKeys[c]
    BY <1>0, <1>2 DEF ScopedIsOpen, GoodKeys
  <1>4. UNCHANGED <<connections, credentials>>
    BY DEF Project, wire
  <1>5. Versions' = Versions /\ GoodKeys' = GoodKeys
    BY <1>4 DEF Versions, GoodKeys
  <1>6. inbox' = [inbox EXCEPT ![c] = inbox[c] \cup {i}]
    <2>1. inbox = [d \in Connections |-> inbox[d]] /\ inbox' = [inbox EXCEPT ![c] = inbox'[c]]
      BY <1>0, <1>2 DEF TypeOK, Project
    <2> HIDE DEF i
    <2> QED BY <1>2, <2>1
  <1>7. \A j \in inbox[c] : ~Feed!Same(j.event, e)
    BY <1>1 DEF Projectable, Received, SameMessage, Feed!Same
  <1>8. \A f, g \in Events : Feed!After(f, g) <=> Newer(f, g)
    BY DEF Feed!After, Newer
  <1>9. (\A j \in inbox[c] : Event[j.event].order = o => Feed!After(e, j.event)) <=> IsNewer(c, e)
    <2>1. \A j \in inbox[c] : j.event \in Events
      BY <1>0 DEF TypeOK
    <2>2. (\A j \in inbox[c] : Event[j.event].order = o => Feed!After(e, j.event))
            <=> \A f \in Told(c, o) : Newer(e, f)
      BY <1>8, <2>1 DEF Told
    <2>3. Told(c, o) \subseteq Events
      BY <1>0, ToldType
    <2>4. CASE Told(c, o) = {}
      BY <1>0, <1>2, <2>2, <2>4 DEF RowIsNewest, IsNewer
    <2>5. CASE Told(c, o) # {}
      <3>1. x \in Told(c, o) /\ \A f \in Told(c, o) : ~Newer(f, x)
        BY <1>0, <2>5 DEF RowIsNewest
      <3>2. orders[c][o] # NoRow
        BY <2>3, <3>1, EventsAssumption DEF NoRow
      <3>3. IsNewer(c, e) <=> Newer(e, x)
        BY <1>2, <3>2 DEF IsNewer
      <3>4. ASSUME Newer(e, x), NEW f \in Told(c, o) PROVE Newer(e, f)
        <4>1. \A g \in Events : Event[g].at \in Int /\ Event[g].version \in Int
          BY EventsAssumption
        <4> QED BY <2>3, <3>1, <3>4, <4>1 DEF Newer
      <3> QED BY <2>2, <3>1, <3>3, <3>4
    <2> QED BY <2>4, <2>5
  <1>10. IsNewer(c, e) => Shown' = [Shown EXCEPT ![c][o] = e]
    <2> SUFFICES ASSUME IsNewer(c, e) PROVE Shown' = [Shown EXCEPT ![c][o] = e]
      OBVIOUS
    <2>1. \A d \in Connections, p \in Orders :
            orders'[d][p].last = IF d = c /\ p = o THEN e ELSE orders[d][p].last
      BY <1>2
    <2>2. Shown' = [d \in Connections |-> [p \in Orders |->
                      IF d = c /\ p = o THEN e ELSE orders[d][p].last]]
      BY <2>1 DEF Shown
    <2> HIDE DEF x
    <2> QED BY <2>2 DEF Shown
  <1>11. ~IsNewer(c, e) => Shown' = Shown
    BY <1>2 DEF Shown
  <1>12. IsNewer(c, e) => Feed!Free(Event[e].coupon, c, o)
    <2> SUFFICES ASSUME IsNewer(c, e), Event[e].coupon # Nil, NEW d \in Connections, NEW p \in Orders,
                        <<d, p>> # <<c, o>>, Shown[d][p] # Nil
                 PROVE  Event[Shown[d][p]].coupon # Event[e].coupon
      BY DEF Feed!Free
    <2>1. Shown[d][p] = orders[d][p].last
      BY DEF Shown
    <2>2. Told(d, p) # {}
      BY <1>0, <2>1 DEF RowIsNewest, NoRow
    <2>3. orders[d][p].last = attributions[d][p].last /\ orders[d][p].last \in Events
      BY <1>0, <2>2, ToldType DEF RowIsNewest
    <2>4. attributions[d][p] # NoRow
      BY <2>3, EventsAssumption DEF NoRow
    <2>5. attributions[d][p].coupon # Event[e].coupon
      BY <1>1, <1>2, <2>4 DEF Projectable, CouponTaken
    <2> QED BY <2>1, <2>3, <2>4, <2>5 DEF CouponIsOfLast
  <1>13. Feed!Take(c, v, e)
    BY <1>2, <1>3, <1>4, <1>5, <1>6, <1>7, <1>9, <1>10, <1>11, <1>12 DEF Feed!Take
  <1> QED BY <1>3, <1>13 DEF Feed!Next

FeedStep == Feed!Next \/ UNCHANGED <<connections, Versions, GoodKeys, inbox, Shown>>

\* Every step is a step of the feed, or changes nothing it tells of.
LEMMA FeedNext == IInv /\ CouponIsOfLast /\ [Next]_vars => FeedStep
  <1> SUFFICES ASSUME IInv, CouponIsOfLast, [Next]_vars PROVE FeedStep
    OBVIOUS
  <1>0. TypeOK /\ Fresh /\ RowIsNewest'
    BY RowIsNewestStep DEF IInv
  <1>1. CASE WireStep
    BY <1>0, <1>1, WireFeeds DEF WireStep, FeedStep
  <1>2. ASSUME NEW q \in Requests, Project(q) PROVE FeedStep
    BY <1>0, <1>2, ProjectFeeds DEF FeedStep
  <1>3. ASSUME UNCHANGED wire, NEW s \in Members, NEW t \in Members, MergeMembers(s, t)
        PROVE  FeedStep
    <2>1. inbox' = inbox /\ \A c \in Connections, o \in Orders :
            orders'[c][o] = Moved(s, t, orders[c][o])
      BY <1>0, <1>3, MergeWrites
    <2>2. \A c \in Connections, o \in Orders : orders'[c][o].last = orders[c][o].last
      <3>1. \A row \in {NoRow} \cup OrderRows : Moved(s, t, row).last = row.last
        BY MovedType
      <3>2. \A c \in Connections, o \in Orders : orders[c][o] \in {NoRow} \cup OrderRows
        BY <1>0 DEF TypeOK
      <3> QED BY <2>1, <3>1, <3>2
    <2>3. Shown' = Shown
      BY <2>2 DEF Shown
    <2> QED BY <1>3, <2>1, <2>3 DEF FeedStep, wire, Versions, GoodKeys
  <1>4. CASE UNCHANGED wire /\ UNCHANGED facts
    BY <1>4 DEF FeedStep, wire, facts, Versions, GoodKeys, Shown
  <1> QED BY <1>1, <1>2, <1>3, <1>4, Frames

\* The connection keeps the promise of CommerceFeed: whatever the platform sends, in any
\* order, late and again, and whatever the manager does to keys and connections meanwhile,
\* a message is taken once and under a good key, an order shows the newest of its messages,
\* and a coupon is shown by one order.
THEOREM ImplementsFeed == Spec => FeedSpec
  <1>1. Init => CouponIsOfLast
    BY DEF Init, CouponIsOfLast
  <1>2. Init => Feed!Init
    BY DEF Init, Feed!Init, Versions, GoodKeys, Shown, NoRow
  <1>3. Spec => []CouponIsOfLast
    <2>1. IInv => TypeOK
      BY DEF IInv
    <2> QED BY <1>1, <2>1, CouponIsOfLastStep, Invariance, PTL DEF Spec
  <1> QED BY <1>2, <1>3, FeedNext, Invariance, PTL DEF Spec, FeedSpec, Feed!Spec, Feed!feedVars,
      FeedStep
=============================================================================

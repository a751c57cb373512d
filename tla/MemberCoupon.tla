----------------------------- MODULE MemberCoupon -----------------------------
(***************************************************************************)
(* Repurchase coupons: rules, the coupons of a brand's members, and the    *)
(* append-only event log.  One PostgreSQL function is the only writer      *)
(* (mutate_member_coupon_authority): each call runs under the member's     *)
(* advisory lock, so each kind of call is one action.  Callers are the     *)
(* storefront (lock, commit, release, refund), stores, operators, the      *)
(* delivery worker and the callbacks of external platforms; their calls    *)
(* come in any order, late, or again.                                      *)
(*                                                                         *)
(* A call carries an idempotency key, which is unique in the log.  A key   *)
(* already there replays the earlier answer, or conflicts: neither writes, *)
(* so every action asks for a fresh key and a replay is a stuttering step. *)
(* Amounts, carts and stores' opening are left out: they can only refuse.  *)
(***************************************************************************)
EXTENDS Integers, FiniteSets

CONSTANTS
  Rules,           \* repurchase_coupon_rule_versions
  IssuanceLimit,   \* by rule: issuance_limit
  Channel,         \* by rule: channel_scope
  Validity,        \* by rule: validity_mode with valid_days or the fixed window
  Coupons,         \* ids of member_coupons
  Members,         \* ids of brand_memberships
  Claims,          \* what a coupon is issued for; its id makes the issue key
  ExternalClaims,  \* those whose benefit an external platform grants
  Orders,          \* order_ref
  Stores,          \* store_id
  Readers,         \* wallet requests that may be under way together
  Nil,             \* SQL NULL
  HoldTime,        \* how long an order may hold a coupon (15 minutes)
  Attempts,        \* fresh keys a caller uses for one kind of call
  MaxTime

ASSUME RulesAssumption ==
  /\ IssuanceLimit \in [Rules -> Nat \ {0}]
  /\ Channel \in [Rules -> {"online", "store", "both"}]
  /\ Validity \in [Rules -> [mode : {"relative"}, days : Nat \ {0}]
                            \cup {w \in [mode : {"fixed"}, from : Nat, until : Nat] :
                                    w.from < w.until}]

ASSUME IdsAssumption ==
  /\ IsFiniteSet(Coupons)
  /\ Nil \notin Rules \cup Coupons \cup Members \cup Claims \cup Orders \cup Stores
  /\ ExternalClaims \subseteq Claims
  /\ HoldTime \in Nat \ {0} /\ Attempts \in Nat \ {0} /\ MaxTime \in Nat

VARIABLES
  now,      \* statement_timestamp()
  rules,    \* by rule: its status and issued_count
  coupons,  \* by coupon: its row
  events,   \* repurchase_coupon_events
  members,  \* by member: the status of the membership
  open      \* by reader: the stale coupons a wallet request has read

vars == <<now, rules, coupons, events, members, open>>
-----------------------------------------------------------------------------
Statuses == {"none", "available", "reserved", "used", "expired", "revoked"}
RuleStatuses == {"none", "draft", "published", "paused", "ended"}
Types == {"rule_created", "rule_published", "rule_paused", "rule_resumed", "rule_ended",
          "issued", "reserved", "committed", "released", "reversed", "refund_recorded",
          "expired", "revoked", "store_redeemed", "external_sync_pending",
          "external_sync_confirmed", "external_sync_error"}
OrNil(S) == S \cup {Nil}

Rows == [status : Statuses, membership_id : OrNil(Members), rule_version_id : OrNil(Rules),
         source_claim_id : OrNil(Claims), authority_type : {"yimatong", "external"},
         sync_status : {"not_required", "pending", "synchronized", "error"},
         valid_from : Nat, valid_until : Nat, reserved_order_ref : OrNil(Orders),
         reservation_expires_at : Nat, used_order_ref : OrNil(Orders),
         used_store_id : OrNil(Stores), version : Nat]

NoRow == [status |-> "none", membership_id |-> Nil, rule_version_id |-> Nil,
          source_claim_id |-> Nil, authority_type |-> "yimatong",
          sync_status |-> "not_required", valid_from |-> 0, valid_until |-> 0,
          reserved_order_ref |-> Nil, reservation_expires_at |-> 0,
          used_order_ref |-> Nil, used_store_id |-> Nil, version |-> 0]

\* An event names its coupon, what the call was for (an order, a store, a claim, a
\* rule), which of the caller's attempts it was, the status it left and the version
\* of the row it left: its place in the history of the coupon.
Events == [type : Types, coupon : OrNil(Coupons),
           ref : OrNil(Orders \cup Stores \cup Claims \cup Rules),
           try : 0..Attempts, to : Statuses \cup RuleStatuses, at : Nat]

TypeOK ==
  /\ now \in Nat
  /\ rules \in [Rules -> [status : RuleStatuses, issued_count : Nat]]
  /\ coupons \in [Coupons -> Rows]
  /\ events \subseteq Events
  /\ members \in [Members -> {"active", "merged"}]
  /\ open \in [Readers -> SUBSET Coupons]

Init ==
  /\ now = 0
  /\ rules = [r \in Rules |-> [status |-> "none", issued_count |-> 0]]
  /\ coupons = [c \in Coupons |-> NoRow]
  /\ events = {}
  /\ members = [m \in Members |-> "active"]
  /\ open = [w \in Readers |-> {}]
-----------------------------------------------------------------------------
(* Operators shared by the calls.                                          *)

\* prior_event: the key of this call is already in the log.
Seen(t, c, x, n) ==
  \E e \in events : e.type = t /\ e.coupon = c /\ e.ref = x /\ e.try = n

\* `a <> b' in SQL: NULL when either side is, and an IF on NULL is not taken.
Differs(a, b) == a # Nil /\ b # Nil /\ a # b

Exists(c) == coupons[c].status # "none"
Active(c) == coupons[c].status \in {"available", "reserved"}
InForce(row) == row.valid_from <= now /\ now < row.valid_until
Restored(row) == IF row.valid_until > now THEN "available" ELSE "expired"

Successors(s) ==
  CASE s = "available" -> {"available", "reserved", "used", "expired", "revoked"}
    [] s = "reserved"  -> {"reserved", "available", "used", "expired"}
    [] s = "used"      -> {"used", "available", "expired"}
    [] OTHER           -> {s}

\* The trigger on every UPDATE of member_coupons.
GuardAllows(old, new) ==
  /\ new.membership_id = old.membership_id
  /\ new.rule_version_id = old.rule_version_id
  /\ new.source_claim_id = old.source_claim_id
  /\ new.authority_type = old.authority_type
  /\ new.valid_from = old.valid_from /\ new.valid_until = old.valid_until
  /\ new.status \in Successors(old.status)
  /\ new.version = old.version + 1

Entry(t, c, x, n, row) ==
  [type |-> t, coupon |-> c, ref |-> x, try |-> n, to |-> row.status, at |-> row.version]

\* A call that updates the row of c and logs it, and one that only logs.
Update(t, c, x, n, row) ==
  /\ GuardAllows(coupons[c], row)
  /\ coupons' = [coupons EXCEPT ![c] = row]
  /\ events' = events \cup {Entry(t, c, x, n, row)}

NoteOnly(t, c, x, n) ==
  /\ events' = events \cup {Entry(t, c, x, n, coupons[c])}
  /\ UNCHANGED coupons

\* The ways a row is rewritten; each counts the version up.
Reserved(row, o) ==
  [row EXCEPT !.status = "reserved", !.reserved_order_ref = o,
              !.reservation_expires_at = now + HoldTime, !.version = @ + 1]
Freed(row, s) ==
  [row EXCEPT !.status = s, !.reserved_order_ref = Nil,
              !.reservation_expires_at = 0, !.version = @ + 1]
Committed(row, o) == [Freed(row, "used") EXCEPT !.used_order_ref = o]
\* With used_store_id left behind.
ReversedOrderOnly(row) ==
  [row EXCEPT !.status = Restored(row), !.used_order_ref = Nil, !.version = @ + 1]
Reversed(row) ==
  [row EXCEPT !.status = Restored(row), !.used_order_ref = Nil,
              !.used_store_id = Nil, !.version = @ + 1]
\* With the member in the column of the store.
RedeemedByMember(row, s) ==
  [row EXCEPT !.status = "used", !.used_store_id = row.membership_id, !.version = @ + 1]
Redeemed(row, s) ==
  [row EXCEPT !.status = "used", !.used_store_id = s, !.version = @ + 1]
Synced(row, s) == [row EXCEPT !.sync_status = s, !.version = @ + 1]
-----------------------------------------------------------------------------
(* Rules: mutate_repurchase_coupon_rule_authority.                         *)

RuleStep(t, r, n, source, target) ==
  /\ ~Seen(t, Nil, r, n)
  /\ rules[r].status \in source
  /\ rules' = [rules EXCEPT ![r].status = target]
  /\ events' = events \cup {[type |-> t, coupon |-> Nil, ref |-> r, try |-> n,
                             to |-> target, at |-> 0]}
  /\ UNCHANGED <<now, coupons, members, open>>

CreateRule(r) == RuleStep("rule_created", r, 1, {"none"}, "draft")
PublishRule(r) == RuleStep("rule_published", r, 1, {"draft"}, "published")
PauseRule(r, n) == RuleStep("rule_paused", r, n, {"published"}, "paused")
ResumeRule(r, n) == RuleStep("rule_resumed", r, n, {"paused"}, "published")
EndRule(r) == RuleStep("rule_ended", r, 1, {"published", "paused"}, "ended")
-----------------------------------------------------------------------------
(* Issue and external_issue.                                               *)

IssueType(cl) == IF cl \in ExternalClaims THEN "external_sync_pending" ELSE "issued"
Authority(cl) == IF cl \in ExternalClaims THEN "external" ELSE "yimatong"

\* The issue key is derived from the claim; the id of the new row is not part of it.
Asked(cl) == \E e \in events : e.type = IssueType(cl) /\ e.ref = cl
\* Off by one.
IssuableOnceMore(r) ==
  /\ rules[r].status = "published"
  /\ rules[r].issued_count <= IssuanceLimit[r]
Issuable(r) ==
  /\ rules[r].status = "published"
  /\ rules[r].issued_count < IssuanceLimit[r]

\* A coupon at the cash desk is overlooked.
AvailableOf(m, r) ==
  {c \in Coupons : /\ coupons[c].status = "available"
                   /\ coupons[c].membership_id = m /\ coupons[c].rule_version_id = r}
ActiveOf(m, r) ==
  {c \in Coupons : Active(c) /\ coupons[c].membership_id = m /\ coupons[c].rule_version_id = r}

ValidFrom(r) == IF Validity[r].mode = "relative" THEN now ELSE Validity[r].from
ValidUntil(r) ==
  IF Validity[r].mode = "relative" THEN now + Validity[r].days ELSE Validity[r].until

NewRow(cl, m, r) ==
  [NoRow EXCEPT !.status = "available", !.membership_id = m, !.rule_version_id = r,
                !.source_claim_id = cl, !.authority_type = Authority(cl),
                !.sync_status = IF cl \in ExternalClaims THEN "pending" ELSE "not_required",
                !.valid_from = ValidFrom(r), !.valid_until = ValidUntil(r), !.version = 1]

MayAsk(cl, m, r) == ~Asked(cl) /\ Issuable(r) /\ members[m] = "active"

IssueNew(cl, m, r, c) ==
  /\ MayAsk(cl, m, r)
  /\ ActiveOf(m, r) = {}
  /\ ValidUntil(r) > now
  /\ ~Exists(c)
  /\ coupons' = [coupons EXCEPT ![c] = NewRow(cl, m, r)]
  /\ rules' = [rules EXCEPT ![r].issued_count = @ + 1]
  /\ events' = events \cup {Entry(IssueType(cl), c, cl, 1, NewRow(cl, m, r))}
  /\ UNCHANGED <<now, members, open>>

\* A member who holds an active coupon of the rule gets that one; with two of them
\* the query may return either.
IssueExisting(cl, m, r, c) ==
  /\ MayAsk(cl, m, r)
  /\ c \in ActiveOf(m, r)
  /\ coupons[c].authority_type = Authority(cl)
  /\ NoteOnly(IssueType(cl), c, cl, 1)
  /\ UNCHANGED <<now, rules, members, open>>
-----------------------------------------------------------------------------
(* An order: reserve, commit, release, reverse, record_partial_refund.     *)

Online(c) == Channel[coupons[c].rule_version_id] \in {"online", "both"}
InStore(c) == Channel[coupons[c].rule_version_id] \in {"store", "both"}
Redeemable(c) ==
  coupons[c].authority_type = "external" => coupons[c].sync_status = "synchronized"
HeldBy(c, o) ==
  /\ coupons[c].status = "reserved"
  /\ ~Differs(coupons[c].reserved_order_ref, o)
\* Any order takes back any use.
SpentByAny(c, o) == coupons[c].status = "used"
SpentBy(c, o) ==
  /\ coupons[c].status = "used"
  /\ ~Differs(coupons[c].used_order_ref, o)

\* A copy of a lock call is a new lock.
ReserveAgain(c, o, n) ==
  /\ Exists(c) /\ Online(c) /\ Redeemable(c)
  /\ coupons[c].status = "available" /\ InForce(coupons[c])
  /\ Update("reserved", c, o, n, Reserved(coupons[c], o))
  /\ UNCHANGED <<now, rules, members, open>>

Reserve(c, o, n) ==
  /\ ~Seen("reserved", c, o, n)
  /\ Exists(c) /\ Online(c) /\ Redeemable(c)
  /\ \/ /\ coupons[c].status = "reserved" /\ coupons[c].reserved_order_ref = o
        /\ NoteOnly("reserved", c, o, n)
     \/ /\ coupons[c].status = "available" /\ InForce(coupons[c])
        /\ Update("reserved", c, o, n, Reserved(coupons[c], o))
  /\ UNCHANGED <<now, rules, members, open>>

\* Only the hold is checked here: the coupon may be past valid_until.
Commit(c, o, n) ==
  /\ ~Seen("committed", c, o, n)
  /\ HeldBy(c, o)
  /\ coupons[c].reservation_expires_at > now
  /\ Update("committed", c, o, n, Committed(coupons[c], o))
  /\ UNCHANGED <<now, rules, members, open>>

Release(c, o, n) ==
  /\ ~Seen("released", c, o, n)
  /\ HeldBy(c, o)
  /\ Update("released", c, o, n, Freed(coupons[c], Restored(coupons[c])))
  /\ UNCHANGED <<now, rules, members, open>>

Reverse(c, o, n) ==
  /\ ~Seen("reversed", c, o, n)
  /\ SpentBy(c, o)
  /\ Update("reversed", c, o, n, Reversed(coupons[c]))
  /\ UNCHANGED <<now, rules, members, open>>

RecordPartialRefund(c, o, n) ==
  /\ ~Seen("refund_recorded", c, o, n)
  /\ SpentBy(c, o)
  /\ NoteOnly("refund_recorded", c, o, n)
  /\ UNCHANGED <<now, rules, members, open>>
-----------------------------------------------------------------------------
(* A store, an operator, an external platform.                             *)

\* The key is the jti of the member's store token: n counts tokens.
StoreRedeem(c, s, n) ==
  /\ ~Seen("store_redeemed", c, s, n)
  /\ Exists(c) /\ InStore(c) /\ Redeemable(c)
  /\ coupons[c].status = "available" /\ InForce(coupons[c])
  /\ Update("store_redeemed", c, s, n, Redeemed(coupons[c], s))
  /\ UNCHANGED <<now, rules, members, open>>

Revoke(c) ==
  /\ ~Seen("revoked", c, Nil, 1)
  /\ coupons[c].status = "available"
  /\ Update("revoked", c, Nil, 1, Freed(coupons[c], "revoked"))
  /\ UNCHANGED <<now, rules, members, open>>

\* The worker's hooks find the row by the claim it was issued for.  Each has one key
\* for a claim, so their answers `already_synchronized' and `already_error' cannot
\* be reached.
ExternalOf(cl, c) ==
  /\ Exists(c) /\ coupons[c].source_claim_id = cl
  /\ coupons[c].authority_type = "external"

ConfirmSync(cl, c) ==
  /\ ExternalOf(cl, c)
  /\ ~Seen("external_sync_confirmed", c, cl, 1)
  /\ coupons[c].sync_status \in {"pending", "error"}
  /\ Update("external_sync_confirmed", c, cl, 1, Synced(coupons[c], "synchronized"))
  /\ UNCHANGED <<now, rules, members, open>>

\* A late failure takes a confirmation back.
MarkSyncErrorLate(cl, c) ==
  /\ ExternalOf(cl, c)
  /\ ~Seen("external_sync_error", c, cl, 1)
  /\ coupons[c].sync_status \in {"pending", "synchronized"}
  /\ Update("external_sync_error", c, cl, 1, Synced(coupons[c], "error"))
  /\ UNCHANGED <<now, rules, members, open>>

MarkSyncError(cl, c) ==
  /\ ExternalOf(cl, c)
  /\ ~Seen("external_sync_error", c, cl, 1)
  /\ coupons[c].sync_status = "pending"
  /\ Update("external_sync_error", c, cl, 1, Synced(coupons[c], "error"))
  /\ UNCHANGED <<now, rules, members, open>>

\* The platform reports that its own copy was used.
ConsumeExternal(c) ==
  /\ Exists(c) /\ coupons[c].authority_type = "external"
  /\ ~Seen("external_sync_confirmed", c, Nil, 1)
  /\ coupons[c].sync_status = "synchronized"
  /\ \/ coupons[c].status = "used" /\ NoteOnly("external_sync_confirmed", c, Nil, 1)
     \/ /\ coupons[c].status = "available"
        /\ Update("external_sync_confirmed", c, Nil, 1, Redeemed(coupons[c], Nil))
  /\ UNCHANGED <<now, rules, members, open>>
-----------------------------------------------------------------------------
(* The wallet: list_member_wallet reads the rows without a lock, then, in  *)
(* the same transaction, expires those past their validity.                *)

PastValidity(c) == Active(c) /\ coupons[c].valid_until <= now
Stale(m) == {c \in Coupons : coupons[c].membership_id = m /\ PastValidity(c)}

\* Those another request has not expired meanwhile (its key is in the log).
Remaining(w) == {c \in open[w] : ~Seen("expired", c, Nil, 1)}

OpenWallet(w, m) ==
  /\ open[w] = {} /\ Stale(m) # {}
  /\ open' = [open EXCEPT ![w] = Stale(m)]
  /\ UNCHANGED <<now, rules, coupons, events, members>>

\* The rows are expired and nothing is logged.
ExpireSilently(w) ==
  /\ open[w] # {}
  /\ \A c \in Remaining(w) : PastValidity(c)
  /\ coupons' = [c \in Coupons |-> IF c \in Remaining(w) THEN Freed(coupons[c], "expired")
                                                         ELSE coupons[c]]
  /\ open' = [open EXCEPT ![w] = {}]
  /\ UNCHANGED <<now, rules, events, members>>

ExpireRead(w) ==
  /\ open[w] # {}
  /\ \A c \in Remaining(w) : PastValidity(c)
  /\ \A c \in Remaining(w) : GuardAllows(coupons[c], Freed(coupons[c], "expired"))
  /\ coupons' = [c \in Coupons |-> IF c \in Remaining(w) THEN Freed(coupons[c], "expired")
                                                         ELSE coupons[c]]
  /\ events' = events \cup
       {Entry("expired", c, Nil, 1, Freed(coupons[c], "expired")) : c \in Remaining(w)}
  /\ open' = [open EXCEPT ![w] = {}]
  /\ UNCHANGED <<now, rules, members>>

\* coupon_not_expirable for one of them: the transaction is rolled back.
ListingFails(w) ==
  /\ \E c \in Remaining(w) : ~PastValidity(c)
  /\ open' = [open EXCEPT ![w] = {}]
  /\ UNCHANGED <<now, rules, coupons, events, members>>
-----------------------------------------------------------------------------
(* merge_brand_memberships_authority, what it does to the coupons.         *)

Moved(c, t) == [coupons[c] EXCEPT !.membership_id = t]
CouponsOf(m) == {c \in Coupons : coupons[c].membership_id = m}

Merge(s, t) ==
  /\ s # t /\ members[s] = "active" /\ members[t] = "active"
  /\ \A c \in CouponsOf(s) \cup CouponsOf(t) : coupons[c].status # "reserved"
  /\ \A c \in CouponsOf(s) : GuardAllows(coupons[c], Moved(c, t))
  /\ coupons' = [c \in Coupons |-> IF c \in CouponsOf(s) THEN Moved(c, t) ELSE coupons[c]]
  /\ members' = [members EXCEPT ![s] = "merged"]
  /\ UNCHANGED <<now, rules, events, open>>

Tick ==
  /\ now < MaxTime
  /\ now' = now + 1
  /\ UNCHANGED <<rules, coupons, events, members, open>>
-----------------------------------------------------------------------------
RuleOperation ==
  \E r \in Rules, n \in 1..Attempts :
    CreateRule(r) \/ PublishRule(r) \/ PauseRule(r, n) \/ ResumeRule(r, n) \/ EndRule(r)

Issuing ==
  \E cl \in Claims, m \in Members, r \in Rules, c \in Coupons :
    IssueNew(cl, m, r, c) \/ IssueExisting(cl, m, r, c)

OrderCall ==
  \E c \in Coupons, o \in Orders, n \in 1..Attempts :
    \/ Reserve(c, o, n) \/ Commit(c, o, n) \/ Release(c, o, n)
    \/ Reverse(c, o, n) \/ RecordPartialRefund(c, o, n)

OtherCall ==
  \/ \E c \in Coupons, s \in Stores, n \in 1..Attempts : StoreRedeem(c, s, n)
  \/ \E c \in Coupons : Revoke(c) \/ ConsumeExternal(c)
  \/ \E c \in Coupons, cl \in Claims : ConfirmSync(cl, c) \/ MarkSyncError(cl, c)

Wallet ==
  \E w \in Readers :
    (\E m \in Members : OpenWallet(w, m)) \/ ExpireRead(w) \/ ListingFails(w)

Merging == \E s, t \in Members : Merge(s, t)

Next == RuleOperation \/ Issuing \/ OrderCall \/ OtherCall \/ Wallet \/ Merging \/ Tick

Spec == Init /\ [][Next]_vars
-----------------------------------------------------------------------------
(* Properties.                                                             *)

CheckedRow(row) ==
  /\ (row.status = "reserved") <=> (row.reserved_order_ref # Nil)
  /\ row.status = "used" =>
       \/ row.used_order_ref # Nil \/ row.used_store_id # Nil
       \/ row.authority_type = "external"
  /\ row.status # "used" => row.used_order_ref = Nil /\ row.used_store_id = Nil
  /\ (row.authority_type = "yimatong") <=> (row.sync_status = "not_required")
  /\ row.valid_from < row.valid_until
  /\ row.version > 0

\* The CHECK constraints of member_coupons never have to refuse a write: an order
\* is recorded exactly while it holds the coupon, a use names what used it, and only
\* external coupons have a state of synchronisation.
ChecksNeverFire == \A c \in Coupons : Exists(c) => CheckedRow(coupons[c])

\* issued_count is the number of coupons of the rule that exist, and never passes the
\* limit, whatever members, claims and replays ask for at the same time.
IssuedOf(r) == {c \in Coupons : coupons[c].rule_version_id = r}
IssuedIsCounted ==
  \A r \in Rules : /\ rules[r].issued_count = Cardinality(IssuedOf(r))
                   /\ rules[r].issued_count <= IssuanceLimit[r]

\* The log explains every row: no version of a coupon is without its event, and the
\* latest event of a coupon names the status its row has.
LogExplainsRow ==
  \A c \in Coupons :
    /\ \A v \in 1..coupons[c].version : \E e \in events : e.coupon = c /\ e.at = v
    /\ \A e \in events : e.coupon = c =>
         /\ e.at \in 1..coupons[c].version
         /\ e.at = coupons[c].version => e.to = coupons[c].status

\* A member holds two active coupons of one rule only when a refund restored one of
\* them: asking again, under any key, returns the coupon already there.
OneActiveUnlessRestored ==
  \A c, d \in Coupons :
    /\ c # d /\ Active(c) /\ Active(d)
    /\ coupons[c].membership_id = coupons[d].membership_id
    /\ coupons[c].rule_version_id = coupons[d].rule_version_id
    => \E e \in events : e.type = "reversed" /\ e.coupon \in {c, d}

\* Each lock call takes the coupon at most once: an order has had as many lock calls
\* as it was given answers for (released or committed), and one more while it holds
\* the coupon.  A late copy of a lock call does not take a released coupon again.
Tries(t, c, o) == {e.try : e \in {f \in events : f.type = t /\ f.coupon = c /\ f.ref = o}}
LocksAreAnswered ==
  \A c \in Coupons, o \in Orders :
    Cardinality(Tries("reserved", c, o)) >=
      Cardinality(Tries("released", c, o)) + Cardinality(Tries("committed", c, o))
      + Cardinality({x \in {o} : coupons[c].reserved_order_ref = x})

\* The uses of a coupon no refund has taken back.
LiveUses(c) ==
  {e \in events :
     /\ e.coupon = c /\ e.type \in {"committed", "store_redeemed"}
     /\ ~\E f \in events : /\ f.coupon = c /\ f.type = "reversed"
                           /\ f.ref = e.ref /\ f.at > e.at}

\* The discount of a coupon is in use at most once, and its row says whether it is and
\* by which order.  This is about the coupons only orders can use: a refund may take
\* back what a store or a platform recorded, see RefundMatchesUse.
OrderOnly(c) ==
  /\ Exists(c) /\ coupons[c].authority_type = "yimatong"
  /\ Channel[coupons[c].rule_version_id] = "online"
UseIsRecorded(c) ==
  IF coupons[c].status = "used"
    THEN \E e \in LiveUses(c) : /\ LiveUses(c) = {e}
                                /\ e.ref = coupons[c].used_order_ref /\ e.ref # Nil
    ELSE LiveUses(c) = {}
OneLiveUse == \A c \in Coupons : OrderOnly(c) => UseIsRecorded(c)

UsableOnlyIfConfirmed(row) ==
  row.authority_type = "external" /\ row.sync_status # "synchronized" =>
    row.status \notin {"reserved", "used"}

\* A coupon an external platform has not confirmed is neither locked nor used, and no
\* late failure of its delivery takes a confirmation back.
UnconfirmedIsUnusable == \A c \in Coupons : UsableOnlyIfConfirmed(coupons[c])

\* Said by the message coupon_use_mismatch and by the Python mirror of the function: a
\* refund takes back the use its own order made.  The SQL compares with a NULL order
\* when a store used the coupon, and goes on.
RefundMatchesUse ==
  [][\A c \in Coupons, e \in events' \ events :
       e.type = "reversed" /\ e.coupon = c => coupons[c].used_order_ref = e.ref]_vars

\* Said by the merge function, its Python mirror and the glossary: the assets of two
\* memberships move together, and only a coupon held by an order makes them wait.
\* The trigger on member_coupons refuses every move.
OnlyLocksBlockMerge ==
  \A s, t \in Members :
    /\ s # t /\ members[s] = "active" /\ members[t] = "active"
    /\ \A c \in CouponsOf(s) \cup CouponsOf(t) : coupons[c].status # "reserved"
    => ENABLED Merge(s, t)
-----------------------------------------------------------------------------
(* What the coupons implement: see CouponPromise.                          *)

Asset(row) ==
  [state |-> CASE row.status = "none" -> "absent"
               [] row.status = "available" -> "free"
               [] row.status = "reserved" -> "locked"
               [] row.status = "used" -> "spent"
               [] OTHER -> "over",
   order |-> IF row.status = "used" THEN row.used_order_ref ELSE row.reserved_order_ref]

Promise == INSTANCE CouponPromise WITH
  asset <- [c \in Coupons |-> Asset(coupons[c])],
  issued <- [r \in Rules |-> rules[r].issued_count]

PromiseSpec == Promise!Spec

\* What the theorems carry from step to step.  An id that was not issued has no row.
UnissuedIsBlank == \A c \in Coupons : ~Exists(c) => coupons[c] = NoRow

IInv ==
  /\ TypeOK
  /\ UnissuedIsBlank
  /\ ChecksNeverFire
  /\ IssuedIsCounted
  /\ LogExplainsRow
  /\ UnconfirmedIsUnusable
=============================================================================

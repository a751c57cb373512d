-------------------------- MODULE MemberCouponProofs --------------------------
(***************************************************************************)
(* Proofs about MemberCoupon, for every set of rules, coupons, members,    *)
(* orders, stores and wallets, every limit, channel and validity.          *)
(***************************************************************************)
EXTENDS MemberCoupon, FiniteSetTheorems, TLAPS

\* A row that exists and that the invariant accepts.
GoodRow(row) ==
  row \in Rows /\ row.status # "none" /\ CheckedRow(row) /\ UsableOnlyIfConfirmed(row)

-----------------------------------------------------------------------------
(* Rewriting a row: the fields each operator changes, and what it keeps.   *)

\* The fields no call changes.
Kept(new, old) ==
  /\ new.membership_id = old.membership_id /\ new.rule_version_id = old.rule_version_id
  /\ new.source_claim_id = old.source_claim_id
  /\ new.authority_type = old.authority_type
  /\ new.valid_from = old.valid_from /\ new.valid_until = old.valid_until
  /\ new.version = old.version + 1

\* A lock: the order is recorded with the end of its hold.
LEMMA ReservedFields ==
  ASSUME TypeOK, NEW row \in Rows, NEW o \in Orders
  PROVE  LET new == Reserved(row, o)
         IN /\ new \in Rows /\ Kept(new, row)
            /\ new.status = "reserved" /\ new.reserved_order_ref = o
            /\ new.used_order_ref = row.used_order_ref /\ new.used_store_id = row.used_store_id
            /\ new.sync_status = row.sync_status
  <1>1. row.version + 1 \in Nat /\ now + HoldTime \in Nat
    BY IdsAssumption DEF Rows, TypeOK
  <1>2. \A v, h \in Nat :
          [row EXCEPT !.status = "reserved", !.reserved_order_ref = o,
                      !.reservation_expires_at = h, !.version = v] \in Rows
    BY DEF Rows, OrNil, Statuses
  <1>3. Reserved(row, o) \in Rows
    BY <1>1, <1>2 DEF Reserved
  <1> QED BY <1>3 DEF Reserved, Rows, Kept

\* A coupon set free, expired, revoked: no order holds it.
LEMMA FreedFields ==
  ASSUME NEW row \in Rows, NEW s \in Statuses
  PROVE  LET new == Freed(row, s)
         IN /\ new \in Rows /\ Kept(new, row)
            /\ new.status = s /\ new.reserved_order_ref = Nil
            /\ new.used_order_ref = row.used_order_ref /\ new.used_store_id = row.used_store_id
            /\ new.sync_status = row.sync_status
  <1>1. row.version + 1 \in Nat
    BY DEF Rows
  <1>2. \A v \in Nat :
          [row EXCEPT !.status = s, !.reserved_order_ref = Nil,
                      !.reservation_expires_at = 0, !.version = v] \in Rows
    BY DEF Rows, OrNil
  <1>3. Freed(row, s) \in Rows
    BY <1>1, <1>2 DEF Freed
  <1> QED BY <1>3 DEF Freed, Rows, Kept

\* A payment: the order that held the coupon has used it.
LEMMA CommittedFields ==
  ASSUME NEW row \in Rows, NEW o \in Orders
  PROVE  LET new == Committed(row, o)
         IN /\ new \in Rows /\ Kept(new, row)
            /\ new.status = "used" /\ new.reserved_order_ref = Nil
            /\ new.used_order_ref = o /\ new.used_store_id = row.used_store_id
            /\ new.sync_status = row.sync_status
  <1> DEFINE free == Freed(row, "used")
  <1>1. /\ free \in Rows /\ Kept(free, row)
        /\ free.status = "used" /\ free.reserved_order_ref = Nil
        /\ free.used_store_id = row.used_store_id /\ free.sync_status = row.sync_status
    BY FreedFields DEF Statuses
  <1> QED BY <1>1 DEF Committed, Rows, Kept, OrNil

\* A refund: the coupon is available again, or expired when it comes too late.
LEMMA ReversedFields ==
  ASSUME NEW row \in Rows
  PROVE  LET new == Reversed(row)
         IN /\ new \in Rows /\ Kept(new, row)
            /\ new.status \in {"available", "expired"}
            /\ new.reserved_order_ref = row.reserved_order_ref
            /\ new.used_order_ref = Nil /\ new.used_store_id = Nil
            /\ new.sync_status = row.sync_status
  <1>1. Restored(row) \in {"available", "expired"}
    BY DEF Restored
  <1>2. row.version + 1 \in Nat
    BY DEF Rows
  <1>3. \A v \in Nat, s \in {"available", "expired"} :
          [row EXCEPT !.status = s, !.used_order_ref = Nil,
                      !.used_store_id = Nil, !.version = v] \in Rows
    BY DEF Rows, OrNil, Statuses
  <1>4. Reversed(row) \in Rows
    BY <1>1, <1>2, <1>3 DEF Reversed
  <1> QED BY <1>1, <1>4 DEF Reversed, Rows, Kept

\* A use in a store, or one an external platform reports (no store).
LEMMA RedeemedFields ==
  ASSUME NEW row \in Rows, NEW s \in OrNil(Stores)
  PROVE  LET new == Redeemed(row, s)
         IN /\ new \in Rows /\ Kept(new, row)
            /\ new.status = "used" /\ new.reserved_order_ref = row.reserved_order_ref
            /\ new.used_order_ref = row.used_order_ref /\ new.used_store_id = s
            /\ new.sync_status = row.sync_status
  <1>1. row.version + 1 \in Nat
    BY DEF Rows
  <1>2. \A v \in Nat :
          [row EXCEPT !.status = "used", !.used_store_id = s, !.version = v] \in Rows
    BY DEF Rows, Statuses
  <1>3. Redeemed(row, s) \in Rows
    BY <1>1, <1>2 DEF Redeemed
  <1> QED BY <1>3 DEF Redeemed, Rows, Kept

\* What an external platform answered.
LEMMA SyncedFields ==
  ASSUME NEW row \in Rows, NEW s \in {"synchronized", "error"}
  PROVE  LET new == Synced(row, s)
         IN /\ new \in Rows /\ Kept(new, row) /\ new.status = row.status
            /\ new.reserved_order_ref = row.reserved_order_ref
            /\ new.used_order_ref = row.used_order_ref /\ new.used_store_id = row.used_store_id
            /\ new.sync_status = s
  <1>1. row.version + 1 \in Nat
    BY DEF Rows
  <1>2. \A v \in Nat : [row EXCEPT !.sync_status = s, !.version = v] \in Rows
    BY DEF Rows
  <1>3. Synced(row, s) \in Rows
    BY <1>1, <1>2 DEF Synced
  <1> QED BY <1>3 DEF Synced, Rows, Kept

-----------------------------------------------------------------------------
(* One call: an event about one coupon, and at most one row rewritten.     *)

Refs == OrNil(Orders \cup Stores \cup Claims \cup Rules)

\* What a call writes to the log is an event.
LEMMA EntryType ==
  ASSUME NEW t \in Types, NEW c \in Coupons, NEW x \in Refs, NEW n \in 0..Attempts,
         NEW row \in Rows
  PROVE  LET e == Entry(t, c, x, n, row)
         IN e \in Events /\ e.coupon = c /\ e.at = row.version /\ e.to = row.status
  BY DEF Entry, Events, Refs, OrNil, Rows

\* The invariant as the rows see it.
LEMMA RowsAreGood ==
  ASSUME IInv, NEW c \in Coupons
  PROVE  /\ coupons[c] \in Rows
         /\ Exists(c) => GoodRow(coupons[c])
         /\ ~Exists(c) => coupons[c] = NoRow
  BY DEF IInv, TypeOK, UnissuedIsBlank, ChecksNeverFire, UnconfirmedIsUnusable, GoodRow, Exists

\* A coupon keeps its rule, so no count changes.
LEMMA CountsKept ==
  ASSUME IInv, UNCHANGED rules,
         \A c \in Coupons : coupons'[c].rule_version_id = coupons[c].rule_version_id
  PROVE  IssuedIsCounted'
  <1>1. \A r \in Rules : IssuedOf(r)' = IssuedOf(r)
    BY DEF IssuedOf
  <1> QED BY <1>1 DEF IInv, IssuedIsCounted

\* A call that rewrites one good row into another, and logs it.
LEMMA UpdateKeeps ==
  ASSUME IInv, NEW c \in Coupons, Exists(c), NEW t \in Types, NEW x \in Refs,
         NEW n \in 0..Attempts, NEW row, GoodRow(row), Kept(row, coupons[c]),
         Update(t, c, x, n, row), UNCHANGED <<now, rules, members, open>>
  PROVE  IInv'
  <1> DEFINE entry == Entry(t, c, x, n, row)
  <1>1. /\ coupons' = [coupons EXCEPT ![c] = row] /\ events' = events \cup {entry}
        /\ row \in Rows /\ row.version = coupons[c].version + 1
        /\ row.rule_version_id = coupons[c].rule_version_id
    BY DEF Update, GoodRow, Kept
  <1>2. entry \in Events /\ entry.coupon = c /\ entry.at = row.version /\ entry.to = row.status
    BY <1>1, EntryType
  <1>3. coupons \in [Coupons -> Rows] /\ events \subseteq Events /\ LogExplainsRow
    BY DEF IInv, TypeOK
  <1>4. coupons'[c] = row /\ \A d \in Coupons : d # c => coupons'[d] = coupons[d]
    BY <1>1, <1>3
  <1>5. TypeOK'
    BY <1>1, <1>2, <1>3 DEF IInv, TypeOK
  <1>6. UnissuedIsBlank' /\ ChecksNeverFire' /\ UnconfirmedIsUnusable'
    BY <1>4 DEF IInv, UnissuedIsBlank, ChecksNeverFire, UnconfirmedIsUnusable, GoodRow, Exists
  <1>7. IssuedIsCounted'
    BY <1>1, <1>4, CountsKept
  <1>8. LogExplainsRow'
    <2> SUFFICES ASSUME NEW d \in Coupons
                 PROVE  /\ \A v \in 1..coupons'[d].version :
                             \E e \in events' : e.coupon = d /\ e.at = v
                        /\ \A e \in events' : e.coupon = d =>
                             /\ e.at \in 1..coupons'[d].version
                             /\ e.at = coupons'[d].version => e.to = coupons'[d].status
      BY DEF LogExplainsRow
    <2> DEFINE old == coupons[d].version
    <2>1. old \in Nat
      BY <1>3 DEF Rows
    <2>2. /\ \A v \in 1..old : \E e \in events : e.coupon = d /\ e.at = v
          /\ \A e \in events : e.coupon = d =>
               e.at \in 1..old /\ (e.at = old => e.to = coupons[d].status)
      BY <1>3 DEF LogExplainsRow
    <2>3. CASE d # c
      BY <1>1, <1>2, <1>4, <2>2, <2>3
    <2>4. CASE d = c
      <3>1. coupons'[d] = row /\ row.version = old + 1
        BY <1>1, <1>4, <2>4
      <3>2. ASSUME NEW v \in 1..row.version
            PROVE  \E e \in events' : e.coupon = d /\ e.at = v
        <4>1. CASE v = row.version
          BY <1>1, <1>2, <2>4, <4>1
        <4>2. CASE v # row.version
          <5>1. v \in 1..old
            BY <2>1, <3>1, <4>2
          <5> QED BY <1>1, <2>2, <5>1
        <4> QED BY <4>1, <4>2
      <3>3. ASSUME NEW e \in events', e.coupon = d
            PROVE  e.at \in 1..row.version /\ (e.at = row.version => e.to = row.status)
        <4>1. CASE e = entry
          BY <1>2, <2>1, <3>1, <4>1
        <4>2. CASE e \in events
          <5>1. e.at \in 1..old
            BY <2>2, <3>3, <4>2
          <5> QED BY <2>1, <3>1, <5>1
        <4> QED BY <1>1, <4>1, <4>2
      <3> QED BY <3>1, <3>2, <3>3
    <2> QED BY <2>3, <2>4
  <1> QED BY <1>5, <1>6, <1>7, <1>8 DEF IInv

\* A call that only logs.
LEMMA NoteKeeps ==
  ASSUME IInv, NEW c \in Coupons, Exists(c), NEW t \in Types, NEW x \in Refs,
         NEW n \in 0..Attempts, NoteOnly(t, c, x, n), UNCHANGED <<now, rules, members, open>>
  PROVE  IInv'
  <1> DEFINE entry == Entry(t, c, x, n, coupons[c])
  <1>1. coupons' = coupons /\ events' = events \cup {entry}
    BY DEF NoteOnly
  <1>2. coupons[c] \in Rows /\ coupons[c].version > 0
    BY RowsAreGood DEF GoodRow, CheckedRow
  <1>3. /\ entry \in Events /\ entry.coupon = c /\ entry.at = coupons[c].version
        /\ entry.to = coupons[c].status /\ entry.at \in 1..coupons[c].version
    <2>1. coupons[c].version \in Nat
      BY <1>2 DEF Rows
    <2> QED BY <1>2, <2>1, EntryType
  <1>4. TypeOK'
    BY <1>1, <1>3 DEF IInv, TypeOK
  <1>5. LogExplainsRow'
    BY <1>1, <1>3 DEF IInv, LogExplainsRow
  <1>6. UnissuedIsBlank' /\ ChecksNeverFire' /\ UnconfirmedIsUnusable'
    BY <1>1 DEF IInv, UnissuedIsBlank, ChecksNeverFire, UnconfirmedIsUnusable, Exists
  <1>7. IssuedIsCounted'
    BY <1>1, CountsKept
  <1> QED BY <1>4, <1>5, <1>6, <1>7 DEF IInv

-----------------------------------------------------------------------------
(* The invariant is inductive: one lemma for each kind of call.            *)

\* Facts about ids that every step uses.
LEMMA Ids ==
  /\ Nil \notin Orders /\ Nil \notin Stores /\ Nil \notin Coupons /\ Nil \notin Rules
  /\ Nil \in Refs /\ Orders \subseteq Refs /\ Stores \subseteq Refs /\ Claims \subseteq Refs
  /\ 1 \in 0..Attempts /\ 1..Attempts \subseteq 0..Attempts
  BY IdsAssumption DEF Refs, OrNil

\* The calls of an order keep the invariant.
LEMMA OrderCallKeeps ==
  ASSUME IInv, NEW c \in Coupons, NEW o \in Orders, NEW n \in 1..Attempts,
         \/ Reserve(c, o, n) \/ Commit(c, o, n) \/ Release(c, o, n)
         \/ Reverse(c, o, n) \/ RecordPartialRefund(c, o, n)
  PROVE  IInv'
  <1> DEFINE row == coupons[c]
  <1>1. row \in Rows /\ (Exists(c) => GoodRow(row)) /\ TypeOK
    BY RowsAreGood DEF IInv
  <1>2. o \in Refs /\ o # Nil /\ n \in 0..Attempts
    BY Ids
  <1>3. CASE Reserve(c, o, n)
    <2>1. CASE NoteOnly("reserved", c, o, n)
      BY <1>2, <1>3, <2>1, NoteKeeps DEF Reserve, Types
    <2>2. CASE row.status = "available" /\ Update("reserved", c, o, n, Reserved(row, o))
      <3>1. GoodRow(Reserved(row, o)) /\ Kept(Reserved(row, o), row)
        <4>1. /\ GoodRow(row)
              /\ row.authority_type = "external" => row.sync_status = "synchronized"
          BY <1>1, <1>3 DEF Reserve, Redeemable
        <4>2. /\ Reserved(row, o) \in Rows /\ Kept(Reserved(row, o), row)
              /\ Reserved(row, o).status = "reserved"
              /\ Reserved(row, o).reserved_order_ref = o
              /\ Reserved(row, o).used_order_ref = row.used_order_ref
              /\ Reserved(row, o).used_store_id = row.used_store_id
              /\ Reserved(row, o).sync_status = row.sync_status
          BY <1>1, ReservedFields
        <4> QED BY <1>1, <1>2, <2>2, <4>1, <4>2
              DEF GoodRow, CheckedRow, UsableOnlyIfConfirmed, Kept, Rows
      <3> QED BY <1>2, <1>3, <2>2, <3>1, UpdateKeeps DEF Reserve, Types
    <2> QED BY <1>3, <2>1, <2>2 DEF Reserve
  <1>4. CASE Commit(c, o, n)
    <2>1. Exists(c) /\ row.status = "reserved"
      BY <1>4 DEF Commit, HeldBy, Exists
    <2>2. GoodRow(Committed(row, o)) /\ Kept(Committed(row, o), row)
      BY <1>1, <1>2, <2>1, CommittedFields
      DEF GoodRow, CheckedRow, UsableOnlyIfConfirmed, Kept, Rows
    <2> QED BY <1>2, <1>4, <2>1, <2>2, UpdateKeeps DEF Commit, Types
  <1>5. CASE Release(c, o, n)
    <2>1. Exists(c) /\ row.status = "reserved"
      BY <1>5 DEF Release, HeldBy, Exists
    <2>2. Restored(row) \in {"available", "expired"}
      BY DEF Restored
    <2>3. ASSUME NEW s \in {"available", "expired"}
          PROVE  GoodRow(Freed(row, s)) /\ Kept(Freed(row, s), row)
      <3>1. s \in Statuses
        BY DEF Statuses
      <3> QED BY <1>1, <2>1, <3>1, FreedFields
            DEF GoodRow, CheckedRow, UsableOnlyIfConfirmed, Kept, Rows
    <2> QED BY <1>2, <1>5, <2>1, <2>2, <2>3, UpdateKeeps DEF Release, Types
  <1>6. CASE Reverse(c, o, n)
    <2>1. Exists(c) /\ row.status = "used"
      BY <1>6 DEF Reverse, SpentBy, Exists
    <2>2. GoodRow(Reversed(row)) /\ Kept(Reversed(row), row)
      BY <1>1, <2>1, ReversedFields
      DEF GoodRow, CheckedRow, UsableOnlyIfConfirmed, Kept, Rows
    <2> QED BY <1>2, <1>6, <2>1, <2>2, UpdateKeeps DEF Reverse, Types
  <1>7. CASE RecordPartialRefund(c, o, n)
    <2>1. Exists(c)
      BY <1>7 DEF RecordPartialRefund, SpentBy, Exists
    <2> QED BY <1>2, <1>7, <2>1, NoteKeeps DEF RecordPartialRefund, Types
  <1> QED BY <1>3, <1>4, <1>5, <1>6, <1>7

\* So do those of stores, operators and external platforms.
LEMMA OtherCallKeeps ==
  ASSUME IInv, OtherCall
  PROVE  IInv'
  <1>1. ASSUME NEW c \in Coupons
        PROVE  coupons[c] \in Rows /\ (Exists(c) => GoodRow(coupons[c]))
    BY RowsAreGood
  <1>2. ASSUME NEW c \in Coupons, NEW s \in Stores, NEW n \in 1..Attempts, StoreRedeem(c, s, n)
        PROVE  IInv'
    <2> DEFINE row == coupons[c]
    <2>1. /\ Exists(c) /\ row.status = "available" /\ s \in OrNil(Stores) /\ s # Nil
          /\ row.authority_type = "external" => row.sync_status = "synchronized"
      BY <1>2, Ids DEF StoreRedeem, Redeemable, OrNil
    <2>2. GoodRow(Redeemed(row, s)) /\ Kept(Redeemed(row, s), row)
      BY <1>1, <2>1, RedeemedFields DEF GoodRow, CheckedRow, UsableOnlyIfConfirmed, Kept, Rows
    <2> QED BY <1>2, <2>1, <2>2, Ids, UpdateKeeps DEF StoreRedeem, Types
  <1>3. ASSUME NEW c \in Coupons, Revoke(c)
        PROVE  IInv'
    <2> DEFINE row == coupons[c]
    <2>1. Exists(c) /\ row.status = "available" /\ "revoked" \in Statuses
      BY <1>3 DEF Revoke, Exists, Statuses
    <2>2. GoodRow(Freed(row, "revoked")) /\ Kept(Freed(row, "revoked"), row)
      BY <1>1, <2>1, FreedFields DEF GoodRow, CheckedRow, UsableOnlyIfConfirmed, Kept, Rows
    <2> QED BY <1>3, <2>1, <2>2, Ids, UpdateKeeps DEF Revoke, Types
  <1>4. ASSUME NEW c \in Coupons, ConsumeExternal(c)
        PROVE  IInv'
    <2> DEFINE row == coupons[c]
               t == "external_sync_confirmed"
    <2>1. /\ Exists(c) /\ row.authority_type = "external" /\ row.sync_status = "synchronized"
          /\ UNCHANGED <<now, rules, members, open>> /\ t \in Types /\ Nil \in OrNil(Stores)
      BY <1>4 DEF ConsumeExternal, Types, OrNil
    <2>2. CASE NoteOnly(t, c, Nil, 1)
      BY <2>1, <2>2, Ids, NoteKeeps
    <2>3. CASE row.status = "available" /\ Update(t, c, Nil, 1, Redeemed(row, Nil))
      <3>1. GoodRow(Redeemed(row, Nil)) /\ Kept(Redeemed(row, Nil), row)
        BY <1>1, <2>1, <2>3, RedeemedFields
        DEF GoodRow, CheckedRow, UsableOnlyIfConfirmed, Kept, Rows
      <3> QED BY <2>1, <2>3, <3>1, Ids, UpdateKeeps
    <2> QED BY <1>4, <2>2, <2>3 DEF ConsumeExternal
  <1>5. ASSUME NEW c \in Coupons, NEW cl \in Claims, ConfirmSync(cl, c)
        PROVE  IInv'
    <2> DEFINE row == coupons[c]
    <2>1. Exists(c) /\ row.authority_type = "external"
      BY <1>5 DEF ConfirmSync, ExternalOf
    <2>2. GoodRow(Synced(row, "synchronized")) /\ Kept(Synced(row, "synchronized"), row)
      <3>1. /\ GoodRow(row) /\ Synced(row, "synchronized") \in Rows
            /\ Kept(Synced(row, "synchronized"), row)
            /\ Synced(row, "synchronized").status = row.status
            /\ Synced(row, "synchronized").reserved_order_ref = row.reserved_order_ref
            /\ Synced(row, "synchronized").used_order_ref = row.used_order_ref
            /\ Synced(row, "synchronized").used_store_id = row.used_store_id
            /\ Synced(row, "synchronized").sync_status = "synchronized"
        BY <1>1, <2>1, SyncedFields
      <3> QED BY <2>1, <3>1 DEF GoodRow, CheckedRow, UsableOnlyIfConfirmed, Kept, Rows
    <2> QED BY <1>5, <2>1, <2>2, Ids, UpdateKeeps DEF ConfirmSync, Types
  <1>6. ASSUME NEW c \in Coupons, NEW cl \in Claims, MarkSyncError(cl, c)
        PROVE  IInv'
    <2> DEFINE row == coupons[c]
    <2>1. /\ Exists(c) /\ row.authority_type = "external"
          /\ row.status \notin {"reserved", "used"}
      BY <1>1, <1>6 DEF MarkSyncError, ExternalOf, GoodRow, UsableOnlyIfConfirmed
    <2>2. GoodRow(Synced(row, "error")) /\ Kept(Synced(row, "error"), row)
      <3>1. /\ GoodRow(row) /\ Synced(row, "error") \in Rows
            /\ Kept(Synced(row, "error"), row)
            /\ Synced(row, "error").status = row.status
            /\ Synced(row, "error").reserved_order_ref = row.reserved_order_ref
            /\ Synced(row, "error").used_order_ref = row.used_order_ref
            /\ Synced(row, "error").used_store_id = row.used_store_id
            /\ Synced(row, "error").sync_status = "error"
        BY <1>1, <2>1, SyncedFields
      <3> QED BY <2>1, <3>1 DEF GoodRow, CheckedRow, UsableOnlyIfConfirmed, Kept, Rows
    <2> QED BY <1>6, <2>1, <2>2, Ids, UpdateKeeps DEF MarkSyncError, Types
  <1> QED BY <1>2, <1>3, <1>4, <1>5, <1>6 DEF OtherCall

\* A new coupon is a good row of version 1.
LEMMA NewRowIsGood ==
  ASSUME TypeOK, NEW cl \in Claims, NEW m \in Members, NEW r \in Rules
  PROVE  LET new == NewRow(cl, m, r)
         IN /\ GoodRow(new) /\ new.version = 1 /\ new.status = "available"
            /\ new.rule_version_id = r
  <1> DEFINE new == NewRow(cl, m, r)
  <1>1. ValidFrom(r) \in Nat /\ ValidUntil(r) \in Nat /\ ValidFrom(r) < ValidUntil(r)
    <2>1. \/ Validity[r].mode = "relative" /\ Validity[r].days \in Nat \ {0}
          \/ /\ Validity[r].mode = "fixed" /\ Validity[r].from \in Nat
             /\ Validity[r].until \in Nat /\ Validity[r].from < Validity[r].until
      BY RulesAssumption
    <2> QED BY <2>1 DEF TypeOK, ValidFrom, ValidUntil
  <1>2. /\ new.status = "available" /\ new.membership_id = m /\ new.rule_version_id = r
        /\ new.source_claim_id = cl /\ new.authority_type = Authority(cl)
        /\ new.sync_status = IF cl \in ExternalClaims THEN "pending" ELSE "not_required"
        /\ new.valid_from = ValidFrom(r) /\ new.valid_until = ValidUntil(r)
        /\ new.reserved_order_ref = Nil /\ new.used_order_ref = Nil /\ new.used_store_id = Nil
        /\ new.version = 1
    BY DEF NewRow, NoRow
  <1>3. new \in Rows
    BY <1>1 DEF NewRow, NoRow, Rows, OrNil, Statuses, Authority
  <1>4. CheckedRow(new) /\ UsableOnlyIfConfirmed(new)
    BY <1>1, <1>2 DEF CheckedRow, UsableOnlyIfConfirmed, Authority
  <1> QED BY <1>2, <1>3, <1>4 DEF GoodRow

\* A new coupon is counted, logged as version 1, and good.
LEMMA IssueNewKeeps ==
  ASSUME IInv, NEW cl \in Claims, NEW m \in Members, NEW r \in Rules, NEW c \in Coupons,
         IssueNew(cl, m, r, c)
  PROVE  IInv'
  <1> DEFINE row == NewRow(cl, m, r)
             entry == Entry(IssueType(cl), c, cl, 1, row)
  <1>1. /\ coupons' = [coupons EXCEPT ![c] = row] /\ events' = events \cup {entry}
        /\ rules' = [rules EXCEPT ![r].issued_count = @ + 1]
        /\ UNCHANGED <<now, members, open>>
        /\ ~Exists(c) /\ rules[r].issued_count < IssuanceLimit[r]
    BY DEF IssueNew, MayAsk, Issuable
  <1>2. TypeOK /\ GoodRow(row) /\ row.version = 1 /\ row.status = "available"
        /\ row.rule_version_id = r
    BY NewRowIsGood DEF IInv
  <1>3. entry \in Events /\ entry.coupon = c /\ entry.at = 1 /\ entry.to = row.status
    BY <1>2, Ids, EntryType DEF GoodRow, IssueType, Types
  <1>4. coupons'[c] = row /\ \A d \in Coupons : d # c => coupons'[d] = coupons[d]
    BY <1>1, <1>2 DEF TypeOK
  <1>5. coupons[c] = NoRow
    BY <1>1, RowsAreGood
  <1>6. TypeOK'
    BY <1>1, <1>2, <1>3 DEF TypeOK, GoodRow
  <1>7. UnissuedIsBlank' /\ ChecksNeverFire' /\ UnconfirmedIsUnusable'
    BY <1>2, <1>4 DEF IInv, UnissuedIsBlank, ChecksNeverFire, UnconfirmedIsUnusable, GoodRow, Exists
  <1>8. IssuedIsCounted'
    <2> SUFFICES ASSUME NEW q \in Rules
                 PROVE  /\ rules'[q].issued_count = Cardinality(IssuedOf(q)')
                        /\ rules'[q].issued_count <= IssuanceLimit[q]
      BY DEF IssuedIsCounted
    <2>1. /\ rules[q].issued_count = Cardinality(IssuedOf(q))
          /\ rules[q].issued_count <= IssuanceLimit[q]
          /\ rules[q].issued_count \in Nat /\ IssuanceLimit[q] \in Nat
      BY <1>2, RulesAssumption DEF IInv, IssuedIsCounted, TypeOK
    <2>2. CASE q = r
      <3>1. IssuedOf(q)' = IssuedOf(q) \cup {c} /\ c \notin IssuedOf(q)
        BY <1>2, <1>4, <1>5, <2>2, Ids DEF IssuedOf, NoRow
      <3>2. IsFiniteSet(IssuedOf(q))
        BY IdsAssumption, FS_Subset DEF IssuedOf
      <3>3. Cardinality(IssuedOf(q)') = Cardinality(IssuedOf(q)) + 1
        BY <3>1, <3>2, FS_AddElement
      <3>4. rules'[q].issued_count = rules[q].issued_count + 1
        BY <1>1, <1>2, <2>2 DEF TypeOK
      <3> QED BY <1>1, <2>1, <2>2, <3>3, <3>4
    <2>3. CASE q # r
      <3>1. IssuedOf(q)' = IssuedOf(q)
        BY <1>2, <1>4, <1>5, <2>3, Ids DEF IssuedOf, NoRow
      <3>2. rules'[q] = rules[q]
        BY <1>1, <1>2, <2>3 DEF TypeOK
      <3> QED BY <2>1, <3>1, <3>2
    <2> QED BY <2>2, <2>3
  <1>9. LogExplainsRow'
    <2>1. \A e \in events : e.coupon # c
      BY <1>5 DEF IInv, LogExplainsRow, NoRow
    <2>2. \A v \in 1..row.version : \E e \in events' : e.coupon = c /\ e.at = v
      BY <1>1, <1>2, <1>3
    <2>3. \A e \in events' : e.coupon = c => e = entry
      BY <1>1, <2>1
    <2>4. /\ \A v \in 1..coupons'[c].version : \E e \in events' : e.coupon = c /\ e.at = v
          /\ \A e \in events' : e.coupon = c =>
               /\ e.at \in 1..coupons'[c].version
               /\ e.at = coupons'[c].version => e.to = coupons'[c].status
      BY <1>2, <1>3, <1>4, <2>2, <2>3
    <2> QED BY <1>1, <1>3, <1>4, <2>4 DEF IInv, LogExplainsRow
  <1> QED BY <1>6, <1>7, <1>8, <1>9 DEF IInv

\* Issuing keeps the invariant, with a new coupon or the one already there.
LEMMA IssuingKeeps ==
  ASSUME IInv, Issuing
  PROVE  IInv'
  <1>1. PICK cl \in Claims, m \in Members, r \in Rules, c \in Coupons :
          IssueNew(cl, m, r, c) \/ IssueExisting(cl, m, r, c)
    BY DEF Issuing
  <1>2. CASE IssueExisting(cl, m, r, c)
    <2>1. /\ Exists(c) /\ IssueType(cl) \in Types
          /\ NoteOnly(IssueType(cl), c, cl, 1) /\ UNCHANGED <<now, rules, members, open>>
      BY <1>2 DEF IssueExisting, ActiveOf, Active, Exists, IssueType, Types
    <2> QED BY <2>1, Ids, NoteKeeps
  <1> QED BY <1>1, <1>2, IssueNewKeeps

\* A wallet request expires every coupon it read that nobody expired meanwhile.
LEMMA ExpireReadKeeps ==
  ASSUME IInv, NEW w \in Readers, ExpireRead(w)
  PROVE  IInv'
  <1> DEFINE R == Remaining(w)
             new(c) == Freed(coupons[c], "expired")
             entry(c) == Entry("expired", c, Nil, 1, new(c))
  <1>1. /\ coupons' = [c \in Coupons |-> IF c \in R THEN new(c) ELSE coupons[c]]
        /\ events' = events \cup {entry(c) : c \in R}
        /\ open' = [open EXCEPT ![w] = {}] /\ UNCHANGED <<now, rules, members>>
        /\ TypeOK /\ R \subseteq Coupons
    BY DEF ExpireRead, Remaining, IInv, TypeOK
  <1>2. ASSUME NEW c \in R
        PROVE  /\ GoodRow(new(c)) /\ Kept(new(c), coupons[c]) /\ new(c).status = "expired"
               /\ Exists(c)
    <2>1. /\ c \in Coupons /\ Exists(c) /\ coupons[c].status \in {"available", "reserved"}
      BY <1>1 DEF ExpireRead, PastValidity, Active, Exists
    <2>2. GoodRow(coupons[c]) /\ "expired" \in Statuses
      BY <2>1, RowsAreGood DEF Statuses
    <2> QED BY <2>1, <2>2, FreedFields
          DEF GoodRow, CheckedRow, UsableOnlyIfConfirmed, Kept, Rows
  <1>3. ASSUME NEW c \in R
        PROVE  /\ entry(c) \in Events /\ entry(c).coupon = c
               /\ entry(c).at = new(c).version /\ entry(c).to = new(c).status
    BY <1>1, <1>2, Ids, EntryType DEF GoodRow, Types
  <1>4. \A c \in Coupons : coupons'[c] = IF c \in R THEN new(c) ELSE coupons[c]
    BY <1>1
  <1>5. TypeOK'
    BY <1>1, <1>2, <1>3 DEF TypeOK, GoodRow
  <1>6. UnissuedIsBlank' /\ ChecksNeverFire' /\ UnconfirmedIsUnusable'
    BY <1>2, <1>4 DEF IInv, UnissuedIsBlank, ChecksNeverFire, UnconfirmedIsUnusable, GoodRow, Exists
  <1>7. IssuedIsCounted'
    BY <1>1, <1>2, <1>4, CountsKept DEF Kept
  <1>8. LogExplainsRow'
    <2> SUFFICES ASSUME NEW d \in Coupons
                 PROVE  /\ \A v \in 1..coupons'[d].version :
                             \E e \in events' : e.coupon = d /\ e.at = v
                        /\ \A e \in events' : e.coupon = d =>
                             /\ e.at \in 1..coupons'[d].version
                             /\ e.at = coupons'[d].version => e.to = coupons'[d].status
      BY DEF LogExplainsRow
    <2> DEFINE old == coupons[d].version
    <2>1. old \in Nat
      BY <1>1 DEF TypeOK, Rows
    <2>2. /\ \A v \in 1..old : \E e \in events : e.coupon = d /\ e.at = v
          /\ \A e \in events : e.coupon = d =>
               e.at \in 1..old /\ (e.at = old => e.to = coupons[d].status)
      BY DEF IInv, LogExplainsRow
    <2>3. ASSUME NEW e \in events', e \notin events, e.coupon = d
          PROVE  d \in R /\ e = entry(d)
      <3>1. PICK c \in R : e = entry(c)
        BY <1>1, <2>3
      <3> QED BY <1>3, <2>3, <3>1
    <2>4. CASE d \notin R
      BY <1>1, <1>4, <2>2, <2>3, <2>4
    <2>5. CASE d \in R
      <3>1. coupons'[d] = new(d) /\ new(d).version = old + 1 /\ entry(d) \in events'
        BY <1>1, <1>2, <1>4, <2>5 DEF Kept
      <3>2. ASSUME NEW v \in 1..new(d).version
            PROVE  \E e \in events' : e.coupon = d /\ e.at = v
        <4>1. CASE v = new(d).version
          BY <1>3, <2>5, <3>1, <4>1
        <4>2. CASE v # new(d).version
          <5>1. v \in 1..old
            BY <2>1, <3>1, <4>2
          <5> QED BY <1>1, <2>2, <5>1
        <4> QED BY <4>1, <4>2
      <3>3. ASSUME NEW e \in events', e.coupon = d
            PROVE  /\ e.at \in 1..new(d).version
                   /\ e.at = new(d).version => e.to = new(d).status
        <4>1. CASE e \in events
          <5>1. e.at \in 1..old
            BY <2>2, <3>3, <4>1
          <5> QED BY <2>1, <3>1, <5>1
        <4>2. CASE e \notin events
          <5>1. e = entry(d)
            BY <2>3, <3>3, <4>2
          <5> QED BY <1>3, <2>1, <2>5, <3>1, <5>1
        <4> QED BY <4>1, <4>2
      <3> QED BY <3>1, <3>2, <3>3
    <2> QED BY <2>4, <2>5
  <1> QED BY <1>5, <1>6, <1>7, <1>8 DEF IInv

\* The trigger lets a membership with coupons move nowhere: a merge that succeeds
\* moves none.
LEMMA MergeMovesNothing ==
  ASSUME TypeOK, NEW m \in Members, NEW t \in Members, Merge(m, t)
  PROVE  coupons' = coupons
  <1>1. CouponsOf(m) = {}
    <2> SUFFICES ASSUME NEW c \in CouponsOf(m) PROVE FALSE
      OBVIOUS
    <2>1. coupons[c] \in Rows /\ coupons[c].membership_id = m
      BY DEF CouponsOf, TypeOK
    <2>2. Moved(c, t).membership_id = t
      BY <2>1 DEF Moved, Rows
    <2>3. Moved(c, t).membership_id = coupons[c].membership_id /\ m # t
      BY DEF Merge, GuardAllows
    <2> QED BY <2>1, <2>2, <2>3
  <1> QED BY <1>1 DEF Merge, TypeOK

\* A step that leaves coupons, rules and log alone.
LEMMA RestKeeps ==
  ASSUME IInv, TypeOK', UNCHANGED <<coupons, events, rules>>
  PROVE  IInv'
  BY DEF IInv, UnissuedIsBlank, ChecksNeverFire, UnconfirmedIsUnusable, IssuedIsCounted,
         IssuedOf, LogExplainsRow, Exists

\* A step in the life of a rule touches no coupon and no count.
LEMMA RuleStepKeeps ==
  ASSUME IInv, NEW t \in Types, NEW r \in Rules, NEW n \in 0..Attempts,
         NEW source \in SUBSET RuleStatuses, NEW target \in RuleStatuses,
         RuleStep(t, r, n, source, target)
  PROVE  IInv'
  <1> DEFINE entry == [type |-> t, coupon |-> Nil, ref |-> r, try |-> n, to |-> target, at |-> 0]
  <1>1. /\ rules' = [rules EXCEPT ![r].status = target] /\ events' = events \cup {entry}
        /\ UNCHANGED <<now, coupons, members, open>> /\ TypeOK
    BY DEF RuleStep, IInv
  <1>2. entry \in Events /\ entry.coupon \notin Coupons
    BY IdsAssumption DEF Events, OrNil
  <1>3. TypeOK'
    BY <1>1, <1>2 DEF TypeOK
  <1>4. \A q \in Rules : rules'[q].issued_count = rules[q].issued_count
    BY <1>1 DEF TypeOK
  <1>5. IssuedIsCounted'
    <2>1. \A q \in Rules : IssuedOf(q)' = IssuedOf(q)
      BY <1>1 DEF IssuedOf
    <2> QED BY <1>4, <2>1 DEF IInv, IssuedIsCounted
  <1>6. LogExplainsRow'
    BY <1>1, <1>2 DEF IInv, LogExplainsRow
  <1> QED BY <1>1, <1>3, <1>5, <1>6
        DEF IInv, UnissuedIsBlank, ChecksNeverFire, UnconfirmedIsUnusable, Exists

-----------------------------------------------------------------------------
(* The theorems.                                                           *)

\* No row, no event, no count: the invariant holds at the start.
THEOREM IInvInit == Init => IInv
  <1> SUFFICES ASSUME Init PROVE IInv
    OBVIOUS
  <1>1. NoRow \in Rows
    BY DEF NoRow, Rows, OrNil, Statuses
  <1>2. TypeOK
    BY <1>1 DEF Init, TypeOK, RuleStatuses
  <1>3. IssuedIsCounted
    <2>1. \A r \in Rules : IssuedOf(r) = {}
      BY Ids DEF Init, IssuedOf, NoRow
    <2>2. \A r \in Rules : rules[r].issued_count = 0 /\ 0 <= IssuanceLimit[r]
      BY RulesAssumption DEF Init
    <2>3. \A r \in Rules : Cardinality(IssuedOf(r)) = 0
      BY <2>1, FS_EmptySet
    <2> QED BY <2>2, <2>3 DEF IssuedIsCounted
  <1>4. LogExplainsRow
    BY DEF Init, LogExplainsRow, NoRow
  <1> QED BY <1>2, <1>3, <1>4
        DEF IInv, Init, UnissuedIsBlank, ChecksNeverFire, UnconfirmedIsUnusable,
            UsableOnlyIfConfirmed, Exists, NoRow

\* Every call, of whomever and in whatever order, keeps the invariant.
THEOREM IInvNext == IInv /\ [Next]_vars => IInv'
  <1> SUFFICES ASSUME IInv, [Next]_vars PROVE IInv'
    OBVIOUS
  <1>1. TypeOK
    BY DEF IInv
  <1>2. CASE RuleOperation
    BY <1>2, Ids, RuleStepKeeps
    DEF RuleOperation, CreateRule, PublishRule, PauseRule, ResumeRule, EndRule, Types, RuleStatuses
  <1>3. CASE Issuing
    BY <1>3, IssuingKeeps
  <1>4. CASE OrderCall
    BY <1>4, OrderCallKeeps DEF OrderCall
  <1>5. CASE OtherCall
    BY <1>5, OtherCallKeeps
  <1>6. CASE Wallet
    <2>1. PICK w \in Readers :
            (\E m \in Members : OpenWallet(w, m)) \/ ExpireRead(w) \/ ListingFails(w)
      BY <1>6 DEF Wallet
    <2>2. CASE ExpireRead(w)
      BY <2>2, ExpireReadKeeps
    <2>3. CASE \E m \in Members : OpenWallet(w, m)
      BY <1>1, <2>3, RestKeeps DEF OpenWallet, Stale, TypeOK
    <2>4. CASE ListingFails(w)
      BY <1>1, <2>4, RestKeeps DEF ListingFails, TypeOK
    <2> QED BY <2>1, <2>2, <2>3, <2>4
  <1>7. CASE Merging
    <2>1. PICK m \in Members, t \in Members : Merge(m, t)
      BY <1>7 DEF Merging
    <2>2. coupons' = coupons
      BY <1>1, <2>1, MergeMovesNothing
    <2>3. /\ members' = [members EXCEPT ![m] = "merged"]
          /\ UNCHANGED <<now, rules, events, open>>
      BY <2>1 DEF Merge
    <2>4. TypeOK'
      BY <1>1, <2>2, <2>3 DEF TypeOK
    <2> QED BY <2>2, <2>3, <2>4, RestKeeps
  <1>8. CASE Tick
    BY <1>1, <1>8, RestKeeps DEF Tick, TypeOK
  <1>9. CASE UNCHANGED vars
    BY <1>1, <1>9, RestKeeps DEF vars, TypeOK
  <1> QED BY <1>2, <1>3, <1>4, <1>5, <1>6, <1>7, <1>8, <1>9 DEF Next

\* The invariant holds in every reachable state.
THEOREM Invariance == Spec => []IInv
  BY IInvInit, IInvNext, PTL DEF Spec

\* Every reachable state is well typed.
THEOREM TypeCorrect == Spec => []TypeOK
  BY Invariance, PTL DEF IInv

\* No CHECK constraint of member_coupons ever has to refuse a write of the authority.
THEOREM ChecksHold == Spec => []ChecksNeverFire
  BY Invariance, PTL DEF IInv

\* issued_count is exact and never passes the limit of its rule.
THEOREM LimitIsKept == Spec => []IssuedIsCounted
  BY Invariance, PTL DEF IInv

\* The event log accounts for every version of every coupon.
THEOREM LogIsComplete == Spec => []LogExplainsRow
  BY Invariance, PTL DEF IInv

\* A coupon the external platform has not confirmed is neither locked nor used.
THEOREM UnconfirmedStaysUnused == Spec => []UnconfirmedIsUnusable
  BY Invariance, PTL DEF IInv

-----------------------------------------------------------------------------
(* What the log remembers of the locks and uses of a coupon.               *)

\* The events a lock, an answer to it, a use or a refund writes about a coupon.
Answers == {"reserved", "released", "committed", "reversed", "store_redeemed"}
Told(c) == {e \in events : e.coupon = c /\ e.type \in Answers}

\* What happens to a coupon in a step that is none of those calls on it: no event of
\* these, no new hold, no activity that was not there, and a use only by a platform.
Quiet(c) ==
  /\ Told(c)' = Told(c)
  /\ Kept(coupons'[c], coupons[c]) \/ coupons'[c] = coupons[c]
  /\ Active(c)' => Active(c)
  /\ Exists(c)' => Exists(c)
  /\ coupons'[c].reserved_order_ref \in {coupons[c].reserved_order_ref, Nil}
  /\ coupons'[c].used_order_ref = coupons[c].used_order_ref
  /\ coupons[c].authority_type = "yimatong" =>
       ((coupons'[c].status = "used") <=> (coupons[c].status = "used"))

\* The calls that are not quiet.
Moving(c) ==
  \/ \E cl \in Claims, m \in Members, r \in Rules : IssueNew(cl, m, r, c)
  \/ \E o \in Orders, n \in 1..Attempts :
       Reserve(c, o, n) \/ Commit(c, o, n) \/ Release(c, o, n) \/ Reverse(c, o, n)
  \/ \E s \in Stores, n \in 1..Attempts : StoreRedeem(c, s, n)

\* A row that stands and about which nothing is told is quiet.
LEMMA StandingIsQuiet ==
  ASSUME NEW c \in Coupons, coupons'[c] = coupons[c], Told(c)' = Told(c)
  PROVE  Quiet(c)
  BY DEF Quiet, Active, Exists

\* A call about one coupon tells nothing of another, and of its own coupon one event.
LEMMA CallTells ==
  ASSUME TypeOK, NEW c \in Coupons, NEW t \in Types, NEW x, NEW n, NEW row,
         events' = events \cup {Entry(t, c, x, n, row)}
  PROVE  /\ \A d \in Coupons : d # c => Told(d)' = Told(d)
         /\ Told(c)' = IF t \in Answers THEN Told(c) \cup {Entry(t, c, x, n, row)} ELSE Told(c)
  <1> DEFINE entry == Entry(t, c, x, n, row)
  <1>1. entry.coupon = c /\ entry.type = t
    BY DEF Entry
  <1> HIDE DEF entry
  <1>2. events' = events \cup {entry}
    BY DEF entry
  <1>3. \A d \in Coupons : d # c => Told(d)' = Told(d)
    BY <1>1, <1>2 DEF Told
  <1>4. Told(c)' = IF t \in Answers THEN Told(c) \cup {entry} ELSE Told(c)
    BY <1>1, <1>2 DEF Told
  <1> QED BY <1>3, <1>4 DEF entry

\* A call leaves the other coupons alone.
LEMMA OthersAreQuiet ==
  ASSUME TypeOK, NEW c \in Coupons, NEW t \in Types, NEW x, NEW n, NEW row,
         Update(t, c, x, n, row) \/ NoteOnly(t, c, x, n),
         NEW d \in Coupons, d # c
  PROVE  Quiet(d)
  <1>1. coupons'[d] = coupons[d]
    BY DEF Update, NoteOnly, TypeOK
  <1>2. CASE Update(t, c, x, n, row)
    BY <1>1, <1>2, CallTells, StandingIsQuiet DEF Update
  <1>3. CASE NoteOnly(t, c, x, n)
    BY <1>1, <1>3, CallTells, StandingIsQuiet DEF NoteOnly
  <1> QED BY <1>2, <1>3

\* A call that tells none of these events and only logs is quiet.
LEMMA NoteIsQuiet ==
  ASSUME TypeOK, NEW c \in Coupons, NEW t \in Types \ Answers, NEW x, NEW n,
         NoteOnly(t, c, x, n), NEW d \in Coupons
  PROVE  Quiet(d)
  <1>1. coupons'[d] = coupons[d] /\ Told(d)' = Told(d)
    BY CallTells DEF NoteOnly
  <1> QED BY <1>1, StandingIsQuiet

\* The calls of an order.
LEMMA OrderCallMoves ==
  ASSUME IInv, NEW c \in Coupons, NEW o \in Orders, NEW n \in 1..Attempts,
         \/ Reserve(c, o, n) \/ Commit(c, o, n) \/ Release(c, o, n)
         \/ Reverse(c, o, n) \/ RecordPartialRefund(c, o, n),
         NEW d \in Coupons
  PROVE  Quiet(d) \/ Moving(d)
  <1>1. TypeOK
    BY DEF IInv
  <1>2. CASE RecordPartialRefund(c, o, n)
    <2>1. "refund_recorded" \in Types \ Answers
      BY DEF Types, Answers
    <2> QED BY <1>1, <1>2, <2>1, NoteIsQuiet DEF RecordPartialRefund
  <1>3. CASE Reserve(c, o, n) \/ Commit(c, o, n) \/ Release(c, o, n) \/ Reverse(c, o, n)
    <2>1. CASE d = c
      BY <1>3, <2>1 DEF Moving
    <2>2. CASE d # c
      <3>1. \E t \in Types : \E row :
              Update(t, c, o, n, row) \/ NoteOnly(t, c, o, n)
        BY <1>3 DEF Reserve, Commit, Release, Reverse, Types
      <3> QED BY <1>1, <2>2, <3>1, OthersAreQuiet
    <2> QED BY <2>1, <2>2
  <1> QED BY <1>2, <1>3

\* A rewritten row is quiet when it takes up no hold and no activity.
LEMMA RewriteIsQuiet ==
  ASSUME IInv, NEW c \in Coupons, Exists(c), NEW t \in Types \ Answers, NEW x, NEW n,
         NEW row, Update(t, c, x, n, row), Kept(row, coupons[c]),
         row.status \in {"available", "reserved"} => Active(c),
         row.reserved_order_ref \in {coupons[c].reserved_order_ref, Nil},
         row.used_order_ref = coupons[c].used_order_ref,
         coupons[c].authority_type = "yimatong" =>
           ((row.status = "used") <=> (coupons[c].status = "used")),
         NEW d \in Coupons
  PROVE  Quiet(d)
  <1>1. TypeOK /\ t \in Types
    BY DEF IInv
  <1>2. CASE d # c
    BY <1>1, <1>2, OthersAreQuiet
  <1>3. CASE d = c
    <2>1. coupons'[c] = row
      BY <1>1 DEF Update, TypeOK
    <2>2. Told(c)' = Told(c)
      BY <1>1, CallTells DEF Update
    <2> QED BY <1>3, <2>1, <2>2 DEF Quiet, Active, Exists
  <1> QED BY <1>2, <1>3

\* The calls of stores, operators and platforms.
LEMMA OtherCallMoves ==
  ASSUME IInv, OtherCall, NEW d \in Coupons
  PROVE  Quiet(d) \/ Moving(d)
  <1>1. TypeOK /\ {"revoked", "external_sync_confirmed", "external_sync_error"} \subseteq Types \ Answers
    BY DEF IInv, Types, Answers
  <1>2. ASSUME NEW c \in Coupons, NEW s \in Stores, NEW n \in 1..Attempts, StoreRedeem(c, s, n)
        PROVE  Quiet(d) \/ Moving(d)
    <2>1. CASE d = c
      BY <1>2, <2>1 DEF Moving
    <2>2. CASE d # c
      BY <1>1, <1>2, <2>2, OthersAreQuiet DEF StoreRedeem, Types
    <2> QED BY <2>1, <2>2
  <1>3. ASSUME NEW c \in Coupons, Revoke(c)
        PROVE  Quiet(d)
    <2> DEFINE row == Freed(coupons[c], "revoked")
    <2>1. /\ Exists(c) /\ coupons[c].status = "available" /\ coupons[c] \in Rows
          /\ Update("revoked", c, Nil, 1, row) /\ "revoked" \in Statuses
      BY <1>3, RowsAreGood DEF Revoke, Exists, Statuses
    <2>2. /\ Kept(row, coupons[c]) /\ row.status = "revoked" /\ row.reserved_order_ref = Nil
          /\ row.used_order_ref = coupons[c].used_order_ref
      BY <2>1, FreedFields
    <2> HIDE DEF row
    <2> QED BY <1>1, <2>1, <2>2, RewriteIsQuiet
  <1>4. ASSUME NEW c \in Coupons, ConsumeExternal(c)
        PROVE  Quiet(d)
    <2> DEFINE row == Redeemed(coupons[c], Nil)
               t == "external_sync_confirmed"
    <2>1. CASE NoteOnly(t, c, Nil, 1)
      BY <1>1, <2>1, NoteIsQuiet
    <2>2. CASE Update(t, c, Nil, 1, row)
      <3>1. /\ Exists(c) /\ coupons[c].authority_type = "external" /\ coupons[c] \in Rows
            /\ Nil \in OrNil(Stores)
        BY <1>4, RowsAreGood DEF ConsumeExternal, OrNil
      <3>2. /\ Kept(row, coupons[c]) /\ row.status = "used"
            /\ row.reserved_order_ref = coupons[c].reserved_order_ref
            /\ row.used_order_ref = coupons[c].used_order_ref
        BY <3>1, RedeemedFields
      <3> HIDE DEF row
      <3> QED BY <1>1, <2>2, <3>1, <3>2, RewriteIsQuiet
    <2> QED BY <1>4, <2>1, <2>2 DEF ConsumeExternal
  <1>5. ASSUME NEW c \in Coupons, Exists(c), NEW s \in {"synchronized", "error"},
               NEW t \in Types \ Answers, NEW x, Update(t, c, x, 1, Synced(coupons[c], s))
        PROVE  Quiet(d)
    <2> DEFINE row == Synced(coupons[c], s)
    <2>1. coupons[c] \in Rows
      BY RowsAreGood
    <2>2. /\ Kept(row, coupons[c]) /\ row.status = coupons[c].status
          /\ row.reserved_order_ref = coupons[c].reserved_order_ref
          /\ row.used_order_ref = coupons[c].used_order_ref
      BY <2>1, SyncedFields
    <2>3. Update(t, c, x, 1, row)
      BY <1>5
    <2>4. row.status \in {"available", "reserved"} => Active(c)
      BY <2>2 DEF Active
    <2> HIDE DEF row
    <2> QED BY <1>5, <2>2, <2>3, <2>4, RewriteIsQuiet
  <1>6. ASSUME NEW c \in Coupons, NEW cl \in Claims, ConfirmSync(cl, c) \/ MarkSyncError(cl, c)
        PROVE  Quiet(d)
    BY <1>1, <1>5, <1>6 DEF ConfirmSync, MarkSyncError, ExternalOf
  <1> QED BY <1>2, <1>3, <1>4, <1>6 DEF OtherCall

\* Issuing is quiet for every coupon but a new one.
LEMMA IssuingMoves ==
  ASSUME IInv, Issuing, NEW d \in Coupons
  PROVE  Quiet(d) \/ Moving(d)
  <1>1. PICK cl \in Claims, m \in Members, r \in Rules, c \in Coupons :
          IssueNew(cl, m, r, c) \/ IssueExisting(cl, m, r, c)
    BY DEF Issuing
  <1>2. TypeOK /\ IssueType(cl) \in Types \ Answers
    BY DEF IInv, IssueType, Types, Answers
  <1>3. CASE IssueExisting(cl, m, r, c)
    BY <1>2, <1>3, NoteIsQuiet DEF IssueExisting
  <1>4. CASE IssueNew(cl, m, r, c)
    <2>1. CASE d = c
      BY <1>4, <2>1 DEF Moving
    <2>2. CASE d # c
      <3>1. coupons'[d] = coupons[d]
        BY <1>2, <1>4, <2>2 DEF IssueNew, TypeOK
      <3>2. Told(d)' = Told(d)
        BY <1>2, <1>4, <2>2, CallTells DEF IssueNew
      <3> QED BY <3>1, <3>2, StandingIsQuiet
    <2> QED BY <2>1, <2>2
  <1> QED BY <1>1, <1>3, <1>4

\* A wallet request expires what was active and tells none of these events.
LEMMA ExpiryIsQuiet ==
  ASSUME IInv, NEW w \in Readers, ExpireRead(w), NEW d \in Coupons
  PROVE  Quiet(d)
  <1> DEFINE R == Remaining(w)
             row == Freed(coupons[d], "expired")
  <1>1. /\ coupons'[d] = IF d \in R THEN row ELSE coupons[d]
        /\ events' = events \cup {Entry("expired", c, Nil, 1, Freed(coupons[c], "expired")) : c \in R}
    BY DEF ExpireRead
  <1>2. \A e \in events' : e \in events \/ e.type = "expired"
    BY <1>1 DEF Entry
  <1>3. Told(d)' = Told(d)
    BY <1>1, <1>2 DEF Told, Answers
  <1>4. CASE d \in R
    <2>1. Active(d) /\ coupons[d].status # "used" /\ Exists(d) /\ coupons[d] \in Rows
      BY <1>4, RowsAreGood DEF ExpireRead, PastValidity, Active, Exists
    <2>2. /\ Kept(row, coupons[d]) /\ row.status = "expired" /\ row.reserved_order_ref = Nil
          /\ row.used_order_ref = coupons[d].used_order_ref
      BY <2>1, FreedFields DEF Statuses
    <2>3. coupons'[d] = row
      BY <1>1, <1>4
    <2> HIDE DEF row
    <2> QED BY <1>3, <2>1, <2>2, <2>3 DEF Quiet, Active, Exists
  <1>5. CASE d \notin R
    BY <1>1, <1>3, <1>5, StandingIsQuiet
  <1> QED BY <1>4, <1>5

\* In every step, a coupon is issued, is what an order or a store calls about, or is quiet.
LEMMA QuietOrMoving ==
  ASSUME IInv, [Next]_vars, NEW d \in Coupons
  PROVE  Quiet(d) \/ Moving(d)
  <1>1. TypeOK
    BY DEF IInv
  <1>2. ASSUME UNCHANGED <<coupons, events>> PROVE Quiet(d)
    BY <1>2, StandingIsQuiet DEF Told
  <1>3. CASE RuleOperation
    <2>1. PICK r \in Rules, n \in 1..Attempts :
            CreateRule(r) \/ PublishRule(r) \/ PauseRule(r, n) \/ ResumeRule(r, n) \/ EndRule(r)
      BY <1>3 DEF RuleOperation
    <2>2. ASSUME NEW t, NEW k, NEW source, NEW target, RuleStep(t, r, k, source, target)
          PROVE  Quiet(d)
      <3>1. coupons' = coupons /\ \A e \in events' : e \in events \/ e.coupon = Nil
        BY <2>2 DEF RuleStep
      <3>2. events \subseteq events' /\ d # Nil
        BY <2>2, Ids DEF RuleStep
      <3>3. Told(d)' = Told(d)
        BY <3>1, <3>2 DEF Told
      <3> QED BY <3>1, <3>3, StandingIsQuiet
    <2> QED BY <2>1, <2>2 DEF CreateRule, PublishRule, PauseRule, ResumeRule, EndRule
  <1>4. CASE Issuing
    BY <1>4, IssuingMoves
  <1>5. CASE OrderCall
    BY <1>5, OrderCallMoves DEF OrderCall
  <1>6. CASE OtherCall
    BY <1>6, OtherCallMoves
  <1>7. CASE Wallet
    BY <1>2, <1>7, ExpiryIsQuiet DEF Wallet, OpenWallet, ListingFails
  <1>8. CASE Merging
    BY <1>1, <1>2, <1>8, MergeMovesNothing DEF Merging, Merge
  <1>9. CASE Tick \/ UNCHANGED vars
    BY <1>2, <1>9 DEF Tick, vars
  <1> QED BY <1>3, <1>4, <1>5, <1>6, <1>7, <1>8, <1>9 DEF Next

-----------------------------------------------------------------------------
(* Two active coupons, locks and their answers, the one live use.          *)

\* A call that rewrites a coupon keeps whose it is and of which rule.
LEMMA MovedRow ==
  ASSUME IInv, NEW c \in Coupons, NEW t, NEW x, NEW n, NEW row, Update(t, c, x, n, row)
  PROVE  /\ coupons'[c].membership_id = coupons[c].membership_id
         /\ coupons'[c].rule_version_id = coupons[c].rule_version_id
         /\ coupons'[c].authority_type = coupons[c].authority_type
  BY DEF IInv, TypeOK, Update, GuardAllows

\* A coupon becomes active when it is issued and when a refund restores it.
LEMMA ActiveAgain ==
  ASSUME IInv, [Next]_vars, NEW c \in Coupons, Active(c)'
  PROVE  \/ \E cl \in Claims, m \in Members, r \in Rules : IssueNew(cl, m, r, c)
         \/ \E e \in events' : e.type = "reversed" /\ e.coupon = c
         \/ /\ Active(c)
            /\ coupons'[c].membership_id = coupons[c].membership_id
            /\ coupons'[c].rule_version_id = coupons[c].rule_version_id
  <1>1. CASE Quiet(c)
    BY <1>1 DEF Quiet, Kept
  <1>2. ASSUME NEW o \in Orders, NEW n \in 1..Attempts, Reserve(c, o, n)
        PROVE  /\ Active(c)
               /\ coupons'[c].membership_id = coupons[c].membership_id
               /\ coupons'[c].rule_version_id = coupons[c].rule_version_id
    <2>1. Active(c)
      BY <1>2 DEF Reserve, Active
    <2>2. CASE NoteOnly("reserved", c, o, n)
      BY <2>1, <2>2 DEF NoteOnly
    <2>3. CASE Update("reserved", c, o, n, Reserved(coupons[c], o))
      BY <2>1, <2>3, MovedRow
    <2> QED BY <1>2, <2>2, <2>3 DEF Reserve
  <1>3. ASSUME NEW o \in Orders, NEW n \in 1..Attempts, Commit(c, o, n) \/ Release(c, o, n)
        PROVE  /\ Active(c)
               /\ coupons'[c].membership_id = coupons[c].membership_id
               /\ coupons'[c].rule_version_id = coupons[c].rule_version_id
    <2>1. Active(c)
      BY <1>3 DEF Commit, Release, HeldBy, Active
    <2> QED BY <1>3, <2>1, MovedRow DEF Commit, Release
  <1>4. ASSUME NEW o \in Orders, NEW n \in 1..Attempts, Reverse(c, o, n)
        PROVE  \E e \in events' : e.type = "reversed" /\ e.coupon = c
    <2>1. Entry("reversed", c, o, n, Reversed(coupons[c])) \in events'
      BY <1>4 DEF Reverse, Update
    <2> QED BY <2>1 DEF Entry
  <1>5. ASSUME NEW s \in Stores, NEW n \in 1..Attempts, StoreRedeem(c, s, n)
        PROVE  /\ Active(c)
               /\ coupons'[c].membership_id = coupons[c].membership_id
               /\ coupons'[c].rule_version_id = coupons[c].rule_version_id
    <2>1. Active(c)
      BY <1>5 DEF StoreRedeem, Active
    <2> QED BY <1>5, <2>1, MovedRow DEF StoreRedeem
  <1> QED BY <1>1, <1>2, <1>3, <1>4, <1>5, QuietOrMoving DEF Moving

\* The log only grows.
LEMMA LogGrows ==
  ASSUME [Next]_vars
  PROVE  events \subseteq events'
  <1>1. RuleOperation => events \subseteq events'
    BY DEF RuleOperation, CreateRule, PublishRule, PauseRule, ResumeRule, EndRule, RuleStep
  <1>2. Issuing => events \subseteq events'
    BY DEF Issuing, IssueNew, IssueExisting, NoteOnly
  <1>3. OrderCall => events \subseteq events'
    BY DEF OrderCall, Reserve, Commit, Release, Reverse, RecordPartialRefund, Update, NoteOnly
  <1>4. OtherCall => events \subseteq events'
    BY DEF OtherCall, StoreRedeem, Revoke, ConsumeExternal, ConfirmSync, MarkSyncError,
           Update, NoteOnly
  <1>5. Wallet \/ Merging \/ Tick \/ UNCHANGED vars => events \subseteq events'
    BY DEF Wallet, OpenWallet, ExpireRead, ListingFails, Merging, Merge, Tick, vars
  <1> QED BY <1>1, <1>2, <1>3, <1>4, <1>5 DEF Next

\* Two coupons stay within what OneActiveUnlessRestored allows.
LEMMA OneActiveNext ==
  ASSUME IInv, OneActiveUnlessRestored, [Next]_vars
  PROVE  OneActiveUnlessRestored'
  <1> SUFFICES ASSUME NEW c \in Coupons, NEW d \in Coupons, c # d, Active(c)', Active(d)',
                      coupons'[c].membership_id = coupons'[d].membership_id,
                      coupons'[c].rule_version_id = coupons'[d].rule_version_id,
                      ~\E e \in events' : e.type = "reversed" /\ e.coupon \in {c, d}
               PROVE  FALSE
    BY DEF OneActiveUnlessRestored
  <1>1. ASSUME NEW x \in {c, d}, NEW y \in {c, d}, x # y,
               NEW cl \in Claims, NEW m \in Members, NEW r \in Rules, IssueNew(cl, m, r, x)
        PROVE  FALSE
    <2>1. /\ coupons' = [coupons EXCEPT ![x] = NewRow(cl, m, r)] /\ ActiveOf(m, r) = {}
          /\ coupons \in [Coupons -> Rows]
      BY <1>1 DEF IssueNew, IInv, TypeOK
    <2>2. coupons'[x] = NewRow(cl, m, r) /\ coupons'[y] = coupons[y]
      BY <1>1, <2>1
    <2>3. NewRow(cl, m, r).membership_id = m /\ NewRow(cl, m, r).rule_version_id = r
      BY DEF NewRow, NoRow
    <2>4. y \in ActiveOf(m, r)
      BY <2>2, <2>3 DEF ActiveOf, Active
    <2> QED BY <2>1, <2>4
  <1>2. /\ Active(c) /\ coupons'[c].membership_id = coupons[c].membership_id
        /\ coupons'[c].rule_version_id = coupons[c].rule_version_id
    BY <1>1, ActiveAgain
  <1>3. /\ Active(d) /\ coupons'[d].membership_id = coupons[d].membership_id
        /\ coupons'[d].rule_version_id = coupons[d].rule_version_id
    BY <1>1, ActiveAgain
  <1>4. \E e \in events : e.type = "reversed" /\ e.coupon \in {c, d}
    BY <1>2, <1>3 DEF OneActiveUnlessRestored
  <1> QED BY <1>4, LogGrows

\* The keys an order has used on a coupon for one kind of call are among its attempts.
LEMMA TriesAreFew ==
  ASSUME TypeOK, NEW t, NEW c, NEW o
  PROVE  IsFiniteSet(Tries(t, c, o)) /\ Cardinality(Tries(t, c, o)) \in Nat
  <1>1. Tries(t, c, o) \subseteq 0..Attempts
    BY DEF Tries, TypeOK, Events
  <1>2. IsFiniteSet(0..Attempts)
    BY IdsAssumption, FS_Interval
  <1> QED BY <1>1, <1>2, FS_Subset, FS_CardinalityType

\* They are what the story of the coupon tells of them.
LEMMA TriesStand ==
  ASSUME NEW c, Told(c)' = Told(c), NEW t \in Answers, NEW o
  PROVE  Tries(t, c, o)' = Tries(t, c, o)
  <1>1. {f \in events' : f.type = t /\ f.coupon = c /\ f.ref = o}
         = {f \in events : f.type = t /\ f.coupon = c /\ f.ref = o}
    BY DEF Told
  <1> QED BY <1>1 DEF Tries

\* A call adds its key to those of its own kind and order.
LEMMA TriesGrow ==
  ASSUME NEW c, NEW t \in Answers, NEW x, NEW n, NEW row,
         Told(c)' = Told(c) \cup {Entry(t, c, x, n, row)},
         NEW u \in Answers, NEW o
  PROVE  Tries(u, c, o)' = IF u = t /\ o = x THEN Tries(u, c, o) \cup {n} ELSE Tries(u, c, o)
  <1> DEFINE entry == Entry(t, c, x, n, row)
             S == {f \in events : f.type = u /\ f.coupon = c /\ f.ref = o}
             Snew == {f \in events' : f.type = u /\ f.coupon = c /\ f.ref = o}
  <1>1. entry.type = t /\ entry.coupon = c /\ entry.ref = x /\ entry.try = n
    BY DEF Entry
  <1> HIDE DEF entry
  <1>2. Told(c)' = Told(c) \cup {entry}
    BY DEF entry
  <1>3. Snew = IF u = t /\ o = x THEN S \cup {entry} ELSE S
    <2>1. ASSUME NEW f PROVE f \in Snew <=> f \in S \/ (f = entry /\ u = t /\ o = x)
      <3>1. f \in Snew <=> f \in Told(c)' /\ f.type = u /\ f.ref = o
        BY DEF Told
      <3>2. f \in S <=> f \in Told(c) /\ f.type = u /\ f.ref = o
        BY DEF Told
      <3> QED BY <1>1, <1>2, <3>1, <3>2
    <2> QED BY <2>1
  <1>4. Tries(u, c, o) = {e.try : e \in S} /\ Tries(u, c, o)' = {e.try : e \in Snew}
    BY DEF Tries
  <1> HIDE DEF S, Snew
  <1> QED BY <1>1, <1>3, <1>4

\* Whether an order holds a coupon, as a number.
Holding(c, o) == Cardinality({x \in {o} : coupons[c].reserved_order_ref = x})

\* It is one or none, before the step and after it.
LEMMA HoldingIs ==
  ASSUME NEW c, NEW o
  PROVE  /\ Holding(c, o) = IF coupons[c].reserved_order_ref = o THEN 1 ELSE 0
         /\ Holding(c, o)' = IF coupons'[c].reserved_order_ref = o THEN 1 ELSE 0
  <1>1. Cardinality({o}) = 1 /\ Cardinality({}) = 0
    BY FS_Singleton, FS_EmptySet
  <1>2. ASSUME NEW v PROVE {x \in {o} : v = x} = IF v = o THEN {o} ELSE {}
    OBVIOUS
  <1>3. /\ {x \in {o} : coupons[c].reserved_order_ref = x}
             = IF coupons[c].reserved_order_ref = o THEN {o} ELSE {}
        /\ {x \in {o} : coupons'[c].reserved_order_ref = x}
             = IF coupons'[c].reserved_order_ref = o THEN {o} ELSE {}
    BY <1>2
  <1> QED BY <1>1, <1>3, Zenon DEF Holding

\* What a step does to the lock of one order on one coupon, when the answers an order
\* has had have not passed its lock calls.
LEMMA LockNext ==
  ASSUME IInv, [Next]_vars, NEW c \in Coupons, NEW o \in Orders,
         Cardinality(Tries("reserved", c, o)) >=
           Cardinality(Tries("released", c, o)) + Cardinality(Tries("committed", c, o))
           + Holding(c, o)
  PROVE  Cardinality(Tries("reserved", c, o)') >=
           Cardinality(Tries("released", c, o)') + Cardinality(Tries("committed", c, o)')
           + Holding(c, o)'
  <1> DEFINE T(t) == Tries(t, c, o)
             row == coupons[c]
             Kinds == {"reserved", "released", "committed"}
  <1>1. TypeOK /\ row \in Rows /\ (Exists(c) => GoodRow(row)) /\ o # Nil
    BY RowsAreGood, Ids DEF IInv
  <1>2. \A t \in Kinds : IsFiniteSet(T(t)) /\ Cardinality(T(t)) \in Nat
    BY <1>1, TriesAreFew
  <1>3. /\ Holding(c, o) = IF row.reserved_order_ref = o THEN 1 ELSE 0
        /\ Holding(c, o)' = IF coupons'[c].reserved_order_ref = o THEN 1 ELSE 0
    BY HoldingIs
  <1>4. \A t \in Kinds : \A n : /\ n \notin T(t) => Cardinality(T(t) \cup {n}) = Cardinality(T(t)) + 1
                             /\ Cardinality(T(t) \cup {n}) \in Nat
                             /\ Cardinality(T(t) \cup {n}) <= Cardinality(T(t)) + 1
    <2> SUFFICES ASSUME NEW t \in Kinds, NEW n
                 PROVE  /\ n \notin T(t) => Cardinality(T(t) \cup {n}) = Cardinality(T(t)) + 1
                        /\ Cardinality(T(t) \cup {n}) \in Nat
                        /\ Cardinality(T(t) \cup {n}) <= Cardinality(T(t)) + 1
      OBVIOUS
    <2>1. IsFiniteSet(T(t)) /\ Cardinality(T(t)) \in Nat
      BY <1>2
    <2>2. CASE n \in T(t)
      <3>1. Cardinality(T(t) \cup {n}) = Cardinality(T(t))
        <4>1. T(t) \cup {n} = T(t)
          BY <2>2
        <4> QED BY <4>1, Zenon
      <3> HIDE DEF T
      <3> QED BY <2>1, <2>2, <3>1
    <2>3. CASE n \notin T(t)
      <3>1. Cardinality(T(t) \cup {n}) = Cardinality(T(t)) + 1
        BY <2>1, <2>3, FS_AddElement
      <3> HIDE DEF T
      <3> QED BY <2>1, <2>3, <3>1
    <2> QED BY <2>2, <2>3
  <1>5. Kinds \subseteq Answers
    BY DEF Answers
  \* No lock, no answer, and no hold the order did not have.
  <1>6. ASSUME \A t \in Kinds : T(t)' = T(t),
               coupons'[c].reserved_order_ref = o => row.reserved_order_ref = o
        PROVE  Cardinality(T("reserved")') >=
                 Cardinality(T("released")') + Cardinality(T("committed")') + Holding(c, o)'
    <2>1. /\ T("reserved")' = T("reserved") /\ T("released")' = T("released")
          /\ T("committed")' = T("committed")
      BY <1>6
    <2>2. Holding(c, o)' <= Holding(c, o) /\ Holding(c, o) \in {0, 1} /\ Holding(c, o)' \in {0, 1}
      BY <1>3, <1>6
    <2>3. Cardinality(T("reserved")) >=
            Cardinality(T("released")) + Cardinality(T("committed")) + Holding(c, o)
      OBVIOUS
    <2>4. \A t \in Kinds : Cardinality(T(t)) \in Nat
      BY <1>2
    <2> HIDE DEF T
    <2> QED BY <2>1, <2>2, <2>3, <2>4
  <1>7. CASE Quiet(c)
    <2>1. \A t \in Kinds : T(t)' = T(t)
      BY <1>5, <1>7, TriesStand DEF Quiet
    <2> QED BY <1>1, <1>6, <1>7, <2>1 DEF Quiet
  <1>8. ASSUME NEW cl \in Claims, NEW m \in Members, NEW r \in Rules, IssueNew(cl, m, r, c)
        PROVE  Cardinality(T("reserved")') >=
                 Cardinality(T("released")') + Cardinality(T("committed")') + Holding(c, o)'
    <2>1. Told(c)' = Told(c)
      BY <1>1, <1>8, CallTells DEF IssueNew, IssueType, Types, Answers
    <2>2. coupons'[c] = NewRow(cl, m, r)
      BY <1>1, <1>8 DEF IssueNew, TypeOK
    <2>3. coupons'[c].reserved_order_ref = Nil
      BY <2>2 DEF NewRow, NoRow
    <2> QED BY <1>1, <1>5, <1>6, <2>1, <2>3, TriesStand
  <1>9. ASSUME NEW x, NEW n, NEW t \in Answers, NEW new,
               Told(c)' = Told(c) \cup {Entry(t, c, x, n, new)}, t \notin Kinds \/ x # o,
               coupons'[c].reserved_order_ref = o => row.reserved_order_ref = o
        PROVE  Cardinality(T("reserved")') >=
                 Cardinality(T("released")') + Cardinality(T("committed")') + Holding(c, o)'
    <2>1. \A u \in Kinds : T(u)' = T(u)
      BY <1>5, <1>9, TriesGrow
    <2> QED BY <1>6, <1>9, <2>1
  <1>10. ASSUME NEW p \in Orders, NEW n \in 1..Attempts, Reserve(c, p, n)
         PROVE  Cardinality(T("reserved")') >=
                  Cardinality(T("released")') + Cardinality(T("committed")') + Holding(c, o)'
    <2>1. /\ \E new : Told(c)' = Told(c) \cup {Entry("reserved", c, p, n, new)}
          /\ \/ coupons'[c].reserved_order_ref = row.reserved_order_ref
             \/ coupons'[c].reserved_order_ref = p /\ row.reserved_order_ref = Nil
      <3>1. CASE NoteOnly("reserved", c, p, n)
        BY <1>1, <3>1, CallTells DEF NoteOnly, Types, Answers
      <3>2. CASE row.status = "available" /\ Update("reserved", c, p, n, Reserved(row, p))
        <4>1. coupons'[c] = Reserved(row, p) /\ Reserved(row, p).reserved_order_ref = p
          BY <1>1, <3>2, ReservedFields DEF Update, TypeOK
        <4>2. row.reserved_order_ref = Nil
          BY <1>1, <1>10, <3>2 DEF Reserve, GoodRow, CheckedRow
        <4>3. Told(c)' = Told(c) \cup {Entry("reserved", c, p, n, Reserved(row, p))}
          BY <1>1, <3>2, CallTells DEF Update, Types, Answers
        <4> QED BY <4>1, <4>2, <4>3
      <3> QED BY <1>10, <3>1, <3>2 DEF Reserve
    <2>2. CASE p # o
      BY <1>9, <2>1, <2>2 DEF Answers
    <2>3. CASE p = o
      <3>1. n \notin T("reserved")
        BY <1>10, <2>3 DEF Reserve, Seen, Tries
      <3>2. /\ T("reserved")' = T("reserved") \cup {n}
            /\ T("released")' = T("released") /\ T("committed")' = T("committed")
        BY <2>1, <2>3, TriesGrow DEF Answers
      <3>3. Cardinality(T("reserved") \cup {n}) = Cardinality(T("reserved")) + 1
        BY <1>4, <3>1
      <3>4. Holding(c, o)' <= Holding(c, o) + 1 /\ Holding(c, o) \in {0, 1}
            /\ Holding(c, o)' \in {0, 1}
        BY <1>3
      <3>5. Cardinality(T("reserved")) >=
              Cardinality(T("released")) + Cardinality(T("committed")) + Holding(c, o)
        OBVIOUS
      <3>6. \A t \in Kinds : Cardinality(T(t)) \in Nat
        BY <1>2
      <3> HIDE DEF T
      <3> QED BY <3>2, <3>3, <3>4, <3>5, <3>6, SMTT(20)
    <2> QED BY <2>2, <2>3
  <1>11. ASSUME NEW p \in Orders, NEW n \in 1..Attempts, Commit(c, p, n) \/ Release(c, p, n)
         PROVE  Cardinality(T("reserved")') >=
                  Cardinality(T("released")') + Cardinality(T("committed")') + Holding(c, o)'
    <2> DEFINE kind == IF Commit(c, p, n) THEN "committed" ELSE "released"
               new == IF Commit(c, p, n) THEN Committed(row, p) ELSE Freed(row, Restored(row))
    <2>1. Update(kind, c, p, n, new) /\ kind \in {"released", "committed"}
      BY <1>11 DEF Commit, Release
    <2>2. row.reserved_order_ref = p
      <3>1. HeldBy(c, p) /\ GoodRow(row) /\ p # Nil
        BY <1>1, <1>11, Ids DEF Commit, Release, HeldBy, Exists
      <3> QED BY <3>1 DEF HeldBy, Differs, GoodRow, CheckedRow
    <2>3. new.reserved_order_ref = Nil
      <3>1. Restored(row) \in Statuses
        BY DEF Restored, Statuses
      <3>2. /\ Committed(row, p).reserved_order_ref = Nil
            /\ Freed(row, Restored(row)).reserved_order_ref = Nil
        BY <1>1, <3>1, CommittedFields, FreedFields
      <3> QED BY <3>2
    <2> HIDE DEF kind, new
    <2>4. coupons'[c].reserved_order_ref = Nil /\ Told(c)' = Told(c) \cup {Entry(kind, c, p, n, new)}
      <3>1. kind \in Types /\ kind \in Answers
        BY <2>1 DEF Types, Answers
      <3> QED BY <1>1, <2>1, <2>3, <3>1, CallTells DEF Update, TypeOK
    <2>5. CASE p # o
      BY <1>1, <1>9, <2>1, <2>4, <2>5 DEF Answers
    <2>6. CASE p = o
      <3>1. \A t \in Kinds : T(t)' = IF t = kind THEN T(t) \cup {n} ELSE T(t)
        BY <1>5, <2>1, <2>4, <2>6, TriesGrow DEF Answers
      <3>2. Holding(c, o) = 1 /\ Holding(c, o)' = 0
        BY <1>1, <1>3, <2>2, <2>4, <2>6
      <3>3. PICK R \in Nat, A \in Nat, B \in Nat :
              /\ R = Cardinality(T("reserved"))
              /\ A = Cardinality(T("released")) /\ B = Cardinality(T("committed"))
        BY <1>2
      <3>4. PICK An \in Nat, Bn \in Nat :
              /\ An = Cardinality(T("released")') /\ Bn = Cardinality(T("committed")')
              /\ An <= A + 1 /\ Bn <= B + 1 /\ (An = A \/ Bn = B)
        BY <1>2, <1>4, <2>1, <3>1, <3>3
      <3>5. R = Cardinality(T("reserved")')
        BY <2>1, <3>1, <3>3
      <3>6. R >= A + B + 1
        BY <3>2, <3>3
      <3>7. R >= An + Bn
        BY <3>4, <3>6
      <3> QED BY <3>2, <3>4, <3>5, <3>7
    <2> QED BY <2>5, <2>6
  <1>12. ASSUME NEW p \in Orders, NEW n \in 1..Attempts, Reverse(c, p, n)
         PROVE  Cardinality(T("reserved")') >=
                  Cardinality(T("released")') + Cardinality(T("committed")') + Holding(c, o)'
    <2>1. Update("reversed", c, p, n, Reversed(row)) /\ "reversed" \in Types \cap (Answers \ Kinds)
      BY <1>12 DEF Reverse, Types, Answers
    <2>2. Told(c)' = Told(c) \cup {Entry("reversed", c, p, n, Reversed(row))}
      BY <1>1, <2>1, CallTells DEF Update
    <2>3. coupons'[c].reserved_order_ref = row.reserved_order_ref
      BY <1>1, <2>1, ReversedFields DEF Update, TypeOK
    <2> QED BY <1>9, <2>1, <2>2, <2>3
  <1>13. ASSUME NEW s \in Stores, NEW n \in 1..Attempts, StoreRedeem(c, s, n)
         PROVE  Cardinality(T("reserved")') >=
                  Cardinality(T("released")') + Cardinality(T("committed")') + Holding(c, o)'
    <2>1. /\ Update("store_redeemed", c, s, n, Redeemed(row, s))
          /\ "store_redeemed" \in Types \cap (Answers \ Kinds) /\ s \in OrNil(Stores)
      BY <1>13 DEF StoreRedeem, Types, Answers, OrNil
    <2>2. Told(c)' = Told(c) \cup {Entry("store_redeemed", c, s, n, Redeemed(row, s))}
      BY <1>1, <2>1, CallTells DEF Update
    <2>3. coupons'[c].reserved_order_ref = row.reserved_order_ref
      BY <1>1, <2>1, RedeemedFields DEF Update, TypeOK
    <2> QED BY <1>9, <2>1, <2>2, <2>3
  <1> QED BY <1>7, <1>8, <1>10, <1>11, <1>12, <1>13, QuietOrMoving DEF Moving

\* LocksAreAnswered, for every coupon and order.
LEMMA LocksNext ==
  ASSUME IInv, LocksAreAnswered, [Next]_vars
  PROVE  LocksAreAnswered'
  BY LockNext DEF LocksAreAnswered, Holding

\* Uses and refunds are part of the story of a coupon.
Uses == {"committed", "store_redeemed"}
Undone(e, S) == \E f \in S : f.type = "reversed" /\ f.ref = e.ref /\ f.at > e.at

\* The live uses are found among what is told of the coupon.
LEMMA LiveUsesAreTold ==
  ASSUME NEW c
  PROVE  /\ LiveUses(c) = {e \in Told(c) : e.type \in Uses /\ ~Undone(e, Told(c))}
         /\ LiveUses(c)' = {e \in Told(c)' : e.type \in Uses /\ ~Undone(e, Told(c)')}
  BY DEF LiveUses, Told, Answers, Uses, Undone

\* A lock or the release of one changes no use; neither does silence.
LEMMA UsesStand ==
  ASSUME NEW c,
         \/ Told(c)' = Told(c)
         \/ \E t \in {"reserved", "released"} : \E x, n, row :
              Told(c)' = Told(c) \cup {Entry(t, c, x, n, row)}
  PROVE  LiveUses(c)' = LiveUses(c)
  <1>1. CASE Told(c)' = Told(c)
    BY <1>1, LiveUsesAreTold
  <1>2. ASSUME NEW t \in {"reserved", "released"}, NEW x, NEW n, NEW row,
               Told(c)' = Told(c) \cup {Entry(t, c, x, n, row)}
        PROVE  LiveUses(c)' = LiveUses(c)
    <2>1. Entry(t, c, x, n, row).type \notin Uses \cup {"reversed"}
      BY DEF Entry, Uses
    <2>2. \A e : Undone(e, Told(c)') <=> Undone(e, Told(c))
      BY <1>2, <2>1 DEF Undone
    <2> QED BY <1>2, <2>1, <2>2, LiveUsesAreTold
  <1> QED BY <1>1, <1>2

\* The events of a coupon are not of versions to come.
LEMMA ToldIsPast ==
  ASSUME IInv, NEW c \in Coupons, NEW e \in Told(c)
  PROVE  e.at \in Nat /\ e.at <= coupons[c].version
  <1>1. e.at \in 1..coupons[c].version /\ coupons[c].version \in Nat
    BY DEF IInv, LogExplainsRow, Told, TypeOK, Rows
  <1> QED BY <1>1

\* One step of the use of a coupon only orders can use.
LEMMA UseNext ==
  ASSUME IInv, [Next]_vars, NEW c \in Coupons, OrderOnly(c) => UseIsRecorded(c), OrderOnly(c)'
  PROVE  UseIsRecorded(c)'
  <1> DEFINE row == coupons[c]
  <1>1. /\ TypeOK /\ row \in Rows /\ (Exists(c) => GoodRow(row))
        /\ ~Exists(c) => row = NoRow
    BY RowsAreGood DEF IInv
  <1>2. CASE Quiet(c)
    <2>1. OrderOnly(c) /\ row.authority_type = "yimatong"
      BY <1>2 DEF Quiet, Kept, OrderOnly
    <2>2. LiveUses(c)' = LiveUses(c)
      BY <1>2, UsesStand DEF Quiet
    <2> QED BY <1>2, <2>1, <2>2 DEF Quiet, UseIsRecorded
  <1>3. ASSUME NEW cl \in Claims, NEW m \in Members, NEW r \in Rules, IssueNew(cl, m, r, c)
        PROVE  UseIsRecorded(c)'
    <2>1. row.version = 0
      BY <1>1, <1>3 DEF IssueNew, NoRow
    <2>2. Told(c) = {}
      BY <2>1, ToldIsPast DEF IInv, LogExplainsRow, Told
    <2>3. Told(c)' = Told(c)
      BY <1>1, <1>3, CallTells DEF IssueNew, IssueType, Types, Answers
    <2>4. coupons'[c] = NewRow(cl, m, r)
      BY <1>1, <1>3 DEF IssueNew, TypeOK
    <2>5. coupons'[c].status = "available"
      BY <2>4 DEF NewRow, NoRow
    <2>6. LiveUses(c)' = {}
      BY <2>2, <2>3, LiveUsesAreTold
    <2> QED BY <2>5, <2>6 DEF UseIsRecorded
  <1>4. ASSUME NEW t, NEW x, NEW n, NEW new, Exists(c), Update(t, c, x, n, new)
        PROVE  /\ coupons'[c] = new /\ OrderOnly(c) /\ UseIsRecorded(c)
               /\ new.version = row.version + 1
    <2>1. coupons'[c] = new /\ new.version = row.version + 1
      BY <1>1, <1>4 DEF Update, GuardAllows, TypeOK
    <2>2. OrderOnly(c)
      BY <1>4, MovedRow DEF OrderOnly
    <2> QED BY <2>1, <2>2
  <1>5. ASSUME NEW p \in Orders, NEW n \in 1..Attempts, Reserve(c, p, n)
        PROVE  UseIsRecorded(c)'
    <2>1. CASE NoteOnly("reserved", c, p, n)
      <3>1. coupons'[c] = row /\ Told(c)' = Told(c) \cup {Entry("reserved", c, p, n, row)}
        BY <1>1, <2>1, CallTells DEF NoteOnly, Types, Answers
      <3>2. OrderOnly(c)
        BY <3>1 DEF OrderOnly, Exists
      <3>3. LiveUses(c)' = LiveUses(c)
        BY <3>1, UsesStand
      <3> QED BY <3>1, <3>2, <3>3 DEF UseIsRecorded
    <2>2. CASE row.status = "available" /\ Update("reserved", c, p, n, Reserved(row, p))
      <3>1. Told(c)' = Told(c) \cup {Entry("reserved", c, p, n, Reserved(row, p))}
        BY <1>1, <2>2, CallTells DEF Update, Types, Answers
      <3>2. /\ coupons'[c] = Reserved(row, p) /\ UseIsRecorded(c)
            /\ Reserved(row, p).status = "reserved"
        BY <1>1, <1>4, <1>5, <2>2, ReservedFields DEF Reserve
      <3>3. LiveUses(c)' = LiveUses(c)
        BY <3>1, UsesStand
      <3> QED BY <2>2, <3>2, <3>3 DEF UseIsRecorded
    <2> QED BY <1>5, <2>1, <2>2 DEF Reserve
  <1>6. ASSUME NEW p \in Orders, NEW n \in 1..Attempts, Release(c, p, n)
        PROVE  UseIsRecorded(c)'
    <2> DEFINE new == Freed(row, Restored(row))
    <2>1. Update("released", c, p, n, new) /\ Exists(c) /\ row.status = "reserved"
      BY <1>6 DEF Release, HeldBy, Exists
    <2>2. Told(c)' = Told(c) \cup {Entry("released", c, p, n, new)}
      BY <1>1, <2>1, CallTells DEF Update, Types, Answers
    <2>3. coupons'[c] = new /\ UseIsRecorded(c)
      BY <1>4, <2>1
    <2>4. new.status = Restored(row) /\ Restored(row) \in {"available", "expired"}
      <3>1. Restored(row) \in {"available", "expired"}
        BY DEF Restored
      <3> QED BY <1>1, <3>1, FreedFields DEF Statuses
    <2>5. LiveUses(c)' = LiveUses(c)
      BY <2>2, UsesStand
    <2> QED BY <2>1, <2>3, <2>4, <2>5 DEF UseIsRecorded
  <1>7. ASSUME NEW p \in Orders, NEW n \in 1..Attempts, Commit(c, p, n)
        PROVE  UseIsRecorded(c)'
    <2> DEFINE new == Committed(row, p)
               entry == Entry("committed", c, p, n, new)
    <2>1. Update("committed", c, p, n, new) /\ Exists(c) /\ row.status = "reserved"
      BY <1>7 DEF Commit, HeldBy, Exists
    <2>2. Told(c)' = Told(c) \cup {entry}
      BY <1>1, <2>1, CallTells DEF Update, Types, Answers
    <2>3. /\ coupons'[c] = new /\ UseIsRecorded(c) /\ new.version = row.version + 1
          /\ new.status = "used" /\ new.used_order_ref = p /\ p # Nil
      BY <1>1, <1>4, <2>1, CommittedFields, Ids
    <2>4. entry.type = "committed" /\ entry.ref = p /\ entry.at = row.version + 1
      BY <2>3 DEF Entry
    <2> HIDE DEF entry, new
    <2>5. LiveUses(c) = {}
      BY <2>1, <2>3 DEF UseIsRecorded
    <2>6. ASSUME NEW f \in Told(c)', f.type = "reversed" PROVE f \in Told(c) /\ ~(f.at > entry.at)
      <3>1. f \in Told(c)
        BY <2>2, <2>4, <2>6
      <3>2. f.at \in Nat /\ f.at <= row.version /\ row.version \in Nat
        BY <1>1, <3>1, ToldIsPast DEF Rows
      <3> QED BY <2>4, <3>1, <3>2
    <2>7. LiveUses(c)' = {entry}
      <3>1. \A e : Undone(e, Told(c)') <=> Undone(e, Told(c))
        BY <2>2, <2>6 DEF Undone
      <3>2. ~Undone(entry, Told(c)')
        BY <2>6 DEF Undone
      <3>3. entry.type \in Uses
        BY <2>4 DEF Uses
      <3> QED BY <2>2, <2>5, <3>1, <3>2, <3>3, LiveUsesAreTold
    <2> QED BY <2>3, <2>4, <2>7 DEF UseIsRecorded
  <1>8. ASSUME NEW p \in Orders, NEW n \in 1..Attempts, Reverse(c, p, n)
        PROVE  UseIsRecorded(c)'
    <2> DEFINE new == Reversed(row)
               entry == Entry("reversed", c, p, n, new)
    <2>1. Update("reversed", c, p, n, new) /\ Exists(c) /\ row.status = "used"
      BY <1>8 DEF Reverse, SpentBy, Exists
    <2>2. Told(c)' = Told(c) \cup {entry}
      BY <1>1, <2>1, CallTells DEF Update, Types, Answers
    <2>3. /\ coupons'[c] = new /\ UseIsRecorded(c) /\ new.version = row.version + 1
          /\ new.status \in {"available", "expired"}
      BY <1>1, <1>4, <2>1, ReversedFields
    <2>4. entry.type = "reversed" /\ entry.ref = p /\ entry.at = row.version + 1
      BY <2>3 DEF Entry
    <2> HIDE DEF entry, new
    <2>5. PICK e \in LiveUses(c) :
            LiveUses(c) = {e} /\ e.ref = row.used_order_ref /\ e.ref # Nil
      BY <2>1, <2>3 DEF UseIsRecorded
    <2>6. e.ref = p
      BY <1>8, <2>5, Ids DEF Reverse, SpentBy, Differs
    <2>7. Undone(e, Told(c)')
      <3>1. e.at \in Nat /\ e.at <= row.version /\ row.version \in Nat
        <4>1. e \in Told(c)
          BY LiveUsesAreTold
        <4> QED BY <1>1, <4>1, ToldIsPast DEF Rows
      <3> QED BY <2>2, <2>4, <2>6, <3>1 DEF Undone
    <2>8. ASSUME NEW g \in LiveUses(c)' PROVE FALSE
      <3>1. g \in Told(c)' /\ g.type \in Uses /\ ~Undone(g, Told(c)')
        BY LiveUsesAreTold
      <3>2. g \in Told(c)
        BY <2>2, <2>4, <3>1 DEF Uses
      <3>3. ~Undone(g, Told(c))
        BY <2>2, <3>1 DEF Undone
      <3>4. g \in LiveUses(c)
        BY <3>1, <3>2, <3>3, LiveUsesAreTold
      <3> QED BY <2>5, <2>7, <3>1, <3>4
    <2>9. LiveUses(c)' = {}
      BY <2>8
    <2> QED BY <2>3, <2>9 DEF UseIsRecorded
  <1>9. ASSUME NEW s \in Stores, NEW n \in 1..Attempts, StoreRedeem(c, s, n)
        PROVE  UseIsRecorded(c)'
    <2>1. OrderOnly(c) /\ InStore(c)
      BY <1>4, <1>9 DEF StoreRedeem
    <2> QED BY <2>1 DEF OrderOnly, InStore
  <1> QED BY <1>2, <1>3, <1>5, <1>6, <1>7, <1>8, <1>9, QuietOrMoving DEF Moving

\* OneLiveUse, for every coupon only orders can use.
LEMMA UsesNext ==
  ASSUME IInv, OneLiveUse, [Next]_vars
  PROVE  OneLiveUse'
  <1> SUFFICES ASSUME NEW c \in Coupons, OrderOnly(c)' PROVE UseIsRecorded(c)'
    BY DEF OneLiveUse
  <1>1. OrderOnly(c) => UseIsRecorded(c)
    BY DEF OneLiveUse
  <1> QED BY <1>1, UseNext

\* What the log remembers holds at the start: nothing is active, locked or used.
LEMMA HistoryInit == Init => OneActiveUnlessRestored /\ LocksAreAnswered /\ OneLiveUse
  <1> SUFFICES ASSUME Init PROVE OneActiveUnlessRestored /\ LocksAreAnswered /\ OneLiveUse
    OBVIOUS
  <1>1. \A c \in Coupons : coupons[c] = NoRow /\ ~Active(c) /\ ~OrderOnly(c)
    BY DEF Init, NoRow, Active, OrderOnly, Exists
  <1>2. ASSUME NEW c \in Coupons, NEW o \in Orders
        PROVE  Cardinality(Tries("reserved", c, o)) >=
                 Cardinality(Tries("released", c, o)) + Cardinality(Tries("committed", c, o))
                 + Holding(c, o)
    <2>1. Holding(c, o) = 0
      BY <1>1, HoldingIs, Ids DEF NoRow
    <2>2. \A t : Tries(t, c, o) = {}
      BY DEF Init, Tries
    <2>3. \A t : Cardinality(Tries(t, c, o)) = 0
      BY <2>2, FS_EmptySet
    <2> QED BY <2>1, <2>3
  <1> QED BY <1>1, <1>2 DEF OneActiveUnlessRestored, LocksAreAnswered, Holding, OneLiveUse

\* A member holds two active coupons of one rule only when a refund restored one of
\* them, whatever is issued, expired, refunded or merged meanwhile.
THEOREM SecondCouponIsRestored == Spec => []OneActiveUnlessRestored
  BY IInvInit, IInvNext, HistoryInit, OneActiveNext, PTL DEF Spec

\* However often lock calls are repeated or come late, each takes a coupon at most
\* once: an order has had a lock call for every release and payment, and for its hold.
THEOREM EveryLockIsAnswered == Spec => []LocksAreAnswered
  BY IInvInit, IInvNext, HistoryInit, LocksNext, PTL DEF Spec

\* A coupon only orders can use is in use once or not at all, as its row says.
THEOREM UsedOnce == Spec => []OneLiveUse
  BY IInvInit, IInvNext, HistoryInit, UsesNext, PTL DEF Spec

-----------------------------------------------------------------------------
(* The authority implements CouponPromise.                                 *)

Assets == [c \in Coupons |-> Asset(coupons[c])]
Issued == [r \in Rules |-> rules[r].issued_count]
PromiseStep == Promise!Next \/ UNCHANGED <<Assets, Issued>>

\* Where the coupon of a row is.
LEMMA AssetOf ==
  /\ Asset(NoRow) = Promise!In("absent", Nil)
  /\ \A row : GoodRow(row) =>
       /\ row.status = "available" => Asset(row) = Promise!In("free", Nil)
       /\ row.status = "reserved" => Asset(row) = Promise!In("locked", row.reserved_order_ref)
       /\ row.status = "used" => Asset(row) = Promise!In("spent", row.used_order_ref)
       /\ row.status \in {"expired", "revoked"} => Asset(row) = Promise!In("over", Nil)
  BY DEF Asset, Promise!In, GoodRow, CheckedRow, NoRow

\* Rewriting one row moves one asset.
LEMMA AssetsRewritten ==
  ASSUME TypeOK, NEW c \in Coupons, NEW row, coupons' = [coupons EXCEPT ![c] = row]
  PROVE  /\ Assets[c] = Asset(coupons[c])
         /\ Assets' = [Assets EXCEPT ![c] = Asset(row)]
  <1>1. coupons'[c] = row /\ \A d \in Coupons : d # c => coupons'[d] = coupons[d]
    BY DEF TypeOK
  <1>2. \A d \in Coupons : Asset(coupons'[d]) = IF d = c THEN Asset(row) ELSE Asset(coupons[d])
    BY <1>1
  <1>3. Assets' = [d \in Coupons |-> Asset(coupons'[d])]
    BY DEF Assets
  <1> QED BY <1>2, <1>3 DEF Assets

\* Rewriting one row is a step of one asset, or no step when its place is the same.
LEMMA MoveIsBecomes ==
  ASSUME TypeOK, UNCHANGED rules, NEW c \in Coupons, NEW row,
         coupons' = [coupons EXCEPT ![c] = row]
  PROVE  /\ Promise!Becomes(c, Asset(coupons[c]), Asset(row))
         /\ Asset(row) = Asset(coupons[c]) => UNCHANGED <<Assets, Issued>>
  <1>1. Assets[c] = Asset(coupons[c]) /\ Assets' = [Assets EXCEPT ![c] = Asset(row)]
    BY AssetsRewritten
  <1>2. Issued' = Issued
    BY DEF Issued
  <1>3. Promise!Becomes(c, Asset(coupons[c]), Asset(row))
    BY <1>1, <1>2 DEF Promise!Becomes, Assets, Issued
  <1>4. ASSUME Asset(row) = Asset(coupons[c]) PROVE UNCHANGED <<Assets, Issued>>
    BY <1>1, <1>2, <1>4 DEF Assets
  <1> QED BY <1>3, <1>4

\* A coupon that was free, locked or spent is over.
LEMMA MoveIsEnd ==
  ASSUME TypeOK, UNCHANGED rules, NEW c \in Coupons, NEW row,
         coupons' = [coupons EXCEPT ![c] = row], Asset(row) = Promise!In("over", Nil),
         Asset(coupons[c]).state \in {"free", "locked", "spent"}
  PROVE  Promise!Next
  <1>1. Assets[c] = Asset(coupons[c]) /\ Assets' = [Assets EXCEPT ![c] = Asset(row)]
    BY AssetsRewritten
  <1>2. Issued' = Issued
    BY DEF Issued
  <1>3. Assets' = [d \in Coupons |-> IF d \in {c} THEN Promise!In("over", Nil) ELSE Assets[d]]
    BY <1>1 DEF Assets
  <1>4. Promise!End({c})
    BY <1>1, <1>2, <1>3 DEF Promise!End, Assets, Issued
  <1> QED BY <1>4 DEF Promise!Next

\* A call that only logs moves nothing.
LEMMA StandStill ==
  ASSUME UNCHANGED <<coupons, rules>>
  PROVE  UNCHANGED <<Assets, Issued>>
  BY DEF Assets, Issued

\* No coupon exists at the start, in the rows as in the promise.
LEMMA PromiseInit == Init => Promise!Init
  BY AssetOf DEF Init, Promise!Init

\* A new coupon is issued within the limit; the one already there does not move.
LEMMA IssuingKeepsPromise ==
  ASSUME IInv, Issuing
  PROVE  PromiseStep
  <1>1. PICK cl \in Claims, m \in Members, r \in Rules, c \in Coupons :
          IssueNew(cl, m, r, c) \/ IssueExisting(cl, m, r, c)
    BY DEF Issuing
  <1>2. CASE IssueExisting(cl, m, r, c)
    BY <1>2, StandStill DEF IssueExisting, NoteOnly, PromiseStep
  <1>3. CASE IssueNew(cl, m, r, c)
    <2> DEFINE row == NewRow(cl, m, r)
    <2>1. /\ coupons' = [coupons EXCEPT ![c] = row]
          /\ rules' = [rules EXCEPT ![r].issued_count = @ + 1]
          /\ rules[r].issued_count < IssuanceLimit[r] /\ coupons[c] = NoRow
      BY <1>3, RowsAreGood DEF IssueNew, MayAsk, Issuable
    <2>2. TypeOK /\ GoodRow(row) /\ row.status = "available"
      BY NewRowIsGood DEF IInv
    <2>3. /\ Assets[c] = Promise!In("absent", Nil)
          /\ Assets' = [Assets EXCEPT ![c] = Promise!In("free", Nil)]
      <3>1. Assets[c] = Asset(coupons[c]) /\ Assets' = [Assets EXCEPT ![c] = Asset(row)]
        BY <2>1, <2>2, AssetsRewritten
      <3>2. Asset(row) = Promise!In("free", Nil)
        BY <2>2, AssetOf
      <3> QED BY <2>1, <3>1, <3>2, AssetOf
    <2>4. Issued' = [Issued EXCEPT ![r] = @ + 1] /\ Issued[r] < IssuanceLimit[r]
      BY <2>1, <2>2 DEF Issued, TypeOK
    <2>5. Promise!Issue(c, r)
      BY <2>3, <2>4 DEF Promise!Issue, Assets, Issued
    <2> QED BY <2>5 DEF Promise!Next, PromiseStep
  <1> QED BY <1>1, <1>2, <1>3

\* The calls of an order are Lock, Spend, Unlock, TakeBack or End, or stutter.
LEMMA OrderCallKeepsPromise ==
  ASSUME IInv, NEW c \in Coupons, NEW o \in Orders, NEW n \in 1..Attempts,
         \/ Reserve(c, o, n) \/ Commit(c, o, n) \/ Release(c, o, n)
         \/ Reverse(c, o, n) \/ RecordPartialRefund(c, o, n)
  PROVE  PromiseStep
  <1> DEFINE row == coupons[c]
  <1>1. TypeOK /\ row \in Rows /\ (Exists(c) => GoodRow(row)) /\ IInv' /\ rules' = rules
    BY RowsAreGood, OrderCallKeeps DEF IInv, Reserve, Commit, Release, Reverse, RecordPartialRefund
  <1>2. ASSUME NEW new, coupons' = [coupons EXCEPT ![c] = new], new.status # "none"
        PROVE  GoodRow(new)
    <2>1. coupons'[c] = new
      BY <1>1, <1>2 DEF TypeOK
    <2> QED BY <1>1, <1>2, <2>1
          DEF IInv, TypeOK, ChecksNeverFire, UnconfirmedIsUnusable, GoodRow, Exists
  <1>3. CASE Reserve(c, o, n)
    <2> DEFINE new == Reserved(row, o)
    <2>1. CASE NoteOnly("reserved", c, o, n)
      BY <1>1, <2>1, StandStill DEF NoteOnly, PromiseStep
    <2>2. CASE row.status = "available" /\ Update("reserved", c, o, n, new)
      <3>1. coupons' = [coupons EXCEPT ![c] = new]
        BY <2>2 DEF Update
      <3>2. new.status = "reserved" /\ new.reserved_order_ref = o
        BY <1>1, ReservedFields
      <3>3. Asset(row) = Promise!In("free", Nil) /\ Asset(new) = Promise!In("locked", o)
        BY <1>1, <1>2, <2>2, <3>1, <3>2, AssetOf DEF Exists
      <3>4. Promise!Lock(c, o)
        BY <1>1, <3>1, <3>3, MoveIsBecomes DEF Promise!Lock
      <3> QED BY <3>4 DEF Promise!Next, PromiseStep
    <2> QED BY <1>3, <2>1, <2>2 DEF Reserve
  <1>4. CASE Commit(c, o, n)
    <2> DEFINE new == Committed(row, o)
    <2>1. coupons' = [coupons EXCEPT ![c] = new] /\ row.status = "reserved" /\ GoodRow(row)
      BY <1>1, <1>4 DEF Commit, HeldBy, Update, Exists
    <2>2. row.reserved_order_ref = o
      BY <1>4, <2>1, Ids DEF Commit, HeldBy, Differs, GoodRow, CheckedRow
    <2>3. new.status = "used" /\ new.used_order_ref = o
      BY <1>1, CommittedFields
    <2>4. Asset(row) = Promise!In("locked", o) /\ Asset(new) = Promise!In("spent", o)
      BY <1>2, <2>1, <2>2, <2>3, AssetOf
    <2>5. Promise!Spend(c, o)
      BY <1>1, <2>1, <2>4, MoveIsBecomes DEF Promise!Spend
    <2> QED BY <2>5 DEF Promise!Next, PromiseStep
  <1>5. CASE Release(c, o, n)
    <2> DEFINE new == Freed(row, Restored(row))
    <2>1. coupons' = [coupons EXCEPT ![c] = new] /\ row.status = "reserved" /\ GoodRow(row)
      BY <1>1, <1>5 DEF Release, HeldBy, Update, Exists
    <2>2. row.reserved_order_ref = o
      BY <1>5, <2>1, Ids DEF Release, HeldBy, Differs, GoodRow, CheckedRow
    <2>3. Restored(row) \in {"available", "expired"}
      BY DEF Restored
    <2>4. new.status = Restored(row)
      BY <1>1, <2>3, FreedFields DEF Statuses
    <2>5. Asset(row) = Promise!In("locked", o) /\ GoodRow(new)
      BY <1>2, <2>1, <2>2, <2>3, <2>4, AssetOf
    <2>6. CASE new.status = "available"
      <3>1. Promise!Unlock(c, o)
        BY <1>1, <2>1, <2>5, <2>6, AssetOf, MoveIsBecomes DEF Promise!Unlock
      <3> QED BY <3>1 DEF Promise!Next, PromiseStep
    <2>7. CASE new.status = "expired"
      <3>1. Asset(row).state = "locked" /\ Asset(new) = Promise!In("over", Nil)
        BY <2>5, <2>7, AssetOf DEF Promise!In
      <3>2. Promise!Next
        BY <1>1, <2>1, <3>1, MoveIsEnd
      <3> QED BY <3>2 DEF PromiseStep
    <2> QED BY <2>3, <2>4, <2>6, <2>7
  <1>6. CASE Reverse(c, o, n)
    <2> DEFINE new == Reversed(row)
               by == row.used_order_ref
    <2>1. coupons' = [coupons EXCEPT ![c] = new] /\ row.status = "used" /\ GoodRow(row)
      BY <1>1, <1>6 DEF Reverse, SpentBy, Update, Exists
    <2>2. by \in Orders \cup {Nil}
      BY <1>1 DEF Rows, OrNil
    <2>3. new.status \in {"available", "expired"}
      BY <1>1, ReversedFields
    <2>4. Asset(row) = Promise!In("spent", by) /\ GoodRow(new)
      BY <1>2, <2>1, <2>3, AssetOf
    <2>5. CASE new.status = "available"
      <3>1. Promise!TakeBack(c, by)
        BY <1>1, <2>1, <2>4, <2>5, AssetOf, MoveIsBecomes DEF Promise!TakeBack
      <3> QED BY <2>2, <3>1 DEF Promise!Next, PromiseStep
    <2>6. CASE new.status = "expired"
      <3>1. Asset(row).state = "spent" /\ Asset(new) = Promise!In("over", Nil)
        BY <2>4, <2>6, AssetOf DEF Promise!In
      <3>2. Promise!Next
        BY <1>1, <2>1, <3>1, MoveIsEnd
      <3> QED BY <3>2 DEF PromiseStep
    <2> QED BY <2>3, <2>5, <2>6
  <1>7. CASE RecordPartialRefund(c, o, n)
    BY <1>1, <1>7, StandStill DEF RecordPartialRefund, NoteOnly, PromiseStep
  <1> QED BY <1>3, <1>4, <1>5, <1>6, <1>7

\* A store or a platform spends a free coupon; revoking ends it; syncing stutters.
LEMMA OtherCallKeepsPromise ==
  ASSUME IInv, OtherCall
  PROVE  PromiseStep
  <1>1. IInv' /\ rules' = rules /\ TypeOK
    BY OtherCallKeeps
    DEF IInv, OtherCall, StoreRedeem, Revoke, ConsumeExternal, ConfirmSync, MarkSyncError
  <1>2. ASSUME NEW c \in Coupons, NEW new,
               coupons' = [coupons EXCEPT ![c] = new], new.status # "none"
        PROVE  GoodRow(new)
    <2>1. coupons'[c] = new
      BY <1>1, <1>2 DEF TypeOK
    <2> QED BY <1>1, <1>2, <2>1
          DEF IInv, TypeOK, ChecksNeverFire, UnconfirmedIsUnusable, GoodRow, Exists
  <1>3. ASSUME NEW c \in Coupons, coupons[c].status = "available",
               NEW s \in OrNil(Stores), coupons' = [coupons EXCEPT ![c] = Redeemed(coupons[c], s)]
        PROVE  PromiseStep
    <2> DEFINE new == Redeemed(coupons[c], s)
    <2>1. GoodRow(coupons[c])
      BY <1>3, RowsAreGood DEF Exists
    <2>2. new.status = "used" /\ new.used_order_ref = Nil
      BY <1>3, <2>1, RedeemedFields DEF GoodRow, CheckedRow
    <2>3. Asset(coupons[c]) = Promise!In("free", Nil) /\ Asset(new) = Promise!In("spent", Nil)
      BY <1>2, <1>3, <2>1, <2>2, AssetOf
    <2>4. Promise!SpendElsewhere(c)
      BY <1>1, <1>3, <2>3, MoveIsBecomes DEF Promise!SpendElsewhere
    <2> QED BY <2>4 DEF Promise!Next, PromiseStep
  <1>4. ASSUME NEW c \in Coupons, Exists(c), NEW s \in {"synchronized", "error"},
               coupons' = [coupons EXCEPT ![c] = Synced(coupons[c], s)]
        PROVE  PromiseStep
    <2>1. coupons[c] \in Rows
      BY RowsAreGood
    <2>2. Asset(Synced(coupons[c], s)) = Asset(coupons[c])
      BY <2>1, SyncedFields DEF Asset
    <2> QED BY <1>1, <1>4, <2>2, MoveIsBecomes DEF PromiseStep
  <1>5. ASSUME NEW c \in Coupons, NEW s \in Stores, NEW n \in 1..Attempts, StoreRedeem(c, s, n)
        PROVE  PromiseStep
    BY <1>3, <1>5 DEF StoreRedeem, Update, OrNil
  <1>6. ASSUME NEW c \in Coupons, Revoke(c)
        PROVE  PromiseStep
    <2> DEFINE new == Freed(coupons[c], "revoked")
    <2>1. /\ coupons' = [coupons EXCEPT ![c] = new] /\ coupons[c].status = "available"
          /\ GoodRow(coupons[c])
      BY <1>6, RowsAreGood DEF Revoke, Update, Exists
    <2>2. new.status = "revoked"
      <3>1. "revoked" \in Statuses /\ coupons[c] \in Rows
        BY <2>1 DEF Statuses, GoodRow
      <3> QED BY <3>1, FreedFields
    <2>3. Asset(coupons[c]).state = "free" /\ Asset(new) = Promise!In("over", Nil)
      <3>1. GoodRow(new)
        BY <1>2, <2>1, <2>2
      <3> QED BY <2>1, <2>2, <3>1, AssetOf DEF Promise!In
    <2>4. Promise!Next
      BY <1>1, <2>1, <2>3, MoveIsEnd
    <2> QED BY <2>4 DEF PromiseStep
  <1>7. ASSUME NEW c \in Coupons, ConsumeExternal(c)
        PROVE  PromiseStep
    <2>1. CASE NoteOnly("external_sync_confirmed", c, Nil, 1)
      BY <1>1, <2>1, StandStill DEF NoteOnly, PromiseStep
    <2>2. CASE /\ coupons[c].status = "available"
               /\ Update("external_sync_confirmed", c, Nil, 1, Redeemed(coupons[c], Nil))
      BY <1>3, <2>2 DEF Update, OrNil
    <2> QED BY <1>7, <2>1, <2>2 DEF ConsumeExternal
  <1>8. ASSUME NEW c \in Coupons, NEW cl \in Claims, ConfirmSync(cl, c) \/ MarkSyncError(cl, c)
        PROVE  PromiseStep
    BY <1>4, <1>8 DEF ConfirmSync, MarkSyncError, ExternalOf, Update
  <1> QED BY <1>5, <1>6, <1>7, <1>8 DEF OtherCall

\* A wallet request ends the coupons it expires.
LEMMA ExpireReadKeepsPromise ==
  ASSUME IInv, NEW w \in Readers, ExpireRead(w)
  PROVE  PromiseStep
  <1> DEFINE R == Remaining(w)
             over == Promise!In("over", Nil)
  <1>1. /\ \A c \in Coupons : coupons'[c] = IF c \in R THEN Freed(coupons[c], "expired")
                                                       ELSE coupons[c]
        /\ R \in SUBSET Coupons /\ Issued' = Issued /\ IInv'
    BY ExpireReadKeeps DEF ExpireRead, Remaining, IInv, TypeOK, Issued
  <1>2. ASSUME NEW c \in R
        PROVE  Asset(coupons[c]).state \in {"free", "locked"} /\ Asset(coupons'[c]) = over
    <2>1. c \in Coupons /\ coupons[c].status \in {"available", "reserved"}
      BY <1>1 DEF ExpireRead, PastValidity, Active
    <2>2. coupons[c] \in Rows /\ GoodRow(coupons[c])
      BY <2>1, RowsAreGood DEF Exists
    <2>3. coupons'[c].status = "expired"
      <3>1. "expired" \in Statuses /\ coupons'[c] = Freed(coupons[c], "expired")
        BY <1>1, <2>1 DEF Statuses
      <3> QED BY <2>2, <3>1, FreedFields
    <2>4. GoodRow(coupons'[c])
      BY <1>1, <2>1, <2>3 DEF IInv, TypeOK, ChecksNeverFire, UnconfirmedIsUnusable, GoodRow, Exists
    <2> QED BY <2>1, <2>2, <2>3, <2>4, AssetOf DEF Promise!In
  <1>3. \A c \in Coupons : Asset(coupons'[c]) = IF c \in R THEN over ELSE Asset(coupons[c])
    BY <1>1, <1>2
  <1>4. Assets' = [c \in Coupons |-> IF c \in R THEN over ELSE Assets[c]]
    BY <1>3 DEF Assets
  <1>5. \A c \in R : Assets[c].state \in {"free", "locked", "spent"}
    BY <1>1, <1>2 DEF Assets
  <1>6. Promise!End(R)
    BY <1>1, <1>4, <1>5 DEF Promise!End, Assets, Issued
  <1> QED BY <1>1, <1>6 DEF Promise!Next, PromiseStep

\* Every call is a step of the promise or changes none of its variables.
THEOREM PromiseNext == IInv /\ [Next]_vars => PromiseStep
  <1> SUFFICES ASSUME IInv, [Next]_vars PROVE PromiseStep
    OBVIOUS
  <1>1. TypeOK
    BY DEF IInv
  <1>2. CASE RuleOperation
    <2>1. PICK r \in Rules, n \in 1..Attempts :
            CreateRule(r) \/ PublishRule(r) \/ PauseRule(r, n) \/ ResumeRule(r, n) \/ EndRule(r)
      BY <1>2 DEF RuleOperation
    <2>2. coupons' = coupons /\ \E s \in RuleStatuses : rules' = [rules EXCEPT ![r].status = s]
      BY <2>1 DEF CreateRule, PublishRule, PauseRule, ResumeRule, EndRule, RuleStep, RuleStatuses
    <2>3. UNCHANGED <<Assets, Issued>>
      BY <1>1, <2>2 DEF TypeOK, Assets, Issued
    <2> QED BY <2>3 DEF PromiseStep
  <1>3. CASE Issuing
    BY <1>3, IssuingKeepsPromise
  <1>4. CASE OrderCall
    BY <1>4, OrderCallKeepsPromise DEF OrderCall
  <1>5. CASE OtherCall
    BY <1>5, OtherCallKeepsPromise
  <1>6. CASE Wallet
    BY <1>6, ExpireReadKeepsPromise, StandStill
    DEF Wallet, OpenWallet, ListingFails, PromiseStep
  <1>7. CASE Merging
    <2>1. coupons' = coupons /\ rules' = rules
      BY <1>1, <1>7, MergeMovesNothing DEF Merging, Merge
    <2> QED BY <2>1, StandStill DEF PromiseStep
  <1>8. CASE Tick \/ UNCHANGED vars
    BY <1>8, StandStill DEF Tick, vars, PromiseStep
  <1> QED BY <1>2, <1>3, <1>4, <1>5, <1>6, <1>7, <1>8 DEF Next

\* The authority keeps the promise of CouponPromise: whatever the shop, stores,
\* platforms, operators and wallets call, in whatever order, a coupon is issued within
\* the limit, locked by one order at a time, spent only by that order or where no order
\* is involved, and over for good once it is over.
THEOREM ImplementsPromise == Spec => PromiseSpec
  BY PromiseInit, Invariance, PromiseNext, PTL
  DEF Spec, PromiseSpec, Promise!Spec, PromiseStep, Assets, Issued
=============================================================================

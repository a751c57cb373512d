---------------------------- MODULE CodeLifecycle ----------------------------
(***************************************************************************)
(* Packaging codes: they are generated in batches for a production batch,  *)
(* exported to the printer, delivered and activated together, and from     *)
(* then on bound, frozen, recovered and voided one by one or by the batch. *)
(* A recalled production batch freezes all of its codes.                   *)
(*                                                                         *)
(* Each transition locks production batch, code batch and codes, in this   *)
(* order, and is one action; a generation takes its locks one after the    *)
(* other, so two of them, or one and a recall, meet halfway.  The tables   *)
(* are those of PostgreSQL, with their triggers.  Generated batches only,  *)
(* under an idempotency key; of the exported artifact its codes are kept.  *)
(***************************************************************************)
EXTENDS Integers, FiniteSets

CONSTANTS
  Productions,   \* production batches
  Batches, Items, Keys, Requests, Nil,
  Source,        \* by batch: its production batch
  ItemsOf,       \* by batch: the codes it is generated with
  PairId,        \* by code: the id of its pair, or Nil
  MaxCodes,      \* the tenant's quota
  MaxDay         \* bounds the calendar; a production batch expires after day 0

VARIABLES
  today,
  recalled,      \* production batches
  batches,       \* by batch: its row
  items,         \* by code: its row
  usage,         \* tenant_quota_usage.codes
  receipts,      \* by idempotency key: the batch it generated
  requests       \* by request: the generation under way

vars == <<today, recalled, batches, items, usage, receipts, requests>>
-----------------------------------------------------------------------------
Idle == [pc |-> "idle"]
NoItem == [status |-> "absent"]
Live == {"activated", "bound"}
OrNil(S) == S \cup {Nil}

Init ==
  /\ today = 0
  /\ recalled = {}
  /\ batches = [b \in Batches |-> [status |-> "absent"]]
  /\ items = [i \in Items |-> NoItem]
  /\ usage = 0
  /\ receipts = [k \in Keys |-> Nil]
  /\ requests = [q \in Requests |-> Idle]

Operational(p) == p \notin recalled /\ today = 0
\* A generation that goes on holds the production batch FOR UPDATE.
Busy(p) == \E q \in Requests : requests[q].pc = "locked" /\ Source[requests[q].batch] = p
-----------------------------------------------------------------------------
(* create_code_batch, in one transaction                                   *)

\* The receipt: another insert of the key waits for this transaction to end, and
\* then answers with its batch.
Claim(q, k, b) ==
  /\ requests[q] = Idle /\ batches[b].status = "absent"
  /\ receipts[k] = Nil
  /\ \A r \in Requests : requests[r] # Idle => requests[r].key # k /\ requests[r].batch # b
  /\ requests' = [requests EXCEPT ![q] = [pc |-> "claimed", key |-> k, batch |-> b]]
  /\ UNCHANGED <<today, recalled, batches, items, usage, receipts>>

\* The production batch, then the tenant's row, under which the quota is reserved.
ReserveUnlocked(q) ==
  /\ requests[q].pc = "claimed"
  /\ Operational(Source[requests[q].batch])
  /\ usage + Cardinality(ItemsOf[requests[q].batch]) <= MaxCodes
  /\ requests' = [requests EXCEPT ![q].pc = "locked"]
  /\ UNCHANGED <<today, recalled, batches, items, usage, receipts>>
Reserve(q) ==
  LET b == requests[q].batch
      n == Cardinality(ItemsOf[b])
  IN
  /\ requests[q].pc = "claimed"
  /\ Operational(Source[b])
  /\ \A r \in Requests : requests[r].pc # "locked"
  /\ usage + n <= MaxCodes
  /\ requests' = [requests EXCEPT ![q].pc = "locked"]
  /\ UNCHANGED <<today, recalled, batches, items, usage, receipts>>

\* The codes are written and the batch completed, which looks at the date again.
Generate(q) ==
  LET b == requests[q].batch
      k == requests[q].key
  IN
  /\ requests[q].pc = "locked" /\ Operational(Source[b])
  /\ batches' = [batches EXCEPT ![b] =
       [status |-> "completed", key |-> k, manifest |-> Nil]]
  /\ items' = [i \in Items |-> IF i \in ItemsOf[b]
       THEN [status |-> "created", from |-> Nil, bound |-> FALSE, scanned |-> FALSE]
       ELSE items[i]]
  /\ usage' = usage + Cardinality(ItemsOf[b])
  /\ receipts' = [receipts EXCEPT ![k] = b]
  /\ requests' = [requests EXCEPT ![q] = Idle]
  /\ UNCHANGED <<today, recalled>>

\* Refused, or lost: everything it wrote is undone.
RollBack(q) ==
  /\ requests[q] # Idle
  /\ requests' = [requests EXCEPT ![q] = Idle]
  /\ UNCHANGED <<today, recalled, batches, items, usage, receipts>>
-----------------------------------------------------------------------------
(* To the printer, and back                                                *)

May(b, status) ==
  batches[b].status = status /\ Operational(Source[b]) /\ ~Busy(Source[b])

\* _partition_deliverable_items looks the id of a pair up among the ids of codes.
Deliverable(b) ==
  LET voided_ids == {i \in ItemsOf[b] : items[i].status # "created"}
  IN {i \in ItemsOf[b] \ voided_ids : PairId[i] \notin voided_ids}
PairsWhole(S) == \A i \in S, j \in Items :
  PairId[i] # Nil /\ PairId[i] = PairId[j] => j \in S

\* _generate_code_csv, the first time.  The code would leave out voided codes when
\* asked; guard_code_export_manifest wants as many rows as codes were generated.
Exportable(b, exclude) ==
  /\ May(b, "completed")
  /\ Deliverable(b) # {} /\ (exclude \/ Deliverable(b) = ItemsOf[b])
  /\ PairsWhole(Deliverable(b))
  /\ Cardinality(Deliverable(b)) = Cardinality(ItemsOf[b])

Export(b, exclude) ==
  /\ Exportable(b, exclude)
  /\ batches' = [batches EXCEPT ![b] =
       [status |-> "exported", key |-> @.key, manifest |-> Deliverable(b)]]
  /\ UNCHANGED <<today, recalled, items, usage, receipts, requests>>

MarkPrinting(b) ==
  /\ May(b, "exported")
  /\ batches' = [batches EXCEPT ![b].status = "printing"]
  /\ UNCHANGED <<today, recalled, items, usage, receipts, requests>>

MarkDelivered(b) ==
  /\ May(b, "printing")
  /\ batches' = [batches EXCEPT ![b].status = "delivered"]
  /\ UNCHANGED <<today, recalled, items, usage, receipts, requests>>

Activate(b) ==
  /\ May(b, "delivered")
  /\ \A i \in ItemsOf[b] : items[i].status = "created"
  /\ batches' = [batches EXCEPT ![b].status = "activated"]
  /\ items' = [i \in Items |-> IF i \in ItemsOf[b]
       THEN [items[i] EXCEPT !.status = "activated"] ELSE items[i]]
  /\ UNCHANGED <<today, recalled, usage, receipts, requests>>
-----------------------------------------------------------------------------
(* Codes                                                                   *)

BatchOf(i) == CHOOSE b \in Batches : i \in ItemsOf[b]
Free(i) == items[i] # NoItem /\ ~Busy(Source[BatchOf(i)])
FrozenAsActivated(row) == [row EXCEPT !.status = "frozen", !.from = "activated"]
Frozen(row) == [row EXCEPT !.status = "frozen", !.from = row.status]
Voided(row) == [row EXCEPT !.status = "revoked", !.from = Nil]

Bind(i) ==
  LET b == BatchOf(i) IN
  /\ Free(i) /\ items[i].status = "activated"
  /\ batches[b].status = "activated" /\ Operational(Source[b])
  /\ items' = [items EXCEPT ![i].status = "bound", ![i].bound = TRUE]
  /\ UNCHANGED <<today, recalled, batches, usage, receipts, requests>>

\* A manager's freeze, one over a risk alert, or the risk rule's own.
Freeze(i) ==
  /\ Free(i) /\ items[i].status \in Live
  /\ items' = [items EXCEPT ![i] = Frozen(@)]
  /\ UNCHANGED <<today, recalled, batches, usage, receipts, requests>>

\* The function does not look at the production batch; a trigger does.
GuardNothing(i, status) == TRUE
GuardItemProduction(i, status) == status \in Live => Operational(Source[BatchOf(i)])
Recover(i) ==
  /\ Free(i) /\ items[i].status = "frozen"
  /\ batches[BatchOf(i)].status = "activated"
  /\ GuardItemProduction(i, items[i].from)
  /\ items' = [items EXCEPT ![i].status = items[i].from, ![i].from = Nil]
  /\ UNCHANGED <<today, recalled, batches, usage, receipts, requests>>

Void(i) ==
  /\ Free(i) /\ items[i].status # "revoked"
  /\ items' = [items EXCEPT ![i] = Voided(@)]
  /\ UNCHANGED <<today, recalled, batches, usage, receipts, requests>>

FreezeBatch(b) ==
  LET hit == {i \in ItemsOf[b] : items[i].status \in Live} IN
  /\ ~Busy(Source[b]) /\ hit # {}
  /\ items' = [i \in Items |-> IF i \in hit THEN Frozen(items[i]) ELSE items[i]]
  /\ UNCHANGED <<today, recalled, batches, usage, receipts, requests>>

VoidBatch(b) ==
  LET hit == {i \in ItemsOf[b] : items[i].status \notin {"absent", "revoked"}} IN
  /\ ~Busy(Source[b]) /\ hit # {}
  /\ items' = [i \in Items |-> IF i \in hit THEN Voided(items[i]) ELSE items[i]]
  /\ UNCHANGED <<today, recalled, batches, usage, receipts, requests>>

FirstScan(i) ==
  /\ items[i] # NoItem /\ ~items[i].scanned
  /\ items' = [items EXCEPT ![i].scanned = TRUE]
  /\ UNCHANGED <<today, recalled, batches, usage, receipts, requests>>

\* recall_production_batch; the trigger on its row freezes what is live.
Recall(p) ==
  LET hit == {i \in Items : items[i].status \in Live /\ Source[BatchOf(i)] = p} IN
  /\ Operational(p) /\ ~Busy(p)
  /\ recalled' = recalled \cup {p}
  /\ items' = [i \in Items |-> IF i \in hit THEN Frozen(items[i]) ELSE items[i]]
  /\ UNCHANGED <<today, batches, usage, receipts, requests>>

NextDay ==
  /\ today < MaxDay /\ today' = today + 1
  /\ UNCHANGED <<recalled, batches, items, usage, receipts, requests>>
-----------------------------------------------------------------------------
Next ==
  \/ NextDay
  \/ \E q \in Requests, k \in Keys, b \in Batches : Claim(q, k, b)
  \/ \E q \in Requests : Reserve(q) \/ Generate(q) \/ RollBack(q)
  \/ \E b \in Batches, exclude \in BOOLEAN : Export(b, exclude)
  \/ \E b \in Batches : \/ MarkPrinting(b) \/ MarkDelivered(b) \/ Activate(b)
                        \/ FreezeBatch(b) \/ VoidBatch(b)
  \/ \E i \in Items : Bind(i) \/ Freeze(i) \/ Recover(i) \/ Void(i) \/ FirstScan(i)
  \/ \E p \in Productions : Recall(p)

Spec == Init /\ [][Next]_vars
-----------------------------------------------------------------------------
TypeOK ==
  /\ today \in 0..MaxDay /\ recalled \subseteq Productions /\ usage \in 0..MaxCodes
  /\ items \in [Items -> {NoItem} \cup
       [status : {"created", "frozen", "revoked"} \cup Live, from : OrNil(Live),
        bound : BOOLEAN, scanned : BOOLEAN]]
  /\ receipts \in [Keys -> OrNil(Batches)]

\* recall_production_batch and the triggers it relies on: no code of a recalled
\* production batch is live, nor becomes so, by any recovery, activation, binding or
\* generation that meets the recall, although Recover itself never looks at it.
RecalledIsQuiet ==
  \A i \in Items : items[i].status \in Live => Source[BatchOf(i)] \notin recalled

\* Freezing, recall and recovery, by code and by batch: however they follow one
\* another, a code that was bound is never merely activated again, nothing but a
\* frozen code carries a status to return to, and a batch goes live as a whole.
HistoryIsKept ==
  \A i \in Items : items[i] # NoItem =>
    /\ items[i].bound => "activated" \notin {items[i].status, items[i].from}
    /\ items[i].from # Nil <=> items[i].status = "frozen"
    /\ items[i].status \in Live \cup {"frozen"} => batches[BatchOf(i)].status = "activated"
    /\ batches[BatchOf(i)].status = "activated" => items[i].status # "created"

\* create_code_batch under retries: the counter is what was generated and within
\* the quota, and a request sent again generates nothing more.
GeneratedOnce ==
  LET made == {b \in Batches : batches[b].status # "absent"} IN
  /\ usage = Cardinality({i \in Items : items[i] # NoItem}) /\ usage <= MaxCodes
  /\ \A b \in made : receipts[batches[b].key] = b

\* What tests/test_api/test_code_export.py says of a first export that leaves out
\* voided codes: it succeeds, as long as there are codes left.
VoidedCanBeLeftOut ==
  \A b \in Batches :
    May(b, "completed") /\ (\E i \in ItemsOf[b] : items[i].status = "created") =>
      Exportable(b, TRUE)
-----------------------------------------------------------------------------
(* What is promised of the codes                                           *)

Shown(row) ==
  IF row = NoItem THEN [state |-> "none", bound |-> FALSE]
  ELSE [state |-> CASE row.status = "created" -> "made"
                    [] row.status \in Live -> "live"
                    [] row.status = "revoked" -> "void"
                    [] OTHER -> "frozen",
        bound |-> "bound" \in {row.status, row.from}]
Codes == [i \in Items |-> Shown(items[i])]
Expired == today # 0

Promise == INSTANCE CodePromise WITH codes <- Codes, expired <- Expired

\* create_code_batch, the code services and the triggers: whatever generations, recalls
\* and managers do beside one another, codes are made once under a key and within the
\* quota, go live as a batch, come back from a freeze as what they were, and do not
\* outlive the recall of their production batch.
CodeSpec == Promise!Spec
=============================================================================

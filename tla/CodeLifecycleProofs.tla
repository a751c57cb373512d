-------------------------- MODULE CodeLifecycleProofs --------------------------
(***************************************************************************)
(* Proofs about CodeLifecycle, for every set of production batches, code   *)
(* batches, codes, keys and requests.  The theorems assume of the          *)
(* constants what the tables give: a code is of one batch, a batch has     *)
(* finitely many codes, and NULL is no status, batch or code.              *)
(***************************************************************************)
EXTENDS CodeLifecycle, FiniteSetTheorems, TLAPS

Sound ==
  /\ \A b \in Batches : ItemsOf[b] \subseteq Items /\ IsFiniteSet(ItemsOf[b])
  /\ \A b, c \in Batches : b # c => ItemsOf[b] \cap ItemsOf[c] = {}
  /\ \A i \in Items : \E b \in Batches : i \in ItemsOf[b]
  /\ Nil \notin Live \cup Batches /\ MaxCodes \in Nat /\ MaxDay \in Nat

Row == [status : {"created", "frozen", "revoked"} \cup Live, from : OrNil(Live),
        bound : BOOLEAN, scanned : BOOLEAN]
ItemsType == items \in [Items -> {NoItem} \cup Row]
Statuses == {"absent", "completed", "exported", "printing", "delivered", "activated"}

\* A batch that is being generated has no row and no code yet, and its key no receipt;
\* one request at a time has reserved its codes, and they fit.
Pending ==
  /\ \A q, r \in Requests : requests[q] # Idle /\ requests[r] # Idle /\ q # r =>
       requests[q].batch # requests[r].batch /\ requests[q].key # requests[r].key
  /\ \A q \in Requests : requests[q] # Idle =>
       /\ batches[requests[q].batch].status = "absent" /\ receipts[requests[q].key] = Nil
       /\ requests[q].pc = "locked" =>
            /\ usage + Cardinality(ItemsOf[requests[q].batch]) <= MaxCodes
            /\ \A r \in Requests \ {q} : requests[r].pc # "locked"
  /\ \A b \in Batches : batches[b].status = "absent" => \A i \in ItemsOf[b] : items[i] = NoItem

BatchRows ==
  \A b \in Batches : batches[b].status # "absent" =>
    batches[b] = [status |-> batches[b].status, key |-> batches[b].key,
                  manifest |-> batches[b].manifest]
CodesType ==
  /\ ItemsType /\ usage \in Nat
  /\ \A b \in Batches : batches[b].status \in Statuses
  /\ BatchRows /\ \A b \in Batches : batches[b].status # "absent" => batches[b].key \in Keys
  /\ batches = [b \in Batches |-> batches[b]]
  /\ receipts \in [Keys -> OrNil(Batches)]
  /\ requests \in [Requests -> {Idle} \cup
                     [pc : {"claimed", "locked"}, key : Keys, batch : Batches]]
Generated == {i \in Items : items[i] # NoItem}
Counted == IsFiniteSet(Generated) /\ GeneratedOnce

Unbound == \A i \in Items : items[i] # NoItem /\ items[i].status = "created" => ~items[i].bound

IInv == Unbound /\ CodesType /\ Pending /\ RecalledIsQuiet /\ HistoryIsKept /\ Counted
-----------------------------------------------------------------------------
(* Codes and their batches                                                 *)

\* A code is of one batch, and BatchOf names it.
LEMMA BatchOfOne ==
  ASSUME Sound
  PROVE  /\ \A i \in Items : BatchOf(i) \in Batches /\ i \in ItemsOf[BatchOf(i)]
         /\ \A b \in Batches : \A i \in ItemsOf[b] : i \in Items /\ BatchOf(i) = b
  <1>1. \A i \in Items : BatchOf(i) \in Batches /\ i \in ItemsOf[BatchOf(i)]
    BY DEF BatchOf, Sound
  <1>2. ASSUME NEW b \in Batches, NEW i \in ItemsOf[b] PROVE i \in Items /\ BatchOf(i) = b
    BY <1>1 DEF Sound
  <1> QED BY <1>1, <1>2

\* Freezing, voiding and what follows leave a row a row.
LEMMA RowsType ==
  ASSUME Sound, NEW row \in Row
  PROVE  /\ row.status \in Live => /\ Frozen(row) \in Row /\ Frozen(row).status = "frozen"
                                   /\ Frozen(row).from = row.status /\ Frozen(row).bound = row.bound
         /\ Voided(row) \in Row /\ Voided(row).status = "revoked" /\ Voided(row).from = Nil
         /\ row # NoItem
  <1> USE DEF Row, OrNil, Live
  <1>1. row # NoItem
    BY DEF NoItem
  <1>2. Voided(row) \in Row /\ Voided(row).status = "revoked" /\ Voided(row).from = Nil
    BY DEF Voided
  <1>3. ASSUME row.status \in Live
        PROVE  /\ Frozen(row) \in Row /\ Frozen(row).status = "frozen"
               /\ Frozen(row).from = row.status /\ Frozen(row).bound = row.bound
    BY <1>3 DEF Frozen
  <1> QED BY <1>1, <1>2, <1>3

\* What a step may make of one code: nothing, a new row, or one of the moves the code
\* allows, each with what it asks of the batch and of the production batch.
Move(i) ==
  LET row == items[i]
      new == items'[i]
      b == BatchOf(i)
      live == batches'[b].status = "activated" /\ Source[b] \notin recalled'
      quiet == row.status \in Live /\ Source[b] \in recalled' => Source[b] \in recalled
      same == new.from = row.from /\ new.bound = row.bound
  IN
  \/ new = row /\ quiet
  \/ /\ row = NoItem /\ batches[b].status = "absent"
     /\ batches'[b].status \notin {"absent", "activated"}
     /\ new.status = "created" /\ new.from = Nil /\ ~new.bound
  \/ /\ row # NoItem
     /\ \/ new.status = row.status /\ same /\ quiet
        \/ row.status = "created" /\ new.status = "activated" /\ same /\ live
        \/ row.status = "activated" /\ new.status = "bound" /\ new.from = row.from /\ live
        \/ /\ row.status \in Live /\ new.status = "frozen"
           /\ new.from = row.status /\ new.bound = row.bound
        \/ /\ row.status = "frozen" /\ new.status = row.from /\ new.from = Nil
           /\ new.bound = row.bound /\ batches' = batches
           /\ row.from \in Live => Source[b] \notin recalled'
        \/ new.status = "revoked" /\ new.from = Nil

\* A batch that is live stays so, and goes live with all its codes.
BatchMoves ==
  /\ \A b \in Batches : batches[b].status = "activated" => batches'[b].status = "activated"
  /\ \A b \in Batches : batches'[b].status = "activated" /\ batches[b].status # "activated" =>
       \A i \in ItemsOf[b] : items'[i].status # "created"

\* The steps that touch a code, and those that touch none.
ItemStep ==
  \/ \E q \in Requests : Generate(q)
  \/ \E b \in Batches : Activate(b) \/ FreezeBatch(b) \/ VoidBatch(b)
  \/ \E i \in Items : Bind(i) \/ Freeze(i) \/ Recover(i) \/ Void(i) \/ FirstScan(i)
  \/ \E p \in Productions : Recall(p)
OtherStep ==
  \/ NextDay
  \/ \E q \in Requests, k \in Keys, b \in Batches : Claim(q, k, b)
  \/ \E q \in Requests : Reserve(q) \/ RollBack(q)
  \/ \E b \in Batches : MarkPrinting(b) \/ MarkDelivered(b) \/ \E x \in BOOLEAN : Export(b, x)

\* Every step that touches codes moves each of them as the code allows.
LEMMA Moves ==
  ASSUME Sound, CodesType, Pending, HistoryIsKept, ItemStep
  PROVE  ItemsType' /\ (\A i \in Items : Move(i)) /\ BatchMoves
  <1> DEFINE G == ItemsType' /\ (\A i \in Items : Move(i)) /\ BatchMoves
  <1>0. /\ \A i \in Items : items[i] \in {NoItem} \cup Row
        /\ items = [i \in Items |-> items[i]]
        /\ \A row \in Row : row # NoItem
        /\ \A b \in Batches : batches[b].status \in Statuses
        /\ batches = [b \in Batches |-> batches[b]]
        /\ NoItem.status = "absent"
        /\ \A row \in Row : row.status # "absent"
    BY RowsType DEF CodesType, ItemsType, Row, Live, NoItem
  <1>1. ASSUME UNCHANGED <<recalled, batches>>, NEW S \in SUBSET Items,
               \A i \in S : items'[i] = Frozen(items[i]) /\ items[i].status \in Live,
               \A i \in Items \ S : items'[i] = items[i],
               items' = [i \in Items |-> items'[i]]
        PROVE  G
    <2>1. \A i \in S : items[i] \in Row
      BY <1>0, <1>1 DEF Live
    <2>2. \A i \in S : /\ items'[i] \in Row /\ items'[i].status = "frozen"
                       /\ items'[i].from = items[i].status /\ items'[i].bound = items[i].bound
      BY <1>1, <2>1, RowsType
    <2>3. ItemsType'
      BY <1>0, <1>1, <2>2 DEF ItemsType
    <2>4. \A i \in Items : Move(i)
      BY <1>0, <1>1, <2>1, <2>2 DEF Move
    <2> QED BY <1>1, <2>3, <2>4 DEF BatchMoves
  <1>2. ASSUME UNCHANGED <<recalled, batches>>, NEW S \in SUBSET Items,
               \A i \in S : items'[i] = Voided(items[i]) /\ items[i].status # "absent",
               \A i \in Items \ S : items'[i] = items[i],
               items' = [i \in Items |-> items'[i]]
        PROVE  G
    <2>1. \A i \in S : items[i] \in Row
      BY <1>0, <1>2
    <2>2. \A i \in S : items'[i] \in Row /\ items'[i].status = "revoked" /\ items'[i].from = Nil
      BY <1>2, <2>1, RowsType
    <2>3. ItemsType'
      BY <1>0, <1>2, <2>2 DEF ItemsType
    <2>4. \A i \in Items : Move(i)
      BY <1>0, <1>2, <2>1, <2>2 DEF Move
    <2> QED BY <1>2, <2>3, <2>4 DEF BatchMoves
  \* One code, of a row to a row.
  <1>3. ASSUME UNCHANGED <<recalled, batches>>, NEW i \in Items, NEW row \in Row,
               items' = [items EXCEPT ![i] = row], items[i] \in Row,
               items'[i] = row => Move(i)
        PROVE  G
    <2>1. items'[i] = row /\ \A j \in Items \ {i} : items'[j] = items[j]
      BY <1>0, <1>3
    <2>2. ItemsType'
      BY <1>0, <1>3 DEF ItemsType
    <2>3. \A j \in Items : Move(j)
      BY <1>3, <2>1 DEF Move
    <2> QED BY <1>3, <2>2, <2>3 DEF BatchMoves
  <1>4. ASSUME NEW q \in Requests, Generate(q) PROVE G
    <2> DEFINE b == requests[q].batch
               row == [status |-> "created", from |-> Nil, bound |-> FALSE, scanned |-> FALSE]
    <2>1. b \in Batches /\ requests[q] # Idle
      BY <1>4 DEF Generate, CodesType, Idle
    <2>2. \A i \in ItemsOf[b] : items[i] = NoItem
      BY <2>1 DEF Pending
    <2>3. row \in Row /\ row.status = "created" /\ row.from = Nil /\ ~row.bound
      BY DEF Row, OrNil
    <2>4. \A i \in Items : items'[i] = IF i \in ItemsOf[b] THEN row ELSE items[i]
      BY <1>4 DEF Generate
    <2>5. ItemsType'
      BY <1>0, <1>4, <2>3 DEF Generate, ItemsType
    <2>6. /\ batches'[b].status = "completed" /\ \A c \in Batches \ {b} : batches'[c] = batches[c]
          /\ UNCHANGED recalled
      BY <1>0, <1>4, <2>1 DEF Generate
    <2>7. batches[b].status = "absent"
      BY <2>1 DEF Pending
    <2> HIDE DEF row, b
    <2>8. \A i \in Items : Move(i)
      <3>1. ASSUME NEW i \in Items, i \in ItemsOf[b] PROVE Move(i)
        BY <2>1, <2>2, <2>3, <2>4, <2>6, <2>7, <3>1, BatchOfOne DEF Move
      <3>2. ASSUME NEW i \in Items, i \notin ItemsOf[b] PROVE Move(i)
        BY <2>4, <2>6, <3>2 DEF Move
      <3> QED BY <3>1, <3>2
    <2> QED BY <2>5, <2>6, <2>7, <2>8 DEF BatchMoves
  <1>5. ASSUME NEW b \in Batches, Activate(b) PROVE G
    <2>1. /\ \A c \in Batches : batches'[c].status =
               IF c = b THEN "activated" ELSE batches[c].status
          /\ UNCHANGED recalled /\ Source[b] \notin recalled
      BY <1>0, <1>5 DEF Activate, May, Operational
    <2>2. \A i \in ItemsOf[b] : i \in Items /\ items[i] \in Row /\ items[i].status = "created"
      BY <1>0, <1>5 DEF Activate, Sound
    <2>3. \A i \in ItemsOf[b] : [items[i] EXCEPT !.status = "activated"] \in Row
            /\ [items[i] EXCEPT !.status = "activated"].status = "activated"
            /\ [items[i] EXCEPT !.status = "activated"].from = items[i].from
            /\ [items[i] EXCEPT !.status = "activated"].bound = items[i].bound
      BY <2>2 DEF Row, Live
    <2>4. \A i \in Items : items'[i] =
            IF i \in ItemsOf[b] THEN [items[i] EXCEPT !.status = "activated"] ELSE items[i]
      BY <1>5 DEF Activate
    <2>5. ItemsType'
      <3>1. \A i \in Items : items'[i] \in {NoItem} \cup Row
        BY <1>0, <2>3, <2>4
      <3>2. items' = [i \in Items |-> items'[i]]
        BY <1>5 DEF Activate
      <3> QED BY <3>1, <3>2 DEF ItemsType
    <2>6. \A i \in ItemsOf[b] : /\ items'[i].status = "activated"
                                /\ items'[i].from = items[i].from /\ items'[i].bound = items[i].bound
      <3> TAKE i \in ItemsOf[b]
      <3>1. i \in Items /\ items'[i] = [items[i] EXCEPT !.status = "activated"]
        BY <2>2, <2>4
      <3> QED BY <2>3, <3>1
    <2>7. ASSUME NEW i \in Items PROVE Move(i)
      <3>1. CASE i \in ItemsOf[b]
        <4>1. BatchOf(i) = b
          BY <3>1, BatchOfOne
        <4> QED BY <1>0, <2>1, <2>2, <2>6, <3>1, <4>1 DEF Move
      <3>2. CASE i \notin ItemsOf[b]
        BY <2>1, <2>4, <3>2 DEF Move
      <3> QED BY <3>1, <3>2
    <2> QED BY <2>1, <2>5, <2>6, <2>7 DEF BatchMoves
  <1>6. ASSUME NEW i \in Items, Bind(i) PROVE G
    <2> DEFINE row == [items[i] EXCEPT !.status = "bound", !.bound = TRUE]
    <2>1. items[i] \in Row /\ items[i].status = "activated"
      BY <1>0, <1>6 DEF Bind
    <2>2. row \in Row /\ row.status = "bound" /\ row.from = items[i].from
      BY <2>1 DEF Row, Live
    <2>3. /\ items' = [items EXCEPT ![i] = row] /\ UNCHANGED <<recalled, batches>>
          /\ batches[BatchOf(i)].status = "activated" /\ Source[BatchOf(i)] \notin recalled
      BY <1>6 DEF Bind, Operational
    <2> HIDE DEF row
    <2>4. items'[i] = row => Move(i)
      BY <1>0, <2>1, <2>2, <2>3 DEF Move
    <2> QED BY <1>3, <2>1, <2>2, <2>3, <2>4
  <1>7. ASSUME NEW i \in Items, Freeze(i) PROVE G
    <2>1. /\ items' = [items EXCEPT ![i] = Frozen(items[i])] /\ items[i].status \in Live
          /\ UNCHANGED <<recalled, batches>>
      BY <1>7 DEF Freeze
    <2>2. /\ {i} \in SUBSET Items
          /\ \A j \in {i} : items'[j] = Frozen(items[j]) /\ items[j].status \in Live
          /\ \A j \in Items \ {i} : items'[j] = items[j]
          /\ items' = [j \in Items |-> items'[j]]
      BY <1>0, <2>1
    <2> QED BY <1>1, <2>1, <2>2
  <1>8. ASSUME NEW i \in Items, Recover(i) PROVE G
    <2> DEFINE row == [items[i] EXCEPT !.status = items[i].from, !.from = Nil]
    <2>1. items[i] \in Row /\ items[i].status = "frozen"
      BY <1>0, <1>8 DEF Recover
    <2>2. row.status = items[i].from /\ row.from = Nil /\ row.bound = items[i].bound
      BY <2>1 DEF Row
    <2>3. /\ items' = [items EXCEPT ![i] = row] /\ UNCHANGED <<recalled, batches>>
          /\ items[i].from \in Live => Source[BatchOf(i)] \notin recalled
      BY <1>8 DEF Recover, GuardItemProduction, Operational
    <2>4. items[i].from \in Live
      BY <1>0, <2>1 DEF HistoryIsKept, Row, OrNil
    <2>5. row \in Row
      BY <2>1, <2>4 DEF Row, OrNil
    <2> HIDE DEF row
    <2>6. items'[i] = row => Move(i)
      BY <1>0, <2>1, <2>2, <2>3 DEF Move
    <2> QED BY <1>3, <2>1, <2>3, <2>5, <2>6
  <1>9. ASSUME NEW i \in Items, Void(i) PROVE G
    <2>1. /\ items' = [items EXCEPT ![i] = Voided(items[i])] /\ items[i] # NoItem
          /\ UNCHANGED <<recalled, batches>>
      BY <1>9 DEF Void, Free
    <2>2. /\ {i} \in SUBSET Items
          /\ \A j \in {i} : items'[j] = Voided(items[j]) /\ items[j].status # "absent"
          /\ \A j \in Items \ {i} : items'[j] = items[j]
          /\ items' = [j \in Items |-> items'[j]]
      BY <1>0, <2>1
    <2> QED BY <1>2, <2>1, <2>2
  <1>10. ASSUME NEW i \in Items, FirstScan(i) PROVE G
    <2> DEFINE row == [items[i] EXCEPT !.scanned = TRUE]
    <2>1. items[i] \in Row
      BY <1>0, <1>10 DEF FirstScan
    <2>2. /\ row \in Row /\ row.status = items[i].status /\ row.from = items[i].from
          /\ row.bound = items[i].bound
      BY <2>1 DEF Row
    <2>3. items' = [items EXCEPT ![i] = row] /\ UNCHANGED <<recalled, batches>>
      BY <1>10 DEF FirstScan
    <2> HIDE DEF row
    <2>4. items'[i] = row => Move(i)
      BY <1>0, <2>1, <2>2, <2>3 DEF Move
    <2> QED BY <1>3, <2>1, <2>2, <2>3, <2>4
  <1>11. ASSUME NEW b \in Batches, FreezeBatch(b) PROVE G
    <2> DEFINE S == {i \in ItemsOf[b] : items[i].status \in Live}
    <2>1. /\ items' = [i \in Items |-> IF i \in S THEN Frozen(items[i]) ELSE items[i]]
          /\ UNCHANGED <<recalled, batches>> /\ S \in SUBSET Items
      BY <1>11 DEF FreezeBatch, Sound
    <2>2. \A i \in S : items[i].status \in Live
      OBVIOUS
    <2> HIDE DEF S
    <2> QED BY <1>1, <2>1, <2>2
  <1>12. ASSUME NEW b \in Batches, VoidBatch(b) PROVE G
    <2> DEFINE S == {i \in ItemsOf[b] : items[i].status \notin {"absent", "revoked"}}
    <2>1. /\ items' = [i \in Items |-> IF i \in S THEN Voided(items[i]) ELSE items[i]]
          /\ UNCHANGED <<recalled, batches>> /\ S \in SUBSET Items
      BY <1>12 DEF VoidBatch, Sound
    <2>2. \A i \in S : items[i].status # "absent"
      OBVIOUS
    <2> HIDE DEF S
    <2> QED BY <1>2, <2>1, <2>2
  <1>13. ASSUME NEW p \in Productions, Recall(p) PROVE G
    <2> DEFINE S == {i \in Items : items[i].status \in Live /\ Source[BatchOf(i)] = p}
    <2>1. /\ items' = [i \in Items |-> IF i \in S THEN Frozen(items[i]) ELSE items[i]]
          /\ recalled' = recalled \cup {p} /\ UNCHANGED batches
      BY <1>13 DEF Recall
    <2>2. ASSUME NEW i \in S
          PROVE  /\ items[i] \in Row /\ items[i].status \in Live
                 /\ items'[i] \in Row /\ items'[i].status = "frozen"
                 /\ items'[i].from = items[i].status /\ items'[i].bound = items[i].bound
      <3>1. i \in Items /\ items[i] \in Row /\ items[i].status \in Live
        BY <1>0 DEF Live
      <3> QED BY <2>1, <3>1, RowsType
    <2>3. \A i \in Items \ S :
            items'[i] = items[i] /\ (items[i].status \in Live => Source[BatchOf(i)] # p)
      BY <2>1
    <2>4. items' = [i \in Items |-> items'[i]] /\ S \subseteq Items
      BY <2>1
    <2> HIDE DEF S
    <2>5. ItemsType'
      BY <1>0, <2>2, <2>3, <2>4 DEF ItemsType
    <2>6. \A i \in Items : Move(i)
      BY <1>0, <2>1, <2>2, <2>3 DEF Move
    <2> QED BY <2>1, <2>5, <2>6 DEF BatchMoves
  <1> QED BY <1>4, <1>5, <1>6, <1>7, <1>8, <1>9, <1>10, <1>11, <1>12, <1>13 DEF ItemStep

\* The others touch no code, recall nothing, and take no batch live or out of it.
LEMMA Others ==
  ASSUME CodesType, OtherStep \/ UNCHANGED vars
  PROVE  /\ UNCHANGED <<items, recalled, usage, receipts>> /\ BatchMoves
         /\ \A b \in Batches : batches[b].status = "absent" <=> batches'[b].status = "absent"
         /\ \A b \in Batches : batches'[b].status \in Statuses /\ batches'[b].key = batches[b].key
         /\ batches' = [b \in Batches |-> batches'[b]] /\ BatchRows'
  <1> DEFINE G == /\ UNCHANGED <<items, recalled, usage, receipts>> /\ BatchMoves
                  /\ \A b \in Batches : batches[b].status = "absent" <=> batches'[b].status = "absent"
                  /\ \A b \in Batches : /\ batches'[b].status \in Statuses
                                        /\ batches'[b].key = batches[b].key
                  /\ batches' = [b \in Batches |-> batches'[b]] /\ BatchRows'
  <1>0. /\ \A b \in Batches : batches[b].status \in Statuses
        /\ batches = [b \in Batches |-> batches[b]]
    BY DEF CodesType
  <1>1. ASSUME UNCHANGED <<batches, items, recalled, usage, receipts>> PROVE G
    BY <1>0, <1>1 DEF BatchMoves, CodesType, BatchRows
  <1>2. ASSUME NEW b \in Batches, NEW x \in BOOLEAN,
               MarkPrinting(b) \/ MarkDelivered(b) \/ Export(b, x)
        PROVE  G
    <2>1. PICK s, m :
            /\ s \in Statuses /\ batches[b].status \notin {"absent", "activated"} /\ s \notin {"absent", "activated"}
            /\ batches' = [batches EXCEPT ![b] =
                 [status |-> s, key |-> batches[b].key, manifest |-> m]]
            /\ UNCHANGED <<items, recalled, usage, receipts>>
      <3>1. CASE MarkPrinting(b)
        <4>1. batches[b].status = "exported" /\ UNCHANGED <<items, recalled, usage, receipts>>
          BY <3>1 DEF MarkPrinting, May
        <4>2. [batches[b] EXCEPT !.status = "printing"] =
                [status |-> "printing", key |-> batches[b].key, manifest |-> batches[b].manifest]
          BY <4>1 DEF CodesType, BatchRows
        <4>3. batches' = [batches EXCEPT ![b] = [batches[b] EXCEPT !.status = "printing"]]
          BY <3>1 DEF MarkPrinting
        <4> QED BY <4>1, <4>2, <4>3 DEF Statuses
      <3>2. CASE MarkDelivered(b)
        <4>1. batches[b].status = "printing" /\ UNCHANGED <<items, recalled, usage, receipts>>
          BY <3>2 DEF MarkDelivered, May
        <4>2. [batches[b] EXCEPT !.status = "delivered"] =
                [status |-> "delivered", key |-> batches[b].key, manifest |-> batches[b].manifest]
          BY <4>1 DEF CodesType, BatchRows
        <4>3. batches' = [batches EXCEPT ![b] = [batches[b] EXCEPT !.status = "delivered"]]
          BY <3>2 DEF MarkDelivered
        <4> QED BY <4>1, <4>2, <4>3 DEF Statuses
      <3>3. CASE Export(b, x)
        <4>1. batches[b].status = "completed" /\ UNCHANGED <<items, recalled, usage, receipts>>
          BY <3>3 DEF Export, Exportable, May
        <4>2. batches' = [batches EXCEPT ![b] =
                [status |-> "exported", key |-> batches[b].key, manifest |-> Deliverable(b)]]
          BY <3>3 DEF Export
        <4> DEFINE new == "exported"
        <4>3. /\ new \in Statuses /\ new \notin {"absent", "activated"}
              /\ batches[b].status \notin {"absent", "activated"}
          BY <4>1 DEF Statuses
        <4>4. batches' = [batches EXCEPT ![b] =
                [status |-> new, key |-> batches[b].key, manifest |-> Deliverable(b)]]
          BY <4>2
        <4> HIDE DEF new
        <4> QED BY <4>1, <4>3, <4>4
      <3> QED BY <1>2, <3>1, <3>2, <3>3
    <2>2. /\ batches'[b].status = s /\ batches'[b].key = batches[b].key
          /\ \A c \in Batches \ {b} : batches'[c] = batches[c]
          /\ batches' = [c \in Batches |-> batches'[c]]
          /\ batches'[b] = [status |-> s, key |-> batches[b].key, manifest |-> m]
      BY <1>0, <2>1
    <2>3. BatchRows'
      BY <2>2 DEF CodesType, BatchRows
    <2> QED BY <1>0, <2>1, <2>2, <2>3 DEF BatchMoves
  <1>3. CASE NextDay
    BY <1>1, <1>3 DEF NextDay
  <1> QED BY <1>1, <1>2, <1>3 DEF OtherStep, vars, Claim, Reserve, RollBack

\* What stays of the bookkeeping when no batch is generated.
LEMMA OtherItemSteps ==
  ASSUME Sound, CodesType, ItemStep, \A q \in Requests : ~Generate(q)
  PROVE  /\ UNCHANGED <<usage, receipts, requests>>
         /\ \A b \in Batches : /\ batches[b].status = "absent" <=> batches'[b].status = "absent"
                               /\ batches'[b].status \in Statuses
                               /\ batches'[b].key = batches[b].key
         /\ batches' = [b \in Batches |-> batches'[b]] /\ BatchRows'
  <1> DEFINE G == /\ UNCHANGED <<usage, receipts, requests>>
                  /\ \A b \in Batches :
                       /\ batches[b].status = "absent" <=> batches'[b].status = "absent"
                       /\ batches'[b].status \in Statuses
                       /\ batches'[b].key = batches[b].key
                  /\ batches' = [b \in Batches |-> batches'[b]] /\ BatchRows'
  <1>0. /\ \A b \in Batches : batches[b].status \in Statuses
        /\ batches = [b \in Batches |-> batches[b]] /\ BatchRows
    BY DEF CodesType
  <1>1. ASSUME UNCHANGED <<batches, usage, receipts, requests>> PROVE G
    BY <1>0, <1>1 DEF BatchRows
  <1>2. ASSUME NEW b \in Batches, Activate(b) PROVE G
    <2>1. batches[b].status = "delivered"
      BY <1>2 DEF Activate, May
    <2>2. [batches[b] EXCEPT !.status = "activated"] =
            [status |-> "activated", key |-> batches[b].key, manifest |-> batches[b].manifest]
      BY <1>0, <2>1 DEF BatchRows
    <2>3. /\ batches' = [batches EXCEPT ![b] = [batches[b] EXCEPT !.status = "activated"]]
          /\ UNCHANGED <<usage, receipts, requests>>
      BY <1>2 DEF Activate
    <2>4. /\ \A c \in Batches \ {b} : batches'[c] = batches[c]
          /\ batches'[b] = [status |-> "activated", key |-> batches[b].key,
                            manifest |-> batches[b].manifest]
          /\ batches' = [c \in Batches |-> batches'[c]]
      BY <1>0, <2>2, <2>3
    <2>5. BatchRows'
      BY <1>0, <2>4 DEF BatchRows
    <2>6. batches'[b].status = "activated" /\ batches'[b].key = batches[b].key
      BY <2>4
    <2>7. \A c \in Batches : /\ batches[c].status = "absent" <=> batches'[c].status = "absent"
                             /\ batches'[c].status \in Statuses
                             /\ batches'[c].key = batches[c].key
      BY <1>0, <2>1, <2>4, <2>6 DEF Statuses
    <2> QED BY <2>3, <2>4, <2>5, <2>7
  <1>3. ASSUME NEW b \in Batches, FreezeBatch(b) \/ VoidBatch(b) PROVE G
    BY <1>1, <1>3 DEF FreezeBatch, VoidBatch
  <1>4. ASSUME NEW i \in Items, Bind(i) \/ Freeze(i) \/ Recover(i) \/ Void(i) \/ FirstScan(i) PROVE G
    BY <1>1, <1>4 DEF Bind, Freeze, Recover, Void, FirstScan
  <1>5. ASSUME NEW p \in Productions, Recall(p) PROVE G
    BY <1>1, <1>5 DEF Recall
  <1> QED BY <1>2, <1>3, <1>4, <1>5 DEF ItemStep

\* What one generation writes.
LEMMA GenerateWrites ==
  ASSUME Sound, CodesType, Pending, NEW q \in Requests, Generate(q)
  PROVE  LET b == requests[q].batch
             k == requests[q].key
         IN /\ b \in Batches /\ k \in Keys /\ requests[q] # Idle /\ requests[q].pc = "locked"
            /\ batches'[b] = [status |-> "completed", key |-> k, manifest |-> Nil]
            /\ \A c \in Batches \ {b} : batches'[c] = batches[c]
            /\ batches' = [c \in Batches |-> batches'[c]]
            /\ \A i \in ItemsOf[b] : i \in Items /\ items[i] = NoItem /\ items'[i] # NoItem
            /\ \A i \in Items \ ItemsOf[b] : items'[i] = items[i]
            /\ usage' = usage + Cardinality(ItemsOf[b]) /\ Cardinality(ItemsOf[b]) \in Nat
            /\ receipts' = [receipts EXCEPT ![k] = b]
            /\ requests' = [requests EXCEPT ![q] = Idle]
  <1> DEFINE b == requests[q].batch
             k == requests[q].key
             new == [status |-> "created", from |-> Nil, bound |-> FALSE, scanned |-> FALSE]
  <1>1. b \in Batches /\ k \in Keys /\ requests[q] # Idle /\ requests[q].pc = "locked"
    BY DEF Generate, CodesType, Idle
  <1>2. /\ batches' = [batches EXCEPT ![b] =
                         [status |-> "completed", key |-> k, manifest |-> Nil]]
        /\ \A i \in Items : items'[i] = IF i \in ItemsOf[b] THEN new ELSE items[i]
        /\ usage' = usage + Cardinality(ItemsOf[b])
        /\ receipts' = [receipts EXCEPT ![k] = b]
        /\ requests' = [requests EXCEPT ![q] = Idle]
    BY DEF Generate
  <1>3. new # NoItem
    BY DEF NoItem
  <1>4. \A i \in ItemsOf[b] : i \in Items /\ items[i] = NoItem
    BY <1>1 DEF Pending, Sound
  <1>5. Cardinality(ItemsOf[b]) \in Nat
    BY <1>1, FS_CardinalityType DEF Sound
  <1>6. batches = [c \in Batches |-> batches[c]]
    BY DEF CodesType
  <1> HIDE DEF new, b, k
  <1>7. /\ batches'[b] = [status |-> "completed", key |-> k, manifest |-> Nil]
        /\ \A c \in Batches \ {b} : batches'[c] = batches[c]
        /\ batches' = [c \in Batches |-> batches'[c]]
    BY <1>1, <1>2, <1>6
  <1>8. /\ \A i \in ItemsOf[b] : i \in Items /\ items[i] = NoItem /\ items'[i] # NoItem
        /\ \A i \in Items \ ItemsOf[b] : items'[i] = items[i]
    BY <1>2, <1>3, <1>4
  <1> QED BY <1>1, <1>2, <1>5, <1>7, <1>8 DEF b, k
-----------------------------------------------------------------------------
(* The invariant is kept                                                   *)

\* No code of a recalled production batch becomes live again, whichever way it moves.
LEMMA QuietStep ==
  ASSUME Sound, CodesType, RecalledIsQuiet, HistoryIsKept,
         \A i \in Items : Move(i)
  PROVE  RecalledIsQuiet'
  <1> SUFFICES ASSUME NEW i \in Items, items'[i].status \in Live
               PROVE  Source[BatchOf(i)] \notin recalled'
    BY DEF RecalledIsQuiet, Live, BatchOf
  <1>1. Move(i) /\ (items[i].status \in Live => Source[BatchOf(i)] \notin recalled)
    BY DEF RecalledIsQuiet
  <1> QED BY <1>1 DEF Move, Live, NoItem

\* The status of a code, what it returns to and what its batch is stay in step.
LEMMA HistoryStep ==
  ASSUME Sound, CodesType, Unbound, HistoryIsKept, BatchMoves,
         \A i \in Items : Move(i)
  PROVE  HistoryIsKept' /\ Unbound'
  <1> DEFINE H(row, status) ==
        /\ row.bound => "activated" \notin {row.status, row.from}
        /\ row.from # Nil <=> row.status = "frozen"
        /\ row.status \in Live \cup {"frozen"} => status = "activated"
        /\ status = "activated" => row.status # "created"
  <1>1. ASSUME NEW i \in Items, items'[i] # NoItem
        PROVE  H(items'[i], batches'[BatchOf(i)].status)
               /\ (items'[i].status = "created" => ~items'[i].bound)
    <2> DEFINE row == items[i]
               new == items'[i]
               b == BatchOf(i)
    <2>1. b \in Batches /\ i \in ItemsOf[b]
      BY BatchOfOne
    <2>2. row = NoItem \/ (row \in Row /\ H(row, batches[b].status)
                             /\ (row.status = "created" => ~row.bound))
      BY DEF CodesType, ItemsType, HistoryIsKept, Unbound
    <2>3. /\ batches[b].status = "activated" => batches'[b].status = "activated"
          /\ batches'[b].status = "activated" /\ batches[b].status # "activated" =>
               new.status # "created"
      BY <2>1 DEF BatchMoves
    <2>4. Nil \notin Live /\ Move(i)
      BY DEF Sound
    <2> QED BY <1>1, <2>2, <2>3, <2>4 DEF Move, Row, OrNil, Live, NoItem
  <1> HIDE DEF H
  <1>2. HistoryIsKept'
    BY <1>1 DEF HistoryIsKept, H, Live, BatchOf
  <1> QED BY <1>1, <1>2 DEF Unbound

\* A code that was written is never unwritten, and written only with its batch.
LEMMA Kept ==
  ASSUME Sound, CodesType, HistoryIsKept, \A i \in Items : Move(i)
  PROVE  \A i \in Items : items[i] # NoItem => items'[i] # NoItem
  <1> SUFFICES ASSUME NEW i \in Items, items[i] # NoItem PROVE items'[i] # NoItem
    OBVIOUS
  <1>1. items[i] \in Row /\ Move(i)
    BY DEF CodesType, ItemsType
  <1>2. items[i].status = "frozen" => items[i].from # Nil
    BY DEF HistoryIsKept
  <1>3. items'[i].status # "absent"
    BY <1>1, <1>2 DEF Move, Row, OrNil, Live, NoItem
  <1> QED BY <1>3 DEF NoItem

\* The types, the pending generations and the count, over a generation.
LEMMA GenerateKeeps ==
  ASSUME Sound, CodesType, ItemsType', Pending, Counted, NEW q \in Requests, Generate(q)
  PROVE  CodesType' /\ Pending' /\ Counted'
  <1> DEFINE b == requests[q].batch
             k == requests[q].key
             n == Cardinality(ItemsOf[b])
  <1>1. /\ b \in Batches /\ k \in Keys /\ requests[q] # Idle /\ requests[q].pc = "locked"
        /\ batches'[b] = [status |-> "completed", key |-> k, manifest |-> Nil]
        /\ \A c \in Batches \ {b} : batches'[c] = batches[c]
        /\ batches' = [c \in Batches |-> batches'[c]]
        /\ \A i \in ItemsOf[b] : i \in Items /\ items[i] = NoItem /\ items'[i] # NoItem
        /\ \A i \in Items \ ItemsOf[b] : items'[i] = items[i]
        /\ usage' = usage + n /\ n \in Nat
        /\ receipts' = [receipts EXCEPT ![k] = b]
        /\ requests' = [requests EXCEPT ![q] = Idle]
    BY GenerateWrites
  <1>2. /\ usage + n <= MaxCodes /\ \A r \in Requests \ {q} : requests[r].pc # "locked"
        /\ receipts[k] = Nil /\ batches[b].status = "absent"
        /\ \A r \in Requests \ {q} : requests[r] # Idle => requests[r].batch # b /\ requests[r].key # k
    BY <1>1 DEF Pending
  <1>3. /\ \A r \in Requests \ {q} : requests'[r] = requests[r]
        /\ requests'[q] = Idle
        /\ receipts'[k] = b /\ \A j \in Keys \ {k} : receipts'[j] = receipts[j]
    BY <1>1 DEF CodesType
  <1>4. /\ batches'[b].status = "completed" /\ batches'[b].key = k
        /\ batches'[b] = [status |-> batches'[b].status, key |-> batches'[b].key,
                          manifest |-> batches'[b].manifest]
    BY <1>1
  <1>5. /\ ItemsOf[b] \subseteq Items /\ IsFiniteSet(ItemsOf[b])
        /\ \A c \in Batches \ {b} : ItemsOf[b] \cap ItemsOf[c] = {}
        /\ \A c \in Batches : ItemsOf[c] \subseteq Items
    BY <1>1 DEF Sound
  <1> HIDE DEF b, k, n
  <1>6. CodesType'
    <2>1. usage' \in Nat
      BY <1>1 DEF CodesType
    <2>2. \A c \in Batches : batches'[c].status \in Statuses
      BY <1>1, <1>4 DEF CodesType, Statuses
    <2>3. \A c \in Batches : batches'[c].status # "absent" => batches'[c].key \in Keys
      BY <1>1, <1>4 DEF CodesType
    <2>4. BatchRows'
      BY <1>1, <1>4 DEF CodesType, BatchRows
    <2>5. receipts' \in [Keys -> OrNil(Batches)]
      BY <1>1 DEF CodesType, OrNil
    <2>6. requests' \in [Requests -> {Idle} \cup
                     [pc : {"claimed", "locked"}, key : Keys, batch : Batches]]
      BY <1>1 DEF CodesType
    <2> QED BY <1>1, <2>1, <2>2, <2>3, <2>4, <2>5, <2>6 DEF CodesType
  <1>7. Pending'
    <2>1. \A r, t \in Requests : requests'[r] # Idle /\ requests'[t] # Idle /\ r # t =>
            requests'[r].batch # requests'[t].batch /\ requests'[r].key # requests'[t].key
      BY <1>3 DEF Pending
    <2>2. ASSUME NEW r \in Requests, requests'[r] # Idle
          PROVE  /\ batches'[requests'[r].batch].status = "absent"
                 /\ receipts'[requests'[r].key] = Nil
                 /\ requests'[r].pc # "locked"
      <3>1. r # q /\ requests'[r] = requests[r] /\ requests[r] # Idle
        BY <1>3, <2>2
      <3>2. requests[r].batch \in Batches \ {b} /\ requests[r].key \in Keys \ {k}
        BY <1>2, <3>1 DEF CodesType
      <3>3. batches[requests[r].batch].status = "absent" /\ receipts[requests[r].key] = Nil
        BY <3>1 DEF Pending
      <3> QED BY <1>1, <1>2, <1>3, <3>1, <3>2, <3>3
    <2>3. ASSUME NEW c \in Batches, batches'[c].status = "absent", NEW i \in ItemsOf[c]
          PROVE  items'[i] = NoItem
      <3>1. c # b /\ batches[c].status = "absent"
        BY <1>1, <1>4, <2>3
      <3>2. items[i] = NoItem /\ i \in Items \ ItemsOf[b]
        BY <1>5, <3>1 DEF Pending
      <3> QED BY <1>1, <3>2
    <2> QED BY <2>1, <2>2, <2>3 DEF Pending
  <1>8. Counted'
    <2>1. Generated' = Generated \cup ItemsOf[b] /\ Generated \cap ItemsOf[b] = {}
      BY <1>1, <1>5 DEF Generated
    <2>2. IsFiniteSet(Generated) /\ usage = Cardinality(Generated)
      BY DEF Counted, GeneratedOnce, Generated
    <2>3. IsFiniteSet(Generated') /\ Cardinality(Generated') = usage + n
      <3>1. Cardinality({}) = 0
        BY FS_EmptySet
      <3>2. /\ IsFiniteSet(Generated \cup ItemsOf[b])
            /\ Cardinality(Generated \cup ItemsOf[b]) =
                 Cardinality(Generated) + Cardinality(ItemsOf[b])
                 - Cardinality(Generated \cap ItemsOf[b])
        BY <1>5, <2>2, FS_Union
      <3>3. usage \in Nat
        BY DEF CodesType
      <3>4. IsFiniteSet(Generated') /\ Cardinality(Generated') = Cardinality(Generated \cup ItemsOf[b])
        BY <2>1, <3>2
      <3>5. Cardinality(Generated \cap ItemsOf[b]) = 0
        BY <2>1, <3>1
      <3>6. n = Cardinality(ItemsOf[b]) /\ n \in Nat
        BY <1>1 DEF n
      <3> QED BY <2>2, <3>2, <3>3, <3>4, <3>5, <3>6
    <2>4. \A c \in Batches : batches'[c].status # "absent" => receipts'[batches'[c].key] = c
      <3>1. ASSUME NEW c \in Batches \ {b}, batches'[c].status # "absent"
            PROVE  receipts'[batches'[c].key] = c
        <4>1. batches'[c] = batches[c] /\ receipts[batches[c].key] = c /\ batches[c].key \in Keys
          BY <1>1, <3>1 DEF Counted, GeneratedOnce, CodesType
        <4>2. batches[c].key # k
          BY <1>2, <4>1 DEF Sound
        <4> QED BY <1>3, <4>1, <4>2
      <3> QED BY <1>3, <1>4, <3>1
    <2>5. usage' = Cardinality(Generated') /\ usage' <= MaxCodes
      BY <1>1, <1>2, <2>3
    <2> QED BY <2>3, <2>4, <2>5 DEF Counted, GeneratedOnce, Generated
  <1> QED BY <1>6, <1>7, <1>8

\* The same over a step that generates nothing, on what it leaves alone.
LEMMA SameKeeps ==
  ASSUME Sound, CodesType, ItemsType', Pending, Counted,
         UNCHANGED <<usage, receipts>>,
         \A b \in Batches : /\ batches[b].status = "absent" <=> batches'[b].status = "absent"
                            /\ batches'[b].status \in Statuses
                            /\ batches'[b].key = batches[b].key,
         batches' = [b \in Batches |-> batches'[b]], BatchRows',
         \A i \in Items : items[i] = NoItem <=> items'[i] = NoItem,
         \/ UNCHANGED requests
         \/ \E q \in Requests, k \in Keys, b \in Batches : Claim(q, k, b)
         \/ \E q \in Requests : Reserve(q) \/ RollBack(q)
  PROVE  CodesType' /\ Pending' /\ Counted'
  <1> DEFINE Types == [pc : {"claimed", "locked"}, key : Keys, batch : Batches]
             R == /\ requests' \in [Requests -> {Idle} \cup Types]
                  /\ \A q, r \in Requests : requests'[q] # Idle /\ requests'[r] # Idle /\ q # r =>
                       requests'[q].batch # requests'[r].batch /\ requests'[q].key # requests'[r].key
                  /\ \A q \in Requests : requests'[q] # Idle =>
                       /\ batches[requests'[q].batch].status = "absent"
                       /\ receipts[requests'[q].key] = Nil
                       /\ requests'[q].pc = "locked" =>
                            /\ usage + Cardinality(ItemsOf[requests'[q].batch]) <= MaxCodes
                            /\ \A r \in Requests \ {q} : requests'[r].pc # "locked"
  <1>1. requests \in [Requests -> {Idle} \cup Types]
    BY DEF CodesType
  <1>2. R
    <2>1. CASE UNCHANGED requests
      BY <1>1, <2>1 DEF Pending
    <2>2. ASSUME NEW q \in Requests, NEW k \in Keys, NEW b \in Batches, Claim(q, k, b) PROVE R
      <3> DEFINE new == [pc |-> "claimed", key |-> k, batch |-> b]
      <3>1. new \in Types /\ new.pc = "claimed" /\ new.key = k /\ new.batch = b
        OBVIOUS
      <3>2. /\ requests' = [requests EXCEPT ![q] = new]
            /\ batches[b].status = "absent" /\ receipts[k] = Nil
            /\ \A r \in Requests : requests[r] # Idle =>
                 requests[r].key # k /\ requests[r].batch # b
        BY <2>2 DEF Claim
      <3> HIDE DEF new, Types
      <3>3. requests'[q] = new /\ \A r \in Requests \ {q} : requests'[r] = requests[r]
        BY <1>1, <3>2
      <3>4. requests' \in [Requests -> {Idle} \cup Types]
        BY <1>1, <3>1, <3>2
      <3> QED BY <3>1, <3>2, <3>3, <3>4 DEF Pending
    <2>3. ASSUME NEW q \in Requests, Reserve(q) PROVE R
      <3> DEFINE new == [requests[q] EXCEPT !.pc = "locked"]
      <3>1. requests[q] # Idle /\ requests[q] \in Types
        BY <1>1, <2>3 DEF Reserve, Idle
      <3>2. /\ new \in Types /\ new.key = requests[q].key /\ new.batch = requests[q].batch
        BY <3>1
      <3>3. /\ requests' = [requests EXCEPT ![q] = new]
            /\ usage + Cardinality(ItemsOf[requests[q].batch]) <= MaxCodes
            /\ \A r \in Requests : requests[r].pc # "locked"
        BY <2>3 DEF Reserve
      <3> HIDE DEF new, Types
      <3>4. requests'[q] = new /\ \A r \in Requests \ {q} : requests'[r] = requests[r]
        BY <1>1, <3>3
      <3>5. requests' \in [Requests -> {Idle} \cup Types]
        BY <1>1, <3>2, <3>3
      <3> QED BY <3>1, <3>2, <3>3, <3>4, <3>5 DEF Pending
    <2>4. ASSUME NEW q \in Requests, RollBack(q) PROVE R
      <3>1. requests' = [requests EXCEPT ![q] = Idle]
        BY <2>4 DEF RollBack
      <3> HIDE DEF Types
      <3>2. requests'[q] = Idle /\ \A r \in Requests \ {q} : requests'[r] = requests[r]
        BY <1>1, <3>1
      <3>3. requests' \in [Requests -> {Idle} \cup Types]
        BY <1>1, <3>1
      <3> QED BY <3>2, <3>3 DEF Pending, Idle
    <2> HIDE DEF R
    <2> QED BY <2>1, <2>2, <2>3, <2>4
  <1> HIDE DEF Types
  <1>3. \A q \in Requests : requests'[q] # Idle => requests'[q].batch \in Batches
    BY <1>2 DEF Types
  <1>4. CodesType'
    BY <1>2 DEF CodesType, Types
  <1>5. Pending'
    <2>1. \A q \in Requests : requests'[q] # Idle => batches'[requests'[q].batch].status = "absent"
      BY <1>2, <1>3
    <2>2. ASSUME NEW c \in Batches, batches'[c].status = "absent", NEW i \in ItemsOf[c]
          PROVE  items'[i] = NoItem
      BY <2>2 DEF Pending, Sound
    <2> QED BY <1>2, <2>1, <2>2 DEF Pending
  <1>6. Counted'
    <2>1. Generated' = Generated
      BY DEF Generated
    <2>2. \A c \in Batches : batches'[c].status # "absent" => receipts'[batches'[c].key] = c
      BY DEF Counted, GeneratedOnce
    <2> QED BY <2>1, <2>2 DEF Counted, GeneratedOnce, Generated
  <1> QED BY <1>4, <1>5, <1>6
-----------------------------------------------------------------------------
(* The theorems                                                            *)

\* Nothing is generated at the start.
LEMMA InvInit ==
  ASSUME Sound, Init
  PROVE  IInv
  <1>1. \A i \in Items : items[i] = NoItem
    BY DEF Init
  <1>2. \A b \in Batches : batches[b].status = "absent"
    BY DEF Init
  <1>3. \A q \in Requests : requests[q] = Idle
    BY DEF Init
  <1>4. CodesType
    BY <1>2 DEF Init, CodesType, ItemsType, Statuses, OrNil, BatchRows
  <1>5. Counted
    <2>1. Generated = {}
      BY <1>1 DEF Generated
    <2>2. IsFiniteSet(Generated) /\ Cardinality(Generated) = 0
      BY <2>1, FS_EmptySet
    <2>3. usage = 0 /\ usage <= MaxCodes
      BY DEF Init, Sound
    <2> QED BY <1>2, <2>2, <2>3 DEF Counted, GeneratedOnce, Generated
  <1>6. Pending
    BY <1>1, <1>3 DEF Pending, Sound
  <1> QED BY <1>1, <1>4, <1>5, <1>6 DEF IInv, Unbound, RecalledIsQuiet, HistoryIsKept, NoItem, Live

\* Every step keeps the invariant.
LEMMA InvStep ==
  ASSUME Sound, IInv, [Next]_vars
  PROVE  IInv'
  <1> USE DEF IInv
  <1>1. ASSUME ItemStep PROVE IInv'
    <2>1. ItemsType' /\ (\A i \in Items : Move(i)) /\ BatchMoves
      BY <1>1, Moves
    <2>2. RecalledIsQuiet' /\ HistoryIsKept' /\ Unbound'
      BY <2>1, QuietStep, HistoryStep
    <2>3. CodesType' /\ Pending' /\ Counted'
      <3>1. CASE \E q \in Requests : Generate(q)
        BY <2>1, <3>1, GenerateKeeps
      <3>2. CASE \A q \in Requests : ~Generate(q)
        <4>1. /\ UNCHANGED <<usage, receipts, requests>>
              /\ \A b \in Batches : /\ batches[b].status = "absent" <=> batches'[b].status = "absent"
                                    /\ batches'[b].status \in Statuses
                                    /\ batches'[b].key = batches[b].key
              /\ batches' = [b \in Batches |-> batches'[b]] /\ BatchRows'
          BY <1>1, <3>2, OtherItemSteps
        <4>2. \A i \in Items : items[i] # NoItem => items'[i] # NoItem
          BY <2>1, Kept
        <4>3. ASSUME NEW i \in Items, items[i] = NoItem PROVE items'[i] = NoItem
          <5>1. Move(i) /\ BatchOf(i) \in Batches
            BY <2>1, BatchOfOne
          <5> QED BY <4>1, <4>3, <5>1 DEF Move
        <4> QED BY <2>1, <4>1, <4>2, <4>3, SameKeeps
      <3> QED BY <3>1, <3>2
    <2> QED BY <2>2, <2>3
  <1>2. ASSUME OtherStep \/ UNCHANGED vars PROVE IInv'
    <2>1. /\ UNCHANGED <<items, recalled, usage, receipts>> /\ BatchMoves
          /\ \A b \in Batches : batches[b].status = "absent" <=> batches'[b].status = "absent"
          /\ \A b \in Batches : batches'[b].status \in Statuses /\ batches'[b].key = batches[b].key
          /\ batches' = [b \in Batches |-> batches'[b]] /\ BatchRows'
      BY <1>2, Others
    <2>2. ItemsType' /\ \A i \in Items : Move(i)
      BY <2>1 DEF CodesType, ItemsType, Move
    <2>3. RecalledIsQuiet' /\ HistoryIsKept' /\ Unbound'
      BY <2>1, <2>2, QuietStep, HistoryStep
    <2>4. \/ UNCHANGED requests
          \/ \E q \in Requests, k \in Keys, b \in Batches : Claim(q, k, b)
          \/ \E q \in Requests : Reserve(q) \/ RollBack(q)
      BY <1>2 DEF OtherStep, vars, NextDay, MarkPrinting, MarkDelivered, Export
    <2>5. CodesType' /\ Pending' /\ Counted'
      BY <2>1, <2>2, <2>4, SameKeeps
    <2> QED BY <2>3, <2>5
  <1> QED BY <1>1, <1>2 DEF Next, ItemStep, OtherStep

\* The invariant.
THEOREM Invariance == ASSUME Sound PROVE Spec => []IInv
  <1>1. Init => IInv
    BY InvInit
  <1>2. IInv /\ [Next]_vars => IInv'
    BY InvStep
  <1> QED BY <1>1, <1>2, PTL DEF Spec

\* recall_production_batch: no code of a recalled production batch is live or becomes so
\* again, whatever was generated, activated, bound or recovered around the recall.
THEOREM RecalledStaysQuiet == ASSUME Sound PROVE Spec => []RecalledIsQuiet
  <1>1. IInv => RecalledIsQuiet
    BY DEF IInv
  <1> QED BY <1>1, Invariance, PTL

\* Freezing, recall and recovery: a code that was bound is never merely activated again,
\* only a frozen one carries a status to return to, and a batch goes live as a whole.
THEOREM HistoryStands == ASSUME Sound PROVE Spec => []HistoryIsKept
  <1>1. IInv => HistoryIsKept
    BY DEF IInv
  <1> QED BY <1>1, Invariance, PTL

\* create_code_batch: the counter is what was generated, within the quota, and one batch
\* is generated under a key however often, and by however many requests, it is asked for.
THEOREM GeneratedOnceHolds == ASSUME Sound PROVE Spec => []GeneratedOnce
  <1>1. IInv => GeneratedOnce
    BY DEF IInv, Counted
  <1> QED BY <1>1, Invariance, PTL

\* The types of the tables, and the calendar beside the invariant.
LEMMA CalendarStep ==
  ASSUME Sound, today \in 0..MaxDay, recalled \subseteq Productions, [Next]_vars
  PROVE  today' \in 0..MaxDay /\ recalled' \subseteq Productions
  <1>1. CASE NextDay
    BY <1>1 DEF NextDay, Sound
  <1>2. ASSUME NEW p \in Productions, Recall(p)
        PROVE  today' \in 0..MaxDay /\ recalled' \subseteq Productions
    BY <1>2 DEF Recall
  <1> QED BY <1>1, <1>2 DEF Next, vars, Claim, Reserve, Generate, RollBack, Export, MarkPrinting,
       MarkDelivered, Activate, FreezeBatch, VoidBatch, Bind, Freeze, Recover, Void, FirstScan

Dated == today \in 0..MaxDay /\ recalled \subseteq Productions

\* Type correctness; the counter of codes never passes the quota.
THEOREM TypeCorrect == ASSUME Sound PROVE Spec => []TypeOK
  <1>1. Init => Dated
    BY DEF Init, Dated, Sound
  <1>2. Dated /\ [Next]_vars => Dated'
    BY CalendarStep DEF Dated
  <1>3. IInv /\ Dated => TypeOK
    BY DEF IInv, Dated, TypeOK, CodesType, ItemsType, Row, Counted, GeneratedOnce, Sound
  <1> QED BY <1>1, <1>2, <1>3, Invariance, PTL DEF Spec
-----------------------------------------------------------------------------
(* The codes implement CodePromise                                         *)

PromiseStep == Promise!Next \/ UNCHANGED <<Codes, receipts, recalled, Expired>>

\* How a row shows.
LEMMA ShownOf ==
  ASSUME Sound
  PROVE  /\ Shown(NoItem) = Promise!None
         /\ \A row \in Row : row.from = Nil =>
              /\ row.status = "created" => Shown(row) = Promise!Code("made", FALSE)
              /\ row.status = "activated" => Shown(row) = Promise!Code("live", FALSE)
              /\ row.status = "bound" => Shown(row) = Promise!Code("live", TRUE)
              /\ row.status = "revoked" => Shown(row) = Promise!Code("void", FALSE)
         /\ \A row \in Row : row.status = "frozen" =>
              /\ row.from = "activated" => Shown(row) = Promise!Code("frozen", FALSE)
              /\ row.from = "bound" => Shown(row) = Promise!Code("frozen", TRUE)
  <1>1. \A row \in Row : row # NoItem
    BY RowsType
  <1>2. Nil # "bound" /\ Nil # "activated"
    BY DEF Sound, Live
  <1>3. Shown(NoItem) = Promise!None
    BY DEF Shown, Promise!None, Promise!Code
  <1>4. ASSUME NEW row \in Row
        PROVE  /\ row.status = "created" => Shown(row).state = "made"
               /\ row.status \in Live => Shown(row).state = "live"
               /\ row.status = "revoked" => Shown(row).state = "void"
               /\ row.status = "frozen" => Shown(row).state = "frozen"
    BY <1>1 DEF Shown, Live
  <1>5. ASSUME NEW row \in Row
        PROVE  /\ "bound" \in {row.status, row.from} => Shown(row).bound = TRUE
               /\ "bound" \notin {row.status, row.from} => Shown(row).bound = FALSE
               /\ Shown(row) = Promise!Code(Shown(row).state, Shown(row).bound)
    <2>1. Shown(row) = [state |-> Shown(row).state, bound |-> "bound" \in {row.status, row.from}]
      BY <1>1 DEF Shown
    <2> DEFINE B == "bound" \in {row.status, row.from}
    <2>2. Shown(row).bound = B
      BY <2>1
    <2>3. Shown(row) = [state |-> Shown(row).state, bound |-> Shown(row).bound]
      BY <2>1, <2>2
    <2>4. B = TRUE \/ B = FALSE
      OBVIOUS
    <2> QED BY <2>2, <2>3, <2>4, Zenon DEF Promise!Code
  <1>6. ASSUME NEW row \in Row, row.from = Nil
        PROVE  /\ row.status = "created" => Shown(row) = Promise!Code("made", FALSE)
               /\ row.status = "activated" => Shown(row) = Promise!Code("live", FALSE)
               /\ row.status = "bound" => Shown(row) = Promise!Code("live", TRUE)
               /\ row.status = "revoked" => Shown(row) = Promise!Code("void", FALSE)
    BY <1>2, <1>4, <1>5, <1>6 DEF Live
  <1>7. ASSUME NEW row \in Row, row.status = "frozen"
        PROVE  /\ row.from = "activated" => Shown(row) = Promise!Code("frozen", FALSE)
               /\ row.from = "bound" => Shown(row) = Promise!Code("frozen", TRUE)
    BY <1>4, <1>5, <1>7
  <1> QED BY <1>3, <1>6, <1>7

\* The states are told apart.
LEMMA Apart ==
  /\ \A state, bound : /\ Promise!Code(state, bound).state = state
                       /\ Promise!Code(state, bound).bound = bound
  /\ Promise!None.state = "none"
  BY DEF Promise!Code, Promise!None

\* A code shows as none, or as the row it has.
Is(i, status, from, state, bound) ==
  /\ items[i] \in Row /\ items[i] # NoItem
  /\ items[i].status = status /\ items[i].from = from
  /\ Codes[i] = Promise!Code(state, bound)
  /\ Codes[i].state = state /\ Codes[i].bound = bound
LEMMA CodeOf ==
  ASSUME Sound, IInv, NEW i \in Items
  PROVE  \/ /\ items[i] = NoItem /\ items[i].status = "absent"
            /\ Codes[i] = Promise!None /\ Codes[i].state = "none"
         \/ Is(i, "created", Nil, "made", FALSE)
         \/ Is(i, "activated", Nil, "live", FALSE)
         \/ Is(i, "bound", Nil, "live", TRUE)
         \/ Is(i, "frozen", "activated", "frozen", FALSE)
         \/ Is(i, "frozen", "bound", "frozen", TRUE)
         \/ Is(i, "revoked", Nil, "void", FALSE)
  <1>1. Codes[i] = Shown(items[i])
    BY DEF Codes
  <1>2. CASE items[i] = NoItem
    <2>1. Codes[i] = Promise!None
      BY <1>1, <1>2, ShownOf
    <2> QED BY <1>2, <2>1, Apart DEF NoItem
  <1>3. CASE items[i] # NoItem
    <2>1. items[i] \in Row /\ (items[i].from # Nil <=> items[i].status = "frozen")
      BY <1>3 DEF IInv, CodesType, ItemsType, HistoryIsKept
    <2>2. /\ items[i].status \in {"created", "frozen", "revoked", "activated", "bound"}
          /\ items[i].from \in {Nil, "activated", "bound"}
      BY <2>1 DEF Row, Live, OrNil
    <2>3. ASSUME NEW status, NEW from, NEW state, NEW bound,
                 items[i].status = status, items[i].from = from,
                 Shown(items[i]) = Promise!Code(state, bound)
          PROVE  Is(i, status, from, state, bound)
      BY <1>1, <1>3, <2>1, <2>3, Apart DEF Is
    <2>4. CASE items[i].status = "created"
      BY <2>1, <2>3, <2>4, ShownOf
    <2>5. CASE items[i].status = "activated"
      BY <2>1, <2>3, <2>5, ShownOf
    <2>6. CASE items[i].status = "bound"
      BY <2>1, <2>3, <2>6, ShownOf
    <2>7. CASE items[i].status = "revoked"
      BY <2>1, <2>3, <2>7, ShownOf
    <2>8. CASE items[i].status = "frozen" /\ items[i].from = "activated"
      BY <2>1, <2>3, <2>8, ShownOf
    <2>9. CASE items[i].status = "frozen" /\ items[i].from = "bound"
      BY <2>1, <2>3, <2>9, ShownOf
    <2> QED BY <2>1, <2>2, <2>4, <2>5, <2>6, <2>7, <2>8, <2>9
  <1> QED BY <1>2, <1>3

\* Codes that are frozen keep whether they are bound.
LEMMA FrozenShows ==
  ASSUME Sound, IInv, NEW S \in SUBSET Items, \A i \in S : items[i].status \in Live,
         items' = [i \in Items |-> IF i \in S THEN Frozen(items[i]) ELSE items[i]]
  PROVE  S \subseteq Promise!Live /\ Promise!Move(S, "frozen")
  <1>1. ASSUME NEW i \in S
        PROVE  /\ Codes[i].state = "live"
               /\ Shown(Frozen(items[i])) = Promise!Code("frozen", Codes[i].bound)
    <2>1. \/ Is(i, "activated", Nil, "live", FALSE)
          \/ Is(i, "bound", Nil, "live", TRUE)
      BY <1>1, CodeOf DEF Live, Is
    <2>2. /\ Frozen(items[i]) \in Row /\ Frozen(items[i]).status = "frozen"
          /\ Frozen(items[i]).from = items[i].status
      BY <1>1, <2>1, RowsType DEF Is
    <2>3. CASE Is(i, "activated", Nil, "live", FALSE)
      BY <2>2, <2>3, ShownOf DEF Is
    <2>4. CASE Is(i, "bound", Nil, "live", TRUE)
      BY <2>2, <2>4, ShownOf DEF Is
    <2> QED BY <2>1, <2>3, <2>4
  <1>2. S \subseteq Promise!Live
    BY <1>1 DEF Promise!Live
  <1>3. \A i \in Items : Shown(items'[i]) =
          IF i \in S THEN Promise!Code("frozen", Codes[i].bound) ELSE Codes[i]
    BY <1>1 DEF Codes
  <1>4. Codes' = [i \in Items |-> Shown(items'[i])]
    BY DEF Codes
  <1> QED BY <1>2, <1>3, <1>4 DEF Promise!Move

\* Codes that are voided are nothing else any more.
LEMMA VoidedShows ==
  ASSUME Sound, IInv, NEW S \in SUBSET Items,
         \A i \in S : items[i].status \notin {"absent", "revoked"},
         items' = [i \in Items |-> IF i \in S THEN Voided(items[i]) ELSE items[i]],
         UNCHANGED <<receipts, recalled, today>>
  PROVE  PromiseStep
  <1>1. ASSUME NEW i \in S
        PROVE  /\ Codes[i].state \notin {"none", "void"}
               /\ Shown(Voided(items[i])) = Promise!Code("void", FALSE)
    <2>1. items[i] \in Row /\ Codes[i].state \notin {"none", "void"}
      BY <1>1, CodeOf DEF Is
    <2>2. /\ Voided(items[i]) \in Row /\ Voided(items[i]).status = "revoked"
          /\ Voided(items[i]).from = Nil
      BY <2>1, RowsType
    <2> QED BY <2>1, <2>2, ShownOf
  <1>2. \A i \in Items : Shown(items'[i]) =
          IF i \in S THEN Promise!Code("void", FALSE) ELSE Codes[i]
    BY <1>1 DEF Codes
  <1>3. Codes' = [i \in Items |-> Shown(items'[i])]
    BY DEF Codes
  <1>4. Promise!Become(S, Promise!Code("void", FALSE))
    BY <1>2, <1>3 DEF Promise!Become
  <1>5. Expired' = Expired
    BY DEF Expired
  <1>6. S \in SUBSET Promise!Standing /\ Promise!Void(S)
    BY <1>1, <1>4, <1>5 DEF Promise!Standing, Promise!Void
  <1> QED BY <1>6 DEF Promise!Next, PromiseStep

\* One code that is written anew.
LEMMA OneShows ==
  ASSUME IInv, NEW i \in Items, NEW row, items' = [items EXCEPT ![i] = row],
         UNCHANGED <<recalled, today>>
  PROVE  /\ Codes' = [j \in Items |-> IF j \in {i} THEN Shown(row) ELSE Codes[j]]
         /\ Expired' = Expired
  <1>1. \A j \in Items : items'[j] = IF j \in {i} THEN row ELSE items[j]
    BY DEF IInv, CodesType, ItemsType
  <1>2. Codes' = [j \in Items |-> Shown(items'[j])]
    BY DEF Codes
  <1>3. \A j \in Items : Codes[j] = Shown(items[j])
    BY DEF Codes
  <1> QED BY <1>1, <1>2, <1>3 DEF Expired

\* Both modules count alike.
LEMMA SameCardinality == \A S : Promise!Cardinality(S) = Cardinality(S)
  BY DEF Cardinality, Promise!Cardinality

\* A batch is generated: its codes, all of them new, under its key and within the quota.
LEMMA GenerateShows ==
  ASSUME Sound, IInv, NEW q \in Requests, Generate(q)
  PROVE  PromiseStep
  <1> DEFINE b == requests[q].batch
             k == requests[q].key
             new == [status |-> "created", from |-> Nil, bound |-> FALSE, scanned |-> FALSE]
  <1>0. CodesType /\ Pending /\ Counted
    BY DEF IInv
  <1>1. /\ b \in Batches /\ k \in Keys /\ requests[q] # Idle /\ requests[q].pc = "locked"
        /\ \A i \in ItemsOf[b] : i \in Items /\ items[i] = NoItem
        /\ receipts' = [receipts EXCEPT ![k] = b]
    BY <1>0, GenerateWrites
  <1>2. /\ \A i \in Items : items'[i] = IF i \in ItemsOf[b] THEN new ELSE items[i]
        /\ Operational(Source[b]) /\ UNCHANGED <<today, recalled>>
    BY DEF Generate
  <1>3. receipts[k] = Nil /\ usage + Cardinality(ItemsOf[b]) <= MaxCodes
    BY <1>0, <1>1 DEF Pending
  <1>4. Shown(new) = Promise!Code("made", FALSE)
    <2>1. new \in Row /\ new.status = "created" /\ new.from = Nil
      BY DEF Row, OrNil
    <2> HIDE DEF new
    <2> QED BY <2>1, ShownOf
  <1> HIDE DEF new, b, k
  <1>5. \A i \in ItemsOf[b] : Codes[i] = Promise!None
    BY <1>1, ShownOf DEF Codes
  <1>6. Promise!Become(ItemsOf[b], Promise!Code("made", FALSE))
    <2>1. \A i \in Items : Shown(items'[i]) =
            IF i \in ItemsOf[b] THEN Promise!Code("made", FALSE) ELSE Codes[i]
      BY <1>2, <1>4 DEF Codes
    <2>2. Codes' = [i \in Items |-> Shown(items'[i])]
      BY DEF Codes
    <2> QED BY <2>1, <2>2 DEF Promise!Become
  <1>7. Cardinality(Promise!Made) = usage
    <2>1. \A i \in Items : Codes[i] # Promise!None <=> items[i] # NoItem
      <3> TAKE i \in Items
      <3>1. \A state, bound : Codes[i] = Promise!Code(state, bound) /\ state # "none" =>
              Codes[i] # Promise!None
        BY Apart
      <3> QED BY <3>1, CodeOf DEF Is
    <2>2. Promise!Made = Generated
      BY <2>1 DEF Promise!Made, Generated
    <2> QED BY <1>0, <2>2 DEF Counted, GeneratedOnce, Generated
  <1>8. Promise!Open(b) /\ Expired' = Expired
    BY <1>2 DEF Operational, Promise!Open, Expired
  <1>9. Promise!Make(k, b)
    <2>1. UNCHANGED <<recalled, Expired>> /\ receipts' = [receipts EXCEPT ![k] = b]
      BY <1>1, <1>2, <1>8
    <2>2. Promise!Cardinality(Promise!Made) + Promise!Cardinality(ItemsOf[b]) <= MaxCodes
      BY <1>3, <1>7, SameCardinality
    <2> QED BY <1>3, <1>5, <1>6, <1>8, <2>1, <2>2 DEF Promise!Make
  <1> QED BY <1>1, <1>9 DEF Promise!Next, PromiseStep

\* A batch goes live, with all its codes.
LEMMA ActivateShows ==
  ASSUME Sound, IInv, NEW b \in Batches, Activate(b)
  PROVE  PromiseStep
  <1>1. /\ \A i \in Items : items'[i] =
             IF i \in ItemsOf[b] THEN [items[i] EXCEPT !.status = "activated"] ELSE items[i]
        /\ \A i \in ItemsOf[b] : items[i].status = "created"
        /\ Operational(Source[b]) /\ UNCHANGED <<today, recalled, receipts>>
    BY DEF Activate, May
  <1>2. ASSUME NEW i \in ItemsOf[b]
        PROVE  /\ Codes[i] = Promise!Code("made", FALSE)
               /\ Shown([items[i] EXCEPT !.status = "activated"]) = Promise!Code("live", FALSE)
    <2>1. /\ items[i] \in Row /\ items[i].from = Nil
          /\ Codes[i] = Promise!Code("made", FALSE)
      <3>1. i \in Items
        BY DEF Sound
      <3> QED BY <1>1, <3>1, CodeOf DEF Is
    <2> DEFINE row == [items[i] EXCEPT !.status = "activated"]
    <2>2. row \in Row /\ row.status = "activated" /\ row.from = Nil
      BY <2>1 DEF Row, Live
    <2> HIDE DEF row
    <2>3. Shown(row) = Promise!Code("live", FALSE)
      BY <2>2, ShownOf
    <2> QED BY <2>1, <2>3 DEF row
  <1>3. Promise!Move(ItemsOf[b], "live")
    <2>1. ASSUME NEW i \in Items
          PROVE  Shown(items'[i]) =
                   IF i \in ItemsOf[b] THEN Promise!Code("live", Codes[i].bound) ELSE Codes[i]
      <3>1. CASE i \in ItemsOf[b]
        <4>1. Codes[i].bound = FALSE
          BY <1>1, <3>1, CodeOf DEF Is
        <4> QED BY <1>1, <1>2, <3>1, <4>1
      <3>2. CASE i \notin ItemsOf[b]
        BY <1>1, <3>2 DEF Codes
      <3> QED BY <3>1, <3>2
    <2>2. Codes' = [i \in Items |-> Shown(items'[i])]
      BY DEF Codes
    <2> QED BY <2>1, <2>2 DEF Promise!Move
  <1>4. Promise!Open(b) /\ Expired' = Expired
    BY <1>1 DEF Operational, Promise!Open, Expired
  <1>5. Promise!GoLive(b)
    BY <1>1, <1>2, <1>3, <1>4 DEF Promise!GoLive
  <1> QED BY <1>5 DEF Promise!Next, PromiseStep

\* A frozen code comes back as what it was, if its production batch is operational.
LEMMA RecoverShows ==
  ASSUME Sound, IInv, NEW i \in Items, Recover(i)
  PROVE  PromiseStep
  <1> DEFINE b == BatchOf(i)
             row == [items[i] EXCEPT !.status = items[i].from, !.from = Nil]
  <1>1. /\ items' = [items EXCEPT ![i] = row] /\ items[i].status = "frozen"
        /\ GuardItemProduction(i, items[i].from)
        /\ UNCHANGED <<today, recalled, receipts>>
    BY DEF Recover
  <1>2. b \in Batches /\ i \in ItemsOf[b]
    BY BatchOfOne
  <1>3. \/ Is(i, "frozen", "activated", "frozen", FALSE)
        \/ Is(i, "frozen", "bound", "frozen", TRUE)
    BY <1>1, CodeOf DEF Is
  <1>4. items[i] \in Row /\ items[i].from \in Live /\ Codes[i].state = "frozen"
    BY <1>3 DEF Is, Live
  <1>5. row \in Row /\ row.status = items[i].from /\ row.from = Nil
    BY <1>4 DEF Row, OrNil, Live
  <1>6. Operational(Source[b])
    BY <1>1, <1>4 DEF GuardItemProduction
  <1> HIDE DEF b, row
  <1>7. Shown(row) = Promise!Code("live", Codes[i].bound)
    <2>1. CASE Is(i, "frozen", "activated", "frozen", FALSE)
      BY <1>5, <2>1, ShownOf DEF Is
    <2>2. CASE Is(i, "frozen", "bound", "frozen", TRUE)
      BY <1>5, <2>2, ShownOf DEF Is
    <2> QED BY <1>3, <2>1, <2>2
  <1>8. /\ Codes' = [j \in Items |-> IF j \in {i} THEN Shown(row) ELSE Codes[j]]
        /\ Expired' = Expired
    BY <1>1, OneShows
  <1>9. Promise!Move({i}, "live")
    BY <1>7, <1>8 DEF Promise!Move
  <1>10. Promise!Open(b)
    BY <1>6 DEF Operational, Promise!Open, Expired
  <1>11. Promise!Thaw(b, i)
    BY <1>1, <1>2, <1>4, <1>8, <1>9, <1>10 DEF Promise!Thaw
  <1> QED BY <1>2, <1>11 DEF Promise!Next, PromiseStep

\* An activated code is bound, if its production batch is operational.
LEMMA BindShows ==
  ASSUME Sound, IInv, NEW i \in Items, Bind(i)
  PROVE  PromiseStep
  <1> DEFINE b == BatchOf(i)
             row == [items[i] EXCEPT !.status = "bound", !.bound = TRUE]
  <1>1. /\ items' = [items EXCEPT ![i] = row] /\ items[i].status = "activated"
        /\ Operational(Source[b]) /\ UNCHANGED <<today, recalled, receipts>>
    BY DEF Bind
  <1>2. b \in Batches /\ i \in ItemsOf[b]
    BY BatchOfOne
  <1>3. Is(i, "activated", Nil, "live", FALSE)
    BY <1>1, CodeOf DEF Is
  <1>4. row \in Row /\ row.status = "bound" /\ row.from = Nil
    BY <1>3 DEF Is, Row, Live
  <1> HIDE DEF b, row
  <1>5. Shown(row) = Promise!Code("live", TRUE)
    BY <1>4, ShownOf
  <1>6. /\ Codes' = [j \in Items |-> IF j \in {i} THEN Shown(row) ELSE Codes[j]]
        /\ Expired' = Expired
    BY <1>1, OneShows
  <1>7. Promise!Become({i}, Promise!Code("live", TRUE))
    BY <1>5, <1>6 DEF Promise!Become
  <1>8. Promise!Open(b)
    BY <1>1 DEF Operational, Promise!Open, Expired
  <1>9. Promise!Bind(b, i)
    BY <1>1, <1>2, <1>3, <1>6, <1>7, <1>8 DEF Promise!Bind, Is
  <1> QED BY <1>2, <1>9 DEF Promise!Next, PromiseStep

\* A recall freezes what is live of its production batch, and nothing else.
LEMMA RecallShows ==
  ASSUME Sound, IInv, NEW p \in Productions, Recall(p)
  PROVE  PromiseStep
  <1> DEFINE S == {i \in Items : items[i].status \in Live /\ Source[BatchOf(i)] = p}
  <1>1. /\ items' = [i \in Items |-> IF i \in S THEN Frozen(items[i]) ELSE items[i]]
        /\ Operational(p) /\ recalled' = recalled \cup {p} /\ UNCHANGED <<today, receipts>>
    BY DEF Recall
  <1>2. S \in SUBSET Items /\ \A i \in S : items[i].status \in Live
    OBVIOUS
  <1>3. ASSUME NEW i \in Items PROVE i \in S <=> i \in Promise!Live \cap Promise!Of(p)
    <2>1. items[i].status \in Live <=> Codes[i].state = "live"
      BY CodeOf DEF Is, Live
    <2>2. Source[BatchOf(i)] = p <=> i \in Promise!Of(p)
      <3>1. /\ BatchOf(i) \in Batches /\ i \in ItemsOf[BatchOf(i)]
            /\ \A c \in Batches : i \in ItemsOf[c] => BatchOf(i) = c
        BY BatchOfOne
      <3> QED BY <3>1 DEF Promise!Of
    <2> QED BY <2>1, <2>2 DEF Promise!Live
  <1>4. S = Promise!Live \cap Promise!Of(p)
    BY <1>2, <1>3 DEF Promise!Live
  <1> HIDE DEF S
  <1>5. Promise!Move(S, "frozen")
    BY <1>1, <1>2, FrozenShows
  <1>6. p \notin recalled /\ ~Expired /\ Expired' = Expired
    BY <1>1 DEF Operational, Expired
  <1>7. Promise!Recall(p)
    BY <1>1, <1>4, <1>5, <1>6 DEF Promise!Recall
  <1> QED BY <1>7 DEF Promise!Next, PromiseStep

\* Every step is a step of the promise, or changes nothing it tells of.
LEMMA CodeNext ==
  ASSUME Sound, IInv, Dated, [Next]_vars
  PROVE  PromiseStep
  <1>1. ASSUME UNCHANGED <<items, receipts, recalled, today>> PROVE PromiseStep
    BY <1>1 DEF PromiseStep, Codes, Expired
  <1>2. ASSUME NEW S \in SUBSET Items, \A i \in S : items[i].status \in Live,
               items' = [i \in Items |-> IF i \in S THEN Frozen(items[i]) ELSE items[i]],
               UNCHANGED <<receipts, recalled, today>>
        PROVE  PromiseStep
    <2>1. S \subseteq Promise!Live /\ Promise!Move(S, "frozen")
      BY <1>2, FrozenShows
    <2>2. Expired' = Expired
      BY <1>2 DEF Expired
    <2>3. S \in SUBSET Promise!Live /\ Promise!Freeze(S)
      BY <1>2, <2>1, <2>2 DEF Promise!Freeze
    <2> QED BY <2>3 DEF Promise!Next, PromiseStep
  <1>3. ASSUME NEW i \in Items, Freeze(i) PROVE PromiseStep
    <2>1. /\ items' = [items EXCEPT ![i] = Frozen(items[i])] /\ items[i].status \in Live
          /\ UNCHANGED <<receipts, recalled, today>>
      BY <1>3 DEF Freeze
    <2>2. items' = [j \in Items |-> IF j \in {i} THEN Frozen(items[j]) ELSE items[j]]
      BY <2>1 DEF IInv, CodesType, ItemsType
    <2>3. {i} \in SUBSET Items /\ \A j \in {i} : items[j].status \in Live
      BY <2>1
    <2> QED BY <1>2, <2>1, <2>2, <2>3
  <1>4. ASSUME NEW b \in Batches, FreezeBatch(b) PROVE PromiseStep
    <2> DEFINE S == {i \in ItemsOf[b] : items[i].status \in Live}
    <2>1. /\ items' = [i \in Items |-> IF i \in S THEN Frozen(items[i]) ELSE items[i]]
          /\ UNCHANGED <<receipts, recalled, today>> /\ S \in SUBSET Items
          /\ \A i \in S : items[i].status \in Live
      BY <1>4 DEF FreezeBatch, Sound
    <2> HIDE DEF S
    <2> QED BY <1>2, <2>1
  <1>5. ASSUME NEW i \in Items, Void(i) PROVE PromiseStep
    <2>1. /\ items' = [items EXCEPT ![i] = Voided(items[i])] /\ items[i] # NoItem
          /\ items[i].status # "revoked" /\ UNCHANGED <<receipts, recalled, today>>
      BY <1>5 DEF Void, Free
    <2>2. items' = [j \in Items |-> IF j \in {i} THEN Voided(items[j]) ELSE items[j]]
      BY <2>1 DEF IInv, CodesType, ItemsType
    <2>3. items[i].status \notin {"absent", "revoked"}
      BY <2>1, CodeOf DEF Is
    <2>4. {i} \in SUBSET Items /\ \A j \in {i} : items[j].status \notin {"absent", "revoked"}
      BY <2>3
    <2> QED BY <2>1, <2>2, <2>4, VoidedShows
  <1>6. ASSUME NEW b \in Batches, VoidBatch(b) PROVE PromiseStep
    <2> DEFINE S == {i \in ItemsOf[b] : items[i].status \notin {"absent", "revoked"}}
    <2>1. /\ items' = [i \in Items |-> IF i \in S THEN Voided(items[i]) ELSE items[i]]
          /\ UNCHANGED <<receipts, recalled, today>> /\ S \in SUBSET Items
          /\ \A i \in S : items[i].status \notin {"absent", "revoked"}
      BY <1>6 DEF VoidBatch, Sound
    <2> HIDE DEF S
    <2> QED BY <2>1, VoidedShows
  <1>7. ASSUME NEW i \in Items, FirstScan(i) PROVE PromiseStep
    <2> DEFINE row == [items[i] EXCEPT !.scanned = TRUE]
    <2>1. items[i] # NoItem /\ items' = [items EXCEPT ![i] = row]
          /\ UNCHANGED <<receipts, recalled, today>>
      BY <1>7 DEF FirstScan
    <2>2. items[i] \in Row
      BY <2>1 DEF IInv, CodesType, ItemsType
    <2>3. row \in Row /\ row.status = items[i].status /\ row.from = items[i].from
      BY <2>2 DEF Row
    <2> HIDE DEF row
    <2>4. Shown(row) = Codes[i]
      BY <2>1, <2>3, CodeOf, ShownOf DEF Is
    <2>5. Codes' = [j \in Items |-> IF j \in {i} THEN Shown(row) ELSE Codes[j]]
          /\ Expired' = Expired
      BY <2>1, OneShows
    <2>6. Codes' = Codes
      BY <2>4, <2>5 DEF Codes
    <2> QED BY <2>1, <2>5, <2>6 DEF PromiseStep
  <1>8. CASE NextDay
    <2>1. today \in Nat /\ today' = today + 1 /\ UNCHANGED <<items, receipts, recalled>>
      BY <1>8 DEF NextDay, Dated, Sound
    <2>2. Expired' = TRUE /\ Codes' = Codes
      BY <2>1 DEF Expired, Codes
    <2>3. CASE Expired
      <3>1. Expired' = Expired
        BY <2>2, <2>3, Zenon DEF Expired
      <3> QED BY <2>1, <2>2, <3>1 DEF PromiseStep
    <2>4. CASE ~Expired
      <3>1. Promise!Expire
        BY <2>1, <2>2, <2>4 DEF Promise!Expire
      <3> QED BY <3>1 DEF Promise!Next, PromiseStep
    <2> QED BY <2>3, <2>4
  <1>9. ASSUME OtherStep, ~NextDay PROVE PromiseStep
    BY <1>1, <1>9 DEF OtherStep, Claim, Reserve, RollBack, MarkPrinting, MarkDelivered, Export
  <1>10. ASSUME ItemStep PROVE PromiseStep
    BY <1>3, <1>4, <1>5, <1>6, <1>7, <1>10, GenerateShows, ActivateShows, RecoverShows,
       BindShows, RecallShows DEF ItemStep
  <1>11. CASE UNCHANGED vars
    BY <1>1, <1>11 DEF vars
  <1> QED BY <1>8, <1>9, <1>10, <1>11 DEF Next, ItemStep, OtherStep

\* The codes keep CodePromise: made once under a key, whole batches and within the quota,
\* live as a batch, back from any freeze as what they were, silent from the recall of
\* their production batch on, whatever requests and managers do beside one another.
THEOREM ImplementsCodes == ASSUME Sound PROVE Spec => CodeSpec
  <1>1. Init => Promise!Init
    BY ShownOf DEF Init, Promise!Init, Codes, Expired
  <1>2. IInv /\ Dated /\ [Next]_vars => PromiseStep
    BY CodeNext
  <1>3. Init => Dated
    BY DEF Init, Dated, Sound
  <1>4. Dated /\ [Next]_vars => Dated'
    BY CalendarStep DEF Dated
  <1> QED BY <1>1, <1>2, <1>3, <1>4, Invariance, PTL
      DEF Spec, CodeSpec, Promise!Spec, PromiseStep
=============================================================================

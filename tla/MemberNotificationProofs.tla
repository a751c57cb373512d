----------------------- MODULE MemberNotificationProofs -----------------------
(***************************************************************************)
(* Proofs about MemberNotification, for every set of members, consents,    *)
(* authorisations, workers and source events.  The theorems assume of the  *)
(* constants what the tables give: a source is of a campaign or of an      *)
(* order, not of both, NULL is no id, and a delivery has an attempt.       *)
(***************************************************************************)
EXTENDS MemberNotification, FiniteSetTheorems, TLAPS

Sound ==
  /\ Nil \notin Members \cup Consents \cup Grants \cup Workers
  /\ Marketing \cap Service = {}
  /\ MaxDay \in Nat /\ MaxFaults \in Nat /\ MaxAttempts \in Nat \ {0}

\* For the ration: campaigns are finitely many, and its limits are numbers.
Rationed == IsFiniteSet(Marketing) /\ DailyMax \in Nat /\ WeeklyMax \in Nat /\ Week \in Nat

GrantRows == [status : {"none"}] \cup
  [status : {"available", "consumed", "revoked"}, member : Members,
   purpose : {"marketing", "service"}]
DeliveryRows ==
  [status : Counted \cup {"suppressed", "authorization_missing"}, member : Members,
   grant : OrNil(Grants), due : BOOLEAN, attempts : 0..MaxAttempts,
   token : OrNil(Workers), expired : BOOLEAN, day : 0..MaxDay]
PreferenceRows ==
  [row : BOOLEAN, marketing : BOOLEAN, consent : OrNil(Consents), service : BOOLEAN]
Checks == [pc : {"subscribe"}, consent : Consents] \cup [pc : {"create"}, source : Marketing]
Jobs == [pc : {"leased", "sending"}, source : Sources] \cup
        [pc : {"sent"}, source : Sources, result : Results]

\* What is in the hands of transactions and workers, which TypeOK leaves out, and that a
\* delivery which may be tried again has an attempt left.
Hands ==
  /\ checked \in [Members -> {Idle} \cup Checks]
  /\ workers \in [Workers -> {Idle} \cup Jobs]
  /\ \A s \in Sources : Has(s) /\ deliveries[s].status \in Open =>
       deliveries[s].attempts < MaxAttempts

Purpose(s) == IF s \in Marketing THEN "marketing" ELSE "service"

\* An authorisation that a delivery names is spent on it, whatever became of the
\* delivery since.
Spent ==
  \A s \in Sources : Has(s) =>
    LET g == deliveries[s].grant IN
    /\ deliveries[s].status \in Counted => g # Nil
    /\ g # Nil =>
         /\ grants[g].status = "consumed" /\ grants[g].member = deliveries[s].member
         /\ grants[g].purpose = Purpose(s)
         /\ \A u \in Sources \ {s} : Has(u) => deliveries[u].grant # g

IInv == TypeOK /\ Hands /\ Spent
-----------------------------------------------------------------------------
(* Rows                                                                    *)

\* A delivery that is stopped stays the row it was, but for its status.
LEMMA StoppedType ==
  ASSUME NEW row \in DeliveryRows
  PROVE  /\ Stopped(row) \in DeliveryRows /\ Stopped(row).status = "suppressed"
         /\ Stopped(row).grant = row.grant /\ Stopped(row).member = row.member
         /\ Stopped(row).day = row.day
  BY DEF DeliveryRows, Stopped, OrNil

\* No row is the absent one.
LEMMA RowsAreThere ==
  ASSUME NEW row \in DeliveryRows
  PROVE  row # Absent /\ row.status # "absent"
  BY DEF DeliveryRows, Absent, Counted

\* What is stopped of a set of deliveries.
LEMMA SuppressType ==
  ASSUME deliveries \in [Sources -> {Absent} \cup DeliveryRows], NEW S
  PROVE  /\ Suppress(S) \in [Sources -> {Absent} \cup DeliveryRows]
         /\ \A s \in Sources : \/ Suppress(S)[s] = deliveries[s]
                               \/ /\ deliveries[s] \in DeliveryRows
                                  /\ deliveries[s].status \in Open
                                  /\ Suppress(S)[s] \in DeliveryRows
                                  /\ Suppress(S)[s].status = "suppressed"
                                  /\ Suppress(S)[s].grant = deliveries[s].grant
                                  /\ Suppress(S)[s].member = deliveries[s].member
                                  /\ Suppress(S)[s].day = deliveries[s].day
  <1>1. ASSUME NEW s \in Sources
        PROVE  /\ Suppress(S)[s] \in {Absent} \cup DeliveryRows
               /\ \/ Suppress(S)[s] = deliveries[s]
                  \/ /\ deliveries[s] \in DeliveryRows /\ deliveries[s].status \in Open
                     /\ Suppress(S)[s] \in DeliveryRows
                     /\ Suppress(S)[s].status = "suppressed"
                     /\ Suppress(S)[s].grant = deliveries[s].grant
                     /\ Suppress(S)[s].member = deliveries[s].member
                     /\ Suppress(S)[s].day = deliveries[s].day
    <2>1. CASE s \in S /\ deliveries[s].status \in Open
      <3>1. Suppress(S)[s] = Stopped(deliveries[s])
        BY <2>1 DEF Suppress
      <3>2. deliveries[s] \in DeliveryRows
        BY <2>1 DEF Absent, Open
      <3> QED BY <2>1, <3>1, <3>2, StoppedType
    <2>2. CASE ~(s \in S /\ deliveries[s].status \in Open)
      BY <2>2 DEF Suppress
    <2> QED BY <2>1, <2>2
  <1>2. Suppress(S) = [s \in Sources |-> Suppress(S)[s]]
    BY DEF Suppress
  <1> QED BY <1>1, <1>2

\* What a step may do to deliveries and authorisations that are there.
DeliveriesKept ==
  \A s \in Sources :
    \/ deliveries'[s] = deliveries[s]
    \/ /\ deliveries[s] \in DeliveryRows /\ deliveries'[s] \in DeliveryRows
       /\ deliveries[s].status \in Open
       /\ deliveries'[s].grant = deliveries[s].grant
       /\ deliveries'[s].member = deliveries[s].member
       /\ deliveries'[s].day = deliveries[s].day
       /\ deliveries'[s].status \in Open => deliveries'[s].attempts < MaxAttempts
GrantsKept == \A g \in Grants : grants[g].status = "consumed" => grants'[g] = grants[g]

\* Steps of that kind keep the invariant of both.
LEMMA KeptStep ==
  ASSUME Sound, TypeOK, Spent, Hands, DeliveriesKept, GrantsKept,
         deliveries' \in [Sources -> {Absent} \cup DeliveryRows]
  PROVE  /\ Spent'
         /\ \A s \in Sources : Has(s)' /\ deliveries'[s].status \in Open =>
              deliveries'[s].attempts < MaxAttempts
         /\ \A s \in Sources : Has(s) /\ deliveries[s].status = "suppressed" =>
              deliveries'[s].status = "suppressed"
  <1>1. deliveries \in [Sources -> {Absent} \cup DeliveryRows]
    BY DEF TypeOK, DeliveryRows
  <1>2. ASSUME NEW s \in Sources
        PROVE  /\ Has(s)' <=> Has(s)
               /\ Has(s) => /\ deliveries'[s].grant = deliveries[s].grant
                            /\ deliveries'[s].member = deliveries[s].member
                            /\ deliveries'[s].status \in Counted => deliveries[s].status \in Counted
                            /\ deliveries[s].status = "suppressed" => deliveries'[s] = deliveries[s]
                            /\ deliveries[s] \in DeliveryRows
    BY <1>1, RowsAreThere DEF DeliveriesKept, Has, Open, Counted
  <1>3. Spent'
    <2> SUFFICES ASSUME NEW s \in Sources, Has(s)'
                 PROVE  LET g == deliveries'[s].grant IN
                        /\ deliveries'[s].status \in Counted => g # Nil
                        /\ g # Nil =>
                             /\ grants'[g].status = "consumed"
                             /\ grants'[g].member = deliveries'[s].member
                             /\ grants'[g].purpose = Purpose(s)
                             /\ \A u \in Sources \ {s} : Has(u)' => deliveries'[u].grant # g
      BY DEF Spent, Has, Purpose
    <2> DEFINE g == deliveries[s].grant
    <2>1. /\ Has(s) /\ deliveries'[s].grant = g /\ deliveries'[s].member = deliveries[s].member
          /\ deliveries'[s].status \in Counted => deliveries[s].status \in Counted
          /\ deliveries[s] \in DeliveryRows
      BY <1>2
    <2>2. /\ deliveries[s].status \in Counted => g # Nil
          /\ g # Nil =>
               /\ grants[g].status = "consumed" /\ grants[g].member = deliveries[s].member
               /\ grants[g].purpose = Purpose(s)
               /\ \A u \in Sources \ {s} : Has(u) => deliveries[u].grant # g
      BY <2>1 DEF Spent
    <2>3. g # Nil => g \in Grants
      BY <2>1 DEF DeliveryRows, OrNil
    <2>4. g # Nil => grants'[g] = grants[g]
      BY <2>2, <2>3 DEF GrantsKept
    <2>5. \A u \in Sources \ {s} : Has(u)' => Has(u) /\ deliveries'[u].grant = deliveries[u].grant
      BY <1>2
    <2> HIDE DEF g
    <2> QED BY <2>1, <2>2, <2>4, <2>5
  <1>4. \A s \in Sources : Has(s)' /\ deliveries'[s].status \in Open =>
          deliveries'[s].attempts < MaxAttempts
    BY <1>2 DEF DeliveriesKept, Hands
  <1> QED BY <1>2, <1>3, <1>4

Steady == \A s \in Sources : Has(s) /\ deliveries[s].status = "suppressed" =>
            deliveries'[s].status = "suppressed"

DeliveriesType == deliveries \in [Sources -> {Absent} \cup DeliveryRows]
GrantsType == grants \in [Grants -> GrantRows]
PreferencesType == preferences \in [Members -> PreferenceRows]
HandsType == /\ checked \in [Members -> {Idle} \cup Checks]
             /\ workers \in [Workers -> {Idle} \cup Jobs]
RestType == /\ day \in 0..MaxDay /\ faults \in 0..MaxFaults
            /\ consents \in [Consents -> {"none", "granted", "withdrawn"}]
            /\ merged \in [Members -> OrNil(Members)]
Types == DeliveriesType /\ GrantsType /\ PreferencesType /\ HandsType /\ RestType

\* The types of the invariant, named.
LEMMA TypesNamed == IInv <=>
    /\ Types /\ Spent
    /\ \A s \in Sources : Has(s) /\ deliveries[s].status \in Open =>
         deliveries[s].attempts < MaxAttempts
  BY DEF IInv, Types, TypeOK, Hands, DeliveriesType, GrantsType, PreferencesType, HandsType,
         RestType, DeliveryRows, GrantRows, PreferenceRows

\* A step that keeps types, deliveries and authorisations keeps the invariant.
LEMMA Frame ==
  ASSUME Sound, IInv, Types', DeliveriesKept, GrantsKept
  PROVE  IInv' /\ Steady /\ DeliveriesKept
  <1>1. TypeOK /\ Spent /\ Hands
    BY DEF IInv
  <1>2. DeliveriesType'
    BY DEF Types
  <1>3. /\ Spent' /\ Steady
        /\ \A s \in Sources : Has(s)' /\ deliveries'[s].status \in Open =>
             deliveries'[s].attempts < MaxAttempts
    BY <1>1, <1>2, KeptStep DEF Steady, DeliveriesType
  <1>4. TypeOK' /\ Hands'
    BY <1>3 DEF Types, TypeOK, Hands, DeliveriesType, GrantsType, PreferencesType, HandsType,
         RestType, DeliveryRows, GrantRows, PreferenceRows, Has
  <1> QED BY <1>3, <1>4 DEF IInv

\* Stopping deliveries keeps them.
LEMMA SuppressKeeps ==
  ASSUME DeliveriesType, NEW S, deliveries' = Suppress(S)
  PROVE  DeliveriesType' /\ DeliveriesKept
  <1>1. /\ Suppress(S) \in [Sources -> {Absent} \cup DeliveryRows]
        /\ \A s \in Sources : \/ Suppress(S)[s] = deliveries[s]
                              \/ /\ deliveries[s] \in DeliveryRows
                                 /\ deliveries[s].status \in Open
                                 /\ Suppress(S)[s] \in DeliveryRows
                                 /\ Suppress(S)[s].status = "suppressed"
                                 /\ Suppress(S)[s].grant = deliveries[s].grant
                                 /\ Suppress(S)[s].member = deliveries[s].member
                                 /\ Suppress(S)[s].day = deliveries[s].day
    BY SuppressType DEF DeliveriesType
  <1> QED BY <1>1 DEF DeliveriesType, DeliveriesKept, Open

\* Revoking what is available keeps what is spent.
LEMMA RevokeKeeps ==
  ASSUME GrantsType, NEW m
  PROVE  /\ RevokeGrants(m) \in [Grants -> GrantRows]
         /\ \A g \in Grants : RevokeGrants(m)[g] # grants[g] =>
              grants[g].status = "available" /\ [grants[g] EXCEPT !.status = "revoked"] \in GrantRows
         /\ \A g \in Grants : grants[g].status = "consumed" => RevokeGrants(m)[g] = grants[g]
  <1>1. ASSUME NEW g \in Grants, grants[g].status = "available"
        PROVE  [grants[g] EXCEPT !.status = "revoked"] \in GrantRows
    <2>1. grants[g] \in [status : {"available", "consumed", "revoked"}, member : Members,
                         purpose : {"marketing", "service"}]
      BY <1>1 DEF GrantsType, GrantRows
    <2> QED BY <2>1 DEF GrantRows
  <1>2. \A g \in Grants : RevokeGrants(m)[g] =
          IF grants[g].status = "available" /\ grants[g].member = m /\ grants[g].purpose = "marketing"
          THEN [grants[g] EXCEPT !.status = "revoked"] ELSE grants[g]
    BY DEF RevokeGrants
  <1>3. \A g \in Grants : RevokeGrants(m)[g] \in GrantRows
    BY <1>1, <1>2 DEF GrantsType
  <1>4. RevokeGrants(m) = [g \in Grants |-> RevokeGrants(m)[g]]
    BY DEF RevokeGrants
  <1> QED BY <1>1, <1>2, <1>3, <1>4

\* An authorisation that is given was not there before.
LEMMA GivenKeeps ==
  ASSUME GrantsType, NEW g \in Grants, NEW m \in Members, NEW p \in {"marketing", "service"},
         grants' = Given(g, m, p)
  PROVE  GrantsType' /\ GrantsKept
  <1>1. [status |-> "available", member |-> m, purpose |-> p] \in GrantRows
    BY DEF GrantRows
  <1> QED BY <1>1 DEF GrantsType, GrantsKept, Given

\* A delivery that is rewritten by a worker or by time.
LEMMA RewriteKeeps ==
  ASSUME DeliveriesType, NEW s \in Sources, NEW row \in DeliveryRows,
         deliveries[s] \in DeliveryRows, deliveries[s].status \in Open,
         row.grant = deliveries[s].grant, row.member = deliveries[s].member,
         row.day = deliveries[s].day,
         row.status \in Open => row.attempts < MaxAttempts,
         deliveries' = [deliveries EXCEPT ![s] = row]
  PROVE  DeliveriesType' /\ DeliveriesKept
  <1>1. deliveries'[s] = row /\ \A u \in Sources \ {s} : deliveries'[u] = deliveries[u]
    BY DEF DeliveriesType
  <1> QED BY <1>1 DEF DeliveriesType, DeliveriesKept
-----------------------------------------------------------------------------
(* Making a delivery, merging two members                                  *)

\* A new delivery names an authorisation that nothing else names, or none.
LEMMA MadeStep ==
  ASSUME Sound, IInv, NEW s \in Sources, ~Has(s), NEW m \in Members,
         NEW refused \in BOOLEAN, NEW due \in BOOLEAN, Made(s, m, Purpose(s), refused, due)
  PROVE  /\ DeliveriesType' /\ GrantsType' /\ Spent' /\ Steady
         /\ \A u \in Sources : Has(u)' /\ deliveries'[u].status \in Open =>
              deliveries'[u].attempts < MaxAttempts
  <1>0. Types /\ Spent /\ Hands
    BY TypesNamed DEF IInv
  <1>1. PICK status \in {"suppressed", "authorization_missing", "pending"}, g \in OrNil(Grants),
             d \in BOOLEAN :
          /\ deliveries' = [deliveries EXCEPT ![s] = Row(m, status, g, d)]
          /\ status = "pending" <=> g # Nil
          /\ g # Nil => g \in Usable(m, Purpose(s)) /\ grants' = [grants EXCEPT ![g].status = "consumed"]
          /\ g = Nil => grants' = grants
    <2>1. CASE refused
      BY <2>1 DEF Made, OrNil
    <2>2. CASE ~refused /\ Usable(m, Purpose(s)) = {}
      BY <2>2 DEF Made, OrNil
    <2>3. ASSUME NEW g \in Usable(m, Purpose(s)), ~refused,
                 deliveries' = [deliveries EXCEPT ![s] = Row(m, "pending", g, due)],
                 grants' = [grants EXCEPT ![g].status = "consumed"]
          PROVE  \E h \in OrNil(Grants), d \in BOOLEAN :
                   /\ deliveries' = [deliveries EXCEPT ![s] = Row(m, "pending", h, d)]
                   /\ h # Nil /\ h \in Usable(m, Purpose(s))
                   /\ grants' = [grants EXCEPT ![h].status = "consumed"]
      <3>1. g \in Grants /\ g # Nil
        BY <2>3 DEF Usable, Sound
      <3> QED BY <2>3, <3>1 DEF OrNil
    <2> QED BY <2>1, <2>2, <2>3 DEF Made
  <1> DEFINE row == Row(m, status, g, d)
  <1>2. /\ row \in DeliveryRows /\ row.grant = g /\ row.member = m /\ row.status = status
        /\ row.attempts < MaxAttempts /\ row # Absent
    BY <1>0 DEF Row, DeliveryRows, Counted, OrNil, Types, RestType, Sound, Absent
  <1> HIDE DEF row
  <1>3. deliveries'[s] = row /\ \A u \in Sources \ {s} : deliveries'[u] = deliveries[u]
    BY <1>0, <1>1 DEF Types, DeliveriesType, row
  <1>4. DeliveriesType'
    BY <1>0, <1>1, <1>2 DEF Types, DeliveriesType, row
  <1>5. g # Nil => /\ grants[g].status = "available" /\ g \in Grants
                   /\ grants'[g].status = "consumed" /\ grants'[g].member = m
                   /\ grants'[g].purpose = Purpose(s) /\ grants'[g] \in GrantRows
                   /\ \A h \in Grants \ {g} : grants'[h] = grants[h]
    <2> SUFFICES ASSUME g # Nil
                 PROVE  /\ grants[g].status = "available" /\ g \in Grants
                        /\ grants'[g].status = "consumed" /\ grants'[g].member = m
                        /\ grants'[g].purpose = Purpose(s) /\ grants'[g] \in GrantRows
                        /\ \A h \in Grants \ {g} : grants'[h] = grants[h]
      OBVIOUS
    <2>1. /\ g \in Grants /\ grants[g].status = "available" /\ grants[g].member = m
          /\ grants[g].purpose = Purpose(s)
      BY <1>1 DEF Usable
    <2>2. grants[g] \in [status : {"available", "consumed", "revoked"}, member : Members,
                         purpose : {"marketing", "service"}]
      BY <1>0, <2>1 DEF Types, GrantsType, GrantRows
    <2>3. /\ grants' = [grants EXCEPT ![g] = [grants[g] EXCEPT !.status = "consumed"]]
          /\ grants \in [Grants -> GrantRows]
      BY <1>0, <1>1 DEF Types, GrantsType
    <2>4. grants'[g] = [grants[g] EXCEPT !.status = "consumed"]
          /\ \A h \in Grants \ {g} : grants'[h] = grants[h]
      BY <2>1, <2>3
    <2> QED BY <2>1, <2>2, <2>4 DEF GrantRows
  <1>6. GrantsType'
    <2>1. CASE g = Nil
      BY <1>0, <1>1, <2>1 DEF Types, GrantsType
    <2>2. CASE g # Nil
      <3>1. grants' = [h \in Grants |-> grants'[h]]
        BY <1>0, <1>1, <2>2 DEF Types, GrantsType
      <3>2. \A h \in Grants : grants'[h] \in GrantRows
        BY <1>0, <1>5, <2>2 DEF Types, GrantsType
      <3> QED BY <3>1, <3>2 DEF GrantsType
    <2> QED BY <2>1, <2>2
  <1>7. ASSUME NEW u \in Sources \ {s}, Has(u)
        PROVE  deliveries[u].grant # Nil =>
                 /\ deliveries[u].grant # g /\ deliveries[u].grant \in Grants
                 /\ grants'[deliveries[u].grant] = grants[deliveries[u].grant]
    <2>1. deliveries[u].grant # Nil =>
            deliveries[u].grant \in Grants /\ grants[deliveries[u].grant].status = "consumed"
      BY <1>0, <1>7 DEF Spent, Types, DeliveriesType, DeliveryRows, OrNil, Has
    <2> QED BY <1>1, <1>5, <2>1
  <1>8. Spent'
    <2>1. ASSUME NEW u \in Sources, Has(u)'
          PROVE  LET h == deliveries'[u].grant IN
                 /\ deliveries'[u].status \in Counted => h # Nil
                 /\ h # Nil =>
                      /\ grants'[h].status = "consumed" /\ grants'[h].member = deliveries'[u].member
                      /\ grants'[h].purpose = Purpose(u)
                      /\ \A v \in Sources \ {u} : Has(v)' => deliveries'[v].grant # h
      <3>1. CASE u = s
        <4>1. \A v \in Sources \ {s} : Has(v)' => Has(v) /\ deliveries'[v].grant = deliveries[v].grant
          BY <1>3 DEF Has
        <4>2. status \in Counted => g # Nil
          BY <1>1 DEF Counted
        <4> QED BY <1>2, <1>3, <1>5, <1>7, <3>1, <4>1, <4>2
      <3>2. CASE u # s
        <4>1. Has(u) /\ deliveries'[u] = deliveries[u]
          BY <1>3, <2>1, <3>2 DEF Has
        <4>2. LET h == deliveries[u].grant IN
              /\ deliveries[u].status \in Counted => h # Nil
              /\ h # Nil =>
                   /\ grants[h].status = "consumed" /\ grants[h].member = deliveries[u].member
                   /\ grants[h].purpose = Purpose(u)
                   /\ \A v \in Sources \ {u} : Has(v) => deliveries[v].grant # h
          BY <1>0, <4>1 DEF Spent
        <4>3. \A v \in Sources \ {s} : Has(v)' => Has(v) /\ deliveries'[v].grant = deliveries[v].grant
          BY <1>3 DEF Has
        <4>4. deliveries'[s].grant = g
          BY <1>2, <1>3
        <4> QED BY <1>7, <3>2, <4>1, <4>2, <4>3, <4>4
      <3> QED BY <3>1, <3>2
    <2> QED BY <2>1 DEF Spent, Has, Purpose
  <1>9. /\ Steady
        /\ \A u \in Sources : Has(u)' /\ deliveries'[u].status \in Open =>
             deliveries'[u].attempts < MaxAttempts
    BY <1>0, <1>2, <1>3 DEF Steady, Has, Hands
  <1> QED BY <1>4, <1>6, <1>8, <1>9

\* A merge moves deliveries and authorisations alike.
LEMMA MergeStep ==
  ASSUME Sound, IInv, NEW m \in Members, NEW t \in Members, Merge(m, t)
  PROVE  /\ IInv' /\ Steady
         /\ \A s \in Sources : Has(s)' =>
              /\ Has(s) /\ deliveries'[s].day = deliveries[s].day
              /\ deliveries'[s].member = IF deliveries[s].member = m THEN t ELSE deliveries[s].member
              /\ deliveries'[s].status \in Counted => deliveries[s].status \in Counted
  <1>0. /\ Types /\ Spent /\ Hands
        /\ \A s \in Sources : Has(s) /\ deliveries[s].status \in Open =>
             deliveries[s].attempts < MaxAttempts
    BY TypesNamed DEF IInv, Hands
  <1> DEFINE Of(x) == IF x = m THEN t ELSE x
             moved == [d \in Sources |-> IF Has(d) /\ deliveries[d].member = m
                         THEN [deliveries[d] EXCEPT !.member = t] ELSE deliveries[d]]
  <1>1. /\ grants' = [g \in Grants |-> IF grants[g].status # "none" /\ grants[g].member = m
                       THEN [grants[g] EXCEPT !.member = t] ELSE grants[g]]
        /\ preferences' = [preferences EXCEPT ![t] = Joined(preferences[m], preferences[t]),
                                               ![m] = NoPreference]
        /\ merged' = [merged EXCEPT ![m] = t]
        /\ deliveries' = [d \in Sources |-> deliveries'[d]]
        /\ \A d \in Sources : \/ deliveries'[d] = moved[d]
                              \/ moved[d].status \in Open /\ deliveries'[d] = Stopped(moved[d])
        /\ UNCHANGED <<day, consents, checked, workers, faults>>
    BY <1>0 DEF Merge, Types, PreferencesType
  <1>2. ASSUME NEW d \in Sources
        PROVE  /\ Has(d)' <=> Has(d)
               /\ ~Has(d) => deliveries'[d] = Absent
               /\ Has(d) => /\ deliveries[d] \in DeliveryRows /\ deliveries'[d] \in DeliveryRows
                            /\ deliveries'[d].grant = deliveries[d].grant
                            /\ deliveries'[d].member = Of(deliveries[d].member)
                            /\ deliveries'[d].day = deliveries[d].day
                            /\ deliveries'[d].status \in Counted => deliveries[d].status \in Counted
                            /\ deliveries'[d].status \in Open =>
                                 deliveries'[d].attempts < MaxAttempts
                            /\ deliveries[d].status = "suppressed" =>
                                 deliveries'[d].status = "suppressed"
    <2>1. CASE Has(d)
      <3>1. deliveries[d] \in DeliveryRows
        BY <1>0, <2>1 DEF Types, DeliveriesType, Has
      <3>2. /\ moved[d] \in DeliveryRows /\ moved[d].grant = deliveries[d].grant
            /\ moved[d].member = Of(deliveries[d].member)
            /\ moved[d].status = deliveries[d].status
            /\ moved[d].attempts = deliveries[d].attempts /\ moved[d].day = deliveries[d].day
        BY <2>1, <3>1 DEF DeliveryRows
      <3> HIDE DEF moved, Of
      <3>3. CASE deliveries'[d] = moved[d]
        BY <1>0, <2>1, <3>1, <3>2, <3>3, RowsAreThere DEF Has
      <3>4. CASE moved[d].status \in Open /\ deliveries'[d] = Stopped(moved[d])
        <4>1. /\ deliveries'[d] \in DeliveryRows /\ deliveries'[d].status = "suppressed"
              /\ deliveries'[d].grant = moved[d].grant /\ deliveries'[d].member = moved[d].member
              /\ deliveries'[d].day = moved[d].day
          BY <3>2, <3>4, StoppedType
        <4> QED BY <2>1, <3>1, <3>2, <4>1, RowsAreThere DEF Has, Counted, Open
      <3> QED BY <1>1, <3>3, <3>4
    <2>2. CASE ~Has(d)
      <3>1. moved[d] = Absent /\ deliveries[d] = Absent
        BY <2>2 DEF Has
      <3> HIDE DEF moved, Of
      <3> QED BY <1>1, <2>2, <3>1 DEF Has, Absent, Open
    <2> QED BY <2>1, <2>2
  <1>3. ASSUME NEW g \in Grants
        PROVE  /\ grants'[g] \in GrantRows
               /\ grants[g].status = "consumed" =>
                    /\ grants'[g].status = "consumed" /\ grants'[g].member = Of(grants[g].member)
                    /\ grants'[g].purpose = grants[g].purpose
    <2>1. grants'[g] = IF grants[g].status # "none" /\ grants[g].member = m
                       THEN [grants[g] EXCEPT !.member = t] ELSE grants[g]
      BY <1>1
    <2>2. grants[g] \in GrantRows
      BY <1>0 DEF Types, GrantsType
    <2>3. CASE grants[g].status = "none"
      BY <2>1, <2>2, <2>3
    <2>4. CASE grants[g].status # "none"
      <3>1. grants[g] \in [status : {"available", "consumed", "revoked"}, member : Members,
                           purpose : {"marketing", "service"}]
        BY <2>2, <2>4 DEF GrantRows
      <3> QED BY <2>1, <2>4, <3>1 DEF GrantRows
    <2> QED BY <2>3, <2>4
  <1> HIDE DEF Of, moved
  <1>4. Types'
    <2>1. DeliveriesType'
      BY <1>1, <1>2 DEF DeliveriesType
    <2>2. GrantsType'
      <3>1. grants' = [g \in Grants |-> grants'[g]]
        BY <1>1
      <3> QED BY <1>3, <3>1 DEF GrantsType
    <2>3. PreferencesType'
      <3>1. NoPreference \in PreferenceRows
        BY DEF NoPreference, PreferenceRows, OrNil
      <3>2. \A a, b \in PreferenceRows : Joined(a, b) \in PreferenceRows
        <4>1. \A a, b \in PreferenceRows :
                [b EXCEPT !.marketing = b.marketing /\ a.marketing,
                          !.service = b.service /\ a.service] \in PreferenceRows
          BY DEF PreferenceRows
        <4> QED BY <4>1 DEF Joined
      <3> QED BY <1>0, <1>1, <3>1, <3>2 DEF Types, PreferencesType
    <2>4. HandsType' /\ RestType'
      BY <1>0, <1>1 DEF Types, HandsType, RestType, OrNil
    <2> QED BY <2>1, <2>2, <2>3, <2>4 DEF Types
  <1>5. Spent'
    <2> SUFFICES ASSUME NEW s \in Sources, Has(s)'
                 PROVE  LET g == deliveries'[s].grant IN
                        /\ deliveries'[s].status \in Counted => g # Nil
                        /\ g # Nil =>
                             /\ grants'[g].status = "consumed"
                             /\ grants'[g].member = deliveries'[s].member
                             /\ grants'[g].purpose = Purpose(s)
                             /\ \A u \in Sources \ {s} : Has(u)' => deliveries'[u].grant # g
      BY DEF Spent, Has, Purpose
    <2> DEFINE g == deliveries[s].grant
    <2>1. /\ Has(s) /\ deliveries'[s].grant = g
          /\ deliveries'[s].member = Of(deliveries[s].member)
          /\ deliveries'[s].status \in Counted => deliveries[s].status \in Counted
          /\ deliveries[s] \in DeliveryRows
      BY <1>2
    <2>2. /\ deliveries[s].status \in Counted => g # Nil
          /\ g # Nil =>
               /\ grants[g].status = "consumed" /\ grants[g].member = deliveries[s].member
               /\ grants[g].purpose = Purpose(s)
               /\ \A u \in Sources \ {s} : Has(u) => deliveries[u].grant # g
      BY <1>0, <2>1 DEF Spent
    <2>3. g # Nil => g \in Grants
      BY <2>1 DEF DeliveryRows, OrNil
    <2>4. \A u \in Sources \ {s} : Has(u)' => Has(u) /\ deliveries'[u].grant = deliveries[u].grant
      BY <1>2
    <2> HIDE DEF g
    <2> QED BY <1>3, <2>1, <2>2, <2>3, <2>4
  <1>6. /\ Steady
        /\ \A s \in Sources : Has(s)' /\ deliveries'[s].status \in Open =>
             deliveries'[s].attempts < MaxAttempts
    BY <1>2 DEF Steady
  <1>7. TypeOK' /\ Hands'
    BY <1>4, <1>6 DEF Types, TypeOK, Hands, DeliveriesType, GrantsType, PreferencesType, HandsType,
         RestType, DeliveryRows, GrantRows, PreferenceRows, Has
  <1>8. \A s \in Sources : Has(s)' =>
          /\ Has(s) /\ deliveries'[s].day = deliveries[s].day
          /\ deliveries'[s].member = IF deliveries[s].member = m THEN t ELSE deliveries[s].member
          /\ deliveries'[s].status \in Counted => deliveries[s].status \in Counted
    BY <1>2 DEF Of
  <1> QED BY <1>5, <1>6, <1>7, <1>8 DEF IInv
-----------------------------------------------------------------------------
(* Every step                                                              *)

\* Consents, preferences and authorisations.
LEMMA MemberSteps ==
  ASSUME Sound, IInv,
         \/ NextDay \/ UNCHANGED vars
         \/ \E k \in Consents : GiveConsent(k) \/ WithdrawConsent(k)
         \/ \E m \in Members, k \in Consents : BeginSubscribe(m, k)
         \/ \E m \in Members, g \in Grants : Subscribe(m, g) \/ GrantService(m, g)
         \/ \E m \in Members : Unsubscribe(m) \/ RollBack(m)
         \/ \E m \in Members, on \in BOOLEAN : SetService(m, on)
  PROVE  IInv' /\ Steady /\ DeliveriesKept
  <1>0. /\ Types /\ DeliveriesType /\ GrantsType /\ PreferencesType /\ HandsType /\ RestType
    BY TypesNamed DEF Types
  <1>1. UNCHANGED deliveries => DeliveriesType' /\ DeliveriesKept
    BY <1>0 DEF DeliveriesType, DeliveriesKept
  <1>2. UNCHANGED grants => GrantsType' /\ GrantsKept
    BY <1>0 DEF GrantsType, GrantsKept
  <1>3. UNCHANGED preferences => PreferencesType'
    BY <1>0 DEF PreferencesType
  <1>4. UNCHANGED <<checked, workers>> => HandsType'
    BY <1>0 DEF HandsType
  <1>5. UNCHANGED <<day, faults, consents, merged>> => RestType'
    BY <1>0 DEF RestType
  <1>6. ASSUME NEW k \in Consents, GiveConsent(k)
        PROVE  IInv' /\ Steady /\ DeliveriesKept
    BY <1>0, <1>1, <1>2, <1>3, <1>4, <1>6, Frame DEF GiveConsent, Types, RestType
  <1>7. ASSUME NEW k \in Consents, WithdrawConsent(k)
        PROVE  IInv' /\ Steady /\ DeliveriesKept
    <2> DEFINE M == {n \in Members : preferences[n].consent = k}
               R(h) == IF \E n \in M : RevokeGrants(n)[h] # grants[h]
                       THEN [grants[h] EXCEPT !.status = "revoked"] ELSE grants[h]
    <2>1. /\ grants' = [h \in Grants |-> R(h)]
          /\ deliveries' = Suppress(UNION {MarketingOf(n) : n \in M})
          /\ consents' = [consents EXCEPT ![k] = "withdrawn"]
          /\ UNCHANGED <<day, preferences, checked, workers, merged, faults>>
      BY <1>7 DEF WithdrawConsent
    <2>2. DeliveriesType' /\ DeliveriesKept
      BY <1>0, <2>1, SuppressKeeps
    <2>3. ASSUME NEW h \in Grants
          PROVE  R(h) \in GrantRows /\ (grants[h].status = "consumed" => R(h) = grants[h])
      <3>1. CASE \E n \in M : RevokeGrants(n)[h] # grants[h]
        <4>1. grants[h].status = "available" /\ [grants[h] EXCEPT !.status = "revoked"] \in GrantRows
          BY <1>0, <3>1, RevokeKeeps
        <4> QED BY <3>1, <4>1
      <3>2. CASE ~\E n \in M : RevokeGrants(n)[h] # grants[h]
        BY <1>0, <3>2 DEF GrantsType
      <3> QED BY <3>1, <3>2
    <2> HIDE DEF R
    <2>4. GrantsType' /\ GrantsKept
      BY <2>1, <2>3 DEF GrantsType, GrantsKept
    <2>5. RestType'
      BY <1>0, <2>1 DEF RestType
    <2> QED BY <1>3, <1>4, <2>1, <2>2, <2>4, <2>5, Frame DEF Types
  <1>8. ASSUME NEW m \in Members, NEW k \in Consents, BeginSubscribe(m, k)
        PROVE  IInv' /\ Steady /\ DeliveriesKept
    <2>1. HandsType'
      <3>1. [pc |-> "subscribe", consent |-> k] \in Checks
        BY DEF Checks
      <3> QED BY <1>0, <1>8, <3>1 DEF BeginSubscribe, HandsType
    <2> QED BY <1>1, <1>2, <1>3, <1>5, <1>8, <2>1, Frame DEF BeginSubscribe, Types
  <1>9. ASSUME NEW m \in Members, NEW g \in Grants, Subscribe(m, g)
        PROVE  IInv' /\ Steady /\ DeliveriesKept
    <2>1. checked[m].consent \in Consents
      <3>1. checked[m] \in {Idle} \cup Checks /\ checked[m].pc = "subscribe"
        BY <1>0, <1>9 DEF Subscribe, HandsType
      <3>2. checked[m] \in [pc : {"subscribe"}, consent : Consents]
        BY <3>1 DEF Checks, Idle
      <3> QED BY <3>2
    <2>2. /\ [preferences[m] EXCEPT !.row = TRUE, !.marketing = TRUE,
                                    !.consent = checked[m].consent] \in PreferenceRows
      BY <1>0, <2>1 DEF PreferencesType, PreferenceRows, OrNil
    <2>3. preferences' = [preferences EXCEPT ![m] =
            [preferences[m] EXCEPT !.row = TRUE, !.marketing = TRUE, !.consent = checked[m].consent]]
      BY <1>0, <1>9 DEF Subscribe, PreferencesType
    <2>4. PreferencesType'
      BY <1>0, <2>2, <2>3 DEF PreferencesType
    <2>5. GrantsType' /\ GrantsKept
      BY <1>0, <1>9, GivenKeeps DEF Subscribe
    <2>6. HandsType'
      BY <1>0, <1>9 DEF Subscribe, HandsType
    <2> QED BY <1>1, <1>5, <1>9, <2>4, <2>5, <2>6, Frame DEF Subscribe, Types
  <1>10. ASSUME NEW m \in Members, NEW g \in Grants, GrantService(m, g)
        PROVE  IInv' /\ Steady /\ DeliveriesKept
    <2>1. GrantsType' /\ GrantsKept
      BY <1>0, <1>10, GivenKeeps DEF GrantService
    <2>2. [preferences[m] EXCEPT !.row = TRUE] \in PreferenceRows
      BY <1>0 DEF PreferencesType, PreferenceRows
    <2>3. PreferencesType'
      BY <1>0, <1>10, <2>2 DEF GrantService, PreferencesType
    <2> QED BY <1>1, <1>4, <1>5, <1>10, <2>1, <2>3, Frame DEF GrantService, Types
  <1>11. ASSUME NEW m \in Members, Unsubscribe(m)
        PROVE  IInv' /\ Steady /\ DeliveriesKept
    <2>1. PICK S : deliveries' = Suppress(S)
      BY <1>11 DEF Unsubscribe
    <2>2. DeliveriesType' /\ DeliveriesKept
      BY <1>0, <2>1, SuppressKeeps
    <2>3. GrantsType' /\ GrantsKept
      BY <1>0, <1>11, RevokeKeeps DEF Unsubscribe, GrantsType, GrantsKept
    <2>4. [preferences[m] EXCEPT !.row = TRUE, !.marketing = FALSE] \in PreferenceRows
      BY <1>0 DEF PreferencesType, PreferenceRows
    <2>5. preferences' = [preferences EXCEPT ![m] =
            [preferences[m] EXCEPT !.row = TRUE, !.marketing = FALSE]]
      BY <1>0, <1>11 DEF Unsubscribe, PreferencesType
    <2>6. PreferencesType'
      BY <1>0, <2>4, <2>5 DEF PreferencesType
    <2> QED BY <1>4, <1>5, <1>11, <2>2, <2>3, <2>6, Frame DEF Unsubscribe, Types
  <1>12. ASSUME NEW m \in Members, NEW on \in BOOLEAN, SetService(m, on)
        PROVE  IInv' /\ Steady /\ DeliveriesKept
    <2>1. [preferences[m] EXCEPT !.row = TRUE, !.service = on] \in PreferenceRows
      BY <1>0 DEF PreferencesType, PreferenceRows
    <2>2. preferences' = [preferences EXCEPT ![m] =
            [preferences[m] EXCEPT !.row = TRUE, !.service = on]]
      BY <1>0, <1>12 DEF SetService, PreferencesType
    <2>3. PreferencesType'
      BY <1>0, <2>1, <2>2 DEF PreferencesType
    <2> QED BY <1>1, <1>2, <1>4, <1>5, <1>12, <2>3, Frame DEF SetService, Types
  <1>13. ASSUME NEW m \in Members, RollBack(m)
        PROVE  IInv' /\ Steady /\ DeliveriesKept
    <2>1. HandsType'
      BY <1>0, <1>13 DEF RollBack, HandsType
    <2> QED BY <1>1, <1>2, <1>3, <1>5, <1>13, <2>1, Frame DEF RollBack, Types
  <1>14. CASE NextDay
    <2>1. RestType'
      BY <1>0, <1>14 DEF NextDay, RestType, Sound
    <2> QED BY <1>1, <1>2, <1>3, <1>4, <1>14, <2>1, Frame DEF NextDay, Types
  <1>15. CASE UNCHANGED vars
    BY <1>1, <1>2, <1>3, <1>4, <1>5, <1>15, Frame DEF vars, Types
  <1> QED BY <1>6, <1>7, <1>8, <1>9, <1>10, <1>11, <1>12, <1>13, <1>14, <1>15

\* A new message, to a member who is told or asked.
LEMMA MessageSteps ==
  ASSUME Sound, IInv,
         \/ \E s \in Service, m \in Members : Notify(s, m)
         \/ \E s \in Marketing, m \in Members : BeginMarketing(s, m)
         \/ \E m \in Members, quiet \in BOOLEAN : CreateMarketing(m, quiet)
  PROVE  IInv' /\ Steady
  <1>0. /\ Types /\ DeliveriesType /\ GrantsType /\ PreferencesType /\ HandsType /\ RestType
    BY TypesNamed DEF Types
  <1>1. ASSUME NEW s \in Sources, ~Has(s), NEW m \in Members, NEW refused \in BOOLEAN,
               NEW due \in BOOLEAN, Made(s, m, Purpose(s), refused, due),
               UNCHANGED <<day, consents, preferences, workers, merged, faults>>, HandsType'
        PROVE  IInv' /\ Steady
    <2>1. /\ DeliveriesType' /\ GrantsType' /\ Spent' /\ Steady
          /\ \A u \in Sources : Has(u)' /\ deliveries'[u].status \in Open =>
               deliveries'[u].attempts < MaxAttempts
      BY <1>1, MadeStep
    <2>2. PreferencesType' /\ RestType'
      BY <1>0, <1>1 DEF PreferencesType, RestType
    <2>3. TypeOK' /\ Hands'
      BY <1>1, <2>1, <2>2 DEF TypeOK, Hands, DeliveriesType, GrantsType, PreferencesType,
         HandsType, RestType, DeliveryRows, GrantRows, PreferenceRows, Has
    <2> QED BY <2>1, <2>3 DEF IInv
  <1>2. ASSUME NEW s \in Service, NEW m \in Members, Notify(s, m) PROVE IInv' /\ Steady
    <2> DEFINE refused == ~preferences[m].service \/ s \in NoChannel
    <2>1. /\ s \in Sources /\ Purpose(s) = "service" /\ ~Has(s) /\ refused \in BOOLEAN
          /\ Made(s, m, "service", refused, TRUE)
          /\ UNCHANGED <<day, consents, preferences, checked, workers, merged, faults>>
      BY <1>2 DEF Notify, Sources, Purpose, Sound
    <2>2. HandsType'
      BY <1>0, <2>1 DEF HandsType
    <2> HIDE DEF refused
    <2> QED BY <1>1, <2>1, <2>2
  <1>3. ASSUME NEW s \in Marketing, NEW m \in Members, BeginMarketing(s, m) PROVE IInv' /\ Steady
    <2>1. [pc |-> "create", source |-> s] \in Checks
      BY DEF Checks
    <2>2. HandsType'
      BY <1>0, <1>3, <2>1 DEF BeginMarketing, HandsType
    <2>3. DeliveriesType' /\ DeliveriesKept /\ GrantsType' /\ GrantsKept
      BY <1>0, <1>3 DEF BeginMarketing, DeliveriesType, DeliveriesKept, GrantsType, GrantsKept
    <2>4. PreferencesType' /\ RestType'
      BY <1>0, <1>3 DEF BeginMarketing, PreferencesType, RestType
    <2> QED BY <2>2, <2>3, <2>4, Frame DEF Types
  <1>4. ASSUME NEW m \in Members, NEW quiet \in BOOLEAN, CreateMarketing(m, quiet)
        PROVE  IInv' /\ Steady
    <2> DEFINE s == checked[m].source
               refused == Limited(m)
    <2>1. s \in Marketing
      BY <1>0, <1>4 DEF CreateMarketing, HandsType, Checks, Idle
    <2>2. refused \in BOOLEAN
      BY DEF Limited
    <2> HIDE DEF s, refused
    <2>5. (~quiet) \in BOOLEAN
      OBVIOUS
    <2>3. /\ s \in Sources /\ Purpose(s) = "marketing" /\ ~Has(s)
          /\ Made(s, m, "marketing", refused, ~quiet)
          /\ checked' = [checked EXCEPT ![m] = Idle]
          /\ UNCHANGED <<day, consents, preferences, workers, merged, faults>>
      BY <1>4, <2>1 DEF CreateMarketing, Sources, Purpose, s, refused
    <2>4. HandsType'
      BY <1>0, <2>3 DEF HandsType
    <2> DEFINE due == ~quiet
    <2>6. due \in BOOLEAN /\ Made(s, m, Purpose(s), refused, due)
      BY <2>3, <2>5
    <2> HIDE DEF due
    <2> QED BY <1>1, <2>2, <2>3, <2>4, <2>6
  <1> QED BY <1>2, <1>3, <1>4

\* A worker that leases, reads, sends and records, or is lost; time.
LEMMA WorkSteps ==
  ASSUME Sound, IInv,
         \/ \E w \in Workers, s \in Sources : Work(w, s)
         \/ \E w \in Workers : Crash(w)
         \/ \E s \in Sources : ComesDue(s) \/ Expires(s)
  PROVE  IInv' /\ Steady /\ DeliveriesKept
  <1>0. /\ Types /\ DeliveriesType /\ GrantsType /\ PreferencesType /\ HandsType /\ RestType
        /\ \A s \in Sources : Has(s) /\ deliveries[s].status \in Open =>
             deliveries[s].attempts < MaxAttempts
        /\ \A s \in Sources : Has(s) => deliveries[s] \in DeliveryRows
    BY TypesNamed DEF Types, DeliveriesType, Has
  <1>1. UNCHANGED deliveries => DeliveriesType' /\ DeliveriesKept
    BY <1>0 DEF DeliveriesType, DeliveriesKept
  <1>2. UNCHANGED <<grants, preferences, checked>> =>
          /\ GrantsType' /\ GrantsKept /\ PreferencesType'
          /\ workers' \in [Workers -> {Idle} \cup Jobs] => HandsType'
    BY <1>0 DEF GrantsType, GrantsKept, PreferencesType, HandsType
  <1>3. UNCHANGED <<day, consents, merged>> /\ faults' \in 0..MaxFaults => RestType'
    BY <1>0 DEF RestType
  <1>4. faults \in 0..MaxFaults /\ workers \in [Workers -> {Idle} \cup Jobs]
    BY <1>0 DEF RestType, HandsType
  <1>5. ASSUME NEW w \in Workers, NEW s \in Sources, Lease(w, s) PROVE IInv' /\ Steady /\ DeliveriesKept
    <2>1. deliveries[s] \in DeliveryRows /\ deliveries[s].status \in Open
      BY <1>0, <1>5 DEF Lease, Leasable, Open
    <2>2. CASE s \in Marketing /\ ~MayMarket(deliveries[s].member)
      <3>1. /\ deliveries' = Suppress({s})
            /\ UNCHANGED <<day, consents, preferences, grants, checked, workers, merged, faults>>
        BY <1>5, <2>2 DEF Lease
      <3>2. DeliveriesType' /\ DeliveriesKept
        BY <1>0, <3>1, SuppressKeeps
      <3> QED BY <1>2, <1>3, <1>4, <3>1, <3>2, Frame DEF Types
    <2>3. CASE ~(s \in Marketing /\ ~MayMarket(deliveries[s].member))
      <3> DEFINE row == [deliveries[s] EXCEPT !.status = "delivering", !.token = w, !.expired = FALSE]
      <3>1. /\ deliveries' = [deliveries EXCEPT ![s] = row]
            /\ workers' = [workers EXCEPT ![w] = [pc |-> "leased", source |-> s]]
            /\ UNCHANGED <<day, consents, preferences, grants, checked, merged, faults>>
        BY <1>0, <1>5, <2>3 DEF Lease, DeliveriesType
      <3>2. /\ row \in DeliveryRows /\ row.grant = deliveries[s].grant
            /\ row.member = deliveries[s].member /\ row.attempts = deliveries[s].attempts
          /\ row.day = deliveries[s].day
        BY <2>1 DEF DeliveryRows, OrNil, Counted
      <3>3. deliveries[s].attempts < MaxAttempts
        BY <1>0, <2>1, RowsAreThere DEF Has
      <3> HIDE DEF row
      <3>4. DeliveriesType' /\ DeliveriesKept
        BY <1>0, <2>1, <3>1, <3>2, <3>3, RewriteKeeps
      <3>5. workers' \in [Workers -> {Idle} \cup Jobs]
        BY <1>4, <3>1 DEF Jobs
      <3> QED BY <1>2, <1>3, <1>4, <3>1, <3>4, <3>5, Frame DEF Types
    <2> QED BY <2>2, <2>3
  <1>6. ASSUME NEW w \in Workers, NEW s \in Sources, Snapshot(w, s) PROVE IInv' /\ Steady /\ DeliveriesKept
    <2>1. workers' \in [Workers -> {Idle} \cup Jobs]
      BY <1>4, <1>6 DEF Snapshot, Jobs
    <2> QED BY <1>1, <1>2, <1>3, <1>4, <1>6, <2>1, Frame DEF Snapshot, Types
  <1>7. ASSUME NEW w \in Workers, NEW s \in Sources, NEW r \in Results, Send(w, s, r)
        PROVE  IInv' /\ Steady /\ DeliveriesKept
    <2>1. workers' \in [Workers -> {Idle} \cup Jobs]
      BY <1>4, <1>7 DEF Send, Jobs
    <2> QED BY <1>1, <1>2, <1>3, <1>4, <1>7, <2>1, Frame DEF Send, Types
  <1>8. ASSUME NEW w \in Workers, NEW s \in Sources, Record(w, s) PROVE IInv' /\ Steady /\ DeliveriesKept
    <2>1. workers' \in [Workers -> {Idle} \cup Jobs]
      BY <1>4, <1>8 DEF Record
    <2>2. DeliveriesType' /\ DeliveriesKept
      <3>1. CASE Holds(w, s) /\ ~deliveries[s].expired
        <4> DEFINE row == After(deliveries[s], workers[w].result)
        <4>1. deliveries' = [deliveries EXCEPT ![s] = row]
          BY <1>0, <1>8, <3>1 DEF Record, DeliveriesType
        <4>2. deliveries[s] \in DeliveryRows /\ deliveries[s].status \in Open
          BY <1>0, <3>1 DEF Holds, Has, Absent, Open
        <4>3. deliveries[s].attempts < MaxAttempts /\ deliveries[s].attempts \in Nat
          BY <1>0, <4>2, RowsAreThere DEF Has, DeliveryRows
        <4>4. /\ row \in DeliveryRows /\ row.grant = deliveries[s].grant
              /\ row.member = deliveries[s].member /\ row.day = deliveries[s].day
              /\ row.status \in Open => row.attempts < MaxAttempts
          <5> DEFINE n == deliveries[s].attempts + 1
                     status == IF workers[w].result = "accepted" THEN "accepted"
                               ELSE IF workers[w].result = "permanent_failure" \/ n >= MaxAttempts
                               THEN "exhausted" ELSE "failed"
          <5>1. n \in 0..MaxAttempts
            BY <4>3 DEF Sound
          <5>2. status \in Counted /\ (status \in Open => n < MaxAttempts)
            BY <5>1 DEF Counted, Open, Sound
          <5>3. row = [deliveries[s] EXCEPT !.attempts = n, !.token = Nil, !.due = FALSE,
                                            !.status = status]
            BY DEF After
          <5> HIDE DEF row, n, status
          <5>4. row \in DeliveryRows
            BY <4>2, <5>1, <5>2, <5>3 DEF DeliveryRows, OrNil
          <5>5. /\ row.grant = deliveries[s].grant /\ row.member = deliveries[s].member
                /\ row.day = deliveries[s].day /\ row.status = status /\ row.attempts = n
            BY <4>2, <5>3 DEF DeliveryRows
          <5> QED BY <5>2, <5>4, <5>5
        <4> HIDE DEF row
        <4> QED BY <1>0, <4>1, <4>2, <4>4, RewriteKeeps
      <3>2. CASE ~(Holds(w, s) /\ ~deliveries[s].expired)
        BY <1>1, <1>8, <3>2 DEF Record
      <3> QED BY <3>1, <3>2
    <2> QED BY <1>2, <1>3, <1>4, <1>8, <2>1, <2>2, Frame DEF Record, Types
  <1>9. ASSUME NEW w \in Workers, Crash(w) PROVE IInv' /\ Steady /\ DeliveriesKept
    <2>1. workers' \in [Workers -> {Idle} \cup Jobs] /\ faults' \in 0..MaxFaults
      BY <1>4, <1>9 DEF Crash, Sound
    <2> QED BY <1>1, <1>2, <1>3, <1>9, <2>1, Frame DEF Crash, Types
  <1>10. ASSUME NEW s \in Sources, ComesDue(s) PROVE IInv' /\ Steady /\ DeliveriesKept
    <2> DEFINE row == [deliveries[s] EXCEPT !.due = TRUE]
    <2>1. /\ deliveries[s] \in DeliveryRows /\ deliveries[s].status \in Open
          /\ deliveries[s].attempts < MaxAttempts
      BY <1>0, <1>10 DEF ComesDue, Open
    <2>2. deliveries' = [deliveries EXCEPT ![s] = row]
      BY <1>0, <1>10 DEF ComesDue, DeliveriesType
    <2>3. /\ row \in DeliveryRows /\ row.grant = deliveries[s].grant
          /\ row.member = deliveries[s].member /\ row.attempts = deliveries[s].attempts
          /\ row.day = deliveries[s].day
      BY <2>1 DEF DeliveryRows
    <2> HIDE DEF row
    <2>4. DeliveriesType' /\ DeliveriesKept
      BY <1>0, <2>1, <2>2, <2>3, RewriteKeeps
    <2> QED BY <1>2, <1>3, <1>4, <1>10, <2>4, Frame DEF ComesDue, Types
  <1>11. ASSUME NEW s \in Sources, Expires(s) PROVE IInv' /\ Steady /\ DeliveriesKept
    <2> DEFINE row == [deliveries[s] EXCEPT !.expired = TRUE]
    <2>1. /\ deliveries[s] \in DeliveryRows /\ deliveries[s].status \in Open
          /\ deliveries[s].attempts < MaxAttempts
      BY <1>0, <1>11 DEF Expires, Open
    <2>2. deliveries' = [deliveries EXCEPT ![s] = row]
      BY <1>0, <1>11 DEF Expires, DeliveriesType
    <2>3. /\ row \in DeliveryRows /\ row.grant = deliveries[s].grant
          /\ row.member = deliveries[s].member /\ row.attempts = deliveries[s].attempts
          /\ row.day = deliveries[s].day
      BY <2>1 DEF DeliveryRows
    <2> HIDE DEF row
    <2>4. DeliveriesType' /\ DeliveriesKept
      BY <1>0, <2>1, <2>2, <2>3, RewriteKeeps
    <2>5. faults' \in 0..MaxFaults
      BY <1>4, <1>11 DEF Expires, Sound
    <2> QED BY <1>2, <1>3, <1>4, <1>11, <2>4, <2>5, Frame DEF Expires, Types
  <1> QED BY <1>5, <1>6, <1>7, <1>8, <1>9, <1>10, <1>11 DEF Work

\* Every step.
LEMMA EveryStep ==
  ASSUME Sound, IInv, [Next]_vars
  PROVE  IInv' /\ Steady
  <1>1. CASE \E s, t \in Members : Merge(s, t)
    BY <1>1, MergeStep
  <1> QED BY <1>1, MemberSteps, MessageSteps, WorkSteps DEF Next

\* Only a worker that has just looked again begins to send.
LEMMA SendsLook ==
  ASSUME IInv, [Next]_vars, NEW w \in Workers,
         workers'[w].pc = "sending", workers[w].pc # "sending", workers'[w].source \in Marketing
  PROVE  MayMarket(deliveries[workers'[w].source].member)
  <1>0. workers \in [Workers -> {Idle} \cup Jobs]
    BY DEF IInv, Hands
  <1>1. workers' # workers
    OBVIOUS
  <1>2. \/ \E v \in Workers, s \in Sources : Work(v, s)
        \/ \E v \in Workers : Crash(v)
    BY <1>1 DEF Next, vars, NextDay, GiveConsent, WithdrawConsent, BeginSubscribe, Subscribe,
       GrantService, Unsubscribe, RollBack, SetService, Merge, Notify, BeginMarketing,
       CreateMarketing, ComesDue, Expires
  <1>3. ASSUME NEW v \in Workers, NEW s \in Sources, Snapshot(v, s)
        PROVE  MayMarket(deliveries[workers'[w].source].member)
    <2> DEFINE may == Holds(v, s) /\ (s \in Marketing => MayMarket(deliveries[s].member))
               new == IF may THEN [pc |-> "sending", source |-> s] ELSE Idle
    <2>1. workers' = [workers EXCEPT ![v] = new]
      BY <1>3 DEF Snapshot
    <2>2. (may /\ new = [pc |-> "sending", source |-> s]) \/ new.pc # "sending"
      BY DEF Idle
    <2> HIDE DEF new
    <2>3. workers'[v] = new /\ \A u \in Workers \ {v} : workers'[u] = workers[u]
      BY <1>0, <2>1
    <2>4. w = v /\ workers'[w] = new /\ new.pc = "sending"
      BY <2>3
    <2>5. may /\ workers'[w].source = s
      BY <2>2, <2>4
    <2> QED BY <2>5
  <1>4. ASSUME NEW v \in Workers, NEW row, workers' = [workers EXCEPT ![v] = row],
               row.pc # "sending"
        PROVE  FALSE
    BY <1>0, <1>4
  <1>5. ASSUME NEW v \in Workers, NEW s \in Sources, Lease(v, s) PROVE FALSE
    <2>1. workers' = [workers EXCEPT ![v] = [pc |-> "leased", source |-> s]]
      BY <1>1, <1>5 DEF Lease
    <2> QED BY <1>4, <2>1
  <1>6. ASSUME NEW v \in Workers, NEW s \in Sources, NEW r \in Results, Send(v, s, r) PROVE FALSE
    BY <1>4, <1>6 DEF Send
  <1>7. ASSUME NEW v \in Workers, NEW s \in Sources, Record(v, s) PROVE FALSE
    BY <1>4, <1>7 DEF Record, Idle
  <1>8. ASSUME NEW v \in Workers, Crash(v) PROVE FALSE
    BY <1>4, <1>8 DEF Crash, Idle
  <1> QED BY <1>2, <1>3, <1>5, <1>6, <1>7, <1>8 DEF Work

\* Nobody has a message at the start.
LEMMA InvInit ==
  ASSUME Sound, Init
  PROVE  IInv
  <1>1. DeliveriesType /\ \A s \in Sources : ~Has(s)
    BY DEF Init, DeliveriesType, Has
  <1>2. GrantsType /\ HandsType
    BY DEF Init, GrantsType, GrantRows, HandsType
  <1>3. PreferencesType
    BY DEF Init, PreferencesType, PreferenceRows, NoPreference, OrNil
  <1>4. RestType
    BY DEF Init, RestType, OrNil, Sound
  <1>5. Spent
    BY <1>1 DEF Spent
  <1> QED BY <1>1, <1>2, <1>3, <1>4, <1>5, TypesNamed DEF Types
-----------------------------------------------------------------------------
(* The ration                                                              *)

Window(m, from, d) == {s \in MarketingOf(m) : /\ deliveries[s].status \in Counted
                                              /\ deliveries[s].day \in from..d}
Past == \A s \in Sources : Has(s) => deliveries[s].day <= day
RInv == IInv /\ Past /\ Ration

\* The ration, by windows.
LEMMA RationByWindow ==
  Ration <=> \A m \in Members : (\A n \in Members : merged[n] # m) => \A d \in 0..day :
    Cardinality(Window(m, d, d)) <= DailyMax /\ Cardinality(Window(m, d - Week + 1, d)) <= WeeklyMax
  BY DEF Ration, Window

\* Fewer messages need no more room.
LEMMA SmallerFits ==
  ASSUME NEW S, IsFiniteSet(S), NEW T, T \subseteq S, NEW k \in Nat, Cardinality(S) <= k
  PROVE  Cardinality(T) <= k
  BY FS_Subset, FS_CardinalityType

\* A window is of finitely many campaigns.
LEMMA WindowFinite ==
  ASSUME Rationed, NEW m, NEW from, NEW d
  PROVE  IsFiniteSet(Window(m, from, d))
  <1>1. Window(m, from, d) \subseteq Marketing
    BY DEF Window, MarketingOf
  <1> QED BY <1>1, FS_Subset DEF Rationed

\* A step after which no member who keeps its own messages has more that count.
Fewer ==
  \A m \in Members : (\A n \in Members : merged'[n] # m) =>
    /\ \A n \in Members : merged[n] # m
    /\ \A s \in Marketing :
         Has(s)' /\ deliveries'[s].member = m /\ deliveries'[s].status \in Counted =>
           /\ Has(s) /\ deliveries[s].member = m /\ deliveries[s].status \in Counted
           /\ deliveries'[s].day = deliveries[s].day

\* Such a step keeps the ration, on a new day too.
LEMMA FewerStep ==
  ASSUME Rationed, IInv, IInv', Past, Past', Ration, Fewer, day' = day \/ day' = day + 1
  PROVE  Ration'
  <1>0. /\ day \in Nat /\ day' \in Nat /\ Marketing \subseteq Sources
        /\ \A s \in Sources : Has(s) => deliveries[s].day \in Nat
    BY DEF IInv, TypeOK, Has, Sources
  <1> SUFFICES ASSUME NEW m \in Members, \A n \in Members : merged'[n] # m, NEW d \in 0..day'
               PROVE  /\ Cardinality(Window(m, d, d)') <= DailyMax
                      /\ Cardinality(Window(m, d - Week + 1, d)') <= WeeklyMax
    BY DEF Ration, Window
  <1>1. ASSUME NEW c \in 0..day
        PROVE  /\ Cardinality(Window(m, c, c)) <= DailyMax
               /\ Cardinality(Window(m, c - Week + 1, c)) <= WeeklyMax
    BY <1>1, RationByWindow DEF Fewer
  <1>2. ASSUME NEW from \in Int, NEW s \in Window(m, from, d)'
        PROVE  /\ s \in MarketingOf(m) /\ deliveries[s].status \in Counted
               /\ deliveries[s].day \in from..d /\ deliveries[s].day <= day
    BY <1>0, <1>2 DEF Window, MarketingOf, Fewer, Past, Has
  <1>3. d \in Int /\ d - Week + 1 \in Int /\ DailyMax \in Nat /\ WeeklyMax \in Nat /\ Week \in Nat
    BY <1>0 DEF Rationed
  <1>4. CASE d \in 0..day
    <2>1. Window(m, d, d)' \subseteq Window(m, d, d)
      BY <1>2, <1>3 DEF Window
    <2>2. Window(m, d - Week + 1, d)' \subseteq Window(m, d - Week + 1, d)
      BY <1>2, <1>3 DEF Window
    <2>3. Cardinality(Window(m, d, d)) <= DailyMax
          /\ Cardinality(Window(m, d - Week + 1, d)) <= WeeklyMax
      BY <1>1, <1>4
    <2>4. IsFiniteSet(Window(m, d, d)) /\ IsFiniteSet(Window(m, d - Week + 1, d))
      BY WindowFinite
    <2>5. Cardinality(Window(m, d, d)') <= DailyMax
      BY <1>3, <2>1, <2>3, <2>4, SmallerFits
    <2>6. Cardinality(Window(m, d - Week + 1, d)') <= WeeklyMax
      BY <1>3, <2>2, <2>3, <2>4, SmallerFits
    <2> QED BY <2>5, <2>6
  <1>5. CASE d \notin 0..day
    <2>1. d = day + 1
      BY <1>0, <1>5
    <2>2. Window(m, d, d)' = {}
      BY <1>0, <1>2, <1>3, <2>1
    <2>3. Window(m, d - Week + 1, d)' \subseteq Window(m, day - Week + 1, day)
      <3>1. ASSUME NEW s \in Window(m, d - Week + 1, d)'
            PROVE  s \in Window(m, day - Week + 1, day)
        <4>1. /\ s \in MarketingOf(m) /\ deliveries[s].status \in Counted
              /\ deliveries[s].day \in (d - Week + 1)..d /\ deliveries[s].day <= day
          BY <1>2, <1>3, <3>1
        <4>2. deliveries[s].day \in (day - Week + 1)..day
          BY <1>0, <1>3, <2>1, <4>1
        <4> QED BY <4>1, <4>2 DEF Window
      <3> QED BY <3>1
    <2>4. Cardinality(Window(m, day - Week + 1, day)) <= WeeklyMax
      BY <1>0, <1>1
    <2>5. Cardinality(Window(m, d - Week + 1, d)') <= WeeklyMax
      BY <1>3, <2>3, <2>4, WindowFinite, SmallerFits
    <2> QED BY <1>3, <2>2, <2>5, FS_EmptySet
  <1> QED BY <1>4, <1>5

\* A campaign's message, the one step that adds to what counts.
LEMMA CreateStep ==
  ASSUME Sound, Rationed, IInv, IInv', Past, Ration, NEW p \in Members, NEW quiet \in BOOLEAN,
         CreateMarketing(p, quiet)
  PROVE  Past' /\ Ration'
  <1> DEFINE s == checked[p].source
  <1>0. /\ day \in Nat /\ Marketing \subseteq Sources
        /\ \A u \in Sources : Has(u) => deliveries[u].day \in Nat
        /\ deliveries \in [Sources -> {Absent} \cup DeliveryRows]
        /\ DailyMax \in Nat /\ WeeklyMax \in Nat /\ Week \in Nat
    BY DEF IInv, TypeOK, Has, Sources, DeliveryRows, Rationed
  <1>1. s \in Marketing /\ ~Has(s) /\ UNCHANGED <<day, merged>>
    BY DEF CreateMarketing, IInv, Hands, Checks, Idle
  <1>2. PICK row :
          /\ deliveries' = [deliveries EXCEPT ![s] = row]
          /\ row.status \in {"suppressed", "authorization_missing", "pending"}
          /\ row.member = p /\ row.day = day
          /\ row.status = "pending" => ~Limited(p)
    <2> DEFINE Fine(new) ==
          /\ deliveries' = [deliveries EXCEPT ![s] = new]
          /\ new.status \in {"suppressed", "authorization_missing", "pending"}
          /\ new.member = p /\ new.day = day
          /\ new.status = "pending" => ~Limited(p)
    <2>1. Made(s, p, "marketing", Limited(p), ~quiet)
      BY DEF CreateMarketing
    <2>2. \A status, g, due : /\ Row(p, status, g, due).status = status
                             /\ Row(p, status, g, due).member = p
                             /\ Row(p, status, g, due).day = day
      BY DEF Row
    <2>3. CASE Limited(p)
      <3>1. deliveries' = [deliveries EXCEPT ![s] = Row(p, "suppressed", Nil, FALSE)]
        BY <2>1, <2>3 DEF Made
      <3> DEFINE new == Row(p, "suppressed", Nil, FALSE)
      <3>2. new.status = "suppressed" /\ new.member = p /\ new.day = day
        BY DEF Row
      <3> HIDE DEF new
      <3>3. Fine(new)
        BY <3>1, <3>2 DEF new
      <3> QED BY <3>3
    <2>4. CASE ~Limited(p) /\ Usable(p, "marketing") = {}
      <3>1. deliveries' = [deliveries EXCEPT ![s] = Row(p, "authorization_missing", Nil, FALSE)]
        BY <2>1, <2>4 DEF Made
      <3> DEFINE new == Row(p, "authorization_missing", Nil, FALSE)
      <3>2. new.status = "authorization_missing" /\ new.member = p /\ new.day = day
        BY DEF Row
      <3> HIDE DEF new
      <3>3. Fine(new)
        BY <3>1, <3>2 DEF new
      <3> QED BY <3>3
    <2>5. ASSUME NEW g \in Usable(p, "marketing"), ~Limited(p),
                 deliveries' = [deliveries EXCEPT ![s] = Row(p, "pending", g, ~quiet)]
          PROVE  \E new : Fine(new)
      <3>1. Fine(Row(p, "pending", g, ~quiet))
        BY <2>2, <2>5
      <3> QED BY <3>1
    <2> QED BY <2>1, <2>3, <2>4, <2>5 DEF Made
  <1> HIDE DEF s
  <1>4. deliveries'[s] = row /\ \A u \in Sources \ {s} : deliveries'[u] = deliveries[u]
    BY <1>0, <1>1, <1>2
  <1>5. Past'
    BY <1>0, <1>1, <1>2, <1>4 DEF Past, Has
  <1>6. CASE row.status # "pending"
    <2>1. Fewer
      BY <1>0, <1>1, <1>2, <1>2, <1>4, <1>6 DEF Fewer, Counted, Has
    <2> QED BY <1>1, <1>5, <2>1, FewerStep
  <1>7. CASE row.status = "pending"
    <2>1. CountSince(p, day) < DailyMax /\ CountSince(p, day - Week + 1) < WeeklyMax
          /\ \A from \in Int : CountSince(p, from) \in Nat
      <3>1. \A from \in Int : CountSince(p, from) \in Nat
        <4>1. ASSUME NEW from \in Int
              PROVE  IsFiniteSet({u \in MarketingOf(p) : deliveries[u].status \in Counted
                                                          /\ deliveries[u].day >= from})
          <5>1. {u \in MarketingOf(p) : deliveries[u].status \in Counted
                   /\ deliveries[u].day >= from} \subseteq Marketing
            BY DEF MarketingOf
          <5> QED BY <5>1, FS_Subset DEF Rationed
        <4> QED BY <4>1, FS_CardinalityType DEF CountSince
      <3> QED BY <1>0, <1>2, <1>7, <3>1 DEF Limited
    <2>2. ASSUME NEW from \in Int
          PROVE  Cardinality(Window(p, from, day)) = CountSince(p, from)
      <3>1. Window(p, from, day) =
              {u \in MarketingOf(p) : deliveries[u].status \in Counted /\ deliveries[u].day >= from}
        BY <1>0 DEF Window, MarketingOf, Past
      <3> QED BY <3>1 DEF CountSince
    <2>3. ASSUME NEW from \in Int, NEW k \in Nat, Cardinality(Window(p, from, day)) < k
          PROVE  Cardinality(Window(p, from, day)') <= k
      <3>1. Window(p, from, day)' \subseteq Window(p, from, day) \cup {s}
        BY <1>0, <1>1, <1>2, <1>4 DEF Window, MarketingOf, Has
      <3>2. IsFiniteSet(Window(p, from, day))
        BY WindowFinite
      <3>3. /\ IsFiniteSet(Window(p, from, day) \cup {s})
            /\ Cardinality(Window(p, from, day) \cup {s}) =
                 IF s \in Window(p, from, day) THEN Cardinality(Window(p, from, day))
                                               ELSE Cardinality(Window(p, from, day)) + 1
        BY <3>2, FS_AddElement
      <3>4. Cardinality(Window(p, from, day)) \in Nat
        BY <3>2, FS_CardinalityType
      <3>5. Cardinality(Window(p, from, day) \cup {s}) <= k
        BY <2>3, <3>3, <3>4
      <3> QED BY <3>1, <3>3, <3>5, SmallerFits
    <2>4. ASSUME NEW m \in Members, NEW from \in Int, NEW d \in Int, m # p \/ d < day
          PROVE  Window(m, from, d)' \subseteq Window(m, from, d)
      BY <1>0, <1>1, <1>2, <1>4, <2>4 DEF Window, MarketingOf, Has
    <2>5. ASSUME NEW m \in Members, \A n \in Members : merged'[n] # m, NEW d \in 0..day'
          PROVE  /\ Cardinality(Window(m, d, d)') <= DailyMax
                 /\ Cardinality(Window(m, d - Week + 1, d)') <= WeeklyMax
      <3>1. d \in Int /\ d - Week + 1 \in Int /\ d \in 0..day
        BY <1>0, <1>1
      <3>2. /\ Cardinality(Window(m, d, d)) <= DailyMax
            /\ Cardinality(Window(m, d - Week + 1, d)) <= WeeklyMax
        BY <1>1, <2>5, <3>1, RationByWindow
      <3>3. CASE m # p \/ d < day
        <4>1. /\ Window(m, d, d)' \subseteq Window(m, d, d)
              /\ Window(m, d - Week + 1, d)' \subseteq Window(m, d - Week + 1, d)
          BY <2>4, <3>1, <3>3
        <4>2. IsFiniteSet(Window(m, d, d)) /\ IsFiniteSet(Window(m, d - Week + 1, d))
          BY WindowFinite
        <4>3. Cardinality(Window(m, d, d)') <= DailyMax
          BY <1>0, <3>2, <4>1, <4>2, SmallerFits
        <4>4. Cardinality(Window(m, d - Week + 1, d)') <= WeeklyMax
          BY <1>0, <3>2, <4>1, <4>2, SmallerFits
        <4> QED BY <4>3, <4>4
      <3>4. CASE m = p /\ d = day
        <4>1. Cardinality(Window(p, d, day)) < DailyMax
              /\ Cardinality(Window(p, d - Week + 1, day)) < WeeklyMax
          BY <2>1, <2>2, <3>1, <3>4
        <4>2. Cardinality(Window(p, d, day)') <= DailyMax
              /\ Cardinality(Window(p, d - Week + 1, day)') <= WeeklyMax
          BY <1>0, <2>3, <3>1, <4>1
        <4>3. Window(m, d, d)' = Window(p, d, day)'
              /\ Window(m, d - Week + 1, d)' = Window(p, d - Week + 1, day)'
          BY <1>1, <3>4 DEF Window
        <4> QED BY <4>2, <4>3
      <3> QED BY <1>0, <3>1, <3>3, <3>4
    <2> QED BY <1>5, <2>5 DEF Ration, Window
  <1> QED BY <1>5, <1>6, <1>7

\* Every step keeps the ration.
LEMMA RationStep ==
  ASSUME Sound, Rationed, RInv, [Next]_vars
  PROVE  RInv'
  <1>0. IInv /\ Past /\ Ration /\ IInv' /\ Marketing \subseteq Sources
        /\ deliveries \in [Sources -> {Absent} \cup DeliveryRows] /\ day \in Nat
    BY EveryStep DEF RInv, Sources, IInv, TypeOK, DeliveryRows
  <1>1. ASSUME DeliveriesKept, UNCHANGED merged, day' = day \/ day' = day + 1 PROVE RInv'
    <2>1. ASSUME NEW s \in Sources, Has(s)'
          PROVE  /\ Has(s) /\ deliveries'[s].member = deliveries[s].member
                 /\ deliveries'[s].day = deliveries[s].day
                 /\ deliveries'[s].status \in Counted => deliveries[s].status \in Counted
      BY <1>1, <2>1, RowsAreThere DEF DeliveriesKept, Has, Open, Counted
    <2>2. \A s \in Sources : Has(s) => deliveries[s].day \in Nat
      BY <1>0 DEF Has, DeliveryRows
    <2>3. Past'
      BY <1>0, <1>1, <2>1, <2>2 DEF Past
    <2>4. Fewer
      BY <1>0, <1>1, <2>1 DEF Fewer
    <2> QED BY <1>0, <1>1, <2>3, <2>4, FewerStep DEF RInv
  <1>2. ASSUME \/ NextDay \/ UNCHANGED vars
               \/ \E k \in Consents : GiveConsent(k) \/ WithdrawConsent(k)
               \/ \E m \in Members, k \in Consents : BeginSubscribe(m, k)
               \/ \E m \in Members, g \in Grants : Subscribe(m, g) \/ GrantService(m, g)
               \/ \E m \in Members : Unsubscribe(m) \/ RollBack(m)
               \/ \E m \in Members, on \in BOOLEAN : SetService(m, on)
        PROVE  RInv'
    <2>1. DeliveriesKept
      BY <1>0, <1>2, MemberSteps
    <2>2. UNCHANGED merged /\ (day' = day \/ day' = day + 1)
      BY <1>2 DEF NextDay, vars, GiveConsent, WithdrawConsent, BeginSubscribe, Subscribe,
         GrantService, Unsubscribe, RollBack, SetService
    <2> QED BY <1>1, <2>1, <2>2
  <1>3. ASSUME \/ \E w \in Workers, s \in Sources : Work(w, s)
               \/ \E w \in Workers : Crash(w)
               \/ \E s \in Sources : ComesDue(s) \/ Expires(s)
        PROVE  RInv'
    <2>1. DeliveriesKept
      BY <1>0, <1>3, WorkSteps
    <2>2. UNCHANGED <<merged, day>>
      BY <1>3 DEF Work, Lease, Snapshot, Send, Record, Crash, ComesDue, Expires
    <2> QED BY <1>1, <2>1, <2>2
  <1>4. ASSUME NEW s \in Marketing, NEW m \in Members, BeginMarketing(s, m) PROVE RInv'
    BY <1>1, <1>4 DEF BeginMarketing, DeliveriesKept
  <1>5. ASSUME NEW m \in Members, NEW quiet \in BOOLEAN, CreateMarketing(m, quiet) PROVE RInv'
    BY <1>0, <1>5, CreateStep DEF RInv
  <1>6. ASSUME NEW s \in Service, NEW m \in Members, Notify(s, m) PROVE RInv'
    <2>1. PICK status, g, due : deliveries' = [deliveries EXCEPT ![s] = Row(m, status, g, due)]
      BY <1>6 DEF Notify, Made
    <2>2. s \in Sources /\ s \notin Marketing /\ UNCHANGED <<merged, day>>
      BY <1>6 DEF Notify, Sound, Sources
    <2>3. deliveries'[s].day = day /\ \A u \in Sources \ {s} : deliveries'[u] = deliveries[u]
      BY <1>0, <2>1, <2>2 DEF Row
    <2>4. Past'
      BY <1>0, <2>2, <2>3 DEF Past, Has
    <2>5. Fewer
      BY <1>0, <2>2, <2>3 DEF Fewer, Has
    <2> QED BY <1>0, <2>2, <2>4, <2>5, FewerStep DEF RInv
  <1>7. ASSUME NEW m \in Members, NEW t \in Members, Merge(m, t) PROVE RInv'
    <2>1. ASSUME NEW s \in Sources, Has(s)'
          PROVE  /\ Has(s) /\ deliveries'[s].day = deliveries[s].day
                 /\ deliveries'[s].member = IF deliveries[s].member = m THEN t
                                            ELSE deliveries[s].member
                 /\ deliveries'[s].status \in Counted => deliveries[s].status \in Counted
      BY <1>0, <1>7, <2>1, MergeStep
    <2>2. /\ m # t /\ merged[m] = Nil /\ day' = day
          /\ merged'[m] = t /\ \A n \in Members \ {m} : merged'[n] = merged[n]
      BY <1>0, <1>7 DEF Merge, Active, IInv, TypeOK
    <2>3. Past'
      BY <2>1, <2>2, <1>0 DEF Past
    <2>4. Fewer
      <3> SUFFICES ASSUME NEW p \in Members, \A n \in Members : merged'[n] # p
                   PROVE  /\ \A n \in Members : merged[n] # p
                          /\ \A s \in Marketing :
                               Has(s)' /\ deliveries'[s].member = p
                                 /\ deliveries'[s].status \in Counted =>
                                 /\ Has(s) /\ deliveries[s].member = p
                                 /\ deliveries[s].status \in Counted
                                 /\ deliveries'[s].day = deliveries[s].day
        BY DEF Fewer
      <3>1. p # t /\ p # Nil
        BY <2>2 DEF Sound
      <3> QED BY <1>0, <2>1, <2>2, <3>1
    <2> QED BY <1>0, <2>2, <2>3, <2>4, FewerStep DEF RInv
  <1> QED BY <1>2, <1>3, <1>4, <1>5, <1>6, <1>7 DEF Next
-----------------------------------------------------------------------------
(* The theorems                                                            *)

\* The invariant.
THEOREM Invariance == ASSUME Sound PROVE Spec => []IInv
  <1>1. Init => IInv
    BY InvInit
  <1>2. IInv /\ [Next]_vars => IInv'
    BY EveryStep
  <1> QED BY <1>1, <1>2, PTL DEF Spec

\* Type correctness; attempts never pass MaxAttempts.
THEOREM TypeCorrect == ASSUME Sound PROVE Spec => []TypeOK
  <1>1. IInv => TypeOK
    BY DEF IInv
  <1> QED BY <1>1, Invariance, PTL

\* member_channel_grants: every message that may be sent has an authorisation of its
\* member and purpose, and no two messages have the same one, through merges too.
THEOREM GrantPaysOnce == ASSUME Sound PROVE Spec => []GrantsPayOnce
  <1>1. IInv => GrantsPayOnce
    BY DEF IInv, Spent, GrantsPayOnce, Purpose
  <1> QED BY <1>1, Invariance, PTL

\* Withdrawal is for good: what it stopped is never recorded as accepted or taken up
\* again, by the worker that was sending it or by another.
THEOREM WithdrawalStands == ASSUME Sound PROVE Spec => SuppressedStays
  <1>1. IInv /\ [Next]_vars => Steady
    BY EveryStep
  <1>2. Spec => [][Steady]_vars
    <2>1. IInv /\ [Next]_vars => [Steady]_vars
      BY <1>1
    <2> QED BY <2>1, Invariance, PTL DEF Spec
  <1> QED BY <1>2 DEF SuppressedStays, Steady

\* The checks of lease and snapshot: no worker begins to send marketing to a member whose
\* preference or consent no longer stands.
THEOREM SendsAreStanding == ASSUME Sound PROVE Spec => SendsStand
  <1> DEFINE A == \A w \in Workers :
                 workers'[w].pc = "sending" /\ workers'[w].source \in Marketing
                   /\ workers[w].pc # "sending" =>
                     MayMarket(deliveries[workers'[w].source].member)
  <1>1. IInv /\ [Next]_vars => [A]_vars
    BY SendsLook
  <1>2. Spec => [][A]_vars
    BY <1>1, Invariance, PTL DEF Spec
  <1> QED BY <1>2 DEF SendsStand

\* create_member_marketing_notification_authority: what may still reach a member, or has,
\* stays within the ration of any day and any week, whoever makes it, for every ration.
THEOREM RationIsKept == ASSUME Sound, Rationed PROVE Spec => []Ration
  <1>1. Init => RInv
    <2>1. ASSUME Init PROVE RInv
      <3>1. IInv /\ \A s \in Sources : ~Has(s)
        BY <2>1, InvInit DEF Init, Has
      <3>2. \A m, from, d : Window(m, from, d) = {}
        BY <3>1 DEF Window, MarketingOf, Sources
      <3>3. Ration
        BY <3>2, RationByWindow, FS_EmptySet DEF Rationed
      <3> QED BY <3>1, <3>3 DEF RInv, Past
    <2> QED BY <2>1
  <1>2. RInv /\ [Next]_vars => RInv'
    BY RationStep
  <1>3. RInv => Ration
    BY DEF RInv
  <1> QED BY <1>1, <1>2, <1>3, PTL DEF Spec
-----------------------------------------------------------------------------
(* Messages and authorisations implement MessagePromise                    *)

PromiseStep == Promise!Next \/ UNCHANGED <<Messages, grants>>

\* How a row shows: open, or as it ended.
LEMMA ShownOf ==
  /\ \A row \in DeliveryRows :
       /\ row # Absent /\ row.attempts \in 0..MaxAttempts /\ row.member \in Members
       /\ row.status \in Open => Shown(row) = Promise!In("open", row.attempts, row.member)
       /\ row.status \notin Open =>
            /\ Shown(row) = Promise!In(row.status, row.attempts, row.member)
            /\ row.status \notin {"open", "none"}
       /\ Shown(row) # Promise!None /\ Shown(row).member = row.member
       /\ Shown(row).state = "open" <=> row.status \in Open
  /\ Shown(Absent) = Promise!None
  <1>1. Shown(Absent) = Promise!None
    BY DEF Shown, Promise!None
  <1>2. ASSUME NEW row \in DeliveryRows
        PROVE  /\ row # Absent /\ row.attempts \in 0..MaxAttempts /\ row.member \in Members
               /\ row.status \in Open => Shown(row) = Promise!In("open", row.attempts, row.member)
               /\ row.status \notin Open =>
                    /\ Shown(row) = Promise!In(row.status, row.attempts, row.member)
                    /\ row.status \notin {"open", "none"}
    BY RowsAreThere DEF Shown, Promise!In, DeliveryRows, Counted
  <1>3. \A state, n, m : /\ Promise!In(state, n, m).state = state
                         /\ Promise!In(state, n, m).member = m
    BY DEF Promise!In
  <1>4. Promise!None.state = "none"
    BY DEF Promise!None
  <1>5. ASSUME NEW row \in DeliveryRows
        PROVE  /\ Shown(row) # Promise!None /\ Shown(row).member = row.member
               /\ Shown(row).state = "open" <=> row.status \in Open
    <2>1. CASE row.status \in Open
      <3>1. Shown(row).state = "open" /\ Shown(row).member = row.member
        BY <1>2, <1>3, <2>1
      <3> QED BY <1>4, <2>1, <3>1
    <2>2. CASE row.status \notin Open
      <3>1. /\ Shown(row).state = row.status /\ Shown(row).member = row.member
            /\ row.status \notin {"open", "none"}
        BY <1>2, <1>3, <2>2
      <3> QED BY <1>4, <2>2, <3>1
    <2> QED BY <2>1, <2>2
  <1> QED BY <1>1, <1>2, <1>5

\* A source shows as none, or as the row it has.
LEMMA MessageOf ==
  ASSUME DeliveriesType, NEW s \in Sources
  PROVE  /\ Messages[s] = Shown(deliveries[s])
         /\ Messages[s] = Promise!None <=> ~Has(s)
         /\ Has(s) => deliveries[s] \in DeliveryRows /\ Messages[s].member = deliveries[s].member
         /\ Messages[s].state = "open" <=> Has(s) /\ deliveries[s].status \in Open
  <1>1. Messages[s] = Shown(deliveries[s])
    BY DEF Messages
  <1>2. CASE Has(s)
    <2>1. deliveries[s] \in DeliveryRows
      BY <1>2 DEF DeliveriesType, Has
    <2> QED BY <1>1, <1>2, <2>1, ShownOf
  <1>3. CASE ~Has(s)
    <2>1. Messages[s] = Promise!None
      BY <1>1, <1>3, ShownOf DEF Has
    <2> QED BY <1>1, <1>3, <2>1 DEF Promise!None
  <1> QED BY <1>2, <1>3

\* A delivery that is made or rewritten is one message that shows anew.
LEMMA RewriteShows ==
  ASSUME DeliveriesType, NEW s \in Sources, NEW row, deliveries' = [deliveries EXCEPT ![s] = row]
  PROVE  Messages' = [Messages EXCEPT ![s] = Shown(row)]
  <1>1. \A u \in Sources : deliveries'[u] = IF u = s THEN row ELSE deliveries[u]
    BY DEF DeliveriesType
  <1>2. Messages' = [u \in Sources |-> Shown(deliveries'[u])]
    BY DEF Messages
  <1>3. Messages = [u \in Sources |-> Shown(deliveries[u])]
    BY DEF Messages
  <1> QED BY <1>1, <1>2, <1>3

\* What Suppress stops is stopped, and nothing else.
LEMMA SuppressShows ==
  ASSUME DeliveriesType, NEW S, deliveries' = Suppress(S)
  PROVE  Messages' = Promise!Stop({s \in Sources : s \in S /\ Messages[s].state = "open"})
  <1> DEFINE T == {s \in Sources : s \in S /\ Messages[s].state = "open"}
  <1>1. ASSUME NEW s \in Sources
        PROVE  Shown(deliveries'[s]) =
                 IF s \in T THEN Promise!In("suppressed", Messages[s].tries, Messages[s].member)
                 ELSE Messages[s]
    <2>1. deliveries'[s] = IF s \in S /\ deliveries[s].status \in Open
                           THEN Stopped(deliveries[s]) ELSE deliveries[s]
      BY DEF Suppress
    <2>2. CASE s \in T
      <3>1. Has(s) /\ deliveries[s].status \in Open /\ deliveries[s] \in DeliveryRows
        BY <2>2, MessageOf
      <3>2. /\ Stopped(deliveries[s]) \in DeliveryRows
            /\ Stopped(deliveries[s]).status = "suppressed"
            /\ Stopped(deliveries[s]).member = deliveries[s].member
            /\ Stopped(deliveries[s]).attempts = deliveries[s].attempts
        BY <3>1, StoppedType DEF Stopped, DeliveryRows
      <3>3. Shown(Stopped(deliveries[s])) =
              Promise!In("suppressed", deliveries[s].attempts, deliveries[s].member)
        BY <3>2, ShownOf DEF Open
      <3>4. Messages[s] = Promise!In("open", deliveries[s].attempts, deliveries[s].member)
        BY <3>1, MessageOf, ShownOf
      <3>5. /\ Messages[s].tries = deliveries[s].attempts
            /\ Messages[s].member = deliveries[s].member
        BY <3>4 DEF Promise!In
      <3> QED BY <2>1, <2>2, <3>1, <3>3, <3>5
    <2>3. CASE s \notin T
      <3>1. deliveries'[s] = deliveries[s]
        <4>1. CASE Has(s)
          BY <2>1, <2>3, <4>1, MessageOf
        <4>2. CASE ~Has(s)
          BY <2>1, <4>2 DEF Has, Absent, Open
        <4> QED BY <4>1, <4>2
      <3> QED BY <2>3, <3>1, MessageOf
    <2> QED BY <2>2, <2>3
  <1>2. Messages' = [s \in Sources |-> Shown(deliveries'[s])]
    BY DEF Messages
  <1> HIDE DEF T
  <1>3. Messages' = Promise!Stop(T)
    BY <1>1, <1>2 DEF Promise!Stop, Promise!Sources, Sources
  <1> QED BY <1>3 DEF T

\* Members withdraw: marketing they were promised is stopped, their authorisations go.
LEMMA WithdrawShows ==
  ASSUME Sound, IInv, NEW M \in SUBSET Members, NEW S,
         S \subseteq UNION {MarketingOf(m) : m \in M}, deliveries' = Suppress(S),
         grants' = [g \in Grants |->
           IF \E m \in M : RevokeGrants(m)[g] # grants[g]
           THEN [grants[g] EXCEPT !.status = "revoked"] ELSE grants[g]]
  PROVE  PromiseStep
  <1> DEFINE T == {s \in Sources : s \in S /\ Messages[s].state = "open"}
  <1>0. DeliveriesType /\ GrantsType
    BY TypesNamed DEF Types
  <1>1. Messages' = Promise!Stop(T)
    BY <1>0, SuppressShows
  <1>2. T \subseteq Promise!OpenTo(M) /\ T \in SUBSET Marketing
    <2>1. ASSUME NEW s \in T PROVE s \in Promise!OpenTo(M)
      <3>1. PICK m \in M : s \in MarketingOf(m)
        OBVIOUS
      <3>2. s \in Marketing /\ Has(s) /\ deliveries[s].member = m /\ s \in Sources
        BY <3>1 DEF MarketingOf
      <3> QED BY <1>0, <3>2, MessageOf DEF Promise!OpenTo
    <2> QED BY <2>1 DEF Promise!OpenTo
  <1>3. ASSUME NEW g \in Grants
        PROVE  grants'[g] = IF Promise!Unspent(g) /\ grants[g].member \in M
                            THEN Promise!Grant("revoked", grants[g].member, "marketing")
                            ELSE grants[g]
    <2>1. \A m : RevokeGrants(m)[g] =
            IF grants[g].status = "available" /\ grants[g].member = m
                 /\ grants[g].purpose = "marketing"
            THEN [grants[g] EXCEPT !.status = "revoked"] ELSE grants[g]
      BY DEF RevokeGrants
    <2>2. CASE grants[g].status = "available"
      <3>1. grants[g] \in [status : {"available", "consumed", "revoked"}, member : Members,
                           purpose : {"marketing", "service"}]
        BY <1>0, <2>2 DEF GrantsType, GrantRows
      <3>2. /\ [grants[g] EXCEPT !.status = "revoked"] # grants[g]
            /\ [grants[g] EXCEPT !.status = "revoked"] =
                 Promise!Grant("revoked", grants[g].member, grants[g].purpose)
        BY <2>2, <3>1 DEF Promise!Grant
      <3>3. (\E m \in M : RevokeGrants(m)[g] # grants[g]) <=>
              grants[g].purpose = "marketing" /\ grants[g].member \in M
        BY <2>1, <2>2, <3>2
      <3> QED BY <2>2, <3>2, <3>3 DEF Promise!Unspent
    <2>3. CASE grants[g].status # "available"
      BY <2>1, <2>3 DEF Promise!Unspent
    <2> QED BY <2>2, <2>3
  <1>4. grants' = [g \in Grants |->
          IF Promise!Unspent(g) /\ grants[g].member \in M
          THEN Promise!Grant("revoked", grants[g].member, "marketing") ELSE grants[g]]
    BY <1>3
  <1> HIDE DEF T
  <1>5. Promise!Withdraw(M, T)
    BY <1>1, <1>2, <1>4 DEF Promise!Withdraw
  <1> QED BY <1>2, <1>5 DEF Promise!Next, PromiseStep

\* A message is made: it is paid for, or refused.
LEMMA MadeShows ==
  ASSUME Sound, IInv, NEW s \in Sources, ~Has(s), NEW m \in Members, NEW refused, NEW due,
         Made(s, m, Purpose(s), refused, due)
  PROVE  PromiseStep
  <1>0. DeliveriesType /\ GrantsType /\ RestType
    BY TypesNamed DEF Types
  <1>1. Messages[s] = Promise!None /\ s \in Promise!Sources
    BY <1>0, MessageOf DEF Promise!Sources, Sources
  <1>2. \A status, g, d : Row(m, status, g, d) # Absent
    <2>1. \A status, g, d : Row(m, status, g, d).attempts = 0
      BY DEF Row
    <2>2. \A status, g, d : "attempts" \in DOMAIN Row(m, status, g, d)
      BY DEF Row
    <2>3. "attempts" \notin DOMAIN Absent
      BY DEF Absent
    <2> QED BY <2>2, <2>3
  <1>3. ASSUME NEW status, NEW g, NEW d
        PROVE  Shown(Row(m, status, g, d)) =
                 Promise!In(IF status \in Open THEN "open" ELSE status, 0, m)
    <2>1. /\ Row(m, status, g, d).status = status /\ Row(m, status, g, d).attempts = 0
          /\ Row(m, status, g, d).member = m
      BY DEF Row
    <2> QED BY <1>2, <2>1 DEF Shown, Promise!In
  <1>4. ASSUME NEW state \in {"suppressed", "authorization_missing"},
               deliveries' = [deliveries EXCEPT ![s] = Row(m, state, Nil, FALSE)], UNCHANGED grants
        PROVE  PromiseStep
    <2>1. Messages' = [Messages EXCEPT ![s] = Shown(Row(m, state, Nil, FALSE))]
      BY <1>0, <1>4, RewriteShows
    <2>2. Shown(Row(m, state, Nil, FALSE)) = Promise!In(state, 0, m)
      BY <1>3, <1>4 DEF Open
    <2>3. Promise!Refuse(s, m)
      BY <1>1, <1>4, <2>1, <2>2 DEF Promise!Refuse
    <2> QED BY <1>1, <2>3 DEF Promise!Next, PromiseStep
  <1>5. ASSUME NEW g \in Usable(m, Purpose(s)),
               deliveries' = [deliveries EXCEPT ![s] = Row(m, "pending", g, due)],
               grants' = [grants EXCEPT ![g].status = "consumed"]
        PROVE  PromiseStep
    <2>1. Messages' = [Messages EXCEPT ![s] = Promise!In("open", 0, m)]
      <3>1. Messages' = [Messages EXCEPT ![s] = Shown(Row(m, "pending", g, due))]
        BY <1>0, <1>5, RewriteShows
      <3>2. Shown(Row(m, "pending", g, due)) = Promise!In("open", 0, m)
        BY <1>3 DEF Open
      <3> QED BY <3>1, <3>2
    <2>2. /\ g \in Grants /\ grants[g].status = "available" /\ grants[g].member = m
          /\ grants[g].purpose = Promise!For(s)
      BY DEF Usable, Purpose, Promise!For
    <2>3. grants[g] \in [status : {"available", "consumed", "revoked"}, member : Members,
                         purpose : {"marketing", "service"}]
      BY <1>0, <2>2 DEF GrantsType, GrantRows
    <2>4. /\ grants[g] = Promise!Grant("available", m, Promise!For(s))
          /\ [grants[g] EXCEPT !.status = "consumed"] = Promise!Grant("consumed", m, Promise!For(s))
      BY <2>2, <2>3 DEF Promise!Grant
    <2>5. grants' = [grants EXCEPT ![g] = Promise!Grant("consumed", m, Promise!For(s))]
      BY <1>0, <1>5, <2>2, <2>4 DEF GrantsType
    <2>6. Promise!Pay(s, m, g)
      BY <1>1, <2>1, <2>4, <2>5 DEF Promise!Pay
    <2> QED BY <1>1, <2>2, <2>6 DEF Promise!Next, PromiseStep
  <1> QED BY <1>4, <1>5 DEF Made

\* A membership merged into another takes its messages and authorisations along.
LEMMA MergeShows ==
  ASSUME Sound, IInv, NEW m \in Members, NEW t \in Members, Merge(m, t)
  PROVE  PromiseStep
  <1> DEFINE both == preferences[m].row /\ preferences[t].row
             off == both /\ preferences[t].marketing /\ ~preferences[m].marketing
             moved == [d \in Sources |-> IF Has(d) /\ deliveries[d].member = m
                         THEN [deliveries[d] EXCEPT !.member = t] ELSE deliveries[d]]
             T == {d \in Marketing : off /\ d \in Promise!OpenTo({m, t})}
  <1>0. DeliveriesType /\ GrantsType
    BY TypesNamed DEF Types
  <1>1. /\ m # t
        /\ grants' = [g \in Grants |-> IF grants[g].status # "none" /\ grants[g].member = m
                       THEN [grants[g] EXCEPT !.member = t] ELSE grants[g]]
        /\ deliveries' = [d \in Sources |->
             IF off /\ d \in Marketing /\ moved[d].status \in Open /\ moved[d].member = t
             THEN Stopped(moved[d]) ELSE moved[d]]
    BY DEF Merge
  <1>2. \A d \in Sources : moved[d] = IF Has(d) /\ deliveries[d].member = m
                                     THEN [deliveries[d] EXCEPT !.member = t] ELSE deliveries[d]
    OBVIOUS
  <1>3. T \in SUBSET Marketing /\ T \subseteq Promise!OpenTo({m, t})
    OBVIOUS
  <1>4. \A d \in Sources : d \in T <=> /\ off /\ d \in Marketing /\ Messages[d].state = "open"
                                       /\ Messages[d].member \in {m, t}
    BY DEF Promise!OpenTo, Sources
  <1> HIDE DEF off, moved, T
  <1>5. ASSUME NEW d \in Sources
        PROVE  Shown(deliveries'[d]) =
                 IF Messages[d] # Promise!None /\ Messages[d].member = m
                 THEN Promise!In(Promise!Stop(T)[d].state, Messages[d].tries, t)
                 ELSE Promise!Stop(T)[d]
    <2>1. Promise!Stop(T)[d] =
            IF d \in T THEN Promise!In("suppressed", Messages[d].tries, Messages[d].member)
            ELSE Messages[d]
      BY DEF Promise!Stop, Promise!Sources, Sources
    <2>2. CASE ~Has(d)
      <3>1. Messages[d] = Promise!None /\ d \notin T /\ moved[d] = Absent
        BY <1>0, <1>2, <1>4, <2>2, MessageOf DEF Has
      <3>2. deliveries'[d] = Absent
        BY <1>1, <3>1 DEF Absent, Open
      <3> QED BY <2>1, <3>1, <3>2, ShownOf
    <2>3. CASE Has(d)
      <3> DEFINE row == deliveries[d]
      <3>1. /\ row \in DeliveryRows /\ Messages[d] = Shown(row) /\ Messages[d] # Promise!None
            /\ Messages[d].state = "open" <=> row.status \in Open
        BY <1>0, <2>3, MessageOf
      <3>2. /\ Messages[d] = Promise!In(IF row.status \in Open THEN "open" ELSE row.status,
                                        row.attempts, row.member)
            /\ Messages[d].tries = row.attempts /\ Messages[d].member = row.member
        <4>1. Messages[d] = Promise!In(IF row.status \in Open THEN "open" ELSE row.status,
                                       row.attempts, row.member)
          BY <3>1, ShownOf
        <4> QED BY <4>1 DEF Promise!In
      <3>3. /\ moved[d] \in DeliveryRows /\ moved[d].status = row.status
            /\ moved[d].attempts = row.attempts
            /\ moved[d].member = IF row.member = m THEN t ELSE row.member
        <4>1. CASE row.member = m
          <5>1. moved[d] = [row EXCEPT !.member = t]
            BY <1>2, <2>3, <4>1
          <5> QED BY <3>1, <4>1, <5>1 DEF DeliveryRows
        <4>2. CASE row.member # m
          <5>1. moved[d] = row
            BY <1>2, <2>3, <4>2
          <5> QED BY <3>1, <4>2, <5>1
        <4> QED BY <4>1, <4>2
      <3>4. moved[d].status \in Open /\ off /\ d \in Marketing /\ moved[d].member = t <=> d \in T
        BY <1>1, <1>4, <3>1, <3>2, <3>3
      <3> HIDE DEF row
      <3>5. CASE d \in T
        <4>1. deliveries'[d] = Stopped(moved[d])
          BY <1>1, <3>4, <3>5
        <4>2. /\ Stopped(moved[d]) \in DeliveryRows
              /\ Stopped(moved[d]).status = "suppressed"
              /\ Stopped(moved[d]).member = t
              /\ Stopped(moved[d]).attempts = row.attempts
          BY <3>3, <3>4, <3>5, StoppedType DEF Stopped, DeliveryRows
        <4>3. Shown(deliveries'[d]) = Promise!In("suppressed", row.attempts, t)
          BY <4>1, <4>2, ShownOf DEF Open
        <4>4. Promise!Stop(T)[d] = Promise!In("suppressed", row.attempts, row.member)
          BY <2>1, <3>2, <3>5
        <4>5. Promise!Stop(T)[d].state = "suppressed"
          BY <4>4 DEF Promise!In
        <4>6. row.member = m \/ row.member = t
          BY <1>4, <3>2, <3>5
        <4> QED BY <3>1, <3>2, <4>3, <4>4, <4>5, <4>6
      <3>6. CASE d \notin T
        <4>1. deliveries'[d] = moved[d]
          BY <1>1, <3>4, <3>6
        <4>2. Shown(moved[d]) = Promise!In(IF row.status \in Open THEN "open" ELSE row.status,
                                           row.attempts, moved[d].member)
          BY <3>3, ShownOf
        <4>3. Promise!Stop(T)[d] = Messages[d]
          BY <2>1, <3>6
        <4>4. Messages[d].state = IF row.status \in Open THEN "open" ELSE row.status
          BY <3>2 DEF Promise!In
        <4> QED BY <3>1, <3>2, <3>3, <4>1, <4>2, <4>3, <4>4
      <3> QED BY <3>5, <3>6
    <2> QED BY <2>2, <2>3
  <1>6. Messages' = [d \in Promise!Sources |->
          IF Messages[d] # Promise!None /\ Messages[d].member = m
          THEN Promise!In(Promise!Stop(T)[d].state, Messages[d].tries, t)
          ELSE Promise!Stop(T)[d]]
    <2>1. Messages' = [d \in Sources |-> Shown(deliveries'[d])]
      BY DEF Messages
    <2>2. Promise!Sources = Sources
      BY DEF Promise!Sources, Sources
    <2> QED BY <1>5, <2>1, <2>2
  <1>7. grants' = [g \in Grants |-> IF grants[g].status # "none" /\ grants[g].member = m
                     THEN Promise!Grant(grants[g].status, t, grants[g].purpose) ELSE grants[g]]
    <2>1. ASSUME NEW g \in Grants, grants[g].status # "none"
          PROVE  [grants[g] EXCEPT !.member = t] =
                   Promise!Grant(grants[g].status, t, grants[g].purpose)
      <3>1. grants[g] \in [status : {"available", "consumed", "revoked"}, member : Members,
                           purpose : {"marketing", "service"}]
        BY <1>0, <2>1 DEF GrantsType, GrantRows
      <3> QED BY <3>1 DEF Promise!Grant
    <2> QED BY <1>1, <2>1
  <1>8. Promise!Merge(m, t, T)
    BY <1>1, <1>3, <1>6, <1>7 DEF Promise!Merge
  <1> QED BY <1>3, <1>8 DEF Promise!Next, PromiseStep

\* A delivery that stays as open as it was, and as often tried, shows the same.
LEMMA OpenShows ==
  ASSUME DeliveriesType, NEW s \in Sources, NEW row \in DeliveryRows, Has(s),
         row.status \in Open, deliveries[s].status \in Open,
         row.attempts = deliveries[s].attempts, row.member = deliveries[s].member,
         deliveries' = [deliveries EXCEPT ![s] = row], UNCHANGED grants
  PROVE  PromiseStep
  <1>1. deliveries[s] \in DeliveryRows /\ Messages[s] = Shown(deliveries[s])
    BY MessageOf
  <1>2. Shown(row) = Messages[s]
    BY <1>1, ShownOf
  <1>3. Messages' = [Messages EXCEPT ![s] = Messages[s]]
    BY <1>2, RewriteShows
  <1>4. Messages' = Messages
    BY <1>3 DEF Messages
  <1> QED BY <1>4 DEF PromiseStep

\* A worker leases, or finds that the member withdrew; it records what was answered.
LEMMA WorkShows ==
  ASSUME Sound, IInv, NEW w \in Workers, NEW s \in Sources, Work(w, s)
  PROVE  PromiseStep
  <1>0. /\ DeliveriesType
        /\ Has(s) /\ deliveries[s].status \in Open => deliveries[s].attempts < MaxAttempts
        /\ Has(s) => deliveries[s] \in DeliveryRows
        /\ workers \in [Workers -> {Idle} \cup Jobs]
    BY TypesNamed DEF Types, DeliveriesType, Has, HandsType
  <1>1. ASSUME UNCHANGED <<deliveries, grants>> PROVE PromiseStep
    BY <1>1 DEF PromiseStep, Messages
  <1>2. CASE Lease(w, s)
    <2>1. Has(s) /\ deliveries[s] \in DeliveryRows /\ deliveries[s].status \in Open
      BY <1>0, <1>2 DEF Lease, Leasable, Open
    <2>2. CASE s \in Marketing /\ ~MayMarket(deliveries[s].member)
      <3>1. deliveries' = Suppress({s}) /\ UNCHANGED grants
        BY <1>2, <2>2 DEF Lease
      <3>2. Messages' = Promise!Stop({u \in Sources : u \in {s} /\ Messages[u].state = "open"})
        BY <1>0, <3>1, SuppressShows
      <3>3. Messages[s].state = "open" /\ Messages[s].member \in Members
        BY <1>0, <2>1, MessageOf, ShownOf
      <3>4. {u \in Sources : u \in {s} /\ Messages[u].state = "open"} = {s}
        BY <3>3
      <3>5. Messages' = Promise!Stop({s})
        BY <3>2, <3>4
      <3>6. Promise!Drop(s)
        BY <2>2, <3>1, <3>3, <3>5 DEF Promise!Drop, Promise!OpenTo
      <3> QED BY <2>2, <3>6 DEF Promise!Next, PromiseStep
    <2>3. CASE ~(s \in Marketing /\ ~MayMarket(deliveries[s].member))
      <3> DEFINE row == [deliveries[s] EXCEPT !.status = "delivering", !.token = w, !.expired = FALSE]
      <3>1. deliveries' = [deliveries EXCEPT ![s] = row] /\ UNCHANGED grants
        BY <1>0, <1>2, <2>3 DEF Lease, DeliveriesType
      <3>2. /\ row \in DeliveryRows /\ row.member = deliveries[s].member
            /\ row.attempts = deliveries[s].attempts /\ row.status \in Open
        BY <2>1 DEF DeliveryRows, OrNil, Counted, Open
      <3> HIDE DEF row
      <3> QED BY <1>0, <2>1, <3>1, <3>2, OpenShows
    <2> QED BY <2>2, <2>3
  <1>3. CASE Record(w, s) /\ Holds(w, s) /\ ~deliveries[s].expired
    <2> DEFINE old == deliveries[s]
               row == After(old, workers[w].result)
               n == old.attempts
               state == IF workers[w].result = "accepted" THEN "accepted"
                        ELSE IF workers[w].result = "permanent_failure" \/ n + 1 >= MaxAttempts
                        THEN "exhausted" ELSE "failed"
    <2>1. deliveries' = [deliveries EXCEPT ![s] = row] /\ UNCHANGED grants
      BY <1>0, <1>3 DEF Record, DeliveriesType
    <2>2. Has(s) /\ old \in DeliveryRows /\ old.status \in Open
      BY <1>0, <1>3 DEF Holds, Has, Absent, Open
    <2>3. n < MaxAttempts /\ n \in 0..MaxAttempts /\ old.member \in Members
      BY <1>0, <2>2, ShownOf
    <2>4. row = [old EXCEPT !.attempts = n + 1, !.token = Nil, !.due = FALSE, !.status = state]
      BY DEF After
    <2>5. /\ state \in {"accepted", "exhausted", "failed"}
          /\ state = "failed" => n + 1 < MaxAttempts
      BY <2>3 DEF Sound
    <2> HIDE DEF row, state, n, old
    <2>6. /\ row \in DeliveryRows /\ row.status = state /\ row.attempts = n + 1
          /\ row.member = old.member
      <3>1. n + 1 \in 0..MaxAttempts /\ state \in Counted
        BY <2>3, <2>5 DEF Sound, Counted
      <3> QED BY <2>2, <2>4, <3>1 DEF DeliveryRows, OrNil
    <2>7. Messages[s] = Promise!In("open", n, old.member)
      BY <1>0, <2>2, MessageOf, ShownOf DEF old, n
    <2> DEFINE new == IF state = "failed" THEN "open" ELSE state
    <2>8. Shown(row) = Promise!In(new, n + 1, old.member)
      BY <2>5, <2>6, ShownOf DEF Open
    <2>9. Messages' = [Messages EXCEPT ![s] = Promise!In(new, n + 1, old.member)]
      BY <1>0, <2>1, <2>8, RewriteShows
    <2>10. new \in {"open", "accepted", "exhausted"} /\ (new = "open" => n + 1 < MaxAttempts)
      BY <2>5
    <2> HIDE DEF new
    <2>11. Promise!Try(s, old.member, n, new)
      BY <2>1, <2>3, <2>7, <2>9, <2>10 DEF Promise!Try
    <2>12. s \in Promise!Sources
      BY DEF Promise!Sources, Sources
    <2> QED BY <2>3, <2>10, <2>11, <2>12 DEF Promise!Next, PromiseStep
  <1>4. CASE Record(w, s) /\ ~(Holds(w, s) /\ ~deliveries[s].expired)
    BY <1>1, <1>4 DEF Record
  <1>5. CASE Snapshot(w, s) \/ \E r \in Results : Send(w, s, r)
    BY <1>1, <1>5 DEF Snapshot, Send
  <1> QED BY <1>2, <1>3, <1>4, <1>5 DEF Work

\* Every step is a step of the promise, or changes nothing it tells of.
LEMMA MessageNext == ASSUME Sound, IInv, [Next]_vars PROVE PromiseStep
  <1>0. /\ DeliveriesType /\ GrantsType /\ HandsType
        /\ \A s \in Sources : Has(s) => deliveries[s] \in DeliveryRows
    BY TypesNamed DEF Types, DeliveriesType, Has
  <1>1. ASSUME UNCHANGED <<deliveries, grants>> PROVE PromiseStep
    BY <1>1 DEF PromiseStep, Messages
  <1>2. ASSUME \/ NextDay \/ UNCHANGED vars
               \/ \E k \in Consents : GiveConsent(k)
               \/ \E m \in Members, k \in Consents : BeginSubscribe(m, k)
               \/ \E m \in Members : RollBack(m)
               \/ \E m \in Members, on \in BOOLEAN : SetService(m, on)
               \/ \E s \in Marketing, m \in Members : BeginMarketing(s, m)
               \/ \E w \in Workers : Crash(w)
        PROVE  PromiseStep
    BY <1>1, <1>2 DEF NextDay, vars, GiveConsent, BeginSubscribe, RollBack, SetService,
       BeginMarketing, Crash
  <1>3. ASSUME NEW g \in Grants, NEW m \in Members, NEW p \in {"marketing", "service"},
               grants' = Given(g, m, p), UNCHANGED deliveries
        PROVE  PromiseStep
    <2>1. CASE grants[g].status # "none"
      BY <1>1, <1>3, <2>1 DEF Given
    <2>2. CASE grants[g].status = "none"
      <3>1. grants' = [grants EXCEPT ![g] = Promise!Grant("available", m, p)]
        BY <1>3, <2>2 DEF Given, Promise!Grant
      <3>2. Messages' = Messages
        BY <1>3 DEF Messages
      <3>3. Promise!Give(g, m, p)
        BY <2>2, <3>1, <3>2 DEF Promise!Give
      <3> QED BY <3>3 DEF Promise!Next, PromiseStep
    <2> QED BY <2>1, <2>2
  <1>4. ASSUME NEW m \in Members, NEW g \in Grants, Subscribe(m, g) \/ GrantService(m, g)
        PROVE  PromiseStep
    BY <1>3, <1>4 DEF Subscribe, GrantService
  <1>5. ASSUME NEW k \in Consents, WithdrawConsent(k) PROVE PromiseStep
    <2> DEFINE M == {n \in Members : preferences[n].consent = k}
               S == UNION {MarketingOf(n) : n \in M}
    <2>1. /\ deliveries' = Suppress(S)
          /\ grants' = [g \in Grants |->
               IF \E n \in M : RevokeGrants(n)[g] # grants[g]
               THEN [grants[g] EXCEPT !.status = "revoked"] ELSE grants[g]]
      BY <1>5 DEF WithdrawConsent
    <2>2. M \in SUBSET Members /\ S \subseteq UNION {MarketingOf(n) : n \in M}
      OBVIOUS
    <2> HIDE DEF M, S
    <2> QED BY <2>1, <2>2, WithdrawShows
  <1>6. ASSUME NEW m \in Members, Unsubscribe(m) PROVE PromiseStep
    <2> DEFINE S == IF preferences[m].marketing THEN MarketingOf(m)
                    ELSE {s \in MarketingOf(m) : deliveries[s].status # "delivering"}
    <2>1. deliveries' = Suppress(S) /\ grants' = RevokeGrants(m)
      BY <1>6 DEF Unsubscribe
    <2>2. \A g \in Grants : RevokeGrants(m)[g] =
            IF \E n \in {m} : RevokeGrants(n)[g] # grants[g]
            THEN [grants[g] EXCEPT !.status = "revoked"] ELSE grants[g]
      BY DEF RevokeGrants
    <2>3. RevokeGrants(m) = [g \in Grants |-> RevokeGrants(m)[g]]
      BY DEF RevokeGrants
    <2>4. grants' = [g \in Grants |->
            IF \E n \in {m} : RevokeGrants(n)[g] # grants[g]
            THEN [grants[g] EXCEPT !.status = "revoked"] ELSE grants[g]]
      BY <2>1, <2>2, <2>3
    <2>5. {m} \in SUBSET Members /\ S \subseteq UNION {MarketingOf(n) : n \in {m}}
      OBVIOUS
    <2> HIDE DEF S
    <2> QED BY <2>1, <2>4, <2>5, WithdrawShows
  <1>7. ASSUME NEW m \in Members, NEW t \in Members, Merge(m, t) PROVE PromiseStep
    BY <1>7, MergeShows
  <1>8. ASSUME NEW s \in Service, NEW m \in Members, Notify(s, m) PROVE PromiseStep
    <2>1. /\ s \in Sources /\ ~Has(s)
          /\ Made(s, m, Purpose(s), ~preferences[m].service \/ s \in NoChannel, TRUE)
      BY <1>8 DEF Notify, Sources, Purpose, Sound
    <2> QED BY <2>1, MadeShows
  <1>9. ASSUME NEW m \in Members, NEW quiet \in BOOLEAN, CreateMarketing(m, quiet)
        PROVE  PromiseStep
    <2> DEFINE s == checked[m].source
    <2>1. s \in Marketing
      BY <1>0, <1>9 DEF CreateMarketing, HandsType, Checks, Idle
    <2>2. s \in Sources /\ ~Has(s) /\ Made(s, m, Purpose(s), Limited(m), ~quiet)
      BY <1>9, <2>1 DEF CreateMarketing, Sources, Purpose
    <2> HIDE DEF s
    <2> QED BY <2>2, MadeShows
  <1>10. ASSUME NEW w \in Workers, NEW s \in Sources, Work(w, s) PROVE PromiseStep
    BY <1>10, WorkShows
  <1>11. ASSUME NEW s \in Sources, ComesDue(s) \/ Expires(s) PROVE PromiseStep
    <2>1. Has(s) /\ deliveries[s] \in DeliveryRows /\ deliveries[s].status \in Open
      BY <1>0, <1>11 DEF ComesDue, Expires, Open
    <2>2. PICK row \in DeliveryRows :
            /\ deliveries' = [deliveries EXCEPT ![s] = row] /\ UNCHANGED grants
            /\ row.status = deliveries[s].status /\ row.attempts = deliveries[s].attempts
            /\ row.member = deliveries[s].member
      <3> DEFINE old == deliveries[s]
      <3>1. /\ [old EXCEPT !.due = TRUE] \in DeliveryRows
            /\ [old EXCEPT !.due = TRUE].status = old.status
            /\ [old EXCEPT !.due = TRUE].attempts = old.attempts
            /\ [old EXCEPT !.due = TRUE].member = old.member
            /\ [old EXCEPT !.expired = TRUE] \in DeliveryRows
            /\ [old EXCEPT !.expired = TRUE].status = old.status
            /\ [old EXCEPT !.expired = TRUE].attempts = old.attempts
            /\ [old EXCEPT !.expired = TRUE].member = old.member
        BY <2>1 DEF DeliveryRows
      <3>2. /\ \/ deliveries' = [deliveries EXCEPT ![s] = [old EXCEPT !.due = TRUE]]
               \/ deliveries' = [deliveries EXCEPT ![s] = [old EXCEPT !.expired = TRUE]]
            /\ UNCHANGED grants
        BY <1>0, <1>11 DEF ComesDue, Expires, DeliveriesType
      <3> HIDE DEF old
      <3> QED BY <3>1, <3>2 DEF old
    <2> QED BY <1>0, <2>1, <2>2, OpenShows
  <1> QED BY <1>2, <1>4, <1>5, <1>6, <1>7, <1>8, <1>9, <1>10, <1>11 DEF Next

\* The messages keep MessagePromise: each is paid for once, with an authorisation of its
\* member and purpose, is tried within its attempts and ends once, and a withdrawal leaves
\* its members no marketing authorisation, through merges, lost leases and late workers.
THEOREM ImplementsMessages == ASSUME Sound PROVE Spec => MessageSpec
  <1>1. Init => Promise!Init
    BY ShownOf DEF Init, Promise!Init, Messages, Promise!Sources, Sources
  <1>2. IInv /\ [Next]_vars => PromiseStep
    BY MessageNext
  <1> QED BY <1>1, <1>2, Invariance, PTL
      DEF Spec, MessageSpec, Promise!Spec, PromiseStep
=============================================================================

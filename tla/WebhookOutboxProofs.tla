-------------------------- MODULE WebhookOutboxProofs --------------------------
(***************************************************************************)
(* Proofs about WebhookOutbox, for every set of endpoints, events,         *)
(* expanders and workers, and every number of retries, changes and faults. *)
(***************************************************************************)
EXTENDS WebhookOutbox, TLAPS

\* Deliveries are of events that were expanded, and nobody expands those, nor one
\* event twice at a time.
Exclusive ==
  /\ \A v \in Events, e \in Endpoints : Exists(<<v, e>>) => events[v].status = "expanded"
  /\ \A x \in Expanders : expanders[x] # Idle =>
       /\ events[expanders[x].event].status = "recorded"
       /\ \A y \in Expanders \ {x} : expanders[y] # Idle => expanders[y].event # expanders[x].event

\* An endpoint at the version that heard an event listens to it still, and whoever
\* expands the event has found it.
HeardIsFound ==
  \A v \in Events : events[v].status # "none" => \A e \in DOMAIN events[v].heard :
    /\ endpoints[e].status # "none" /\ events[v].heard[e] <= endpoints[e].version
    /\ endpoints[e].status = "live" /\ endpoints[e].version = events[v].heard[e] =>
         /\ Listens(e, v)
         /\ \A x \in Expanders :
              expanders[x] # Idle /\ expanders[x].event = v => e \in DOMAIN expanders[x].found

\* A lease that is neither lost nor late, so no fault has been counted for it.
Alive(d) == \E w \in Workers : workers[w] # Idle /\ workers[w].on = d /\ Holds(w, d)
                               /\ ~At(d).expired
Credit(d) == IF At(d).status \in Settled \/ Alive(d) THEN 1 ELSE 0
CopiesCounted ==
  \A d \in Pairs : Exists(d) => At(d).attempts <= At(d).retries + faults + Credit(d)

IInv == TypeOK /\ Exclusive /\ HeardIsFound /\ NobodyIsMissed /\ CopiesCounted
-----------------------------------------------------------------------------
(* Typing                                                                  *)

\* The listeners noted with an event, or found by an expander, are versions.
LEMMA ListenersType ==
  ASSUME TypeOK, NEW v \in Events
  PROVE  [e \in {e \in Endpoints : Listens(e, v)} |-> endpoints[e].version] \in Versions
  <1> DEFINE S == {e \in Endpoints : Listens(e, v)}
  <1>1. \A e \in S : endpoints[e].version \in 0..MaxVersions
    BY DEF TypeOK
  <1>2. [e \in S |-> endpoints[e].version] \in [S -> 0..MaxVersions] /\ S \in SUBSET Endpoints
    BY <1>1
  <1> QED BY <1>2 DEF Versions

\* A new row, and every way the code rewrites one, gives a row.
LEMMA RowsType ==
  /\ \A n \in 0..MaxVersions : New(n) \in Rows
  /\ \A row \in Rows :
       /\ \A w \in Workers : [row EXCEPT !.status = "delivering", !.token = w, !.expired = FALSE,
                                          !.attempts = @ + 1] \in Rows
       /\ \A r \in Results : Answered(row, r) \in Rows
       /\ [row EXCEPT !.due = TRUE] \in Rows /\ [row EXCEPT !.expired = TRUE] \in Rows
       /\ [row EXCEPT !.status = "archived"] \in Rows
  <1> USE DEF Rows, Open, Settled
  <1>1. \A n \in 0..MaxVersions : New(n) \in Rows
    BY BoundsAssumption DEF New
  <1>2. ASSUME NEW row \in Rows, NEW r \in Results PROVE Answered(row, r) \in Rows
    <2> DEFINE free == [row EXCEPT !.token = Nil, !.expired = FALSE]
    <2>1. free \in Rows
      OBVIOUS
    <2>2. [free EXCEPT !.status = "delivered"] \in Rows /\ [free EXCEPT !.status = "failed"] \in Rows
      BY <2>1
    <2>3. ASSUME row.retries < MAX_RETRIES
          PROVE  [free EXCEPT !.status = "retrying", !.retries = @ + 1, !.due = FALSE] \in Rows
      <3>1. free.retries + 1 \in 0..MAX_RETRIES
        BY <2>3, BoundsAssumption
      <3> QED BY <2>1, <3>1
    <2> QED BY <2>2, <2>3 DEF Answered
  <1>3. ASSUME NEW row \in Rows, NEW w \in Workers
        PROVE  [row EXCEPT !.status = "delivering", !.token = w, !.expired = FALSE,
                           !.attempts = @ + 1] \in Rows
    <2>1. row.attempts + 1 \in Nat
      OBVIOUS
    <2>2. \A n \in Nat : [row EXCEPT !.status = "delivering", !.token = w, !.expired = FALSE,
                                    !.attempts = n] \in Rows
      OBVIOUS
    <2> QED BY <2>1, <2>2
  <1>4. ASSUME NEW row \in Rows
        PROVE  /\ [row EXCEPT !.due = TRUE] \in Rows /\ [row EXCEPT !.expired = TRUE] \in Rows
               /\ [row EXCEPT !.status = "archived"] \in Rows
    OBVIOUS
  <1> QED BY <1>1, <1>2, <1>3, <1>4, ZenonT(40)

\* Writing one delivery changes that one and no other.
LEMMA WritesOne ==
  ASSUME TypeOK, NEW d \in Pairs, NEW row \in Rows, To(d, row)
  PROVE  /\ deliveries' \in [Events -> [Endpoints -> {Absent} \cup Rows]]
         /\ At(d)' = row
         /\ \A c \in Pairs : c # d => At(c)' = At(c)
  <1>1. d[1] \in Events /\ d[2] \in Endpoints /\ d = <<d[1], d[2]>>
    BY DEF Pairs
  <1>2. deliveries' = [deliveries EXCEPT ![d[1]][d[2]] = row]
    BY DEF To
  <1>3. deliveries' \in [Events -> [Endpoints -> {Absent} \cup Rows]]
    BY <1>1, <1>2 DEF TypeOK
  <1>4. At(d)' = row
    BY <1>1, <1>2 DEF TypeOK, At
  <1>5. ASSUME NEW c \in Pairs, c # d PROVE At(c)' = At(c)
    <2>1. c[1] \in Events /\ c[2] \in Endpoints /\ (c[1] # d[1] \/ c[2] # d[2])
      BY <1>1, <1>5 DEF Pairs
    <2> QED BY <1>1, <1>2, <2>1 DEF TypeOK, At
  <1> QED BY <1>3, <1>4, <1>5

\* A delivery that exists is a row.
LEMMA ExistingIsRow ==
  ASSUME TypeOK, NEW d \in Pairs, Exists(d)
  PROVE  At(d) \in Rows
  BY DEF TypeOK, Exists, At, Pairs

\* The program starts with rows of these types.
LEMMA TypeInit == Init => TypeOK
  <1> SUFFICES ASSUME Init PROVE TypeOK
    OBVIOUS
  <1>1. 0 \in 0..MaxVersions /\ 0 \in 0..MaxFaults
    BY BoundsAssumption
  <1> QED BY <1>1 DEF Init, TypeOK

\* No step leaves the types.  That a finished expansion marks an event that was
\* recorded is needed for it: only such an event has listeners noted.
LEMMA TypeStep == TypeOK /\ Exclusive /\ [Next]_vars => TypeOK'
  <1> SUFFICES ASSUME TypeOK, Exclusive, [Next]_vars PROVE TypeOK'
    OBVIOUS
  <1> USE DEF TypeOK
  <1>1. ASSUME NEW e \in Endpoints, NEW wants \in SUBSET Events, CreateEndpoint(e, wants)
        PROVE  TypeOK'
    <2>1. 1 \in 0..MaxVersions
      BY BoundsAssumption
    <2> QED BY <1>1, <2>1 DEF CreateEndpoint
  <1>2. ASSUME NEW e \in Endpoints, NEW on \in BOOLEAN, NEW wants \in SUBSET Events,
               UpdateEndpoint(e, on, wants)
        PROVE  TypeOK'
    <2>1. endpoints[e].version + 1 \in 0..MaxVersions
      BY <1>2, BoundsAssumption DEF UpdateEndpoint
    <2>2. endpoints' = [endpoints EXCEPT ![e] =
            [status |-> "live", version |-> endpoints[e].version + 1, enabled |-> on, wants |-> wants]]
      BY <1>2 DEF UpdateEndpoint
    <2> QED BY <1>2, <2>1, <2>2 DEF UpdateEndpoint
  <1>3. ASSUME NEW e \in Endpoints, DeleteEndpoint(e) PROVE TypeOK'
    <2> DEFINE row == [endpoints[e] EXCEPT !.status = "deleted"]
    <2>1. row \in [status : {"none", "live", "deleted"}, version : 0..MaxVersions,
                   enabled : BOOLEAN, wants : SUBSET Events]
      OBVIOUS
    <2>2. endpoints' = [endpoints EXCEPT ![e] = row]
      BY <1>3 DEF DeleteEndpoint
    <2> HIDE DEF row
    <2> QED BY <1>3, <2>1, <2>2 DEF DeleteEndpoint
  <1>4. ASSUME NEW v \in Events, RecordEvent(v) PROVE TypeOK'
    <2> DEFINE heard == [e \in {e \in Endpoints : Listens(e, v)} |-> endpoints[e].version]
    <2>1. heard \in Versions
      BY ListenersType
    <2> HIDE DEF heard
    <2>2. [status |-> "recorded", heard |-> heard] \in
            [status : {"recorded", "expanded"}, heard : Versions]
      BY <2>1
    <2>3. events' = [events EXCEPT ![v] = [status |-> "recorded", heard |-> heard]]
      BY <1>4 DEF RecordEvent, heard
    <2> QED BY <1>4, <2>2, <2>3 DEF RecordEvent
  <1>5. ASSUME NEW x \in Expanders, NEW v \in Events, BeginExpansion(x, v) PROVE TypeOK'
    <2> DEFINE found == [e \in {e \in Endpoints : Listens(e, v)} |-> endpoints[e].version]
    <2>1. found \in Versions
      BY ListenersType
    <2> HIDE DEF found
    <2>2. [pc |-> "expanding", event |-> v, made |-> {}, found |-> found] \in
            [pc : {"expanding"}, event : Events, made : SUBSET Endpoints, found : Versions]
      BY <2>1
    <2>3. expanders' = [expanders EXCEPT ![x] =
            [pc |-> "expanding", event |-> v, made |-> {}, found |-> found]]
      BY <1>5 DEF BeginExpansion, found
    <2> QED BY <1>5, <2>2, <2>3 DEF BeginExpansion
  <1>6. ASSUME NEW x \in Expanders, NEW e \in Endpoints, MakeDelivery(x, e) PROVE TypeOK'
    <2> DEFINE T == [pc : {"expanding"}, event : Events, made : SUBSET Endpoints, found : Versions]
               next == [expanders[x] EXCEPT !.made = @ \cup {e}]
    <2>1. expanders[x] \in T
      BY <1>6 DEF MakeDelivery, Idle
    <2>2. next \in T
      BY <2>1
    <2>3. expanders' = [expanders EXCEPT ![x] = next] \/ expanders' = [expanders EXCEPT ![x] = Idle]
      BY <1>6 DEF MakeDelivery
    <2> HIDE DEF next
    <2> QED BY <1>6, <2>2, <2>3 DEF MakeDelivery
  <1>7. ASSUME NEW x \in Expanders, FinishExpansion(x) PROVE TypeOK'
    <2> DEFINE t == expanders[x]
    <2>1. t \in [pc : {"expanding"}, event : Events, made : SUBSET Endpoints, found : Versions]
      BY <1>7 DEF FinishExpansion, Idle
    <2>2. \A e \in t.made : New(t.found[e]) \in Rows
      <3>1. PICK S \in SUBSET Endpoints : t.found \in [S -> 0..MaxVersions]
        BY <2>1 DEF Versions
      <3>2. t.made = S
        BY <1>7, <3>1 DEF FinishExpansion
      <3> QED BY <3>1, <3>2, RowsType
    <2>3. deliveries' \in [Events -> [Endpoints -> {Absent} \cup Rows]]
      BY <1>7, <2>1, <2>2 DEF FinishExpansion
    <2>4. events' \in [Events -> [status : {"none"}] \cup
                                [status : {"recorded", "expanded"}, heard : Versions]]
      <3>1. events[t.event] \in [status : {"recorded", "expanded"}, heard : Versions]
        BY <1>7, <2>1 DEF FinishExpansion, Exclusive, Idle
      <3>2. [events[t.event] EXCEPT !.status = "expanded"] \in
              [status : {"recorded", "expanded"}, heard : Versions]
        BY <3>1
      <3>3. events' = [events EXCEPT ![t.event] = [events[t.event] EXCEPT !.status = "expanded"]]
        BY <1>7 DEF FinishExpansion
      <3> QED BY <2>1, <3>2, <3>3
    <2> QED BY <1>7, <2>3, <2>4 DEF FinishExpansion
  <1>8. ASSUME NEW x \in Expanders, CrashExpander(x) PROVE TypeOK'
    BY <1>8, BoundsAssumption DEF CrashExpander
  <1>9. ASSUME NEW w \in Workers, NEW d \in Pairs, Lease(w, d) PROVE TypeOK'
    <2>1. At(d) \in Rows
      BY <1>9, ExistingIsRow DEF Lease, Leasable
    <2> QED BY <1>9, <2>1, RowsType, WritesOne DEF Lease
  <1>10. ASSUME NEW w \in Workers, NEW d \in Pairs, NEW r \in Results, Send(w, d, r)
         PROVE  TypeOK'
    BY <1>10 DEF Send
  <1>11. ASSUME NEW w \in Workers, NEW d \in Pairs, Record(w, d) PROVE TypeOK'
    <2>1. workers[w].result \in Results
      BY <1>11 DEF Record, Idle
    <2>2. CASE Holds(w, d)
      <3>1. At(d) \in Rows
        BY <2>2, ExistingIsRow DEF Holds, Exists, Absent
      <3>2. Answered(At(d), workers[w].result) \in Rows
        BY <2>1, <3>1, RowsType
      <3> QED BY <1>11, <2>2, <3>2, WritesOne DEF Record
    <2>3. CASE ~Holds(w, d)
      BY <1>11, <2>3 DEF Record
    <2> QED BY <2>2, <2>3
  <1>12. ASSUME NEW w \in Workers, Crash(w) PROVE TypeOK'
    BY <1>12, BoundsAssumption DEF Crash
  <1>13. ASSUME NEW d \in Pairs, ComesDue(d) PROVE TypeOK'
    <2>1. [At(d) EXCEPT !.due = TRUE] \in Rows
      BY <1>13, ExistingIsRow, RowsType DEF ComesDue
    <2> QED BY <1>13, <2>1, WritesOne DEF ComesDue
  <1>14. ASSUME NEW d \in Pairs, Expires(d) PROVE TypeOK'
    <2>1. [At(d) EXCEPT !.expired = TRUE] \in Rows
      BY <1>14, ExistingIsRow, RowsType DEF Expires
    <2> QED BY <1>14, <2>1, WritesOne, BoundsAssumption DEF Expires
  <1>15. ASSUME NEW d \in Pairs, Archive(d) PROVE TypeOK'
    <2>1. [At(d) EXCEPT !.status = "archived"] \in Rows
      BY <1>15, ExistingIsRow, RowsType DEF Archive
    <2> QED BY <1>15, <2>1, WritesOne DEF Archive
  <1>16. CASE UNCHANGED vars
    BY <1>16 DEF vars
  <1> QED BY <1>1, <1>2, <1>3, <1>4, <1>5, <1>6, <1>7, <1>8, <1>9, <1>10, <1>11, <1>12,
             <1>13, <1>14, <1>15, <1>16 DEF Next, Expand, Work
-----------------------------------------------------------------------------
(* Who is told                                                             *)

\* The steps of the workers, and time, create no delivery and remove none, and leave
\* everything else but the workers alone.
LEMMA WorkersKeep ==
  ASSUME TypeOK, NEW d \in Pairs,
         (\E w \in Workers : Work(w, d) \/ Crash(w)) \/ ComesDue(d) \/ Expires(d) \/ Archive(d)
  PROVE  /\ UNCHANGED <<endpoints, events, expanders>>
         /\ \A c \in Pairs : Exists(c)' <=> Exists(c)
  <1> DEFINE G == /\ UNCHANGED <<endpoints, events, expanders>>
                  /\ \A c \in Pairs : Exists(c)' <=> Exists(c)
  <1>1. \A row \in Rows : row # Absent
    BY DEF Rows, Absent, Open, Settled
  <1>2. ASSUME NEW row \in Rows, To(d, row), Exists(d)
        PROVE  \A c \in Pairs : Exists(c)' <=> Exists(c)
    BY <1>1, <1>2, WritesOne DEF Exists
  <1>3. ASSUME NEW w \in Workers, Lease(w, d) PROVE G
    <2>1. At(d) \in Rows /\ Exists(d)
      BY <1>3, ExistingIsRow DEF Lease, Leasable
    <2> QED BY <1>3, <2>1, <1>2, RowsType DEF Lease
  <1>4. ASSUME NEW w \in Workers, NEW r \in Results, Send(w, d, r) PROVE G
    BY <1>4 DEF Send, Exists, At
  <1>5. ASSUME NEW w \in Workers, Record(w, d) PROVE G
    <2>1. workers[w].result \in Results
      BY <1>5 DEF Record, Idle, TypeOK
    <2>2. CASE Holds(w, d)
      <3>1. At(d) \in Rows /\ Exists(d)
        BY <2>2, ExistingIsRow DEF Holds, Exists, Absent
      <3>2. Answered(At(d), workers[w].result) \in Rows
        BY <2>1, <3>1, RowsType
      <3> QED BY <1>5, <1>2, <2>2, <3>1, <3>2 DEF Record
    <2>3. CASE ~Holds(w, d)
      BY <1>5, <2>3 DEF Record, Exists, At
    <2> QED BY <2>2, <2>3
  <1>6. ASSUME NEW w \in Workers, Crash(w) PROVE G
    BY <1>6 DEF Crash, Exists, At
  <1>7. CASE ComesDue(d)
    <2>1. [At(d) EXCEPT !.due = TRUE] \in Rows
      BY <1>7, ExistingIsRow, RowsType DEF ComesDue
    <2> QED BY <1>7, <1>2, <2>1 DEF ComesDue
  <1>8. CASE Expires(d)
    <2>1. [At(d) EXCEPT !.expired = TRUE] \in Rows
      BY <1>8, ExistingIsRow, RowsType DEF Expires
    <2> QED BY <1>8, <1>2, <2>1 DEF Expires
  <1>9. CASE Archive(d)
    <2>1. [At(d) EXCEPT !.status = "archived"] \in Rows
      BY <1>9, ExistingIsRow, RowsType DEF Archive
    <2> QED BY <1>9, <1>2, <2>1 DEF Archive
  <1> QED BY <1>3, <1>4, <1>5, <1>6, <1>7, <1>8, <1>9 DEF Work

\* An expansion that ends adds the deliveries of its event and touches no other.
LEMMA FinishAdds ==
  ASSUME TypeOK, NEW x \in Expanders, FinishExpansion(x)
  PROVE  /\ expanders[x] # Idle /\ expanders[x].event \in Events
         /\ \A y \in Expanders : expanders'[y] = IF y = x THEN Idle ELSE expanders[y]
         /\ \A v \in Events :
              /\ events'[v].status = IF v = expanders[x].event THEN "expanded" ELSE events[v].status
              /\ events[v].status # "none" => events'[v].heard = events[v].heard
         /\ \A v \in Events, e \in Endpoints :
              At(<<v, e>>)' = IF v = expanders[x].event /\ e \in DOMAIN expanders[x].found
                              THEN New(expanders[x].found[e]) ELSE At(<<v, e>>)
         /\ \A n : New(n) # Absent
         /\ UNCHANGED <<endpoints, workers, faults>>
  <1>1. expanders[x] \in [pc : {"expanding"}, event : Events, made : SUBSET Endpoints,
                          found : Versions]
    BY DEF FinishExpansion, Idle, TypeOK
  <1>2. \A n : New(n) # Absent
    BY DEF New, Absent
  <1>3. ASSUME NEW v \in Events, NEW e \in Endpoints
        PROVE  At(<<v, e>>)' = IF v = expanders[x].event /\ e \in DOMAIN expanders[x].found
                               THEN New(expanders[x].found[e]) ELSE At(<<v, e>>)
    BY <1>1 DEF FinishExpansion, TypeOK, At
  <1>4. expanders[x] # Idle
    BY DEF FinishExpansion, Idle
  <1>5. \A y \in Expanders : expanders'[y] = IF y = x THEN Idle ELSE expanders[y]
    BY DEF FinishExpansion, TypeOK
  <1>6. ASSUME NEW v \in Events
        PROVE  /\ events'[v].status = IF v = expanders[x].event THEN "expanded" ELSE events[v].status
               /\ events[v].status # "none" => events'[v].heard = events[v].heard
    <2> DEFINE t == expanders[x]
    <2>1. events' = [events EXCEPT ![t.event] = [events[t.event] EXCEPT !.status = "expanded"]]
      BY DEF FinishExpansion
    <2>2. events'[v] = IF v = t.event THEN [events[v] EXCEPT !.status = "expanded"] ELSE events[v]
      BY <1>1, <2>1 DEF TypeOK
    <2>3. \/ events[v] \in [status : {"none"}]
          \/ events[v] \in [status : {"recorded", "expanded"}, heard : Versions]
      BY DEF TypeOK
    <2> QED BY <2>2, <2>3
  <1> QED BY <1>1, <1>2, <1>3, <1>4, <1>5, <1>6 DEF FinishExpansion

\* No event is expanded twice: whoever holds it holds it alone, before it is marked.
LEMMA ExclusiveStep == TypeOK /\ Exclusive /\ [Next]_vars => Exclusive'
  <1> SUFFICES ASSUME TypeOK, Exclusive, [Next]_vars PROVE Exclusive'
    OBVIOUS
  <1> USE DEF Exclusive
  <1>1. ASSUME UNCHANGED <<events, expanders>>,
               \A c \in Pairs : Exists(c)' <=> Exists(c)
        PROVE  Exclusive'
    BY <1>1 DEF Pairs
  <1>2. ASSUME UNCHANGED <<events, deliveries, expanders>> PROVE Exclusive'
    BY <1>1, <1>2 DEF Exists, At
  <1>3. ASSUME NEW v \in Events, RecordEvent(v) PROVE Exclusive'
    BY <1>3 DEF RecordEvent, TypeOK, Exists, At
  <1>4. ASSUME NEW x \in Expanders, NEW v \in Events, BeginExpansion(x, v) PROVE Exclusive'
    <2>1. \A y \in Expanders : expanders[y] # Idle => expanders[y].event # v
      BY <1>4 DEF BeginExpansion, Locked, TypeOK
    <2> QED BY <1>4, <2>1 DEF BeginExpansion, TypeOK, Exists, At
  <1>5. ASSUME NEW x \in Expanders, NEW e \in Endpoints, MakeDelivery(x, e) PROVE Exclusive'
    <2>1. expanders[x] # Idle /\ (expanders'[x] = Idle \/ expanders'[x].event = expanders[x].event)
      BY <1>5 DEF MakeDelivery, Idle, TypeOK
    <2>2. \A y \in Expanders \ {x} : expanders'[y] = expanders[y]
      BY <1>5 DEF MakeDelivery, TypeOK
    <2> QED BY <1>5, <2>1, <2>2 DEF MakeDelivery, Exists, At
  <1>6. ASSUME NEW x \in Expanders, FinishExpansion(x) PROVE Exclusive'
    <2>1. \A y \in Expanders : expanders'[y] # Idle =>
            y # x /\ expanders'[y] = expanders[y] /\ expanders[y].event # expanders[x].event
      BY <1>6, FinishAdds
    <2>2. \A y \in Expanders : expanders[y] # Idle => expanders[y].event \in Events
      BY DEF TypeOK
    <2>3. \A y \in Expanders : expanders'[y] # Idle =>
            events'[expanders'[y].event].status = "recorded"
      BY <1>6, <2>1, <2>2, FinishAdds
    <2>4. ASSUME NEW v \in Events, NEW e \in Endpoints, Exists(<<v, e>>)'
          PROVE  events'[v].status = "expanded"
      <3>1. At(<<v, e>>)' # Absent
        BY <2>4 DEF Exists, Absent
      <3>2. CASE v = expanders[x].event
        BY <1>6, <3>2, FinishAdds
      <3>3. CASE v # expanders[x].event
        BY <1>6, <3>1, <3>3, FinishAdds DEF Exists
      <3> QED BY <3>2, <3>3
    <2> QED BY <2>1, <2>3, <2>4
  <1>7. ASSUME NEW x \in Expanders, CrashExpander(x) PROVE Exclusive'
    BY <1>7 DEF CrashExpander, TypeOK, Exists, At
  <1>8. ASSUME NEW d \in Pairs,
               (\E w \in Workers : Work(w, d)) \/ ComesDue(d) \/ Expires(d) \/ Archive(d)
        PROVE  Exclusive'
    BY <1>1, <1>8, WorkersKeep
  <1>9. ASSUME NEW w \in Workers, Crash(w) PROVE Exclusive'
    BY <1>2, <1>9 DEF Crash
  <1>11. ASSUME NEW e \in Endpoints, NEW wants \in SUBSET Events,
                CreateEndpoint(e, wants) \/ (\E on \in BOOLEAN : UpdateEndpoint(e, on, wants))
         PROVE  Exclusive'
    BY <1>2, <1>11 DEF CreateEndpoint, UpdateEndpoint
  <1>12. ASSUME NEW e \in Endpoints, DeleteEndpoint(e) PROVE Exclusive'
    BY <1>2, <1>12 DEF DeleteEndpoint
  <1>13. CASE UNCHANGED vars
    BY <1>2, <1>13 DEF vars
  <1> QED BY <1>3, <1>4, <1>5, <1>6, <1>7, <1>8, <1>9, <1>11, <1>12, <1>13
          DEF Next, Expand

\* Whoever listened, and was not touched since, is found by whoever expands the event.
LEMMA HeardIsFoundStep == TypeOK /\ Exclusive /\ HeardIsFound /\ [Next]_vars => HeardIsFound'
  <1> SUFFICES ASSUME TypeOK, Exclusive, HeardIsFound, [Next]_vars PROVE HeardIsFound'
    OBVIOUS
  <1>1. ASSUME UNCHANGED <<endpoints, events, expanders>> PROVE HeardIsFound'
    BY <1>1 DEF HeardIsFound, Listens
  <1>2. ASSUME NEW e \in Endpoints, NEW wants \in SUBSET Events, CreateEndpoint(e, wants)
        PROVE  HeardIsFound'
    <2>1. \A f \in Endpoints \ {e} : endpoints'[f] = endpoints[f]
      BY <1>2 DEF CreateEndpoint, TypeOK
    <2>2. \A v \in Events : events[v].status # "none" =>
            DOMAIN events[v].heard \subseteq Endpoints \ {e}
      BY <1>2 DEF HeardIsFound, CreateEndpoint, TypeOK, Versions
    <2> QED BY <1>2, <2>1, <2>2 DEF HeardIsFound, CreateEndpoint, Listens
  <1>3. ASSUME NEW e \in Endpoints, NEW on \in BOOLEAN, NEW wants \in SUBSET Events,
               UpdateEndpoint(e, on, wants)
        PROVE  HeardIsFound'
    <2>1. \A f \in Endpoints \ {e} : endpoints'[f] = endpoints[f]
      BY <1>3 DEF UpdateEndpoint, TypeOK
    <2>2. endpoints'[e].status = "live" /\ endpoints'[e].version = endpoints[e].version + 1
      BY <1>3 DEF UpdateEndpoint, TypeOK
    <2>3. \A v \in Events : events[v].status # "none" =>
            \A f \in DOMAIN events[v].heard : f \in Endpoints /\ events[v].heard[f] \in Int
      BY DEF TypeOK, Versions
    <2>4. endpoints[e].version \in Int
      BY DEF TypeOK
    <2> QED BY <1>3, <2>1, <2>2, <2>3, <2>4 DEF HeardIsFound, UpdateEndpoint, Listens
  <1>4. ASSUME NEW e \in Endpoints, DeleteEndpoint(e) PROVE HeardIsFound'
    <2>1. \A f \in Endpoints \ {e} : endpoints'[f] = endpoints[f]
      BY <1>4 DEF DeleteEndpoint, TypeOK
    <2>2. endpoints'[e].status = "deleted" /\ endpoints'[e].version = endpoints[e].version
      BY <1>4 DEF DeleteEndpoint, TypeOK
    <2>3. \A v \in Events : events[v].status # "none" => DOMAIN events[v].heard \subseteq Endpoints
      BY DEF TypeOK, Versions
    <2> QED BY <1>4, <2>1, <2>2, <2>3 DEF HeardIsFound, DeleteEndpoint, Listens
  <1>5. ASSUME NEW v \in Events, RecordEvent(v) PROVE HeardIsFound'
    <2> DEFINE heard == [e \in {e \in Endpoints : Listens(e, v)} |-> endpoints[e].version]
    <2>1. events'[v] = [status |-> "recorded", heard |-> heard]
      BY <1>5 DEF RecordEvent, TypeOK
    <2>2. \A u \in Events \ {v} : events'[u] = events[u]
      BY <1>5 DEF RecordEvent, TypeOK
    <2>3. \A x \in Expanders : expanders[x] # Idle => expanders[x].event # v
      BY <1>5 DEF RecordEvent, Exclusive
    <2>4. \A e \in DOMAIN heard : e \in Endpoints /\ Listens(e, v) /\ heard[e] = endpoints[e].version
      OBVIOUS
    <2>5. \A e \in Endpoints : endpoints[e].version <= endpoints[e].version
      BY DEF TypeOK
    <2> HIDE DEF heard
    <2>6. ASSUME NEW e \in DOMAIN heard
          PROVE  Listens(e, v)' /\ endpoints'[e].status # "none" /\ heard[e] <= endpoints'[e].version
      BY <1>5, <2>4, <2>5 DEF RecordEvent, Listens
    <2> QED BY <1>5, <2>1, <2>2, <2>3, <2>6 DEF HeardIsFound, RecordEvent, Listens
  <1>6. ASSUME NEW x \in Expanders, NEW v \in Events, BeginExpansion(x, v) PROVE HeardIsFound'
    <2> DEFINE found == [e \in {e \in Endpoints : Listens(e, v)} |-> endpoints[e].version]
    <2>1. expanders'[x].event = v /\ DOMAIN expanders'[x].found = {e \in Endpoints : Listens(e, v)}
      BY <1>6 DEF BeginExpansion, TypeOK
    <2>2. \A y \in Expanders \ {x} : expanders'[y] = expanders[y]
      BY <1>6 DEF BeginExpansion, TypeOK
    <2>3. \A u \in Events : events[u].status # "none" => DOMAIN events[u].heard \subseteq Endpoints
      BY DEF TypeOK, Versions
    <2> QED BY <1>6, <2>1, <2>2, <2>3 DEF HeardIsFound, BeginExpansion, Listens
  <1>7. ASSUME NEW x \in Expanders, NEW e \in Endpoints, MakeDelivery(x, e) PROVE HeardIsFound'
    <2>1. /\ expanders[x] # Idle
          /\ \/ expanders'[x] = Idle
             \/ /\ expanders'[x].event = expanders[x].event
                /\ expanders'[x].found = expanders[x].found
      BY <1>7 DEF MakeDelivery, Idle, TypeOK
    <2>2. \A y \in Expanders \ {x} : expanders'[y] = expanders[y]
      BY <1>7 DEF MakeDelivery, TypeOK
    <2> QED BY <1>7, <2>1, <2>2 DEF HeardIsFound, MakeDelivery, Listens
  <1>8. ASSUME NEW x \in Expanders, FinishExpansion(x) PROVE HeardIsFound'
    <2>1. \A v \in Events : events'[v].status # "none" =>
            events[v].status # "none" /\ events'[v].heard = events[v].heard
      <3>1. expanders[x].event \in Events /\ events[expanders[x].event].status = "recorded"
        BY <1>8, FinishAdds DEF Exclusive
      <3> QED BY <1>8, <3>1, FinishAdds
    <2>2. \A y \in Expanders : expanders'[y] # Idle => expanders'[y] = expanders[y]
      BY <1>8, FinishAdds
    <2>3. UNCHANGED endpoints
      BY <1>8, FinishAdds
    <2> QED BY <2>1, <2>2, <2>3 DEF HeardIsFound, Listens
  <1>9. ASSUME NEW x \in Expanders, CrashExpander(x) PROVE HeardIsFound'
    <2>1. \A y \in Expanders : expanders'[y] # Idle => expanders'[y] = expanders[y]
      BY <1>9 DEF CrashExpander, TypeOK
    <2> QED BY <1>9, <2>1 DEF HeardIsFound, CrashExpander, Listens
  <1>10. ASSUME NEW d \in Pairs,
                (\E w \in Workers : Work(w, d)) \/ ComesDue(d) \/ Expires(d) \/ Archive(d)
         PROVE  HeardIsFound'
    BY <1>1, <1>10, WorkersKeep
  <1>11. ASSUME NEW w \in Workers, Crash(w) PROVE HeardIsFound'
    BY <1>1, <1>11 DEF Crash
  <1>12. CASE UNCHANGED vars
    BY <1>1, <1>12 DEF vars
  <1> QED BY <1>2, <1>3, <1>4, <1>5, <1>6, <1>7, <1>8, <1>9, <1>10, <1>11, <1>12
          DEF Next, Expand

\* An expansion that is marked has made a delivery for everyone it found.
LEMMA NobodyIsMissedStep ==
  TypeOK /\ Exclusive /\ HeardIsFound /\ NobodyIsMissed /\ [Next]_vars => NobodyIsMissed'
  <1> SUFFICES ASSUME TypeOK, Exclusive, HeardIsFound, NobodyIsMissed, [Next]_vars
               PROVE  NobodyIsMissed'
    OBVIOUS
  <1>0. \A v \in Events : events[v].status # "none" =>
          \A f \in DOMAIN events[v].heard : f \in Endpoints /\ events[v].heard[f] \in Int
    BY DEF TypeOK, Versions
  <1>1. ASSUME UNCHANGED <<endpoints, events>>, \A c \in Pairs : Exists(c)' <=> Exists(c)
        PROVE  NobodyIsMissed'
    BY <1>0, <1>1 DEF NobodyIsMissed, Pairs
  <1>2. ASSUME UNCHANGED <<events, deliveries>>, NEW e \in Endpoints,
               \A f \in Endpoints \ {e} : endpoints'[f] = endpoints[f],
               \A v \in Events : events[v].status # "none" /\ e \in DOMAIN events[v].heard =>
                 endpoints'[e].status # "live" \/ endpoints'[e].version # events[v].heard[e]
        PROVE  NobodyIsMissed'
    BY <1>0, <1>2 DEF NobodyIsMissed, Exists, At
  <1>3. ASSUME NEW e \in Endpoints, NEW wants \in SUBSET Events, CreateEndpoint(e, wants)
        PROVE  NobodyIsMissed'
    BY <1>2, <1>3 DEF CreateEndpoint, HeardIsFound, TypeOK
  <1>4. ASSUME NEW e \in Endpoints, NEW on \in BOOLEAN, NEW wants \in SUBSET Events,
               UpdateEndpoint(e, on, wants)
        PROVE  NobodyIsMissed'
    <2>1. /\ endpoints'[e].version = endpoints[e].version + 1
          /\ endpoints[e].version \in Int
          /\ \A f \in Endpoints \ {e} : endpoints'[f] = endpoints[f]
      BY <1>4 DEF UpdateEndpoint, TypeOK
    <2>2. \A v \in Events : events[v].status # "none" /\ e \in DOMAIN events[v].heard =>
            endpoints'[e].version # events[v].heard[e]
      BY <1>0, <2>1 DEF HeardIsFound
    <2> QED BY <1>2, <1>4, <2>1, <2>2 DEF UpdateEndpoint
  <1>5. ASSUME NEW e \in Endpoints, DeleteEndpoint(e) PROVE NobodyIsMissed'
    <2>1. endpoints'[e].status = "deleted" /\ \A f \in Endpoints \ {e} : endpoints'[f] = endpoints[f]
      BY <1>5 DEF DeleteEndpoint, TypeOK
    <2> QED BY <1>2, <1>5, <2>1 DEF DeleteEndpoint
  <1>6. ASSUME NEW v \in Events, RecordEvent(v) PROVE NobodyIsMissed'
    <2>1. \A u \in Events : events'[u].status = "expanded" => events'[u] = events[u]
      BY <1>6 DEF RecordEvent, TypeOK
    <2> QED BY <1>6, <2>1 DEF RecordEvent, NobodyIsMissed, Exists, At
  <1>7. ASSUME UNCHANGED <<endpoints, events, deliveries>> PROVE NobodyIsMissed'
    BY <1>1, <1>7 DEF Exists, At
  <1>8. ASSUME NEW x \in Expanders, FinishExpansion(x) PROVE NobodyIsMissed'
    <2> SUFFICES ASSUME NEW v \in Events, events'[v].status = "expanded",
                        NEW e \in DOMAIN events'[v].heard,
                        endpoints'[e].status = "live",
                        endpoints'[e].version = events'[v].heard[e]
                 PROVE  Exists(<<v, e>>)'
      BY DEF NobodyIsMissed
    <2>1. /\ expanders[x] # Idle /\ expanders[x].event \in Events
          /\ events[expanders[x].event].status = "recorded"
      BY <1>8, FinishAdds DEF Exclusive
    <2>2. events[v].status # "none" /\ events'[v].heard = events[v].heard
      BY <1>8, <2>1, FinishAdds
    <2>3. /\ e \in Endpoints /\ e \in DOMAIN events[v].heard
          /\ endpoints[e].status = "live" /\ endpoints[e].version = events[v].heard[e]
      BY <1>0, <1>8, <2>2, FinishAdds
    <2>4. CASE v = expanders[x].event
      <3>1. e \in DOMAIN expanders[x].found
        BY <2>1, <2>2, <2>3, <2>4 DEF HeardIsFound
      <3>2. At(<<v, e>>)' = New(expanders[x].found[e]) /\ New(expanders[x].found[e]) # Absent
        BY <1>8, <2>3, <2>4, <3>1, FinishAdds
      <3> QED BY <3>2 DEF Exists, Absent
    <2>5. CASE v # expanders[x].event
      <3>1. events[v].status = "expanded"
        BY <1>8, <2>5, FinishAdds
      <3>2. At(<<v, e>>) # Absent
        BY <2>3, <3>1 DEF NobodyIsMissed, Exists
      <3>3. At(<<v, e>>)' = At(<<v, e>>)
        BY <1>8, <2>3, <2>5, FinishAdds
      <3> QED BY <3>2, <3>3 DEF Exists, Absent
    <2> QED BY <2>4, <2>5
  <1>9. ASSUME NEW x \in Expanders,
               (\E v \in Events : BeginExpansion(x, v)) \/ (\E e \in Endpoints : MakeDelivery(x, e))
                 \/ CrashExpander(x)
        PROVE  NobodyIsMissed'
    BY <1>7, <1>9 DEF BeginExpansion, MakeDelivery, CrashExpander
  <1>10. ASSUME NEW d \in Pairs,
                (\E w \in Workers : Work(w, d)) \/ ComesDue(d) \/ Expires(d) \/ Archive(d)
         PROVE  NobodyIsMissed'
    BY <1>1, <1>10, WorkersKeep
  <1>11. ASSUME NEW w \in Workers, Crash(w) PROVE NobodyIsMissed'
    BY <1>7, <1>11 DEF Crash
  <1>12. CASE UNCHANGED vars
    BY <1>7, <1>12 DEF vars
  <1> QED BY <1>3, <1>4, <1>5, <1>6, <1>8, <1>9, <1>10, <1>11, <1>12 DEF Next, Expand
-----------------------------------------------------------------------------
(* How often a copy is sent                                                *)

\* Every attempt beyond the first is a retry that was asked for, or a fault.
LEMMA CopiesCountedStep == TypeOK /\ CopiesCounted /\ [Next]_vars => CopiesCounted'
  <1> SUFFICES ASSUME TypeOK, CopiesCounted, [Next]_vars PROVE CopiesCounted'
    OBVIOUS
  <1> DEFINE Counted(d) == Exists(d) => At(d).attempts <= At(d).retries + faults + Credit(d)
  <1>0. /\ faults \in Int /\ \A d \in Pairs : Credit(d) \in {0, 1} /\ Credit(d)' \in {0, 1}
        /\ \A d \in Pairs : Exists(d) => At(d).attempts \in Int /\ At(d).retries \in Int
        /\ \A row \in Rows : row # Absent /\ row.attempts \in Int /\ row.retries \in Int
        /\ \A d \in Pairs : Exists(d) => At(d) \in Rows
    <2>1. \A row \in Rows : row # Absent /\ row.attempts \in Int /\ row.retries \in Int
      BY BoundsAssumption DEF Rows, Absent, Open, Settled
    <2>2. \A d \in Pairs : Exists(d) => At(d) \in Rows
      BY ExistingIsRow
    <2> QED BY <2>1, <2>2 DEF Credit, TypeOK
  \* A row that is not touched stays counted when its lease does.
  <1>1. ASSUME NEW c \in Pairs, At(c)' = At(c), Alive(c) => Alive(c)', faults' = faults
        PROVE  Counted(c)'
    <2>1. Credit(c) <= Credit(c)'
      BY <1>1 DEF Credit
    <2>2. Exists(c)' => Exists(c)
      BY <1>1 DEF Exists, Absent
    <2> QED BY <1>0, <1>1, <2>1, <2>2 DEF CopiesCounted
  \* A fault pays for whatever was alive.
  <1>2. ASSUME NEW c \in Pairs, Exists(c)' => Exists(c) /\ At(c)'.attempts = At(c).attempts
                                               /\ At(c)'.retries = At(c).retries,
               faults' = faults + 1
        PROVE  Counted(c)'
    BY <1>0, <1>2 DEF CopiesCounted
  <1>3. ASSUME UNCHANGED <<deliveries, workers, faults>> PROVE CopiesCounted'
    <2>1. \A c \in Pairs : At(c)' = At(c) /\ (Alive(c) => Alive(c)')
      BY <1>3 DEF At, Alive, Holds
    <2> QED BY <1>1, <1>3, <2>1 DEF CopiesCounted
  <1>4. ASSUME NEW x \in Expanders, FinishExpansion(x) PROVE CopiesCounted'
    <2> SUFFICES ASSUME NEW v \in Events, NEW e \in Endpoints PROVE Counted(<<v, e>>)'
      BY DEF CopiesCounted, Pairs
    <2>1. CASE v = expanders[x].event /\ e \in DOMAIN expanders[x].found
      <3>0. At(<<v, e>>)' = New(expanders[x].found[e])
        BY <1>4, <2>1, FinishAdds
      <3>1. At(<<v, e>>)'.attempts = 0 /\ At(<<v, e>>)'.retries = 0
        BY <3>0 DEF New
      <3>2. faults' \in Nat
        BY <1>4, FinishAdds DEF TypeOK
      <3> QED BY <1>0, <3>1, <3>2 DEF Pairs
    <2>2. CASE ~(v = expanders[x].event /\ e \in DOMAIN expanders[x].found)
      <3>1. At(<<v, e>>)' = At(<<v, e>>) /\ UNCHANGED <<workers, faults>>
        BY <1>4, <2>2, FinishAdds
      <3>2. Alive(<<v, e>>) => Alive(<<v, e>>)'
        BY <3>1 DEF Alive, Holds
      <3> QED BY <1>1, <3>1, <3>2 DEF Pairs
    <2> QED BY <2>1, <2>2
  <1>5. ASSUME NEW w \in Workers, NEW d \in Pairs, Lease(w, d) PROVE CopiesCounted'
    <2> DEFINE row == [At(d) EXCEPT !.status = "delivering", !.token = w, !.expired = FALSE,
                                    !.attempts = @ + 1]
    <2>1. At(d) \in Rows /\ Exists(d) /\ row \in Rows
      BY <1>5, ExistingIsRow, RowsType DEF Lease, Leasable
    <2>2. At(d)' = row /\ \A c \in Pairs : c # d => At(c)' = At(c)
      BY <1>5, <2>1, WritesOne DEF Lease
    <2>3. row.attempts = At(d).attempts + 1 /\ row.retries = At(d).retries
          /\ row.status = "delivering" /\ row.token = w /\ ~row.expired
      BY <2>1 DEF Rows
    <2>4. /\ workers[w] = Idle /\ workers'[w] # Idle /\ workers'[w].on = d /\ faults' = faults
          /\ \A u \in Workers : u # w => workers'[u] = workers[u]
      BY <1>5 DEF Lease, TypeOK, Idle
    <2> HIDE DEF row
    <2>5. ~Alive(d) /\ At(d).status \notin Settled
      BY <1>5, BoundsAssumption DEF Lease, Leasable, Alive, Holds, Open, Settled
    <2>6. Alive(d)'
      BY <2>2, <2>3, <2>4 DEF Alive, Holds
    <2>7. Counted(d)'
      <3>1. Credit(d) = 0 /\ Credit(d)' = 1
        BY <2>5, <2>6 DEF Credit
      <3>2. At(d).attempts <= At(d).retries + faults
        BY <1>0, <2>1, <3>1 DEF CopiesCounted
      <3> QED BY <1>0, <2>1, <2>2, <2>3, <2>4, <3>1, <3>2
    <2>8. ASSUME NEW c \in Pairs, c # d PROVE Counted(c)'
      <3>1. Alive(c) => Alive(c)'
        BY <2>2, <2>4, <2>8 DEF Alive, Holds
      <3> QED BY <1>1, <2>2, <2>4, <2>8, <3>1
    <2> QED BY <2>7, <2>8 DEF CopiesCounted
  <1>6. ASSUME NEW w \in Workers, NEW d \in Pairs, NEW r \in Results, Send(w, d, r)
        PROVE  CopiesCounted'
    <2>1. /\ workers'[w] # Idle /\ workers'[w].on = workers[w].on
          /\ \A u \in Workers : u # w => workers'[u] = workers[u]
          /\ UNCHANGED <<deliveries, faults>>
      BY <1>6 DEF Send, TypeOK, Idle
    <2>2. \A c \in Pairs : At(c)' = At(c) /\ (Alive(c) => Alive(c)')
      BY <2>1 DEF Alive, Holds, At
    <2> QED BY <1>1, <2>1, <2>2 DEF CopiesCounted
  <1>7. ASSUME NEW w \in Workers, NEW d \in Pairs, Record(w, d) PROVE CopiesCounted'
    <2>1. /\ workers[w] # Idle /\ workers[w].on = d /\ workers[w].result \in Results
          /\ \A u \in Workers : u # w => workers'[u] = workers[u]
          /\ faults' = faults
      BY <1>7 DEF Record, TypeOK, Idle
    <2>2. ASSUME NEW c \in Pairs, c # d, At(c)' = At(c) PROVE Counted(c)'
      <3>1. Alive(c) => Alive(c)'
        BY <2>1, <2>2 DEF Alive, Holds
      <3> QED BY <1>1, <2>1, <2>2, <3>1
    <2>3. CASE Holds(w, d)
      <3> DEFINE row == Answered(At(d), workers[w].result)
      <3>0. Exists(d) /\ At(d) \in Rows
        BY <2>3, ExistingIsRow DEF Holds, Exists, Absent
      <3>1. Exists(d) /\ At(d) \in Rows /\ row \in Rows
        BY <2>1, <3>0, RowsType
      <3>2. At(d)' = row /\ \A c \in Pairs : c # d => At(c)' = At(c)
        BY <1>7, <2>3, <3>1, WritesOne DEF Record
      <3>3. /\ row.attempts = At(d).attempts
            /\ \/ row.status \in Settled /\ row.retries = At(d).retries
               \/ row.retries = At(d).retries + 1
        BY <3>1 DEF Answered, Rows, Settled
      <3> HIDE DEF row
      <3>4. Counted(d)'
        <4>1. At(d).attempts <= At(d).retries + faults + 1
          BY <1>0, <3>1 DEF CopiesCounted
        <4>2. row.status \in Settled => Credit(d)' = 1
          BY <3>2 DEF Credit
        <4> QED BY <1>0, <2>1, <3>1, <3>2, <3>3, <4>1, <4>2
      <3> QED BY <2>2, <3>2, <3>4 DEF CopiesCounted
    <2>4. CASE ~Holds(w, d)
      <3>1. \A c \in Pairs : At(c)' = At(c)
        BY <1>7, <2>4 DEF Record, At
      <3>2. Alive(d) => Alive(d)'
        BY <2>1, <2>4, <3>1 DEF Alive, Holds
      <3> QED BY <1>1, <2>1, <2>2, <3>1, <3>2 DEF CopiesCounted
    <2> QED BY <2>3, <2>4
  <1>8. ASSUME NEW w \in Workers, Crash(w) PROVE CopiesCounted'
    BY <1>2, <1>8 DEF Crash, CopiesCounted, Exists, At
  <1>9. ASSUME NEW d \in Pairs, ComesDue(d) PROVE CopiesCounted'
    <2> DEFINE row == [At(d) EXCEPT !.due = TRUE]
    <2>1. At(d) \in Rows /\ Exists(d) /\ row \in Rows
      BY <1>9, ExistingIsRow, RowsType DEF ComesDue
    <2>2. At(d)' = row /\ \A c \in Pairs : c # d => At(c)' = At(c)
      BY <1>9, <2>1, WritesOne DEF ComesDue
    <2>3. row.attempts = At(d).attempts /\ row.retries = At(d).retries
      BY <2>1 DEF Rows
    <2>4. UNCHANGED <<workers, faults>>
      BY <1>9 DEF ComesDue
    <2> HIDE DEF row
    <2>5. Credit(d) = 0
      BY <1>9 DEF ComesDue, Credit, Alive, Holds, Settled
    <2>6. Counted(d)'
      BY <1>0, <2>1, <2>2, <2>3, <2>4, <2>5 DEF CopiesCounted
    <2>7. \A c \in Pairs : c # d => (Alive(c) => Alive(c)')
      BY <2>2, <2>4 DEF Alive, Holds
    <2> QED BY <1>1, <2>2, <2>4, <2>6, <2>7 DEF CopiesCounted
  <1>10. ASSUME NEW d \in Pairs, Expires(d) PROVE CopiesCounted'
    <2> DEFINE row == [At(d) EXCEPT !.expired = TRUE]
    <2>1. At(d) \in Rows /\ Exists(d) /\ row \in Rows
      BY <1>10, ExistingIsRow, RowsType DEF Expires
    <2>2. At(d)' = row /\ \A c \in Pairs : c # d => At(c)' = At(c)
      BY <1>10, <2>1, WritesOne DEF Expires
    <2>3. row.attempts = At(d).attempts /\ row.retries = At(d).retries
      BY <2>1 DEF Rows
    <2>4. UNCHANGED workers
      BY <1>10 DEF Expires
    <2> HIDE DEF row
    <2>5. CASE Alive(d)
      <3>1. faults' = faults + 1
        BY <1>10, <2>5 DEF Expires, Alive
      <3>2. \A c \in Pairs : Exists(c)' => /\ Exists(c)
                                           /\ At(c)'.attempts = At(c).attempts
                                           /\ At(c)'.retries = At(c).retries
        BY <2>1, <2>2, <2>3 DEF Exists, Absent
      <3> QED BY <1>2, <3>1, <3>2 DEF CopiesCounted
    <2>6. CASE ~Alive(d)
      <3>1. faults' = faults
        BY <1>10, <2>6 DEF Expires, Alive
      <3>2. Credit(d) = 0
        BY <1>10, <2>6 DEF Expires, Credit, Settled
      <3>3. Counted(d)'
        BY <1>0, <2>1, <2>2, <2>3, <3>1, <3>2 DEF CopiesCounted
      <3>4. \A c \in Pairs : c # d => (Alive(c) => Alive(c)')
        BY <2>2, <2>4 DEF Alive, Holds
      <3> QED BY <1>1, <2>2, <3>1, <3>3, <3>4 DEF CopiesCounted
    <2> QED BY <2>5, <2>6
  <1>11. ASSUME NEW d \in Pairs, Archive(d) PROVE CopiesCounted'
    <2> DEFINE row == [At(d) EXCEPT !.status = "archived"]
    <2>1. At(d) \in Rows /\ Exists(d) /\ row \in Rows
      BY <1>11, ExistingIsRow, RowsType DEF Archive
    <2>2. At(d)' = row /\ \A c \in Pairs : c # d => At(c)' = At(c)
      BY <1>11, <2>1, WritesOne DEF Archive
    <2>3. row.attempts = At(d).attempts /\ row.retries = At(d).retries /\ row.status = "archived"
      BY <2>1 DEF Rows
    <2>4. UNCHANGED <<workers, faults>>
      BY <1>11 DEF Archive
    <2> HIDE DEF row
    <2>5. Credit(d)' = 1
      BY <2>2, <2>3 DEF Credit, Settled
    <2>6. Counted(d)'
      BY <1>0, <2>1, <2>2, <2>3, <2>4, <2>5 DEF CopiesCounted
    <2>7. \A c \in Pairs : c # d => (Alive(c) => Alive(c)')
      BY <2>2, <2>4 DEF Alive, Holds
    <2> QED BY <1>1, <2>2, <2>4, <2>6, <2>7 DEF CopiesCounted
  <1>12. ASSUME NEW e \in Endpoints, NEW wants \in SUBSET Events,
                CreateEndpoint(e, wants) \/ (\E on \in BOOLEAN : UpdateEndpoint(e, on, wants))
         PROVE  CopiesCounted'
    BY <1>3, <1>12 DEF CreateEndpoint, UpdateEndpoint
  <1>13. ASSUME NEW v \in Events, RecordEvent(v) PROVE CopiesCounted'
    BY <1>3, <1>13 DEF RecordEvent
  <1>14. ASSUME NEW x \in Expanders,
                (\E v \in Events : BeginExpansion(x, v)) \/ (\E e \in Endpoints : MakeDelivery(x, e))
         PROVE  CopiesCounted'
    BY <1>3, <1>14 DEF BeginExpansion, MakeDelivery
  <1>15. ASSUME NEW x \in Expanders, CrashExpander(x) PROVE CopiesCounted'
    BY <1>2, <1>15 DEF CrashExpander, CopiesCounted, Exists, At
  <1>16. CASE UNCHANGED vars
    BY <1>3, <1>16 DEF vars
  <1>17. ASSUME NEW e \in Endpoints, DeleteEndpoint(e) PROVE CopiesCounted'
    BY <1>3, <1>17 DEF DeleteEndpoint
  <1> QED BY <1>4, <1>5, <1>6, <1>7, <1>8, <1>9, <1>10, <1>11, <1>12, <1>13, <1>14, <1>15,
             <1>16, <1>17 DEF Next, Expand, Work
-----------------------------------------------------------------------------
(* The theorems                                                            *)

\* Before the first event nothing was delivered, heard or found.
LEMMA InvInit == Init => IInv
  <1> SUFFICES ASSUME Init PROVE IInv
    OBVIOUS
  <1>1. TypeOK
    BY TypeInit
  <1>2. \A d \in Pairs : ~Exists(d)
    BY DEF Init, Exists, At, Pairs
  <1>3. Exclusive /\ HeardIsFound /\ NobodyIsMissed
    BY <1>2 DEF Init, Exclusive, HeardIsFound, NobodyIsMissed, Pairs
  <1> QED BY <1>1, <1>2, <1>3 DEF IInv, CopiesCounted

\* Every step of the manager, the expanders and the workers keeps the invariant.
LEMMA InvStep == IInv /\ [Next]_vars => IInv'
  BY TypeStep, ExclusiveStep, HeardIsFoundStep, NobodyIsMissedStep, CopiesCountedStep DEF IInv

\* In every reachable state the types hold, an event is expanded by one expander
\* alone, the listeners of an event are found, and the copies are accounted for.
THEOREM Invariance == Spec => []IInv
  BY InvInit, InvStep, PTL DEF Spec

\* Every variable keeps its type: no version passes the bound of the changes, and no
\* delivery asks for more retries than the code allows.
THEOREM TypeCorrect == Spec => []TypeOK
  <1>1. IInv => TypeOK
    BY DEF IInv
  <1> QED BY <1>1, Invariance, PTL

\* expand_committed_events: however many expanders run and die, and whatever endpoint is
\* changed under them, an expanded event has a delivery for every endpoint that listened
\* when it was recorded and stayed as it was.
THEOREM ListenersAreServed == Spec => []NobodyIsMissed
  <1>1. IInv => NobodyIsMissed
    BY DEF IInv
  <1> QED BY <1>1, Invariance, PTL

\* process_single_delivery: a copy beyond the first is a retry the endpoint asked for, or
\* is paid for by a worker that was lost or outlived its lease.
THEOREM CopiesAreBounded == Spec => []CopiesAreExplained
  <1>1. IInv => CopiesAreExplained
    <2> SUFFICES ASSUME IInv, NEW d \in Pairs, Exists(d)
                 PROVE  At(d).attempts <= 1 + At(d).retries + faults
      BY DEF CopiesAreExplained
    <2>1. At(d) \in Rows /\ faults \in Int
      BY ExistingIsRow DEF IInv, TypeOK
    <2>2. At(d).attempts \in Int /\ At(d).retries \in Int
      BY <2>1, BoundsAssumption DEF Rows
    <2>3. At(d).attempts <= At(d).retries + faults + Credit(d) /\ Credit(d) \in {0, 1}
      BY DEF IInv, CopiesCounted, Credit
    <2> QED BY <2>1, <2>2, <2>3
  <1> QED BY <1>1, Invariance, PTL

\* process_single_delivery, cleanup_old_deliveries: a delivery that was settled is only
\* archived, whatever answer comes late and whoever expands its event again.
THEOREM SettledIsFinal == Spec => SettledStands
  <1> DEFINE Stands == \A d \in Pairs : Exists(d) /\ At(d).status \in Settled =>
                         At(d)' = At(d) \/ At(d)' = [At(d) EXCEPT !.status = "archived"]
  <1>1. IInv /\ [Next]_vars => Stands
    <2> SUFFICES ASSUME IInv, [Next]_vars PROVE Stands
      OBVIOUS
    <2>0. TypeOK /\ Exclusive
      BY DEF IInv
    <2>1. ASSUME UNCHANGED deliveries PROVE Stands
      BY <2>1 DEF At
    <2>2. ASSUME NEW d \in Pairs, NEW row \in Rows, To(d, row),
                 Exists(d) => At(d).status \notin Settled
          PROVE  Stands
      BY <2>0, <2>2, WritesOne
    <2>3. ASSUME NEW x \in Expanders, FinishExpansion(x) PROVE Stands
      <3>1. events[expanders[x].event].status = "recorded"
        BY <2>0, <2>3, FinishAdds DEF Exclusive
      <3>2. \A v \in Events, e \in Endpoints : Exists(<<v, e>>) => v # expanders[x].event
        BY <2>0, <3>1 DEF Exclusive
      <3>3. \A v \in Events, e \in Endpoints : Exists(<<v, e>>) => At(<<v, e>>)' = At(<<v, e>>)
        BY <2>0, <2>3, <3>2, FinishAdds
      <3> QED BY <3>3 DEF Pairs
    <2>4. ASSUME NEW w \in Workers, NEW d \in Pairs, Lease(w, d) PROVE Stands
      <3>1. At(d) \in Rows
        BY <2>0, <2>4, ExistingIsRow DEF Lease, Leasable
      <3> QED BY <2>2, <2>4, <3>1, RowsType DEF Lease, Leasable, Open, Settled
    <2>5. ASSUME NEW w \in Workers, NEW d \in Pairs, Record(w, d) PROVE Stands
      <3>1. workers[w].result \in Results
        BY <2>0, <2>5 DEF Record, TypeOK, Idle
      <3>2. CASE Holds(w, d)
        <4>1. At(d) \in Rows
          BY <2>0, <3>2, ExistingIsRow DEF Holds, Exists, Absent
        <4>2. Answered(At(d), workers[w].result) \in Rows
          BY <3>1, <4>1, RowsType
        <4>3. At(d).status \notin Settled
          BY <3>2 DEF Holds, Settled
        <4> QED BY <2>2, <2>5, <3>2, <4>2, <4>3 DEF Record
      <3>3. CASE ~Holds(w, d)
        BY <2>1, <2>5, <3>3 DEF Record
      <3> QED BY <3>2, <3>3
    <2>6. ASSUME NEW d \in Pairs, ComesDue(d) PROVE Stands
      <3>1. [At(d) EXCEPT !.due = TRUE] \in Rows
        BY <2>0, <2>6, ExistingIsRow, RowsType DEF ComesDue
      <3> QED BY <2>2, <2>6, <3>1 DEF ComesDue, Settled
    <2>7. ASSUME NEW d \in Pairs, Expires(d) PROVE Stands
      <3>1. [At(d) EXCEPT !.expired = TRUE] \in Rows
        BY <2>0, <2>7, ExistingIsRow, RowsType DEF Expires
      <3> QED BY <2>2, <2>7, <3>1 DEF Expires, Settled
    <2>8. ASSUME NEW d \in Pairs, Archive(d) PROVE Stands
      <3>1. [At(d) EXCEPT !.status = "archived"] \in Rows
        BY <2>0, <2>8, ExistingIsRow, RowsType DEF Archive
      <3> QED BY <2>0, <2>8, <3>1, WritesOne DEF Archive
    <2>9. ASSUME NEW e \in Endpoints, NEW wants \in SUBSET Events,
                 CreateEndpoint(e, wants) \/ (\E on \in BOOLEAN : UpdateEndpoint(e, on, wants))
          PROVE  Stands
      BY <2>1, <2>9 DEF CreateEndpoint, UpdateEndpoint
    <2>10. ASSUME NEW e \in Endpoints, DeleteEndpoint(e) PROVE Stands
      BY <2>1, <2>10 DEF DeleteEndpoint
    <2>11. ASSUME NEW v \in Events, RecordEvent(v) PROVE Stands
      BY <2>1, <2>11 DEF RecordEvent
    <2>12. ASSUME NEW x \in Expanders,
                  (\E v \in Events : BeginExpansion(x, v)) \/ (\E e \in Endpoints : MakeDelivery(x, e))
                    \/ CrashExpander(x)
           PROVE  Stands
      BY <2>1, <2>12 DEF BeginExpansion, MakeDelivery, CrashExpander
    <2>13. ASSUME NEW w \in Workers,
                  Crash(w) \/ (\E d \in Pairs, r \in Results : Send(w, d, r))
           PROVE  Stands
      BY <2>1, <2>13 DEF Crash, Send
    <2>14. CASE UNCHANGED vars
      BY <2>1, <2>14 DEF vars
    <2> QED BY <2>3, <2>4, <2>5, <2>6, <2>7, <2>8, <2>9, <2>10, <2>11, <2>12, <2>13, <2>14
            DEF Next, Expand, Work
  <1> QED BY <1>1, Invariance, PTL DEF Spec, SettledStands
-----------------------------------------------------------------------------
(* The events and the deliveries implement EventCopies                     *)

OutboxStep == Outbox!Next \/ UNCHANGED <<Progress, Owed, Copies>>

\* How a row shows, and what rewriting it shows.
LEMMA CopyOf ==
  /\ \A row \in Rows :
       /\ row # Absent /\ row.retries \in 0..MAX_RETRIES
       /\ row.status \in Open => Copy(row) = Outbox!In("open", row.retries)
       /\ row.status \in Settled => Copy(row) = Outbox!In(row.status, row.retries)
  /\ Copy(Absent) = Outbox!In("absent", 0)
  /\ \A n \in 0..MaxVersions : Copy(New(n)) = Outbox!In("open", 0)
  <1>1. ASSUME NEW row \in Rows
        PROVE  /\ row # Absent /\ row.retries \in 0..MAX_RETRIES
               /\ row.status \in Open => Copy(row) = Outbox!In("open", row.retries)
               /\ row.status \in Settled => Copy(row) = Outbox!In(row.status, row.retries)
    <2>1. row # Absent
      BY DEF Rows, Absent
    <2> QED BY <2>1 DEF Rows, Copy, Open, Settled, Outbox!In
  <1>2. Copy(Absent) = Outbox!In("absent", 0)
    BY DEF Copy, Outbox!In
  <1>3. ASSUME NEW n \in 0..MaxVersions PROVE Copy(New(n)) = Outbox!In("open", 0)
    <2>1. New(n) \in Rows /\ New(n).status = "pending" /\ New(n).retries = 0
      BY RowsType DEF New
    <2> QED BY <1>1, <2>1 DEF Open
  <1> QED BY <1>1, <1>2, <1>3

\* A delivery that is rewritten is a copy that becomes something else, or nothing.
LEMMA RowOutbox ==
  ASSUME TypeOK, NEW d \in Pairs, NEW row \in Rows, To(d, row), Exists(d),
         UNCHANGED <<endpoints, events>>
  PROVE  /\ Copy(row) = Copy(At(d)) => UNCHANGED <<Progress, Owed, Copies>>
         /\ Outbox!Becomes(d[1], d[2], Copy(At(d)), Copy(row))
  <1> DEFINE v == d[1]
             e == d[2]
  <1>1. v \in Events /\ e \in Endpoints /\ At(d) = deliveries[v][e]
    BY DEF Pairs, At
  <1>2. deliveries' = [deliveries EXCEPT ![v][e] = row]
    BY DEF To
  <1>3. Progress' = Progress /\ Owed' = Owed
    BY DEF Progress, Owed, Matches
  <1> HIDE DEF v, e
  <1>4. \A u \in Events, f \in Endpoints :
          deliveries'[u][f] = IF u = v /\ f = e THEN row ELSE deliveries[u][f]
    BY <1>1, <1>2 DEF TypeOK
  <1>5. Copies' = [u \in Events |-> [f \in Endpoints |->
                    IF u = v /\ f = e THEN Copy(row) ELSE Copy(deliveries[u][f])]]
    BY <1>4 DEF Copies
  <1>6. Copies[v][e] = Copy(At(d))
    BY <1>1 DEF Copies
  <1>7. Copies' = [Copies EXCEPT ![v][e] = Copy(row)]
    BY <1>5 DEF Copies
  <1>8. Copy(row) = Copy(At(d)) => Copies' = Copies
    BY <1>1, <1>5 DEF Copies
  <1> QED BY <1>3, <1>6, <1>7, <1>8 DEF Outbox!Becomes, v, e

\* An expansion that ends makes the copies of its event, and of nobody who is owed one
\* none.
LEMMA FinishOutbox ==
  ASSUME TypeOK, Exclusive, HeardIsFound, NEW x \in Expanders, FinishExpansion(x)
  PROVE  OutboxStep
  <1> DEFINE v == expanders[x].event
             S == DOMAIN expanders[x].found
  <1>1. /\ expanders[x] # Idle /\ v \in Events /\ S \subseteq Endpoints
        /\ \A e \in S : expanders[x].found[e] \in 0..MaxVersions
    BY DEF FinishExpansion, Idle, TypeOK, Versions
  <1>2. events[v].status = "recorded" /\ \A e \in Endpoints : ~Exists(<<v, e>>)
    BY <1>1 DEF Exclusive
  <1>3. Owed[v] \subseteq S
    BY <1>1, <1>2 DEF Owed, HeardIsFound, Matches
  <1>4. \A u \in Events :
          /\ events'[u].status = IF u = v THEN "expanded" ELSE events[u].status
          /\ events[u].status # "none" => events'[u].heard = events[u].heard
    BY FinishAdds
  <1>5. \A u \in Events, e \in Endpoints :
          At(<<u, e>>)' = IF u = v /\ e \in S THEN New(expanders[x].found[e]) ELSE At(<<u, e>>)
    BY FinishAdds
  <1>6. endpoints' = endpoints
    BY DEF FinishExpansion
  <1> HIDE DEF v, S
  <1>7. Progress' = [Progress EXCEPT ![v] = "expanded"] /\ Progress[v] = "recorded"
    BY <1>1, <1>2, <1>4 DEF Progress
  <1>8. Owed' = [Owed EXCEPT ![v] = {}]
    <2>1. \A u \in Events : Owed'[u] = IF u = v THEN {} ELSE Owed[u]
      BY <1>4, <1>6 DEF Owed, Matches
    <2> QED BY <2>1 DEF Owed
  <1>9. \A u \in Events, e \in Endpoints :
          deliveries'[u][e] = IF u = v /\ e \in S THEN New(expanders[x].found[e]) ELSE deliveries[u][e]
    BY <1>5 DEF At
  <1>10. \A e \in Endpoints : deliveries[v][e] = Absent
    BY <1>2 DEF Exists, At
  <1>11. \A u \in Events, e \in Endpoints : Copy(deliveries'[u][e]) =
           IF u = v THEN Outbox!In(IF e \in S THEN "open" ELSE "absent", 0)
           ELSE Copy(deliveries[u][e])
    BY <1>1, <1>9, <1>10, CopyOf
  <1>12. Copies' = [Copies EXCEPT ![v] =
           [e \in Endpoints |-> Outbox!In(IF e \in S THEN "open" ELSE "absent", 0)]]
    BY <1>11 DEF Copies
  <1>13. Outbox!Expand(v, S)
    BY <1>3, <1>7, <1>8, <1>12 DEF Outbox!Expand
  <1> QED BY <1>1, <1>13 DEF Outbox!Next, OutboxStep

\* What is done to an endpoint takes from it what it was owed, and from nobody else.
LEMMA EndpointOutbox ==
  ASSUME TypeOK, HeardIsFound, NEW e \in Endpoints, UNCHANGED <<events, deliveries>>,
         \/ \E wants \in SUBSET Events :
              CreateEndpoint(e, wants) \/ \E on \in BOOLEAN : UpdateEndpoint(e, on, wants)
         \/ DeleteEndpoint(e)
  PROVE  OutboxStep
  <1>1. \A f \in Endpoints \ {e} : endpoints'[f] = endpoints[f]
    BY DEF CreateEndpoint, UpdateEndpoint, DeleteEndpoint, TypeOK
  <1>2. \A v \in Events : events[v].status # "none" => \A f \in DOMAIN events[v].heard :
          /\ f \in Endpoints /\ events[v].heard[f] \in Int
          /\ endpoints[f].status # "none" /\ events[v].heard[f] <= endpoints[f].version
    BY SMTT(20) DEF HeardIsFound, TypeOK, Versions
  <1>3. \/ endpoints[e].status = "none"
        \/ endpoints'[e].status = "live" /\ endpoints'[e].version = endpoints[e].version + 1
        \/ endpoints'[e].status = "deleted"
    BY DEF CreateEndpoint, UpdateEndpoint, DeleteEndpoint, TypeOK
  <1>4. endpoints[e].version \in Int
    BY DEF TypeOK
  <1>5. \A v \in Events : events[v].status = "recorded" /\ e \in DOMAIN events[v].heard =>
          ~Matches(e, events[v].heard[e])'
    BY <1>2, <1>3, <1>4 DEF Matches
  <1>6. \A v \in Events : Owed'[v] = Owed[v] \ {e}
    BY <1>1, <1>2, <1>5 DEF Owed, Matches
  <1>7. Owed' = [v \in Events |-> Owed[v] \ {e}]
    BY <1>6 DEF Owed
  <1>8. Progress' = Progress /\ Copies' = Copies
    BY DEF Progress, Copies
  <1> QED BY <1>7, <1>8 DEF Outbox!Next, Outbox!Touch, OutboxStep

\* Every step is a step of the promise, or changes nothing it tells of.
LEMMA OutboxNext == IInv /\ [Next]_vars => OutboxStep
  <1> SUFFICES ASSUME IInv, [Next]_vars PROVE OutboxStep
    OBVIOUS
  <1>0. TypeOK /\ Exclusive /\ HeardIsFound
    BY DEF IInv
  <1>1. ASSUME UNCHANGED <<endpoints, events, deliveries>> PROVE OutboxStep
    BY <1>1 DEF OutboxStep, Progress, Owed, Copies, Matches
  <1>2. ASSUME NEW v \in Events, RecordEvent(v) PROVE OutboxStep
    <2>1. /\ events[v].status = "none" /\ events'[v].status = "recorded"
          /\ DOMAIN events'[v].heard \subseteq Endpoints
          /\ \A u \in Events \ {v} : events'[u] = events[u]
          /\ UNCHANGED <<endpoints, deliveries>>
      BY <1>0, <1>2 DEF RecordEvent, TypeOK
    <2> DEFINE S == Owed'[v]
    <2>2. S \subseteq Endpoints
      BY <2>1 DEF Owed
    <2>3. Progress' = [Progress EXCEPT ![v] = "recorded"] /\ Progress[v] = "none"
      BY <2>1 DEF Progress
    <2>4. Owed' = [Owed EXCEPT ![v] = S]
      <3>1. ASSUME NEW u \in Events \ {v} PROVE Owed'[u] = Owed[u]
        <4>1. events'[u] = events[u] /\ \A f, n : Matches(f, n)' <=> Matches(f, n)
          BY <2>1 DEF Matches
        <4> QED BY <4>1 DEF Owed
      <3>2. Owed' = [u \in Events |-> Owed'[u]] /\ Owed = [u \in Events |-> Owed[u]]
        BY DEF Owed
      <3> QED BY <3>1, <3>2
    <2>5. Copies' = Copies
      BY <2>1 DEF Copies
    <2> QED BY <2>2, <2>3, <2>4, <2>5 DEF Outbox!Next, Outbox!Tell, OutboxStep
  <1>3. ASSUME NEW w \in Workers, NEW d \in Pairs, Lease(w, d) PROVE OutboxStep
    <2> DEFINE row == [At(d) EXCEPT !.status = "delivering", !.token = w, !.expired = FALSE,
                                    !.attempts = @ + 1]
    <2>1. At(d) \in Rows /\ At(d).status \in Open /\ Exists(d)
      BY <1>0, <1>3, ExistingIsRow DEF Lease, Leasable
    <2>2. row \in Rows /\ row.status = "delivering" /\ row.retries = At(d).retries
      BY <2>1, RowsType DEF Rows
    <2>3. To(d, row) /\ UNCHANGED <<endpoints, events>>
      BY <1>3 DEF Lease
    <2> HIDE DEF row
    <2>4. Copy(row) = Copy(At(d))
      BY <2>1, <2>2, CopyOf DEF Open
    <2> QED BY <1>0, <2>1, <2>2, <2>3, <2>4, RowOutbox DEF OutboxStep
  <1>4. ASSUME NEW w \in Workers, NEW d \in Pairs, Record(w, d), Holds(w, d) PROVE OutboxStep
    <2> DEFINE old == At(d)
               r == workers[w].result
               row == Answered(old, r)
    <2>1. r \in Results
      BY <1>0, <1>4 DEF Record, TypeOK, Idle
    <2>2. old \in Rows /\ Exists(d) /\ old.status \in Open
      BY <1>0, <1>4, ExistingIsRow DEF Holds, Exists, Absent, Open
    <2>3. row \in Rows
      BY <2>1, <2>2, RowsType
    <2>4. To(d, row) /\ UNCHANGED <<endpoints, events>>
      BY <1>4 DEF Record
    <2>5. /\ old.retries \in 0..MAX_RETRIES
          /\ \/ row.status \in {"delivered", "failed"} /\ row.retries = old.retries
             \/ /\ row.status = "retrying" /\ row.retries = old.retries + 1
                /\ old.retries < MAX_RETRIES
      BY <2>2 DEF Answered, Rows
    <2>6. Copy(old) = Outbox!In("open", old.retries)
      BY <2>2, CopyOf
    <2>7. Outbox!Becomes(d[1], d[2], Copy(old), Copy(row))
      BY <1>0, <2>2, <2>3, <2>4, RowOutbox
    <2>8. d[1] \in Events /\ d[2] \in Endpoints
      BY DEF Pairs
    <2> HIDE DEF old, row
    <2>9. CASE row.status \in {"delivered", "failed"} /\ row.retries = old.retries
      <3>1. Copy(row) = Outbox!In(row.status, old.retries)
        BY <2>3, <2>9, CopyOf DEF Settled
      <3>2. Outbox!Settle(d[1], d[2], old.retries)
        BY <2>6, <2>7, <2>9, <3>1 DEF Outbox!Settle
      <3> QED BY <2>5, <2>8, <3>2 DEF Outbox!Next, OutboxStep
    <2>10. CASE row.status = "retrying" /\ row.retries = old.retries + 1
                /\ old.retries < MAX_RETRIES
      <3>1. Copy(row) = Outbox!In("open", old.retries + 1)
        BY <2>3, <2>10, CopyOf DEF Open
      <3>2. Outbox!Retry(d[1], d[2], old.retries)
        BY <2>6, <2>7, <2>10, <3>1 DEF Outbox!Retry
      <3> QED BY <2>5, <2>8, <3>2 DEF Outbox!Next, OutboxStep
    <2> QED BY <2>5, <2>9, <2>10
  <1>5. ASSUME NEW d \in Pairs, ComesDue(d) \/ Expires(d) PROVE OutboxStep
    <2>1. At(d) \in Rows /\ At(d).status \in Open /\ Exists(d)
      BY <1>0, <1>5, ExistingIsRow DEF ComesDue, Expires, Open
    <2>2. PICK row \in Rows : To(d, row) /\ row.status = At(d).status /\ row.retries = At(d).retries
      <3>1. /\ [At(d) EXCEPT !.due = TRUE] \in Rows
            /\ [At(d) EXCEPT !.due = TRUE].status = At(d).status
            /\ [At(d) EXCEPT !.due = TRUE].retries = At(d).retries
            /\ [At(d) EXCEPT !.expired = TRUE] \in Rows
            /\ [At(d) EXCEPT !.expired = TRUE].status = At(d).status
            /\ [At(d) EXCEPT !.expired = TRUE].retries = At(d).retries
        BY <2>1, RowsType DEF Rows
      <3>2. To(d, [At(d) EXCEPT !.due = TRUE]) \/ To(d, [At(d) EXCEPT !.expired = TRUE])
        BY <1>5 DEF ComesDue, Expires
      <3> QED BY <3>1, <3>2
    <2>3. Copy(row) = Copy(At(d))
      BY <2>1, <2>2, CopyOf
    <2>4. UNCHANGED <<endpoints, events>>
      BY <1>5 DEF ComesDue, Expires
    <2> QED BY <1>0, <2>1, <2>2, <2>3, <2>4, RowOutbox DEF OutboxStep
  <1>6. ASSUME NEW d \in Pairs, Archive(d) PROVE OutboxStep
    <2> DEFINE old == At(d)
               row == [old EXCEPT !.status = "archived"]
    <2>1. old \in Rows /\ old.status \in {"delivered", "failed"} /\ Exists(d)
      BY <1>0, <1>6, ExistingIsRow DEF Archive
    <2>2. row \in Rows /\ row.status = "archived" /\ row.retries = old.retries
      BY <2>1, RowsType DEF Rows
    <2>3. To(d, row) /\ UNCHANGED <<endpoints, events>>
      BY <1>6 DEF Archive
    <2>4. Outbox!Becomes(d[1], d[2], Copy(old), Copy(row))
      BY <1>0, <2>1, <2>2, <2>3, RowOutbox
    <2> HIDE DEF old, row
    <2>5. /\ Copy(old) = Outbox!In(old.status, old.retries)
          /\ Copy(row) = Outbox!In("archived", old.retries)
          /\ old.retries \in 0..MAX_RETRIES
      BY <2>1, <2>2, CopyOf DEF Settled
    <2>6. Outbox!Archive(d[1], d[2], old.retries)
      BY <2>1, <2>4, <2>5 DEF Outbox!Archive
    <2> QED BY <2>5, <2>6 DEF Outbox!Next, OutboxStep, Pairs
  <1>7. ASSUME NEW e \in Endpoints, NEW wants \in SUBSET Events,
               CreateEndpoint(e, wants) \/ (\E on \in BOOLEAN : UpdateEndpoint(e, on, wants))
        PROVE  OutboxStep
    BY <1>0, <1>7, EndpointOutbox DEF CreateEndpoint, UpdateEndpoint
  <1>8. ASSUME NEW e \in Endpoints, DeleteEndpoint(e) PROVE OutboxStep
    BY <1>0, <1>8, EndpointOutbox DEF DeleteEndpoint
  <1>9. ASSUME NEW x \in Expanders, FinishExpansion(x) PROVE OutboxStep
    BY <1>0, <1>9, FinishOutbox
  <1>10. ASSUME NEW x \in Expanders,
                (\E v \in Events : BeginExpansion(x, v)) \/ (\E e \in Endpoints : MakeDelivery(x, e))
                  \/ CrashExpander(x)
         PROVE  OutboxStep
    BY <1>1, <1>10 DEF BeginExpansion, MakeDelivery, CrashExpander
  <1>11. ASSUME NEW w \in Workers, Crash(w) \/ \E d \in Pairs, r \in Results : Send(w, d, r)
         PROVE  OutboxStep
    BY <1>1, <1>11 DEF Crash, Send
  <1>12. ASSUME NEW w \in Workers, NEW d \in Pairs, Record(w, d), ~Holds(w, d) PROVE OutboxStep
    BY <1>1, <1>12 DEF Record
  <1>13. CASE UNCHANGED vars
    BY <1>1, <1>13 DEF vars
  <1>14. ASSUME NEW w \in Workers, NEW d \in Pairs, Work(w, d) PROVE OutboxStep
    BY <1>3, <1>4, <1>11, <1>12, <1>14 DEF Work
  <1>15. ASSUME NEW x \in Expanders, Expand(x) \/ CrashExpander(x) PROVE OutboxStep
    BY <1>9, <1>10, <1>15 DEF Expand
  <1> QED BY <1>2, <1>5, <1>6, <1>7, <1>8, <1>11, <1>13, <1>14, <1>15 DEF Next

\* The outbox keeps the promise of EventCopies: an event is expanded once, into a copy for
\* everyone who heard it and stayed as it was, and a copy is retried within the limit and
\* settled once, whichever expander or worker dies, is late, or runs beside another.
THEOREM ImplementsOutbox == Spec => OutboxSpec
  <1>1. Init => Outbox!Init
    BY CopyOf DEF Init, Outbox!Init, Progress, Owed, Copies
  <1> QED BY <1>1, OutboxNext, Invariance, PTL
      DEF Spec, OutboxSpec, Outbox!Spec, OutboxStep
=============================================================================

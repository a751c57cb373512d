------------------------ MODULE TakeoverRoutingProofs ------------------------
(* What TakeoverRouting promises, for any projects, routes, domains, calls and  *)
(* bounds.  IInv is inductive: an edit may not touch a project in operation,    *)
(* so it can neither end what is served nor change what is live; a transition   *)
(* moves route, project and claim together; and what a transition of one route  *)
(* leaves to the others follows from the agreement of claims and routes.        *)
EXTENDS TakeoverRouting, TLAPS

Knowledge == [aliases : Nat, complete : BOOLEAN, checked : BOOLEAN, recent : BOOLEAN]
RouteRows ==
  [status : {"candidate", "confirmed", "rolled_back"} \cup Live,
   confirmed : Digests \cup {Nil}, event : Nat,
   action : {"none", "confirm", "complete", "rollback_finish"} \cup Probed]
-----------------------------------------------------------------------------
(* Types of what an edit writes                                            *)

\* The digest of a readiness is one.
LEMMA DigestType ==
  ASSUME NEW p \in Projects, NEW n \in Nat, NEW f \in Knowledge
  PROVE  Digest(p, n, f) \in Digests /\ Ready(Digest(p, n, f)) \in BOOLEAN
<1>1. f.aliases \in Nat /\ f.complete \in BOOLEAN /\ f.checked \in BOOLEAN
  BY DEF Knowledge
<1> QED BY <1>1 DEF Digest, Digests, Ready

\* refresh_takeover_readiness makes a row of a row.
LEMMA RefreshedType ==
  ASSUME NEW p \in Projects, NEW seen \in Rows, NEW f \in Knowledge
  PROVE  Refreshed(p, seen, f) \in Rows
<1> DEFINE d == Digest(p, seen.version, f)
<1>1. seen.version \in Nat BY DEF Rows
<1>2. d \in Digests /\ Ready(d) \in BOOLEAN BY <1>1, DigestType
<1> HIDE DEF d
<1> QED BY <1>2 DEF Refreshed, Rows, d

\* Writing the columns that differ makes a row of rows, and leaves the active route.
LEMMA WrittenType ==
  ASSUME NEW row \in Rows, NEW seen \in Rows, NEW new \in Rows
  PROVE  Written(row, seen, new) \in Rows
BY DEF Written, Rows

\* The row an assessment leaves.
LEMMA AssessedType ==
  ASSUME TypeOK, NEW c \in Calls, calls[c] # Idle, NEW f \in Knowledge
  PROVE  Assessed(c, f) \in Rows
<1>1. calls[c] \in Edits \cup Confirmations BY DEF TypeOK
<1>2. calls[c].project \in Projects /\ calls[c].seen \in Rows
  BY <1>1 DEF Edits, Confirmations
<1>3. projects[calls[c].project] \in Rows BY <1>2 DEF TypeOK
<1> DEFINE new == Refreshed(calls[c].project, calls[c].seen, f)
           row == Written(projects[calls[c].project], calls[c].seen, new)
<1>4. new \in Rows BY <1>2, RefreshedType
<1>5. row \in Rows BY <1>2, <1>3, <1>4, WrittenType
<1> HIDE DEF new, row
<1>6. [row EXCEPT !.ready = new.ready] \in Rows BY <1>4, <1>5 DEF Rows
<1> QED BY <1>6 DEF Assessed, new, row

\* What an edit is, to the invariant: a row of one project, which the trigger allows.
EditOf(p, row) ==
  /\ Guard(projects[p], row)
  /\ projects' = [projects EXCEPT ![p] = row]

\* A call that has read its row can be told from one that has not, and ends as an edit.
LEMMA EndsIsEdit ==
  ASSUME TypeOK, NEW c \in Calls, calls[c] # Idle, NEW row \in Rows, Ends(c, row)
  PROVE  /\ calls[c].project \in Projects
         /\ EditOf(calls[c].project, row)
         /\ projects' \in [Projects -> Rows]
         /\ calls' \in [Calls -> {Idle} \cup Edits \cup Confirmations]
<1>1. calls[c] \in Edits \cup Confirmations BY DEF TypeOK
<1>2. calls[c].project \in Projects BY <1>1 DEF Edits, Confirmations
<1> QED BY <1>2 DEF TypeOK, Ends, EditOf

\* Each edit of a project is one, and keeps the types.
LEMMA EditStep ==
  ASSUME TypeOK, NEW c \in Calls, NEW b \in BOOLEAN,
         Assess(c) \/ Update(c) \/ Import(c, b) \/ Inspect(c, b) \/ ConfirmProject(c)
  PROVE  /\ TypeOK'
         /\ \E p \in Projects, row \in Rows : EditOf(p, row)
         /\ UNCHANGED <<routes, claims, last>>
<1> DEFINE p == calls[c].project
           f == facts[p]
           seen == calls[c].seen
<1>1. calls[c] # Idle
  BY DEF Idle, Assess, Update, Import, Inspect, ConfirmProject
<1>2. calls[c] \in Edits \cup Confirmations BY <1>1 DEF TypeOK
<1>3. p \in Projects /\ seen \in Rows BY <1>2 DEF Edits, Confirmations
<1>4. f \in Knowledge BY <1>3 DEF TypeOK, Knowledge
<1>5. projects[p] \in Rows BY <1>3 DEF TypeOK
<1> SUFFICES ASSUME NEW row \in Rows, Ends(c, row),
                    facts' \in [Projects -> Knowledge],
                    UNCHANGED <<routes, claims, last, proved, probing>>
             PROVE  TypeOK' /\ \E q \in Projects, r \in Rows : EditOf(q, r)
  <2>0. facts \in [Projects -> Knowledge] BY DEF TypeOK, Knowledge
  <2>1. CASE Assess(c)
    <3>1. Assessed(c, f) \in Rows BY <1>1, <1>4, AssessedType
    <3> QED BY <2>0, <2>1, <3>1 DEF Assess
  <2>2. CASE Update(c)
    <3> DEFINE new == [seen EXCEPT !.version = @ + 1, !.confirmed = Nil, !.status = "needs_fix"]
    <3>1. new \in Rows
      <4>1. seen.version + 1 \in Nat BY <1>3 DEF Rows
      <4> DEFINE version == seen.version + 1
      <4> HIDE DEF version
      <4>2. [seen EXCEPT !.version = version, !.confirmed = Nil, !.status = "needs_fix"] \in Rows
        BY <1>3, <4>1 DEF Rows, version
      <4> QED BY <4>2 DEF version
    <3>2. Written(projects[p], seen, new) \in Rows BY <1>3, <1>5, <3>1, WrittenType
    <3> QED BY <2>0, <2>2, <3>2 DEF Update
  <2>3. CASE Import(c, b)
    <3> DEFINE new == [seen EXCEPT !.status = IF b THEN "needs_fix" ELSE "draft"]
    <3>1. new \in Rows
      <4> DEFINE status == IF b THEN "needs_fix" ELSE "draft"
      <4>1. status \in {"needs_fix", "draft"} OBVIOUS
      <4> HIDE DEF status
      <4>2. [seen EXCEPT !.status = status] \in Rows BY <1>3, <4>1 DEF Rows
      <4> QED BY <4>2 DEF status
    <3>2. Written(projects[p], seen, new) \in Rows BY <1>3, <1>5, <3>1, WrittenType
    <3> DEFINE told == [f EXCEPT !.aliases = @ + 1, !.complete = @ \/ ~b]
    <3>3. told \in Knowledge
      <4> DEFINE aliases == f.aliases + 1
                 complete == f.complete \/ ~b
      <4>1. aliases \in Nat BY <1>4 DEF Knowledge
      <4>2. complete \in BOOLEAN OBVIOUS
      <4>3. told = [f EXCEPT !.aliases = aliases, !.complete = complete] OBVIOUS
      <4> HIDE DEF told, aliases, complete
      <4> QED BY <1>4, <4>1, <4>2, <4>3 DEF Knowledge
    <3>4. facts' = [facts EXCEPT ![p] = told] BY <2>0, <2>3 DEF Import
    <3> HIDE DEF told
    <3>5. facts' \in [Projects -> Knowledge] BY <1>3, <2>0, <3>3, <3>4
    <3> QED BY <2>3, <3>2, <3>5 DEF Import
  <2>4. CASE Inspect(c, b)
    <3> DEFINE found == [f EXCEPT !.checked = b, !.recent = b \/ @]
    <3>1. found \in Knowledge BY <1>4 DEF Knowledge
    <3>2. Assessed(c, found) \in Rows BY <1>1, <3>1, AssessedType
    <3>3. facts' \in [Projects -> Knowledge] BY <1>3, <2>0, <2>4, <3>1 DEF Inspect
    <3> QED BY <2>4, <3>2, <3>3 DEF Inspect
  <2>5. CASE ConfirmProject(c)
    <3> DEFINE row == Assessed(c, f)
    <3>1. row \in Rows BY <1>1, <1>4, AssessedType
    <3> HIDE DEF row
    <3>2. Confirmed(row) \in Rows BY <3>1 DEF Confirmed, Rows
    <3> QED BY <2>0, <2>5, <3>2 DEF ConfirmProject, row
  <2> QED BY <2>1, <2>2, <2>3, <2>4, <2>5
<1>6. /\ EditOf(p, row) /\ projects' \in [Projects -> Rows]
      /\ calls' \in [Calls -> {Idle} \cup Edits \cup Confirmations]
  BY <1>1, EndsIsEdit
<1> QED BY <1>3, <1>6 DEF TypeOK, Knowledge

\* So is the confirmation of a candidate, which becomes the route it confirms.
LEMMA ConfirmStep ==
  ASSUME Sound, TypeOK, NEW c \in Calls, ConfirmRoute(c)
  PROVE  /\ TypeOK'
         /\ \E r \in Routes, row \in Rows :
              /\ EditOf(ProjectOf[r], row)
              /\ routes[r].status = "candidate"
              /\ last' = [last EXCEPT ![ProjectOf[r]] = @ + 1]
              /\ routes' = [routes EXCEPT ![r] =
                   [status |-> "confirmed", confirmed |-> row.digest,
                    event |-> NextEvent(r), action |-> "confirm"]]
         /\ UNCHANGED claims
<1> DEFINE r == calls[c].route
           f == facts[ProjectOf[r]]
           row == Assessed(c, f)
<1>1. calls[c] # Idle BY DEF Idle, ConfirmRoute
<1>2. calls[c] \in Edits \cup Confirmations BY <1>1 DEF TypeOK
<1>3. r \in Routes /\ calls[c].project = ProjectOf[r]
  BY <1>2 DEF Edits, Confirmations, ConfirmRoute
<1>4. ProjectOf[r] \in Projects BY <1>3 DEF Sound
<1>5. f \in Knowledge BY <1>4 DEF TypeOK, Knowledge
<1>6. row \in Rows BY <1>1, <1>5, AssessedType
<1>7. NextEvent(r) \in Nat /\ last' \in [Projects -> Nat]
  BY <1>4 DEF TypeOK, NextEvent, ConfirmRoute
<1>8. /\ routes[r].status = "candidate" /\ Ends(c, Confirmed(row))
      /\ last' = [last EXCEPT ![ProjectOf[r]] = @ + 1]
      /\ routes' = [routes EXCEPT ![r] =
           [status |-> "confirmed", confirmed |-> row.digest,
            event |-> NextEvent(r), action |-> "confirm"]]
      /\ UNCHANGED <<facts, claims, proved, probing>>
  BY DEF ConfirmRoute
<1> HIDE DEF row
<1>9. Confirmed(row) \in Rows /\ Confirmed(row).digest = row.digest
      /\ row.digest \in Digests \cup {Nil}
  BY <1>6 DEF Confirmed, Rows
<1>10. /\ EditOf(ProjectOf[r], Confirmed(row)) /\ projects' \in [Projects -> Rows]
       /\ calls' \in [Calls -> {Idle} \cup Edits \cup Confirmations]
  BY <1>1, <1>3, <1>8, <1>9, EndsIsEdit
<1>11. routes' \in [Routes -> RouteRows]
  BY <1>3, <1>7, <1>8, <1>9 DEF TypeOK, RouteRows
<1>12. TypeOK' BY <1>7, <1>8, <1>10, <1>11 DEF TypeOK, RouteRows
<1> QED BY <1>3, <1>8, <1>9, <1>10, <1>12

-----------------------------------------------------------------------------
(* Types of what a transition writes                                       *)

\* The next event of a route.
LEMMA EventType ==
  ASSUME Sound, TypeOK, NEW r \in Routes,
         NEW status \in {"candidate", "confirmed", "rolled_back"} \cup Live,
         NEW action \in {"none", "confirm", "complete", "rollback_finish"} \cup Probed,
         NewEvent(r, status, action)
  PROVE  /\ ProjectOf[r] \in Projects /\ NextEvent(r) \in Nat
         /\ last' \in [Projects -> Nat] /\ routes' \in [Routes -> RouteRows]
         /\ proved' \subseteq Routes
<1>1. ProjectOf[r] \in Projects BY DEF Sound
<1>2. NextEvent(r) \in Nat /\ last' \in [Projects -> Nat]
  BY <1>1 DEF TypeOK, NextEvent, NewEvent
<1>3. routes \in [Routes -> RouteRows] BY DEF TypeOK, RouteRows
<1> DEFINE n == NextEvent(r)
<1>4. [routes[r] EXCEPT !.status = status, !.action = action, !.event = n] \in RouteRows
  <2> HIDE DEF n
  <2>1. n \in Nat BY <1>2 DEF n
  <2> QED BY <1>3, <2>1 DEF RouteRows
<1>5. routes' = [routes EXCEPT ![r] =
       [routes[r] EXCEPT !.status = status, !.action = action, !.event = n]]
  BY <1>3 DEF NewEvent
<1>6. routes' \in [Routes -> RouteRows] BY <1>3, <1>4, <1>5
<1> QED BY <1>1, <1>2, <1>6 DEF TypeOK, NewEvent

\* A claim that follows its route.
LEMMA ClaimsType ==
  ASSUME TypeOK, NEW r \in Routes, NextEvent(r) \in Nat,
         NEW state \in {"active", "completed", "rolling_back", "rolled_back"}
  PROVE  Claims(r, state) \in [Domains -> {Nil} \cup ClaimRows]
<1> SUFFICES ASSUME NEW d \in Domains, claims[d] # Nil
             PROVE  [claims[d] EXCEPT !.state = state, !.event = NextEvent(r)] \in ClaimRows
  BY DEF TypeOK, Claims, ClaimRows
<1>1. claims[d] \in ClaimRows BY DEF TypeOK, ClaimRows
<1> QED BY <1>1 DEF ClaimRows

\* Every transition keeps the types.
LEMMA TransitionType ==
  ASSUME Sound, TypeOK, NEW r \in Routes,
         \/ External(r) \/ CutOver(r) \/ Complete(r) \/ BeginRollback(r) \/ FinishRollback(r)
  PROVE  TypeOK'
<1> DEFINE p == ProjectOf[r]
<1>1. p \in Projects /\ DomainOf[p] \in Domains BY DEF Sound
<1>2. projects[p] \in Rows BY <1>1 DEF TypeOK
<1>3. CASE External(r)
  <2>1. [projects[p] EXCEPT !.status = "pending_external"] \in Rows BY <1>2 DEF Rows
  <2>2. projects' \in [Projects -> Rows] BY <1>1, <1>3, <2>1 DEF TypeOK, External
  <2>3. NewEvent(r, "confirmed", "external_execution") BY <1>3 DEF External
  <2>4. /\ last' \in [Projects -> Nat] /\ routes' \in [Routes -> RouteRows]
        /\ proved' \subseteq Routes
    BY <2>3, EventType DEF Probed
  <2> QED BY <1>3, <2>2, <2>4 DEF TypeOK, External, RouteRows
<1>4. CASE CutOver(r)
  <2>1. [projects[p] EXCEPT !.active = r, !.status = "observing"] \in Rows
    BY <1>2 DEF Rows, Operational
  <2>2. projects' \in [Projects -> Rows] BY <1>1, <1>4, <2>1 DEF TypeOK, CutOver
  <2>3. NewEvent(r, "active", "cutover") BY <1>4 DEF CutOver
  <2>4. /\ last' \in [Projects -> Nat] /\ routes' \in [Routes -> RouteRows]
        /\ proved' \subseteq Routes /\ NextEvent(r) \in Nat
    BY <2>3, EventType DEF Probed, Live
  <2>5. claims' \in [Domains -> {Nil} \cup ClaimRows]
    BY <1>1, <1>4, <2>4 DEF TypeOK, CutOver, ClaimRows
  <2> QED BY <1>4, <2>2, <2>4, <2>5 DEF TypeOK, CutOver, RouteRows, ClaimRows
<1>5. CASE Complete(r)
  <2>1. [projects[p] EXCEPT !.status = "completed"] \in Rows BY <1>2 DEF Rows, Operational
  <2>2. projects' \in [Projects -> Rows] BY <1>1, <1>5, <2>1 DEF TypeOK, Complete
  <2>3. NewEvent(r, "active", "complete") BY <1>5 DEF Complete
  <2>4. /\ last' \in [Projects -> Nat] /\ routes' \in [Routes -> RouteRows]
        /\ proved' \subseteq Routes /\ NextEvent(r) \in Nat
    BY <2>3, EventType DEF Live
  <2>5. claims' \in [Domains -> {Nil} \cup ClaimRows] BY <1>5, <2>4, ClaimsType DEF Complete
  <2> QED BY <1>5, <2>2, <2>4, <2>5 DEF TypeOK, Complete, RouteRows, ClaimRows
<1>6. CASE BeginRollback(r)
  <2>1. [projects[p] EXCEPT !.status = "rolling_back"] \in Rows BY <1>2 DEF Rows, Operational
  <2>2. projects' \in [Projects -> Rows] BY <1>1, <1>6, <2>1 DEF TypeOK, BeginRollback
  <2>3. NewEvent(r, "rolling_back", "rollback_begin") BY <1>6 DEF BeginRollback
  <2>4. /\ last' \in [Projects -> Nat] /\ routes' \in [Routes -> RouteRows]
        /\ proved' \subseteq Routes /\ NextEvent(r) \in Nat
    BY <2>3, EventType DEF Live, Probed
  <2>5. claims' \in [Domains -> {Nil} \cup ClaimRows]
    BY <1>6, <2>4, ClaimsType DEF BeginRollback
  <2> QED BY <1>6, <2>2, <2>4, <2>5 DEF TypeOK, BeginRollback, RouteRows, ClaimRows
<1>7. CASE FinishRollback(r)
  <2>1. [projects[p] EXCEPT !.active = Nil, !.status = "rolled_back"] \in Rows
    BY <1>2 DEF Rows, Operational
  <2>2. projects' \in [Projects -> Rows] BY <1>1, <1>7, <2>1 DEF TypeOK, FinishRollback
  <2>3. NewEvent(r, "rolled_back", "rollback_finish") BY <1>7 DEF FinishRollback
  <2>4. /\ last' \in [Projects -> Nat] /\ routes' \in [Routes -> RouteRows]
        /\ proved' \subseteq Routes /\ NextEvent(r) \in Nat
    BY <2>3, EventType
  <2>5. claims' \in [Domains -> {Nil} \cup ClaimRows]
    BY <1>7, <2>4, ClaimsType DEF FinishRollback
  <2>6. probing' \in [Routes -> Nat] BY <1>7 DEF TypeOK, FinishRollback
  <2> QED BY <1>7, <2>2, <2>4, <2>5, <2>6 DEF TypeOK, FinishRollback, RouteRows, ClaimRows
<1> QED BY <1>3, <1>4, <1>5, <1>6, <1>7

-----------------------------------------------------------------------------
(* What an edit leaves alone                                               *)

\* Only a project in operation is served, and what serves a claim is its project's
\* row and its route's.
LEMMA ServedIsOperational ==
  ASSUME NEW c, Serves(c)
  PROVE  projects[c.project].status \in Operational
BY DEF Serves, Operational

\* While those rows stand, so does what they serve.
LEMMA ServedStays ==
  ASSUME NEW c, Serves(c), projects'[c.project] = projects[c.project],
         routes'[c.route] = routes[c.route]
  PROVE  Serves(c)'
BY DEF Serves

\* An edit changes no active route, and no row of a project in operation.
LEMMA EditIsHarmless ==
  ASSUME TypeOK, NEW p \in Projects, NEW row \in Rows, EditOf(p, row)
  PROVE  /\ \A q \in Projects : projects'[q].active = projects[q].active
         /\ \A q \in Projects : projects[q].status \in Operational => projects'[q] = projects[q]
BY DEF TypeOK, EditOf, Guard

\* An edit of a project keeps what the rows agree about.
LEMMA EditKeeps ==
  ASSUME Sound, IInv, TypeOK', NEW p \in Projects, NEW row \in Rows, EditOf(p, row),
         UNCHANGED <<routes, claims, last>>
  PROVE  IInv'
<1> USE DEF IInv
<1>1. /\ \A q \in Projects : projects'[q].active = projects[q].active
      /\ \A q \in Projects : projects[q].status \in Operational => projects'[q] = projects[q]
  BY EditIsHarmless
<1>2. LiveRouteIsClaimed' BY <1>1 DEF LiveRouteIsClaimed, Sound
<1>3. ClaimsFollow' BY DEF ClaimsFollow
<1>4. DarkIsExplained'
  <2> SUFFICES ASSUME NEW d \in Domains, claims[d] # Nil, Serves(claims[d])
               PROVE  Serves(claims[d])'
    BY DEF DarkIsExplained
  <2>1. claims[d].project \in Projects BY DEF TypeOK, ClaimRows
  <2>2. projects[claims[d].project].status \in Operational BY ServedIsOperational
  <2>3. Serves(claims[d])' BY <1>1, <2>1, <2>2, ServedStays
  <2> QED BY <2>3
<1> QED BY <1>2, <1>3, <1>4

\* So does the confirmation of a candidate: no claim names it and it explains none.
LEMMA ConfirmKeeps ==
  ASSUME Sound, IInv, TypeOK', NEW r \in Routes, NEW row \in Rows, EditOf(ProjectOf[r], row),
         routes[r].status = "candidate", UNCHANGED claims,
         last' = [last EXCEPT ![ProjectOf[r]] = @ + 1],
         NEW digest,
         routes' = [routes EXCEPT ![r] = [status |-> "confirmed", confirmed |-> digest,
                                          event |-> NextEvent(r), action |-> "confirm"]]
  PROVE  IInv'
<1> USE DEF IInv
<1>0. ProjectOf[r] \in Projects /\ NextEvent(r) = last[ProjectOf[r]] + 1
  BY DEF NextEvent, Sound
<1>1. /\ \A q \in Projects : projects'[q].active = projects[q].active
      /\ \A q \in Projects : projects[q].status \in Operational => projects'[q] = projects[q]
  BY <1>0, EditIsHarmless
<1>2. /\ \A o \in Routes \ {r} : routes'[o] = routes[o]
      /\ routes'[r].status = "confirmed" /\ routes'[r].action = "confirm"
      /\ routes'[r].event = last[ProjectOf[r]] + 1
  BY <1>0 DEF TypeOK
<1>3. /\ \A q \in Projects : last'[q] \in Nat /\ last'[q] >= last[q]
      /\ last'[ProjectOf[r]] = last[ProjectOf[r]] + 1
  BY <1>0 DEF TypeOK
<1>4. routes[r].status \notin Live \cup {"rolled_back", "confirmed"} BY DEF Live
<1>5. LiveRouteIsClaimed'
  <2>1. \A o \in Routes : routes'[o].status \in Live <=> routes[o].status \in Live
    BY <1>2, <1>4 DEF Live
  <2>2. \A p \in Projects : projects[p].active # r
    <3> SUFFICES ASSUME NEW p \in Projects, projects[p].active = r PROVE FALSE
      OBVIOUS
    <3>1. ProjectOf[r] = p BY DEF LiveRouteIsClaimed, Sound
    <3>2. routes[r].status \in Live BY <3>1 DEF LiveRouteIsClaimed
    <3> QED BY <1>4, <3>2
  <2>3. \A p \in Projects : projects[p].active \in Routes \cup {Nil} BY DEF TypeOK, Rows
  <2> QED BY <1>1, <1>2, <2>1, <2>2, <2>3 DEF LiveRouteIsClaimed, Sound
<1>6. \A d \in Domains : claims[d] # Nil => claims[d].route \in Routes \ {r}
                                         /\ claims[d].project \in Projects
  BY <1>4 DEF ClaimsFollow, TypeOK, ClaimRows
<1>7. ClaimsFollow'
  <2>1. \A o \in Routes : /\ routes'[o].event <= last'[ProjectOf[o]]
                          /\ routes'[o].action = "external_execution" =>
                               routes'[o].status = "confirmed"
    <3> SUFFICES ASSUME NEW o \in Routes, o # r
                 PROVE  routes'[o].event <= last'[ProjectOf[o]]
      <4>1. last[ProjectOf[r]] \in Nat BY <1>0 DEF TypeOK
      <4>2. routes'[r].event <= last'[ProjectOf[r]] BY <1>2, <1>3, <4>1
      <4>3. \A o \in Routes \ {r} : routes'[o].action = "external_execution" =>
                                     routes'[o].status = "confirmed"
        BY <1>2 DEF ClaimsFollow
      <4> QED BY <1>2, <4>2, <4>3
    <3>1. routes[o].event \in Nat /\ last[ProjectOf[o]] \in Nat /\ ProjectOf[o] \in Projects
      BY DEF TypeOK, Sound
    <3>2. routes[o].event <= last[ProjectOf[o]] BY DEF ClaimsFollow
    <3> QED BY <1>2, <1>3, <3>1, <3>2
  <2> QED BY <1>2, <1>6, <2>1 DEF ClaimsFollow
<1>8. DarkIsExplained'
  <2> SUFFICES ASSUME NEW d \in Domains, claims[d] # Nil, ~Serves(claims[d])'
               PROVE  \E o \in Routes :
                        /\ ProjectOf[o] = claims[d].project /\ o # claims[d].route
                        /\ routes'[o].action = "external_execution"
                        /\ routes'[o].event > claims[d].event
    BY DEF DarkIsExplained
  <2>1. ~Serves(claims[d]) BY <1>1, <1>2, <1>6, ServedIsOperational, ServedStays
  <2>2. PICK o \in Routes : /\ ProjectOf[o] = claims[d].project /\ o # claims[d].route
                            /\ routes[o].action = "external_execution"
                            /\ routes[o].event > claims[d].event
    BY <2>1 DEF DarkIsExplained
  <2>3. o # r BY <1>4, <2>2 DEF ClaimsFollow
  <2> QED BY <1>2, <2>2, <2>3
<1> QED BY <1>5, <1>7, <1>8
-----------------------------------------------------------------------------
(* What a transition moves                                                 *)

\* The next event of a route is newer than every event of its project, and is its.
LEMMA EventIsNewest ==
  ASSUME Sound, IInv, NEW r \in Routes, NEW status, NEW action, NewEvent(r, status, action)
  PROVE  /\ \A o \in Routes \ {r} : routes'[o] = routes[o]
         /\ routes'[r].status = status /\ routes'[r].action = action
         /\ routes'[r].event = NextEvent(r)
         /\ \A o \in Routes : ProjectOf[o] = ProjectOf[r] => routes[o].event < NextEvent(r)
         /\ \A o \in Routes : routes'[o].event <= last'[ProjectOf[o]]
<1> USE DEF IInv
<1> DEFINE p == ProjectOf[r]
           n == NextEvent(r)
<1>1. p \in Projects /\ n = last[p] + 1 BY DEF NextEvent, Sound
<1>2. \A o \in Routes : /\ ProjectOf[o] \in Projects /\ last[ProjectOf[o]] \in Nat
                        /\ routes[o].event \in Nat /\ routes[o].event <= last[ProjectOf[o]]
  BY DEF TypeOK, ClaimsFollow, Sound
<1>3. last' = [last EXCEPT ![p] = n] BY <1>1 DEF TypeOK, NewEvent
<1> HIDE DEF n
<1>4. /\ \A o \in Routes \ {r} : routes'[o] = routes[o]
      /\ routes'[r].status = status /\ routes'[r].action = action
      /\ routes'[r].event = n
  BY DEF NewEvent, TypeOK, n
<1>5. \A q \in Projects : last'[q] = IF q = p THEN n ELSE last[q] BY <1>3 DEF TypeOK
<1>6. \A o \in Routes : routes'[o].event <= last'[ProjectOf[o]]
  BY <1>1, <1>2, <1>4, <1>5
<1>7. \A o \in Routes : ProjectOf[o] = p => routes[o].event < n BY <1>1, <1>2
<1> QED BY <1>4, <1>6, <1>7 DEF n

\* A project's row and its route move together, and the claim of its domain names the
\* route's new event: that is what cutover, completion and rollback have in common.
LEMMA MoveKeeps ==
  ASSUME Sound, IInv, TypeOK', NEW r \in Routes, NEW row \in Rows,
         NEW status \in Live \cup {"rolled_back"},
         NEW action \in {"cutover", "complete", "rollback_begin", "rollback_finish"},
         NewEvent(r, status, action),
         projects' = [projects EXCEPT ![ProjectOf[r]] = row],
         claims' = [claims EXCEPT ![DomainOf[ProjectOf[r]]] =
           [project |-> ProjectOf[r], route |-> r, event |-> NextEvent(r),
            state |-> ClaimState(action)]],
         MayClaim(DomainOf[ProjectOf[r]], ProjectOf[r]),
         \A o \in Routes \ {r} :
           ProjectOf[o] = ProjectOf[r] => routes[o].status \notin Live,
         row.active = IF action = "rollback_finish" THEN Nil ELSE r,
         \/ action = "cutover" /\ status = "active" /\ row.status = "observing"
         \/ action = "complete" /\ status = "active" /\ row.status = "completed"
         \/ action = "rollback_begin" /\ status = "rolling_back" /\ row.status = "rolling_back"
         \/ action = "rollback_finish" /\ status = "rolled_back" /\ row.status = "rolled_back"
  PROVE  IInv'
<1> USE DEF IInv
<1> DEFINE p == ProjectOf[r]
           d == DomainOf[p]
           claim == [project |-> p, route |-> r, event |-> NextEvent(r),
                     state |-> ClaimState(action)]
<1>1. p \in Projects /\ d \in Domains BY DEF Sound
<1>2. /\ \A o \in Routes \ {r} : routes'[o] = routes[o]
      /\ routes'[r].status = status /\ routes'[r].action = action
      /\ routes'[r].event = NextEvent(r)
      /\ \A o \in Routes : routes'[o].event <= last'[ProjectOf[o]]
  BY EventIsNewest
<1>3. projects'[p] = row /\ \A q \in Projects \ {p} : projects'[q] = projects[q]
  BY <1>1 DEF TypeOK
<1>4. claims'[d] = claim /\ \A e \in Domains \ {d} : claims'[e] = claims[e]
  BY <1>1 DEF TypeOK
<1>5. LiveRouteIsClaimed'
  <2>1. \A o \in Routes : routes'[o].status \in Live <=> projects'[ProjectOf[o]].active = o
    <3>1. CASE action = "rollback_finish"
      BY <1>2, <1>3, <3>1 DEF LiveRouteIsClaimed, Live, Sound
    <3>2. CASE action # "rollback_finish"
      BY <1>2, <1>3, <3>2 DEF LiveRouteIsClaimed, Live, Sound
    <3> QED BY <3>1, <3>2
  <2>2. ASSUME NEW q \in Projects, projects'[q].active # Nil
        PROVE  LET a == projects'[q].active
               IN /\ ProjectOf[a] = q
                  /\ claims'[DomainOf[q]] =
                       [project |-> q, route |-> a, event |-> routes'[a].event,
                        state |-> ClaimState(routes'[a].action)]
    <3>1. CASE q = p BY <1>2, <1>3, <1>4, <2>2, <3>1 DEF ClaimState
    <3>2. CASE q # p
      <4> DEFINE a == projects[q].active
      <4>1. projects'[q].active = a BY <1>3, <3>2
      <4>2. /\ ProjectOf[a] = q
            /\ claims[DomainOf[q]] = [project |-> q, route |-> a, event |-> routes[a].event,
                                     state |-> ClaimState(routes[a].action)]
        BY <2>2, <4>1 DEF LiveRouteIsClaimed
      <4>3. a \in Routes \ {r} BY <2>2, <3>2, <4>1, <4>2 DEF TypeOK, Rows
      <4>4. DomainOf[q] \in Domains /\ routes[a].event \in Nat
        BY <4>3 DEF TypeOK, Sound
      <4>5. claims[DomainOf[q]] \in ClaimRows
        BY <4>2, <4>3, <4>4 DEF ClaimState, ClaimRows
      <4>6. DomainOf[q] # d BY <3>2, <4>2, <4>5 DEF MayClaim, Sound
      <4> QED BY <1>2, <1>4, <4>1, <4>2, <4>3, <4>4, <4>6
    <3> QED BY <3>1, <3>2
  <2> HIDE DEF p
  <2> QED BY <2>1, <2>2 DEF LiveRouteIsClaimed
<1>6. \A e \in Domains \ {d} : claims[e] # Nil =>
        /\ claims[e].project \in Projects \ {p} /\ claims[e].route \in Routes \ {r}
        /\ ProjectOf[claims[e].route] = claims[e].project
  BY DEF ClaimsFollow, TypeOK, ClaimRows
<1>7. ClaimsFollow'
  <2>1. routes'[r].action # "external_execution" BY <1>2
  <2>2. \A o \in Routes : routes'[o].action = "external_execution" =>
                            routes'[o].status = "confirmed"
    BY <1>2, <2>1 DEF ClaimsFollow
  <2>3. ASSUME NEW e \in Domains, claims'[e] # Nil
        PROVE  LET c == claims'[e]
               IN /\ ProjectOf[c.route] = c.project /\ DomainOf[c.project] = e
                  /\ routes'[c.route].event = c.event
                  /\ routes'[c.route].status \in Live \cup {"rolled_back"}
    <3>1. CASE e = d BY <1>2, <1>4, <3>1
    <3>2. CASE e # d BY <1>2, <1>4, <1>6, <2>3, <3>2 DEF ClaimsFollow
    <3> QED BY <3>1, <3>2
  <2> QED BY <1>2, <2>2, <2>3 DEF ClaimsFollow
<1>8. Serves(claims[d])'
  <2> DEFINE shown == claims'[d]
  <2>1. shown.project = p /\ shown.route = r /\ shown.event = NextEvent(r)
        /\ shown.state = ClaimState(action)
    BY <1>4
  <2>2. projects'[p] = row /\ routes'[r].status = status /\ routes'[r].event = NextEvent(r)
    BY <1>2, <1>3
  <2> HIDE DEF shown, p, d
  <2>3. /\ action = "cutover" => ClaimState(action) = "active"
        /\ action = "complete" => ClaimState(action) = "completed"
        /\ action = "rollback_begin" => ClaimState(action) = "rolling_back"
        /\ action = "rollback_finish" => ClaimState(action) = "rolled_back"
    BY DEF ClaimState
  <2> QED BY <2>1, <2>2, <2>3 DEF Serves, shown
<1>9. DarkIsExplained'
  <2> SUFFICES ASSUME NEW e \in Domains, claims'[e] # Nil, ~Serves(claims[e])'
               PROVE  \E o \in Routes :
                        /\ ProjectOf[o] = claims'[e].project /\ o # claims'[e].route
                        /\ routes'[o].action = "external_execution"
                        /\ routes'[o].event > claims'[e].event
    BY DEF DarkIsExplained
  <2>1. e # d BY <1>8
  <2>2. claims'[e] = claims[e] BY <1>4, <2>1
  <2>3. ~Serves(claims[e])
    <3> SUFFICES ASSUME Serves(claims[e]) PROVE Serves(claims[e])'
      OBVIOUS
    <3>1. /\ projects'[claims[e].project] = projects[claims[e].project]
          /\ routes'[claims[e].route] = routes[claims[e].route]
      BY <1>2, <1>3, <1>6, <2>1, <2>2
    <3> QED BY <2>2, <3>1 DEF Serves
  <2>4. PICK o \in Routes : /\ ProjectOf[o] = claims[e].project /\ o # claims[e].route
                            /\ routes[o].action = "external_execution"
                            /\ routes[o].event > claims[e].event
    BY <2>2, <2>3 DEF DarkIsExplained
  <2>5. o # r BY <1>6, <2>1, <2>2, <2>4
  <2> QED BY <1>2, <2>2, <2>4, <2>5
<1> QED BY <1>5, <1>7, <1>9
\* A claim that follows its live route is the one of the route's domain, and the
\* other routes of its project are not live.
LEMMA LiveRoute ==
  ASSUME Sound, IInv, NEW r \in Routes, routes[r].status \in Live, NEW state
  PROVE  LET p == ProjectOf[r]
             d == DomainOf[p]
         IN /\ MayClaim(d, p)
            /\ \A o \in Routes \ {r} : ProjectOf[o] = p => routes[o].status \notin Live
            /\ Claims(r, state) = [claims EXCEPT ![d] =
                 [project |-> p, route |-> r, event |-> NextEvent(r), state |-> state]]
<1> USE DEF IInv
<1> DEFINE p == ProjectOf[r]
           d == DomainOf[p]
<1>1. p \in Projects /\ d \in Domains /\ projects[p].active = r
  BY DEF LiveRouteIsClaimed, Sound
<1>2. claims[d] = [project |-> p, route |-> r, event |-> routes[r].event,
                   state |-> ClaimState(routes[r].action)]
  BY <1>1 DEF LiveRouteIsClaimed, Sound
<1>3. claims[d] \in ClaimRows BY <1>1, <1>2 DEF TypeOK, ClaimState, ClaimRows
<1>4. claims[d] # Nil BY <1>3 DEF Sound
<1>5. \A e \in Domains \ {d} : claims[e] # Nil => claims[e].route # r
  BY DEF ClaimsFollow
<1>6. \A o \in Routes \ {r} : ProjectOf[o] = p => routes[o].status \notin Live
  BY <1>1 DEF LiveRouteIsClaimed
<1>7. ASSUME NEW e \in Domains
      PROVE  Claims(r, state)[e] = IF e = d
               THEN [project |-> p, route |-> r, event |-> NextEvent(r), state |-> state]
               ELSE claims[e]
  <2>1. CASE e = d
    <3> DEFINE n == NextEvent(r)
    <3> HIDE DEF n
    <3>1. [claims[d] EXCEPT !.state = state, !.event = n] =
            [project |-> p, route |-> r, event |-> n, state |-> state]
      <4> DEFINE x == routes[r].event
                 y == ClaimState(routes[r].action)
      <4>1. [[project |-> p, route |-> r, event |-> x, state |-> y]
               EXCEPT !.state = state, !.event = n] =
            [project |-> p, route |-> r, event |-> n, state |-> state]
        <5> HIDE DEF x, y, p
        <5> DEFINE row == [project |-> p, route |-> r, event |-> x, state |-> state]
        <5>1. [[project |-> p, route |-> r, event |-> x, state |-> y] EXCEPT !.state = state]
                = row
          OBVIOUS
        <5>2. [row EXCEPT !.event = n] =
                [project |-> p, route |-> r, event |-> n, state |-> state]
          OBVIOUS
        <5> QED BY <5>1, <5>2
      <4> QED BY <1>2, <4>1, Zenon
    <3>2. claims[d].route = r BY <1>2
    <3>3. Claims(r, state)[d] = [claims[d] EXCEPT !.state = state, !.event = n]
      BY <1>1, <1>4, <3>2 DEF Claims, n
    <3> QED BY <2>1, <3>1, <3>3 DEF n
  <2>2. CASE e # d BY <1>5, <2>2 DEF Claims
  <2> QED BY <2>1, <2>2
<1>8. Claims(r, state) = [claims EXCEPT ![d] =
        [project |-> p, route |-> r, event |-> NextEvent(r), state |-> state]]
  <2> DEFINE claim == [project |-> p, route |-> r, event |-> NextEvent(r), state |-> state]
  <2>1. \A e \in Domains : Claims(r, state)[e] = IF e = d THEN claim ELSE claims[e]
    BY <1>7
  <2>2. Claims(r, state) = [e \in Domains |-> Claims(r, state)[e]] BY DEF Claims
  <2>3. claims = [e \in Domains |-> claims[e]] BY DEF TypeOK
  <2> HIDE DEF claim
  <2> DEFINE new == Claims(r, state)
  <2> HIDE DEF new
  <2>4. new = [claims EXCEPT ![d] = claim] BY <1>1, <2>1, <2>2, <2>3 DEF new
  <2> QED BY <2>4 DEF new, claim
<1> QED BY <1>2, <1>6, <1>8 DEF MayClaim

\* The transitions that move a live route, or make a route live, keep the agreement.
LEMMA TransitionKeeps ==
  ASSUME Sound, IInv, TypeOK', NEW r \in Routes,
         CutOver(r) \/ Complete(r) \/ BeginRollback(r) \/ FinishRollback(r)
  PROVE  IInv'
<1> DEFINE p == ProjectOf[r]
<1>1. p \in Projects /\ projects[p] \in Rows /\ r \in Routes \cup {Nil}
  BY DEF IInv, TypeOK, Sound
<1>2. CASE CutOver(r)
  <2> DEFINE row == [projects[p] EXCEPT !.active = r, !.status = "observing"]
  <2>1. row \in Rows BY <1>1 DEF Rows, Operational
  <2>2. row.active = r /\ row.status = "observing" BY <1>1 DEF Rows
  <2>3. /\ NewEvent(r, "active", "cutover") /\ NoneLive(p) /\ MayClaim(DomainOf[p], p)
        /\ claims' = [claims EXCEPT ![DomainOf[p]] =
             [project |-> p, route |-> r, event |-> NextEvent(r),
              state |-> ClaimState("cutover")]]
    BY <1>2 DEF CutOver, ClaimState
  <2>4. projects' = [projects EXCEPT ![p] = row] BY <1>1, <1>2 DEF CutOver, IInv, TypeOK
  <2> HIDE DEF row
  <2> QED BY <2>1, <2>2, <2>3, <2>4, MoveKeeps DEF NoneLive, Live
<1>3. CASE Complete(r)
  <2> DEFINE row == [projects[p] EXCEPT !.status = "completed"]
  <2>1. row \in Rows BY <1>1 DEF Rows, Operational
  <2>2. routes[r].status \in Live BY <1>3 DEF Complete, Live
  <2>3. projects[p].active = r BY <2>2 DEF IInv, LiveRouteIsClaimed
  <2>4. row.active = r /\ row.status = "completed" BY <1>1, <2>3 DEF Rows
  <2>5. /\ NewEvent(r, "active", "complete") /\ claims' = Claims(r, "completed")
        /\ ClaimState("complete") = "completed"
    BY <1>3 DEF Complete, ClaimState
  <2>6. projects' = [projects EXCEPT ![p] = row] BY <1>1, <1>3 DEF Complete, IInv, TypeOK
  <2> HIDE DEF row
  <2> QED BY <2>1, <2>2, <2>4, <2>5, <2>6, LiveRoute, MoveKeeps, ZenonT(40) DEF Live
<1>4. CASE BeginRollback(r)
  <2> DEFINE row == [projects[p] EXCEPT !.status = "rolling_back"]
  <2>1. row \in Rows BY <1>1 DEF Rows, Operational
  <2>2. routes[r].status \in Live BY <1>4 DEF BeginRollback, Live
  <2>3. projects[p].active = r BY <1>4 DEF BeginRollback
  <2>4. row.active = r /\ row.status = "rolling_back" BY <1>1, <2>3 DEF Rows
  <2>5. /\ NewEvent(r, "rolling_back", "rollback_begin") /\ claims' = Claims(r, "rolling_back")
        /\ ClaimState("rollback_begin") = "rolling_back"
    BY <1>4 DEF BeginRollback, ClaimState
  <2>6. projects' = [projects EXCEPT ![p] = row] BY <1>1, <1>4 DEF BeginRollback, IInv, TypeOK
  <2> HIDE DEF row
  <2> QED BY <2>1, <2>2, <2>4, <2>5, <2>6, LiveRoute, MoveKeeps, ZenonT(40) DEF Live
<1>5. CASE FinishRollback(r)
  <2> DEFINE row == [projects[p] EXCEPT !.active = Nil, !.status = "rolled_back"]
  <2>1. row \in Rows BY <1>1 DEF Rows, Operational
  <2>2. routes[r].status \in Live BY <1>5 DEF FinishRollback, Live
  <2>3. row.active = Nil /\ row.status = "rolled_back" BY <1>1 DEF Rows
  <2>4. /\ NewEvent(r, "rolled_back", "rollback_finish") /\ claims' = Claims(r, "rolled_back")
        /\ ClaimState("rollback_finish") = "rolled_back"
    BY <1>5 DEF FinishRollback, ClaimState
  <2>5. projects' = [projects EXCEPT ![p] = row] BY <1>1, <1>5 DEF FinishRollback, IInv, TypeOK
  <2> HIDE DEF row
  <2> QED BY <2>1, <2>2, <2>3, <2>4, <2>5, LiveRoute, MoveKeeps
<1> QED BY <1>2, <1>3, <1>4, <1>5

\* An external execution of a confirmed route explains every claim of its project, and
\* touches no other.
LEMMA ExternalKeeps ==
  ASSUME Sound, IInv, TypeOK', NEW r \in Routes, External(r)
  PROVE  IInv'
<1> USE DEF IInv
<1> DEFINE p == ProjectOf[r]
<1>1. p \in Projects BY DEF Sound
<1>2. /\ routes[r].status = "confirmed" /\ NewEvent(r, "confirmed", "external_execution")
      /\ projects' = [projects EXCEPT ![p].status = "pending_external"] /\ claims' = claims
  BY DEF External
<1>3. /\ \A o \in Routes \ {r} : routes'[o] = routes[o]
      /\ routes'[r].status = "confirmed" /\ routes'[r].action = "external_execution"
      /\ routes'[r].event = NextEvent(r)
      /\ \A o \in Routes : ProjectOf[o] = ProjectOf[r] => routes[o].event < NextEvent(r)
      /\ \A o \in Routes : routes'[o].event <= last'[ProjectOf[o]]
  BY <1>2, EventIsNewest
<1>4. /\ \A q \in Projects : projects'[q].active = projects[q].active
      /\ \A q \in Projects \ {p} : projects'[q] = projects[q]
  BY <1>1, <1>2 DEF TypeOK, Rows
<1>5. \A d \in Domains : claims[d] # Nil =>
        /\ claims[d].project \in Projects /\ claims[d].route \in Routes \ {r}
        /\ ProjectOf[claims[d].route] = claims[d].project
        /\ routes[claims[d].route].event = claims[d].event
  BY <1>2, SMTT(20) DEF ClaimsFollow, TypeOK, ClaimRows, Live
<1>6. LiveRouteIsClaimed'
  <2>1. \A o \in Routes : routes'[o].status \in Live <=> routes[o].status \in Live
    BY <1>2, <1>3
  <2>2. \A q \in Projects : projects[q].active \in (Routes \ {r}) \cup {Nil}
    <3> SUFFICES ASSUME NEW q \in Projects, projects[q].active = r PROVE FALSE
      BY DEF TypeOK, Rows
    <3>1. ProjectOf[r] = q BY DEF LiveRouteIsClaimed, Sound
    <3>2. routes[r].status \in Live BY <3>1 DEF LiveRouteIsClaimed
    <3> QED BY <1>2, <3>2 DEF Live
  <2> QED BY <1>2, <1>3, <1>4, <2>1, <2>2 DEF LiveRouteIsClaimed, Sound
<1>7. ClaimsFollow'
  <2>1. \A o \in Routes : routes'[o].action = "external_execution" =>
                            routes'[o].status = "confirmed"
    BY <1>3 DEF ClaimsFollow
  <2> QED BY <1>2, <1>3, <1>5, <2>1 DEF ClaimsFollow
<1>8. DarkIsExplained'
  <2> SUFFICES ASSUME NEW d \in Domains, claims[d] # Nil, ~Serves(claims[d])'
               PROVE  \E o \in Routes :
                        /\ ProjectOf[o] = claims[d].project /\ o # claims[d].route
                        /\ routes'[o].action = "external_execution"
                        /\ routes'[o].event > claims[d].event
    BY <1>2 DEF DarkIsExplained
  <2>1. CASE claims[d].project = p
    <3>1. routes[claims[d].route].event < NextEvent(r) BY <1>3, <1>5, <2>1
    <3>2. claims[d].event < routes'[r].event BY <1>3, <1>5, <3>1
    <3>3. claims[d].event \in Nat /\ routes'[r].event \in Nat
      BY DEF TypeOK, ClaimRows
    <3>4. routes'[r].event > claims[d].event BY <3>2, <3>3
    <3> QED BY <1>3, <1>5, <2>1, <3>4
  <2>2. CASE claims[d].project # p
    <3>1. ~Serves(claims[d])
      <4> SUFFICES ASSUME Serves(claims[d]) PROVE Serves(claims[d])'
        OBVIOUS
      <4>1. /\ projects'[claims[d].project] = projects[claims[d].project]
            /\ routes'[claims[d].route] = routes[claims[d].route]
            /\ claims' = claims
        BY <1>2, <1>3, <1>4, <1>5, <2>2
      <4> QED BY <4>1 DEF Serves
    <3>2. PICK o \in Routes : /\ ProjectOf[o] = claims[d].project /\ o # claims[d].route
                              /\ routes[o].action = "external_execution"
                              /\ routes[o].event > claims[d].event
      BY <3>1 DEF DarkIsExplained
    <3>3. o # r BY <2>2, <3>2
    <3> QED BY <1>3, <3>2, <3>3
  <2> QED BY <2>1, <2>2
<1> QED BY <1>6, <1>7, <1>8
-----------------------------------------------------------------------------
(* What touches none of the four rows                                      *)

\* Reading, giving up, probing and ageing.
LEMMA StillStep ==
  ASSUME Sound, TypeOK,
         \/ \E c \in Calls, p \in Projects,
               kind \in {"assess", "update", "import", "inspect", "confirm_project"} :
                 Read(c, kind, p)
         \/ \E c \in Calls, r \in Routes : ReadRoute(c, r)
         \/ \E c \in Calls : Abandon(c)
         \/ \E r \in Routes : Probe(r) \/ ProbePasses(r) \/ ProbeFails(r) \/ ProbeAges(r)
         \/ \E p \in Projects : CheckAges(p)
         \/ UNCHANGED vars
  PROVE  TypeOK' /\ UNCHANGED <<projects, routes, claims, last>>
<1>1. ASSUME NEW c \in Calls, NEW p \in Projects,
             NEW kind \in {"assess", "update", "import", "inspect", "confirm_project"},
             Read(c, kind, p)
      PROVE  TypeOK' /\ UNCHANGED <<projects, routes, claims, last>>
  <2>1. [kind |-> kind, project |-> p, route |-> Nil, seen |-> projects[p]] \in Edits
    BY DEF TypeOK, Edits
  <2> QED BY <1>1, <2>1 DEF Read, Reads, TypeOK
<1>2. ASSUME NEW c \in Calls, NEW r \in Routes, ReadRoute(c, r)
      PROVE  TypeOK' /\ UNCHANGED <<projects, routes, claims, last>>
  <2>1. ProjectOf[r] \in Projects BY DEF Sound
  <2>2. [kind |-> "confirm", project |-> ProjectOf[r], route |-> r,
         seen |-> projects[ProjectOf[r]]] \in Confirmations
    BY <2>1 DEF TypeOK, Confirmations
  <2> QED BY <1>2, <2>2 DEF ReadRoute, Reads, TypeOK
<1>3. ASSUME NEW c \in Calls, Abandon(c)
      PROVE  TypeOK' /\ UNCHANGED <<projects, routes, claims, last>>
  BY <1>3 DEF Abandon, TypeOK
<1>4. ASSUME NEW r \in Routes, Probe(r) \/ ProbePasses(r) \/ ProbeFails(r) \/ ProbeAges(r)
      PROVE  TypeOK' /\ UNCHANGED <<projects, routes, claims, last>>
  BY <1>4 DEF Probe, ProbePasses, ProbeFails, ProbeAges, TypeOK
<1>5. ASSUME NEW p \in Projects, CheckAges(p)
      PROVE  TypeOK' /\ UNCHANGED <<projects, routes, claims, last>>
  BY <1>5 DEF CheckAges, TypeOK
<1>6. CASE UNCHANGED vars BY <1>6 DEF vars, TypeOK
<1> QED BY <1>1, <1>2, <1>3, <1>4, <1>5, <1>6

-----------------------------------------------------------------------------
(* The theorems                                                            *)

\* Nothing is claimed at the start.
LEMMA InitOK == ASSUME Sound PROVE Init => IInv
<1> SUFFICES ASSUME Init PROVE IInv OBVIOUS
<1>1. TypeOK
  BY DEF Init, TypeOK, Blank, Unknown, Idle, Rows, Digests
<1>2. LiveRouteIsClaimed
  BY DEF Init, LiveRouteIsClaimed, Blank, Live, Sound
<1>3. ClaimsFollow BY DEF Init, ClaimsFollow, Sound
<1>4. DarkIsExplained BY DEF Init, DarkIsExplained
<1> QED BY <1>1, <1>2, <1>3, <1>4 DEF IInv

\* Every step keeps the invariant.
LEMMA NextOK == ASSUME Sound PROVE IInv /\ [Next]_vars => IInv'
<1> SUFFICES ASSUME IInv, [Next]_vars PROVE IInv' OBVIOUS
<1>0. TypeOK BY DEF IInv
<1>1. ASSUME NEW c \in Calls, NEW b \in BOOLEAN,
             Assess(c) \/ Update(c) \/ Import(c, b) \/ Inspect(c, b) \/ ConfirmProject(c)
      PROVE  IInv'
  <2>1. /\ TypeOK' /\ UNCHANGED <<routes, claims, last>>
        /\ \E p \in Projects, row \in Rows : EditOf(p, row)
    BY <1>0, <1>1, EditStep
  <2> QED BY <2>1, EditKeeps
<1>2. ASSUME NEW c \in Calls, ConfirmRoute(c) PROVE IInv'
  <2>1. /\ TypeOK' /\ UNCHANGED claims
        /\ \E r \in Routes, row \in Rows :
             /\ EditOf(ProjectOf[r], row)
             /\ routes[r].status = "candidate"
             /\ last' = [last EXCEPT ![ProjectOf[r]] = @ + 1]
             /\ routes' = [routes EXCEPT ![r] =
                  [status |-> "confirmed", confirmed |-> row.digest,
                   event |-> NextEvent(r), action |-> "confirm"]]
    BY <1>0, <1>2, ConfirmStep
  <2> QED BY <2>1, ConfirmKeeps
<1>3. ASSUME NEW r \in Routes,
             \/ External(r) \/ CutOver(r) \/ Complete(r) \/ BeginRollback(r)
             \/ FinishRollback(r)
      PROVE  IInv'
  <2>1. TypeOK' BY <1>0, <1>3, TransitionType
  <2> QED BY <1>3, <2>1, TransitionKeeps, ExternalKeeps
<1>4. ASSUME TypeOK', UNCHANGED <<projects, routes, claims, last>> PROVE IInv'
  BY <1>4 DEF IInv, LiveRouteIsClaimed, ClaimsFollow, DarkIsExplained, Serves
<1> QED BY <1>0, <1>1, <1>2, <1>3, <1>4, StillStep DEF Next

\* The rows of a domain agree in every reachable state.
THEOREM Invariance == ASSUME Sound PROVE Spec => []IInv
BY InitOK, NextOK, PTL DEF Spec

\* Every row keeps its type.
THEOREM TypeCorrect == ASSUME Sound PROVE Spec => []TypeOK
<1>1. IInv => TypeOK BY DEF IInv
<1> QED BY <1>1, Invariance, PTL

\* What is live is what its project calls active, and its domain is claimed for it:
\* no edit, transition or other project of the domain can separate them.
THEOREM LiveRoutesAreClaimed == ASSUME Sound PROVE Spec => []LiveRouteIsClaimed
<1>1. IInv => LiveRouteIsClaimed BY DEF IInv
<1> QED BY <1>1, Invariance, PTL

\* A domain that was taken over is served for ever after, unless an external execution
\* is recorded for another route of its project.
THEOREM TakenDomainsAreServed == ASSUME Sound PROVE Spec => []DarkIsExplained
<1>1. IInv => DarkIsExplained BY DEF IInv
<1> QED BY <1>1, Invariance, PTL
-----------------------------------------------------------------------------
(* The claims and the routes implement DomainHandover                      *)

\* The state of a claim and the status of its route say the same.
StatusOf(state) == IF state \in {"active", "completed"} THEN "active" ELSE state
StatesFit ==
  \A d \in Domains : claims[d] # Nil =>
    routes[claims[d].route].status = StatusOf(claims[d].state)

\* What a transition of the route r does to the claims and the routes.
Moves(r, state) ==
  /\ claims' = [claims EXCEPT ![DomainOf[ProjectOf[r]]] =
       [project |-> ProjectOf[r], route |-> r, event |-> NextEvent(r), state |-> state]]
  /\ \A o \in Routes \ {r} : routes'[o] = routes[o]
  /\ routes'[r].status = StatusOf(state)

\* A live route moves with its claim.
LEMMA LiveMoves ==
  ASSUME Sound, IInv, NEW r \in Routes, routes[r].status \in Live, NEW state, NEW action,
         NewEvent(r, StatusOf(state), action), claims' = Claims(r, state)
  PROVE  /\ Moves(r, state)
         /\ LET c == claims[DomainOf[ProjectOf[r]]]
            IN c # Nil /\ c.route = r /\ c.state = ClaimState(routes[r].action)
<1> DEFINE p == ProjectOf[r]
           d == DomainOf[p]
<1>1. p \in Projects /\ d \in Domains /\ projects[p].active = r
  BY DEF LiveRouteIsClaimed, Sound, IInv
<1>2. claims[d] = [project |-> p, route |-> r, event |-> routes[r].event,
                   state |-> ClaimState(routes[r].action)]
  BY <1>1 DEF LiveRouteIsClaimed, Sound, IInv
<1>3. claims[d] \in ClaimRows
  BY <1>1, <1>2 DEF TypeOK, ClaimState, ClaimRows, IInv
<1>4. claims[d] # Nil BY <1>3 DEF Sound
<1>5. Moves(r, state) BY LiveRoute, EventIsNewest DEF Moves
<1> QED BY <1>2, <1>4, <1>5

\* Cutover, completion and rollback: which claims and routes they move.
LEMMA TransitionMoves ==
  ASSUME Sound, IInv, NEW r \in Routes,
         CutOver(r) \/ Complete(r) \/ BeginRollback(r) \/ FinishRollback(r)
  PROVE  LET p == ProjectOf[r]
             c == claims[DomainOf[p]]
         IN \/ /\ Moves(r, "active") /\ routes[r].status = "confirmed"
               /\ NoneLive(p) /\ (c # Nil => c.project = p)
            \/ /\ c # Nil /\ c.route = r /\ routes[r].status \in Live
               /\ \/ Moves(r, "completed") /\ c.state = "active"
                  \/ Moves(r, "rolling_back") /\ routes[r].status = "active"
                  \/ Moves(r, "rolled_back") /\ c.state = "rolling_back"
<1>1. CASE CutOver(r)
  <2>1. NewEvent(r, "active", "cutover") /\ StatusOf("active") = "active"
    BY <1>1 DEF CutOver, StatusOf
  <2>2. Moves(r, "active") BY <1>1, <2>1, EventIsNewest DEF CutOver, Moves
  <2> QED BY <1>1, <2>2 DEF CutOver, MayClaim
<1>2. CASE Complete(r)
  <2>1. /\ NewEvent(r, StatusOf("completed"), "complete") /\ routes[r].status \in Live
        /\ claims' = Claims(r, "completed") /\ ClaimState(routes[r].action) = "active"
    BY <1>2 DEF Complete, StatusOf, Live, ClaimState
  <2> QED BY <2>1, LiveMoves
<1>3. CASE BeginRollback(r)
  <2>1. /\ NewEvent(r, StatusOf("rolling_back"), "rollback_begin")
        /\ routes[r].status = "active" /\ routes[r].status \in Live
        /\ claims' = Claims(r, "rolling_back")
    BY <1>3 DEF BeginRollback, StatusOf, Live
  <2> QED BY <2>1, LiveMoves
<1>4. CASE FinishRollback(r)
  <2>1. /\ NewEvent(r, StatusOf("rolled_back"), "rollback_finish") /\ routes[r].status \in Live
        /\ claims' = Claims(r, "rolled_back") /\ ClaimState(routes[r].action) = "rolling_back"
    BY <1>4 DEF FinishRollback, StatusOf, Live, ClaimState
  <2> QED BY <2>1, LiveMoves
<1> QED BY <1>1, <1>2, <1>3, <1>4

\* No claim names a route that is not used, and what happens to such a route shows at
\* most that it was approved.
LEMMA UnusedStep ==
  ASSUME Sound, IInv, [Next]_vars
  PROVE  \/ UNCHANGED <<routes, claims>>
         \/ \E r \in Routes :
              \/ /\ UNCHANGED claims /\ \A o \in Routes \ {r} : routes'[o] = routes[o]
                 /\ routes[r].status \in {"candidate", "confirmed"}
                 /\ routes'[r].status = "confirmed"
              \/ CutOver(r) \/ Complete(r) \/ BeginRollback(r) \/ FinishRollback(r)
<1>0. TypeOK BY DEF IInv
<1>1. ASSUME NEW c \in Calls, NEW b \in BOOLEAN,
             Assess(c) \/ Update(c) \/ Import(c, b) \/ Inspect(c, b) \/ ConfirmProject(c)
      PROVE  UNCHANGED <<routes, claims>>
  BY <1>0, <1>1, EditStep
<1>2. ASSUME NEW c \in Calls, ConfirmRoute(c)
      PROVE  \E r \in Routes :
               /\ UNCHANGED claims /\ \A o \in Routes \ {r} : routes'[o] = routes[o]
               /\ routes[r].status = "candidate" /\ routes'[r].status = "confirmed"
  <2>1. PICK r \in Routes, row \in Rows :
          /\ routes[r].status = "candidate"
          /\ routes' = [routes EXCEPT ![r] =
               [status |-> "confirmed", confirmed |-> row.digest,
                event |-> NextEvent(r), action |-> "confirm"]]
    BY <1>0, <1>2, ConfirmStep
  <2>2. UNCHANGED claims BY <1>2 DEF ConfirmRoute
  <2> QED BY <1>0, <2>1, <2>2 DEF TypeOK
<1>3. ASSUME NEW r \in Routes, External(r)
      PROVE  /\ UNCHANGED claims /\ \A o \in Routes \ {r} : routes'[o] = routes[o]
             /\ routes[r].status = "confirmed" /\ routes'[r].status = "confirmed"
  BY <1>3, EventIsNewest DEF External
<1> QED BY <1>0, <1>1, <1>2, <1>3, StillStep DEF Next

\* A claim and its route fit, whatever happens.
LEMMA FitNext == ASSUME Sound PROVE IInv /\ StatesFit /\ [Next]_vars => StatesFit'
<1> SUFFICES ASSUME IInv, StatesFit, [Next]_vars PROVE StatesFit' OBVIOUS
<1>1. \A d \in Domains : claims[d] # Nil =>
        /\ claims[d].route \in Routes /\ ProjectOf[claims[d].route] = claims[d].project
        /\ DomainOf[claims[d].project] = d
        /\ routes[claims[d].route].status \in Live \cup {"rolled_back"}
  BY DEF IInv, TypeOK, ClaimRows, ClaimsFollow
<1>2. CASE UNCHANGED <<routes, claims>> BY <1>2 DEF StatesFit
<1>3. ASSUME NEW r \in Routes, UNCHANGED claims,
             \A o \in Routes \ {r} : routes'[o] = routes[o],
             routes[r].status \in {"candidate", "confirmed"}
      PROVE  StatesFit'
  BY <1>1, <1>3 DEF StatesFit, Live
<1>4. ASSUME NEW r \in Routes, NEW state, Moves(r, state) PROVE StatesFit'
  <2> DEFINE d == DomainOf[ProjectOf[r]]
  <2>1. /\ d \in Domains /\ claims'[d].route = r /\ claims'[d].state = state
        /\ \A e \in Domains \ {d} : claims'[e] = claims[e]
    BY <1>4 DEF Moves, IInv, TypeOK, Sound
  <2>2. ASSUME NEW e \in Domains, claims'[e] # Nil
        PROVE  routes'[claims'[e].route].status = StatusOf(claims'[e].state)
    <3>1. CASE e = d BY <1>4, <2>1, <3>1 DEF Moves
    <3>2. CASE e # d
      <4>1. claims[e] # Nil /\ claims[e].route \in Routes \ {r}
        BY <1>1, <2>1, <2>2, <3>2
      <4> QED BY <1>4, <2>1, <3>2, <4>1 DEF Moves, StatesFit
    <3> QED BY <3>1, <3>2
  <2> QED BY <2>2 DEF StatesFit
<1>5. ASSUME NEW r \in Routes,
             CutOver(r) \/ Complete(r) \/ BeginRollback(r) \/ FinishRollback(r)
      PROVE  StatesFit'
  BY <1>4, <1>5, TransitionMoves
<1> QED BY <1>2, <1>3, <1>5, UnusedStep

\* Every transition is a step of the handover.
LEMMA MovesHandOver ==
  ASSUME Sound, IInv, StatesFit, NEW r \in Routes,
         CutOver(r) \/ Complete(r) \/ BeginRollback(r) \/ FinishRollback(r)
  PROVE  Handover!Next
<1> DEFINE p == ProjectOf[r]
           d == DomainOf[p]
           c == claims[d]
<1>1. p \in Projects /\ d \in Domains BY DEF Sound
<1>2. c # Nil => /\ c \in ClaimRows /\ c.route \in Routes /\ ProjectOf[c.route] = c.project
                 /\ routes[c.route].status \in Live \cup {"rolled_back"}
                 /\ routes[c.route].status = StatusOf(c.state)
  BY <1>1 DEF IInv, TypeOK, ClaimRows, ClaimsFollow, StatesFit
<1>3. ASSUME NEW state \in {"active", "completed", "rolling_back", "rolled_back"},
             Moves(r, state)
      PROVE  /\ Entries' = [Entries EXCEPT ![d] =
                  [phase |-> CASE state = "active" -> "observed" [] state = "completed" -> "kept"
                               [] state = "rolling_back" -> "returning" [] OTHER -> "returned",
                   route |-> r]]
             /\ Stages' = [Stages EXCEPT ![r] = "used"]
  <2> DEFINE new == [project |-> p, route |-> r, event |-> NextEvent(r), state |-> state]
  <2>1. claims' = [claims EXCEPT ![d] = new] BY <1>3 DEF Moves
  <2>2. new # Nil
    <3>1. NextEvent(r) \in Nat BY <1>1 DEF IInv, TypeOK, NextEvent
    <3>2. new \in ClaimRows BY <1>1, <3>1 DEF ClaimRows
    <3> QED BY <3>2 DEF Sound
  <2>3. new.state = state /\ new.route = r OBVIOUS
  <2> HIDE DEF new
  <2>4. claims'[d] = new /\ \A e \in Domains \ {d} : claims'[e] = claims[e]
    BY <1>1, <2>1 DEF IInv, TypeOK
  <2>5. /\ Entry(claims'[d]) =
             [phase |-> CASE state = "active" -> "observed" [] state = "completed" -> "kept"
                          [] state = "rolling_back" -> "returning" [] OTHER -> "returned",
              route |-> r]
        /\ \A e \in Domains \ {d} : Entry(claims'[e]) = Entry(claims[e])
    BY <2>2, <2>3, <2>4 DEF Entry
  <2>6. /\ Stage(routes'[r].status) = "used"
        /\ \A o \in Routes \ {r} : Stage(routes'[o].status) = Stage(routes[o].status)
    BY <1>3 DEF Moves, Stage, StatusOf
  <2> QED BY <1>1, <2>5, <2>6 DEF Entries, Stages
<1>4. CASE /\ Moves(r, "active") /\ routes[r].status = "confirmed"
           /\ NoneLive(p) /\ (c # Nil => c.project = p)
  <2>1. Stages[r] = "approved" BY <1>4 DEF Stages, Stage
  <2>2. CASE c = Nil
    <3>1. Entries[d].phase = "outside" BY <1>1, <2>2 DEF Entries, Entry
    <3> QED BY <1>1, <1>3, <1>4, <2>1, <3>1 DEF Handover!Next, Handover!Take, Handover!Led
  <2>3. CASE c # Nil
    <3>1. c.project = p /\ routes[c.route].status = "rolled_back"
      BY <1>2, <1>4, <2>3 DEF NoneLive
    <3>2. c.state = "rolled_back" BY <1>2, <2>3, <3>1 DEF StatusOf
    <3>3. Entries[d].phase = "returned" /\ ProjectOf[Entries[d].route] = p
      BY <1>1, <1>2, <2>3, <3>1, <3>2 DEF Entries, Entry
    <3> QED BY <1>1, <1>3, <1>4, <2>1, <3>3 DEF Handover!Next, Handover!Take, Handover!Led
  <2> QED BY <2>2, <2>3
<1>5. CASE c # Nil /\ c.route = r /\ routes[r].status \in Live
  <2>1. /\ Entries[d].route = r
        /\ c.state = "active" => Entries[d].phase = "observed"
        /\ c.state = "completed" => Entries[d].phase = "kept"
        /\ c.state = "rolling_back" => Entries[d].phase = "returning"
    BY <1>1, <1>5 DEF Entries, Entry
  <2>2. [Stages EXCEPT ![r] = "used"] = Stages
    <3>1. Stages[r] = "used" BY <1>5 DEF Stages, Stage, Live
    <3> QED BY <3>1 DEF Stages
  <2>3. CASE Moves(r, "completed") /\ c.state = "active"
    <3>1. Handover!Keep(d)
      BY <1>1, <1>3, <2>1, <2>2, <2>3 DEF Handover!Keep, Handover!Becomes, Handover!Led
    <3> QED BY <1>1, <3>1 DEF Handover!Next
  <2>4. CASE Moves(r, "rolling_back") /\ routes[r].status = "active"
    <3>1. c.state \in {"active", "completed"}
      BY <1>2, <1>5, <2>4 DEF StatusOf
    <3>2. Handover!BeginReturn(d)
      BY <1>1, <1>3, <2>1, <2>2, <2>4, <3>1
      DEF Handover!BeginReturn, Handover!Becomes, Handover!Led
    <3> QED BY <1>1, <3>2 DEF Handover!Next
  <2>5. CASE Moves(r, "rolled_back") /\ c.state = "rolling_back"
    <3>1. Handover!Return(d)
      BY <1>1, <1>3, <2>1, <2>2, <2>5 DEF Handover!Return, Handover!Becomes, Handover!Led
    <3> QED BY <1>1, <3>1 DEF Handover!Next
  <2>6. \/ Moves(r, "completed") /\ c.state = "active"
        \/ Moves(r, "rolling_back") /\ routes[r].status = "active"
        \/ Moves(r, "rolled_back") /\ c.state = "rolling_back"
    BY <1>5, TransitionMoves DEF Live
  <2> QED BY <2>3, <2>4, <2>5, <2>6
<1> QED BY <1>4, <1>5, TransitionMoves

\* Every step is a step of the handover, or changes nothing it tells of.
LEMMA HandoverNext ==
  ASSUME Sound
  PROVE  IInv /\ StatesFit /\ [Next]_vars => Handover!Next \/ UNCHANGED <<Entries, Stages>>
<1> SUFFICES ASSUME IInv, StatesFit, [Next]_vars
             PROVE  Handover!Next \/ UNCHANGED <<Entries, Stages>>
  OBVIOUS
<1>1. CASE UNCHANGED <<routes, claims>> BY <1>1 DEF Entries, Stages
<1>2. ASSUME NEW r \in Routes, UNCHANGED claims,
             \A o \in Routes \ {r} : routes'[o] = routes[o],
             routes[r].status \in {"candidate", "confirmed"}, routes'[r].status = "confirmed"
      PROVE  Handover!Next \/ UNCHANGED <<Entries, Stages>>
  <2>1. Entries' = Entries BY <1>2 DEF Entries
  <2>2. /\ Stage(routes'[r].status) = "approved"
        /\ \A o \in Routes \ {r} : Stage(routes'[o].status) = Stage(routes[o].status)
    BY <1>2 DEF Stage
  <2>3. Stages' = [Stages EXCEPT ![r] = "approved"] BY <2>2 DEF Stages
  <2>4. Stages[r] = IF routes[r].status = "candidate" THEN "proposed" ELSE "approved"
    BY <1>2 DEF Stages, Stage
  <2>5. CASE routes[r].status = "candidate"
    BY <2>1, <2>3, <2>4, <2>5 DEF Handover!Next, Handover!Approve
  <2>6. CASE routes[r].status = "confirmed"
    <3>1. Stages' = Stages BY <2>3, <2>4, <2>6 DEF Stages
    <3> QED BY <2>1, <3>1
  <2> QED BY <1>2, <2>5, <2>6
<1> QED BY <1>1, <1>2, UnusedStep, MovesHandOver

\* The takeover of domains implements their handover: a route leads a domain here only
\* after it was approved, and once; a domain that is led here is given back before another
\* route takes it, and then only a route of the same project does.
THEOREM ImplementsHandover == ASSUME Sound PROVE Spec => HandoverSpec
<1>1. Init => StatesFit BY DEF Init, StatesFit
<1>2. Init => Handover!Init
  BY DEF Init, Handover!Init, Handover!Led, Entries, Entry, Stages, Stage
<1>3. Spec => []StatesFit BY <1>1, FitNext, Invariance, PTL DEF Spec
<1> QED BY <1>2, <1>3, HandoverNext, Invariance, PTL DEF Spec, HandoverSpec, Handover!Spec
=============================================================================

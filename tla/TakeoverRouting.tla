--------------------------- MODULE TakeoverRouting ---------------------------
(***************************************************************************)
(* Takeover of codes already printed: a project is assessed until it is    *)
(* ready, its routes are confirmed against that readiness, one is cut over *)
(* to the platform, observed, completed, and may be rolled back.  What the *)
(* public gateway answers for a domain follows from four rows that must    *)
(* agree: the domain's claim, its project, its route and the route's last  *)
(* event.                                                                  *)
(*                                                                         *)
(* A transition locks project and route and is one action.  The calls that *)
(* edit a project read its row without a lock and write the columns that   *)
(* differ from what they read: they are a read and a write, and between    *)
(* the two anything may happen.  A probe looks at the old entry over the   *)
(* network and is recorded afterwards.  Each call has a key of its own: a  *)
(* call repeated under its key finds its event and changes nothing.  The   *)
(* domain of a project does not change.                                    *)
(***************************************************************************)
EXTENDS Integers

CONSTANTS
  Projects, Routes, Domains, Calls, Nil,
  ProjectOf,   \* by route
  DomainOf,    \* by project
  Mode,        \* by project: "cname" or "legacy_redirect"
  MaxVersion,  \* bounds the edits of a project
  MaxImports,  \* bounds the imports of a project
  MaxEvents    \* bounds the transitions of a project

\* The columns of a claim, and what the proofs take of the constants: a route has a
\* project, a project a domain, and NULL is neither a route nor a claim.
ClaimRows ==
  [project : Projects, route : Routes, event : Nat,
   state : {"active", "completed", "rolling_back", "rolled_back"}]

Sound ==
  /\ ProjectOf \in [Routes -> Projects] /\ DomainOf \in [Projects -> Domains]
  /\ Nil \notin Routes \cup ClaimRows

VARIABLES
  projects,    \* by project: its row
  facts,       \* by project: what its readiness is computed from
  routes,      \* by route: its row, with the number and the action of its event
  claims,      \* by domain: its row, or Nil
  last,        \* by project: how many events it has
  proved,      \* routes whose event has a passed probe of the last 15 minutes
  probing,     \* by route: the event a probe under way belongs to, or 0
  calls        \* by call: the edit under way

vars == <<projects, facts, routes, claims, last, proved, probing, calls>>
-----------------------------------------------------------------------------
Operational == {"observing", "completed", "rolling_back", "rolled_back"}
Live == {"active", "rolling_back"}   \* "paused" is a status nothing sets
Probed == {"external_execution", "cutover", "rollback_begin"}
Idle == [kind |-> "idle"]

Blank == [status |-> "draft", version |-> 1, ready |-> FALSE, digest |-> Nil,
          confirmed |-> Nil, active |-> Nil]
Unknown == [aliases |-> 0, complete |-> FALSE, checked |-> FALSE, recent |-> FALSE]

Init ==
  /\ projects = [p \in Projects |-> Blank]
  /\ facts = [p \in Projects |-> Unknown]
  /\ routes = [r \in Routes |->
       [status |-> "candidate", confirmed |-> Nil, event |-> 0, action |-> "none"]]
  /\ claims = [d \in Domains |-> Nil]
  /\ last = [p \in Projects |-> 0]
  /\ proved = {}
  /\ probing = [r \in Routes |-> 0]
  /\ calls = [c \in Calls |-> Idle]
-----------------------------------------------------------------------------
(* Editing a project                                                       *)

\* build_takeover_readiness, of the facts at hand and the version that was read.
Digest(p, version, f) ==
  [version |-> version, aliases |-> f.aliases, complete |-> f.complete,
   checked |-> f.checked \/ Mode[p] # "cname"]
Ready(d) == d.complete /\ d.aliases > 0 /\ d.checked

\* refresh_takeover_readiness, from the row it read.
Refreshed(p, seen, f) ==
  LET d == Digest(p, seen.version, f)
      lost == seen.confirmed \notin {Nil, d}
      moved == seen.digest \notin {Nil, d}
      asked == seen.status \in {"draft", "needs_fix"}
      status ==
        CASE lost -> "needs_fix"
          [] ~lost /\ asked -> IF Ready(d) /\ ~moved THEN "ready_for_confirmation" ELSE "needs_fix"
          [] ~lost /\ seen.status = "ready_for_confirmation" /\ moved -> "needs_fix"
          [] OTHER -> seen.status
  IN [seen EXCEPT !.ready = Ready(d), !.digest = d, !.status = status,
                  !.confirmed = IF lost THEN Nil ELSE @]

\* The columns that differ from what was read.
Written(row, seen, new) ==
  LET column(was, read, now) == IF now # read THEN now ELSE was IN
  [status |-> column(row.status, seen.status, new.status),
   version |-> column(row.version, seen.version, new.version),
   ready |-> column(row.ready, seen.ready, new.ready),
   digest |-> column(row.digest, seen.digest, new.digest),
   confirmed |-> column(row.confirmed, seen.confirmed, new.confirmed),
   active |-> row.active]

\* guard_takeover_project_operational_state, a trigger.
GuardNothing(old, new) == TRUE
Guard(old, new) == {old.status, new.status} \cap Operational = {} /\ old.active = new.active

Reads(c, kind, p, r) ==
  /\ calls[c] = Idle
  /\ calls' = [calls EXCEPT ![c] =
       [kind |-> kind, project |-> p, route |-> r, seen |-> projects[p]]]
  /\ UNCHANGED <<projects, facts, routes, claims, last, proved, probing>>

Read(c, kind, p) ==
  /\ kind = "update" => projects[p].version < MaxVersion
  /\ kind = "import" => facts[p].aliases < MaxImports
  /\ kind = "inspect" => Mode[p] = "cname"
  /\ Reads(c, kind, p, Nil)
ReadRoute(c, r) == Reads(c, "confirm", ProjectOf[r], r)

\* The call c writes the row and ends.
Ends(c, row) ==
  /\ Guard(projects[calls[c].project], row)
  /\ projects' = [projects EXCEPT ![calls[c].project] = row]
  /\ calls' = [calls EXCEPT ![c] = Idle]

\* The row after refresh_takeover_readiness; the snapshot is written every time.
Assessed(c, f) ==
  LET p == calls[c].project
      new == Refreshed(p, calls[c].seen, f)
  IN [Written(projects[p], calls[c].seen, new) EXCEPT !.ready = new.ready]

Assess(c) ==
  /\ calls[c].kind = "assess"
  /\ Ends(c, Assessed(c, facts[calls[c].project]))
  /\ UNCHANGED <<facts, routes, claims, last, proved, probing>>

Update(c) ==
  /\ calls[c].kind = "update"
  /\ LET seen == calls[c].seen
         new == [seen EXCEPT !.version = @ + 1, !.confirmed = Nil, !.status = "needs_fix"]
     IN Ends(c, Written(projects[calls[c].project], seen, new))
  /\ UNCHANGED <<facts, routes, claims, last, proved, probing>>

\* submit_import, in the worker; some of its rows may fail.
Import(c, failed) ==
  /\ calls[c].kind = "import" /\ facts[calls[c].project].aliases < MaxImports
  /\ LET p == calls[c].project
         seen == calls[c].seen
         new == [seen EXCEPT !.status = IF failed THEN "needs_fix" ELSE "draft"]
     IN /\ Ends(c, Written(projects[p], seen, new))
        /\ facts' = [facts EXCEPT ![p].aliases = @ + 1, ![p].complete = @ \/ ~failed]
  /\ UNCHANGED <<routes, claims, last, proved, probing>>

\* inspect_domain: the domain is looked up after the row is read.
Inspect(c, ok) ==
  /\ calls[c].kind = "inspect"
  /\ LET p == calls[c].project
         found == [facts[p] EXCEPT !.checked = ok, !.recent = ok \/ @]
     IN Ends(c, Assessed(c, found)) /\ facts' = [facts EXCEPT ![p] = found]
  /\ UNCHANGED <<routes, claims, last, proved, probing>>

Confirmed(row) == [row EXCEPT !.confirmed = row.digest, !.status = "cutover_ready"]

ConfirmProject(c) ==
  /\ calls[c].kind = "confirm_project"
  /\ LET row == Assessed(c, facts[calls[c].project])
     IN row.ready /\ Ends(c, Confirmed(row))
  /\ UNCHANGED <<facts, routes, claims, last, proved, probing>>

\* Refused, or lost.
Abandon(c) ==
  /\ calls[c] # Idle /\ calls' = [calls EXCEPT ![c] = Idle]
  /\ UNCHANGED <<projects, facts, routes, claims, last, proved, probing>>
-----------------------------------------------------------------------------
(* transition_takeover_route                                               *)

\* The route gets its next event, of which no probe is known.
NextEvent(r) == last[ProjectOf[r]] + 1
NewEvent(r, status, action) ==
  /\ last[ProjectOf[r]] < MaxEvents
  /\ last' = [last EXCEPT ![ProjectOf[r]] = @ + 1]
  /\ routes' = [routes EXCEPT ![r].status = status, ![r].action = action,
                              ![r].event = NextEvent(r)]
  /\ proved' = proved \ {r}

ConfirmRoute(c) ==
  /\ calls[c].kind = "confirm"
  /\ LET r == calls[c].route
         row == Assessed(c, facts[ProjectOf[r]])
     IN /\ routes[r].status = "candidate" /\ row.ready
        /\ last[ProjectOf[r]] < MaxEvents
        /\ last' = [last EXCEPT ![ProjectOf[r]] = @ + 1]
        /\ routes' = [routes EXCEPT ![r] =
             [status |-> "confirmed", confirmed |-> row.digest,
              event |-> NextEvent(r), action |-> "confirm"]]
        /\ Ends(c, Confirmed(row))
  /\ UNCHANGED <<facts, claims, proved, probing>>

External(r) ==
  /\ Mode[ProjectOf[r]] = "legacy_redirect" /\ routes[r].status = "confirmed"
  /\ NewEvent(r, "confirmed", "external_execution")
  /\ projects' = [projects EXCEPT ![ProjectOf[r]].status = "pending_external"]
  /\ UNCHANGED <<facts, claims, probing, calls>>

\* No route of the project is live; the domain is nobody else's.
NoneLive(p) == \A o \in Routes : ProjectOf[o] = p => routes[o].status \notin Live
AnyClaim(d, p) == TRUE
MayClaim(d, p) == claims[d] # Nil => claims[d].project = p

CutOver(r) ==
  LET p == ProjectOf[r]
      d == DomainOf[p]
  IN
  /\ routes[r].status = "confirmed"
  /\ projects[p].confirmed # Nil /\ projects[p].digest = projects[p].confirmed
  /\ projects[p].digest = routes[r].confirmed
  /\ NoneLive(p) /\ MayClaim(d, p)
  /\ IF Mode[p] = "cname" THEN facts[p].recent
     ELSE routes[r].action = "external_execution" /\ r \in proved
  /\ NewEvent(r, "active", "cutover")
  /\ projects' = [projects EXCEPT ![p].active = r, ![p].status = "observing"]
  /\ claims' = [claims EXCEPT ![d] =
       [project |-> p, route |-> r, event |-> NextEvent(r), state |-> "active"]]
  /\ UNCHANGED <<facts, probing, calls>>

\* The claim, if it is this route's, follows the route.
Claims(r, state) ==
  [d \in Domains |-> IF claims[d] # Nil /\ claims[d].route = r
     THEN [claims[d] EXCEPT !.state = state, !.event = NextEvent(r)] ELSE claims[d]]

Complete(r) ==
  /\ routes[r].status = "active" /\ projects[ProjectOf[r]].status = "observing"
  /\ routes[r].action = "cutover" /\ r \in proved
  /\ NewEvent(r, "active", "complete")
  /\ projects' = [projects EXCEPT ![ProjectOf[r]].status = "completed"]
  /\ claims' = Claims(r, "completed")
  /\ UNCHANGED <<facts, probing, calls>>

BeginRollback(r) ==
  /\ routes[r].status = "active" /\ projects[ProjectOf[r]].active = r
  /\ NewEvent(r, "rolling_back", "rollback_begin")
  /\ projects' = [projects EXCEPT ![ProjectOf[r]].status = "rolling_back"]
  /\ claims' = Claims(r, "rolling_back")
  /\ UNCHANGED <<facts, probing, calls>>

\* verify_rollback_route: the probe that passes is recorded, and finishes, in one
\* transaction.
FinishRollback(r) ==
  /\ routes[r].action = "rollback_begin" /\ probing[r] = routes[r].event
  /\ routes[r].status = "rolling_back" /\ projects[ProjectOf[r]].status = "rolling_back"
  /\ NewEvent(r, "rolled_back", "rollback_finish")
  /\ projects' = [projects EXCEPT ![ProjectOf[r]].active = Nil,
                                  ![ProjectOf[r]].status = "rolled_back"]
  /\ claims' = Claims(r, "rolled_back")
  /\ probing' = [probing EXCEPT ![r] = 0]
  /\ UNCHANGED <<facts, calls>>
-----------------------------------------------------------------------------
(* Probes, and the age of what they found                                  *)

Probe(r) ==
  /\ probing[r] = 0 /\ routes[r].action \in Probed /\ r \notin proved
  /\ probing' = [probing EXCEPT ![r] = routes[r].event]
  /\ UNCHANGED <<projects, facts, routes, claims, last, proved, calls>>

\* record_takeover_server_probe, of a probe that passed.
ProbePasses(r) ==
  /\ probing[r] # 0 /\ probing[r] = routes[r].event
  /\ proved' = proved \cup {r}
  /\ probing' = [probing EXCEPT ![r] = 0]
  /\ UNCHANGED <<projects, facts, routes, claims, last, calls>>

\* It failed, was lost, or belongs to an event that is no longer the route's.
ProbeFails(r) ==
  /\ probing[r] # 0 /\ probing' = [probing EXCEPT ![r] = 0]
  /\ UNCHANGED <<projects, facts, routes, claims, last, proved, calls>>

ProbeAges(r) ==
  /\ r \in proved /\ proved' = proved \ {r}
  /\ UNCHANGED <<projects, facts, routes, claims, last, probing, calls>>

CheckAges(p) ==
  /\ facts[p].recent /\ facts' = [facts EXCEPT ![p].recent = FALSE]
  /\ UNCHANGED <<projects, routes, claims, last, proved, probing, calls>>
-----------------------------------------------------------------------------
Next ==
  \/ \E c \in Calls, p \in Projects,
        kind \in {"assess", "update", "import", "inspect", "confirm_project"} : Read(c, kind, p)
  \/ \E c \in Calls, r \in Routes : ReadRoute(c, r)
  \/ \E c \in Calls : \/ Assess(c) \/ Update(c) \/ ConfirmProject(c) \/ ConfirmRoute(c)
                      \/ Abandon(c)
  \/ \E c \in Calls, b \in BOOLEAN : Import(c, b) \/ Inspect(c, b)
  \/ \E r \in Routes :
       \/ External(r) \/ CutOver(r) \/ Complete(r) \/ BeginRollback(r) \/ FinishRollback(r)
       \/ Probe(r) \/ ProbePasses(r) \/ ProbeFails(r) \/ ProbeAges(r)
  \/ \E p \in Projects : CheckAges(p)

Spec == Init /\ [][Next]_vars
-----------------------------------------------------------------------------
\* resolve_takeover_public_route: the claim c is served.
Serves(c) ==
  LET row == projects[c.project]
      r == c.route
      as(state, route, status) ==
        c.state = state /\ routes[r].status = route /\ row.status = status
  IN
  /\ routes[r].event = c.event
  /\ \/ as("active", "active", "observing") /\ row.active = r
     \/ as("completed", "active", "completed") /\ row.active = r
     \/ as("rolling_back", "rolling_back", "rolling_back") /\ row.active = r
     \/ as("rolled_back", "rolled_back", "rolled_back") /\ row.active = Nil

ClaimState(action) ==
  CASE action = "cutover" -> "active" [] action = "complete" -> "completed"
    [] action = "rollback_begin" -> "rolling_back" [] OTHER -> "rolled_back"
-----------------------------------------------------------------------------
(* What it promises                                                        *)

Digests == [version : Nat, aliases : Nat, complete : BOOLEAN, checked : BOOLEAN]
Rows ==
  [status : {"draft", "needs_fix", "ready_for_confirmation", "cutover_ready",
             "pending_external"} \cup Operational,
   version : Nat, ready : BOOLEAN, digest : Digests \cup {Nil},
   confirmed : Digests \cup {Nil}, active : Routes \cup {Nil}]
Edits ==
  [kind : {"assess", "update", "import", "inspect", "confirm_project"},
   project : Projects, route : {Nil}, seen : Rows]
Confirmations ==
  {e \in [kind : {"confirm"}, project : Projects, route : Routes, seen : Rows] :
     e.project = ProjectOf[e.route]}

TypeOK ==
  /\ projects \in [Projects -> Rows]
  /\ facts \in [Projects -> [aliases : Nat, complete : BOOLEAN, checked : BOOLEAN,
                             recent : BOOLEAN]]
  /\ routes \in [Routes ->
       [status : {"candidate", "confirmed", "rolled_back"} \cup Live,
        confirmed : Digests \cup {Nil}, event : Nat,
        action : {"none", "confirm", "complete", "rollback_finish"} \cup Probed]]
  /\ claims \in [Domains -> {Nil} \cup ClaimRows]
  /\ last \in [Projects -> Nat]
  /\ proved \subseteq Routes
  /\ probing \in [Routes -> Nat]
  /\ calls \in [Calls -> {Idle} \cup Edits \cup Confirmations]

\* The four rows agree about what is live, however edits, transitions and projects
\* of one domain interleave: the live routes are the active ones of their projects,
\* and the domain of a project with an active route is claimed for it, in the state
\* its last event left.
LiveRouteIsClaimed ==
  /\ \A r \in Routes : routes[r].status \in Live <=> projects[ProjectOf[r]].active = r
  /\ \A p \in Projects :
       LET a == projects[p].active
       IN a # Nil =>
            /\ ProjectOf[a] = p
            /\ claims[DomainOf[p]] = [project |-> p, route |-> a, event |-> routes[a].event,
                                     state |-> ClaimState(routes[a].action)]

\* A domain that was once cut over is served, or sent back, and nothing an editor
\* of the project does can end that; the only thing that can is that an external
\* execution is recorded for another route of the same project afterwards.
DarkIsExplained ==
  \A d \in Domains :
    claims[d] # Nil => \/ Serves(claims[d])
                       \/ \E r \in Routes :
                            /\ ProjectOf[r] = claims[d].project /\ r # claims[d].route
                            /\ routes[r].action = "external_execution"
                            /\ routes[r].event > claims[d].event

\* A claim names the last event of its route, which was cut over; only a confirmed
\* route is executed elsewhere; the events of a route are its project's.  This is
\* what DarkIsExplained rests on.
ClaimsFollow ==
  /\ \A r \in Routes :
       /\ routes[r].event <= last[ProjectOf[r]]
       /\ routes[r].action = "external_execution" => routes[r].status = "confirmed"
  /\ \A d \in Domains : claims[d] # Nil =>
       LET c == claims[d]
       IN /\ ProjectOf[c.route] = c.project /\ DomainOf[c.project] = d
          /\ routes[c.route].event = c.event
          /\ routes[c.route].status \in Live \cup {"rolled_back"}

IInv == TypeOK /\ LiveRouteIsClaimed /\ ClaimsFollow /\ DarkIsExplained

\* What the console tells of a rollback whose old entry is not back yet: repair it
\* and verify again.  The verification can then succeed only if the project still
\* is in its rollback.
RollbackCanFinish ==
  \A r \in Routes : routes[r].status = "rolling_back" =>
    projects[ProjectOf[r]].status = "rolling_back"
-----------------------------------------------------------------------------
(* What the claims and the routes implement: see DomainHandover.            *)

Entry(c) ==
  IF c = Nil THEN [phase |-> "outside", route |-> Nil]
  ELSE [phase |-> CASE c.state = "active" -> "observed" [] c.state = "completed" -> "kept"
                    [] c.state = "rolling_back" -> "returning" [] OTHER -> "returned",
        route |-> c.route]
Stage(status) ==
  CASE status = "candidate" -> "proposed" [] status = "confirmed" -> "approved"
    [] OTHER -> "used"

Entries == [d \in Domains |-> Entry(claims[d])]
Stages == [r \in Routes |-> Stage(routes[r].status)]

Handover == INSTANCE DomainHandover WITH entry <- Entries, stage <- Stages

\* transition_takeover_route: however the projects of a domain interleave, one route at
\* a time leads it here, each route once, and a domain that a project took stays that
\* project's; nothing is taken before it was approved or while it is not given back.
HandoverSpec == Handover!Spec
=============================================================================

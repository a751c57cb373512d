---------------------------- MODULE DomainHandover ----------------------------
(***************************************************************************)
(* What taking over a domain promises, with no readiness, probes, edits or *)
(* event numbers: a route is approved before it leads a domain here, and   *)
(* leads it here once; a domain is led here by one route at a time; only a *)
(* route of the same project may take it up again, and only once it was    *)
(* given back.  TakeoverRouting implements it.                             *)
(***************************************************************************)
CONSTANTS Domains, Routes, Nil, ProjectOf, DomainOf

VARIABLES
  entry,   \* by domain: the route that led it here last, and how far it came
  stage    \* by route: "proposed", "approved", "used"

Led(phase, r) == [phase |-> phase, route |-> r]

Init ==
  /\ entry = [d \in Domains |-> Led("outside", Nil)]
  /\ stage = [r \in Routes |-> "proposed"]

Approve(r) ==
  /\ stage[r] = "proposed"
  /\ stage' = [stage EXCEPT ![r] = "approved"]
  /\ UNCHANGED entry

Take(d, r) ==
  /\ stage[r] = "approved" /\ DomainOf[ProjectOf[r]] = d
  /\ \/ entry[d].phase = "outside"
     \/ entry[d].phase = "returned" /\ ProjectOf[entry[d].route] = ProjectOf[r]
  /\ entry' = [entry EXCEPT ![d] = Led("observed", r)]
  /\ stage' = [stage EXCEPT ![r] = "used"]

Becomes(d, old, new) ==
  /\ entry[d].phase \in old
  /\ entry' = [entry EXCEPT ![d] = Led(new, entry[d].route)]
  /\ UNCHANGED stage

Keep(d) == Becomes(d, {"observed"}, "kept")
BeginReturn(d) == Becomes(d, {"observed", "kept"}, "returning")
Return(d) == Becomes(d, {"returning"}, "returned")

\* Most of what happens to a project shows nowhere here.
Next ==
  \/ UNCHANGED <<entry, stage>>
  \/ \E r \in Routes : Approve(r)
  \/ \E d \in Domains : (\E r \in Routes : Take(d, r)) \/ Keep(d) \/ BeginReturn(d) \/ Return(d)

Spec == Init /\ [][Next]_<<entry, stage>>
=============================================================================

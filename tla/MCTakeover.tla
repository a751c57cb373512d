------------------------------ MODULE MCTakeover ------------------------------
(* An instance of TakeoverRouting: one project that redirects from a legacy      *)
(* system, two routes, one edit at a time.                                       *)
EXTENDS TakeoverRouting

OneOwner == [r \in Routes |-> CHOOSE p \in Projects : TRUE]
OneDomain == [p \in Projects |-> CHOOSE d \in Domains : TRUE]
Legacy == [p \in Projects |-> "legacy_redirect"]
=============================================================================

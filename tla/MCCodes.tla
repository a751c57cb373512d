-------------------------------- MODULE MCCodes --------------------------------
(* An instance of CodeLifecycle: one batch of single codes.                      *)
EXTENDS CodeLifecycle

OneSource == [b \in Batches |-> CHOOSE p \in Productions : TRUE]
AllItems == [b \in Batches |-> Items]
Single == [i \in Items |-> Nil]
=============================================================================

--------------------------- MODULE MCChainDeletion ---------------------------
(* Instances of ChainDeletion.                                                *)
EXTENDS ChainDeletion

MCTargets == <<"reports", "artifacts", "records">>
=============================================================================

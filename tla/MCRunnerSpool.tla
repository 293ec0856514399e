---------------------------- MODULE MCRunnerSpool ----------------------------
(* Instances of RunnerSpool.                                                  *)
EXTENDS RunnerSpool
=============================================================================

-------------------------- MODULE MCTaskLifecycle --------------------------
(* Instances of TaskLifecycle.  The workers are model values.               *)
EXTENDS TaskLifecycle
=============================================================================

--------------------------- MODULE MCInstallation ---------------------------
(* Instances of Installation and NativeUpdate for TLC. *)
EXTENDS NativeUpdate

CONSTANTS v1, v2, t1, codex

\* v2 recognises the skills of v1.
Known == [v \in Versions |-> IF v = v2 THEN {v1} ELSE {}]
=============================================================================

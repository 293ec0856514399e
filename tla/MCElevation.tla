----------------------------- MODULE MCElevation -----------------------------
(* Instances of Elevation.                                                    *)
EXTENDS Elevation
=============================================================================

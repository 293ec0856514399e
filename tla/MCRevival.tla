------------------------------ MODULE MCRevival ------------------------------
(* Instances of Revival.                                                      *)
EXTENDS Revival, TLC

Symmetry == Permutations(Users)
=============================================================================

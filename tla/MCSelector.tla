------------------------------ MODULE MCSelector ------------------------------
(***************************************************************************)
(* Instances of ModelSelector for TLC.                                     *)
(***************************************************************************)
EXTENDS ModelSelector, TLC

Symmetry == Permutations(Models)
=============================================================================

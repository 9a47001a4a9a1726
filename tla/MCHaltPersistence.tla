-------------------------- MODULE MCHaltPersistence --------------------------
(***************************************************************************)
(* HaltPersistence for TLC: the operators are interchangeable.             *)
(***************************************************************************)
EXTENDS HaltPersistence, TLC

OperatorSymmetry == Permutations(Operators)
=============================================================================

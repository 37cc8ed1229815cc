---------------------------- MODULE MCRegistries ----------------------------
(* Small registries for Registries.                                         *)
EXTENDS Registries, TLC

CONSTANTS n1, n2, b1

MCSymmetry == Permutations(Names)
=============================================================================

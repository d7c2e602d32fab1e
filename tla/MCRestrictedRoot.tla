-------------------------- MODULE MCRestrictedRoot --------------------------
(* A small instance of RestrictedRoot for TLC. *)
EXTENDS RestrictedRoot

MCSymmetry == Permutations(Digests)
=============================================================================

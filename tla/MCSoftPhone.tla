---------------------------- MODULE MCSoftPhone ----------------------------
(***************************************************************************)
(* SoftPhone for TLC: a few handles, interchangeable.                      *)
(***************************************************************************)
EXTENDS SoftPhone, TLC

Symmetry == Permutations(Handles)
=============================================================================

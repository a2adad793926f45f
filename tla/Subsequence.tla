---------------------------- MODULE Subsequence ----------------------------
(***************************************************************************)
(* Filtering a sequence, as Vec::retain and Iterator::filter do.  The      *)
(* standard SelectSeq is recursive, and the proof system cannot look into  *)
(* it; Where is the same by the set of indices it keeps.                   *)
(***************************************************************************)
EXTENDS Naturals, Sequences, FiniteSets

\* The k-th of the numbers in I.
Nth(I, k) == CHOOSE i \in I : Cardinality(I \cap 1 .. i) = k

\* The elements of s at the indices I, in their order.
Picked(s, I) == [k \in 1 .. Cardinality(I) |-> s[Nth(I, k)]]

Where(s, Test(_)) == Picked(s, {i \in DOMAIN s : Test(s[i])})
=============================================================================

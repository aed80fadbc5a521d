----------------------------- MODULE MCCustody -----------------------------
(* Small instances of Custody for TLC. *)
EXTENDS Custody, TLC

\* Requests and assets are interchangeable; no liveness property is checked
\* together with the symmetry.
Symmetry == Permutations(Requests) \cup Permutations(Assets)

\* Requests inside and outside the unit are not interchangeable.
MixedSymmetry ==
  Permutations(Direct) \cup Permutations(Requests \ Direct) \cup Permutations(Assets)
=============================================================================

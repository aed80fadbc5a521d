---------------------------- MODULE MCLocations ----------------------------
(* Instance of Locations for TLC: ids and names are interchangeable. *)
EXTENDS Locations, TLC

Symmetry == Permutations(Locs) \cup Permutations(Names)
=============================================================================

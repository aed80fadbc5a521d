--------------------------- MODULE MCAssetReports ---------------------------
(* Small instances of AssetReports for TLC. *)
EXTENDS AssetReports, TLC

\* Requests and assets are interchangeable; no liveness property is checked
\* together with the symmetry.
Symmetry == Permutations(Requests) \cup Permutations(Assets)
=============================================================================

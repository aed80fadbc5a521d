----------------------------- MODULE MCImports -----------------------------
(* Small files: a clash inside of a file, one identity against two, and a  *)
(* row in a location.                                                      *)
EXTENDS Imports, TLC

CONSTANTS l1, v1, v2

R(tag, serial, loc) ==
  [ident |-> [k \in Keys |-> IF k = "asset_tag" THEN tag ELSE serial], loc |-> loc]

MCKeys == {"asset_tag", "serial_number"}
MCFiles ==
  { << R(v1, None, None), R(v1, v2, None) >>,
    << R(v1, v2, l1), R(None, None, None) >>,
    << R(v1, v1, None), R(None, v2, None) >> }
MCGiven == {R(v1, None, None).ident, R(None, v2, None).ident, R(v2, v1, None).ident}
MCSymmetry == Permutations(Runs) \cup Permutations(Reviewers)
=============================================================================

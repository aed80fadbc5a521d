\* Two imports of files of two rows, two reviewers; two steps of others make
\* a match, a mismatch, a conflict of two assets or a location that is gone.
CONSTANTS
  Runs = {r1, r2}
  Reviewers = {w1, w2}
  Keys <- MCKeys
  Values = {v1, v2}
  v1 = v1
  v2 = v2
  l1 = l1
  Locs = {l1}
  Files <- MCFiles
  Given <- MCGiven
  None = None
  MaxOthers = 2
  MaxFaults = 1
SYMMETRY MCSymmetry
SPECIFICATION Spec
INVARIANTS
  HonestProgress
  OneOpenPerConflict
  DecisionsAreFinal
  DryRunForetells
PROPERTIES
  CollisionsAreReviewed
CHECK_DEADLOCK FALSE

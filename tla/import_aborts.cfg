\* No unit fails and no process dies: only a location that is deleted.
CONSTANTS
  Runs = {r1, r2}
  Reviewers = {w1, w2}
  Keys <- MCKeys
  Values = {v1, v2}
  v1 = v1
  v2 = v2
  l1 = l1
  Locs = {l1}
  Files <- MCFiles
  Given <- MCGiven
  None = None
  MaxOthers = 2
  MaxFaults = 0
SYMMETRY MCSymmetry
SPECIFICATION Spec
INVARIANT
  RowsNeverAbort
CHECK_DEADLOCK FALSE

\* Two processes, a nested unit, concurrent calls inside a unit; beside them
\* four calls at a gate, in every order of arrival.
CONSTANTS
  p1 = p1
  p2 = p2
  u1 = u1
  n1 = n1
  n2 = n2
  u2 = u2
  inU1 = inU1
  inN2 = inN2
  inU2 = inU2
  plain = plain
  Processes = {p1, p2}
  Units = {u1, n1, n2, u2}
  Leaves = {inU1, inN2, inU2, plain}
  Parent <- MCParent
  Home <- MCHome
  Free = Free
  Callers = {c1, c2, c3, c4}
  Resolved = Resolved
SPECIFICATION MCSpec
INVARIANTS
  DiskHoldsCommittedUnits
  PrechecksHold
PROPERTIES
  NeverJoinsOpenUnit
  EveryCallAnswered
  ImplementsFifoMutex
  EveryCallServed

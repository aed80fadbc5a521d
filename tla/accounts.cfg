\* Two users, one of them administrator at first or both; two browsers, two
\* starting processes.
CONSTANTS
  Users = {u1, u2}
  First = u1
  Subjects = {s1}
  Browsers = {b1, b2}
  Processes = {p1, p2}
  Operator = op
  None = None
  Patches <- MCPatches
  TTL = 1
  MaxTime = 2
  MaxTokens = 2
  MaxPass = 2
SYMMETRY Symmetry
SPECIFICATION Spec
INVARIANTS
  AdminRemains
  SessionsMatchCredential
PROPERTIES
  ToldIsCommitted
  ChangesAccountedFor

\* Four locations, enough for the three levels and a sibling; two names, one
\* asset; an administrator and a technician.
CONSTANTS
  Locs = {l1, l2, l3, l4}
  Names = {n1, n2}
  Assets = {x1}
  Clients = {t1, a1}
  Admins = {a1}
  None = None
SYMMETRY Symmetry
SPECIFICATION Spec
INVARIANTS
  Forest
  PathsIdentify
PROPERTIES
  AuditTruthful

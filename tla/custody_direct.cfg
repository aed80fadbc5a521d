\* Two callers that hand the services the root store, one request behind
\* atomicMutation.
CONSTANTS
  Assets = {a1}
  Locations = {l1}
  Requests = {r1, r2, r3}
  Direct = {r1, r2}
  NoLocation = NoLocation
  Keep = Keep
  Founder = Founder
  Nobody = Nobody
SPECIFICATION Spec
SYMMETRY MixedSymmetry
INVARIANTS
  TypeOK
  DeployedIffHeld
  LedgersWellFormed
  CustodyAuditTruthful

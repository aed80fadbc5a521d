\* Three requests behind atomicMutation and a reader, on one asset.
CONSTANTS
  Assets = {a1}
  Locations = {l1}
  Requests = {r1, r2, r3}
  Direct = {}
  NoLocation = NoLocation
  Keep = Keep
  Founder = Founder
  Nobody = Nobody
  Reader = Reader
SPECIFICATION ReportsSpec
SYMMETRY Symmetry
INVARIANTS
  ReportsConsistent
  SuccessIsDurable
PROPERTIES
  EveryChangeAudited
  HistoryKept
  ImplementsAtomicCustody

\* The asset list against requests behind atomicMutation.
CONSTANTS
  Assets = {a1, a2}
  Locations = {l1}
  Requests = {r1, r2}
  Direct = {}
  NoLocation = NoLocation
  Keep = Keep
  Founder = Founder
  Nobody = Nobody
  Reader = Reader
SPECIFICATION ReportsSpec
INVARIANTS
  ListTotalConsistent

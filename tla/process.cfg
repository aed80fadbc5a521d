\* Four attempts of three clients, directly or through a proxy, two of them
\* in a window of two ticks, a map of two entries;
\* three ids, two of them in a millisecond; two requests call the store.
CONSTANTS
  Addresses = {1, 2, 3}
  Proxies = {x1}
  WindowMs = 2
  MaxAttempts = 2
  MaxEntries = 2
  PruneMs = 1
  MaxSeq = 1
  Requests = {1, 2, 3, 4}
  Sweep = Sweep
  Main = Main
  CallsOfRequest = 1
  Calling = {1, 2}
  Drawing = {1, 2}
  MaxElapsed = 3
  MaxSetBack = 1
  MaxIds = 3
SPECIFICATION MCSpec
INVARIANTS
  AdmissionBounded
  ClosedAfterWork
PROPERTIES
  IdsIncrease
  StopEnds
CHECK_DEADLOCK FALSE

\* Attempts of one client, two of them in a window of two ticks, under a
\* clock that is never set back; their requests call no store.
CONSTANTS
  Addresses = {1}
  Proxies = {}
  WindowMs = 2
  MaxAttempts = 2
  MaxEntries = 1
  PruneMs = 1
  MaxSeq = 1
  Requests = {1, 2, 3, 4}
  Sweep = Sweep
  Main = Main
  CallsOfRequest = 1
  Calling = {}
  MaxElapsed = 3
  MaxSetBack = 0
  MaxIds = 3
SPECIFICATION Spec
INVARIANTS
  LoginContract
CHECK_DEADLOCK FALSE

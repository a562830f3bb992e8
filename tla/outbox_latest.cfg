CONSTANTS
  Changes = {1, 2}
  Alternatives = 3
  Coalesced = TRUE
  Workers = {"w1"}
  Requests = {}
  Messages = {"m1", "m2"}
  MaxManual = 0
  MaxFaults = 0
SPECIFICATION Spec
CHECK_DEADLOCK FALSE
INVARIANT LatestWins

CONSTANTS
  Changes = {1, 2, 3}
  Alternatives = 2
  Coalesced = TRUE
  Workers = {"w1", "w2"}
  Requests = {"w2"}
  Messages = {"m1"}
  MaxManual = 1
  MaxFaults = 1
SPECIFICATION FairSpec
CHECK_DEADLOCK FALSE
INVARIANT SucceededIsDelivered
PROPERTY OutboxSettles

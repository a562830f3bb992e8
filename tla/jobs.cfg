CONSTANTS
  Workers = {"w1", "w2"}
  Messages = {"m1", "m2"}
  MaxAttempts = 2
  EmailJob = TRUE
  MaxCrashes = 1
  MaxErrors = 1
SPECIFICATION FairJobSpec
CHECK_DEADLOCK FALSE
INVARIANTS LeaseIsExclusive
PROPERTIES SucceededIsFinal JobSettles

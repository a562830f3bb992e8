CONSTANTS
  Commands = {1, 2, 3}
  Online = {2}
  Rejected = {}
  Slots = {s1, s2}
  BatchLimit = 2
  MaxRemote = 0
  MaxFaults = 2
SPECIFICATION Spec
SYMMETRY Interchangeable
CHECK_DEADLOCK FALSE
INVARIANTS AppliedOnce AppliedInSequence AcknowledgedIsApplied

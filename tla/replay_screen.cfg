CONSTANTS
  Commands = {1, 2, 3}
  Online = {1, 2}
  Rejected = {3}
  Slots = {"s1"}
  BatchLimit = 1
  MaxRemote = 2
  MaxFaults = 2
SPECIFICATION FairSpec
CHECK_DEADLOCK FALSE
PROPERTIES SnapshotKeepsSaved QueueDrains

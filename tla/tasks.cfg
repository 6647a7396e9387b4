SPECIFICATION FairSpec
CONSTANTS
  n1 = n1
  n2 = n2
  n3 = n3
  s3 = s3
  s1 = s1
  s2 = s2
  r1 = r1
  r2 = r2
  Assets = {1, 2, 3}
  Nodes = {n1, n2, n3}
  Slots = {s1, s2, s3}
  NodeOf <- NodeOfSlot
  Runs = {r1, r2}
  Asked <- AskedParts
  MaxSends = 2
  MaxEdits = 1
  MaxCrashes = 1
  Shifting = FALSE
  Faults = {"inspect", "list", "send"}
INVARIANT
  NobodySkipped
PROPERTY
  TasksFinish
CHECK_DEADLOCK FALSE

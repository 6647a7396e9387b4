SPECIFICATION FairSpec
CONSTANTS
  w1 = w1
  w2 = w2
  s1 = s1
  s2 = s2
  Workers = {w1}
  Signals = {s1}
  Owner <- OneOwner
  Lots = 2
  Faults = {"network", "reject", "unclear", "external"}
  MaxFaults = 2
INVARIANT
  EntryIsFinal
PROPERTIES
  DeadSetupLeavesArmed ExpiredIsClosed StopRowResolved CountedOnceAtLast

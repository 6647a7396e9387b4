SPECIFICATION FairSpec
CONSTANTS
  live1 = live1
  live2 = live2
  backfill = backfill
  s1 = s1
  s2 = s2
  Setups = {s1}
  Tasks = {live1, backfill}
  Kind <- KindOf
  Overlaps = {TRUE, FALSE}
  MaxFaults = 2
INVARIANT
  FinalAlertIsStored
PROPERTIES
  FinalStays FinalIsStored

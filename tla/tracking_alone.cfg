SPECIFICATION Spec
CONSTANTS
  live1 = live1
  live2 = live2
  backfill = backfill
  s1 = s1
  s2 = s2
  Setups = {s1, s2}
  Tasks = {live1}
  Kind <- KindOf
  Overlaps = {FALSE}
  MaxFaults = 0
PROPERTIES
  FollowsLifecycle

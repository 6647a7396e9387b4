SPECIFICATION FairSpec
CONSTANTS
  w1 = w1
  w2 = w2
  s1 = s1
  s2 = s2
  Workers = {w1, w2}
  Signals = {s1}
  Owner <- TwoOwners
  Lots = 1
  Faults = {"unclear"}
  MaxFaults = 1

  
PROPERTY
  OrphanRemoved

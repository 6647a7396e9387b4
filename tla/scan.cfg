SPECIFICATION FairSpec
CONSTANTS
  c1 = c1
  k1 = k1
  k2 = k2
  Horizon = 7
  Start = 6
  Span = 2
  Pad = 1
  Page = 3
  Recent = 6
  Ranges <- RangesOf
  Histories <- HistoriesOf
  Clients = {c1}
  TaskIds = {k1, k2}
  NoTask = NoTask
  Faults = {"crash", "raise", "record", "restart", "save", "stale"}
  MaxFaults = 1
INVARIANTS
  CoveredIsStored
  CompleteIsComplete
PROPERTIES
  CoverageGrows
  MissingSuffices
  AnsweredAtLast

SPECIFICATION Spec
CONSTANTS
  p1 = p1
  p2 = p2
  s1 = s1
  s2 = s2
  s3 = s3
  Pairs = {p1, p2}
  Signals = {s1, s2, s3}
  Pair <- PairOf
  Asset <- AssetOf
  MaxOpen = 1
  MaxPerAsset = 2
  StopPct = 10
  Equity = 20
  Pnl <- PnlOf
  Modes = {"touch", "confirm"}
  Overlaps = {FALSE, TRUE}
  MaxCrashes = 1
INVARIANTS
  LimitRespected CashAddsUp EnteredIsBacked ExitIsUnique
PROPERTIES
  NoTradeUnderKill 

SPECIFICATION FollowSpec
CONSTANTS
  Top = 8
  Near = 4
  Peak = 7
  Targets <- TargetsOf
  Shapes <- ShapesOf
  Span = 1
  Lookback = 3
  MaxCandles = 5
  MaxMissed = 2
INVARIANT
  TradeFollowsSetup
PROPERTY
  RunTwice

SPECIFICATION FairSpec
CONSTANTS
  r1 = r1
  r2 = r2
  r3 = r3
  head = head
  older = older
  middle = middle
  binance = binance
  Clients = {r1, r2, r3}
  NoOne = NoOne
  NoEnd = NoEnd
  Keys = {head, older, middle}
  Exchanges = {binance}
  ExchangeOf <- ExchangeOfKey
  EndOf <- EndOfKey
  LimitOf <- LimitOfKey
  OpenStamped = {}
  Length = 2
  MaxCandles = 2
  Concurrency = 2
  HistoryTtl = 2
  HeadTtl = 1
  MaxClock = 3
  MaxCancels = 1
INVARIANTS
  CacheBounded
  UpstreamBounded
  
PROPERTY
  EveryoneAnswered

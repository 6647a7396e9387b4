SPECIFICATION SerialSpec
CONSTANTS
  w1 = w1
  w2 = w2
  s1 = s1
  s2 = s2
  Workers = {w1, w2}
  Signals = {s1, s2}
  Owner <- TwoOwners
  Lots = 1
  Faults = {"crash", "network", "reject", "row", "expire", "forget"}
  MaxFaults = 1
INVARIANTS
  ExposureBounded OnePerSymbol LedgerIsReal NoSignalNoExposure

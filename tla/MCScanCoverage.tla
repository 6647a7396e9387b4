--------------------------- MODULE MCScanCoverage ---------------------------
(* Constant values for the model checking of ScanCoverage.                 *)
EXTENDS ScanCoverage

CONSTANTS c1, k1, k2

\* nothing, and two windows that overlap by less than Span
HistoriesOf == {{}, {<<0, 3>>, <<2, 6>>}}

RangesOf == {<<0, 5>>}
=============================================================================

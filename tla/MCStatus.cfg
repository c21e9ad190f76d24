CONSTANTS
  Workers = {w1, w2}
  Codes = {1, 2}
  Latencies = {1}
  Windows <- SmallWindows
  MaxServed = 2
  MaxTicks = 5
SPECIFICATION Spec
INVARIANTS RatesConserved WindowsRecent CountsSound

SPECIFICATION GSpec
CONSTANTS
  Requests = {r1, r2}
  Threshold = 2
  MaxFailures = 3
INVARIANT GaugeConsistent

SPECIFICATION Spec
CONSTANTS
  Requests = {q1, q2}
  MaxVersion = 2
  MaxFaults = 0
INVARIANTS DefaultsAnswer

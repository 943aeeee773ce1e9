SPECIFICATION Spec
CONSTANTS
  Requests = {r1, r2, r3}
  FREE = FREE
  MaxPolls = 2
  MaxVersion = 2
  MaxFaults = 0
PROPERTY RefreshStored

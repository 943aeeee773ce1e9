SPECIFICATION FairSpec
CONSTANTS
  c1 = c1
  c2 = c2
  c3 = c3
  P1 = P1
  P2 = P2
  P3 = P3
  Calls = {c1, c2, c3}
  Process <- Paired
  FREE = FREE
  NOBODY = NOBODY
  Bypass = {c3}
  LockTimeoutMs = 5000
  MaxVersion = 1
  MaxFaults = 1
INVARIANTS ValueOrError
PROPERTIES OnlyOwnerReleases CallsReturn

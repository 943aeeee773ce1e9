SPECIFICATION MCSpec
CONSTANTS
  c1 = c1
  c2 = c2
  c3 = c3
  c4 = c4
  p1 = p1
  p2 = p2
  NONE = NONE
  FREE = FREE
  Callers <- MCCallers
  Keys <- MCPods
  Key <- Pod
  MaxPolls = 2
  MaxFaults = 1
INVARIANTS DTypeOK OneFetchPerKey NoLateJoin WrittenBeforeRead OneFetcher
PROPERTIES ResultInOrder ImplementsSingleFlight ImplementsCoalescing

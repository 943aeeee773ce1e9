SPECIFICATION MCSpec
CONSTANTS
  NIL = NIL
  Requests = {q1, q2, q3}
  MaxVersion = 2
  MaxFaults = 2
  Clients = {r1, r2}
  Threshold = 2
  MaxFailures = 3
  Callers = {g1, g2, g3}
  GatewayKeys = {k1}
  Readers = {s1}
  Objects = {o1, o2, o3}
  MaxDb = 2
  MaxRefreshes = 2
  Keys = {k1, k2, k3, k4}
  Values <- Numbers
  Capacity = 3
INVARIANTS TypesOK GatewayNotEarlier OutageIsNoError MonotonicReads SnapshotHeld LRUListMatchesMap
PROPERTIES BreakerRecovers BreakerKeepsOpening GatewayCallsReturn CopyNeverGoesBack RequestsAnswered SnapshotNeverOlder SnapshotCatchesUp LRUImplementsRecencyList

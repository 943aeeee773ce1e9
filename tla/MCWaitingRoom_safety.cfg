SPECIFICATION FairSpec
CONSTANTS
  s1 = s1
  s2 = s2
  s3 = s3
  Sessions = {s1, s2, s3}
  Visits = {v1, v2}
  Session <- OneVisitor
  Rate = 2
  Grain = 2
  MaxTime = 2
  MaxFaults = 1
INVARIANTS TypeOK Accounted JoinOrderKept ReplayRefused StatusTruthful
PROPERTY EveryoneAdmitted
CHECK_DEADLOCK FALSE

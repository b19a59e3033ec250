\* Reads of two callers through the shared cache, with an unsteady source: safety and liveness.
SPECIFICATION ClientFairSpec
CONSTANTS
  t1 = t1
  t2 = t2
  usage = usage
  allow = allow
  None = None
  Callers <- MCCallers
  Metrics <- MCMetrics
  Policies <- MCPolicies
  Times <- MCTimes
  ReuseTtl = 1
  MaximumStaleAge = 2
  TimedeltaMax = 99
  MaxFetches = 1
  MaxInvalidations = 1
  MaximumAges <- MCMaximumAges
INVARIANTS
  ClientTypeOK
  SnapshotNeedsDetection
PROPERTY
  EveryReadEnds

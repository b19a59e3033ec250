\* Expired data presented as fresh: a fallback within the asked age.
SPECIFICATION ClientSpec
CONSTANTS
  t1 = t1
  t2 = t2
  usage = usage
  allow = allow
  None = None
  Callers <- MCCallers
  Metrics <- MCMetrics
  Policies <- MCPolicies
  Times <- MCTimes
  ReuseTtl = 1
  MaximumStaleAge = 2
  TimedeltaMax = 99
  MaxFetches = 1
  MaxInvalidations = 1
  MaximumAges <- LenientAges
INVARIANT FallbackIsExplicit

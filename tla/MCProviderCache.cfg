\* The shared cache: safety, and refinement of SnapshotReuse. Two callers, two keys.
SPECIFICATION Spec
CONSTANTS
  t1 = t1
  t2 = t2
  usage = usage
  deny = deny
  allow = allow
  None = None
  Callers <- MCCallers
  Metrics <- MCMetrics
  Policies <- MCPolicies
  Times <- MCTimes
  ReuseTtl = 1
  MaximumStaleAge = 2
  TimedeltaMax = 99
  MaxFetches = 2
  MaxInvalidations = 1
SYMMETRY MCSymmetry
INVARIANTS
  TypeOK
  NoResurrection
  AnswersOwnRequest
  NothingFromBeforeInvalidation
PROPERTIES
  CacheAnswersAreCurrent
  ServedAgeInWindow
  ImplementsReuse

\* One fetch against any server, network and clock.
SPECIFICATION GoFairSpec
CONSTANTS
  Statuses <- MCStatuses
  Lengths <- MCLengths
  Contents <- MCContents
  ChunkSizes = {1, 2}
  BodyLimit = 3
  MaxBody = 5
INVARIANTS
  GoTypeOK
  AtMostOneLateOperation
  SnapshotHasEvidence
  RetryableMeansTransient
PROPERTIES
  FetchEnds

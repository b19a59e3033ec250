\* Snapshots from Codex payloads and from other sources, aggregated.
SPECIFICATION AggregateSpec
CONSTANTS
  None = None
  Naive = Naive
  NotObject = NotObject
  Untrimmed = {"", " "}
  Representable = {0, 7}
  MaxCount = 9
  Payloads <- MCPayloads
  Supplied <- MCSupplied
  Queries <- MCQueries
  Rank <- MCRank
  Now <- MCNow
  MaxSnapshots = 2
INVARIANTS
  LowestIsComparable
  EverySnapshotExplained
  UsableWindowsSurvive

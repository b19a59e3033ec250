\* Every failure of a fetch is a ProviderError, the document says;
\* here for bodies that json.loads can read or refuse.
SPECIFICATION GoSpec
CONSTANTS
  Statuses <- MCStatuses
  Lengths <- MCLengths
  Contents <- MCReadable
  ChunkSizes = {1, 2}
  BodyLimit = 3
  MaxBody = 5
INVARIANT
  FailuresAreTyped

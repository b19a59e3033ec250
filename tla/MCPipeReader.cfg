\* One reader thread, its one-slot queue and its shutdown.
SPECIFICATION ReaderFairSpec
CONSTANTS
  a = a
  b = b
  Foreign = Foreign
  Bytes <- MCBytes
  ReadChunk = 2
  MaxBytes = 4
INVARIANTS
  ReaderTypeOK
  BytesConserved
  DrainSuffices
PROPERTIES
  AbandonedThreadEnds

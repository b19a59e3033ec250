\* The exchange ends under errors, malformed frames and a small output cap.
SPECIFICATION SessionFairSpec
CONSTANTS
  Foreign = Foreign
  Frames <- FailureFrames
  Bytes <- FailureWire
  ReadChunk = 3
  MaxBytes = 5
  MaxOutput = 4
INVARIANTS
  SessionTypeOK
PROPERTIES
  ExchangeEnds
  ReadsThroughPipeReader

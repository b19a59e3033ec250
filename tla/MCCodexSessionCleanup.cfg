\* A failed cleanup always ends in PROCESS, the document says.
SPECIFICATION SessionSpec
CONSTANTS
  Foreign = Foreign
  Frames <- FailureFrames
  Bytes <- FailureWire
  ReadChunk = 3
  MaxBytes = 4
  MaxOutput = 3
INVARIANT
  CleanupFailureIsProcess

\* One exchange with a child that may do anything with its pipes.
SPECIFICATION SessionSpec
CONSTANTS
  Foreign = Foreign
  Frames <- HandshakeFrames
  Bytes <- HandshakeWire
  ReadChunk = 3
  MaxBytes = 7
  MaxOutput = 6
INVARIANTS
  LinesAreFaithful
  SuccessMeansHandshake
  NoLeakUnlessReported
PROPERTY
  FailedStepIsTold

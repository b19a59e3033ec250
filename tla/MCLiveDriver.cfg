\* One run of the command under the live driver.
SPECIFICATION DriverFairSpec
CONSTANTS
  MaxStdout = 4
  Chunk = 2
  MaxWritten = 6
INVARIANTS
  DriverTypeOK
  AnswerIsComplete
  NothingLeftUnkilled
PROPERTIES
  RefusalEndsGroup
  ChildCallEnds

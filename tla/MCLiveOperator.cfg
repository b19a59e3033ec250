\* The status command from arguments to exit, and the live driver around it.
SPECIFICATION OperatorSpec
CONSTANTS
  None = None
  Naive = Naive
  NotObject = NotObject
  Untrimmed = {"", " "}
  Representable = {0, 7}
  MaxCount = 9
  Payloads <- MCPayloads
  OpenCodeUsages <- MCOpenCodeUsages
  Environments <- MCEnvironments
  RunnerValues <- MCRunnerValues
  Instants <- MCInstants
  MaximumAge = 300
  MaxRunner = 2
  ForeignOutputs <- MCForeignOutputs
INVARIANTS
  ConsultedAsAsked
  ComposedIsDetected
  StreamTellsOutcome
  VerdictTellsOutcome

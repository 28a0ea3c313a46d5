SPECIFICATION QSpec
CONSTANTS
  MaxAttempts = 3
  MaxToolIterations = 4
  Tool = {customer, similar}
  MaxCalls = 2
  Answer <- MCAnswer
  None = None
CHECK_DEADLOCK FALSE
INVARIANTS
  QTypeOK
  ToolProtocol
  LatestCallRecorded
  RequestsBounded
  OneReprompt
  ResultInTaxonomy
PROPERTY ReturnsOrHangs

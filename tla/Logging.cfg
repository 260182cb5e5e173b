CONSTANTS
  LogNone = 1
  LogFile = 32
  LogNext = 64
  Bits = {2, 8, 32, 128}
  FlagSets = {{8}, {2, 32}}
  Priorities = {0, 1}
  StandardIds <- OnlyErrors
  MaxStreams = 1
  MaxTexts = 1
  MaxScopes = 2
SPECIFICATION Spec
INVARIANTS
  SuspensionsNest
  ScopesLeaveNothingSuspended
  NothingTwice
PROPERTIES
  AcceptedTextSurvives

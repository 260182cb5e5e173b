SPECIFICATION Spec
CONSTANTS
  ErrVal = ErrVal
  Huge = 10000
  Libm <- MCLibm
  Variables <- MCVariables
  PiValue <- MCPi
  NumberIn <- MCNumberIn
  WordFor <- MCWordFor
  conversion_error = conversion_error
  invalid_argument = invalid_argument
  Threads = {t1, t2}
  NoThread = NoThread
  VariableNames <- MCVariableNames
  Points <- MCPoints
  MaxCopies = 2
  Constructed <- MCConstructed
  CodeValue <- ValueAt
  ResultOf <- Result
  NDEBUG = FALSE
  InvalidStateException = InvalidStateException
  NoGradient = NoGradient
  internal_error = internal_error
  Leaves <- MCLeaves
  dimDomain = 2
  Names = {""}
  MaxFunctions = 3
  NaN = NaN
  Unit = 10
  NotImplemented = NotImplemented
  RangeError = RangeError
  UnitLength = 20
  Model1Elements <- MCModel1Elements
  Model1Min = 1
  Model1Max = 9
  NumElements <- MCNumElements
  IOError = IOError
  spe10_data_file_missing = spe10_data_file_missing
  wrong_input_given = wrong_input_given
INVARIANTS
  FormulasReadAsUsual
  DiffIsTheDerivative
  EvaluationsDoNotMix
  EvaluationsAreExact
  CombinationsKeepTheirPromise
  DataAreShownInPlace
  UtilitiesAreConsistent
CHECK_DEADLOCK FALSE

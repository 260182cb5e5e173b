CONSTANTS
  LogNone = LogNone
  Bits = {error}
  Level = error
  FlagSets = {{}, {error}}
  Priorities = {0, 1}
  Threads = {t1, t2, t3}
  Nobody = Nobody
  MaxTexts = 3
  ClientLocks = TRUE
SPECIFICATION Spec
INVARIANTS
  NothingLost
  FileMirrorsConsole

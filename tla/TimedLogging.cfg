CONSTANTS
  Threads = {t1, t2}
  Nobody = Nobody
  Managers = {m1, m2, m3, m4, m5}
  InfoLevel = 1
  DebugLevel = 0
  MaxCopies = 2
SPECIFICATION TimedSpec
INVARIANTS
  LevelDrift
  FewPrint
  FewUntilCreated

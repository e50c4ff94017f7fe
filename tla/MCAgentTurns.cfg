CONSTANTS
  t1 = t1  t2 = t2  k1 = k1  k2 = k2
  Turn = {t1, t2}
  Key = {k1, k2}
  Resetter = Resetter
  None = None
  MaxFaults = 1
  MaxCrashes = 1
  MaxResets = 1
SPECIFICATION FairSpec
INVARIANTS TypeOK AnswersAreHonest MemoryRefersToState
PROPERTIES PersistedMemoryAdvances TurnsEnd

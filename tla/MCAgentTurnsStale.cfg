CONSTANTS
  t1 = t1  t2 = t2  k1 = k1  k2 = k2
  Turn = {t1, t2}
  Key = {k1}
  Resetter = Resetter
  None = None
  MaxFaults = 0
  MaxCrashes = 0
  MaxResets = 1
SPECIFICATION Spec
INVARIANTS ResetForgets

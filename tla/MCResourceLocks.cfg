CONSTANTS
  c1 = c1  c2 = c2  c3 = c3
  e1 = e1  e2 = e2  e3 = e3
  Caller = {c1, c2, c3}
  Resource = {1, 2, 3}
  Entry = {e1, e2, e3}
  Wanted <- Pairs
SPECIFICATION FairSpec
INVARIANTS TypeOK TableExact
PROPERTIES ImplementsLockTable EverybodyGetsIn

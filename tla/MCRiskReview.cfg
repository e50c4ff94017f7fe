CONSTANTS
  u1 = u1  u2 = u2  p1 = p1  p2 = p2
  k1 = k1  k2 = k2  k3 = k3
  c1 = c1  c2 = c2
  UserId = {u1, u2}
  TxnId = {n1, n2, n3}
  RequestId = {}
  Key <- Keys
  Phone = {p1, p2}
  Amount = {1, 4}
  InitialUsers <- TwoUsers
  InitialBalance = 5
  MaxSingle = 5
  MaxDaily = 8
  Window = 2
  MaxTime = 2
  PayKey <- PayKeys
  RiskKey <- RiskKeyOf
  Caller = {c1, c2}
  SuspiciousPercent = 70
  RapidWindow = 1
  RapidCount = 1
  MaxFaults = 1
  MaxChecks = 1
SYMMETRY ReviewSymmetry
SPECIFICATION Spec
INVARIANTS TypeOK OneVerdict FlagsAreDeserved

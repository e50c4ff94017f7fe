CONSTANTS
  u1 = u1  u2 = u2  p1 = p1  p2 = p2
  k1 = k1  k2 = k2  k3 = k3
  t1 = t1  t2 = t2
  UserId = {u1, u2}
  TxnId = {n1}
  RequestId = {}
  Key = {k1, k2}
  Phone = {p1, p2}
  Amount = {2}
  InitialUsers <- TwoUsers
  InitialBalance = 3
  MaxSingle = 3
  MaxDaily = 4
  Window = 1
  MaxTime = 0
  Call = {t1, t2}
  NoCall = NoCall
  MaxCrashes = 0
SPECIFICATION FairSpec
PROPERTIES CallsEnd

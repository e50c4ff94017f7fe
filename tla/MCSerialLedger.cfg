CONSTANTS
  u1 = u1  u2 = u2  u3 = u3
  p1 = p1  p2 = p2  p3 = p3
  k1 = k1  k2 = k2  k3 = k3
  UserId = {u1, u2, u3}
  TxnId = {n1, n2, n3}
  RequestId = {r1, r2}
  Key = {k1, k2, k3}
  Phone = {p1, p2, p3}
  Amount = {0, 2, 3}
  InitialUsers <- TwoUsers
  InitialBalance = 5
  MaxSingle = 3
  MaxDaily = 4
  Window = 1
  MaxTime = 2
  MaxSetBacks = 1
SYMMETRY KeySymmetry
SPECIFICATION SerialSpec
INVARIANTS TypeOK ValidState Reconciled DailyLimitHolds OnePaymentPerKey ResolvedOnce AuditComplete
PROPERTIES HistoryKept

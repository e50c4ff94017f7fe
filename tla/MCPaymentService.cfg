CONSTANTS
  u1 = u1  u2 = u2  p1 = p1  p2 = p2
  k1 = k1  k2 = k2  k3 = k3
  t1 = t1  t2 = t2
  UserId = {u1, u2, u3}
  TxnId = {n1, n2}
  RequestId = {r1}
  Key = {k1, k2}
  Phone = {p1, p2, p3}
  Amount = {2}
  InitialUsers <- TwoUsers
  InitialBalance = 3
  MaxSingle = 3
  MaxDaily = 4
  Window = 1
  MaxTime = 0
  Call = {t1, t2}
  NoCall = NoCall
  MaxCrashes = 1
SYMMETRY TwoKeySymmetry
SPECIFICATION Spec
INVARIANTS TypeOK FileMatchesMemory NoLostUpdate AnswersAreDurable ApprovalLocksParticipants
PROPERTIES PublishedStays ImplementsAtomicCommands

CONSTANTS
  f1 = f1  f2 = f2
  Event = {1, 2, 3}
  Flusher = {f1, f2}
  Resetter = {}
  Nobody = Nobody  Payment = Payment
  Torn = Torn  Bad = Bad
  TornAppends = FALSE
  MaxFaults = 2
  MaxCrashes = 1
SPECIFICATION Spec
INVARIANTS TypeOK NoEventLost RepeatsNeedFaults FlushIsHonest
PROPERTIES ImplementsAuditDelivery

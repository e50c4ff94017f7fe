CONSTANTS
  f1 = f1  f2 = f2
  Event = {1, 2}
  Flusher = {f1, f2}
  Resetter = {f2}
  Nobody = Nobody  Payment = Payment
  Torn = Torn  Bad = Bad
  TornAppends = FALSE
  MaxFaults = 0
  MaxCrashes = 0
SPECIFICATION Spec
INVARIANTS NoEventLost

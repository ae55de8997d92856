\* A fulfil and a cancel of one order.
SPECIFICATION MCSpec
CONSTANTS
  o1 = o1
  f1 = f1
  u1 = u1
  u3 = u3
  Users = {u1, u2}
  Creates = {o1}
  Fulfils = {f1}
  Cancels = {x1}
  Amounts = {6}
  Rates = {1}
  RateScale = 1
  Funds <- SmallFunds
  Cent = 4
  MaxAmount = 100
  MaxCost = 100
  MaxInFlight = 3
  Faults = {}
  Free = Free
PROPERTY OnlyPendingIsCancelled

\* Two buys of one user.
SPECIFICATION MCSpec
CONSTANTS
  o1 = o1
  f1 = f1
  u1 = u1
  u3 = u3
  Users = {u1}
  Creates = {o1, o2}
  Fulfils = {}
  Cancels = {}
  Amounts = {6}
  Rates = {1}
  RateScale = 1
  Funds <- SmallFunds
  Cent = 4
  MaxAmount = 100
  MaxCost = 100
  MaxInFlight = 2
  Faults = {}
  Free = Free
INVARIANT NoOverdraft

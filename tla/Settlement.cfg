\* Two orders, a fulfil and a cancel, which may be of one order but then do not
\* overlap.
SPECIFICATION MCSpec
CONSTANTS
  o1 = o1
  u1 = u1
  Users = {u1, u2}
  Creates = {o1, o2}
  Fulfils = {f1}
  Cancels = {x1}
  Amounts <- SmallAmounts
  Rates = {3}
  RateScale = 2
  Funds <- SmallFunds
  Cent = 4
  MaxAmount = 100
  MaxCost = 100
  MaxInFlight = 4
  Faults = {}
  Free = Free
INVARIANTS
  MoneyIsKept
  NoOverdraftWithoutRace
PROPERTY ImplementsOrderBook

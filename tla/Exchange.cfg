\* Two orders of one user, a fulfil and a cancel, a user without wallets.
SPECIFICATION MCSpec
CONSTANTS
  o1 = o1
  u1 = u1
  u3 = u3
  Users = {u1, u2, u3}
  Members = {u1, u2}
  Creates = {o1, o2}
  Fulfils = {f1}
  Cancels = {x1}
  Amounts = {6}
  Rates = {1}
  RateScale = 1
  Funds <- SmallFunds
  Cent = 4
  MaxAmount = 100
  MaxCost = 100
  MaxBalance = 12
  MaxInFlight = 3
  Faults = {"abort", "restart"}
  WalletFaults = {"abort", "restart"}
  None = None
  Free = Free
PROPERTY ImplementsOrderService

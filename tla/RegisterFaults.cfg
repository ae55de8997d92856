\* Three register calls with two emails; everything may restart at any point.
SPECIFICATION FairSpec
CONSTANTS
  Users = {u1, u2, u3}
  Currency = {"USD", "NGN"}
  FirstCurrency = "USD"
  Updates = {}
  Amounts = {1}
  MaxBalance = 4
  None = None
  Faults = {"abort", "restart", "broker"}
  Emails = {"a", "b"}
INVARIANT WalletsHaveUsers
PROPERTIES
  ImplementsWalletService
  EveryUserGetsWallets
\* The services idle when every call and message was handled.
CHECK_DEADLOCK FALSE

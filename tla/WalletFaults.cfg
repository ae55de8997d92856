\* Two users, two concurrent updates, restarts of the service and the broker.
SPECIFICATION WalletSpec
CONSTANTS
  Users = {u1, u2}
  Currency = {"USD", "NGN"}
  FirstCurrency = "USD"
  Updates = {q1, q2}
  Amounts = {2, 3}
  MaxBalance = 4
  None = None
  Faults = {"abort", "restart", "broker"}
SYMMETRY MCSymmetry
INVARIANTS
  WalletTypeOK
  WalletsComeInPairs
PROPERTY ImplementsLedger
\* The service idles when every message and call was handled.
CHECK_DEADLOCK FALSE

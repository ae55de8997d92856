\* One order, two fulfils and a cancel of it, with every fault.
SPECIFICATION MCFairSpec
CONSTANTS
  o1 = o1
  f1 = f1
  u1 = u1
  u3 = u3
  Users = {u1, u2, u3}
  Creates = {o1}
  Fulfils = {f1, f2}
  Cancels = {x1}
  Amounts = {6}
  Rates = {1, 4, 6}
  RateScale = 2
  Funds <- SmallFunds
  Cent = 4
  MaxAmount = 100
  MaxCost = 12
  MaxInFlight = 4
  Faults = {"refuse", "abort", "restart"}
  Free = Free
INVARIANTS
  TypeOK
  OrdersAreFunded
  ResolutionIsPaid
  CreditOnlyAfterDebit
  PendingMeansUnresolved
  BooksAgree
  TransactionsExclude
  NobodyFulfilsTwice
  NotificationTracksFulfilment
  NoOverdraftWithoutRace
  StrandedHasCause
PROPERTIES
  LateResolverFails
  EveryRequestEnds

\* One order, two fulfils and two cancels of it; three calls are sent, the
\* create among them if any is served; with every fault.
SPECIFICATION MCSpec
CONSTANTS
  o1 = o1
  f1 = f1
  f2 = f2
  x1 = x1
  x2 = x2
  u1 = u1
  u2 = u2
  Users = {u1, u2}
  Creates = {o1}
  Fulfils = {f1, f2}
  Cancels = {x1, x2}
  Amounts = {6}
  Rates = {1}
  RateScale = 1
  Funds <- SmallFunds
  Cent = 4
  MaxAmount = 100
  MaxCost = 100
  MaxInFlight = 3
  MaxCalls = 3
  Faults = {"refuse", "abort", "restart"}
  Free = Free
  MailFaults = {"broker", "restart"}
  Patient = {u1, u2}
  AnswerFaults = {"connection", "readback"}
INVARIANT RepeatsAreSafeUnlessLost
PROPERTIES
  AnswersAreFinal
  EveryCallIsAnswered
  OwnerIsMailed
\* Nobody has to send a call.
CHECK_DEADLOCK FALSE

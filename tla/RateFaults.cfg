\* Three requests for two currencies, two midnights, every fault.
SPECIFICATION Spec
CONSTANTS
  Currencies = {usd, ngn}
  Requests = {r1, r2, r3}
  Nights = 2
  MaxVersion = 3
  Faults = {"api", "redis", "restart"}
SYMMETRY MCSymmetry
INVARIANTS
  TypeOK
  ListedMatchesStored
  CompletedJobRefreshed
PROPERTY NoRollbackWithoutRace
\* The service idles between midnights and requests.
CHECK_DEADLOCK FALSE

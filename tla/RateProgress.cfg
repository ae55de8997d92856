\* Two requests and a midnight, without faults.
SPECIFICATION FairSpec
CONSTANTS
  Currencies = {usd, ngn}
  Requests = {r1, r2}
  Nights = 1
  MaxVersion = 2
  Faults = {}
PROPERTIES
  MidnightRefreshes
  HitsStayHits
\* The service idles between midnights and requests.
CHECK_DEADLOCK FALSE

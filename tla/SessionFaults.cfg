\* Three signins of two users, a sign-out, a call of another service, every fault.
SPECIFICATION Spec
CONSTANTS
  Users = {u1, u2}
  Signins = {s1, s2, s3}
  Signouts = {o1}
  Calls = {c1}
  None = None
  Faults = {"abort", "answer", "restart"}
SYMMETRY SessionSymmetry
INVARIANTS
  TypeOK
  OneRowPerUser
  TokensStayWithUsers
  ConflictHasRival
  ExpiredIsRefused
PROPERTY AnsweredIsStored
\* The services idle when every call was handled.
CHECK_DEADLOCK FALSE

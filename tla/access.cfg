SPECIFICATION Spec
CONSTANTS
  r1 = r1  r3 = r3  r2 = r2  queen = queen  guest = guest  p1 = p1  p2 = p2
  None = None
  Requests = {r1, r2, r3}
  Callers <- AllCallers
  TrustProxy = TRUE
  Emails = {queen, guest}
  DemoEmails = {queen}
  Passwords = {p1, p2}
  DemoPassword = p1
  LoginMax = 2  Window = 3  Second = 3  Grain = 2
  RegistrationOpen = TRUE
  Rows = {1, 2}
  MonthLength = 3
  LastTick = 7
  LastDay = 6
  Workloads <- Door
SYMMETRY SlotSymmetry
INVARIANTS BurstIsBounded
PROPERTIES FirstUserStands RetryAfterIsHonest DatesKeepTheirOrder

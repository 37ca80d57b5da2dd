SPECIFICATION RushSpec
CONSTANTS
  account = account  visitor1 = visitor1  visitor2 = visitor2
  q1 = q1  en = en  pt = pt  r1 = r1  r2 = r2  r3 = r3
  None = None
  Users = {account}
  UserOf <- SharedAccount
  Requests = {r1, r2, r3}
  Subjects = {visitor1, visitor2}
  Questions = {q1}
  Locales = {en}
  Limit = 2
  LastDay = 2
  LastTreasury = 2
  AIEnabled = TRUE
  LegacyRows = TRUE
SYMMETRY SlotSymmetry
INVARIANTS TypeOK CountIsExplained AnswersAreBounded OutagesAreNotCached CopiesAreBounded
PROPERTIES KeepsThePromise

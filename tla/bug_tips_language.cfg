SPECIFICATION Spec
CONSTANTS
  account = account  visitor1 = visitor1  visitor2 = visitor2
  q1 = q1  en = en  pt = pt  r1 = r1  r2 = r2  r3 = r3
  None = None
  Users = {account}
  UserOf <- SharedAccount
  Requests = {r1}
  Subjects = {visitor1}
  Questions = {q1}
  Locales = {en, pt}
  Limit = 2
  LastDay = 1
  LastTreasury = 1
  AIEnabled = TRUE
  LegacyRows = FALSE
PROPERTIES TipsSpeakTheLanguage

SPECIFICATION OverlapSpec
CONSTANTS
  u1 = u1  u2 = u2  i1 = i1  i2 = i2  i3 = i3  a1 = a1  a2 = a2
  t1 = t1  t2 = t2  t3 = t3  desc = desc  amt = amt  r1 = r1  r2 = r2  r3 = r3
  None = None
  Requests = {r1, r2}
  Users = {u1}
  Items = {i1, i2, i3}
  RemoteAccounts = {a1}
  Tids = {t1, t2}
  Fields = {desc}
  Values = {1, 2}
  Owner <- OwnerOne
  AccountsOf <- BankAndEmptyBanks
  Feed <- FreshIdFeed
  LastVersion = 1
  MaxBankConnections = 2
  LinkBudget = 4
  PluggyEnabled = FALSE
  Postgres = TRUE
INVARIANTS OverrunIsBounded OneCopyPerSlot
PROPERTIES RequestsEnd
CHECK_DEADLOCK FALSE

SPECIFICATION Spec
CONSTANTS
  u1 = u1  u2 = u2  i1 = i1  i2 = i2  i3 = i3  a1 = a1  a2 = a2
  t1 = t1  t2 = t2  t3 = t3  desc = desc  amt = amt  r1 = r1  r2 = r2  r3 = r3
  None = None
  Requests = {r1}
  Users = {u1, u2}
  Items = {i1, i2, i3}
  RemoteAccounts = {a1, a2}
  Tids = {t1, t2, t3}
  Fields = {desc, amt}
  Values = {1, 2}
  Owner <- OwnerOne
  AccountsOf <- BigAndEmptyBanks
  Feed <- SerialFeed
  LastVersion = 3
  MaxBankConnections = 2
  LinkBudget = 3
  PluggyEnabled = TRUE
  Postgres = FALSE
INVARIANTS OneConnectionPerItem OneAccountPerRemote
PROPERTIES InsertedRowsAreNovel FinishedSyncIsFresh
CHECK_DEADLOCK FALSE

SPECIFICATION EitherSpec
CONSTANTS
  Account = 1
  t1 = t1  t2 = t2  t3 = t3  desc = desc  amt = amt
  Tids = {t1, t2, t3}
  Fields = {desc, amt}
  Values = {1, 2}
  MaxFeed = 3
  MaxRounds = 3
  q1 = q1  q2 = q2  p1 = p1  p2 = p2  A = A  B = B  w1 = w1
  Keys = {q1, q2}
  Accounts = {1, 2}
  Pids = {p1, p2}
  Movements = {A, B}
  Syncs = {w1}
  StoredUsage <- SomeUsage
  StoredTransactions <- UpToThree
  Units = 4  Inserts = 4
SYMMETRY IdSymmetry
INVARIANTS LoopIsTheSets TwoSyncsCoverTheFeed UsageIsAccounted
PROPERTIES ThirdSyncIsQuiet OnlyCopiesGo
CHECK_DEADLOCK FALSE

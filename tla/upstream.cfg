SPECIFICATION Spec
CONSTANTS
  Ttl = 1  Life = 2  MaxPages = 3  PageSize = 1  m1 = m1  m2 = m2
  Movements = {m1, m2}  SimulatedFeed <- TwoAlike
  LastMinute = 2  LastListed = 4
  food = food  other = other  t1 = t1  t2 = t2  t9 = t9
  Ids = {t1, t2}
  Categories = {food, other}
  Keyword <- FirstKeyword
  MaxAttempts = 3  Backoff = 3  MaxDelay = 16
  None = None  NaN = NaN
  Headers <- RetryAfters
  Batches <- TwoLines
  LabelTexts <- ModelTexts
  Model = Model  Canned = Canned  Cited = Cited
  Items = {1, 2}
  MaxConnections = 1
  Polls = 2
  Terminal = {"LOGIN_ERROR"}
INVARIANTS FeedIsWholeOrCut KeyDiesOnlyOnSlowCalls HoldIsBounded
PROPERTIES DoneMeansStored AnswersAsOracle QuestionsEnd ScriptEnds SyncEnds
CHECK_DEADLOCK FALSE

SPECIFICATION Spec
CONSTANTS
  Pool <- SomeRows
  Holdings <- SomeBanks
  WordLabel <- Labels
  AiLabel <- AiLabels
  Overlaps <- OneOverlap
  SourceLimit = 3  PageLimit = 2  CategoryLimit = 1
  Counts = {0, 2, 9}
  MonthLength = 4
  LastDay = 5
INVARIANTS TotalsAgree AnswersAddUp PagesLoseOnlyTies

SPECIFICATION Spec
CONSTANTS
  w1 = w1  w2 = w2  dental = dental  legal = legal
  billing = billing  visits = visits  praise = praise  desk = desk  triage = triage
  Workers <- TwoWorkers
  Orgs <- TwoOrgs
  Requests <- TwoRequests
  SettingsValues <- ThreeSettings
  SeedSettings <- Seeded
  Labels <- OneLabel
  DemoOrgs <- OneDemoOrg
  DailyTokenBudget <- Budgets
  SpendCeiling = 3
  LLM_PROVIDER = "live"
  MAX_ATTEMPTS = 2
  MaxRuns = 3
  MaxFaults = 1
  QUEUE_LIMIT = 1
  Lanes <- SomeLanes
SYMMETRY Symmetry
INVARIANTS
  SpendIsBounded
  DowngradeIsDeserved
  RoutedBySettingsOfOneTime
  PersonNeededIsShown
CHECK_DEADLOCK FALSE

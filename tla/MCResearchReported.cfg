CONSTANTS
  Candidates = {1, 2}
  Cash = 10
  Spy = 11
  MonthLength = 2
  WeekLength = 1
  LastDate = 6
  Configs <- AllConfigs
  Policy <- PolicyDef
  FactorNames = {"momentum", "low_volatility"}
  CashSymbol = "SGOV"
  Benchmark = "SPY"
  Gain <- GainDef
  Costs = {0, 2}
  HoldoutStart = 4
  MinimumDays = 1
  MaxLag = 1
  MaxPoints = 4
  DaysPerWeek = 2
  Universe <- UniverseDef
  Deliveries <- DeliveriesDef
  Answers <- AnswersDef
  Overrides = {2}
  FirstDay = 4
  LastDay = 7
  MaxRuns = 4
  Bundles <- BundlesDef
  YearLength = 2
  MaxFetches = 2
SPECIFICATION Spec
CONSTRAINT Scenario
INVARIANT RecordIsReported
CHECK_DEADLOCK FALSE

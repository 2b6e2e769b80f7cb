CONSTANTS
    o1 = o1
    o2 = o2
    Orders = {o1, o2}
    Side <- MCSide
    Holdings <- MCHoldings
    Configured = {"USD"}
    Runs = {1, 2}
    Procs = {"p", "q"}
    Named = {"q"}
    IncludeClosed = TRUE
    MaxPages = 2
    MaxDetails = 1
    MaxRetries = 1
    MaxReports = 2
    MaxFaults = 1
    Openers = {"p", "q"}
    MaxRestarts = 1
    c1 = c1
    c2 = c2
    n1 = n1
    n2 = n2
    f1 = f1
    f2 = f2
    f3 = f3
    Instruments = {"i1", "i2"}
    Clients = {c1, c2}
    Intents = {n1, n2}
    FillIds = {f1, f2, f3}
    Amounts = {1, 2}
    Fees = {0, 1}
    MaxCash = 6
    MaxPosition = 1
SPECIFICATION MCSpec
CONSTRAINT Scenario
INVARIANTS VersionIsTrue ReportsAddUp  ReplayAgrees AccountIsSound OrderMatchesFills
CHECK_DEADLOCK FALSE

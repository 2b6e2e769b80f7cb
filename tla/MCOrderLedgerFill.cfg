CONSTANTS
    r1 = r1
    r2 = r2
    Orders <- MCOrders
    Side <- MCSide
    Ordered <- MCOrdered
    Opening = 1
    Statuses <- MCStatuses
    Reports <- MCReports
    Responses = {r1, r2}
    Contexts = {"c1", "c2"}
    OwnStates = {"PLANNED", "SUBMITTING"}
    TimeoutAnswers <- MCAnswers
    Amounts = {4}
    MaxLate = 1
    MaxTime = 2
    MaxEvents = 3
    MaxSnapshots = 2
    MaxReservations = 2
    Day = 2
SPECIFICATION MCSpec
CONSTRAINT Scenario
SYMMETRY Symmetry
INVARIANT FillIsPosted
CHECK_DEADLOCK FALSE

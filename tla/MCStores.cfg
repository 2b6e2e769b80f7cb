CONSTANTS
    Offers <- OffersDef
    Pages <- PagesDef
    Captures <- CapturesDef
    Mapping <- MappingDef
    Exchange <- ExchangeDef
    Contracts <- ContractsDef
    MaxStarts = 2
    MaxFaults = 1
    Periods = {1, 2}
    Ids = {1, 2, 3}
    Sources = {1}
    RawIds = {9}
    MaxClock = 3
SPECIFICATION Spec
CONSTRAINT Scenario
INVARIANTS ClaimsHoldForLineage DamageIsFound OneValueInForce
PROPERTY OneLastingAnswer
CHECK_DEADLOCK FALSE

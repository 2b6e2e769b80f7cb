CONSTANTS
    p1 = p1
    p2 = p2
    Procs = {p1, p2}
    Runtimes = {"t1","t2"}
    Intents = {"i"}
    Payloads <- MCPayloads
    Books <- MCBooks
    Policies <- MCPolicies
    MaxTime = 1
    MaxSnaps = 2
    MaxRuns = 2
SPECIFICATION MCSpec
CONSTRAINT Scenario
INVARIANTS EvidenceNotOlder IntentIsCovered CleanMeansAgreement
CHECK_DEADLOCK FALSE

CONSTANTS
    r0 = r0  r1 = r1  r2 = r2  p1 = p1  s1 = s1  s2 = s2  d1 = d1
    x1 = x1  x2 = x2  x3 = x3  v1 = v1  v2 = v2
    t1 = t1  t2 = t2  t3 = t3  t4 = t4
    ok1 = ok1  ok2 = ok2  block1 = block1  ok3 = ok3  ok4 = ok4
    a1 = a1  i1 = i1  i2 = i2  live = live  paper = paper  m1 = m1  m2 = m2  e0 = e0
    Runs = {r0, r1, r2}
    AsOf <- MCAsOf
    Cutoff <- MCCutoff
    Policies = {p1}
    PolicyFrom <- MCPolicyFrom
    PolicyTo <- MCPolicyTo
    Snapshots = {s1, s2}
    SnapshotRun <- MCSnapshotRun
    SnapshotRaw <- MCSnapshotRaw
    Manifests = {d1}
    ManifestRun <- MCManifestRun
    Expectations = {x1, x2, x3}
    ExpectationRun <- MCExpectationRun
    ExpectationAuthority <- MCExpectationAuthority
    ExpectationPriced <- MCExpectationPriced
    RiskModels = {v1, v2}
    RiskModelRun <- MCRiskModelRun
    Targets = {t1, t2, t3, t4}
    TargetExpectation <- MCTargetExpectation
    TargetRiskModel <- MCTargetRiskModel
    Decisions = {ok1, ok2, block1, ok3, ok4}
    DecisionTarget <- MCDecisionTarget
    DecisionAction <- MCDecisionAction
    Authorities = {a1}
    Applicable <- MCApplicable
    IntentIds = {i1, i2}
    Kernels = {"k1", "k2"}
    Adapters = {live, paper}
    RuntimeOf <- MCRuntimeOf
    Workers = {"w1", "w2"}
    MaxTime = 2
    Models = {m1, m2}
    Scopes = {"EXPECTED_RETURN"}
    ApprovedScope <- MCApprovedScope
    ValidFrom <- MCValidFrom
    ReviewBy <- MCReviewBy
    EvidenceIds = {e0}
    Past <- MCPast
    Moves <- MCMoves
    Publishers = {"p"}
    Binders = {"p", "b"}
    MaxReviews = 5
    MaxEdits = 6
    MaxSnapshots = 2
    MaxCalculations = 1
    Policy <- ThePolicy
    Rules <- TheRules
    Markets <- TheMarkets
    Drafts <- TheDrafts
    Payload <- ThePayload
    Names = {1, 2}
    Legacy <- TheLegacy
    FirstDay = 1000
    LastDay = 1003
SPECIFICATION MCSpec
CONSTRAINT Scenario
INVARIANTS IntentIsAuthorized EvaluationIsOneLineage HistoryIsReplayable CalculationsWarranted TokensStayValid HonestDossierPasses BuyIsSupported
PROPERTY LatestVerdictWins
CHECK_DEADLOCK FALSE

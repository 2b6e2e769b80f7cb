---------------------------- MODULE FocusedDossier -----------------------------
(***************************************************************************)
(* A focused-research dossier (toss_trading/research/variant_perception.py): *)
(* what the builder demands of an analyst's payload, the figures it derives *)
(* and the validator that derives them again before the dossier may support *)
(* a recommendation.                                                        *)
(*                                                                         *)
(* Data.  Texts, names and units are left out.  A date is a number of days. *)
(* A percentage of the financial model counts in Pct-ths and every result  *)
(* is kept multiplied by the power of Pct that makes it an integer; a ratio *)
(* is compared by cross-multiplication.  src is a set of source ids.  A    *)
(* list is the set of its entries wherever the code sorts it by a unique   *)
(* key; the open interest has its order in the payload beside it (listed). *)
(***************************************************************************)
EXTENDS Integers, Sequences, FiniteSets, FiniteSetsExt, Functions

CONSTANTS Policy     \* config/focused_research_policy.json

Pct == 4

Unique(S) == \A a, b \in S : a.id = b.id => a = b
Magnitude(x) == IF x < 0 THEN -x ELSE x
ScenarioNames == {"bear", "base", "bull"}

(* The policy the validator has written into its code.                     *)
Standard ==
    [metrics |-> 4, eventMetrics |-> 2, windowMin |-> 20, windowMax |-> 45,
     materialRevision |-> 1, materialMove |-> 1,
     external |-> 3, roles |-> 2, supporting |-> 3, counter |-> 1, relationships |-> 3,
     topics |-> 3, questions |-> 2, commitments |-> 2, quarters |-> 8, bias |-> 2,
     holders |-> 5, beneficial |-> 1, form4 |-> 2, etfs |-> 2, term |-> 3,
     ivHistory |-> 252, realized |-> 22, openInterest |-> 6, crush |-> 4]

(* load_focused_research_policy: the bounds on what a policy may relax.    *)
PolicyLoads(p) ==
    /\ p.chains \in 1 .. 10 /\ p.organizations \in 2 .. 20
    /\ p.sourceAge \in 1 .. 730 /\ p.consensusAge \in 1 .. 180
    /\ p.dossierAge \in 1 .. 90 /\ p.horizon \in 1 .. 1095
    /\ p.pillars \in 2 .. 10 /\ p.risks \in 1 .. 20 /\ p.contrary \in 1 .. 20
    /\ p.drivers \in 1 .. 20 /\ p.sensitivities \in 1 .. 20
    /\ p.external \in 2 .. 20 /\ p.roles \in 2 .. 4 /\ p.supporting \in 2 .. 20
    /\ p.counter \in 1 .. 20 /\ p.relationships \in 2 .. 50
    /\ p.topics \in 2 .. 20 /\ p.questions \in 1 .. 20 /\ p.commitments \in 1 .. 20
    /\ p.quarters = 8 /\ p.metrics \in 4 .. 10 /\ p.eventMetrics \in 2 .. 10
    /\ p.windowMin \in 1 .. 90 /\ p.windowMax \in 1 .. 180
    /\ p.holders \in 3 .. 50 /\ p.beneficial \in 1 .. 50 /\ p.form4 \in 1 .. 100
    /\ p.etfs \in 1 .. 50 /\ p.term \in 2 .. 20 /\ p.ivHistory \in 60 .. 1000
    /\ p.realized \in 10 .. 253 /\ p.openInterest \in 4 .. 500 /\ p.crush \in 2 .. 20
    /\ p.priceError \in 1 .. 5 /\ p.categories # {} /\ p.sourceTypes # {}
    /\ 0 < p.weights[1] /\ p.weights[1] <= p.weights[2] /\ p.weights[2] <= p.weights[3]
    /\ p.weights[3] <= 250 /\ p.eventWeight \in 1 .. p.weights[3]
    /\ p.rewardToRisk \in 1 .. 100 /\ p.shock \in 1 .. Pct /\ p.bias \in 1 .. 25
    /\ p.materialRevision \in 1 .. 25 /\ p.materialMove \in 1 .. 25
    /\ p.windowMin <= p.windowMax /\ p.supporting <= p.external

ASSUME PolicyAssumption == PolicyLoads(Policy)

-----------------------------------------------------------------------------
(* _source_registry: no source from the future, none stale, enough of      *)
(* distinct organizations.                                                 *)
SourcesOk(sources, asOf) ==
    /\ sources # {} /\ Unique(sources)
    /\ \A s \in sources :
        /\ s.type \in Policy.sourceTypes
        /\ s.seen <= asOf
        /\ asOf - s.seen <= (IF s.type = "consensus_dataset" THEN Policy.consensusAge
                             ELSE Policy.sourceAge)
    /\ Cardinality({s.org : s \in sources}) >= Policy.organizations

(* _source_ids, and the closures that ask for a type or for a source       *)
(* observed on the day the figure is stated for.                           *)
Sourced(src, registry) == src # {} /\ src \subseteq {s.id : s \in registry}
Cited(src, registry) == {s \in registry : s.id \in src}
Typed(src, registry, type) ==
    Sourced(src, registry) /\ \E s \in Cited(src, registry) : s.type = type
Dated(src, registry, type, day) ==
    Sourced(src, registry) /\ \E s \in Cited(src, registry) : s.type = type /\ s.seen = day

PrimaryTypes ==
    {"company_filing", "company_guidance", "earnings_transcript", "regulatory_filing"}

-----------------------------------------------------------------------------
(* _driver_scenario: the drivers of revenue.                               *)
DriversOk(s, registry) ==
    /\ s.probability \in 1 .. 99
    /\ Cardinality(s.drivers) \in Policy.drivers .. 20 /\ Unique(s.drivers)
    /\ \A d \in s.drivers :
        /\ d.value > 0 /\ d.conversion > 0
        /\ d.share \in 1 .. Pct /\ d.timing \in 1 .. Pct /\ d.margin \in 1 .. Pct
        /\ Sourced(d.src, registry)

(* Operating expenses, the lines below and the cash flow.                  *)
BridgeInputsOk(s, registry) ==
    /\ s.fixed >= 0 /\ s.variable \in 0 .. Pct
    /\ s.tax \in 0 .. Pct /\ s.shares > 0
    /\ s.da >= 0 /\ s.sbc >= 0 /\ s.maintenance >= 0 /\ s.growth >= 0
    /\ Sourced(s.src, registry)

(* The bridge from the invested capital of the prior period to this one's. *)
CalculatedEnding(s) ==
    s.prior.capital + s.maintenance + s.growth - s.da + s.nwc + s.acquired + s.otherCapital

CapitalOk(s) ==
    /\ s.months \in 1 .. 60 /\ s.lag \in 0 .. 120
    /\ s.prior.revenue > 0 /\ s.hurdle \in 1 .. Pct \div 2 /\ s.acquired >= 0
    /\ s.prior.capital > 0 /\ s.ending > s.prior.capital
    /\ s.ending = CalculatedEnding(s)

(* _calculate_driver_scenario: from the drivers to earnings, cash flow and *)
(* the return on the capital added.                                        *)
Revenue(d) == d.value * d.share * d.conversion * d.timing
TotalRevenue(drivers) == SumFunction([d \in drivers |-> Revenue(d)])
GrossProfit(drivers) == SumFunction([d \in drivers |-> Revenue(d) * d.margin])
OperatingIncome(s, drivers) ==
    GrossProfit(drivers) - s.fixed * Pct^3 - TotalRevenue(drivers) * s.variable
NetIncome(s, income) == (income - (s.interest - s.other) * Pct^3) * (Pct - s.tax)
CashFlow(s, net) == net + (s.da + s.sbc - s.nwc + s.otherCash) * Pct^4
AddedNopat(s, income) == (income - s.prior.income * Pct^3) * (Pct - s.tax)
Calculated(s, drivers) ==
    LET income == OperatingIncome(s, drivers)
    IN  [revenue |-> TotalRevenue(drivers),
         income |-> income,
         net |-> NetIncome(s, income),
         operating |-> CashFlow(s, NetIncome(s, income)),
         free |-> CashFlow(s, NetIncome(s, income)) - (s.maintenance + s.growth) * Pct^4,
         nopat |-> AddedNopat(s, income),
         economicProfit |-> AddedNopat(s, income)
                              - (s.ending - s.prior.capital) * s.hurdle * Pct^3]

Economics(calculated) ==
    IF calculated.nopat <= 0 THEN "negative_incremental_nopat"
    ELSE IF calculated.economicProfit > 0 THEN "value_creating_above_hurdle"
    ELSE "positive_but_below_hurdle"

(* The scenario as it is stored: inputs, driver revenues and results.      *)
BuiltScenario(s) ==
    [input |-> s,
     revenues |-> [d \in s.drivers |-> Revenue(d)],
     results |-> Calculated(s, s.drivers),
     economics |-> Economics(Calculated(s, s.drivers)),
     ending |-> CalculatedEnding(s)]

LessEps(s, t) ==
    Calculated(s, s.drivers).net * t.shares < Calculated(t, t.drivers).net * s.shares

(* _earnings_model: three scenarios over the same drivers.                 *)
ScenariosOk(e, registry) ==
    /\ e.implied > 0 /\ e.consensus > 0
    /\ Typed(e.impliedSrc, registry, "market_price")
    /\ Typed(e.consensusSrc, registry, "consensus_dataset")
    /\ DOMAIN e.scenarios = ScenarioNames
    /\ \A n \in ScenarioNames :
        /\ DriversOk(e.scenarios[n], registry) /\ BridgeInputsOk(e.scenarios[n], registry)
        /\ CapitalOk(e.scenarios[n])
        /\ Calculated(e.scenarios[n], e.scenarios[n].drivers).revenue > 0
        /\ Calculated(e.scenarios[n], e.scenarios[n].drivers).net > 0
    /\ SumFunction([n \in ScenarioNames |-> e.scenarios[n].probability]) = 100
    /\ LessEps(e.scenarios.bear, e.scenarios.base) /\ LessEps(e.scenarios.base, e.scenarios.bull)
    /\ \A m, n \in ScenarioNames :
        {d.id : d \in e.scenarios[m].drivers} = {d.id : d \in e.scenarios[n].drivers}

(* The base scenario with some drivers shocked (driver values are taken to *)
(* be multiples of Pct).                                                   *)
Shocked(drivers, shocks) ==
    {IF d.id \in DOMAIN shocks THEN [d EXCEPT !.value = (@ * (Pct + shocks[d.id])) \div Pct]
     ELSE d : d \in drivers}

SensitivitiesOk(e, registry) ==
    /\ Cardinality(e.sensitivities) \in Policy.sensitivities .. 20 /\ Unique(e.sensitivities)
    /\ \A c \in e.sensitivities :
        /\ DOMAIN c.shocks # {}
        /\ DOMAIN c.shocks \subseteq {d.id : d \in e.scenarios.base.drivers}
        /\ \A d \in DOMAIN c.shocks : c.shocks[d] # 0 /\ Magnitude(c.shocks[d]) <= Policy.shock
        /\ Sourced(c.src, registry)

BuiltSensitivity(e, c) ==
    [id |-> c.id, shocks |-> c.shocks,
     base |-> Calculated(e.scenarios.base, e.scenarios.base.drivers),
     shocked |-> Calculated(e.scenarios.base, Shocked(e.scenarios.base.drivers, c.shocks))]

BuiltEarnings(e) ==
    [scenarios |-> [n \in ScenarioNames |-> BuiltScenario(e.scenarios[n])],
     sensitivities |-> {BuiltSensitivity(e, c) : c \in e.sensitivities}]

-----------------------------------------------------------------------------
(* _earnings_quality: two periods, their balance sheet and bridge.         *)
PeriodOk(b) ==
    /\ b.revenue > 0 /\ b.receivables >= 0 /\ b.inventory >= 0
    /\ b.contract >= 0 /\ b.deferred >= 0
    /\ b.assets > 0 /\ b.depreciation >= 0 /\ b.capex > 0
    /\ b.shares > 0 /\ b.buyback >= 0 /\ b.tax \in 0 .. Pct

QualityInputsOk(q, registry) ==
    /\ q.priorPeriod # q.currentPeriod
    /\ PeriodOk(q.prior) /\ PeriodOk(q.current)
    /\ Sourced(q.src, registry)

AdjustmentIds ==
    {"stock_based_compensation", "restructuring", "acquisition_adjustment",
     "tax_benefit", "one_off_gain"}

(* Every adjustment once, its signs by its kind.                           *)
AdjustmentsOk(q, registry) ==
    /\ Unique(q.adjustments)
    /\ {a.id : a \in q.adjustments} = AdjustmentIds
    /\ \A a \in q.adjustments :
        /\ a.location \in {"operating", "non_operating", "tax"}
        /\ a.location = "tax" => a.prior.pretax = 0 /\ a.current.pretax = 0
        /\ a.id = "stock_based_compensation" =>
             \A p \in {a.prior, a.current} : p.pretax <= 0 /\ p.net <= 0
        /\ a.id = "tax_benefit" => a.prior.net >= 0 /\ a.current.net >= 0
        /\ a.id = "one_off_gain" =>
             \A p \in {a.prior, a.current} : p.pretax >= 0 /\ p.net >= 0
        /\ Sourced(a.src, registry)

Pretax(q, period, locations) ==
    SumFunction([a \in {x \in q.adjustments : x.location \in locations} |-> a[period].pretax])
AfterTax(q, period) == SumFunction([a \in q.adjustments |-> a[period].net])
CorePretax(b) == b.income + b.recurring
CoreNet(b) == CorePretax(b) * (Pct - b.tax)

(* The reported figures are those the core figures and the adjustments     *)
(* give; reported net income counts in Pct-ths, earnings per share follow  *)
(* from it and are given as a numerator over the diluted shares.           *)
Reconciles(q, period) ==
    LET b == q[period]
    IN  /\ b.gaapIncome = b.income + Pretax(q, period, {"operating"})
        /\ b.gaapPretax = CorePretax(b) + Pretax(q, period, {"operating", "non_operating"})
        /\ b.gaapNet = CoreNet(b) + AfterTax(q, period) * Pct
        /\ b.coreNet = CoreNet(b)

(* The growth of earnings per share told apart by driver.  Everything is   *)
(* over the prior net income times the current shares, with and without    *)
(* the shares bought back.                                                 *)
SharesWithoutBuyback(b) == b.shares + b.buyback
OperatingTerms(p, c) ==
    (c.income - p.income) * (Pct - p.tax) + (c.recurring - p.recurring) * (Pct - p.tax)
    + CorePretax(c) * (p.tax - c.tax)

AdjustmentTerms(q) == (AfterTax(q, "current") - AfterTax(q, "prior")) * Pct
BuybackTerm(p, c) == c.gaapNet * p.shares * c.buyback
ShareTerm(p, c) == c.gaapNet * (p.shares - c.shares) * SharesWithoutBuyback(c)
Attributed(q) ==
    LET p == q.prior  c == q.current
    IN  (OperatingTerms(p, c) + AdjustmentTerms(q)) * c.shares * SharesWithoutBuyback(c)
        + BuybackTerm(p, c) + (ShareTerm(p, c) - BuybackTerm(p, c))
EpsGrowth(q) ==
    (q.current.gaapNet * q.prior.shares - q.prior.gaapNet * q.current.shares)
        * SharesWithoutBuyback(q.current)

(* The growth is attributed only when the prior earnings are not zero.     *)
AttributionOk(q) == q.prior.gaapNet # 0 => Attributed(q) = EpsGrowth(q)

QualityOk(q, registry) ==
    /\ QualityInputsOk(q, registry) /\ AdjustmentsOk(q, registry)
    /\ Reconciles(q, "prior") /\ Reconciles(q, "current")
    /\ AttributionOk(q)

(* The directional diagnostics: growth against that of revenue, cash       *)
(* conversion against net income, accruals.                                *)
Against(value, reference) ==
    IF value > reference THEN "above" ELSE IF value < reference THEN "below" ELSE "in_line"
GrowthAgainstRevenue(q, field) ==
    IF q.prior[field] = 0 THEN "not_meaningful"
    ELSE Against(q.current[field] * q.prior.revenue, q.prior[field] * q.current.revenue)
BuiltQuality(q) ==
    [input |-> q,
     attribution |-> IF q.prior.gaapNet # 0 THEN "reconciled"
                     ELSE "not_meaningful_prior_eps_zero",
     growth |-> [field \in {"receivables", "inventory", "contract", "deferred"} |->
                    GrowthAgainstRevenue(q, field)],
     conversion |-> IF q.current.gaapNet = 0 THEN "not_meaningful"
                    ELSE IF q.current.gaapNet > 0
                         THEN Against(q.current.cash * Pct, q.current.gaapNet)
                         ELSE Against(q.current.gaapNet, q.current.cash * Pct),
     accruals |-> Against(q.current.gaapNet, q.current.cash * Pct)]

-----------------------------------------------------------------------------
(* _supply_chain_read_through: the companies, one of them the subject.     *)
Subject(c) == CHOOSE e \in c.entities : e.role = "subject_company"
External(c) == {e \in c.entities : e.role # "subject_company"}
Entity(c, id) == CHOOSE e \in c.entities : e.id = id

EntitiesOk(c, symbol, registry, p) ==
    /\ c.expected \in {"increase", "decrease"}
    /\ Cardinality(c.entities) \in p.external + 1 .. 30 /\ Unique(c.entities)
    /\ \A e \in c.entities :
        /\ e.role \in {"subject_company", "customer", "supplier", "competitor", "industry_peer"}
        /\ e.org \in {s.org : s \in registry}
    /\ Cardinality({e \in c.entities : e.role = "subject_company"}) = 1
    /\ Subject(c).identifier = symbol
    /\ Cardinality(External(c)) >= p.external
    /\ Cardinality({e.role : e \in External(c)}) >= p.roles

(* Every relationship runs from a company of its role to the subject, so   *)
(* a company is connected when a relationship names it.                    *)
RoleOf(type) ==
    CASE type = "customer_of" -> "customer" [] type = "supplier_to" -> "supplier"
      [] type = "competes_with" -> "competitor" [] type = "peer_of" -> "industry_peer"
RelationshipsOk(c, registry, p) ==
    /\ Cardinality(c.relationships) \in p.relationships .. 60 /\ Unique(c.relationships)
    /\ \A r \in c.relationships :
        /\ {r.from, r.to} \subseteq {e.id : e \in c.entities}
        /\ r.type \in {"customer_of", "supplier_to", "competes_with", "peer_of"}
        /\ Entity(c, r.from).role = RoleOf(r.type)
        /\ r.to = Subject(c).id
        /\ r.lag \in 0 .. 60
        /\ Sourced(r.src, registry)
    /\ {e.id : e \in External(c)} = {r.from : r \in c.relationships}

Classification(c, g) ==
    IF g.subject = c.expected THEN "supporting"
    ELSE IF g.subject \in {"increase", "decrease"} THEN "contradicting" ELSE "inconclusive"
ReportedDirection(g) ==
    IF g.current > g.prior THEN "increase" ELSE IF g.current < g.prior THEN "decrease" ELSE "flat"
Primary(c, g, registry) ==
    {s \in Cited(g.src, registry) : s.org = Entity(c, g.entity).org /\ s.type \in PrimaryTypes}

(* A signal comes from its company's own primary source; the subject's own *)
(* signal points where its figures do.                                     *)
SignalOk(c, g, registry) ==
    /\ g.entity \in {e.id : e \in c.entities}
    /\ g.relationships # {} /\ g.relationships \subseteq {r.id : r \in c.relationships}
    /\ \E r \in c.relationships : r.id \in g.relationships /\ g.entity \in {r.from, r.to}
    /\ g.subject \in {"increase", "decrease", "flat", "mixed"}
    /\ g.entity = Subject(c).id => g.subject = ReportedDirection(g)
    /\ Sourced(g.src, registry)
    /\ Primary(c, g, registry) # {}

ExternalSignals(c) == {g \in c.signals : g.entity # Subject(c).id}
SignalsOk(c, registry, p) ==
    /\ Cardinality(c.signals) \in p.external + 1 .. 100 /\ Unique(c.signals)
    /\ \A g \in c.signals : SignalOk(c, g, registry)
    /\ {e.id : e \in c.entities} = {g.entity : g \in c.signals}
    /\ Cardinality({Entity(c, g.entity).org : g \in ExternalSignals(c)}) >= p.external
    /\ Cardinality({g \in ExternalSignals(c) : Classification(c, g) = "contradicting"})
         >= p.counter

(* A bug: signals are counted, not the companies they come from.           *)
ConfirmationBySignals(c, p) ==
    LET supporting == {g \in ExternalSignals(c) : Classification(c, g) = "supporting"}
        contradicting == {g \in ExternalSignals(c) : Classification(c, g) = "contradicting"}
    IN  [confirmed |-> Cardinality(supporting) >= p.supporting,
         contradicted |-> contradicting # {},
         supporting |-> {g.entity : g \in supporting}]

(* Confirmed: enough companies, of enough organizations, point the way the *)
(* hypothesis does.                                                        *)
Confirmation(c, p) ==
    LET supporting == {g.entity : g \in {h \in ExternalSignals(c) :
                                            Classification(c, h) = "supporting"}}
        contradicting == {g \in ExternalSignals(c) : Classification(c, g) = "contradicting"}
    IN  [confirmed |-> /\ Cardinality(supporting) >= p.supporting
                       /\ Cardinality({Entity(c, id).org : id \in supporting}) >= p.supporting,
         contradicted |-> contradicting # {},
         supporting |-> supporting]

SupplyOk(c, symbol, registry, p) ==
    /\ EntitiesOk(c, symbol, registry, p) /\ RelationshipsOk(c, registry, p)
    /\ SignalsOk(c, registry, p) /\ Sourced(c.src, registry)
BuiltSupply(c, p) == [input |-> c, confirmation |-> Confirmation(c, p)]

-----------------------------------------------------------------------------
(* _earnings_call_diff: a source of the subject company itself.            *)
OfSubject(src, org, types, registry) ==
    Sourced(src, registry) /\ \E s \in Cited(src, registry) : s.org = org /\ s.type \in types
LastSeen(src, registry) == Max({s.seen : s \in Cited(src, registry)})

CallOk(call, org, registry, p) ==
    /\ OfSubject(call.src, org, {"earnings_transcript"}, registry)
    /\ call.date <= LastSeen(call.src, registry)
    /\ Cardinality(DOMAIN call.topics) \in p.topics .. 60
    /\ \A t \in DOMAIN call.topics : call.topics[t].confidence \in 0 .. 4
    /\ Cardinality(DOMAIN call.questions) \in p.questions .. 60
    /\ \A t \in DOMAIN call.questions :
          call.questions[t].response \in {"answered", "partial", "evaded"}
    /\ Cardinality(DOMAIN call.guidance) \in 1 .. 30
    /\ \A m \in DOMAIN call.guidance : call.guidance[m].low <= call.guidance[m].high

Shared(f, g) == DOMAIN f \cap DOMAIN g
CallsOk(d, org, registry, p) ==
    /\ CallOk(d.prior, org, registry, p) /\ CallOk(d.current, org, registry, p)
    /\ d.prior.date < d.current.date
    /\ \A m \in Shared(d.prior.guidance, d.current.guidance) :
          d.prior.guidance[m].metric = d.current.guidance[m].metric

(* Eight quarters of guidance and outcome of one metric, in order.         *)
HistoryOk(d, org, registry, p) ==
    /\ Cardinality(d.history) = p.quarters
    /\ \A h, i \in d.history : (h.period = i.period \/ h.ends = i.ends) => h = i
    /\ \A h, i \in d.history : h.favorable = i.favorable
    /\ \A h \in d.history :
        /\ h.favorable \in {"higher", "lower"}
        /\ h.low <= h.high /\ h.low + h.high # 0
        /\ OfSubject(h.src, org, PrimaryTypes, registry)
        /\ h.ends <= LastSeen(h.src, registry)

CommitmentsOk(d, org, registry, p) ==
    /\ Cardinality(d.commitments) \in p.commitments .. 30 /\ Unique(d.commitments)
    /\ \A c \in d.commitments :
        /\ c.status \in {"met", "missed", "changed", "pending"}
        /\ OfSubject(c.src, org, PrimaryTypes, registry)
    /\ \E c \in d.commitments : c.status \in {"met", "missed"}
    /\ OfSubject(d.src, org, PrimaryTypes, registry)

(* The error of a guidance, in percent of its midpoint, counted positive   *)
(* when the outcome was better (the errors are taken to be integers).      *)
FavorableError(h) ==
    LET error == ((2 * h.actual - h.low - h.high) * 100) \div (h.low + h.high)
    IN  IF h.favorable = "higher" THEN error ELSE -error
Bias(d, p) ==
    LET total == SumFunction([h \in d.history |-> FavorableError(h)])
    IN  IF total > p.bias * Cardinality(d.history) THEN "historically_conservative"
        ELSE IF total < -(p.bias * Cardinality(d.history)) THEN "historically_aggressive"
        ELSE "historically_balanced"

ChangedTopics(d) ==
    {t \in Shared(d.prior.topics, d.current.topics) : d.prior.topics[t] # d.current.topics[t]}
Evaded(call) == {t \in DOMAIN call.questions : call.questions[t].response = "evaded"}
Width(g) == g.high - g.low
BuiltCall(d, p) ==
    [input |-> d,
     newTopics |-> DOMAIN d.current.topics \ DOMAIN d.prior.topics,
     goneTopics |-> DOMAIN d.prior.topics \ DOMAIN d.current.topics,
     changedTopics |-> ChangedTopics(d),
     newlyEvaded |-> Evaded(d.current) \ Evaded(d.prior),
     ranges |-> [m \in Shared(d.prior.guidance, d.current.guidance) |->
                   Against(Width(d.current.guidance[m]), Width(d.prior.guidance[m]))],
     bias |-> Bias(d, p)]
CallDiffOk(d, org, registry, p) ==
    CallsOk(d, org, registry, p) /\ HistoryOk(d, org, registry, p)
    /\ CommitmentsOk(d, org, registry, p)

-----------------------------------------------------------------------------
(* _positioning_analysis: two 13F snapshots, the later of a later report.  *)
SnapshotOk(h, outstanding, asOf, registry) ==
    /\ h.report <= h.snapshot /\ h.snapshot <= asOf
    /\ 0 <= h.shares /\ 4 * h.shares <= 5 * outstanding /\ h.managers >= 1
    /\ Dated(h.src, registry, "ownership_dataset", h.snapshot)

HoldersOk(o, asOf, registry, p) ==
    /\ o.outstanding > 0
    /\ SnapshotOk(o.prior13f, o.outstanding, asOf, registry)
    /\ SnapshotOk(o.current13f, o.outstanding, asOf, registry)
    /\ o.prior13f.report < o.current13f.report
    /\ Cardinality(o.holders) \in p.holders .. 50 /\ Unique(o.holders)
    /\ \A h \in o.holders :
        /\ h.style \in {"active", "passive", "strategic", "insider"}
        /\ h.shares \in 1 .. o.outstanding
        /\ Typed(h.src, registry, "ownership_dataset")
    /\ 4 * SumFunction([h \in o.holders |-> h.shares]) <= 5 * o.outstanding

(* Filings are dated by the regulator's copy of the filing day.            *)
BeneficialOk(o, asOf, registry, p) ==
    /\ Cardinality(o.beneficial) \in p.beneficial .. 50 /\ Unique(o.beneficial)
    /\ \A f \in o.beneficial :
        /\ f.event <= f.filed /\ f.filed <= asOf /\ f.percent \in 0 .. 100
        /\ Dated(f.src, registry, "regulatory_filing", f.filed)
TransactionsOk(o, asOf, registry, p) ==
    /\ Cardinality(o.form4) \in p.form4 .. 100 /\ Unique(o.form4)
    /\ \A t \in o.form4 :
        /\ t.direction \in {"acquired", "disposed"}
        /\ t.traded <= t.filed /\ t.filed <= asOf /\ t.shares > 0 /\ t.price >= 0
        /\ Dated(t.src, registry, "regulatory_filing", t.filed)
FundsOk(o, asOf, registry, p) ==
    /\ Cardinality(o.funds) \in p.etfs .. 50 /\ Unique(o.funds)
    /\ \A f \in o.funds :
        /\ f.snapshot <= asOf /\ f.shares \in 1 .. o.outstanding
        /\ Dated(f.src, registry, "etf_holdings_dataset", f.snapshot)

InterestOk(s, asOf, registry) ==
    /\ s.settled <= s.published /\ s.published <= asOf
    /\ s.short >= 0 /\ s.float > 0 /\ s.short <= 2 * s.float /\ s.volume > 0
    /\ Dated(s.src, registry, "short_interest_dataset", s.published)

(* Short interest, short-sale volume, which is something else, and the     *)
(* cost of borrowing, which may be unknown.                                *)
ShortOk(s, asOf, registry) ==
    /\ InterestOk(s.prior, asOf, registry) /\ InterestOk(s.current, asOf, registry)
    /\ s.prior.settled < s.current.settled
    /\ s.window.start <= s.window.end /\ s.window.end <= asOf
    /\ 0 <= s.window.short /\ s.window.short <= s.window.total /\ s.window.total > 0
    /\ Dated(s.window.src, registry, "short_sale_volume_dataset", s.window.end)
    /\ \/ s.borrow.state = "unavailable"
       \/ /\ s.borrow.state = "available"
          /\ s.borrow.date <= asOf /\ s.borrow.shares >= 0
          /\ Dated(s.borrow.src, registry, "securities_lending_dataset", s.borrow.date)

(* The option surface of the as-of day; histories are counted.             *)
OptionsOk(o, asOf, price, registry, p) ==
    /\ o.date = asOf /\ o.spot = price
    /\ Dated(o.src, registry, "options_market_dataset", o.date)
    /\ Cardinality(o.term) \in p.term .. 20
    /\ \A x, y \in o.term : x.expiry = y.expiry => x = y
    /\ \A x \in o.term : x.expiry > asOf /\ x.iv > 0
    /\ o.ivHistory.observations \in p.ivHistory .. 1000
    /\ o.prices.observations \in p.realized .. 253 /\ o.prices.last = price

OpenInterestOk(o, asOf, p) ==
    /\ Cardinality(o.openInterest) \in p.openInterest .. 500
    /\ \A x \in o.openInterest : x.expiry > asOf /\ x.strike > 0 /\ x.contracts >= 0
    /\ \A x, y \in o.openInterest :
         (x.expiry = y.expiry /\ x.strike = y.strike /\ x.right = y.right) => x = y
    /\ SumFunction([x \in o.openInterest |-> x.contracts]) > 0
EventsOk(o, asOf, registry, p) ==
    /\ asOf <= o.move.event /\ o.move.event <= o.move.expiry
    /\ o.move.call >= 0 /\ o.move.put >= 0
    /\ Cardinality(o.crush) \in p.crush .. 20
    /\ \A x, y \in o.crush : x.event = y.event => x = y
    /\ \A x \in o.crush :
         x.event <= asOf /\ x.before > 0 /\ x.after > 0
         /\ Typed(x.src, registry, "options_market_dataset")
FuturesOk(m, asOf, registry) ==
    \/ m.applicability = "not_applicable" /\ m.positions = {}
    \/ /\ m.applicability = "context_only" /\ m.positions # {}
       /\ \A x \in m.positions : x.report <= asOf /\ Typed(x.src, registry, "cftc_dataset")
       /\ Typed(m.src, registry, "cftc_dataset")

PositioningOk(a, asOf, price, registry, p) ==
    /\ HoldersOk(a.ownership, asOf, registry, p)
    /\ BeneficialOk(a.ownership, asOf, registry, p)
    /\ TransactionsOk(a.ownership, asOf, registry, p) /\ FundsOk(a.ownership, asOf, registry, p)
    /\ ShortOk(a.short, asOf, registry)
    /\ OptionsOk(a.options, asOf, price, registry, p) /\ OpenInterestOk(a.options, asOf, p)
    /\ EventsOk(a.options, asOf, registry, p) /\ FuturesOk(a.futures, asOf, registry)
    /\ Sourced(a.src, registry)

BuiltOwnership(o) ==
    [managers |-> o.current13f.managers - o.prior13f.managers,
     institutional |-> o.current13f.shares - o.prior13f.shares,
     lag |-> o.current13f.snapshot - o.current13f.report,
     passive |-> SumFunction([h \in {x \in o.holders : x.style = "passive"} |-> h.shares]),
     insiders |-> SumFunction([t \in o.form4 |-> IF t.direction = "acquired" THEN t.shares
                                                  ELSE -t.shares]),
     funds |-> SumFunction([f \in o.funds |-> f.shares])]

(* The concentrations of open interest: the largest rows first, then by    *)
(* expiry and strike, and as they were listed when all that is equal.      *)
Larger(x, y) ==
    \/ x.contracts > y.contracts
    \/ /\ x.contracts = y.contracts
       /\ x.expiry < y.expiry \/ (x.expiry = y.expiry /\ x.strike < y.strike)
Tied(x, y) == <<x.contracts, x.expiry, x.strike>> = <<y.contracts, y.expiry, y.strike>>

(* A bug: rows of the same size stay as they were listed.                  *)
AheadBySize(x, y, listed) ==
    x.contracts > y.contracts \/ (x.contracts = y.contracts /\ <<x, y>> \in listed)

Ahead(x, y, listed) == Larger(x, y) \/ (Tied(x, y) /\ <<x, y>> \in listed)
TopConcentrations(rows, listed) ==
    LET top == {x \in rows : Cardinality({y \in rows : Ahead(y, x, listed)}) < 10}
    IN  {p \in top \X top : Ahead(p[1], p[2], listed)}

(* The order in which the dossier lists the rows.                          *)
Earlier(x, y) ==
    \/ x.expiry < y.expiry
    \/ x.expiry = y.expiry /\ x.strike < y.strike
    \/ <<x.expiry, x.strike>> = <<y.expiry, y.strike>> /\ x.right = "call" /\ y.right = "put"
AsStored(rows) == {p \in rows \X rows : Earlier(p[1], p[2])}

Nearest(o) == CHOOSE x \in o.term : \A y \in o.term : x.expiry <= y.expiry
BuiltOptions(o, listed) ==
    [iv |-> Nearest(o).iv,
     percentile |-> <<o.ivHistory.below, o.ivHistory.observations>>,
     interest |-> SumFunction([x \in o.openInterest |-> x.contracts]),
     calls |-> SumFunction([c \in {x \in o.openInterest : x.right = "call"} |-> c.contracts]),
     top |-> TopConcentrations(o.openInterest, listed),
     expiries |-> [e \in {x.expiry : x \in o.openInterest} |->
         SumFunction([y \in {x \in o.openInterest : x.expiry = e} |-> y.contracts])],
     straddle |-> o.move.call + o.move.put,
     crush |-> {[event |-> x.event, points |-> x.before - x.after] : x \in o.crush}]
BuiltPositioning(a, listed) ==
    [input |-> a, ownership |-> BuiltOwnership(a.ownership),
     shortChange |-> a.short.current.short - a.short.prior.short,
     options |-> BuiltOptions(a.options, listed)]

-----------------------------------------------------------------------------
(* _estimate_revision_analysis: the consensus of two days, each backed by  *)
(* a source observed on its day.                                           *)
ConsensusOk(c, asOf, registry) ==
    c.date <= asOf /\ c.analysts \in 1 .. 500
    /\ Dated(c.src, registry, "consensus_dataset", c.date)

MetricTypes == {"fy1_eps", "fy2_eps", "revenue", "ebitda", "free_cash_flow"}
MetricsOk(v, asOf, registry, p) ==
    /\ Cardinality(v.metrics) \in p.metrics .. 10 /\ Unique(v.metrics)
    /\ \A m \in v.metrics :
        /\ m.type \in MetricTypes
        /\ ConsensusOk(m.prior, asOf, registry) /\ ConsensusOk(m.current, asOf, registry)
        /\ m.current.date - m.prior.date \in p.windowMin .. p.windowMax
    /\ \A m, n \in v.metrics :
        /\ m.type = n.type => m = n
        /\ m.prior.date = n.prior.date /\ m.current.date = n.current.date
    /\ {"fy1_eps", "fy2_eps", "revenue"} \subseteq {m.type : m \in v.metrics}
    /\ {"ebitda", "free_cash_flow"} \cap {m.type : m \in v.metrics} # {}

Days(v) == LET m == CHOOSE n \in v.metrics : TRUE IN <<m.prior.date, m.current.date>>

TargetOk(t, day, registry) ==
    /\ t.date = day /\ t.analysts \in 2 .. 500
    /\ 0 < t.low /\ t.low <= t.p25 /\ t.p25 <= t.median /\ t.median <= t.p75
    /\ t.p75 <= t.high /\ t.mean \in t.low .. t.high
    /\ Dated(t.src, registry, "consensus_dataset", t.date)
TargetsOk(v, registry) ==
    TargetOk(v.targets.prior, Days(v)[1], registry)
    /\ TargetOk(v.targets.current, Days(v)[2], registry)

EventMetricsOk(v, asOf, registry, p) ==
    LET metrics == v.event.metrics
    IN  /\ Cardinality(metrics) \in p.eventMetrics .. 10 /\ Unique(metrics)
        /\ \A m \in metrics :
            /\ m.type \in MetricTypes
            /\ ConsensusOk(m.before, asOf, registry) /\ ConsensusOk(m.after, asOf, registry)
            /\ m.before.date < v.event.date /\ v.event.date < m.after.date
        /\ \A m, n \in metrics :
            /\ m.type = n.type => m = n
            /\ m.before.date = n.before.date /\ m.after.date = n.after.date
        /\ {"fy1_eps", "revenue"} \subseteq {m.type : m \in metrics}

(* Breadth and prices are of the same two days, the later being the as-of  *)
(* day and its price the dossier's.                                        *)
ContextOk(v, asOf, price, registry) ==
    /\ v.window = Days(v)[2] - Days(v)[1]
    /\ <<v.breadth.start, v.breadth.end>> = Days(v)
    /\ v.breadth.raised >= 0 /\ v.breadth.lowered >= 0 /\ v.breadth.unchanged >= 0
    /\ v.breadth.raised + v.breadth.lowered + v.breadth.unchanged > 0
    /\ Dated(v.breadth.src, registry, "consensus_dataset", v.breadth.end)
    /\ <<v.price.before, v.price.now>> = Days(v) /\ v.price.now = asOf
    /\ v.price.prior > 0 /\ v.price.current = price
    /\ \A day \in {v.price.before, v.price.now} :
          Dated(v.price.src, registry, "market_price", day)

RevisionOk(v, asOf, price, registry, p) ==
    /\ MetricsOk(v, asOf, registry, p) /\ TargetsOk(v, registry)
    /\ EventMetricsOk(v, asOf, registry, p) /\ ContextOk(v, asOf, price, registry)
    /\ Sourced(v.src, registry)

(* A change is material from the policy's percentage on; a consensus that  *)
(* changes sign has no percentage.                                         *)
Direction(change, base, threshold) ==
    IF 100 * Magnitude(change) < threshold * Magnitude(base) THEN "flat"
    ELSE IF change > 0 THEN "up" ELSE "down"
EstimateDirection(v, p) ==
    LET m == CHOOSE n \in v.metrics : n.type = "fy1_eps"
    IN  IF m.prior.value * m.current.value <= 0 THEN "flat"
        ELSE Direction(m.current.value - m.prior.value, m.prior.value, p.materialRevision)
PriceDirection(v, p) ==
    Direction(v.price.current - v.price.prior, v.price.prior, p.materialMove)
Divergence(v, p) ==
    CASE <<EstimateDirection(v, p), PriceDirection(v, p)>> = <<"up", "down">> ->
             "positive_revision_price_decline"
      [] <<EstimateDirection(v, p), PriceDirection(v, p)>> = <<"down", "up">> ->
             "negative_revision_price_rally"
      [] <<EstimateDirection(v, p), PriceDirection(v, p)>> = <<"up", "up">> ->
             "positive_revision_price_confirmation"
      [] <<EstimateDirection(v, p), PriceDirection(v, p)>> = <<"down", "down">> ->
             "negative_revision_price_confirmation"
      [] OTHER -> "no_material_joint_signal"
BuiltRevision(v, p) ==
    [input |-> v, divergence |-> Divergence(v, p),
     median |-> v.targets.current.median - v.targets.prior.median,
     dispersion |-> (v.targets.current.high - v.targets.current.low)
                      - (v.targets.prior.high - v.targets.prior.low),
     breadth |-> v.breadth.raised - v.breadth.lowered]

-----------------------------------------------------------------------------
(* _valuation: a price per scenario, as likely as the earnings scenario.    *)
ValuationOk(cases, scenarios, registry) ==
    /\ DOMAIN cases = ScenarioNames
    /\ \A n \in ScenarioNames :
        /\ cases[n].price > 0
        /\ cases[n].probability = scenarios[n].probability
        /\ Sourced(cases[n].src, registry)
    /\ SumFunction([n \in ScenarioNames |-> cases[n].probability]) = 100
    /\ cases.bear.price < cases.base.price /\ cases.base.price < cases.bull.price

(* Returns are given as differences of prices, the weighted one in percent *)
(* of a difference.  The ratio of reward to risk exists when the bear case *)
(* is a loss.                                                              *)
Weighted(cases) == SumFunction([n \in ScenarioNames |-> cases[n].probability * cases[n].price])
WeightedReturn(cases, price) == Weighted(cases) - 100 * price
RewardSuffices(cases, price, tenths) ==
    /\ cases.bear.price < price
    /\ 10 * (cases.base.price - price) >= tenths * (price - cases.bear.price)
BuiltValuation(cases, price) ==
    [cases |-> cases, weighted |-> WeightedReturn(cases, price),
     reward |-> IF cases.bear.price < price
                THEN <<cases.base.price - price, price - cases.bear.price>> ELSE <<>>]

(* _risk_evidence and _position_construction; weights count in tenths of a *)
(* percent.                                                                *)
RisksOk(r, registry) ==
    /\ Cardinality(r.risks) >= Policy.risks /\ Unique(r.risks)
    /\ Cardinality(r.contrary) >= Policy.contrary /\ Unique(r.contrary)
    /\ \A x \in r.risks \cup r.contrary : Sourced(x.src, registry)

PositionOk(w, recommendation) ==
    /\ IF recommendation = "buy"
       THEN 0 < w.initial /\ w.initial <= w.target /\ w.target <= w.maximum
       ELSE w.initial = 0 /\ w.target = 0 /\ w.maximum = 0 /\ w.event = 0
    /\ w.initial <= Policy.weights[1] /\ w.target <= Policy.weights[2]
    /\ w.maximum <= Policy.weights[3]
    /\ w.event <= w.maximum /\ w.event <= Policy.eventWeight
    /\ 0 < w.entry[1] /\ w.entry[1] <= w.entry[2]
    /\ w.budget \in 0 .. 1000 /\ (recommendation = "buy" => w.budget > 0)

-----------------------------------------------------------------------------
(* build_focused_research_dossier: the heading, the catalysts and the      *)
(* chains from the consensus over what the price implies to the house view.*)
HeadingOk(x) ==
    /\ x.price > 0 /\ SourcesOk(x.sources, x.asOf)
    /\ Typed(x.priceSrc, x.sources, "market_price")
    /\ x.recommendation \in {"buy", "watch", "avoid", "no_view"}
    /\ x.horizon \in 1 .. 60 /\ x.pillars \in Policy.pillars .. 8
    /\ x.conviction \in 0 .. 100
CatalystsOk(x) ==
    /\ x.catalysts # {} /\ Unique(x.catalysts)
    /\ \A c \in x.catalysts :
        /\ x.asOf <= c.start /\ c.start <= c.end /\ c.end - x.asOf <= Policy.horizon
        /\ Sourced(c.src, x.sources)

ChainOk(c, x) ==
    /\ c.category \in Policy.categories /\ c.favorable \in {"higher", "lower"}
    /\ Typed(c.consensus.src, x.sources, "consensus_dataset")
    /\ Typed(c.implied.src, x.sources, "market_price")
    /\ c.implied.model > 0
    /\ 100 * Magnitude(c.implied.model - x.price) <= Policy.priceError * x.price
    /\ Len(c.implied.assumptions) >= 2
    /\ \A i \in DOMAIN c.implied.assumptions : Sourced(c.implied.assumptions[i], x.sources)
    /\ Sourced(c.house.src, x.sources)
    /\ c.catalysts # {} /\ c.catalysts \subseteq {k.id : k \in x.catalysts}
ChainsOk(x) ==
    /\ Cardinality(x.chains) >= Policy.chains /\ Unique(x.chains)
    /\ \A c \in x.chains : ChainOk(c, x)
    /\ Policy.categories \subseteq {c.category : c \in x.chains}

(* On which side of the price the house view is.                           *)
Variant(c) ==
    LET gap == IF c.favorable = "higher" THEN c.house.value - c.implied.value
               ELSE c.implied.value - c.house.value
    IN  IF gap > 0 THEN "bullish" ELSE IF gap < 0 THEN "bearish" ELSE "neutral"

SectionsOk(x) ==
    /\ RevisionOk(x.revision, x.asOf, x.price, x.sources, Policy)
    /\ ScenariosOk(x.earnings, x.sources) /\ SensitivitiesOk(x.earnings, x.sources)
    /\ QualityOk(x.quality, x.sources)
    /\ SupplyOk(x.supply, x.symbol, x.sources, Policy)
    /\ CallDiffOk(x.call, Subject(x.supply).org, x.sources, Policy)
    /\ PositioningOk(x.positioning, x.asOf, x.price, x.sources, Policy)
    /\ ValuationOk(x.cases, x.earnings.scenarios, x.sources)
    /\ RisksOk(x.risks, x.sources) /\ PositionOk(x.position, x.recommendation)

(* What a buy demands beyond that.                                         *)
BuyGates(x) ==
    /\ WeightedReturn(x.cases, x.price) > 0
    /\ \E c \in x.chains : Variant(c) = "bullish"
    /\ RewardSuffices(x.cases, x.price, Policy.rewardToRisk)
    /\ Confirmation(x.supply, Policy).confirmed

BuildOk(x) ==
    /\ HeadingOk(x) /\ CatalystsOk(x) /\ ChainsOk(x) /\ SectionsOk(x)
    /\ x.recommendation = "buy" => BuyGates(x)

(* The dossier.  Its content hash stands for the body itself: two bodies   *)
(* have the same digest only when they are equal.                          *)
Body(x) ==
    [symbol |-> x.symbol, asOf |-> x.asOf, price |-> x.price, sources |-> x.sources,
     recommendation |-> x.recommendation, chains |-> x.chains, catalysts |-> x.catalysts,
     revision |-> BuiltRevision(x.revision, Policy), earnings |-> BuiltEarnings(x.earnings),
     quality |-> BuiltQuality(x.quality), supply |-> BuiltSupply(x.supply, Policy),
     call |-> BuiltCall(x.call, Policy),
     positioning |-> BuiltPositioning(x.positioning, x.listed),
     valuation |-> BuiltValuation(x.cases, x.price), risks |-> x.risks,
     position |-> x.position]
Sealed(body) == [body |-> body, digest |-> body]
Build(x) == Sealed(Body(x))

-----------------------------------------------------------------------------
(* validate_focused_research_dossier derives the financial model again     *)
(* from its inputs and compares,                                           *)
ScenarioReconciles(s) ==
    /\ s.input.drivers # {} /\ Unique(s.input.drivers)
    /\ s.revenues = [d \in s.input.drivers |-> Revenue(d)]
    /\ s.results = Calculated(s.input, s.input.drivers)
(* A bug: acquisitions do not enter the bridge.                            *)
RecomputedWithoutAcquisitions(s) ==
    s.prior.capital + s.maintenance + s.growth - s.da + s.nwc + s.otherCapital

RecomputedEnding(s) ==
    s.prior.capital + (s.maintenance + s.growth) - s.da + s.nwc + s.acquired + s.otherCapital
EconomicsReconcile(s) ==
    /\ s.economics = Economics(Calculated(s.input, s.input.drivers))
    /\ s.input.ending = RecomputedEnding(s.input) /\ s.ending = RecomputedEnding(s.input)
SensitivityReconciles(c, base) ==
    /\ DOMAIN c.shocks # {} /\ DOMAIN c.shocks \subseteq {d.id : d \in base.input.drivers}
    /\ c.base = base.results
    /\ c.shocked = Calculated(base.input, Shocked(base.input.drivers, c.shocks))
EarningsReconcile(e) ==
    /\ DOMAIN e.scenarios = ScenarioNames /\ e.sensitivities # {}
    /\ \A n \in ScenarioNames :
          ScenarioReconciles(e.scenarios[n]) /\ EconomicsReconcile(e.scenarios[n])
    /\ \A m, n \in ScenarioNames : {d.id : d \in e.scenarios[m].input.drivers}
                                     = {d.id : d \in e.scenarios[n].input.drivers}
    /\ \A c \in e.sensitivities : SensitivityReconciles(c, e.scenarios.base)

(* and builds every other analysis again, under the policy of its own.     *)
RevisionRebuilt(b) ==
    /\ RevisionOk(b.revision.input, b.asOf, b.price, b.sources, Standard)
    /\ b.revision = BuiltRevision(b.revision.input, Standard)
QualityRebuilt(b) ==
    QualityOk(b.quality.input, b.sources) /\ b.quality = BuiltQuality(b.quality.input)
SupplyRebuilt(b) ==
    /\ SupplyOk(b.supply.input, b.symbol, b.sources, Standard)
    /\ b.supply = BuiltSupply(b.supply.input, Standard)
CallRebuilt(b) ==
    /\ CallDiffOk(b.call.input, Subject(b.supply.input).org, b.sources, Standard)
    /\ b.call = BuiltCall(b.call.input, Standard)
PositioningRebuilt(b) ==
    /\ PositioningOk(b.positioning.input, b.asOf, b.price, b.sources, Standard)
    /\ b.positioning = BuiltPositioning(b.positioning.input,
                                        AsStored(b.positioning.input.options.openInterest))

(* A bug: the content hash is not compared.                                *)
ValidUnhashed(dossier, today, age) ==
    LET b == dossier.body
    IN  /\ EarningsReconcile(b.earnings) /\ RevisionRebuilt(b) /\ QualityRebuilt(b)
        /\ SupplyRebuilt(b) /\ CallRebuilt(b) /\ PositioningRebuilt(b)
        /\ b.asOf <= today /\ today - b.asOf <= age

Valid(dossier, today, age) ==
    LET b == dossier.body
    IN  /\ EarningsReconcile(b.earnings) /\ RevisionRebuilt(b) /\ QualityRebuilt(b)
        /\ SupplyRebuilt(b) /\ CallRebuilt(b) /\ PositioningRebuilt(b)
        /\ b.asOf <= today /\ today - b.asOf <= age
        /\ dossier.digest = b
=============================================================================

-------------------------- MODULE StockRecommendations --------------------------
(***************************************************************************)
(* The stock recommendation run                                            *)
(* (toss_trading/research/stock_recommendations.py, its command and its    *)
(* script): a market screen over daily bars, and the frozen dossiers that  *)
(* turn a candidate of the screen into a buy.  The analyst's payload, its  *)
(* freezing into a file and later damage to that file are actions; a run   *)
(* reads every file of the directory in the order of the file names, which *)
(* are hashes and say nothing of the dates.                                *)
(*                                                                         *)
(* Data.  A symbol is a number (its place in the alphabet).  A row of bars *)
(* carries the figures the screen derives from 253 days of prices.         *)
(***************************************************************************)
EXTENDS FocusedDossier

CONSTANTS
    Rules,              \* config/stock_recommendation_policy.json
    Markets,            \* what a day's bars may show
    Drafts,             \* the payloads an analyst may write: [symbol, changes]
    Payload(_, _, _),   \* the payload for a symbol, a day and the changes made
    Names,              \* file names, in the order of their numbers
    Legacy,             \* files of an earlier schema
    FirstDay, LastDay

(* load_recommendation_policy.                                             *)
RulesLoad(r) ==
    /\ 1 <= r.minimum /\ r.minimum <= r.target /\ r.target <= r.maximum
    /\ r.screening \in 1 .. 100 /\ r.buys \in 1 .. 50 /\ r.buys <= r.screening
    /\ DOMAIN r.weights = {"year", "half", "calm", "trend"}
    /\ SumFunction(r.weights) = 100

ASSUME RulesAssumption == RulesLoad(Rules)

(* Days and file names are ordered as numbers are, a market has rows, and a *)
(* file of an earlier schema is not of the current one.                    *)
ASSUME SettingAssumption ==
    /\ Names \subseteq Int
    /\ FirstDay \in Int /\ LastDay \in Int /\ FirstDay <= LastDay
    /\ \A m \in Markets : m # {} /\ IsFiniteSet(m) /\ \A r \in m : r.late \in Int
    /\ \A f \in Legacy : f.schema # "current"

(* What is parsed of a payload as a number is one (_finite_number; the      *)
(* model counts in integers), and its lists are finite: those that are      *)
(* calculated with below.                                                  *)
ASSUME FiguresAssumption ==
    \A d \in Drafts : \A day \in FirstDay .. LastDay :
        LET x == Payload(d.symbol, day, d.changes)
        IN  /\ x.asOf \in Int /\ x.price \in Int
            /\ \A c \in x.chains : c.house.value \in Int /\ c.implied.value \in Int
            /\ \A n \in ScenarioNames :
                 /\ x.cases[n].price \in Int /\ x.cases[n].probability \in Int
                 /\ LET s == x.earnings.scenarios[n]
                    IN  {s.prior.capital, s.maintenance, s.growth, s.da, s.nwc, s.acquired,
                         s.otherCapital} \subseteq Int
            /\ IsFiniteSet(x.quality.adjustments) /\ IsFiniteSet(x.supply.entities)
            /\ \A a \in x.quality.adjustments : a.prior.net \in Int /\ a.current.net \in Int
            /\ \A b \in {x.quality.prior, x.quality.current} :
                 {b.tax, b.income, b.recurring, b.shares, b.buyback} \subseteq Int

VARIABLES
    today,
    draft,     \* the analyst's payload, if there is one
    files,     \* the dossier directory: [name, schema, dossier]
    latest,    \* the link to the last recommendations
    failed     \* the last run stopped with an error

vars == <<today, draft, files, latest, failed>>

None == [asOf |-> 0, buys |-> {}, states |-> << >>]

Init ==
    /\ today = FirstDay /\ files = Legacy /\ draft = {}
    /\ latest = None /\ failed = FALSE

-----------------------------------------------------------------------------
(* The screen: enough history up to the day, price and volume; the most    *)
(* traded of those.                                                        *)
Candidates(rows, day) ==
    {r \in rows : /\ r.days >= Rules.history /\ r.last = day
                  /\ r.price >= Rules.price /\ r.volume >= Rules.volume}
Place(r, S, before(_, _)) == Cardinality({x \in S : before(x, r)})
Universe(rows, day) ==
    LET Busier(x, y) == x.volume > y.volume \/ (x.volume = y.volume /\ x.symbol < y.symbol)
        candidates == Candidates(rows, day)
    IN  {r \in candidates : Place(r, candidates, Busier) < Rules.target}

(* _percentile_ranks and the composite score, over the common denominator. *)
FactorRank(r, S, factor) ==
    LET Below(x, y) == x[factor] < y[factor] \/ (x[factor] = y[factor] /\ x.symbol < y.symbol)
    IN  Place(r, S, Below)
Composite(r, S) ==
    SumFunction([f \in DOMAIN Rules.weights |-> Rules.weights[f] * FactorRank(r, S, f)])

(* The candidates of the screen: a rising price, the best composites.      *)
Selected(universe) ==
    LET eligible == {r \in universe : r.year > 0 /\ r.trend > 0}
        Better(x, y) == \/ Composite(x, universe) > Composite(y, universe)
                        \/ /\ Composite(x, universe) = Composite(y, universe)
                           /\ x.symbol < y.symbol
    IN  {r \in eligible : Place(r, eligible, Better) < Rules.screening}

-----------------------------------------------------------------------------
(* The dossiers: older schemas and stale ones only mark their symbol; any  *)
(* other must be valid, or the whole run stops.                            *)
Stale(f, day) == f.schema = "current" /\ day - f.dossier.body.asOf > Policy.dossierAge
Fresh(day) == {f \in files : f.schema = "current" /\ ~Stale(f, day)}
DossiersRead(day) == \A f \in Fresh(day) : Valid(f.dossier, day, Policy.dossierAge)

(* A bug: the first file of a symbol is kept whatever the dates.           *)
ChosenByName(symbol, day) ==
    {f \in Fresh(day) :
        /\ f.dossier.body.symbol = symbol
        /\ \A g \in Fresh(day) : g.dossier.body.symbol = symbol => f.name <= g.name}

(* The latest of a symbol, the first by name among those of the same day.  *)
Chosen(symbol, day) ==
    {f \in Fresh(day) :
        /\ f.dossier.body.symbol = symbol
        /\ \A g \in Fresh(day) : g.dossier.body.symbol = symbol =>
             \/ g.dossier.body.asOf < f.dossier.body.asOf
             \/ g.dossier.body.asOf = f.dossier.body.asOf /\ f.name <= g.name}

(* The state of the focused research of a candidate.                       *)
FocusState(symbol, day) ==
    IF Chosen(symbol, day) # {}
    THEN LET f == CHOOSE g \in Chosen(symbol, day) : TRUE
         IN  IF f.dossier.body.recommendation = "buy" THEN "buy_dossier_passed"
             ELSE f.dossier.body.recommendation
    ELSE IF \E f \in files : Stale(f, day) /\ f.dossier.body.symbol = symbol THEN "stale"
    ELSE IF \E f \in files : f.schema = "v8" /\ f.symbol = symbol THEN "positioning_required"
    ELSE "required"

(* The buys, the largest positions and returns first, up to the limit.     *)
Buys(selected, day) ==
    LET bought == UNION {Chosen(r.symbol, day) : r \in
                           {s \in selected : FocusState(s.symbol, day) = "buy_dossier_passed"}}
        dossiers == {f.dossier : f \in bought}
        Return(d) == d.body.valuation.weighted
        Before(c, d) ==
            \/ c.body.position.target > d.body.position.target
            \/ /\ c.body.position.target = d.body.position.target
               /\ \/ Return(c) * d.body.price > Return(d) * c.body.price
                  \/ /\ Return(c) * d.body.price = Return(d) * c.body.price
                     /\ c.body.symbol < d.body.symbol
    IN  {d \in dossiers : Place(d, dossiers, Before) < Rules.buys}

-----------------------------------------------------------------------------
NewDay == today < LastDay /\ today' = today + 1 /\ UNCHANGED <<draft, files, latest, failed>>

(* The analyst writes a payload, as of the day, or gives it up.            *)
Write(d) == draft = {} /\ draft' = {d} /\ UNCHANGED <<today, files, latest, failed>>
Discard == draft # {} /\ draft' = {} /\ UNCHANGED <<today, files, latest, failed>>

(* research_validate_focus_dossier: a payload that passes is frozen under  *)
(* its hash.  Only the memo, which is written after the file, validates    *)
(* the dossier, and the file stays when that fails.                        *)
Drafted == {Payload(d.symbol, today, d.changes) : d \in draft}
Freeze(name) ==
    /\ \A f \in files : f.name # name
    /\ \E x \in {y \in Drafted : BuildOk(y)} :
        LET dossier == Build(x)
        IN  /\ \A f \in files : f.schema = "current" => f.dossier # dossier
            /\ files' = files \cup {[name |-> name, schema |-> "current", symbol |-> x.symbol,
                                     dossier |-> dossier]}
    /\ draft' = {} /\ UNCHANGED <<today, latest, failed>>

(* A file is damaged or edited: the verdict or a target with the hash left *)
(* alone, or a result of the financial model with the hash renewed.        *)
Unsealed(body) ==
    {[body EXCEPT !.recommendation = "buy", !.position.target = 50],
     [body EXCEPT !.valuation.cases.bull.price = 1]}
Resealed(body) == {[body EXCEPT !.earnings.scenarios.base.results.net = 0]}
Damage(f) ==
    /\ f.schema = "current"
    /\ \E dossier \in {[f.dossier EXCEPT !.body = b] : b \in Unsealed(f.dossier.body)}
                        \cup {Sealed(b) : b \in Resealed(f.dossier.body)} :
          files' = (files \ {f}) \cup {[f EXCEPT !.dossier = dossier]}
    /\ UNCHANGED <<today, draft, latest, failed>>

(* Grouped daily bars through yesterday, some rows ending earlier.         *)
Collected(m) ==
    {[symbol |-> r.symbol, days |-> r.days, last |-> today - 1 - r.late, price |-> r.price,
      volume |-> r.volume, year |-> r.year, half |-> r.half, calm |-> r.calm,
      trend |-> r.trend] : r \in m}

(* The script, alone under its lock: bars are collected and                *)
(* research_recommend_stocks runs as of the last day any row has.  A run   *)
(* that stops leaves the link where it was.                                *)
Recommend(m) ==
    LET bars == Collected(m)
        day == Max({r.last : r \in bars})
        universe == Universe(bars, day)
        selected == Selected(universe)
    IN  /\ failed' = ~(Cardinality(universe) >= Rules.minimum /\ DossiersRead(day))
        /\ latest' = IF failed' THEN latest
                     ELSE [asOf |-> day, buys |-> Buys(selected, day),
                           states |-> [s \in {r.symbol : r \in selected} |-> FocusState(s, day)]]
        /\ UNCHANGED <<today, draft, files>>

Next ==
    \/ NewDay
    \/ \E d \in Drafts : Write(d)
    \/ Discard
    \/ \E name \in Names : Freeze(name)
    \/ \E f \in files : Damage(f)
    \/ \E m \in Markets : Recommend(m)

Spec == Init /\ [][Next]_vars

-----------------------------------------------------------------------------
(* A call and a put of one expiry and strike with the same open interest   *)
(* are listed as the dossier will list them, the call first.               *)
TiesAsStored(x) ==
    LET rows == x.positioning.options.openInterest
    IN  \A r, s \in rows : Tied(r, s) => (<<r, s>> \in x.listed <=> Earlier(r, s))

(* A dossier that the builder accepts under the shipped policy is one the  *)
(* validator accepts: the two recompute everything alike, though the       *)
(* validator has thresholds of its own and only the dossier to read,       *)
(* whatever order the payload listed its entries in, but for the ties      *)
(* above.  Otherwise a frozen file would stop every run until its age      *)
(* makes it stale (build and validate_focused_research_dossier).           *)
BuiltIsAccepted ==
    \A x \in Drafted : (BuildOk(x) /\ TiesAsStored(x)) => Valid(Build(x), x.asOf, 0)

(* Figures that reconcile in both periods are never refused because their  *)
(* growth could not be attributed: the drivers always add up               *)
(* (_earnings_quality).                                                    *)
ReconciledIsAttributed ==
    \A x \in Drafted :
        (Reconciles(x.quality, "prior") /\ Reconciles(x.quality, "current"))
          => AttributionOk(x.quality)

(* An honest dossier is never refused, neither for its arithmetic nor by   *)
(* the second derivation of it.                                            *)
HonestDossierPasses == ReconciledIsAttributed /\ BuiltIsAccepted

(* The command makes a validated dossier, and the file it leaves stops no  *)
(* run on the day it was made (research_validate_focus_dossier).           *)
FrozenIsValidated ==
    [][\A name \in Names : Freeze(name) =>
          \A f \in files' \ files : Valid(f.dossier, f.dossier.body.asOf, 0)]_vars

(* What is recommended is supported by what the dossier says of the world: *)
(* the outcomes weighted by their probability are worth more than the      *)
(* price, some figure is better than the price implies, the base case pays *)
(* for the bear case, and enough independent companies confirm it.  Damage *)
(* to a file never makes a buy (generate_stock_recommendations).           *)
BuyIsSupported ==
    \A d \in latest.buys :
        LET b == d.body  cases == b.valuation.cases  c == b.supply.input
        IN  /\ Weighted(cases) > 100 * b.price
            /\ \E k \in b.chains : IF k.favorable = "higher" THEN k.house.value > k.implied.value
                                   ELSE k.house.value < k.implied.value
            /\ 10 * (cases.base.price - b.price)
                 >= Policy.rewardToRisk * (b.price - cases.bear.price)
            /\ Cardinality({e.org : e \in {f \in External(c) : \E g \in c.signals :
                              g.entity = f.id /\ g.subject = c.expected}}) >= Policy.supporting
            /\ latest.asOf - b.asOf \in 0 .. Policy.dossierAge

(* No recommendation rests on a verdict that a later one of the same       *)
(* symbol, on file when the run was made and in time for it, has replaced  *)
(* (generate_stock_recommendations, the choice by as_of_date).             *)
LatestVerdictWins ==
    [][\A d \in latest'.buys : latest' # latest =>
          ~\E f \in files : /\ f.schema = "current" /\ f.dossier.body.symbol = d.body.symbol
                            /\ f.dossier.body.asOf > d.body.asOf]_vars
=============================================================================

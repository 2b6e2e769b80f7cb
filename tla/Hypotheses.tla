------------------------------ MODULE Hypotheses ------------------------------
(***************************************************************************)
(* The hypothesis ledger of the autonomous research                        *)
(* (toss_trading/research/hypotheses.py, candidate_evaluation.py and the   *)
(* two command lines that plan and evaluate): immutable files of           *)
(* registered hypotheses, prospective protocols and evaluations, as        *)
(* operators on one ledger value.                                          *)
(*                                                                         *)
(* Data.  The identity of a hypothesis is its content (uuid5 of the family *)
(* and the normalized configuration), here the record itself.  A date is a *)
(* natural number and the stored history of a symbol is 1 .. n.  The       *)
(* bootstrap's raw p-value is a count of the losing dates in the window;   *)
(* the historical one also depends on the run, whose id seeds it.  What a  *)
(* strategy gains on a date is fixed; an execution cost model takes the    *)
(* same from every date.                                                   *)
(***************************************************************************)
EXTENDS Integers, Sequences, FiniteSets, SequencesExt, FiniteSetsExt

CONSTANTS Policy,       \* autonomous_research_policy.json
          FactorNames,  \* FACTOR_NAMES
          CashSymbol,   \* cash_symbol; with Benchmark required by every strategy
          Benchmark,    \* SPY
          Gain,         \* family -> date -> what it gains on its benchmark
          Costs         \* the execution cost models

(* load_research_policy.                                                   *)
ValidPolicy(p) ==
    /\ {p.maxWeek, p.maxRegistered, p.minFolds, p.minDays, p.minRebalances} \subseteq Nat \ {0}
    /\ p.poolMultiplier \in 1 .. 5 /\ p.alpha \in Nat \ {0} /\ p.novelty \in 5 .. 75
    /\ p.rotation # <<>> /\ IsInjective(p.rotation) /\ "macro_regime" \notin ToSet(p.rotation)

ASSUME PolicyAssumption ==
    /\ ValidPolicy(Policy)
    /\ Policy.long \subseteq Nat /\ Policy.rebalanceEvery \in Nat \ {0}
    /\ Costs \subseteq Nat

PolicyFamilies == ToSet(Policy.rotation)
Legacy == "dual_momentum"

-----------------------------------------------------------------------------
(* Proposals                                                               *)

(* _validate_common_config.                                                *)
CommonConfigOK(p) ==
    /\ Cardinality(p.symbols) >= 2 /\ p.symbols \subseteq Policy.symbols
    /\ p.top \in Policy.top /\ p.top <= Cardinality(p.symbols)

(* _normalize_legacy_config.                                               *)
LegacyConfigOK(p) == CommonConfigOK(p) /\ p.long \in Policy.long

(* _normalize_factor_config: a single-factor family activates its own      *)
(* factor and no other, a composite two or three.                          *)
FactorConfigOK(p) ==
    /\ CommonConfigOK(p)
    /\ p.long \in Policy.long /\ p.short \in Policy.short /\ p.long > p.short
    /\ p.active \subseteq FactorNames
    /\ IF p.family = "multi_factor_composite" THEN Cardinality(p.active) \in 2 .. 3
       ELSE p.active = {p.family}

(* hypothesis_from_proposal: what the explanation mentions has to be       *)
(* configured.                                                             *)
ProposalOK(p) ==
    /\ p.criteria \in 1 .. 5
    /\ p.family # "macro_regime"
    /\ IF p.family = Legacy THEN LegacyConfigOK(p)
       ELSE p.family \in PolicyFamilies /\ FactorConfigOK(p)
    /\ p.mentions \cap (Policy.symbols \cup {CashSymbol})
          \subseteq p.symbols \cup {CashSymbol, Benchmark}

(* StrategyHypothesis: the content its id is made of.                      *)
HypothesisOf(p) ==
    [family |-> p.family, symbols |-> p.symbols, top |-> p.top,
     active |-> p.active, long |-> p.long, short |-> p.short]

(* structural_novelty, in hundredths: the mean of the distances of the     *)
(* symbols, of the weights and of the scalar fields, to the nearest        *)
(* registered hypothesis of the family.                                    *)
ConfigDistance(a, b) ==
    LET symbols == 100 - (100 * Cardinality(a.symbols \cap b.symbols))
                            \div Cardinality(a.symbols \cup b.symbols)
        weights == (100 * Cardinality((a.active \ b.active) \cup (b.active \ a.active)))
                      \div Cardinality(FactorNames)
        scalar(x, y) == IF x = y THEN 0 ELSE 100
    IN  (symbols + weights + scalar(a.top, b.top) + scalar(a.long, b.long)
           + scalar(a.short, b.short)) \div 5

StructuralNovelty(h, known) ==
    Min({100} \cup {ConfigDistance(h, k) : k \in {g \in known : g.family = h.family}})

-----------------------------------------------------------------------------
(* The ledger: registered hypothesis -> ISO week, protocol -> its          *)
(* historical cutoff, hypothesis -> its evaluations in the order of their  *)
(* run ids.                                                                *)

EmptyLedger == [weeks |-> [h \in {} |-> 0], cutoffs |-> [h \in {} |-> 0],
                evaluations |-> [h \in {} |-> <<>>]]

Registered(led) == DOMAIN led.weeks

(* The rename that ends a write: a file beside those that are there.       *)
AddFile(files, id, content) ==
    [x \in DOMAIN files \cup {id} |-> IF x = id THEN content ELSE files[x]]

(* HypothesisLedger.register: the file of a known id is left alone.        *)
Register(led, h, week) ==
    IF h \in Registered(led) THEN led
    ELSE [led EXCEPT !.weeks = AddFile(led.weeks, h, week),
                     !.evaluations = AddFile(led.evaluations, h, <<>>)]

(* HypothesisLedger.register_prospective_protocol: immutable.              *)
RegisterProtocol(led, h, cutoff) ==
    IF h \in DOMAIN led.cutoffs THEN led
    ELSE [led EXCEPT !.cutoffs = AddFile(led.cutoffs, h, cutoff)]

(* HypothesisLedger.record_evaluation: one file per run.                   *)
RecordEvaluation(led, h, e) ==
    [led EXCEPT !.evaluations[h] = Append(@, e)]

EvaluatedIn(led, h, run) ==
    \E k \in DOMAIN led.evaluations[h] : led.evaluations[h][k].run = run

-----------------------------------------------------------------------------
(* Planning                                                                *)

RegisteredThisWeek(led, week) == {h \in Registered(led) : led.weeks[h] = week}

(* A bug: the limit is applied to each run instead of to the week.         *)
WeeklyRemainingPerRun(led, week, maxNew) == Min({Policy.maxWeek, maxNew})

(* What the weekly limit leaves, capped by --max-new.                      *)
WeeklyRemaining(led, week, maxNew) ==
    Min({Max({0, Policy.maxWeek - Cardinality(RegisteredThisWeek(led, week))}), maxNew})

Place(f) == IF f \in PolicyFamilies
            THEN CHOOSE k \in DOMAIN Policy.rotation : Policy.rotation[k] = f ELSE 0

FamilyCount(led, f) == Cardinality({h \in Registered(led) : h.family = f})

(* The families with the fewest hypotheses, ties in rotation order.        *)
TargetFamilies(led, n) ==
    LET before(f, g) == \/ FamilyCount(led, f) < FamilyCount(led, g)
                        \/ FamilyCount(led, f) = FamilyCount(led, g) /\ Place(f) < Place(g)
    IN  {f \in PolicyFamilies :
            Cardinality({g \in PolicyFamilies : before(g, f)}) < Max({1, n})}

(* VertexHypothesisPlanner.propose: at most this many proposals.           *)
PoolCount(remaining) == Min({15, remaining * Policy.poolMultiplier})

(* One proposal of the loop in plan_hypotheses.  The capacity test counts  *)
(* the hypotheses created by this call twice.                              *)
PlanOne(acc, p, week, remaining, targets) ==
    LET h == HypothesisOf(p)
    IN  IF acc.stop \/ ~ProposalOK(p) \/ h \in Registered(acc.led)
           \/ (h.family # Legacy /\ h.family \notin targets)
           \/ StructuralNovelty(h, Registered(acc.led)) < Policy.novelty
        THEN acc
        ELSE IF Cardinality(Registered(acc.led)) + acc.created >= Policy.maxRegistered
        THEN [acc EXCEPT !.stop = TRUE]
        ELSE [led |-> Register(acc.led, h, week), created |-> acc.created + 1,
              stop |-> acc.created + 1 >= remaining]

(* plan_hypotheses: nothing is asked of the planner at a limit, and an     *)
(* answer beyond the pool is refused.                                      *)
PlanHypotheses(led, week, maxNew, proposals) ==
    LET remaining == WeeklyRemaining(led, week, maxNew)
    IN  IF remaining = 0 \/ Cardinality(Registered(led)) >= Policy.maxRegistered
           \/ Len(proposals) > PoolCount(remaining) THEN led
        ELSE FoldLeft(LAMBDA acc, p : PlanOne(acc, p, week, remaining,
                                              TargetFamilies(led, remaining)),
                      [led |-> led, created |-> 0, stop |-> FALSE],
                      proposals).led

-----------------------------------------------------------------------------
(* Evaluation                                                              *)

Required(h) == h.symbols \cup {CashSymbol, Benchmark}

(* _common_history: the dates every required symbol has.                   *)
LastCommon(points, h) == Min({points[s] : s \in Required(h)})

(* _run_candidate: the dates with a return; too short a history raises.    *)
Raises(points, h) == LastCommon(points, h) <= h.long + 1
ReturnDates(points, h) == 2 .. LastCommon(points, h)
RebalanceDates(dates) == {d \in dates : d % Policy.rebalanceEvery = 0}

(* The excess of the strategy on its benchmark, after costs.               *)
Excess(h, d, costs) == Gain[h.family][d] - costs
TotalExcess(h, window, costs) == MapThenSumSet(LAMBDA d : Excess(h, d, costs), window)

(* block_bootstrap_test: Bonferroni over every registered hypothesis.      *)
PassesAdjustedTest(raw, family) == raw * family <= Policy.alpha
RawP(h, window, costs) == 1 + Cardinality({d \in window : Excess(h, d, costs) < 0})

(* double_cost_stress_excess_positive.                                     *)
SurvivesStress(h, window, costs) == TotalExcess(h, window, Policy.stress * costs) > 0

(* benchmark_outperformance_ratio, over the walk-forward folds.            *)
FoldDates(k) == {1 + Policy.train + (k - 1) * Policy.test + i : i \in 1 .. Policy.test}
EnoughFoldsOutperform(h, folds, costs) ==
    100 * Cardinality({k \in 1 .. folds : TotalExcess(h, FoldDates(k), costs) > 0})
        >= Policy.ratio * folds

(* evaluate_hypothesis: the historical screen on all stored dates.         *)
EvaluateHypothesis(h, points, family, costs, run, luck) ==
    LET dates == ReturnDates(points, h)
        folds == (Cardinality(dates) - Policy.train) \div Policy.test
        passed == /\ folds >= Policy.minFolds
                  /\ EnoughFoldsOutperform(h, folds, costs)
                  /\ PassesAdjustedTest(RawP(h, dates, costs) + luck, family)
                  /\ SurvivesStress(h, dates, costs)
    IN  [run |-> run, passed |-> passed, window |-> {}, revealed |-> FALSE, seen |-> dates,
         costs |-> costs,
         state |-> IF passed THEN "awaiting_prospective_observation"
                   ELSE "historical_not_qualified"]

(* A bug: every prospective return is judged, not the first complete       *)
(* window.                                                                 *)
CompletionWindowMoving(future, minDays, minRebalances) ==
    IF Cardinality(future) >= minDays /\ Cardinality(RebalanceDates(future)) >= minRebalances
    THEN {future} ELSE {}

(* The shortest initial window with enough dates and rebalances, if any.   *)
CompletionWindow(future, minDays, minRebalances) ==
    LET upTo(d) == {e \in future : e <= d}
        complete == {d \in future : /\ Cardinality(upTo(d)) >= minDays
                                    /\ Cardinality(RebalanceDates(upTo(d))) >= minRebalances}
    IN  IF complete = {} THEN {} ELSE {upTo(Min(complete))}

(* A bug: the cutoff date of the screen is counted as prospective.         *)
FutureDatesInclusive(points, h, cutoff) == {d \in ReturnDates(points, h) : d >= cutoff}

FutureDates(points, h, cutoff) == {d \in ReturnDates(points, h) : d > cutoff}

(* evaluate_prospective_hypothesis: nothing is revealed before the window  *)
(* is complete, and then every run judges the window again, under the      *)
(* costs it has loaded.                                                    *)
Qualifies(h, window, family, costs) ==
    PassesAdjustedTest(RawP(h, window, costs), family) /\ SurvivesStress(h, window, costs)

EvaluateProspective(h, cutoff, points, family, costs, run) ==
    LET windows == CompletionWindow(FutureDates(points, h, cutoff),
                                    Policy.minDays, Policy.minRebalances)
        window == UNION windows
    IN  [run |-> run, passed |-> TRUE, window |-> window, revealed |-> windows # {},
         seen |-> {}, costs |-> costs,
         state |-> IF windows = {} THEN "prospective_collecting"
                   ELSE IF Qualifies(h, window, family, costs)
                   THEN "prospective_complete_awaiting_paper_infrastructure"
                   ELSE "prospective_not_qualified"]

EvaluationFailed(run, costs) ==
    [run |-> run, passed |-> FALSE, window |-> {}, revealed |-> FALSE, seen |-> {},
     costs |-> costs, state |-> "evaluation_failed"]

(* The points an evaluation may look at, up to a cutoff (0: no cutoff).    *)
PointsThrough(points, cutoff) ==
    [s \in DOMAIN points |-> IF cutoff = 0 THEN points[s] ELSE Min({points[s], cutoff})]

(* A daily run does not repeat a failed screen.                            *)
CarriedForward(led, h, mode) ==
    /\ mode = "daily" /\ h \notin DOMAIN led.cutoffs
    /\ led.evaluations[h] # <<>> /\ ~Last(led.evaluations[h]).passed

(* The result of one hypothesis in evaluate_registered_hypotheses.         *)
Evaluation(led, h, points, cutoff, family, costs, run, luck) ==
    LET visible == IF h \in DOMAIN led.cutoffs THEN PointsThrough(points, cutoff) ELSE points
    IN  IF Raises(visible, h) THEN EvaluationFailed(run, costs)
        ELSE IF h \in DOMAIN led.cutoffs
        THEN EvaluateProspective(h, led.cutoffs[h], visible, family, costs, run)
        ELSE EvaluateHypothesis(h, visible, family, costs, run, luck)

(* The historical cutoff of a screen is its last return date.              *)
CutoffOf(e) == Max(e.seen)
=============================================================================

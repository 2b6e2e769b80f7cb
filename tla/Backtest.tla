------------------------------- MODULE Backtest -------------------------------
(***************************************************************************)
(* The research backtests (toss_trading/research/backtest.py): the monthly *)
(* dual-momentum baseline, the bounded factor strategies and the macro     *)
(* regime rule, all run by the same loop over the dates on which every     *)
(* required symbol has a total-return bar.                                 *)
(*                                                                         *)
(* Data.  A date is a natural number, a price a small one; a return is     *)
(* kept as what decides it, the weights held that day and the trade whose  *)
(* cost is charged to it, so that two equal return records are equal       *)
(* returns.  Factor values are reduced to the order they induce.           *)
(*                                                                         *)
(* The state is the data the collectors have stored so far and the result  *)
(* of the backtest over it: it is run again after every collection, as the *)
(* automation does.                                                        *)
(***************************************************************************)
EXTENDS Integers, Sequences, FiniteSets, SequencesExt

CONSTANTS Candidates,   \* candidate_symbols, ranked by name
          Cash,         \* cash_symbol
          Spy,          \* the primary benchmark
          MonthLength,  \* dates per month
          WeekLength,   \* dates per ISO week
          Configs,      \* the configurations the policy allows
          LastDate      \* bound: the collections stop at this date

ASSUME BacktestAssumption ==
    /\ MonthLength \in Nat \ {0} /\ WeekLength \in Nat \ {0} /\ LastDate \in Nat
    /\ Candidates # {} /\ {Cash, Spy} \cap Candidates = {}
    /\ Candidates \subseteq 1 .. 9
    /\ \A c \in Configs :
          /\ c.kind \in {"momentum", "factor", "macro"} /\ c.availLag \in Nat
          /\ {c.long, c.short, c.vol, c.skip, c.train, c.test, c.publicationLag} \subseteq Int

VARIABLES
    config,     \* the configuration under test
    bars,       \* date -> symbol -> [px, avail], the stored total-return bars
    vintages,   \* the macro vintages, [obs, start, value]
    today,      \* the last date the vendor has released
    result      \* BacktestResult of the last run
btvars == <<config, bars, vintages, today, result>>

Symbols == Candidates \cup {Cash, Spy}

(* DualMomentumConfig.validate.                                            *)
ValidMomentumConfig(c) ==
    /\ c.long > c.skip /\ c.skip >= 0
    /\ c.top \in 1 .. Cardinality(Candidates)
    /\ c.train > 0 /\ c.test > 0

(* QuantFactorConfig.validate.                                             *)
ValidFactorConfig(c) ==
    /\ Cardinality(Candidates) >= 2 /\ c.factors # {}
    /\ c.long > c.short /\ c.short >= 2 /\ c.vol >= 2 /\ c.skip >= 0
    /\ c.top \in 1 .. Cardinality(Candidates)
    /\ c.weighting \in {"equal", "inverse_volatility"}
    /\ c.frequency \in {"weekly", "monthly"}
    /\ c.train > 0 /\ c.test > 0

(* MacroRegimeConfig.validate.                                             *)
ValidMacroConfig(c) ==
    /\ Cardinality(Candidates) >= 2
    /\ c.frequency = "monthly" /\ c.publicationLag \in 1 .. 7
    /\ c.train > 0 /\ c.test > 0

-----------------------------------------------------------------------------
(* The panel                                                               *)

(* _align_common_history: the dates on which every required symbol is      *)
(* present, in order.                                                      *)
CommonHistory(bs) ==
    LET last == Cardinality(DOMAIN bs)
        upTo[n \in 0 .. last] ==
            IF n = 0 THEN <<>>
            ELSE IF Symbols \subseteq DOMAIN bs[n] THEN Append(upTo[n - 1], n) ELSE upTo[n - 1]
    IN  upTo[last]

Px(bs, d, s) == bs[d][s].px
AvailableOnOrBefore(bs, d, s, decision) == bs[d][s].avail <= decision

IsMonthEnd(dates, i) ==
    \/ i = Len(dates)
    \/ dates[i] \div MonthLength # dates[i + 1] \div MonthLength

IsWeekEnd(dates, i) ==
    \/ i = Len(dates)
    \/ dates[i] \div WeekLength # dates[i + 1] \div WeekLength

-----------------------------------------------------------------------------
(* Signals.  A signal is the set of bars read, whether the point-in-time   *)
(* check on them passed, whether there is a signal, the macro vintages it  *)
(* used and the target weights.                                            *)

(* Selected symbols in the order of their scores; ties go to the name.     *)
TopOf(eligible, top, Better(_, _)) ==
    {s \in eligible : Cardinality({t \in eligible : Better(t, s)}) < top}

EqualWeights(selected) ==
    [s \in (IF selected = {} THEN {Cash} ELSE selected) |-> 1]

(* The best top_k by the return from the bars of one date to those of      *)
(* another, above the threshold.                                           *)
MomentumTarget(old, recent, top) ==
    LET Beats(s, t) == LET x == recent[s].px * old[t].px
                           y == recent[t].px * old[s].px
                       IN  x > y \/ (x = y /\ s < t)
    IN  EqualWeights(TopOf({s \in Candidates : recent[s].px > old[s].px}, top, Beats))

(* A bug: the recent price is taken one date too late.                     *)
MomentumSignalLookAhead(bs, dates, i, c) ==
    LET recent == dates[i + 1]
        old == dates[i - c.long]
    IN  [read |-> {recent, old}, ok |-> TRUE, known |-> TRUE, used |-> {},
         target |-> MomentumTarget(bs[old], bs[recent], c.top)]

(* The monthly signal of run_dual_momentum_backtest: the total return from *)
(* the lookback date to the skip date.                                     *)
MomentumSignal(bs, dates, i, c) ==
    LET recent == dates[i - c.skip]
        old == dates[i - c.long]
    IN  [read |-> {recent, old},
         ok |-> \A s \in Candidates, d \in {recent, old} :
                   AvailableOnOrBefore(bs, d, s, dates[i]),
         known |-> TRUE, used |-> {},
         target |-> MomentumTarget(bs[old], bs[recent], c.top)]

(* Realised volatility over a window of bars, up to a monotone map: the    *)
(* summed absolute daily moves.                                            *)
Volatility(window, s) ==
    FoldFunction(+, 0, [k \in {j \in DOMAIN window : j - 1 \in DOMAIN window} |->
        LET move == window[k][s].px - window[k - 1][s].px
        IN  IF move < 0 THEN -move ELSE move])

(* _rank_factor: the place of a symbol in the cross-section of a factor.   *)
RankFactor(value, s) ==
    Cardinality({t \in Candidates : value[t] < value[s] \/ (value[t] = value[s] /\ t < s)})

(* The cross-section of the five factors, from the return over the long    *)
(* and the short lookback (in per cent) and the volatility of each symbol. *)
RawFactors(c, long, short, volatility) ==
    [momentum |-> long,
     risk_adjusted_momentum |->
        [s \in Candidates |-> IF volatility[s] > 0 THEN long[s] \div volatility[s] ELSE 0],
     short_term_reversal |-> [s \in Candidates |-> 0 - short[s]],
     low_volatility |-> [s \in Candidates |-> 0 - volatility[s]],
     trend_acceleration |-> [s \in Candidates |-> short[s] * c.long - long[s] * c.short]]

(* The ranks of the active factors are added up.                           *)
FactorScore(c, raw) ==
    [s \in Candidates |-> FoldFunction(+, 0, [f \in c.factors |-> RankFactor(raw[f], s)])]

FactorTarget(c, risky, score, volatility) ==
    LET Beats(s, t) == score[s] > score[t] \/ (score[s] = score[t] /\ s < t)
    IN  IF ~risky THEN EqualWeights({})
        ELSE IF c.weighting = "equal" THEN EqualWeights(TopOf(Candidates, c.top, Beats))
        ELSE [s \in TopOf(Candidates, c.top, Beats) |->
                60 \div (IF volatility[s] > 1 THEN volatility[s] ELSE 1)]

PercentReturn(from, to) ==
    [s \in Candidates |-> (100 * to[s].px) \div from[s].px - 100]

(* The decision on the bars of the dates that bound the lookbacks and of   *)
(* the volatility window; the regime filter asks for a rising SPY.         *)
FactorDecision(c, recent, long, short, window) ==
    LET volatility == [s \in Candidates |-> Volatility(window, s)]
    IN  FactorTarget(c, c.regime => recent[Spy].px > long[Spy].px,
                     FactorScore(c, RawFactors(c, PercentReturn(long, recent),
                                               PercentReturn(short, recent), volatility)),
                     volatility)

(* The signal of run_quant_factor_backtest.  Only the four dates that      *)
(* bound the windows are checked for availability.                         *)
FactorSignal(bs, dates, i, c) ==
    LET recent == i - c.skip
        checked == {dates[recent - n] : n \in {0, c.long, c.short, c.vol}}
        window == (recent - c.vol) .. recent
    IN  [read |-> {dates[k] : k \in window} \cup checked,
         ok |-> \A s \in Symbols, d \in checked : AvailableOnOrBefore(bs, d, s, dates[i]),
         known |-> TRUE, used |-> {},
         target |-> FactorDecision(c, bs[dates[recent]], bs[dates[recent - c.long]],
                        bs[dates[recent - c.short]], [k \in window |-> bs[dates[k]]])]

(* A bug: the latest revision of every observation, whenever published.    *)
SnapshotRevised(vs, decision, lag) ==
    LET known == {v \in vs : v.obs <= decision}
    IN  {v \in known : \A w \in known : w.obs = v.obs => w.start <= v.start}

(* PointInTimeMacroStore.snapshot: per observation the latest vintage      *)
(* released by the decision date less the publication lag.                 *)
Snapshot(vs, decision, lag) ==
    LET known == {v \in vs : v.obs <= decision /\ v.start <= decision - lag}
    IN  {v \in known : \A w \in known : w.obs = v.obs => w.start <= v.start}

(* The vintages of the last two observations, without which there is no    *)
(* signal.                                                                 *)
LastVintage(snap) == CHOOSE v \in snap : \A w \in snap : w.obs <= v.obs
LastTwo(snap) ==
    IF Cardinality(snap) >= 2
    THEN {LastVintage(snap), LastVintage(snap \ {LastVintage(snap)})} ELSE {}
Rising(snap) == \E v, w \in LastTwo(snap) : w.obs < v.obs /\ w.value <= v.value

(* The macro signal of run_macro_regime_backtest: the direction of the     *)
(* series since the observation before.                                    *)
MacroSignal(bs, vs, dates, i, c) ==
    LET snap == Snapshot(vs, dates[i], c.publicationLag)
    IN  [read |-> {dates[i]},
         ok |-> \A s \in Symbols : AvailableOnOrBefore(bs, dates[i], s, dates[i]),
         known |-> LastTwo(snap) # {},
         used |-> LastTwo(snap),
         target |-> EqualWeights(IF Rising(snap) THEN Candidates ELSE {})]

-----------------------------------------------------------------------------
(* The loop                                                                *)

NoTarget == [none |-> TRUE]

Start == [weights |-> EqualWeights({}), pending |-> NoTarget, returns |-> <<>>,
          rebalances |-> <<>>, failed |-> FALSE]

(* The day's return on the weights held; a pending target is taken up at   *)
(* its cost and earns from the next date on.                               *)
TakeUp(acc, date) ==
    IF acc.pending = NoTarget
    THEN [acc EXCEPT !.returns = Append(@, [date |-> date, held |-> acc.weights, cost |-> <<>>])]
    ELSE [acc EXCEPT
            !.weights = acc.pending.target,
            !.pending = NoTarget,
            !.returns = Append(@, [date |-> date, held |-> acc.weights, cost |-> acc.pending.target]),
            !.rebalances = Append(@, [signal |-> acc.pending.date, effective |-> date,
                                      read |-> acc.pending.read, used |-> acc.pending.used,
                                      target |-> acc.pending.target])]

(* The signal of the close becomes the pending target.                     *)
TakeSignal(acc, date, sig) ==
    CASE ~sig.ok -> [acc EXCEPT !.failed = TRUE]
      [] sig.ok /\ ~sig.known -> acc
      [] OTHER -> [acc EXCEPT !.pending = [date |-> date, target |-> sig.target,
                                           read |-> sig.read, used |-> sig.used]]

(* A signal is due on a rebalance date past the warm-up, unless it is the  *)
(* last date of the data.                                                  *)
Due(dates, warmup, frequency) ==
    {i \in 1 .. (Len(dates) - 1) :
        /\ i > warmup
        /\ IF frequency = "monthly" THEN IsMonthEnd(dates, i) ELSE IsWeekEnd(dates, i)}

(* One date of the loop; signals has the signal of every date it is due.   *)
DayStep(dates, signals, acc, i) ==
    IF acc.failed THEN acc
    ELSE IF i \in DOMAIN signals
    THEN TakeSignal(TakeUp(acc, dates[i]), dates[i], signals[i])
    ELSE TakeUp(acc, dates[i])

(* The loop over the second and every later date.                          *)
Loop(dates, signals) ==
    LET after[n \in 1 .. Len(dates)] ==
            IF n = 1 THEN Start ELSE DayStep(dates, signals, after[n - 1], n)
    IN  after[Len(dates)]

(* _walk_forward_folds: consecutive test windows after the training window.*)
Folds(returns, c) ==
    LET count == IF Len(returns) < c.train THEN 0 ELSE (Len(returns) - c.train) \div c.test
    IN  [k \in 1 .. count |->
            LET start == c.train + (k - 1) * c.test
            IN  [train |-> {returns[j].date : j \in (start - c.train + 1) .. start},
                 test  |-> SubSeq(returns, start + 1, start + c.test)]]

NoResult == [state |-> "none", returns |-> <<>>, rebalances |-> <<>>, folds |-> <<>>]

BacktestResult(c, final) ==
    IF final.failed THEN [NoResult EXCEPT !.state = "point_in_time_violation"]
    ELSE [state |-> "ran", returns |-> final.returns, rebalances |-> final.rebalances,
          folds |-> Folds(final.returns, c)]

(* run_dual_momentum_backtest: monthly, once the lookback is filled.       *)
RunDualMomentum(bs, dates, c) ==
    LET signals == [i \in Due(dates, c.long, "monthly") |-> MomentumSignal(bs, dates, i, c)]
    IN  IF ~ValidMomentumConfig(c) \/ Len(dates) <= c.long + 1 THEN NoResult
        ELSE BacktestResult(c, Loop(dates, signals))

(* run_quant_factor_backtest: weekly or monthly, once every window is      *)
(* filled.                                                                 *)
RunQuantFactor(bs, dates, c) ==
    LET warmup == c.skip + (IF c.long > c.vol THEN c.long ELSE c.vol)
        signals == [i \in Due(dates, warmup, c.frequency) |-> FactorSignal(bs, dates, i, c)]
    IN  IF ~ValidFactorConfig(c) \/ Len(dates) <= warmup + 1 THEN NoResult
        ELSE BacktestResult(c, Loop(dates, signals))

(* run_macro_regime_backtest: monthly; a run without a rebalance raises.   *)
RunMacroRegime(bs, vs, dates, c) ==
    LET signals == [i \in Due(dates, 0, "monthly") |-> MacroSignal(bs, vs, dates, i, c)]
        done == BacktestResult(c, Loop(dates, signals))
    IN  IF ~ValidMacroConfig(c) \/ Len(dates) <= c.train + 1 THEN NoResult
        ELSE IF done.state = "ran" /\ done.rebalances = <<>> THEN NoResult
        ELSE done

RunBacktest(bs, vs, c) ==
    CASE c.kind = "momentum" -> RunDualMomentum(bs, CommonHistory(bs), c)
      [] c.kind = "factor" -> RunQuantFactor(bs, CommonHistory(bs), c)
      [] c.kind = "macro" -> RunMacroRegime(bs, vs, CommonHistory(bs), c)

-----------------------------------------------------------------------------
(* Collection                                                              *)

(* _daily_estimated_available_at: 20:00 in New York is past midnight UTC,  *)
(* so the UTC date of a provider's estimate is the date after the session; *)
(* bars ingested from a file bring their own timestamp (lag 0 here).       *)
EstimatedAvailable(d, lag) == d + lag

BTInit ==
    /\ config \in Configs
    /\ bars = [d \in {} |-> {}]
    /\ vintages = {}
    /\ today = 0
    /\ result = NoResult

(* The next session: ingest_tiingo_eod_response stores the adjusted close  *)
(* of the symbols the vendor delivers; the backtest is run again.          *)
Collect(up, missing) ==
    /\ today < LastDate
    /\ today' = today + 1
    /\ LET before(s) == LET seen == {d \in DOMAIN bars : s \in DOMAIN bars[d]}
                        IN  IF seen = {} THEN 2
                            ELSE Px(bars, CHOOSE d \in seen : \A e \in seen : e <= d, s)
           day == [s \in Symbols \ missing |->
                     [px |-> before(s) + (IF s \in up THEN 1 ELSE 0),
                      avail |-> EstimatedAvailable(today', config.availLag)]]
       IN  bars' = [d \in 1 .. today' |-> IF d = today' THEN day ELSE bars[d]]
    /\ result' = RunBacktest(bars', vintages, config)
    /\ UNCHANGED <<config, vintages>>

(* A macro release: a new observation or the revision of an earlier one,   *)
(* public from today (parse_alfred_payload).                               *)
Release(obs, value) ==
    /\ config.kind = "macro"
    /\ today > 0 /\ obs <= today
    /\ ~\E v \in vintages : v.start = today
    /\ vintages' = vintages \cup {[obs |-> obs, start |-> today, value |-> value]}
    /\ result' = RunBacktest(bars, vintages', config)
    /\ UNCHANGED <<config, bars, today>>

BTNext ==
    \/ \E up \in {{}} \cup {{s} : s \in Candidates \cup {Spy}},
          missing \in {{}, {CHOOSE s \in Candidates : TRUE}} : Collect(up, missing)
    \/ \E obs \in 1 .. LastDate, value \in 1 .. 2 : Release(obs, value)

BTSpec == BTInit /\ [][BTNext]_btvars

-----------------------------------------------------------------------------
(* Properties                                                              *)

(* Adding a session never rewrites what the backtest said of the earlier   *)
(* ones: the returns, the trades and the walk-forward folds of the longer  *)
(* run extend those of the shorter one.  A decision that read a later bar, *)
(* or a month end recognised only in hindsight, would break it.            *)
PastIsFixed ==
    [][(result.state = "ran" /\ result'.state = "ran") =>
         /\ IsPrefix(result.returns, result'.returns)
         /\ IsPrefix(result.rebalances, result'.rebalances)
         /\ IsPrefix(result.folds, result'.folds)]_btvars

(* Every bar and every macro vintage a trade is based on was available by  *)
(* the date of its signal, the trade takes place after that date, and the  *)
(* new weights earn nothing on the day of the trade.                       *)
KnownAtDecision ==
    \A k \in DOMAIN result.rebalances :
        LET r == result.rebalances[k]
            earns == {j \in DOMAIN result.returns : result.returns[j].date > r.effective}
        IN  /\ \A d \in r.read, s \in Candidates : bars[d][s].avail <= r.signal
            /\ \A v \in r.used : v.start < r.signal
            /\ r.signal < r.effective
            /\ earns # {} =>
                 result.returns[CHOOSE j \in earns : \A m \in earns : j <= m].held = r.target
=============================================================================

------------------------------ MODULE MCResearch ------------------------------
(* Instances of the research: the backtests over data as it is collected,   *)
(* the runs of the automation and the data lake of one run.  They share no  *)
(* variable; part names the one a behaviour is about.                       *)
EXTENDS Backtest, ResearchRun, DataLake

VARIABLE part

-----------------------------------------------------------------------------
(* Backtests: two candidates, months of two sessions and weeks of one, one  *)
(* configuration per strategy kind.                                         *)

Base == [kind |-> "momentum", long |-> 2, short |-> 1, vol |-> 2, skip |-> 1, top |-> 1,
         factors |-> {"momentum"}, regime |-> FALSE, weighting |-> "equal",
         frequency |-> "monthly", publicationLag |-> 1, train |-> 2, test |-> 1,
         availLag |-> 1]
Momentum == Base
Factor == [Base EXCEPT !.kind = "factor", !.long = 3, !.short = 2, !.top = 2,
             !.factors = {"low_volatility", "trend_acceleration"}, !.regime = TRUE,
             !.weighting = "inverse_volatility", !.frequency = "weekly",
             !.skip = 0, !.availLag = 0]
Macro == [Base EXCEPT !.kind = "macro", !.availLag = 0]
AllConfigs == {Momentum, Factor, Macro}

(* At most three price moves and one gap in the data; the prices stay put   *)
(* while macro vintages are released.                                       *)
Moves(b) == FoldFunction(+, 0, [s \in Symbols |->
                Cardinality({b[d][s].px : d \in {e \in DOMAIN b : s \in DOMAIN b[e]}} \ {2})])
Gaps(b) == Cardinality({d \in DOMAIN b : DOMAIN b[d] # Symbols})
BacktestScenario ==
    /\ Moves(bars) <= (IF config.kind = "macro" THEN 0 ELSE 3)
    /\ Gaps(bars) <= (IF config.kind = "momentum" THEN 1 ELSE 0)
    /\ Cardinality(vintages) <= 3

-----------------------------------------------------------------------------
(* Runs: four days with a run each, two families, one hypothesis a week.    *)

PolicyDef ==
    [maxWeek |-> 1, maxRegistered |-> 2, minFolds |-> 1, minDays |-> 1,
     minRebalances |-> 1, poolMultiplier |-> 2, alpha |-> 2, novelty |-> 25,
     rotation |-> <<"momentum", "low_volatility">>, symbols |-> {"A", "B", "SPY"},
     top |-> {1, 2}, long |-> {1}, short |-> {0}, rebalanceEvery |-> 1,
     train |-> 1, test |-> 1, stress |-> 2, ratio |-> 50]
First == [family |-> "momentum", symbols |-> {"A", "SPY"}, top |-> 1, active |-> {"momentum"},
          long |-> 1, short |-> 0, mentions |-> {"A"}, criteria |-> 1]
NearDuplicate == [First EXCEPT !.top = 2]
Second == [First EXCEPT !.family = "low_volatility", !.active = {"low_volatility"},
                        !.symbols = {"A", "B"}]
Unconfigured == [Second EXCEPT !.mentions = {"SPY", "B"}, !.symbols = {"A", "SPY"}]
AnswersDef == {<<>>, <<First, NearDuplicate>>, <<Unconfigured, Second>>}
GainDef == [momentum |-> <<3, 3, 3, -1, 1, 3, 3>>, low_volatility |-> <<3, 3, 3, 3, 1, 3, 3>>]
UniverseDef == {"A", "B", "SPY", "SGOV"}
DeliveriesDef == {UniverseDef, UniverseDef \ {"B"}, {"B"}}

(* One run a day at most, and one trouble in all: an abandoned run, a run   *)
(* without the total-return vendor, a run with higher costs or a weekly     *)
(* run; the second run may lose its evaluation; symbol B may be late on the *)
(* third day.                                                               *)
Marked(state) == {o.run : o \in {p \in collections : p.state = state}}
Abandoned == (1 .. runs) \ (Marked("run_completed") \cup {run.id})
Skipped == Marked("run_completed") \ Marked("collected")
Dear == {e.run : e \in {f \in UNION {EvaluationsOf(h) : h \in Registered(ledger)} : f.costs > 0}}
          \cup (IF run # NoRun /\ run.costs > 0 THEN {run.id} ELSE {})
Unjudged == run # NoRun /\ run.advanced /\ run.family = 0 /\ run.pc \notin {"collect", "plan", "load"}
Weekly == {m \in {"weekly"} : latest[m] # NoRun \/ (run # NoRun /\ run.mode = m)}
RunScenario ==
    /\ runs <= day - FirstDay + 1 /\ runs >= day - FirstDay - 1
    /\ Cardinality(Abandoned \cup Skipped \cup Dear) + Cardinality(Weekly) <= 1
    /\ Unjudged => run.id = 2 /\ Abandoned \cup Skipped \cup Dear \cup Weekly = {}
    /\ \A s \in Universe : (vendor[s] < day - 1 /\ (run # NoRun \/ vendor[s] < day - 2)) =>
          s = "B" /\ day = 6
    /\ \A h \in Registered(ledger) : h.family = "low_volatility" =>
          \E g \in Registered(ledger) : g.family = "momentum"

-----------------------------------------------------------------------------
(* The lake: two Toss responses with overlapping pages, raw and adjusted,   *)
(* over two years, and a Tiingo response that an ingest fetches again.      *)

TossRaw == [source |-> "toss", adjustments |-> {"raw"}, pages |-> <<{2, 3}, {1, 2}>>,
            refetched |-> FALSE]
TossAdjusted == [TossRaw EXCEPT !.adjustments = {"split_adjusted"}]
Tiingo == [source |-> "tiingo", adjustments |-> {"raw", "total_return"}, pages |-> <<{2, 3}>>,
           refetched |-> TRUE]
BundlesDef == {TossRaw, TossAdjusted, Tiingo}
ASSUME ResponsesAgree

-----------------------------------------------------------------------------
Scenario == BacktestScenario /\ RunScenario

Init == /\ part \in {"backtest", "run", "lake"}
        /\ BTInit /\ RRInit /\ LakeInit
        /\ part # "backtest" => config = Momentum
Next == \/ part = "backtest" /\ BTNext /\ UNCHANGED <<part, rrvars, lakevars>>
        \/ part = "run" /\ RRNext /\ UNCHANGED <<part, btvars, lakevars>>
        \/ part = "lake" /\ LakeNext /\ UNCHANGED <<part, btvars, rrvars>>
Spec == Init /\ [][Next]_<<part, btvars, rrvars, lakevars>>
=============================================================================

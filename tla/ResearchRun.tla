------------------------------ MODULE ResearchRun -----------------------------
(***************************************************************************)
(* One research run after the other, as scripts/                           *)
(* run_research_automation_gcp.sh makes them under its lock: collect,      *)
(* plan, evaluate, backtest, verify, upload, report, interpret, mail, and  *)
(* only then the completion marker and the latest-<mode> link.  A failing  *)
(* step or a crash abandons the run; the next one has a new run id.        *)
(*                                                                         *)
(* The prospective holdout of the fixed strategy counts only the dates     *)
(* that a completed run collected in time (prospective.py); its headline   *)
(* is the first window of enough dates (write_experiment_record).          *)
(*                                                                         *)
(* Data.  Every day is a session.  Each symbol is delivered in order.  The *)
(* records keep what the guards ask for; metrics are the window they are   *)
(* computed over.                                                          *)
(***************************************************************************)
EXTENDS Hypotheses

CONSTANTS HoldoutStart,   \* prospective_oos_start of the validation protocol
          MinimumDays,    \* minimum_trading_days (63 or more in the code)
          MaxLag,         \* maximum_collection_lag_calendar_days
          MaxPoints,      \* items per section of an interpretation (8)
          DaysPerWeek,     \* days per ISO week
          Universe,       \* symbols the collector asks for
          Deliveries,     \* symbols the vendor may deliver together
          Answers,        \* proposal sequences the planner may answer with
          Overrides,      \* values of RESEARCH_HYPOTHESIS_MAX_NEW_OVERRIDE
          FirstDay,       \* the day of the first run
          LastDay,        \* bound: days
          MaxRuns         \* bound: runs

ASSUME RunAssumption ==
    /\ HoldoutStart \in Nat \ {0} /\ MinimumDays \in Nat \ {0} /\ MaxLag \in Nat
    /\ Overrides \subseteq Nat
    /\ DaysPerWeek \in Nat \ {0} /\ FirstDay \in Nat \ {0} /\ LastDay \in Nat
    /\ Policy.symbols \cup {CashSymbol, Benchmark} \subseteq Universe
    /\ \A a \in Answers : Len(a) \in Nat /\ DOMAIN a = 1 .. Len(a)

VARIABLES
    day,         \* the UTC date
    vendor,      \* symbol -> last session the vendor delivers
    ledger,      \* the hypothesis ledger
    collections, \* the collection observations and completion markers
    latest,      \* mode -> the run its latest link names, or NoRun
    run,         \* the run in progress, or NoRun
    runs,        \* run ids given out
    published,   \* the reports and mails that left the machine
    mailed       \* the delivery ledger: the runs whose mail is recorded
rrvars == <<day, vendor, ledger, collections, latest, run, runs, published, mailed>>

NoRun == [id |-> 0, through |-> 0, accepted |-> FALSE]

-----------------------------------------------------------------------------
(* Collection evidence                                                     *)

(* append_collection_observation and append_run_completion: append-only,   *)
(* an identical record is not repeated.                                    *)
AppendCollection(obs, r, through, at) ==
    obs \cup {[state |-> "collected", run |-> r, through |-> through, at |-> at]}
AppendCompletion(obs, r) ==
    obs \cup {[state |-> "run_completed", run |-> r, through |-> 0, at |-> 0]}

(* The collections of completed runs.                                      *)
Eligible(obs) ==
    {o \in obs : /\ o.state = "collected"
                 /\ \E c \in obs : c.state = "run_completed" /\ c.run = o.run}

(* assess_collection_continuity: the dates before the first that no        *)
(* completed run collected in time.                                        *)
Captured(obs, d) ==
    \E o \in Eligible(obs) : o.through >= d /\ o.at >= d /\ o.at - d <= MaxLag
Continuity(obs, dates) ==
    LET missed == {d \in dates : ~Captured(obs, d)}
    IN  [verified |-> {d \in dates : \A e \in missed : d < e},
         gap |-> missed # {}]

-----------------------------------------------------------------------------
(* The fixed strategy                                                      *)

NoRecord == [state |-> "not_available", revealed |-> FALSE, window |-> {}, metrics |-> FALSE]

FirstDates(dates, n) == {d \in dates : Cardinality({e \in dates : e < d}) < n}

(* A bug: the latest window instead of the first.                          *)
HeadlineWindowLatest(verified) ==
    {d \in verified : Cardinality({e \in verified : e > d}) < MinimumDays}

(* The headline is computed over the first minimum_trading_days.           *)
HeadlineWindow(verified) == FirstDates(verified, MinimumDays)

(* write_experiment_record over the returns up to the as-of date (0: all   *)
(* stored dates).  A gap names the state even when the window before it    *)
(* is complete and its metrics are in the record.                          *)
ExperimentRecord(obs, points, asOf) ==
    LET common == Min({PointsThrough(points, asOf)[s] : s \in Universe})
        continuity == Continuity(obs, HoldoutStart .. common)
        complete == Cardinality(continuity.verified) >= MinimumDays
    IN  [state |-> IF continuity.gap THEN "invalid_data_gap"
                   ELSE IF complete THEN "completed" ELSE "collecting",
         revealed |-> complete, metrics |-> complete,
         window |-> IF complete THEN HeadlineWindow(continuity.verified) ELSE {}]

(* strategy_snapshot: the consistency a record must have to be reported.   *)
SnapshotAccepts(record) ==
    /\ record.state = "completed" => record.revealed
    /\ record.state \in {"collecting", "invalid_data_gap"} => ~record.revealed /\ ~record.metrics

(* The gates of strategy_snapshot.                                         *)
MethodologyState(record) ==
    CASE record.state = "collecting" -> "collecting"
      [] record.state = "invalid_data_gap" -> "failed"
      [] record.state = "completed" -> "passed"
      [] OTHER -> "not_evaluated"

(* autonomous_research_snapshot: an evaluation lists every registered      *)
(* hypothesis, evaluated, reused or carried forward.                       *)
CandidateCount == IF run.family = 0 THEN 0 ELSE Cardinality(Registered(ledger))

-----------------------------------------------------------------------------
RRInit ==
    /\ day = FirstDay
    /\ vendor = [s \in Universe |-> FirstDay - 1]
    /\ ledger = EmptyLedger
    /\ collections = {}
    /\ latest = [m \in {"daily", "weekly"} |-> NoRun]
    /\ run = NoRun
    /\ runs = 0
    /\ published = {}
    /\ mailed = {}

(* Time and the vendor.  A session is delivered on the day after it at the *)
(* earliest.                                                               *)
Tomorrow ==
    /\ day < LastDay /\ run = NoRun
    /\ day' = day + 1
    /\ UNCHANGED <<vendor, ledger, collections, latest, run, runs, published, mailed>>

VendorDelivers(ss) ==
    /\ run = NoRun
    /\ \A s \in ss : vendor[s] < day - 1
    /\ vendor' = [s \in Universe |-> IF s \in ss THEN day - 1 ELSE vendor[s]]
    /\ UNCHANGED <<day, ledger, collections, latest, run, runs, published, mailed>>

(* The lock keeps runs apart; resolve_collection_window asks for the days  *)
(* before today.                                                           *)
StartRun(mode) ==
    /\ run = NoRun /\ runs < MaxRuns
    /\ run' = [id |-> runs + 1, mode |-> mode, pc |-> "collect", through |-> 0,
               previous |-> 0, advanced |-> FALSE, family |-> 0, costs |-> 0, todo |-> {},
               pending |-> <<>>, record |-> NoRecord, accepted |-> FALSE]
    /\ runs' = runs + 1
    /\ UNCHANGED <<day, vendor, ledger, collections, latest, published, mailed>>

At(pc) == run # NoRun /\ run.pc = pc

(* research_collect_tiingo, and the market date of the run that            *)
(* latest-daily names.                                                     *)
CollectTiingo ==
    /\ At("collect")
    /\ LET through == Min({vendor[s] : s \in Universe})
           previous == latest["daily"].through
       IN  /\ collections' = AppendCollection(collections, run.id, through, day)
           /\ run' = [run EXCEPT !.through = through, !.previous = previous,
                        !.advanced = previous = 0 \/ through > previous, !.pc = "plan"]
    /\ UNCHANGED <<day, vendor, ledger, latest, runs, published, mailed>>

(* The licence or the secret is missing: no total-return history in this   *)
(* run, and none of its successors finds a previous market date.           *)
SkipTiingo ==
    /\ At("collect")
    /\ run' = [run EXCEPT !.pc = "verify"]
    /\ UNCHANGED <<day, vendor, ledger, collections, latest, runs, published, mailed>>

(* research_plan_hypotheses: one new hypothesis on a daily run with new    *)
(* data, none otherwise, unless an operator overrides it; a failure (no    *)
(* answer, or a crash of the command after some registrations) is          *)
(* tolerated.                                                              *)
PlanLimits == {IF run.mode = "daily" /\ run.advanced THEN 1 ELSE 0} \cup Overrides

Plan(proposals, maxNew) ==
    /\ At("plan")
    /\ maxNew \in PlanLimits
    /\ ledger' = PlanHypotheses(ledger, day \div DaysPerWeek, maxNew, proposals)
    /\ run' = [run EXCEPT !.pc = IF run.mode = "weekly" \/ run.advanced
                                 THEN "load" ELSE "verify"]
    /\ UNCHANGED <<day, vendor, collections, latest, runs, published, mailed>>

(* evaluate_registered_hypotheses reads the registered hypotheses once;    *)
(* their number is the family of the correction.  The costs are what the   *)
(* calibration file says at this time.                                     *)
LoadHypotheses(costs) ==
    /\ At("load")
    /\ run' = [run EXCEPT !.todo = {h \in Registered(ledger) :
                                      /\ ~EvaluatedIn(ledger, h, run.id)
                                      /\ ~CarriedForward(ledger, h, run.mode)},
                          !.family = Max({1, Cardinality(Registered(ledger))}),
                          !.costs = costs,
                          !.pc = "evaluate"]
    /\ UNCHANGED <<day, vendor, ledger, collections, latest, runs, published, mailed>>

(* The command fails, at the start or midway, and the run goes on without  *)
(* its result.                                                             *)
EvaluationFails ==
    /\ At("load") \/ At("evaluate")
    /\ run' = [run EXCEPT !.todo = {}, !.pending = <<>>, !.family = 0, !.pc = "evaluate"]
    /\ UNCHANGED <<day, vendor, ledger, collections, latest, runs, published, mailed>>

(* The files are taken in the order of their names, any fixed order.       *)
Turn(h) == h \in run.todo /\ \A g \in run.todo : Place(h.family) <= Place(g.family)

(* The evaluation of one hypothesis; the protocol of a passed screen is    *)
(* registered before the evaluation is recorded.                           *)
Evaluate(h, luck) ==
    /\ At("evaluate") /\ Turn(h) /\ run.pending = <<>>
    /\ LET e == Evaluation(ledger, h, vendor, run.previous, run.family, run.costs,
                         run.id, luck)
       IN  /\ ledger' = IF e.passed /\ h \notin DOMAIN ledger.cutoffs
                        THEN RegisterProtocol(ledger, h, CutoffOf(e)) ELSE ledger
           /\ run' = [run EXCEPT !.pending = <<h, e>>]
    /\ UNCHANGED <<day, vendor, collections, latest, runs, published, mailed>>

Record ==
    /\ At("evaluate") /\ run.pending # <<>>
    /\ ledger' = IF EvaluatedIn(ledger, run.pending[1], run.id) THEN ledger
                 ELSE RecordEvaluation(ledger, run.pending[1], run.pending[2])
    /\ run' = [run EXCEPT !.todo = @ \ {run.pending[1]}, !.pending = <<>>]
    /\ UNCHANGED <<day, vendor, collections, latest, runs, published, mailed>>

(* research_backtest of the fixed strategy up to the previous market date. *)
RunStrategy ==
    /\ At("evaluate") /\ run.todo = {} /\ run.pending = <<>>
    /\ run' = [run EXCEPT !.record = ExperimentRecord(collections, vendor, run.previous),
                          !.pc = "verify"]
    /\ UNCHANGED <<day, vendor, ledger, collections, latest, runs, published, mailed>>

(* verify_research_run: a record the snapshot refuses fails the run.       *)
Verify ==
    /\ At("verify")
    /\ run' = [run EXCEPT !.accepted = SnapshotAccepts(run.record),
                          !.pc = IF SnapshotAccepts(run.record) THEN "upload" ELSE "failed"]
    /\ UNCHANGED <<day, vendor, ledger, collections, latest, runs, published, mailed>>

(* upload_tree (every object created once), then one BigQuery row under    *)
(* the run id; a run of the same mode with nothing new sends no mail.      *)
Upload ==
    /\ At("upload")
    /\ published' = published \cup {[run |-> run.id, what |-> "report", record |-> run.record]}
    /\ run' = [run EXCEPT !.pc = IF run.mode = "daily" /\ ~run.advanced
                                 THEN "complete" ELSE "interpret"]
    /\ UNCHANGED <<day, vendor, ledger, collections, latest, runs, mailed>>

(* deterministic_interpretation: two findings, one per candidate and one   *)
(* on the strategy; interpretation_from_payload allows MaxPoints.          *)
FallbackPoints == 3 + CandidateCount

(* VertexResearchInterpreter, or the deterministic fallback when it fails. *)
Interpret(answered) ==
    /\ At("interpret")
    /\ run' = [run EXCEPT !.pc = IF answered \/ FallbackPoints <= MaxPoints THEN "mail" ELSE "failed"]
    /\ UNCHANGED <<day, vendor, ledger, collections, latest, runs, published, mailed>>

(* deliver_research_digest: looked up, sent, recorded.                     *)
SendMail ==
    /\ At("mail")
    /\ published' = IF run.id \in mailed THEN published
                    ELSE published \cup {[run |-> run.id, what |-> "mail", record |-> run.record]}
    /\ run' = [run EXCEPT !.pc = "record_mail"]
    /\ UNCHANGED <<day, vendor, ledger, collections, latest, runs, mailed>>

RecordMail ==
    /\ At("record_mail")
    /\ mailed' = mailed \cup {run.id}
    /\ run' = [run EXCEPT !.pc = "complete"]
    /\ UNCHANGED <<day, vendor, ledger, collections, latest, runs, published>>

(* research_record_observation: the completion marker commits the          *)
(* collection evidence of the run.                                         *)
CompleteRun ==
    /\ At("complete")
    /\ collections' = AppendCompletion(collections, run.id)
    /\ run' = [run EXCEPT !.pc = "link"]
    /\ UNCHANGED <<day, vendor, ledger, latest, runs, published, mailed>>

(* ln -sfn: latest-<mode> names the run.                                   *)
LinkLatest ==
    /\ At("link")
    /\ latest' = [latest EXCEPT ![run.mode] =
                    [id |-> run.id, through |-> run.through, accepted |-> run.accepted]]
    /\ run' = NoRun
    /\ UNCHANGED <<day, vendor, ledger, collections, runs, published, mailed>>

(* The run is abandoned: a command failed, or the machine went down.       *)
Abandon ==
    /\ run # NoRun
    /\ run' = NoRun
    /\ UNCHANGED <<day, vendor, ledger, collections, latest, runs, published, mailed>>

RRNext ==
    \/ Tomorrow
    \/ \E ss \in Deliveries : VendorDelivers(ss)
    \/ \E mode \in {"daily", "weekly"} : StartRun(mode)
    \/ CollectTiingo \/ SkipTiingo
    \/ \E proposals \in Answers, maxNew \in {0, 1} \cup Overrides : Plan(proposals, maxNew)
    \/ \E costs \in Costs : LoadHypotheses(costs)
    \/ EvaluationFails
    \/ (run # NoRun /\ \E h \in run.todo, luck \in {0, 1} : Evaluate(h, luck))
    \/ Record \/ RunStrategy \/ Verify \/ Upload
    \/ \E answered \in BOOLEAN : Interpret(answered)
    \/ SendMail \/ RecordMail \/ CompleteRun \/ LinkLatest \/ Abandon

RRSpec == RRInit /\ [][RRNext]_rrvars

-----------------------------------------------------------------------------
(* Properties                                                              *)

EvaluationsOf(h) == ToSet(ledger.evaluations[h])

(* A screen that a run recorded as passed has its prospective protocol,    *)
(* whenever the run died: otherwise the next daily run would screen the    *)
(* hypothesis again on the dates that were to be its sealed future.        *)
PassedHasProtocol ==
    \A h \in Registered(ledger), e \in UNION {EvaluationsOf(g) : g \in Registered(ledger)} :
        (e \in EvaluationsOf(h) /\ e.passed) => h \in DOMAIN ledger.cutoffs

(* No date that a screen of the hypothesis has seen is in the window a     *)
(* prospective verdict is based on.                                        *)
SealedWindow ==
    \A h \in Registered(ledger) : \A e, f \in EvaluationsOf(h) :
        (e.passed /\ e.seen # {}) => e.seen \cap f.window = {}

(* What is to be the evidence stays unseen: a passed screen has its        *)
(* protocol, and no date of a verdict's window was in a screen.            *)
FutureStaysSealed == PassedHasProtocol /\ SealedWindow

(* A verdict is always about the same window, however much data has come   *)
(* since, and a hypothesis that it rejected is qualified by a later run    *)
(* only under other execution costs: every run judges the window again     *)
(* with the cost model it has loaded.                                      *)
NoSecondChance ==
    \A h \in Registered(ledger) : \A j, k \in DOMAIN ledger.evaluations[h] :
        LET e == ledger.evaluations[h][j]
            f == ledger.evaluations[h][k]
        IN  (j < k /\ e.revealed /\ f.revealed) =>
              /\ e.window = f.window
              /\ (e.state = "prospective_not_qualified" /\ e.costs = f.costs) =>
                    f.state = "prospective_not_qualified"

(* The planner never registers more than the week or the register allows,  *)
(* whatever is abandoned and started again.                                *)
WithinAllowance ==
    /\ Cardinality(Registered(ledger)) <= Policy.maxRegistered
    /\ \A w \in 0 .. (LastDay \div DaysPerWeek) :
          Cardinality(RegisteredThisWeek(ledger, w)) <= Policy.maxWeek

(* The headline of the holdout is published over one window only, made of  *)
(* dates that each a completed run held at most MaxLag days later.         *)
HeadlineOnce ==
    \A p \in published :
        p.record.revealed =>
          /\ \A q \in published : q.record.revealed => q.record.window = p.record.window
          /\ \A d \in p.record.window :
                \E o \in collections :
                   /\ o.state = "collected" /\ d <= o.through /\ o.at <= d + MaxLag
                   /\ \E c \in collections : c.state = "run_completed" /\ c.run = o.run

(* Evidence is revealed once: neither a hypothesis nor the headline gets   *)
(* another window after the first one was read, and no abandoned run       *)
(* counts for it.                                                          *)
RevealedOnce == NoSecondChance /\ HeadlineOnce

(* Every record the strategy writes can be reported: a run fails only      *)
(* because something outside it failed.                                    *)
RecordIsReported == At("failed") => run.accepted
=============================================================================

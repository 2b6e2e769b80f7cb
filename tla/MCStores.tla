------------------------------ MODULE MCStores ------------------------------
(* Instances of the stores: the dataset store, with two providers, a good   *)
(* answer per dataset and answers that each break one demand of their       *)
(* normalizer, and the table of observations.  They share no variable; part *)
(* names the one a behaviour is about.                                      *)
EXTENDS DatasetStore, Vintages

VARIABLE part

Common == [malformed |-> FALSE, source |-> "A", sourceRevision |-> 1, available |-> 2]
Row(fields) == fields @@ Common
Batch(dataset, rows) ==
    [dataset |-> dataset, source |-> "A", query |-> dataset, provider |-> 1, received |-> 2,
     available |-> 2, sourceRevision |-> 1, license |-> "permitted", revision |-> 1,
     body |-> rows, status |-> 200, identity |-> TRUE, captured |-> {}]
With(b, changes) == [b EXCEPT !.body = <<changes @@ @[1]>> \o Tail(@)]

Session == Batch("sessions", <<Row([entity |-> "XNYS", day |-> 1, isOpen |-> TRUE,
                                    opens |-> 1, closes |-> 2, received |-> 2])>>)
Action == Batch("actions", <<Row([entity |-> "SPY", day |-> 1, action |-> "SPLIT",
                                  terms |-> {2}, received |-> 2])>>)
Price == Batch("daily-prices", <<Row([entity |-> "SPY", day |-> 1, open |-> 2, high |-> 3,
               low |-> 1, close |-> 2, volume |-> 0, session |-> "REGULAR",
               adjustment |-> "raw"])>>)
Fx == Batch("fx", <<Row([entity |-> "USD/KRW", bid |-> 1, mid |-> 2, ask |-> 2,
                         quote |-> "REPORTING"])>>)
Rate(h) == Row([entity |-> "UST", horizon |-> h])
Rates == Batch("risk-free", <<Rate(1), Rate(3), Rate(6), Rate(12)>>)
MacroRow(s) == Row([entity |-> s, released |-> 1, received |-> 2])
SeriesNames == <<"CPI", "CORE_CPI", "PCE", "CORE_PCE", "EMPLOYMENT", "UNEMPLOYMENT", "WAGES",
                 "GDP", "PMI_ISM", "POLICY_RATE", "TREASURY_YIELD", "CREDIT_SPREAD_PROXY">>
Macro == Batch("macro", [i \in 1 .. Len(SeriesNames) |-> MacroRow(SeriesNames[i])])
Consensus == Batch("consensus", <<Row([entity |-> "CPI", quality |-> "KNOWN",
                                       snapshot |-> 1])>>)
Filing(form) == Row([entity |-> "ACME", form |-> form, period |-> 1, filed |-> 1,
                     accepted |-> 1, received |-> 2])
Filings == Batch("filings", <<Filing("a10K"), Filing("a8K")>>)
Financials == Batch("financials", <<Row([entity |-> "ACME", operatingCash |-> 3, capex |-> 1,
                    freeCash |-> 2, filed |-> 1, accepted |-> 1, received |-> 2])>>)
Estimates == Batch("estimates", <<Row([entity |-> "ACME", quality |-> "KNOWN", analysts |-> 1,
                                       snapshot |-> 1])>>)

OffersDef ==
    ("sessions" :> {Session, With(Session, [closes |-> 1]),
                    [Session EXCEPT !.available = 1]}) @@
    ("actions" :> {Action, [Action EXCEPT !.body = <<>>], With(Action, [terms |-> {}]),
                   With(Action, [received |-> 3])}) @@
    ("daily-prices" :> {Price, With([Price EXCEPT !.license = "forbidden", !.source = "B"],
                                    [source |-> "B"]),
                        With(Price, [available |-> 3]), With(Price, [high |-> 1])}) @@
    ("fx" :> {[Fx EXCEPT !.status = 203], With(Fx, [ask |-> 1])}) @@
    ("risk-free" :> {Rates, [Rates EXCEPT !.body = Tail(@)]}) @@
    ("macro" :> {Macro, [Macro EXCEPT !.body = Tail(@)]}) @@
    ("consensus" :> {Consensus, [Consensus EXCEPT !.status = 503],
                     With(Consensus, [quality |-> "UNKNOWN"])}) @@
    ("filings" :> {Filings, [Filings EXCEPT !.body = Reverse(@)]}) @@
    ("financials" :> {Financials, With(Financials, [freeCash |-> 3])}) @@
    ("estimates" :> {Estimates, With(Estimates, [entity |-> "OTHER"]),
                     [Estimates EXCEPT !.identity = FALSE]})

MappingDef == [e \in {"XNYS", "SPY", "USD/KRW", "UST", "ACME"} \cup MACRO_SERIES |-> e]
ExchangeDef == [SPY |-> "XNYS"]
ContractsDef == {[source |-> "A+B", license |-> "permitted"],
                 [source |-> "A+B", license |-> "forbidden"]}

(* Pages: period 1 in two vintages and period 2 in one.                     *)
Column(f, t, v) == [from |-> f, to |-> t, value |-> v]
Page(type, first) ==
    [outputType |-> type, count |-> 2, offset |-> 0, from |-> 1, to |-> 5,
     observations |-> <<[period |-> 1, columns |-> first],
                        [period |-> 2, columns |-> {Column(3, 9, 0)}]>>]
Vintages3 == Page(3, {Column(2, 9, 1), Column(4, 9, 2)})
Vintages1 == [Page(1, {Column(2, 3, 1)}) EXCEPT !.count = 3,
                  !.observations = Append(@, [period |-> 1, columns |-> {Column(4, 9, 2)}])]
Overlapping == [Vintages1 EXCEPT !.observations[1].columns = {Column(2, 4, 1)}]
Partial == [Vintages3 EXCEPT !.count = 3]
Alfred(page) == [Batch("series-observation-revisions", <<page>>) EXCEPT !.source = "F",
                     !.received = 5, !.available = 5]
PagesDef == {Alfred(Vintages3), Alfred(Overlapping), Alfred(Partial)}
Capture(page) == [source |-> "F", query |-> "captured", received |-> 5, provider |-> 1,
                  status |-> 200, license |-> "permitted", revision |-> 1, page |-> page,
                  asked |-> [from |-> page.from, to |-> page.to]]
CapturesDef == {Capture(Vintages1), Capture([Vintages1 EXCEPT !.from = 4]),
                [Capture(Vintages1) EXCEPT !.asked.from = 2]}

(* At most one answer is refused and one price context assembled, next to   *)
(* the fourth stage of the first plan or between runs.  A second run or a   *)
(* damaged file is followed while the catalogue is small, and an ALFRED     *)
(* ingestion is not followed by a plan.                                     *)
Scenario ==
    /\ Cardinality({h \in health : ~h.ready}) <= 1
    /\ Cardinality({m \in disk.manifest : m.layer = "gold"}) <= 1
    /\ job["assembler"] # Idle =>
          ((plan = 4 /\ starts = 1) \/ (plan = 0 /\ job["collector"] = Idle))
    /\ (bad # NoFiles \/ job["assembler"] # Idle) => Cardinality(disk.manifest) <= 9
    /\ starts = 2 => Cardinality(disk.manifest) <= 7
    /\ (starts = 2 /\ faults > 0) => plan <= 4
    /\ plan > 0 => \A h \in health : h.source # "F"
    /\ Cardinality({o \in observations : o.period = 2}) <= 1

Init == part \in {"datasets", "observations"} /\ DSInit /\ VTInit
Next == \/ part = "datasets" /\ DSNext /\ UNCHANGED <<part, vtvars>>
        \/ part = "observations" /\ VTNext /\ UNCHANGED <<part, dsvars>>
Spec == Init /\ [][Next]_<<part, dsvars, vtvars>>
=============================================================================

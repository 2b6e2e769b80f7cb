------------------------------- MODULE Phase9 -------------------------------
(* The provider rows the collector admits (data/phase9.py) and the ALFRED   *)
(* vintages (data/alfred.py, data/alfred_ingress.py): what each normalizer  *)
(* demands of a response, over rows whose instants and decimals are         *)
(* integers.  A row that lacks a field, or whose field does not parse as    *)
(* its type, has malformed TRUE.                                            *)
EXTENDS Integers, Sequences, FiniteSets, SequencesExt, FiniteSetsExt

(* The datasets of the collection plan, in the order they are collected.    *)
COLLECTION_ORDER ==
    <<"sessions", "actions", "daily-prices", "fx", "risk-free", "macro", "consensus",
      "filings", "financials", "estimates">>

AllowVerifiedEmpty(dataset) == dataset \in {"actions", "filings"}

INITIAL_DAILY_ETFS == {"SPY", "QQQ", "BIL"}
MACRO_SERIES ==
    {"CPI", "CORE_CPI", "PCE", "CORE_PCE", "EMPLOYMENT", "UNEMPLOYMENT", "WAGES", "GDP",
     "PMI_ISM", "POLICY_RATE", "TREASURY_YIELD", "CREDIT_SPREAD_PROXY"}
HORIZONS == {1, 3, 6, 12}
FILING_ORDER == [a10K |-> 0, a10Q |-> 1, a8K |-> 2, release |-> 3]

Rows(rows) == {rows[i] : i \in 1 .. Len(rows)}

NormalizePrices(rows) ==
    \A r \in Rows(rows) :
        /\ \A f \in {r.open, r.high, r.low, r.close} : f > 0
        /\ r.high >= Max({r.open, r.close})
        /\ r.low <= Min({r.open, r.close})
        /\ r.volume >= 0 /\ r.session = "REGULAR"
        /\ r.adjustment \in {"raw", "split_adjusted", "total_return"}

NormalizeSessions(rows) == \A r \in Rows(rows) : r.isOpen => r.opens < r.closes

NormalizeActions(rows) ==
    \A r \in Rows(rows) :
        /\ r.action \in {"DIVIDEND", "SPLIT", "REVERSE_SPLIT", "MERGER", "SPINOFF",
                         "DELISTING", "TICKER_CHANGE"}
        /\ r.terms # {}

NormalizeFx(rows) ==
    \A r \in Rows(rows) :
        /\ 0 < r.bid /\ r.bid <= r.mid /\ r.mid <= r.ask
        /\ r.entity = "USD/KRW"
        /\ r.quote \in {"REPORTING", "EXECUTED_CONVERSION"}

NormalizeRates(rows) ==
    /\ {r.horizon : r \in Rows(rows)} = HORIZONS
    /\ Len(rows) = Cardinality(HORIZONS)

NormalizeMacro(rows) ==
    /\ \A r \in Rows(rows) : /\ r.entity \in MACRO_SERIES
                             /\ r.available >= Max({r.released, r.received})
    /\ {r.entity : r \in Rows(rows)} = MACRO_SERIES

NormalizeConsensus(rows) ==
    \A r \in Rows(rows) : r.quality = "KNOWN" /\ r.available >= r.snapshot

(* The forms of one company and period come in the order of FILING_ORDER.   *)
FilingTimes(r) == /\ r.filed <= r.accepted /\ r.accepted <= r.received
                  /\ r.received <= r.available
NormalizeFilings(rows) ==
    /\ \A r \in Rows(rows) : r.form \in DOMAIN FILING_ORDER /\ FilingTimes(r)
    /\ \A i, j \in 1 .. Len(rows) :
          (i < j /\ rows[i].entity = rows[j].entity /\ rows[i].period = rows[j].period)
            => FILING_ORDER[rows[i].form] <= FILING_ORDER[rows[j].form]

NormalizeFinancials(rows) ==
    \A r \in Rows(rows) : r.freeCash = r.operatingCash - r.capex /\ FilingTimes(r)

NormalizeEstimates(rows) ==
    \A r \in Rows(rows) : /\ r.quality = "KNOWN" /\ r.analysts > 0
                          /\ r.available >= r.snapshot

WellFormed(rows) == \A r \in Rows(rows) : ~r.malformed

Normalize(dataset, rows) ==
    /\ WellFormed(rows)
    /\ CASE dataset = "daily-prices" -> NormalizePrices(rows)
         [] dataset = "sessions" -> NormalizeSessions(rows)
         [] dataset = "actions" -> NormalizeActions(rows)
         [] dataset = "fx" -> NormalizeFx(rows)
         [] dataset = "risk-free" -> NormalizeRates(rows)
         [] dataset = "macro" -> NormalizeMacro(rows)
         [] dataset = "consensus" -> NormalizeConsensus(rows)
         [] dataset = "filings" -> NormalizeFilings(rows)
         [] dataset = "financials" -> NormalizeFinancials(rows)
         [] dataset = "estimates" -> NormalizeEstimates(rows)

(* A bug: the rows' own times are not compared with the batch's.            *)
CollectedByIdentity(b, rows) ==
    /\ Normalize(b.dataset, rows)
    /\ \A r \in Rows(rows) : r.source = b.source /\ r.sourceRevision = b.sourceRevision

(* Phase9Collector.collect: what checked demands of the normalized rows.    *)
Collected(b, rows) ==
    /\ Normalize(b.dataset, rows)
    /\ \A r \in Rows(rows) :
          /\ r.source = b.source /\ r.sourceRevision = b.sourceRevision
          /\ r.available <= b.available
          /\ "received" \in DOMAIN r => r.received <= b.received

-----------------------------------------------------------------------------
(* ALFRED.  A page is a sequence of observations [period, columns].  One of *)
(* output type 1 has a single column [from, to, value], one of type 3 a     *)
(* column [from, value] per vintage.  Days are integers; value 0 stands for *)
(* the provider's ".", which is kept as a version of its own.               *)

Forever == 99

(* The versions a page states, before the intervals of type 3 are closed.   *)
Versions(page) ==
    IF page.outputType = 1
    THEN UNION {{[period |-> o.period, from |-> v.from, to |-> v.to, value |-> v.value]
                     : v \in o.columns} : o \in Rows(page.observations)}
    ELSE UNION {{[period |-> o.period, from |-> v.from, to |-> Forever, value |-> v.value]
                     : v \in o.columns} : o \in Rows(page.observations)}

Following(v, versions) ==
    {w \in versions : w.period = v.period /\ w.from > v.from}

PageOk(page) ==
    /\ page.count = Len(page.observations) /\ page.offset = 0
    /\ \A v \in Versions(page) : v.from <= v.to /\ v.from >= v.period
    /\ \A v, w \in Versions(page) :
          (v.period = w.period /\ v.from = w.from) => v = w
    /\ page.outputType = 1 =>
          \A v \in Versions(page) : \A w \in Following(v, Versions(page)) : v.to < w.from

(* A bug: a vintage of type 3 ends on the day the next one begins.         *)
NormalizeVintagesTouching(page) ==
    LET versions == Versions(page)
    IN  IF page.outputType = 1 THEN versions
        ELSE {[v EXCEPT !.to = IF Following(v, versions) = {} THEN Forever
                               ELSE Min({w.from : w \in Following(v, versions)})]
                 : v \in versions}

(* normalize_vintages: a vintage of type 3 ends the day before the next one *)
(* of its period.                                                           *)
NormalizeVintages(page) ==
    LET versions == Versions(page)
    IN  IF page.outputType = 1 THEN versions
        ELSE {[v EXCEPT !.to = IF Following(v, versions) = {} THEN Forever
                               ELSE Min({w.from : w \in Following(v, versions)}) - 1]
                 : v \in versions}

(* normalize_captured_vintages: the rows lie within what was asked for.     *)
CapturedOk(page) ==
    /\ PageOk(page)
    /\ \A v \in NormalizeVintages(page) :
          IF page.outputType = 3 THEN v.from \in page.from .. page.to
          ELSE v.from <= page.to /\ v.to >= page.from
=============================================================================

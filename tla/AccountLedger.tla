----------------------------- MODULE AccountLedger -----------------------------
(* The tables of the Toss account ledger (toss_trading/account/ledger.py) and *)
(* the statements its methods run on them.  A database is a record, so that   *)
(* the live ledger and the fresh one a replay builds share one definition.    *)
(*                                                                            *)
(* An execution report is reduced to two cumulative numbers: qty stands for   *)
(* the filled quantity and amount, fee for commission and tax; counted says   *)
(* whether the report states the quantity and the amount at all.  Row order   *)
(* is insertion order (created_at, then rowid).                               *)
EXTENDS Integers, Sequences, SequencesExt, FiniteSets

CONSTANTS
    Orders, Side,          \* broker orders; BUY or SELL
    Holdings,              \* symbols held, and the currency of each or NoCurrency
    Configured,            \* buying_power_currency
    Runs                   \* snapshot run ids, taken in increasing order

ASSUME LedgerAssumption ==
    /\ IsFiniteSet(Orders) /\ Side \in [Orders -> {"BUY", "SELL"}]
    /\ IsFiniteSet(DOMAIN Holdings) /\ IsFiniteSet(Configured) /\ Configured # {}
    /\ Runs \subseteq Nat \ {0}

NoCurrency == ""
NoSnapshot == [seq |-> 0, qty |-> 0, fee |-> 0]

EmptyTables ==
    [raw |-> [r \in Runs |-> <<>>],    \* raw_api_response of each run
     rows |-> {},                      \* normalized snapshot rows: run, table, key
     orders |-> <<>>,                  \* broker_order_snapshot
     snaps |-> <<>>,                   \* execution_snapshot_log
     deltas |-> <<>>,                  \* execution_delta_log
     cash |-> {},                      \* cash_ledger
     blocks |-> <<>>]                  \* broker_reconciliation_log

(* save_raw_api_response: the last response of a request, committed at once. *)
SaveRaw(db, run, endpoint, ok, body) ==
    [db EXCEPT !.raw[run] = Append(@, [endpoint |-> endpoint, ok |-> ok, body |-> body])]

(* ingest_accounts, _holdings, _buying_power, _sellable_quantity and          *)
(* _commissions: normalized rows under the run.                               *)
IngestAccounts(db, run) == [db EXCEPT !.rows = @ \cup {<<run, "accounts", "">>}]
IngestHoldings(db, run) ==
    [db EXCEPT !.rows = @ \cup {<<run, "holdings", s>> : s \in DOMAIN Holdings}]
IngestBuyingPower(db, run, currency) ==
    [db EXCEPT !.rows = @ \cup {<<run, "buying-power", currency>>}]
IngestSellableQuantity(db, run, symbol) ==
    [db EXCEPT !.rows = @ \cup {<<run, "sellable-quantity", symbol>>}]
IngestCommissions(db, run) == [db EXCEPT !.rows = @ \cup {<<run, "commissions", "">>}]

IngestOrders(db, run, page) ==
    [db EXCEPT !.orders = @ \o [i \in DOMAIN page |->
        [run |-> run, order |-> page[i].order, settle |-> page[i].settle]]]

-------------------------------------------------------------------------------
(* ingest_execution_snapshots *)

Chain(db, o) == {i \in DOMAIN db.snaps : db.snaps[i].order = o}
(* ORDER BY snapshot_seq DESC LIMIT 1                                         *)
Previous(db, o) ==
    IF Chain(db, o) = {} THEN NoSnapshot
    ELSE db.snaps[CHOOSE i \in Chain(db, o) :
                    \A j \in Chain(db, o) : db.snaps[j].seq <= db.snaps[i].seq]

Repeated(prev, run, report) ==
    /\ prev.seq > 0
    /\ <<prev.qty, prev.fee, prev.status, prev.settle>>
         = <<report.qty, report.fee, report.status, report.settle>>
    /\ prev.run = run

Regressed(prev, report) ==
    prev.seq > 0 /\ (report.qty < prev.qty \/ report.fee < prev.fee)

AppendSnapshot(db, run, prev, report) ==
    LET snap == [order |-> report.order, seq |-> prev.seq + 1, run |-> run,
                 qty |-> report.qty, fee |-> report.fee,
                 status |-> report.status, settle |-> report.settle]
        delta == [run |-> run, order |-> report.order, to |-> prev.seq + 1,
                  qty |-> report.qty - prev.qty, fee |-> report.fee - prev.fee]
    IN [db EXCEPT !.snaps = Append(@, snap),
                  !.deltas = IF delta.qty = 0 /\ delta.fee = 0 THEN @ ELSE Append(@, delta)]

(* UNIQUE(order_id, snapshot_seq) refuses a second successor of a snapshot.   *)
(* A bug: the table does not have the constraint.                             *)
NoConstraint(db, run, prev, report) == FALSE
Collides(db, run, prev, report) ==
    /\ report.counted
    /\ ~Repeated(prev, run, report)
    /\ ~Regressed(prev, report)
    /\ \E i \in DOMAIN db.snaps : db.snaps[i].order = report.order
                                  /\ db.snaps[i].seq = prev.seq + 1

(* A report without quantity or amount is passed over in silence.             *)
IngestReport(db, run, prev, report) ==
    IF ~report.counted \/ Repeated(prev, run, report) THEN db
    ELSE IF Regressed(prev, report)
    THEN [db EXCEPT !.blocks = Append(@, [order |-> report.order, resolved |-> FALSE])]
    ELSE AppendSnapshot(db, run, prev, report)

(* Some reports, taken in one after the other.  The first was compared with a *)
(* row read earlier, the others are compared with what those before have left. *)
IngestExecutions(db, run, prev, page) ==
    LET after[n \in 1 .. Len(page)] ==
            IF n = 1 THEN IngestReport(db, run, prev, page[1])
            ELSE LET d == after[n - 1]
                 IN  IngestReport(d, run, Previous(d, page[n].order), page[n])
    IN  after[Len(page)]

(* How many of the reports one transaction takes in.  The first INSERT begins *)
(* it, and a block or the end of the page commits it; the first report needs  *)
(* none when it is passed over.                                               *)
Transaction(db, run, prev, reports) ==
    LET then(n) == IngestExecutions(db, run, prev, SubSeq(reports, 1, n))
        ends == {n \in 1 .. Len(reports) : \/ n = Len(reports)
                                           \/ then(1) = db
                                           \/ then(n).blocks # db.blocks}
    IN  CHOOSE n \in ends : \A m \in ends : n <= m

(* resolve_reconciliation_block *)
ResolveBlock(db, i) == [db EXCEPT !.blocks[i].resolved = TRUE]

-------------------------------------------------------------------------------
(* post_execution_cash_events and cash_event_gaps *)

RowsOf(db, delta) == {i \in DOMAIN db.orders : db.orders[i].order = delta.order}
OwnRows(db, delta) == {i \in RowsOf(db, delta) : db.orders[i].run = delta.run}

Latest(S) == CHOOSE i \in S : \A j \in S : j <= i

(* A bug: the newest row of the order, whatever run wrote it. *)
OrderOfNewest(db, delta) == db.orders[Latest(RowsOf(db, delta))]
(* The order row a delta is priced with: its own run's newest, or the newest. *)
OrderOf(db, delta) ==
    db.orders[Latest(IF OwnRows(db, delta) # {} THEN OwnRows(db, delta)
                     ELSE RowsOf(db, delta))]

(* The cash events of a delta; a zero amount has none. *)
Expected(delta) ==
    {e \in {[type |-> IF Side[delta.order] = "BUY" THEN "TRADE_COST" ELSE "TRADE_PROCEEDS",
             amount |-> IF Side[delta.order] = "BUY" THEN -delta.qty ELSE delta.qty],
            [type |-> "FEE", amount |-> -delta.fee]} : e.amount # 0}

(* The event id is derived from the delta and the type, and a conflict only   *)
(* updates the settlement date.                                               *)
PostCash(db, run, all) ==
    LET posted == {i \in DOMAIN db.deltas : all \/ db.deltas[i].run = run}
        fresh == UNION {{[delta |-> i, type |-> e.type, amount |-> e.amount,
                          settle |-> OrderOf(db, db.deltas[i]).settle]
                            : e \in Expected(db.deltas[i])} : i \in posted}
        old(e) == {c \in db.cash : c.delta = e.delta /\ c.type = e.type}
    IN [db EXCEPT !.cash =
            {c \in @ : ~\E e \in fresh : e.delta = c.delta /\ e.type = c.type}
            \cup {IF old(e) = {} THEN e
                  ELSE [e EXCEPT !.amount = (CHOOSE c \in old(e) : TRUE).amount] : e \in fresh}]

(* post_execution_cash_events raises when a delta has no order row. *)
Postable(db) == \A i \in DOMAIN db.deltas : RowsOf(db, db.deltas[i]) # {}

(* cash_event_gaps: deltas whose events are missing, unexpected or disagree. *)
CashGaps(db) ==
    {i \in DOMAIN db.deltas :
        \/ RowsOf(db, db.deltas[i]) = {}
        \/ {[type |-> c.type, amount |-> c.amount] : c \in {d \in db.cash : d.delta = i}}
             # Expected(db.deltas[i])
        \/ \E c \in db.cash : c.delta = i /\ c.settle # OrderOf(db, db.deltas[i]).settle}

-------------------------------------------------------------------------------
(* explain_account_state of one complete run *)

RequiredEndpoints == {"accounts", "holdings", "orders-open", "buying-power", "commissions"}
Asked == Configured \cup ({Holdings[s] : s \in DOMAIN Holdings} \ {NoCurrency})
Held(db, run) == {s \in DOMAIN Holdings : <<run, "holdings", s>> \in db.rows}
Blockers(db, run) ==
    {<<"missing_successful_endpoint", e>> : e \in {f \in RequiredEndpoints :
        ~\E i \in DOMAIN db.raw[run] : db.raw[run][i].endpoint = f /\ db.raw[run][i].ok}}
    \cup {<<"missing_normalized_buying_power", run>> : x \in
            IF \E c \in Asked : <<run, "buying-power", c>> \in db.rows THEN {} ELSE {1}}
    \cup {<<"invalid_normalized_holding_value", s>> : s \in
            {h \in Held(db, run) : Holdings[h] = NoCurrency}}
    \cup {<<"missing_buying_power_currency", Holdings[s]>> : s \in
            {h \in Held(db, run) : /\ Holdings[h] # NoCurrency
                                   /\ <<run, "buying-power", Holdings[h]>> \notin db.rows}}
===============================================================================

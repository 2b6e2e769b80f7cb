---------------------------- MODULE AccountFacts ----------------------------
(***************************************************************************)
(* What one reconciliation compares (ledger/reconciliation.py): the facts  *)
(* read from a stored broker snapshot, the facts read from the internal    *)
(* ledger, and the item each pair of facts gives.                          *)
(*                                                                         *)
(* A fact is numeric, with a number, or textual, with a set of words (a    *)
(* list of identities is the set of its words, one word is a singleton).   *)
(* A dimension is a tuple of words.                                        *)
(***************************************************************************)
EXTENDS Integers, OrderStates

(* ReconciliationTarget. *)
OrderTargets == {"ORDER_STATE", "CUMULATIVE_EXECUTION", "COMMISSION", "TAX",
                 "SETTLEMENT_DATE"}
Targets == OrderTargets \cup {"HOLDINGS", "CASH", "OPEN_ORDERS",
                              "SELLABLE_QUANTITY", "BUYING_POWER"}

None == "none"
Whole == <<"*">>

Numeric(target, dimension, number, currency, instrument) ==
    [target |-> target, dimension |-> dimension, numeric |-> TRUE, number |-> number,
     words |-> {}, currency |-> currency, instrument |-> instrument]

Textual(target, dimension, words) ==
    [target |-> target, dimension |-> dimension, numeric |-> FALSE, number |-> 0,
     words |-> words, currency |-> None, instrument |-> None]

(* An empty account has explicit facts for what it has none of. *)
EmptyOrders == {Textual(t, Whole, {}) : t \in OrderTargets}
NoSellable == {Textual("SELLABLE_QUANTITY", Whole, {})}

Holding(symbol, quantity, cost, currency) ==
    { Numeric("HOLDINGS", <<symbol, "quantity">>, quantity, currency, symbol),
      Numeric("HOLDINGS", <<symbol, "average_cost">>, cost, currency, symbol) }

(* The quantity, price and side of an open order, those it states. *)
OpenOrder(o) ==
    { Numeric("OPEN_ORDERS", <<o.id, f>>, o.terms[f], o.currency, o.instrument) :
          f \in DOMAIN o.terms }
    \cup {Textual("OPEN_ORDERS", <<o.id, "side">>, {w}) : w \in {o.side} \ {None}}

(* The cumulative execution of an order. *)
MetricTarget == [ quantity |-> "CUMULATIVE_EXECUTION", amount |-> "CUMULATIVE_EXECUTION",
                  commission |-> "COMMISSION", tax |-> "TAX" ]

Executed(o) ==
    { Numeric(MetricTarget[f], <<o.id, f>>, o.filled[f], o.currency, o.instrument) :
          f \in DOMAIN o.filled }
    \cup {Textual("SETTLEMENT_DATE", <<o.id>>, {o.settlement})}

StateFact(o, state) == Textual("ORDER_STATE", <<o.id>>, {state})

(* The open orders, named together, each with its terms. *)
OpenFacts(open) ==
    {Textual("OPEN_ORDERS", Whole, {o.id : o \in open})} \cup UNION {OpenOrder(o) : o \in open}

ExecutionFacts(orders) ==
    (IF orders = {} THEN EmptyOrders ELSE {})
    \cup UNION {Executed(o) : o \in {x \in orders : x.executed}}

-----------------------------------------------------------------------------
(* The broker's side: a snapshot payload p. *)

(* order_rows overridden by detail_rows: the closed row of an order hides  *)
(* its open row, its detail both.                                          *)
OrdersOf(p) ==
    LET ids(rows) == {o.id : o \in rows} IN
    p.details
    \cup {o \in p.closed : o.id \notin ids(p.details)}
    \cup {o \in p.open : o.id \notin ids(p.details) \cup ids(p.closed)}

BrokerHoldings(p) ==
    {Textual("HOLDINGS", Whole, {h.symbol : h \in p.holdings})}
    \cup UNION {Holding(h.symbol, h.quantity, h.cost, h.currency) : h \in p.holdings}

BrokerSellable(p) ==
    {Numeric("SELLABLE_QUANTITY", <<s>>, p.sellable[s], None, s) : s \in DOMAIN p.sellable}
    \cup (IF DOMAIN p.sellable = {} THEN NoSellable ELSE {})

BrokerMoney(p) ==
    {Numeric("CASH", <<c>>, p.cash[c], c, None) : c \in DOMAIN p.cash}
    \cup {Numeric("BUYING_POWER", <<c>>, p.buying[c], c, None) : c \in DOMAIN p.buying}

BrokerStates(p) ==
    {StateFact(o, Normalize(o.state)) : o \in {x \in OrdersOf(p) : x.state # None}}

(* _broker_facts. *)
BrokerFacts(p) ==
    BrokerHoldings(p) \cup BrokerSellable(p) \cup BrokerMoney(p) \cup BrokerStates(p)
    \cup OpenFacts(p.open) \cup ExecutionFacts(OrdersOf(p))

-----------------------------------------------------------------------------
(* The ledger's side: what the ledgers answer at the instant of the run.   *)
(* b.positions and b.cash have one entry for each opening balance;         *)
(* b.readable says whose state() returns rather than raises.               *)

OpenStates == {"SUBMITTING", "SUBMITTED", "ACKNOWLEDGED", "OPEN", "PARTIALLY_FILLED",
               "CANCEL_PENDING", "REPLACE_PENDING", "UNKNOWN", "REVIEW_REQUIRED"}

Held(b) == {s \in DOMAIN b.positions \cap b.readable : b.positions[s].quantity # 0}

LedgerOpen(b) == {o \in b.orders : o.state \in OpenStates}

LedgerHoldings(b) ==
    {Textual("HOLDINGS", Whole, Held(b))}
    \cup UNION {Holding(s, b.positions[s].quantity, b.positions[s].cost, b.positions[s].currency) :
                    s \in Held(b)}

LedgerSellable(b) ==
    {Numeric("SELLABLE_QUANTITY", <<s>>, b.positions[s].sellable, None, s) : s \in Held(b)}
    \cup (IF Held(b) = {} THEN NoSellable ELSE {})

LedgerMoney(b) ==
    LET known == DOMAIN b.cash \cap b.readable IN
    {Numeric("CASH", <<c>>, b.cash[c].cash, c, None) : c \in known}
    \cup {Numeric("BUYING_POWER", <<c>>, b.cash[c].orderable, c, None) : c \in known}

LedgerStates(b) == {StateFact(o, o.state) : o \in {x \in b.orders : x.state # None}}

(* _internal_facts. *)
InternalFacts(b) ==
    LedgerHoldings(b) \cup LedgerSellable(b) \cup LedgerMoney(b) \cup LedgerStates(b)
    \cup OpenFacts(LedgerOpen(b)) \cup ExecutionFacts(b.orders)

-----------------------------------------------------------------------------
(* Comparison. *)

KeyOf(f) == <<f.target, f.dimension>>
KeysOf(facts) == {KeyOf(f) : f \in facts}
FactAt(facts, key) == CHOOSE f \in facts : KeyOf(f) = key

(* _fact_map refuses two facts of one target and dimension. *)
Unambiguous(facts) == \A f, g \in facts : KeyOf(f) = KeyOf(g) => f = g

(* ToleranceRule.matches and specificity; a rule's None is any. *)
Applies(rule, f) ==
    /\ rule.target = f.target
    /\ rule.currency \in {None, f.currency}
    /\ rule.instrument \in {None, f.instrument}

Specificity(rule) ==
    (IF rule.currency # None THEN 1 ELSE 0) + (IF rule.instrument # None THEN 1 ELSE 0)

(* tolerance_for: the rules of the highest specificity that apply. *)
Strictest(rules, f) ==
    {r \in rules : Applies(r, f) /\ \A q \in rules : Applies(q, f) => Specificity(q) <= Specificity(r)}

Distance(f, g) == IF f.number >= g.number THEN f.number - g.number ELSE g.number - f.number

(* Bug: a dimension that one side lacks is taken to agree. *)
StatusLenient(broker, internal, rules, key) ==
    LET f == FactAt(broker, key)
        g == FactAt(internal, key)
    IN  IF key \notin KeysOf(broker) \cap KeysOf(internal) THEN "MATCH"
        ELSE IF f.words = g.words /\ Distance(f, g) = 0 THEN "MATCH" ELSE "MISMATCH"

(* The status of one dimension: the verdicts of _compare in their order. *)
StatusOf(broker, internal, rules, key) ==
    LET f == FactAt(broker, key)
        g == FactAt(internal, key)
    IN  IF key \notin KeysOf(broker) \cap KeysOf(internal) \/ f.numeric # g.numeric
        THEN "UNVERIFIABLE"
        ELSE IF ~f.numeric
        THEN IF f.words = g.words THEN "MATCH" ELSE "MISMATCH"
        ELSE IF Strictest(rules, f) = {}
        THEN "UNVERIFIABLE"
        ELSE IF Distance(f, g) = 0
        THEN "MATCH"
        ELSE IF \E r \in Strictest(rules, f) : Distance(f, g) <= r.absolute
        THEN "TOLERANCE_MATCH"
        ELSE "MISMATCH"

(* Every dimension either side names, and every target neither does. *)
ItemKeys(broker, internal) ==
    LET keys == KeysOf(broker) \cup KeysOf(internal) IN
    keys \cup {<<t, Whole>> : t \in Targets \ {k[1] : k \in keys}}

(* _compare: a function from the dimensions to their statuses. *)
Items(broker, internal, rules) ==
    [k \in ItemKeys(broker, internal) |-> StatusOf(broker, internal, rules, k)]

(* tolerance_for raises when two rules are equally specific. *)
Decidable(broker, internal, rules) ==
    \A f \in broker, g \in internal :
        f.numeric /\ g.numeric /\ KeyOf(f) = KeyOf(g) =>
            \A r, q \in Strictest(rules, f) : r = q

-----------------------------------------------------------------------------
(* What a clean comparison is to mean, in terms of the account itself. *)

Near(rules, target, x, y) ==
    x = y \/ \E r \in rules : r.target = target /\ x - y <= r.absolute /\ y - x <= r.absolute

Row(rows, id) == CHOOSE o \in rows : o.id = id

SameHoldings(p, b, rules) ==
    /\ {h.symbol : h \in p.holdings} = {s \in DOMAIN b.positions : b.positions[s].quantity # 0}
    /\ \A h \in p.holdings :
          /\ Near(rules, "HOLDINGS", h.quantity, b.positions[h.symbol].quantity)
          /\ Near(rules, "HOLDINGS", h.cost, b.positions[h.symbol].cost)
          /\ h.symbol \in DOMAIN p.sellable
          /\ Near(rules, "SELLABLE_QUANTITY", p.sellable[h.symbol], b.positions[h.symbol].sellable)

SameCash(p, b, rules) ==
    /\ DOMAIN p.cash = DOMAIN b.cash /\ DOMAIN p.buying = DOMAIN b.cash
    /\ DOMAIN b.cash # {}
    /\ \A c \in DOMAIN b.cash :
          /\ Near(rules, "CASH", p.cash[c], b.cash[c].cash)
          /\ Near(rules, "BUYING_POWER", p.buying[c], b.cash[c].orderable)

(* The same orders, in the same state, filled to the same extent. *)
SameOrders(p, b, rules) ==
    LET orders == OrdersOf(p) IN
    /\ {o.id : o \in p.open} = {o.id : o \in LedgerOpen(b)}
    /\ {o.id : o \in orders} = {o.id : o \in b.orders}
    /\ \A o \in orders :
          LET mine == Row(b.orders, o.id) IN
          /\ Normalize(o.state) = mine.state
          /\ o.executed = mine.executed
          /\ o.executed =>
                /\ DOMAIN o.filled = DOMAIN mine.filled
                /\ \A f \in DOMAIN o.filled :
                      Near(rules, MetricTarget[f], o.filled[f], mine.filled[f])
                /\ o.settlement = mine.settlement

(* The rows of one group are known by their ids, and state no execution    *)
(* metric that is not compared.                                            *)
RowsOK(rows) ==
    /\ \A o, x \in rows : o.id = x.id => o = x
    /\ \A o \in rows :
          /\ o.executed \in BOOLEAN
          /\ DOMAIN o.filled \subseteq DOMAIN MetricTarget
          /\ \A f \in DOMAIN o.filled : o.filled[f] \in Int

(* A payload and a book whose quantities are numbers. *)
PayloadOK(p) ==
    /\ \A h \in p.holdings : h.quantity \in Int /\ h.cost \in Int
    /\ \A c \in DOMAIN p.cash : p.cash[c] \in Int
    /\ \A c \in DOMAIN p.buying : p.buying[c] \in Int
    /\ \A s \in DOMAIN p.sellable : p.sellable[s] \in Int
    /\ RowsOK(p.open) /\ RowsOK(p.closed) /\ RowsOK(p.details)

BookOK(b) ==
    /\ \A s \in DOMAIN b.positions :
          /\ b.positions[s].quantity \in Int /\ b.positions[s].cost \in Int
          /\ b.positions[s].sellable \in Int
    /\ \A c \in DOMAIN b.cash : b.cash[c].cash \in Int /\ b.cash[c].orderable \in Int
    /\ RowsOK(b.orders)

SameAccount(p, b, rules) ==
    /\ SameHoldings(p, b, rules)
    /\ SameCash(p, b, rules)
    /\ SameOrders(p, b, rules)
=============================================================================

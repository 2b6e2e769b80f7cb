-------------------------- MODULE MCReconciliation --------------------------
(* Two scenarios of Reconciliation in one instance.  Gate: two processes,  *)
(* one intent, snapshots with an equal or a different balance.  Facts: one *)
(* process that compares every combination of a few holdings, balances and *)
(* orders once.                                                            *)
EXTENDS Reconciliation, TLC

CONSTANTS p1, p2

Nothing == [x \in {} |-> 0]
One(key, value) == [x \in {key} |-> value]

Payload(holdings, cash, open, closed, details) ==
    [holdings |-> holdings, cash |-> cash, open |-> open, closed |-> closed,
     details |-> details, buying |-> One("KRW", 5),
     sellable |-> IF holdings = {} THEN Nothing
                  ELSE One("x", (CHOOSE h \in holdings : TRUE).quantity)]

Book(positions, cash, readable, orders) ==
    [positions |-> positions, readable |-> readable, orders |-> orders,
     cash |-> One("KRW", [cash |-> cash, orderable |-> 5])]

Order(state, executed, filled) ==
    [id |-> "o", state |-> state, terms |-> One("quantity", 2), side |-> "BUY",
     currency |-> "KRW", instrument |-> "x", executed |-> executed, settlement |-> "NONE",
     filled |-> [f \in DOMAIN MetricTarget |-> IF f \in {"quantity", "amount"} THEN filled ELSE 0]]

GatePayloads == [x \in {<<5>>, <<9>>} |-> Payload({}, One("KRW", x[1]), {}, {}, {})]
GateBooks == [x \in {<<5>>} |-> Book(Nothing, 5, {"KRW"}, {})]

Hold(n) == {[symbol |-> "x", quantity |-> n, cost |-> 3, currency |-> "KRW"]}
HoldingsOf == [none |-> {}, zero |-> Hold(0), one |-> Hold(1), two |-> Hold(2)]
CashOf == [none |-> Nothing, five |-> One("KRW", 5), six |-> One("KRW", 6), seven |-> One("KRW", 7)]
OrderOf == [none |-> {}, new |-> {Order("PENDING", FALSE, 0)}, open |-> {Order("OPEN", TRUE, 0)},
            filled |-> {Order("FILLED", TRUE, 1)}, odd |-> {Order("HALTED", TRUE, 0)},
            mute |-> {Order(None, FALSE, 0)}]

(* Open, closed and detail rows of one order that may contradict.          *)
FactPayloads ==
    [x \in (DOMAIN HoldingsOf) \X (DOMAIN CashOf) \X {"none", "new", "open", "odd"} \X
           {"none", "filled", "mute"} \X {"none", "open"} |->
        Payload(HoldingsOf[x[1]], CashOf[x[2]], OrderOf[x[3]], OrderOf[x[4]], OrderOf[x[5]])]

Position(n) == One("x", [quantity |-> n, cost |-> 3, sellable |-> n, currency |-> "KRW"])

BookOf(n, orders, readable) ==
    Book(IF n = 3 THEN Nothing ELSE Position(n), 5, readable, orders)

LedgerOrder == [none |-> {}, new |-> {Order("ACKNOWLEDGED", FALSE, 0)},
                open |-> {Order("OPEN", TRUE, 0)}, filled |-> {Order("FILLED", TRUE, 1)},
                odd |-> {Order("UNKNOWN", TRUE, 0)}]

FactBooks == [x \in (0..3) \X (DOMAIN LedgerOrder) |->
                 BookOf(x[1], LedgerOrder[x[2]], {"x", "KRW"})]

Rule(target, absolute) ==
    [target |-> target, absolute |-> absolute, currency |-> None, instrument |-> None]

(* One tick of the clock is longer than the maximum age. *)
GatePolicies ==
    {[version |-> "v1", from |-> 0, until |-> 3, maxAge |-> 0,
      rules |-> {Rule("CASH", 1), Rule("BUYING_POWER", 0)}]}

(* One unit of tolerance for won, none for anything else. *)
FactPolicies ==
    {[version |-> "v1", from |-> 0, until |-> 1, maxAge |-> 0,
      rules |-> {Rule(t, 0) : t \in Targets}
                \cup {[target |-> "CASH", absolute |-> 1, currency |-> "KRW",
                       instrument |-> None]}]}

MCPayloads == GatePayloads @@ FactPayloads
MCBooks == GateBooks @@ FactBooks
MCPolicies == GatePolicies \cup FactPolicies

VARIABLE part

Calls(p, policies, books) ==
    \/ \E s \in DOMAIN snaps, policy \in policies, at \in Time, book \in DOMAIN books :
          Reconcile(p, s, policy, at, book)
    \/ \E rank \in 1..MaxRuns : Persist(p, rank)
    \/ \E issue \in OpenIssues, n \in DOMAIN runs : Resolve(p, issue, n)
    \/ RecordResolution(p)
    \/ \E i \in Intents, n \in DOMAIN runs : TradeGate(p, i, n)
    \/ Authorize(p)
    \/ RecordAuthorization(p)
    \/ Crash(p)

MCInit == part \in {"gate", "facts"} /\ Init
MCNext ==
    \/ part = "gate" /\ UNCHANGED part /\ \E p \in Procs : Calls(p, GatePolicies, GateBooks)
    \/ part = "facts" /\ UNCHANGED part
       /\ Calls(p1, FactPolicies, IF runs = <<>> THEN FactBooks ELSE Nothing)
    \/ UNCHANGED part /\ \E i \in Intents, t \in Runtimes : InsertIntent(i, t)
    \/ part = "gate" /\ UNCHANGED part
       /\ \E t \in Runtimes, x \in DOMAIN GatePayloads : Capture(t, x)
    \/ part = "facts" /\ UNCHANGED part /\ snaps = <<>>
       /\ \E x \in DOMAIN FactPayloads : Capture("t1", x)
    \/ part = "gate" /\ UNCHANGED part /\ Tick
MCSpec == MCInit /\ [][MCNext]_<<part, vars>>

Scenario == part = "facts" => \A n \in DOMAIN runs : runs[n].rank = 1
=============================================================================

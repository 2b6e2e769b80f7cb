--------------------------- MODULE MCOrderLedger ---------------------------
(* Scenarios of OrderLedger in one instance.  Chain: one purchase order,   *)
(* "a", and every kind of call.  Lots: a purchase and two sales of one     *)
(* instrument, filled in parts and in any interleaving, for the tax lots;  *)
(* executions are applied in the order they were observed.                 *)
EXTENDS OrderLedger

CONSTANTS r1, r2

Cum(q, a, c, t) == [f \in Fields |-> CASE f = "quantity" -> q [] f = "amount" -> a
                                       [] f = "commission" -> c [] f = "tax" -> t]

Trio == {"b", "s1", "s2"}
MCOrders == {"a"} \cup Trio
MCSide == [o \in MCOrders |-> IF o \in {"a", "b"} THEN "BUY" ELSE "SELL"]
MCOrdered == [o \in MCOrders |-> IF o = "s2" THEN 1 ELSE 2]
MCStatuses == {"OPEN", "PARTIAL_FILLED", "FILLED", "CANCELLED", "HALTED"}
MCAnswers == {NotFound, "OPEN", "FILLED", "CANCELLED"}

MCReports == {Cum(0, 0, 0, 0), Cum(1, 3, 0, 0), Cum(2, 5, 1, 1)}

VARIABLE part

MCInit == part \in {"chain", "lots"} /\ Init
MCNext ==
    \/ Tick /\ UNCHANGED part
    \/ part = "chain" /\ Observation("a") /\ UNCHANGED part
    \/ part = "chain" /\ Own("a") /\ UNCHANGED part
    \/ part = "lots" /\ UNCHANGED part /\ \E o \in Trio : Observation(o) /\ PostedInOrder
MCSpec == MCInit /\ [][MCNext]_<<part, vars>>

(* Only executions for the lots, posted in one context; one tick for the   *)
(* order of every kind of call.                                            *)
Scenario ==
    /\ \A l \in lots \ {OpeningLot} : l.rank <= 2
    /\ part = "chain" => now <= 1
    /\ part = "lots" => \A o \in Trio :
          /\ Len(log[o]) <= 2 /\ Len(log[o]) = Len(snaps[o]) /\ res[o] = <<>>
          /\ \A i \in DOMAIN log[o] : log[o][i].state \in FillBearing
          /\ \A p \in posted[o] : p[2] = "c1"

Symmetry == Permutations(Responses)
=============================================================================

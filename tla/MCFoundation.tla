----------------------------- MODULE MCFoundation -----------------------------
(* Three scenarios of accounts in one instance.  Runs: two processes open the *)
(* file of the Toss account ledger, then take snapshots of an order that is   *)
(* filled, corrected and closed.  Page: one process, one run and two orders,  *)
(* which are listed on one page.  Paper: the paper broker.                    *)
EXTENDS Foundation, LedgerSchema, PaperBroker, TLC

CONSTANTS o1, o2, c1, c2, n1, n2, f1, f2, f3

MCSide == [o \in Orders |-> IF o = o1 THEN "BUY" ELSE "SELL"]
MCHoldings == "sym" :> "KRW" @@ "bare" :> NoCurrency

Active == {p \in Procs : proc[p].step # "idle"}

Whole == [version |-> LastVersion, parts |-> Parts]

Bodies(endpoints) == UNION {{db.raw[r][i].body : i \in {j \in DOMAIN db.raw[r] :
                        db.raw[r][j].endpoint \in endpoints /\ db.raw[r][j].ok}}  :
                        r \in {q \in Runs : status[q] # "FAILED"}}
Silent(page) == \E i \in DOMAIN page : ~page[i].counted

VARIABLE part

MCInit ==
    /\ part \in {"runs", "page", "paper"}
    /\ FoundationInit /\ SchemaInit /\ Init
    /\ \A o \in Orders : broker[o].placed <=> o = o1
    /\ part # "runs" => file = Whole
MCNext ==
    \/ part = "runs" /\ SchemaNext /\ UNCHANGED <<part, foundationVars, vars>>
    \/ part = "runs" /\ FoundationNext /\ AllOpen /\ ~broker'[o2].placed
       /\ UNCHANGED <<part, schemaVars, vars>>
    \/ part = "page" /\ FoundationNext /\ faults' = 0 /\ status'[2] = "none" /\ proc'["p"] = Idle
       /\ UNCHANGED <<part, schemaVars, vars>>
    \/ part = "paper" /\ Next /\ UNCHANGED <<part, foundationVars, schemaVars>>
MCSpec == MCInit /\ [][MCNext]_<<part, foundationVars, schemaVars, vars>>

(* What the instance of two processes leaves out: two runs at once, except    *)
(* while one of them holds the row it read and has not written yet; two runs, *)
(* or two reports, after a fault; more than one run once there were several   *)
(* accounts, a report without amounts, or an order that ended without a fill; *)
(* operators and replays at work during a run; and snapshots of a file whose  *)
(* migration was interrupted.                                                 *)
RunScenario ==
    /\ restarts > 0 \/ file # Whole => \A r \in Runs : status[r] = "none"
    /\ faults > 0 => (Cardinality(Active) <= 1 /\ changes <= 1)
    /\ \/ TRUE \in Bodies({"accounts"})
       \/ \E page \in Bodies({"orders-open", "orders-closed", "details"}) : Silent(page)
       \/ \E o \in Orders : broker[o].qty = 0 /\ ~broker[o].open
       => faults = 0 /\ status[2] = "none"
    /\ Cardinality(Active) = 2 => \E p \in Procs : proc[p].stage = "write"
    /\ \A r \in Runs : replica[r].built => Active = {} /\ \A q \in Runs \ {r} : ~replica[q].built
    /\ (\E i \in DOMAIN db.blocks : db.blocks[i].resolved) => Active = {}

(* Clients, intents and fills of the paper broker are interchangeable: the    *)
(* first of them come first.                                                  *)
PaperScenario ==
    /\ orders[c2] # NoOrder => orders[c1] # NoOrder
    /\ orders[c1] # NoOrder => orders[c1].request.intent = n1
    /\ fills[f2] # NoFill => fills[f1] # NoFill
    /\ fills[f3] # NoFill => fills[f2] # NoFill

Scenario == (part = "runs" => RunScenario) /\ (part = "paper" => PaperScenario)
===============================================================================

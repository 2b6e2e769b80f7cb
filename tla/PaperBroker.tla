---------------------------- MODULE PaperBroker -----------------------------
(***************************************************************************)
(* The persistent paper broker of execution/paper.py: one account of one    *)
(* currency, limit orders, reservations, and fills the caller supplies.     *)
(*                                                                         *)
(* Every operation is one immediate SQLite transaction, so each is one      *)
(* action; an operation that raises, and a process that dies before the     *)
(* commit, leave the account as it was and are not steps.                   *)
(***************************************************************************)
EXTENDS Integers, FiniteSets, Functions

CONSTANTS
  Instruments,   \* instrument_id values
  Clients,       \* client_order_id values
  Intents,       \* order_intent_id values
  FillIds,       \* fill_id values
  Amounts,       \* quantities and prices, all positive
  Fees,          \* fees, zero included
  MaxCash,       \* bound on the opening cash
  MaxPosition    \* bound on an opening position

ASSUME PaperAssumption ==
  /\ IsFiniteSet(Clients) /\ IsFiniteSet(FillIds)
  /\ Amounts \subseteq Nat \ {0}
  /\ Fees \subseteq Nat
  /\ MaxCash \in Nat /\ MaxPosition \in Nat

VARIABLES
  opening,    \* the row's initial block, "none" before initialize
  cash,       \* settled cash
  positions,  \* settled quantity of each instrument
  orders,     \* stored order of each client id, or NoOrder
  fills       \* stored fill of each fill id, or NoFill

vars == <<opening, cash, positions, orders, fills>>

Request == [client : Clients, intent : Intents, instrument : Instruments,
            side : {"BUY", "SELL"}, quantity : Amounts, limit : Amounts, fee : Fees]

NoOrder == [status |-> "NONE"]

Order == [status : {"OPEN", "PARTIALLY_FILLED", "FILLED", "CANCELED"},
          filled : Nat, feeLeft : Nat, request : Request]

Fill == [client : Clients, quantity : Amounts, price : Amounts, fee : Fees]

NoFill == [client |-> "none"]

Opening == [cash : 0..MaxCash, positions : [Instruments -> 0..MaxPosition]]

NotOpened == [cash |-> 0 - 1, positions |-> [i \in Instruments |-> 0]]

TypeOK ==
  /\ opening \in Opening \cup {NotOpened}
  /\ cash \in Int
  /\ positions \in [Instruments -> Int]
  /\ orders \in [Clients -> Order \cup {NoOrder}]
  /\ fills \in [FillIds -> Fill \cup {NoFill}]

Init ==
  /\ opening = NotOpened
  /\ cash = 0
  /\ positions = [i \in Instruments |-> 0]
  /\ orders = [c \in Clients |-> NoOrder]
  /\ fills = [f \in FillIds |-> NoFill]

-----------------------------------------------------------------------------
Stored == {c \in Clients : orders[c] # NoOrder}

Live(c) == orders[c].status \in {"OPEN", "PARTIALLY_FILLED"}

Remaining(o) == o.request.quantity - o.filled

\* _reserved: the cash and the quantity that live orders hold back.
CashHeld(c) ==
  IF Live(c)
  THEN orders[c].feeLeft + (IF orders[c].request.side = "BUY"
                            THEN Remaining(orders[c]) * orders[c].request.limit ELSE 0)
  ELSE 0

PositionHeld(c, i) ==
  IF Live(c) /\ orders[c].request.side = "SELL" /\ orders[c].request.instrument = i
  THEN Remaining(orders[c])
  ELSE 0

ReservedCash == SumFunction([c \in Clients |-> CashHeld(c)])

ReservedPosition(i) == SumFunction([c \in Clients |-> PositionHeld(c, i)])

Initialize(o) ==
  /\ opening = NotOpened
  /\ opening' = o
  /\ cash' = o.cash
  /\ positions' = o.positions
  /\ UNCHANGED <<orders, fills>>

\* A client id or an intent that is already stored answers the stored order, or
\* is refused when the request differs; either way nothing changes.
Known(r) == \E c \in Stored : c = r.client \/ orders[c].request.intent = r.intent

\* Bug: the fee is not reserved.
NeededNoFee(r) == IF r.side = "BUY" THEN r.quantity * r.limit ELSE 0

Needed(r) == r.fee + (IF r.side = "BUY" THEN r.quantity * r.limit ELSE 0)

Funded(r) ==
  /\ cash - ReservedCash >= Needed(r)
  /\ r.side = "SELL" => positions[r.instrument] - ReservedPosition(r.instrument) >= r.quantity

SubmitOrder(r) ==
  /\ opening # NotOpened
  /\ ~ Known(r)
  /\ Funded(r)
  /\ orders' = [orders EXCEPT ![r.client] =
                  [status |-> "OPEN", filled |-> 0, feeLeft |-> r.fee, request |-> r]]
  /\ UNCHANGED <<opening, cash, positions, fills>>

CancelOrder(c) ==
  /\ Live(c)
  /\ orders' = [orders EXCEPT ![c].status = "CANCELED"]
  /\ UNCHANGED <<opening, cash, positions, fills>>

\* record_fill refuses a fill beyond the limit, the quantity or the fee reserve.
Fillable(f) ==
  LET o == orders[f.client]
  IN  /\ Live(f.client)
      /\ f.quantity <= Remaining(o)
      /\ IF o.request.side = "BUY" THEN f.price <= o.request.limit ELSE f.price >= o.request.limit
      /\ f.fee <= o.feeLeft

\* Bug: the filled quantity is replaced instead of added to.
FilledLast(o, f) ==
  [status |-> IF f.quantity = Remaining(o) THEN "FILLED" ELSE "PARTIALLY_FILLED",
   filled |-> f.quantity, feeLeft |-> o.feeLeft - f.fee, request |-> o.request]

Filled(o, f) ==
  [status |-> IF f.quantity = Remaining(o) THEN "FILLED" ELSE "PARTIALLY_FILLED",
   filled |-> o.filled + f.quantity,
   feeLeft |-> o.feeLeft - f.fee,
   request |-> o.request]

Signed(side, amount) == IF side = "BUY" THEN amount ELSE 0 - amount

RecordFill(id, f) ==
  LET r == orders[f.client].request
  IN  /\ fills[id] = NoFill
      /\ Fillable(f)
      /\ cash' = cash - Signed(r.side, f.quantity * f.price) - f.fee
      /\ positions' = [positions EXCEPT ![r.instrument] = @ + Signed(r.side, f.quantity)]
      /\ orders' = [orders EXCEPT ![f.client] = Filled(@, f)]
      /\ fills' = [fills EXCEPT ![id] = f]
      /\ UNCHANGED opening

Next ==
  \/ \E o \in Opening : Initialize(o)
  \/ \E r \in Request : SubmitOrder(r)
  \/ \E c \in Clients : CancelOrder(c)
  \/ \E id \in FillIds, f \in Fill : RecordFill(id, f)

Spec == Init /\ [][Next]_vars

-----------------------------------------------------------------------------
(* Properties                                                              *)

FillsOf(c) == {id \in FillIds : fills[id] # NoFill /\ fills[id].client = c}

\* What live orders hold back is always covered: no sequence of submissions,
\* partial fills below the limit and cancels overdraws cash or a position.
Solvent ==
  /\ cash >= ReservedCash
  /\ \A i \in Instruments : positions[i] >= ReservedPosition(i)

\* What a stored fill took from cash, and what it added to a position.
CashSpent(id) ==
  IF fills[id] = NoFill THEN 0
  ELSE Signed(orders[fills[id].client].request.side, fills[id].quantity * fills[id].price)
       + fills[id].fee

QuantityAdded(id, i) ==
  IF fills[id] # NoFill /\ orders[fills[id].client].request.instrument = i
  THEN Signed(orders[fills[id].client].request.side, fills[id].quantity)
  ELSE 0

\* Cash and positions are exactly the opening balances and the stored fills.
Conserved ==
  opening # NotOpened =>
    /\ cash = opening.cash - SumFunction([id \in FillIds |-> CashSpent(id)])
    /\ \A i \in Instruments :
         positions[i] = opening.positions[i]
                        + SumFunction([id \in FillIds |-> QuantityAdded(id, i)])

\* The account stays whole: what is promised is covered and what is held is
\* what the fills say, over any sequence of submissions, fills and cancels.
AccountIsSound == Solvent /\ Conserved

\* The quantity and the fee of a stored fill, for the order it belongs to.
QuantityOf(id, c) == IF id \in FillsOf(c) THEN fills[id].quantity ELSE 0

FeeOf(id, c) == IF id \in FillsOf(c) THEN fills[id].fee ELSE 0

\* An order's filled quantity and spent fee are exactly those of its fills.
OrderMatchesFills ==
  \A c \in Stored :
    /\ orders[c].filled = SumFunction([id \in FillIds |-> QuantityOf(id, c)])
    /\ orders[c].request.fee
         = orders[c].feeLeft + SumFunction([id \in FillIds |-> FeeOf(id, c)])

\* One intent is never stored under two client ids (submit_order).
OneOrderPerIntent ==
  \A c, d \in Stored : orders[c].request.intent = orders[d].request.intent => c = d

\* A filled or canceled order never changes again, and a late fill of it is
\* refused (cancel_order, record_fill).
TerminalIsFinal ==
  [][\A c \in Clients : orders[c].status \in {"FILLED", "CANCELED"} =>
       orders'[c] = orders[c] /\ FillsOf(c)' = FillsOf(c)]_vars

\* No order is ever filled beyond its quantity or charged beyond its fee, and it
\* is FILLED when and only when nothing remains, whatever the fills were.
NeverOverfilled ==
  \A c \in Stored :
    /\ orders[c].filled <= orders[c].request.quantity
    /\ orders[c].feeLeft <= orders[c].request.fee
    /\ orders[c].status = "FILLED" <=> orders[c].filled = orders[c].request.quantity
=============================================================================

--------------------------- MODULE AccountProofs ----------------------------
(***************************************************************************)
(* The two accounts.                                                        *)
(*                                                                          *)
(* Order-level guarantees of the paper broker for every set of requests,    *)
(* fills and openings, and the guarantees of its account: what it holds     *)
(* back is covered, and what it holds is what its fills say.  These are     *)
(* totals over all orders and fills; an action changes one term of each     *)
(* (TotalUpdate).                                                           *)
(*                                                                          *)
(* Of the Toss account ledger: whichever processes take snapshots and       *)
(* wherever they die, the execution log of an order is one chain that adds  *)
(* up, no report of a complete run is dropped, a complete run asked for all *)
(* its explanation needs and has the cash of its fills on file, and the     *)
(* replay of its responses ends where it did.                               *)
(***************************************************************************)
EXTENDS PaperBroker, Foundation, SequenceTheorems, SumTheorems, TLAPS

PaperInv == TypeOK /\ NeverOverfilled /\ OneOrderPerIntent

LEMMA RequestFields ==
  ASSUME NEW r \in Request
  PROVE  /\ r.client \in Clients /\ r.intent \in Intents /\ r.instrument \in Instruments
         /\ r.side \in {"BUY", "SELL"}
         /\ r.quantity \in Nat \ {0} /\ r.limit \in Nat /\ r.fee \in Nat
BY PaperAssumption DEF Request

LEMMA OrderFields ==
  ASSUME NEW o \in Order
  PROVE  /\ o = [status |-> o.status, filled |-> o.filled, feeLeft |-> o.feeLeft,
                 request |-> o.request]
         /\ o.status \in {"OPEN", "PARTIALLY_FILLED", "FILLED", "CANCELED"}
         /\ o.filled \in Nat /\ o.feeLeft \in Nat /\ o.request \in Request
         /\ o # NoOrder
BY DEF Order, NoOrder

\* A new order is well formed.
LEMMA OpenOrder ==
  ASSUME NEW r \in Request
  PROVE  LET o == [status |-> "OPEN", filled |-> 0, feeLeft |-> r.fee, request |-> r]
         IN  o \in Order /\ o # NoOrder
BY RequestFields DEF Order, NoOrder

\* What a fill within the remaining quantity and fee does to an order.
LEMMA FilledOrder ==
  ASSUME NEW o \in Order, NEW f \in Fill, f.quantity <= Remaining(o), f.fee <= o.feeLeft
  PROVE  /\ Filled(o, f) \in Order /\ Filled(o, f) # NoOrder
         /\ Filled(o, f).request = o.request
         /\ Filled(o, f).filled = o.filled + f.quantity
         /\ Filled(o, f).feeLeft = o.feeLeft - f.fee
         /\ Filled(o, f).status = IF f.quantity = Remaining(o) THEN "FILLED" ELSE "PARTIALLY_FILLED"
<1>1. f.quantity \in Nat \ {0} /\ f.fee \in Nat
  BY PaperAssumption DEF Fill
<1>2. o.request.quantity \in Nat /\ o.filled \in Nat /\ o.feeLeft \in Nat
  BY OrderFields, RequestFields
<1> DEFINE g == [status |-> IF f.quantity = Remaining(o) THEN "FILLED" ELSE "PARTIALLY_FILLED",
                 filled |-> o.filled + f.quantity, feeLeft |-> o.feeLeft - f.fee,
                 request |-> o.request]
<1>3. Filled(o, f) = g
  BY DEF Filled
<1>4. g \in Order /\ g # NoOrder
  BY <1>1, <1>2, OrderFields DEF Order, NoOrder
<1>5. QED
  BY <1>3, <1>4

\* A step that writes one order, well formed, within its bounds and with the
\* intent of no other order, keeps the invariant.
LEMMA WriteOrder ==
  ASSUME PaperInv, NEW c \in Clients, NEW o \in Order,
         orders' = [orders EXCEPT ![c] = o],
         o.filled <= o.request.quantity, o.feeLeft <= o.request.fee,
         o.status = "FILLED" <=> o.filled = o.request.quantity,
         \A d \in Stored : d # c => orders[d].request.intent # o.request.intent
  PROVE  /\ orders' \in [Clients -> Order \cup {NoOrder}]
         /\ NeverOverfilled' /\ OneOrderPerIntent'
<1>1. orders' \in [Clients -> Order \cup {NoOrder}]
  BY DEF PaperInv, TypeOK
<1>2. o # NoOrder
  BY OrderFields
<1>3. orders'[c] = o /\ \A d \in Clients : d # c => orders'[d] = orders[d]
  BY DEF PaperInv, TypeOK
<1>4. c \in Stored' /\ \A d \in Clients : d # c => (d \in Stored' <=> d \in Stored)
  BY <1>2, <1>3 DEF Stored
<1>5. Stored' \subseteq Clients
  BY DEF Stored
<1>6. NeverOverfilled'
  <2> SUFFICES ASSUME NEW d \in Stored'
               PROVE /\ orders'[d].filled <= orders'[d].request.quantity
                     /\ orders'[d].feeLeft <= orders'[d].request.fee
                     /\ orders'[d].status = "FILLED"
                          <=> orders'[d].filled = orders'[d].request.quantity
    BY DEF NeverOverfilled
  <2>1. CASE d = c
    BY <1>3, <2>1
  <2>2. CASE d # c
    BY <1>3, <1>4, <1>5, <2>2 DEF PaperInv, NeverOverfilled
  <2>3. QED
    BY <2>1, <2>2
<1>7. OneOrderPerIntent'
  <2> SUFFICES ASSUME NEW d \in Stored', NEW e \in Stored',
                      orders'[d].request.intent = orders'[e].request.intent
               PROVE  d = e
    BY DEF OneOrderPerIntent
  <2>1. CASE d = c \/ e = c
    BY <1>3, <1>4, <1>5, <2>1
  <2>2. CASE d # c /\ e # c
    BY <1>3, <1>4, <1>5, <2>2 DEF PaperInv, OneOrderPerIntent
  <2>3. QED
    BY <2>1, <2>2
<1>8. QED
  BY <1>1, <1>6, <1>7

LEMMA StoredIsOrder ==
  ASSUME TypeOK, NEW c \in Stored
  PROVE  c \in Clients /\ orders[c] \in Order /\ orders[c].request \in Request
BY OrderFields DEF TypeOK, Stored

LEMMA LiveIsStored == ASSUME TypeOK, NEW c \in Clients, Live(c) PROVE c \in Stored
BY DEF TypeOK, Stored, Live, NoOrder

LEMMA PaperStep == PaperInv /\ [Next]_vars => PaperInv'
<1> SUFFICES ASSUME PaperInv, [Next]_vars PROVE PaperInv'
  OBVIOUS
<1>0. TypeOK /\ NeverOverfilled /\ OneOrderPerIntent
  BY DEF PaperInv
<1>1. ASSUME NEW o \in Opening, Initialize(o) PROVE PaperInv'
  <2>1. TypeOK'
    BY <1>0, <1>1, PaperAssumption DEF Initialize, TypeOK, Opening
  <2>2. orders' = orders
    BY <1>1 DEF Initialize
  <2>3. QED
    BY <1>0, <2>1, <2>2 DEF PaperInv, NeverOverfilled, OneOrderPerIntent, Stored
<1>2. ASSUME NEW r \in Request, SubmitOrder(r) PROVE PaperInv'
  <2> DEFINE o == [status |-> "OPEN", filled |-> 0, feeLeft |-> r.fee, request |-> r]
  <2>1. o \in Order /\ r.client \in Clients /\ r.quantity \in Nat \ {0} /\ r.fee \in Nat
    BY OpenOrder, RequestFields
  <2>2. orders' = [orders EXCEPT ![r.client] = o] /\ UNCHANGED <<opening, cash, positions, fills>>
    BY <1>2 DEF SubmitOrder
  <2>3. \A d \in Stored : d # r.client => orders[d].request.intent # o.request.intent
    BY <1>2 DEF SubmitOrder, Known
  <2>4. /\ o.filled <= o.request.quantity /\ o.feeLeft <= o.request.fee
        /\ o.status = "FILLED" <=> o.filled = o.request.quantity
    BY <2>1
  <2> HIDE DEF o
  <2>5. orders' \in [Clients -> Order \cup {NoOrder}] /\ NeverOverfilled' /\ OneOrderPerIntent'
    BY <2>1, <2>2, <2>3, <2>4, WriteOrder
  <2>6. QED
    BY <1>0, <2>2, <2>5 DEF PaperInv, TypeOK
<1>3. ASSUME NEW c \in Clients, CancelOrder(c) PROVE PaperInv'
  <2>1. c \in Stored /\ Live(c)
    BY <1>0, <1>3, LiveIsStored DEF CancelOrder
  <2>2. orders[c] \in Order
    BY <1>0, <2>1, StoredIsOrder
  <2> DEFINE o == [orders[c] EXCEPT !.status = "CANCELED"]
  <2>3. /\ o \in Order /\ o.filled = orders[c].filled /\ o.feeLeft = orders[c].feeLeft
        /\ o.request = orders[c].request /\ o.status = "CANCELED"
    BY <2>2, OrderFields DEF Order
  <2>4. orders' = [orders EXCEPT ![c] = o] /\ UNCHANGED <<opening, cash, positions, fills>>
    BY <1>3 DEF CancelOrder
  <2> HIDE DEF o
  <2>5. orders[c].filled # orders[c].request.quantity
    BY <1>0, <2>1 DEF NeverOverfilled, Live
  <2>6. \A d \in Stored : d # c => orders[d].request.intent # o.request.intent
    BY <1>0, <2>1, <2>3 DEF OneOrderPerIntent
  <2>7. orders' \in [Clients -> Order \cup {NoOrder}] /\ NeverOverfilled' /\ OneOrderPerIntent'
    <3>1. /\ o.filled <= o.request.quantity /\ o.feeLeft <= o.request.fee
          /\ o.status = "FILLED" <=> o.filled = o.request.quantity
      BY <1>0, <2>1, <2>3, <2>5 DEF NeverOverfilled
    <3>2. QED
      BY <2>3, <2>4, <2>6, <3>1, WriteOrder
  <2>8. QED
    BY <1>0, <2>4, <2>7 DEF PaperInv, TypeOK
<1>4. ASSUME NEW id \in FillIds, NEW f \in Fill, RecordFill(id, f) PROVE PaperInv'
  <2> DEFINE c == f.client
             o == Filled(orders[c], f)
  <2>1. c \in Clients /\ f.quantity \in Nat \ {0} /\ f.price \in Nat /\ f.fee \in Nat
    BY PaperAssumption DEF Fill
  <2>2. c \in Stored /\ orders[c] \in Order
    BY <1>0, <1>4, <2>1, LiveIsStored, StoredIsOrder DEF RecordFill, Fillable
  <2>3. /\ orders[c].filled \in Nat /\ orders[c].feeLeft \in Nat
        /\ orders[c].request.quantity \in Nat /\ orders[c].request.fee \in Nat
        /\ orders[c].request.instrument \in Instruments
    BY <2>2, OrderFields, RequestFields
  <2>4. f.quantity <= Remaining(orders[c]) /\ f.fee <= orders[c].feeLeft
    BY <1>4 DEF RecordFill, Fillable
  <2>5. /\ o \in Order /\ o.request = orders[c].request
        /\ o.filled = orders[c].filled + f.quantity /\ o.feeLeft = orders[c].feeLeft - f.fee
        /\ o.status = IF f.quantity = Remaining(orders[c]) THEN "FILLED" ELSE "PARTIALLY_FILLED"
    BY <2>2, <2>4, FilledOrder
  <2>6. orders' = [orders EXCEPT ![c] = o]
    BY <1>4 DEF RecordFill
  <2>7. \A d \in Stored : d # c => orders[d].request.intent # o.request.intent
    BY <1>0, <2>2, <2>5 DEF OneOrderPerIntent
  <2> HIDE DEF o
  <2>8. /\ o.filled <= o.request.quantity /\ o.feeLeft <= o.request.fee
        /\ o.status = "FILLED" <=> o.filled = o.request.quantity
    BY <1>0, <2>1, <2>2, <2>3, <2>4, <2>5 DEF NeverOverfilled, Remaining
  <2>9. orders' \in [Clients -> Order \cup {NoOrder}] /\ NeverOverfilled' /\ OneOrderPerIntent'
    BY <2>1, <2>5, <2>6, <2>7, <2>8, WriteOrder
  <2>10. Signed(orders[c].request.side, f.quantity) \in Int
         /\ Signed(orders[c].request.side, f.quantity * f.price) \in Int
    BY <2>1 DEF Signed
  <2>11. cash' \in Int /\ positions' \in [Instruments -> Int]
    BY <1>0, <1>4, <2>1, <2>3, <2>10 DEF RecordFill, TypeOK
  <2>12. fills' \in [FillIds -> Fill \cup {NoFill}] /\ opening' = opening
    BY <1>0, <1>4 DEF RecordFill, TypeOK
  <2>13. QED
    BY <1>0, <2>9, <2>11, <2>12 DEF PaperInv, TypeOK
<1>5. CASE UNCHANGED vars
  BY <1>0, <1>5 DEF PaperInv, TypeOK, NeverOverfilled, OneOrderPerIntent, Stored, vars
<1>6. QED
  BY <1>1, <1>2, <1>3, <1>4, <1>5 DEF Next

\* Every reachable account is well formed, fills no order beyond its quantity or
\* fee and stores no intent twice.
THEOREM PaperInvariant == Spec => []PaperInv
<1>1. Init => PaperInv
  BY DEF Init, PaperInv, TypeOK, NeverOverfilled, OneOrderPerIntent, Stored
<1>2. QED
  BY <1>1, PaperStep, PTL DEF Spec

\* No sequence of partial fills and cancels overfills an order or overcharges
\* its fee (record_fill).
THEOREM FillsStayWithinTheOrder == Spec => []NeverOverfilled
<1>1. PaperInv => NeverOverfilled
  BY DEF PaperInv
<1>2. QED
  BY <1>1, PaperInvariant, PTL

\* An order intent is stored under one client id only (submit_order).
THEOREM IntentIsStoredOnce == Spec => []OneOrderPerIntent
<1>1. PaperInv => OneOrderPerIntent
  BY DEF PaperInv
<1>2. QED
  BY <1>1, PaperInvariant, PTL

\* A filled or canceled order and its fills never change again (cancel_order,
\* record_fill).
THEOREM ClosedOrdersStayClosed == Spec => TerminalIsFinal
<1>1. ASSUME PaperInv, [Next]_vars,
             NEW c \in Clients, orders[c].status \in {"FILLED", "CANCELED"}
      PROVE  orders'[c] = orders[c] /\ FillsOf(c)' = FillsOf(c)
  <2>0. TypeOK /\ c \in Stored
    BY <1>1 DEF PaperInv, TypeOK, Stored, NoOrder
  <2>1. ASSUME NEW r \in Request, SubmitOrder(r) PROVE orders'[c] = orders[c] /\ fills' = fills
    BY <2>0, <2>1 DEF SubmitOrder, Known, TypeOK
  <2>2. ASSUME NEW d \in Clients, CancelOrder(d) PROVE orders'[c] = orders[c] /\ fills' = fills
    BY <1>1, <2>0, <2>2 DEF CancelOrder, Live, TypeOK
  <2>3. ASSUME NEW id \in FillIds, NEW f \in Fill, RecordFill(id, f)
        PROVE  orders'[c] = orders[c] /\ FillsOf(c)' = FillsOf(c)
    <3>1. f.client # c /\ fills[id] = NoFill
      BY <1>1, <2>3 DEF RecordFill, Fillable, Live
    <3>2. orders'[c] = orders[c]
      BY <2>0, <2>3, <3>1 DEF RecordFill, TypeOK
    <3>3. \A j \in FillIds : fills'[j] = IF j = id THEN f ELSE fills[j]
      BY <2>0, <2>3 DEF RecordFill, TypeOK
    <3>4. FillsOf(c)' = FillsOf(c)
      BY <3>1, <3>3 DEF FillsOf
    <3>5. QED
      BY <3>2, <3>4
  <2>4. CASE UNCHANGED <<orders, fills>>
    BY <2>4 DEF FillsOf
  <2>5. QED
    BY <1>1, <2>1, <2>2, <2>3, <2>4 DEF Next, Initialize, FillsOf, vars
<1>2. PaperInv /\ [Next]_vars =>
        [\A c \in Clients : orders[c].status \in {"FILLED", "CANCELED"} =>
           orders'[c] = orders[c] /\ FillsOf(c)' = FillsOf(c)]_vars
  BY <1>1
<1>3. QED
  BY <1>2, PaperInvariant, PTL DEF Spec, TerminalIsFinal

-----------------------------------------------------------------------------
(* The account. *)

\* Nothing is stored before the account is opened, and a fill has its order.
FillsHaveOrders ==
  /\ \A id \in FillIds : fills[id] # NoFill => fills[id].client \in Stored
  /\ opening = NotOpened => Stored = {} /\ cash = 0 /\ positions = [i \in Instruments |-> 0]

AccountInv == PaperInv /\ FillsHaveOrders /\ Solvent /\ Conserved /\ OrderMatchesFills

LEMMA FillFields ==
  ASSUME NEW f \in Fill
  PROVE  /\ f.client \in Clients /\ f # NoFill
         /\ f.quantity \in Nat \ {0} /\ f.price \in Nat \ {0} /\ f.fee \in Nat
<1>1. DOMAIN f = {"client", "quantity", "price", "fee"}
  BY DEF Fill
<1>2. DOMAIN NoFill = {"client"}
  BY DEF NoFill
<1>3. f # NoFill
  BY <1>1, <1>2
<1> QED
  BY <1>3, PaperAssumption DEF Fill

LEMMA TimesMonotone ==
  ASSUME NEW q \in Nat, NEW a \in Nat, NEW b \in Nat, a <= b
  PROVE  q * a \in Nat /\ q * b \in Nat /\ q * a <= q * b
<1>1. q * a \in Nat /\ q * b \in Nat /\ q * (b - a) \in Nat
  OBVIOUS
<1>2. q * b = q * a + q * (b - a)
  OBVIOUS
<1> QED
  BY <1>1, <1>2

LEMMA TimesMinus ==
  ASSUME NEW n \in Nat, NEW q \in Nat, NEW l \in Nat
  PROVE  (n - q) * l = n * l - q * l
OBVIOUS

\* What an order holds back.
LEMMA HeldType ==
  ASSUME PaperInv, NEW c \in Clients
  PROVE  CashHeld(c) \in Nat /\ \A i \in Instruments : PositionHeld(c, i) \in Nat
<1>1. CASE ~Live(c)
  BY <1>1 DEF CashHeld, PositionHeld
<1>2. CASE Live(c)
  <2>1. c \in Stored /\ orders[c] \in Order
    BY <1>2, LiveIsStored, StoredIsOrder DEF PaperInv
  <2>2. orders[c].feeLeft \in Nat /\ orders[c].request.limit \in Nat
    BY <2>1, OrderFields, RequestFields
  <2>3. Remaining(orders[c]) \in Nat
    BY <2>1, OrderFields, RequestFields DEF Remaining, PaperInv, NeverOverfilled
  <2>4. Remaining(orders[c]) * orders[c].request.limit \in Nat
    BY <2>2, <2>3
  <2> QED
    BY <2>2, <2>3, <2>4 DEF CashHeld, PositionHeld
<1> QED
  BY <1>1, <1>2

LEMMA ReservedType ==
  ASSUME PaperInv
  PROVE  /\ [c \in Clients |-> CashHeld(c)] \in [Clients -> Nat]
         /\ ReservedCash \in Nat
         /\ \A i \in Instruments : /\ [c \in Clients |-> PositionHeld(c, i)] \in [Clients -> Nat]
                                   /\ ReservedPosition(i) \in Nat
<1>1. [c \in Clients |-> CashHeld(c)] \in [Clients -> Nat]
  BY HeldType
<1>2. ReservedCash \in Nat
  BY <1>1, TotalNat, PaperAssumption DEF ReservedCash
<1>3. ASSUME NEW i \in Instruments
      PROVE  /\ [c \in Clients |-> PositionHeld(c, i)] \in [Clients -> Nat]
             /\ ReservedPosition(i) \in Nat
  <2>1. [c \in Clients |-> PositionHeld(c, i)] \in [Clients -> Nat]
    BY HeldType
  <2> QED
    BY <2>1, TotalNat, PaperAssumption DEF ReservedPosition
<1> QED
  BY <1>1, <1>2, <1>3

\* A step that writes one order changes the reserves by that order's part.
LEMMA ReservesMove ==
  ASSUME PaperInv, PaperInv', NEW e \in Clients, \A c \in Clients : c # e => orders'[c] = orders[c]
  PROVE  /\ ReservedCash' = ReservedCash - CashHeld(e) + CashHeld(e)'
         /\ \A i \in Instruments :
              ReservedPosition(i)' = ReservedPosition(i) - PositionHeld(e, i) + PositionHeld(e, i)'
<1>1. \A c \in Clients : /\ CashHeld(c) \in Nat /\ CashHeld(c)' \in Nat
                         /\ \A i \in Instruments : /\ PositionHeld(c, i) \in Nat
                                                   /\ PositionHeld(c, i)' \in Nat
  <2>1. ASSUME NEW c \in Clients
        PROVE (CashHeld(c) \in Nat /\ \A i \in Instruments : PositionHeld(c, i) \in Nat)'
    BY HeldType, PTL
  <2> QED
    BY <2>1, HeldType
<1>2. ASSUME NEW c \in Clients, c # e
      PROVE  CashHeld(c)' = CashHeld(c) /\ \A i \in Instruments : PositionHeld(c, i)' = PositionHeld(c, i)
  BY <1>2 DEF CashHeld, PositionHeld, Live
<1>3. ReservedCash' = ReservedCash - CashHeld(e) + CashHeld(e)'
  <2> DEFINE f == [c \in Clients |-> CashHeld(c)]
             g == [c \in Clients |-> CashHeld(c)']
  <2>1. ReservedCash = SumFunction(f) /\ ReservedCash' = SumFunction(g)
    BY DEF ReservedCash
  <2>2. f \in [Clients -> Int] /\ g \in [Clients -> Int]
    BY <1>1
  <2>3. /\ \A c \in Clients : c # e => g[c] = f[c]
        /\ f[e] = CashHeld(e) /\ g[e] = CashHeld(e)'
    BY <1>2
  <2> HIDE DEF f, g
  <2> QED
    BY <2>1, <2>2, <2>3, TotalUpdate, PaperAssumption
<1>4. ASSUME NEW i \in Instruments
      PROVE  ReservedPosition(i)' = ReservedPosition(i) - PositionHeld(e, i) + PositionHeld(e, i)'
  <2> DEFINE f == [c \in Clients |-> PositionHeld(c, i)]
             g == [c \in Clients |-> PositionHeld(c, i)']
  <2>1. ReservedPosition(i) = SumFunction(f) /\ ReservedPosition(i)' = SumFunction(g)
    BY DEF ReservedPosition
  <2>2. f \in [Clients -> Int] /\ g \in [Clients -> Int]
    BY <1>1
  <2>3. /\ \A c \in Clients : c # e => g[c] = f[c]
        /\ f[e] = PositionHeld(e, i) /\ g[e] = PositionHeld(e, i)'
    BY <1>2
  <2> HIDE DEF f, g
  <2> QED
    BY <2>1, <2>2, <2>3, TotalUpdate, PaperAssumption
<1> QED
  BY <1>3, <1>4

\* The terms of the fills.
LEMMA SpentType ==
  ASSUME TypeOK, FillsHaveOrders, NEW id \in FillIds
  PROVE  /\ CashSpent(id) \in Int
         /\ \A i \in Instruments : QuantityAdded(id, i) \in Int
         /\ \A c \in Clients : QuantityOf(id, c) \in Int /\ FeeOf(id, c) \in Int
<1>1. CASE fills[id] = NoFill
  BY <1>1 DEF CashSpent, QuantityAdded, QuantityOf, FeeOf, FillsOf
<1>2. CASE fills[id] # NoFill
  <2>1. fills[id] \in Fill
    BY <1>2 DEF TypeOK
  <2>2. fills[id].quantity \in Nat /\ fills[id].price \in Nat /\ fills[id].fee \in Nat
    BY <2>1, FillFields
  <2>3. fills[id].quantity * fills[id].price \in Nat
    BY <2>2
  <2> QED
    BY <1>2, <2>2, <2>3 DEF CashSpent, QuantityAdded, QuantityOf, FeeOf, Signed
<1> QED
  BY <1>1, <1>2

\* The requests of stored orders never change.
KeepsRequests == \A c \in Stored : orders'[c].request = orders[c].request

LEMMA FillTermsStay ==
  ASSUME FillsHaveOrders, KeepsRequests, NEW id \in FillIds, fills'[id] = fills[id]
  PROVE  /\ CashSpent(id)' = CashSpent(id)
         /\ \A i \in Instruments : QuantityAdded(id, i)' = QuantityAdded(id, i)
         /\ \A c \in Clients : QuantityOf(id, c)' = QuantityOf(id, c) /\ FeeOf(id, c)' = FeeOf(id, c)
<1>1. \A c \in Clients : id \in FillsOf(c)' <=> id \in FillsOf(c)
  BY DEF FillsOf
<1>2. \A c \in Clients : QuantityOf(id, c)' = QuantityOf(id, c) /\ FeeOf(id, c)' = FeeOf(id, c)
  BY <1>1 DEF QuantityOf, FeeOf
<1>3. fills[id] # NoFill => orders'[fills[id].client].request = orders[fills[id].client].request
  BY DEF FillsHaveOrders, KeepsRequests
<1> QED
  BY <1>2, <1>3 DEF CashSpent, QuantityAdded

\* A step that records no fill leaves the totals.
LEMMA FillTotalsStay ==
  ASSUME FillsHaveOrders, KeepsRequests, fills' = fills
  PROVE  /\ SumFunction([id \in FillIds |-> CashSpent(id)'])
              = SumFunction([id \in FillIds |-> CashSpent(id)])
         /\ \A i \in Instruments : SumFunction([id \in FillIds |-> QuantityAdded(id, i)'])
              = SumFunction([id \in FillIds |-> QuantityAdded(id, i)])
         /\ \A c \in Clients :
              /\ SumFunction([id \in FillIds |-> QuantityOf(id, c)'])
                   = SumFunction([id \in FillIds |-> QuantityOf(id, c)])
              /\ SumFunction([id \in FillIds |-> FeeOf(id, c)'])
                   = SumFunction([id \in FillIds |-> FeeOf(id, c)])
<1>1. [id \in FillIds |-> CashSpent(id)'] = [id \in FillIds |-> CashSpent(id)]
  BY FillTermsStay
<1>2. ASSUME NEW i \in Instruments
      PROVE  [id \in FillIds |-> QuantityAdded(id, i)'] = [id \in FillIds |-> QuantityAdded(id, i)]
  BY FillTermsStay
<1>3. ASSUME NEW c \in Clients
      PROVE  /\ [id \in FillIds |-> QuantityOf(id, c)'] = [id \in FillIds |-> QuantityOf(id, c)]
             /\ [id \in FillIds |-> FeeOf(id, c)'] = [id \in FillIds |-> FeeOf(id, c)]
  BY FillTermsStay
<1> QED
  BY <1>1, <1>2, <1>3

\* A step that records one fill adds its terms.
LEMMA FillTotalsMove ==
  ASSUME TypeOK, TypeOK', FillsHaveOrders, FillsHaveOrders', KeepsRequests,
         NEW e \in FillIds, fills[e] = NoFill, \A id \in FillIds : id # e => fills'[id] = fills[id]
  PROVE  /\ SumFunction([id \in FillIds |-> CashSpent(id)'])
              = SumFunction([id \in FillIds |-> CashSpent(id)]) + CashSpent(e)'
         /\ \A i \in Instruments : SumFunction([id \in FillIds |-> QuantityAdded(id, i)'])
              = SumFunction([id \in FillIds |-> QuantityAdded(id, i)]) + QuantityAdded(e, i)'
         /\ \A c \in Clients :
              /\ SumFunction([id \in FillIds |-> QuantityOf(id, c)'])
                   = SumFunction([id \in FillIds |-> QuantityOf(id, c)]) + QuantityOf(e, c)'
              /\ SumFunction([id \in FillIds |-> FeeOf(id, c)'])
                   = SumFunction([id \in FillIds |-> FeeOf(id, c)]) + FeeOf(e, c)'
<1>0. /\ CashSpent(e) = 0
      /\ \A i \in Instruments : QuantityAdded(e, i) = 0
      /\ \A c \in Clients : QuantityOf(e, c) = 0 /\ FeeOf(e, c) = 0
  BY DEF CashSpent, QuantityAdded, QuantityOf, FeeOf, FillsOf
<1>1. \A id \in FillIds :
        /\ CashSpent(id) \in Int /\ CashSpent(id)' \in Int
        /\ \A i \in Instruments : QuantityAdded(id, i) \in Int /\ QuantityAdded(id, i)' \in Int
        /\ \A c \in Clients : /\ QuantityOf(id, c) \in Int /\ FeeOf(id, c) \in Int
                              /\ QuantityOf(id, c)' \in Int /\ FeeOf(id, c)' \in Int
  <2>1. ASSUME NEW id \in FillIds
        PROVE  (/\ CashSpent(id) \in Int
                /\ \A i \in Instruments : QuantityAdded(id, i) \in Int
                /\ \A c \in Clients : QuantityOf(id, c) \in Int /\ FeeOf(id, c) \in Int)'
    BY SpentType, PTL
  <2> QED
    BY <2>1, SpentType
<1>2. \A id \in FillIds : id # e =>
        /\ CashSpent(id)' = CashSpent(id)
        /\ \A i \in Instruments : QuantityAdded(id, i)' = QuantityAdded(id, i)
        /\ \A c \in Clients : QuantityOf(id, c)' = QuantityOf(id, c) /\ FeeOf(id, c)' = FeeOf(id, c)
  BY FillTermsStay
<1>3. ASSUME NEW f \in [FillIds -> Int], NEW g \in [FillIds -> Int], f[e] = 0,
             \A id \in FillIds : id # e => g[id] = f[id]
      PROVE  SumFunction(g) = SumFunction(f) + g[e]
  <2>1. SumFunction(f) \in Int /\ SumFunction(g) = SumFunction(f) - f[e] + g[e]
    BY <1>3, TotalType, TotalUpdate, PaperAssumption
  <2> QED
    BY <1>3, <2>1
<1>4. SumFunction([id \in FillIds |-> CashSpent(id)'])
        = SumFunction([id \in FillIds |-> CashSpent(id)]) + CashSpent(e)'
  BY <1>0, <1>1, <1>2, <1>3
<1>5. ASSUME NEW i \in Instruments
      PROVE  SumFunction([id \in FillIds |-> QuantityAdded(id, i)'])
               = SumFunction([id \in FillIds |-> QuantityAdded(id, i)]) + QuantityAdded(e, i)'
  BY <1>0, <1>1, <1>2, <1>3
<1>6. ASSUME NEW c \in Clients
      PROVE  /\ SumFunction([id \in FillIds |-> QuantityOf(id, c)'])
                  = SumFunction([id \in FillIds |-> QuantityOf(id, c)]) + QuantityOf(e, c)'
             /\ SumFunction([id \in FillIds |-> FeeOf(id, c)'])
                  = SumFunction([id \in FillIds |-> FeeOf(id, c)]) + FeeOf(e, c)'
  BY <1>0, <1>1, <1>2, <1>3
<1> QED
  BY <1>4, <1>5, <1>6

LEMMA TotalsType ==
  ASSUME TypeOK, FillsHaveOrders
  PROVE  /\ SumFunction([id \in FillIds |-> CashSpent(id)]) \in Int
         /\ \A i \in Instruments : SumFunction([id \in FillIds |-> QuantityAdded(id, i)]) \in Int
         /\ \A c \in Clients : /\ SumFunction([id \in FillIds |-> QuantityOf(id, c)]) \in Int
                               /\ SumFunction([id \in FillIds |-> FeeOf(id, c)]) \in Int
<1>1. SumFunction([id \in FillIds |-> CashSpent(id)]) \in Int
  BY SpentType, TotalType, PaperAssumption
<1>2. ASSUME NEW i \in Instruments
      PROVE  SumFunction([id \in FillIds |-> QuantityAdded(id, i)]) \in Int
  BY SpentType, TotalType, PaperAssumption
<1>3. ASSUME NEW c \in Clients
      PROVE  /\ SumFunction([id \in FillIds |-> QuantityOf(id, c)]) \in Int
             /\ SumFunction([id \in FillIds |-> FeeOf(id, c)]) \in Int
  BY SpentType, TotalType, PaperAssumption
<1> QED
  BY <1>1, <1>2, <1>3

\* An order with no fills has empty totals.
LEMMA NoFillsNoTotals ==
  ASSUME NEW c \in Clients, FillsOf(c) = {}
  PROVE  /\ SumFunction([id \in FillIds |-> QuantityOf(id, c)]) = 0
         /\ SumFunction([id \in FillIds |-> FeeOf(id, c)]) = 0
<1>1. /\ [id \in FillIds |-> QuantityOf(id, c)] \in [FillIds -> Int]
      /\ \A id \in FillIds : [j \in FillIds |-> QuantityOf(j, c)][id] = 0
  BY DEF QuantityOf
<1>2. /\ [id \in FillIds |-> FeeOf(id, c)] \in [FillIds -> Int]
      /\ \A id \in FillIds : [j \in FillIds |-> FeeOf(j, c)][id] = 0
  BY DEF FeeOf
<1> QED
  BY <1>1, <1>2, TotalZero, PaperAssumption

\* initialize: the opening balances, and nothing held back or spent.
LEMMA InitializeKeeps ==
  ASSUME AccountInv, NEW o \in Opening, Initialize(o), PaperInv'
  PROVE  AccountInv'
<1>0. PaperInv /\ FillsHaveOrders
  BY DEF AccountInv
<1>1. /\ Stored = {} /\ orders' = orders /\ fills' = fills /\ opening' = o
      /\ cash' = o.cash /\ positions' = o.positions
  BY <1>0 DEF Initialize, FillsHaveOrders
<1>2. o.cash \in Nat /\ o.positions \in [Instruments -> Nat]
  BY PaperAssumption DEF Opening
<1>3. o # NotOpened
  BY <1>2 DEF NotOpened
<1>4. Stored' = {}
  BY <1>1 DEF Stored
<1>5. \A id \in FillIds : fills'[id] = NoFill
  BY <1>0, <1>1 DEF FillsHaveOrders
<1>6. \A c \in Clients : ~Live(c)'
  BY <1>1 DEF Stored, Live, NoOrder
<1>7. FillsHaveOrders'
  BY <1>1, <1>3, <1>5 DEF FillsHaveOrders
<1>8. Solvent'
  <2> DEFINE f == [c \in Clients |-> CashHeld(c)']
             p(i) == [c \in Clients |-> PositionHeld(c, i)']
  <2>1. f \in [Clients -> Int] /\ \A c \in Clients : f[c] = 0
    BY <1>6 DEF CashHeld
  <2>2. ReservedCash' = 0
    <3>1. ReservedCash' = SumFunction(f)
      BY DEF ReservedCash
    <3> HIDE DEF f
    <3> QED
      BY <2>1, <3>1, TotalZero, PaperAssumption
  <2>3. ASSUME NEW i \in Instruments PROVE ReservedPosition(i)' = 0
    <3>1. p(i) \in [Clients -> Int] /\ \A c \in Clients : p(i)[c] = 0
      BY <1>6 DEF PositionHeld
    <3>2. ReservedPosition(i)' = SumFunction(p(i))
      BY DEF ReservedPosition
    <3> HIDE DEF p
    <3> QED
      BY <3>1, <3>2, TotalZero, PaperAssumption
  <2> QED
    BY <1>1, <1>2, <2>2, <2>3 DEF Solvent
<1>9. Conserved'
  <2> DEFINE f == [id \in FillIds |-> CashSpent(id)']
             q(i) == [id \in FillIds |-> QuantityAdded(id, i)']
  <2>1. f \in [FillIds -> Int] /\ \A id \in FillIds : f[id] = 0
    BY <1>5 DEF CashSpent
  <2>2. SumFunction(f) = 0
    <3> HIDE DEF f
    <3> QED
      BY <2>1, TotalZero, PaperAssumption
  <2>3. ASSUME NEW i \in Instruments PROVE SumFunction(q(i)) = 0
    <3>1. q(i) \in [FillIds -> Int] /\ \A id \in FillIds : q(i)[id] = 0
      BY <1>5 DEF QuantityAdded
    <3> HIDE DEF q
    <3> QED
      BY <3>1, TotalZero, PaperAssumption
  <2>4. cash' = opening'.cash - SumFunction(f)
    BY <1>1, <1>2, <2>2
  <2>5. ASSUME NEW i \in Instruments
        PROVE  positions'[i] = opening'.positions[i] + SumFunction(q(i))
    BY <1>1, <1>2, <2>3
  <2> QED
    BY <2>4, <2>5 DEF Conserved
<1>10. OrderMatchesFills'
  BY <1>4 DEF OrderMatchesFills
<1> QED
  BY <1>7, <1>8, <1>9, <1>10 DEF AccountInv

\* A step that records no fill and keeps cash, positions and requests: the
\* fill totals stand, and a new order has no fills.
LEMMA OrdersOnly ==
  ASSUME AccountInv, PaperInv', NEW e \in Clients, \A c \in Clients : c # e => orders'[c] = orders[c],
         KeepsRequests, orders'[e] # NoOrder, opening # NotOpened,
         UNCHANGED <<opening, cash, positions, fills>>,
         e \in Stored => /\ orders'[e].filled = orders[e].filled
                         /\ orders'[e].feeLeft = orders[e].feeLeft,
         e \notin Stored => orders'[e].filled = 0 /\ orders'[e].request.fee = orders'[e].feeLeft
  PROVE  FillsHaveOrders' /\ Conserved' /\ OrderMatchesFills'
<1>0. PaperInv /\ FillsHaveOrders /\ Conserved /\ OrderMatchesFills /\ TypeOK
  BY DEF AccountInv, PaperInv
<1>1. Stored \subseteq Stored' /\ Stored' \subseteq Stored \cup {e} /\ Stored' \subseteq Clients
  BY DEF Stored
<1>2. FillsHaveOrders'
  BY <1>0, <1>1 DEF FillsHaveOrders
<1>3. Conserved'
  <2>1. /\ cash = opening.cash - SumFunction([id \in FillIds |-> CashSpent(id)])
        /\ \A i \in Instruments :
             positions[i] = opening.positions[i]
                            + SumFunction([id \in FillIds |-> QuantityAdded(id, i)])
    BY <1>0 DEF Conserved
  <2>2. /\ SumFunction([id \in FillIds |-> CashSpent(id)'])
              = SumFunction([id \in FillIds |-> CashSpent(id)])
        /\ \A i \in Instruments : SumFunction([id \in FillIds |-> QuantityAdded(id, i)'])
              = SumFunction([id \in FillIds |-> QuantityAdded(id, i)])
    BY <1>0, FillTotalsStay
  <2> QED
    BY <2>1, <2>2 DEF Conserved
<1>4. OrderMatchesFills'
  <2> SUFFICES ASSUME NEW c \in Stored'
               PROVE /\ orders'[c].filled = SumFunction([id \in FillIds |-> QuantityOf(id, c)'])
                     /\ orders'[c].request.fee
                          = orders'[c].feeLeft + SumFunction([id \in FillIds |-> FeeOf(id, c)'])
    BY DEF OrderMatchesFills
  <2>1. /\ SumFunction([id \in FillIds |-> QuantityOf(id, c)'])
             = SumFunction([id \in FillIds |-> QuantityOf(id, c)])
        /\ SumFunction([id \in FillIds |-> FeeOf(id, c)'])
             = SumFunction([id \in FillIds |-> FeeOf(id, c)])
    BY <1>0, <1>1, FillTotalsStay
  <2>2. CASE c \in Stored
    <3>1. /\ orders'[c].filled = orders[c].filled /\ orders'[c].feeLeft = orders[c].feeLeft
          /\ orders'[c].request = orders[c].request
      BY <1>1, <2>2 DEF KeepsRequests
    <3> QED
      BY <1>0, <2>1, <2>2, <3>1 DEF OrderMatchesFills
  <2>3. CASE c \notin Stored
    <3>1. c = e /\ c \in Clients /\ FillsOf(c) = {}
      BY <1>0, <1>1, <2>3 DEF FillsOf, FillsHaveOrders
    <3>2. /\ SumFunction([id \in FillIds |-> QuantityOf(id, c)]) = 0
          /\ SumFunction([id \in FillIds |-> FeeOf(id, c)]) = 0
      BY <3>1, NoFillsNoTotals
    <3>3. orders'[c] \in Order
      BY <1>1 DEF PaperInv, TypeOK, Stored
    <3>4. orders'[c].feeLeft \in Nat
      BY <3>3, OrderFields
    <3> QED
      BY <2>1, <2>3, <3>1, <3>2, <3>4
  <2> QED
    BY <2>2, <2>3
<1> QED
  BY <1>2, <1>3, <1>4

\* submit_order: what the new order holds back was free.
LEMMA SubmitKeeps ==
  ASSUME AccountInv, NEW r \in Request, SubmitOrder(r), PaperInv'
  PROVE  AccountInv'
<1> DEFINE e == r.client
           o == [status |-> "OPEN", filled |-> 0, feeLeft |-> r.fee, request |-> r]
<1>0. PaperInv /\ TypeOK /\ Solvent
  BY DEF AccountInv, PaperInv
<1>1. /\ e \in Clients /\ r.quantity \in Nat \ {0} /\ r.limit \in Nat /\ r.fee \in Nat
      /\ r.side \in {"BUY", "SELL"} /\ r.instrument \in Instruments
  BY RequestFields
<1>2. /\ orders' = [orders EXCEPT ![e] = o] /\ UNCHANGED <<opening, cash, positions, fills>>
      /\ opening # NotOpened /\ e \notin Stored /\ Funded(r)
  BY DEF SubmitOrder, Known
<1>3. orders'[e] = o /\ \A c \in Clients : c # e => orders'[c] = orders[c]
  BY <1>0, <1>1, <1>2 DEF TypeOK
<1>4. orders[e] = NoOrder /\ ~Live(e) /\ o # NoOrder
  BY <1>1, <1>2, OpenOrder DEF Stored, Live, NoOrder
<1>5. KeepsRequests
  BY <1>2, <1>3 DEF KeepsRequests, Stored
<1>6. FillsHaveOrders' /\ Conserved' /\ OrderMatchesFills'
  <2>1. orders'[e] # NoOrder /\ orders'[e].filled = 0 /\ orders'[e].request.fee = orders'[e].feeLeft
    BY <1>3, <1>4
  <2> HIDE DEF e, o
  <2> QED
    BY <1>1, <1>2, <1>3, <1>5, <2>1, OrdersOnly
<1>7. /\ ReservedCash' = ReservedCash - CashHeld(e) + CashHeld(e)'
      /\ \A i \in Instruments :
           ReservedPosition(i)' = ReservedPosition(i) - PositionHeld(e, i) + PositionHeld(e, i)'
  <2> HIDE DEF e, o
  <2> QED
    BY <1>0, <1>1, <1>3, ReservesMove
<1>8. CashHeld(e) = 0 /\ \A i \in Instruments : PositionHeld(e, i) = 0
  BY <1>4 DEF CashHeld, PositionHeld
<1>9. Remaining(o) = r.quantity
  BY <1>1 DEF Remaining
<1>10. CashHeld(e)' = Needed(r)
  <2>1. Live(e)'
    BY <1>3 DEF Live
  <2> QED
    BY <1>3, <1>9, <2>1 DEF CashHeld, Needed
<1>11. \A i \in Instruments :
         PositionHeld(e, i)' = IF r.side = "SELL" /\ r.instrument = i THEN r.quantity ELSE 0
  <2>1. Live(e)'
    BY <1>3 DEF Live
  <2> QED
    BY <1>3, <1>9, <2>1 DEF PositionHeld
<1>12. ReservedCash \in Nat /\ \A i \in Instruments : ReservedPosition(i) \in Nat
  BY <1>0, ReservedType
<1>13. Needed(r) \in Nat
  <2>1. r.quantity * r.limit \in Nat
    BY <1>1
  <2> QED
    BY <1>1, <2>1 DEF Needed
<1>14. cash' >= ReservedCash'
  BY <1>0, <1>2, <1>7, <1>8, <1>10, <1>12, <1>13 DEF Funded, TypeOK
<1>15. ASSUME NEW i \in Instruments PROVE positions'[i] >= ReservedPosition(i)'
  <2>1. positions[i] \in Int /\ positions'[i] = positions[i] /\ positions[i] >= ReservedPosition(i)
    BY <1>0, <1>2 DEF TypeOK, Solvent
  <2>2. ReservedPosition(i)' = ReservedPosition(i) + PositionHeld(e, i)'
    BY <1>7, <1>8, <1>12
  <2>3. CASE r.side = "SELL" /\ r.instrument = i
    BY <1>1, <1>2, <1>11, <1>12, <2>1, <2>2, <2>3 DEF Funded
  <2>4. CASE ~(r.side = "SELL" /\ r.instrument = i)
    BY <1>11, <1>12, <2>1, <2>2, <2>4
  <2> QED
    BY <2>3, <2>4
<1> QED
  BY <1>6, <1>14, <1>15 DEF AccountInv, Solvent

\* cancel_order: a canceled order holds nothing back.
LEMMA CancelKeeps ==
  ASSUME AccountInv, NEW e \in Clients, CancelOrder(e), PaperInv'
  PROVE  AccountInv'
<1> DEFINE o == [orders[e] EXCEPT !.status = "CANCELED"]
<1>0. PaperInv /\ TypeOK /\ Solvent /\ FillsHaveOrders
  BY DEF AccountInv, PaperInv
<1>1. e \in Stored /\ orders[e] \in Order
  BY <1>0, LiveIsStored, StoredIsOrder DEF CancelOrder
<1>2. orders' = [orders EXCEPT ![e] = o] /\ UNCHANGED <<opening, cash, positions, fills>>
  BY DEF CancelOrder
<1>3. orders'[e] = o /\ \A c \in Clients : c # e => orders'[c] = orders[c]
  BY <1>0, <1>2 DEF TypeOK
<1>4. /\ o \in Order /\ o # NoOrder /\ o.filled = orders[e].filled /\ o.feeLeft = orders[e].feeLeft
      /\ o.request = orders[e].request /\ o.status = "CANCELED"
  BY <1>1, OrderFields DEF Order, NoOrder
<1> HIDE DEF o
<1>5. KeepsRequests
  BY <1>3, <1>4 DEF KeepsRequests, Stored
<1>6. FillsHaveOrders' /\ Conserved' /\ OrderMatchesFills'
  <2>1. opening # NotOpened
    BY <1>0, <1>1 DEF FillsHaveOrders
  <2> QED
    BY <1>1, <1>2, <1>3, <1>4, <1>5, <2>1, OrdersOnly
<1>7. /\ ReservedCash' = ReservedCash - CashHeld(e) + CashHeld(e)'
      /\ \A i \in Instruments :
           ReservedPosition(i)' = ReservedPosition(i) - PositionHeld(e, i) + PositionHeld(e, i)'
  BY <1>0, <1>3, ReservesMove
<1>8. ~Live(e)'
  BY <1>3, <1>4 DEF Live
<1>9. CashHeld(e)' = 0 /\ \A i \in Instruments : PositionHeld(e, i)' = 0
  BY <1>8 DEF CashHeld, PositionHeld
<1>10. CashHeld(e) \in Nat /\ \A i \in Instruments : PositionHeld(e, i) \in Nat
  BY <1>0, HeldType
<1>11. ReservedCash \in Nat /\ \A i \in Instruments : ReservedPosition(i) \in Nat
  BY <1>0, ReservedType
<1>12. Solvent'
  BY <1>0, <1>2, <1>7, <1>9, <1>10, <1>11 DEF Solvent, TypeOK
<1> QED
  BY <1>6, <1>12 DEF AccountInv

\* record_fill: a fill at the limit or better costs no more than was held back
\* for it, and it moves the account by exactly its own terms.
LEMMA FillKeeps ==
  ASSUME AccountInv, NEW id \in FillIds, NEW f \in Fill, RecordFill(id, f), PaperInv'
  PROVE  AccountInv'
<1> DEFINE e == f.client
           old == orders[e]
           o == Filled(old, f)
           r == old.request
<1>0. PaperInv /\ TypeOK /\ TypeOK' /\ Solvent /\ FillsHaveOrders /\ Conserved /\ OrderMatchesFills
      /\ NeverOverfilled
  BY DEF AccountInv, PaperInv
<1>1. /\ e \in Clients /\ f # NoFill
      /\ f.quantity \in Nat \ {0} /\ f.price \in Nat /\ f.fee \in Nat
  BY FillFields
<1>2. e \in Stored /\ Live(e) /\ old \in Order
  BY <1>0, <1>1, LiveIsStored, StoredIsOrder DEF RecordFill, Fillable
<1>3. /\ r.side \in {"BUY", "SELL"} /\ r.instrument \in Instruments /\ r.limit \in Nat
      /\ old.feeLeft \in Nat /\ old.filled \in Nat /\ r.quantity \in Nat /\ r.fee \in Nat
  BY <1>2, OrderFields, RequestFields
<1>4. /\ f.quantity <= Remaining(old) /\ f.fee <= old.feeLeft
      /\ r.side = "BUY" => f.price <= r.limit
  BY DEF RecordFill, Fillable
<1>5. /\ o \in Order /\ o # NoOrder /\ o.request = r
      /\ o.filled = old.filled + f.quantity /\ o.feeLeft = old.feeLeft - f.fee
      /\ o.status = IF f.quantity = Remaining(old) THEN "FILLED" ELSE "PARTIALLY_FILLED"
  BY <1>2, <1>4, FilledOrder
<1>6. Remaining(old) \in Nat /\ Remaining(o) = Remaining(old) - f.quantity
  BY <1>1, <1>3, <1>4, <1>5 DEF Remaining
<1>7. /\ fills[id] = NoFill /\ opening' = opening
      /\ cash' = cash - Signed(r.side, f.quantity * f.price) - f.fee
      /\ positions' = [positions EXCEPT ![r.instrument] = @ + Signed(r.side, f.quantity)]
      /\ orders' = [orders EXCEPT ![e] = o] /\ fills' = [fills EXCEPT ![id] = f]
  BY DEF RecordFill
<1>8. /\ orders'[e] = o /\ \A c \in Clients : c # e => orders'[c] = orders[c]
      /\ fills'[id] = f /\ \A j \in FillIds : j # id => fills'[j] = fills[j]
  BY <1>0, <1>1, <1>7 DEF TypeOK
<1> HIDE DEF o, r, old, e
<1>9. KeepsRequests /\ Stored' = Stored /\ Stored \subseteq Clients
  <2>1. orders[e] = old /\ r = old.request
    BY DEF old, r
  <2> QED
    BY <1>2, <1>5, <1>8, <2>1 DEF KeepsRequests, Stored
<1>10. opening # NotOpened
  BY <1>0, <1>2 DEF FillsHaveOrders
<1>11. FillsHaveOrders'
  <2>1. f.client = e
    BY DEF e
  <2> QED
    BY <1>0, <1>2, <1>7, <1>8, <1>9, <1>10, <2>1 DEF FillsHaveOrders
<1>12. f.quantity * f.price \in Nat
  BY <1>1
<1>13. cash \in Int /\ positions \in [Instruments -> Int] /\ opening.cash \in Int
       /\ opening.positions \in [Instruments -> Int]
  BY <1>0, PaperAssumption DEF TypeOK, Opening, NotOpened
<1>14. /\ SumFunction([j \in FillIds |-> CashSpent(j)'])
            = SumFunction([j \in FillIds |-> CashSpent(j)]) + CashSpent(id)'
       /\ \A i \in Instruments : SumFunction([j \in FillIds |-> QuantityAdded(j, i)'])
            = SumFunction([j \in FillIds |-> QuantityAdded(j, i)]) + QuantityAdded(id, i)'
       /\ \A c \in Clients :
            /\ SumFunction([j \in FillIds |-> QuantityOf(j, c)'])
                 = SumFunction([j \in FillIds |-> QuantityOf(j, c)]) + QuantityOf(id, c)'
            /\ SumFunction([j \in FillIds |-> FeeOf(j, c)'])
                 = SumFunction([j \in FillIds |-> FeeOf(j, c)]) + FeeOf(id, c)'
  BY <1>0, <1>7, <1>8, <1>9, <1>11, FillTotalsMove
<1>15. /\ SumFunction([j \in FillIds |-> CashSpent(j)]) \in Int
       /\ \A i \in Instruments : SumFunction([j \in FillIds |-> QuantityAdded(j, i)]) \in Int
       /\ \A c \in Clients : /\ SumFunction([j \in FillIds |-> QuantityOf(j, c)]) \in Int
                             /\ SumFunction([j \in FillIds |-> FeeOf(j, c)]) \in Int
  BY <1>0, TotalsType
<1>16. /\ CashSpent(id)' = Signed(r.side, f.quantity * f.price) + f.fee
       /\ \A i \in Instruments :
            QuantityAdded(id, i)' = IF r.instrument = i THEN Signed(r.side, f.quantity) ELSE 0
       /\ \A c \in Clients : /\ QuantityOf(id, c)' = IF c = e THEN f.quantity ELSE 0
                             /\ FeeOf(id, c)' = IF c = e THEN f.fee ELSE 0
  <2>1. fills'[id] = f /\ f.client = e /\ orders'[f.client].request = r
    BY <1>5, <1>8 DEF e
  <2>2. \A c \in Clients : id \in FillsOf(c)' <=> c = e
    BY <1>1, <2>1 DEF FillsOf
  <2> QED
    BY <1>1, <2>1, <2>2 DEF CashSpent, QuantityAdded, QuantityOf, FeeOf
<1>17. Signed(r.side, f.quantity * f.price) \in Int /\ Signed(r.side, f.quantity) \in Int
  BY <1>1, <1>12 DEF Signed
<1>18. Conserved'
  <2> DEFINE A == SumFunction([j \in FillIds |-> CashSpent(j)])
             B(i) == SumFunction([j \in FillIds |-> QuantityAdded(j, i)])
  <2>1. cash = opening.cash - A /\ A \in Int
    BY <1>0, <1>10, <1>15 DEF Conserved
  <2>2. cash' = opening'.cash - (A + CashSpent(id)')
    <3> HIDE DEF A
    <3> QED
      BY <1>1, <1>7, <1>13, <1>16, <1>17, <2>1
  <2>3. ASSUME NEW i \in Instruments
        PROVE  positions'[i] = opening'.positions[i] + (B(i) + QuantityAdded(id, i)')
    <3>1. positions[i] = opening.positions[i] + B(i) /\ B(i) \in Int
      BY <1>0, <1>10, <1>15 DEF Conserved
    <3>2. positions'[i] = positions[i] + QuantityAdded(id, i)'
      BY <1>3, <1>7, <1>13, <1>16, <1>17
    <3>3. QuantityAdded(id, i)' \in Int
      BY <1>16, <1>17
    <3> HIDE DEF B
    <3> QED
      BY <1>7, <1>13, <3>1, <3>2, <3>3
  <2> QED
    BY <1>14, <2>2, <2>3 DEF Conserved
<1>19. OrderMatchesFills'
  <2> SUFFICES ASSUME NEW c \in Stored'
               PROVE /\ orders'[c].filled = SumFunction([j \in FillIds |-> QuantityOf(j, c)'])
                     /\ orders'[c].request.fee
                          = orders'[c].feeLeft + SumFunction([j \in FillIds |-> FeeOf(j, c)'])
    BY DEF OrderMatchesFills
  <2> DEFINE A == SumFunction([j \in FillIds |-> QuantityOf(j, c)])
             B == SumFunction([j \in FillIds |-> FeeOf(j, c)])
  <2>1. c \in Clients /\ c \in Stored
    BY <1>9
  <2>2. /\ orders[c].filled = A /\ orders[c].request.fee = orders[c].feeLeft + B
        /\ A \in Int /\ B \in Int
    BY <1>0, <1>15, <2>1 DEF OrderMatchesFills
  <2>3. /\ SumFunction([j \in FillIds |-> QuantityOf(j, c)']) = A + QuantityOf(id, c)'
        /\ SumFunction([j \in FillIds |-> FeeOf(j, c)']) = B + FeeOf(id, c)'
    BY <1>14, <2>1
  <2>4. CASE c = e
    <3>1. orders[c] = old /\ r = old.request
      BY <2>4 DEF old, r
    <3> HIDE DEF A, B
    <3>2. orders'[c].filled = A + f.quantity
      BY <1>5, <1>8, <2>2, <2>4, <3>1
    <3>3. orders'[c].request.fee = orders'[c].feeLeft + (B + f.fee)
      BY <1>1, <1>3, <1>5, <1>8, <2>2, <2>4, <3>1
    <3> QED
      BY <1>16, <2>1, <2>3, <2>4, <3>2, <3>3
  <2>5. CASE c # e
    <3>1. orders'[c] = orders[c] /\ QuantityOf(id, c)' = 0 /\ FeeOf(id, c)' = 0
      BY <1>8, <1>16, <2>1, <2>5
    <3> HIDE DEF A, B
    <3> QED
      BY <2>2, <2>3, <3>1
  <2> QED
    BY <2>4, <2>5
<1>20. /\ ReservedCash' = ReservedCash - CashHeld(e) + CashHeld(e)'
       /\ \A i \in Instruments :
            ReservedPosition(i)' = ReservedPosition(i) - PositionHeld(e, i) + PositionHeld(e, i)'
  BY <1>0, <1>1, <1>8, ReservesMove
<1>21. ReservedCash \in Nat /\ \A i \in Instruments : ReservedPosition(i) \in Nat
  BY <1>0, ReservedType
<1>22. CashHeld(e) = old.feeLeft + (IF r.side = "BUY" THEN Remaining(old) * r.limit ELSE 0)
  BY <1>2 DEF CashHeld, old, r
<1>23. Live(e)' <=> f.quantity # Remaining(old)
  BY <1>5, <1>8 DEF Live
<1>24. CashHeld(e)' <= old.feeLeft - f.fee
         + (IF r.side = "BUY" THEN (Remaining(old) - f.quantity) * r.limit ELSE 0)
  <2>1. CASE Live(e)'
    <3>1. CashHeld(e)' = o.feeLeft + (IF r.side = "BUY" THEN Remaining(o) * r.limit ELSE 0)
      BY <1>5, <1>8, <2>1 DEF CashHeld
    <3>2. Remaining(o) * r.limit \in Int
      BY <1>1, <1>3, <1>6
    <3> QED
      BY <1>1, <1>3, <1>5, <1>6, <3>1, <3>2
  <2>2. CASE ~Live(e)'
    <3>1. CashHeld(e)' = 0
      BY <2>2 DEF CashHeld
    <3>2. (Remaining(old) - f.quantity) * r.limit = 0
      BY <1>1, <1>3, <1>6, <1>23, <2>2
    <3> QED
      BY <1>1, <1>3, <1>4, <3>1, <3>2
  <2> QED
    BY <2>1, <2>2
<1>25. CashHeld(e)' \in Nat /\ CashHeld(e) \in Nat
  <2>1. ASSUME NEW c \in Clients PROVE (CashHeld(c) \in Nat)'
    BY HeldType, PTL
  <2> QED
    BY <1>0, <1>1, <2>1, HeldType
<1>26. CashHeld(e) - CashHeld(e)' >= Signed(r.side, f.quantity * f.price) + f.fee
  <2>1. CASE r.side = "BUY"
    <3>1. f.quantity * f.price <= f.quantity * r.limit /\ f.quantity * r.limit \in Nat
      BY <1>1, <1>3, <1>4, <2>1, TimesMonotone
    <3>2. (Remaining(old) - f.quantity) * r.limit = Remaining(old) * r.limit - f.quantity * r.limit
      BY <1>1, <1>3, <1>6, TimesMinus
    <3>3. Remaining(old) * r.limit \in Nat
      BY <1>3, <1>6
    <3>4. Signed(r.side, f.quantity * f.price) = f.quantity * f.price
      BY <2>1 DEF Signed
    <3>5. CashHeld(e) = old.feeLeft + Remaining(old) * r.limit
      BY <1>22, <2>1
    <3>6. CashHeld(e)' <= old.feeLeft - f.fee + (Remaining(old) * r.limit - f.quantity * r.limit)
      BY <1>24, <2>1, <3>2
    <3> HIDE DEF Remaining
    <3> QED
      BY <1>1, <1>3, <1>12, <1>25, <3>1, <3>3, <3>4, <3>5, <3>6
  <2>2. CASE r.side # "BUY"
    <3>1. Signed(r.side, f.quantity * f.price) = 0 - f.quantity * f.price
      BY <2>2 DEF Signed
    <3>2. CashHeld(e) = old.feeLeft /\ CashHeld(e)' <= old.feeLeft - f.fee
      BY <1>1, <1>3, <1>22, <1>24, <2>2
    <3> QED
      BY <1>1, <1>3, <1>12, <1>25, <3>1, <3>2
  <2> QED
    BY <2>1, <2>2
<1>27. cash' >= ReservedCash'
  <2>1. cash >= ReservedCash
    BY <1>0 DEF Solvent
  <2> QED
    BY <1>1, <1>7, <1>13, <1>17, <1>20, <1>21, <1>25, <1>26, <2>1
<1>28. ASSUME NEW i \in Instruments PROVE positions'[i] >= ReservedPosition(i)'
  <2>1. positions[i] \in Int /\ positions[i] >= ReservedPosition(i) /\ ReservedPosition(i) \in Nat
    BY <1>0, <1>13, <1>21 DEF Solvent
  <2>2. ReservedPosition(i)' = ReservedPosition(i) - PositionHeld(e, i) + PositionHeld(e, i)'
    BY <1>20
  <2>3. PositionHeld(e, i) = IF r.side = "SELL" /\ r.instrument = i THEN Remaining(old) ELSE 0
    BY <1>2 DEF PositionHeld, old, r
  <2>4. PositionHeld(e, i)' = IF r.side = "SELL" /\ r.instrument = i
                              THEN Remaining(old) - f.quantity ELSE 0
    BY <1>1, <1>3, <1>5, <1>6, <1>8, <1>23 DEF PositionHeld
  <2>5. positions'[i] = IF r.instrument = i THEN positions[i] + Signed(r.side, f.quantity)
                        ELSE positions[i]
    BY <1>3, <1>7, <1>13
  <2>6. CASE r.instrument = i /\ r.side = "SELL"
    BY <1>1, <1>6, <2>1, <2>2, <2>3, <2>4, <2>5, <2>6 DEF Signed
  <2>7. CASE r.instrument = i /\ r.side = "BUY"
    BY <1>1, <1>6, <2>1, <2>2, <2>3, <2>4, <2>5, <2>7 DEF Signed
  <2>8. CASE r.instrument # i
    BY <2>1, <2>2, <2>3, <2>4, <2>5, <2>8
  <2> QED
    BY <1>3, <2>6, <2>7, <2>8
<1> QED
  BY <1>11, <1>18, <1>19, <1>27, <1>28 DEF AccountInv, Solvent

LEMMA AccountStep == AccountInv /\ [Next]_vars => AccountInv'
<1> SUFFICES ASSUME AccountInv, [Next]_vars PROVE AccountInv'
  OBVIOUS
<1>1. PaperInv'
  BY PaperStep DEF AccountInv
<1>2. CASE UNCHANGED vars
  <2>1. /\ FillsHaveOrders' = FillsHaveOrders /\ Solvent' = Solvent
        /\ Conserved' = Conserved /\ OrderMatchesFills' = OrderMatchesFills
    BY <1>2 DEF FillsHaveOrders, Solvent, Conserved, OrderMatchesFills, vars, Stored, FillsOf,
       ReservedCash, ReservedPosition, CashHeld, PositionHeld, Live, CashSpent, QuantityAdded,
       QuantityOf, FeeOf
  <2> QED
    BY <1>1, <2>1 DEF AccountInv
<1> QED
  BY <1>1, <1>2, InitializeKeeps, SubmitKeeps, CancelKeeps, FillKeeps DEF Next

LEMMA AccountInit == Init => AccountInv
<1> SUFFICES ASSUME Init PROVE AccountInv
  OBVIOUS
<1>1. PaperInv
  BY DEF Init, PaperInv, TypeOK, NeverOverfilled, OneOrderPerIntent, Stored
<1>2. Stored = {} /\ \A c \in Clients : ~Live(c)
  BY DEF Init, Stored, Live, NoOrder
<1>3. FillsHaveOrders /\ Conserved /\ OrderMatchesFills
  BY <1>2 DEF Init, FillsHaveOrders, Conserved, OrderMatchesFills
<1>4. ReservedCash = 0
  <2> DEFINE f == [c \in Clients |-> CashHeld(c)]
  <2>1. f \in [Clients -> Int] /\ \A c \in Clients : f[c] = 0
    BY <1>2 DEF CashHeld
  <2> QED
    BY <2>1, TotalZero, PaperAssumption DEF ReservedCash
<1>5. ASSUME NEW i \in Instruments PROVE ReservedPosition(i) = 0
  <2> DEFINE f == [c \in Clients |-> PositionHeld(c, i)]
  <2>1. f \in [Clients -> Int] /\ \A c \in Clients : f[c] = 0
    BY <1>2 DEF PositionHeld
  <2> QED
    BY <2>1, TotalZero, PaperAssumption DEF ReservedPosition
<1>6. Solvent
  BY <1>4, <1>5 DEF Solvent, Init
<1> QED
  BY <1>1, <1>3, <1>6 DEF AccountInv

\* The inductive invariant of the account.
THEOREM AccountInvariant == Spec => []AccountInv
<1> QED
  BY AccountInit, AccountStep, PTL DEF Spec

\* No sequence of submissions, partial fills and cancels overdraws the account,
\* and its balances are the opening ones and the stored fills (submit_order,
\* record_fill, _reserved).
THEOREM AccountStaysSound == Spec => []AccountIsSound
<1>1. AccountInv => AccountIsSound
  BY DEF AccountInv, AccountIsSound
<1> QED
  BY <1>1, AccountInvariant, PTL

\* What an order says was filled and charged is what its stored fills add up to
\* (record_fill).
THEOREM OrdersMatchTheirFills == Spec => []OrderMatchesFills
<1>1. AccountInv => OrderMatchesFills
  BY DEF AccountInv
<1> QED
  BY <1>1, AccountInvariant, PTL

-----------------------------------------------------------------------------
(* The account ledger                                                      *)

LEMMA LatestIs ==
  ASSUME NEW n \in Nat, NEW S, S \subseteq 1 .. n, S # {}
  PROVE  Latest(S) \in S /\ \A j \in S : j <= Latest(S)
<1> DEFINE T == {n - i : i \in S}
<1>1. T \subseteq Nat /\ T # {}
  <2>1. \A i \in S : i \in 1 .. n
    OBVIOUS
  <2>2. \A i \in 1 .. n : n - i \in Nat
    OBVIOUS
  <2> QED
    BY <2>1, <2>2
<1> HIDE DEF T
<1>2. PICK t \in T : \A u \in T : t <= u
  BY <1>1, SmallestNumber
<1>3. PICK i \in S : t = n - i
  BY DEF T
<1>4. \A j \in S : n - j \in T
  BY DEF T
<1>5. \A j \in S : j <= i
  BY <1>2, <1>3, <1>4
<1> QED
  BY <1>5 DEF Latest

\* The least number of a set above k.
LEMMA NextIs ==
  ASSUME NEW S, S \subseteq Nat, NEW k \in Int, \E i \in S : i > k
  PROVE  \E i \in S : i > k /\ \A j \in S : j > k => i <= j
<1> DEFINE T == {i \in S : i > k}
<1>1. T \subseteq Nat /\ T # {}
  OBVIOUS
<1>2. PICK i \in T : \A j \in T : i <= j
  <2> HIDE DEF T
  <2> QED
    BY <1>1, SmallestNumber
<1> QED
  BY <1>2

\* The tables of executions are lists of rows that hold numbers.
Tables(d) ==
  /\ DOMAIN d = {"raw", "rows", "orders", "snaps", "deltas", "cash", "blocks"}
  /\ IsList(d.snaps) /\ IsList(d.deltas) /\ IsList(d.blocks)
  /\ \A i \in DOMAIN d.snaps :
        d.snaps[i].seq \in Nat \ {0} /\ d.snaps[i].qty \in Int /\ d.snaps[i].fee \in Int
  /\ \A i \in DOMAIN d.deltas : d.deltas[i].qty \in Int /\ d.deltas[i].fee \in Int
  /\ \A i \in DOMAIN d.blocks : DOMAIN d.blocks[i] = {"order", "resolved"}

Ordered(d, o) == \A i, j \in Chain(d, o) : i < j => d.snaps[i].seq < d.snaps[j].seq

ChainsHold(d) == Tables(d) /\ \A o \in Orders : Telescopes(d, o) /\ Ordered(d, o)

LEMMA ChainIs ==
  ASSUME NEW d, Tables(d), NEW o
  PROVE  /\ Len(d.snaps) \in Nat /\ DOMAIN d.snaps = 1 .. Len(d.snaps)
         /\ Chain(d, o) \subseteq 1 .. Len(d.snaps) /\ Chain(d, o) \subseteq Nat
         /\ \A i \in Chain(d, o) : d.snaps[i].seq \in Nat \ {0}
<1>1. Len(d.snaps) \in Nat /\ DOMAIN d.snaps = 1 .. Len(d.snaps)
  BY DEF Tables, IsList
<1>2. Chain(d, o) \subseteq DOMAIN d.snaps
  BY DEF Chain
<1> QED
  BY <1>1, <1>2 DEF Tables

LEMMA PreviousIs ==
  ASSUME NEW d, Tables(d), NEW o, Ordered(d, o)
  PROVE  \/ Chain(d, o) = {} /\ Previous(d, o) = NoSnapshot
         \/ LET k == Latest(Chain(d, o))
            IN  /\ k \in Chain(d, o) /\ \A j \in Chain(d, o) : j <= k
                /\ Previous(d, o) = d.snaps[k]
                /\ \A j \in Chain(d, o) : d.snaps[j].seq <= d.snaps[k].seq
<1>1. CASE Chain(d, o) = {}
  BY <1>1 DEF Previous
<1>2. CASE Chain(d, o) # {}
  <2> DEFINE C == Chain(d, o)
             k == Latest(C)
             seq(j) == d.snaps[j].seq
  <2>1. k \in C /\ \A j \in C : j <= k
    BY <1>2, ChainIs, LatestIs
  <2>2. C \subseteq Nat /\ \A j \in C : seq(j) \in Nat
    BY ChainIs
  <2>3. \A i, j \in C : i < j => seq(i) < seq(j)
    BY DEF Ordered
  <2>4. Previous(d, o) = d.snaps[CHOOSE i \in C : \A j \in C : seq(j) <= seq(i)]
    BY <1>2 DEF Previous
  <2> HIDE DEF C, k, seq
  <2>5. \A j \in C : j # k => seq(j) < seq(k)
    BY <2>1, <2>2, <2>3
  <2>6. \A j \in C : seq(j) <= seq(k)
    BY <2>1, <2>2, <2>5
  <2>7. \A i \in C : (\A j \in C : seq(j) <= seq(i)) => i = k
    BY <2>1, <2>2, <2>5
  <2>8. (CHOOSE i \in C : \A j \in C : seq(j) <= seq(i)) = k
    BY <2>1, <2>6, <2>7
  <2> QED
    BY <2>1, <2>4, <2>6, <2>8 DEF C, k, seq
<1> QED
  BY <1>1, <1>2

\* A row of the chain, or none, that no row succeeds is the last one: a row that
\* was read before the transaction is still current if the constraint admits its
\* successor.
LEMMA StaleIsLast ==
  ASSUME NEW d, ChainsHold(d), NEW o \in Orders, NEW prev,
         prev = NoSnapshot \/ \E i \in Chain(d, o) : prev = d.snaps[i],
         ~\E i \in Chain(d, o) : d.snaps[i].seq = prev.seq + 1
  PROVE  prev = Previous(d, o)
<1> DEFINE C == Chain(d, o)
           before(i) == {j \in C : j < i}
<1>1. Tables(d) /\ Ordered(d, o)
  BY DEF ChainsHold
<1>2. /\ Len(d.snaps) \in Nat /\ C \subseteq 1 .. Len(d.snaps) /\ C \subseteq Nat
      /\ \A i \in C : d.snaps[i].seq \in Nat
  BY <1>1, ChainIs
<1>3. \A i \in C : d.snaps[i].seq =
         1 + IF before(i) = {} THEN 0 ELSE d.snaps[Latest(before(i))].seq
  BY DEF ChainsHold, Telescopes
<1>4. CASE prev = NoSnapshot
  <2>1. NoSnapshot.seq = 0
    BY DEF NoSnapshot
  <2>2. ASSUME C # {} PROVE FALSE
    <3>1. PICK i \in C : \A j \in C : i <= j
      <4> HIDE DEF C
      <4> QED
        BY <1>2, <2>2, SmallestNumber
    <3>2. before(i) = {}
      BY <1>2, <3>1
    <3>3. d.snaps[i].seq = 1 + 0
      BY <1>3, <3>2
    <3> QED
      BY <1>4, <2>1, <3>3
  <2> QED
    BY <1>4, <2>2 DEF Previous
<1>5. ASSUME NEW k \in C, prev = d.snaps[k] PROVE prev = Previous(d, o)
  <2>1. PICK m \in C : (\A j \in C : j <= m) /\ Previous(d, o) = d.snaps[m]
    BY <1>1, PreviousIs
  <2>2. ASSUME k # m PROVE FALSE
    <3>1. \E i \in C : i > k
      BY <1>2, <2>1, <2>2
    <3>2. PICK i \in C : i > k /\ \A j \in C : j > k => i <= j
      <4>1. k \in Int
        BY <1>2
      <4> HIDE DEF C
      <4> QED
        BY <1>2, <3>1, <4>1, NextIs
    <3>3. /\ before(i) # {} /\ before(i) \subseteq 1 .. Len(d.snaps)
          /\ k \in before(i) /\ \A j \in before(i) : j <= k
      BY <1>2, <3>2
    <3> HIDE DEF C, before
    <3>4. Latest(before(i)) \in before(i) /\ \A j \in before(i) : j <= Latest(before(i))
      BY <1>2, <3>3, LatestIs
    <3>5. \A j \in before(i) : j \in Nat
      BY <3>3, <1>2
    <3>6. Latest(before(i)) = k
      BY <3>3, <3>4, <3>5
    <3>7. d.snaps[i].seq = 1 + d.snaps[k].seq
      BY <1>3, <3>3, <3>6
    <3>8. d.snaps[i].seq = prev.seq + 1
      BY <1>2, <1>5, <3>7
    <3> QED
      BY <3>8 DEF C
  <2> QED
    BY <1>5, <2>1, <2>2
<1> QED
  BY <1>4, <1>5

LEMMA LastHasNoNext ==
  ASSUME NEW d, ChainsHold(d), NEW o \in Orders
  PROVE  /\ Previous(d, o) = NoSnapshot \/ \E i \in Chain(d, o) : Previous(d, o) = d.snaps[i]
         /\ ~\E i \in Chain(d, o) : d.snaps[i].seq = Previous(d, o).seq + 1
<1>1. Tables(d) /\ Ordered(d, o)
  BY DEF ChainsHold
<1>2. \A i \in Chain(d, o) : d.snaps[i].seq \in Nat
  BY <1>1, ChainIs
<1> QED
  BY <1>1, <1>2, PreviousIs

\* The next database has what this one has: the responses and rows, every
\* snapshot, and a block for every blocked order.
Grew(d, e) ==
  /\ e.raw = d.raw /\ e.rows = d.rows /\ e.orders = d.orders /\ e.cash = d.cash
  /\ \A i \in DOMAIN d.snaps : i \in DOMAIN e.snaps /\ e.snaps[i] = d.snaps[i]
  /\ \A i \in DOMAIN d.deltas : i \in DOMAIN e.deltas /\ e.deltas[i] = d.deltas[i]
  /\ \A i \in DOMAIN d.blocks : i \in DOMAIN e.blocks /\ e.blocks[i].order = d.blocks[i].order

\* A report of an order is on file for a run.
KeptIn(d, run, o) ==
  \/ \E i \in DOMAIN d.snaps : d.snaps[i].run = run /\ d.snaps[i].order = o
  \/ \E i \in DOMAIN d.blocks : d.blocks[i].order = o

LEMMA KeptStays ==
  ASSUME NEW d, NEW e, Grew(d, e), NEW run, NEW o, KeptIn(d, run, o)
  PROVE  KeptIn(e, run, o)
BY DEF Grew, KeptIn

ReportOk(report) == report.order \in Orders /\ report.qty \in Int /\ report.fee \in Int

SnapOf(run, prev, report) ==
  [order |-> report.order, seq |-> prev.seq + 1, run |-> run, qty |-> report.qty,
   fee |-> report.fee, status |-> report.status, settle |-> report.settle]
DeltaOf(run, prev, report) ==
  [run |-> run, order |-> report.order, to |-> prev.seq + 1,
   qty |-> report.qty - prev.qty, fee |-> report.fee - prev.fee]
NoDelta(prev, report) == report.qty - prev.qty = 0 /\ report.fee - prev.fee = 0

LEMMA AppendFields ==
  ASSUME NEW d, Tables(d), NEW run, NEW prev, NEW report
  PROVE  LET e == AppendSnapshot(d, run, prev, report)
         IN  /\ DOMAIN e = DOMAIN d /\ e.raw = d.raw /\ e.rows = d.rows /\ e.orders = d.orders
             /\ e.cash = d.cash /\ e.blocks = d.blocks
             /\ e.snaps = Append(d.snaps, SnapOf(run, prev, report))
             /\ e.deltas = IF NoDelta(prev, report) THEN d.deltas
                           ELSE Append(d.deltas, DeltaOf(run, prev, report))
BY DEF AppendSnapshot, Tables, SnapOf, DeltaOf, NoDelta

Steps(d, o) == {i \in DOMAIN d.deltas : d.deltas[i].order = o}

LEMMA StepsFinite ==
  ASSUME NEW d, Tables(d), NEW o
  PROVE  IsFiniteSet(Steps(d, o))
<1>1. Len(d.deltas) \in Nat /\ DOMAIN d.deltas = 1 .. Len(d.deltas)
  BY DEF Tables, IsList
<1>2. IsFiniteSet(1 .. Len(d.deltas))
  BY <1>1, FS_Interval
<1>3. Steps(d, o) \subseteq 1 .. Len(d.deltas)
  BY <1>1 DEF Steps
<1> QED
  BY <1>2, <1>3, FS_Subset

\* What is added to the deltas is added to their sum.
LEMMA SumGrows ==
  ASSUME NEW S, IsFiniteSet(S), NEW m, m \notin S, NEW f, NEW g, \A i \in S : f[i] \in Int,
         \A i \in S : g[i] = f[i], g[m] \in Int
  PROVE  SumFunctionOnSet(g, S \cup {m}) = SumFunctionOnSet(f, S) + g[m]
<1>1. SumFunctionOnSet(g, S \cup {m}) = g[m] + SumFunctionOnSet(g, S)
  BY SumAdd
<1>2. SumFunctionOnSet(g, S) = SumFunctionOnSet(f, S)
  BY SumEqual
<1>3. SumFunctionOnSet(f, S) \in Int
  BY SumType
<1> QED
  BY <1>1, <1>2, <1>3

LEMMA NewTables ==
  ASSUME NEW d, Tables(d), NEW run, NEW prev, prev.seq \in Nat, prev.qty \in Int, prev.fee \in Int,
         NEW report, ReportOk(report)
  PROVE  LET e == AppendSnapshot(d, run, prev, report)
             n == Len(d.snaps) + 1
         IN  /\ Tables(e) /\ Grew(d, e) /\ Len(d.snaps) \in Nat
             /\ DOMAIN d.snaps = 1 .. Len(d.snaps) /\ DOMAIN e.snaps = 1 .. n
             /\ e.snaps[n] = SnapOf(run, prev, report)
<1> DEFINE e == AppendSnapshot(d, run, prev, report)
           n == Len(d.snaps) + 1
           m == Len(d.deltas) + 1
           snap == SnapOf(run, prev, report)
           delta == DeltaOf(run, prev, report)
<1>1. /\ DOMAIN e = {"raw", "rows", "orders", "snaps", "deltas", "cash", "blocks"}
      /\ e.raw = d.raw /\ e.rows = d.rows /\ e.orders = d.orders
      /\ e.cash = d.cash /\ e.blocks = d.blocks /\ e.snaps = Append(d.snaps, snap)
      /\ (e.deltas = d.deltas) \/ (e.deltas = Append(d.deltas, delta))
  <2>1. /\ DOMAIN e = DOMAIN d /\ e.raw = d.raw /\ e.rows = d.rows /\ e.orders = d.orders
        /\ e.cash = d.cash /\ e.blocks = d.blocks /\ e.snaps = Append(d.snaps, snap)
        /\ e.deltas = IF NoDelta(prev, report) THEN d.deltas ELSE Append(d.deltas, delta)
    BY AppendFields
  <2>2. DOMAIN d = {"raw", "rows", "orders", "snaps", "deltas", "cash", "blocks"}
    BY DEF Tables
  <2> HIDE DEF e, snap, delta
  <2> QED
    BY <2>1, <2>2
<1>2. /\ snap.seq \in Nat \ {0} /\ snap.qty \in Int /\ snap.fee \in Int
      /\ delta.qty \in Int /\ delta.fee \in Int
  BY DEF SnapOf, DeltaOf, ReportOk
<1> HIDE DEF e, snap, delta
<1>3. /\ IsList(e.snaps) /\ Len(d.snaps) \in Nat /\ DOMAIN d.snaps = 1 .. Len(d.snaps)
      /\ DOMAIN e.snaps = 1 .. n /\ \A i \in 1 .. Len(d.snaps) : e.snaps[i] = d.snaps[i]
      /\ e.snaps[n] = snap
  BY <1>1, AppendAny DEF Tables
<1>4. \A i \in DOMAIN e.snaps : i \in DOMAIN d.snaps \/ i = n
  BY <1>3
<1>5. \A i \in DOMAIN e.snaps :
        e.snaps[i].seq \in Nat \ {0} /\ e.snaps[i].qty \in Int /\ e.snaps[i].fee \in Int
  BY <1>2, <1>3, <1>4 DEF Tables
<1>6. /\ IsList(e.deltas)
      /\ \A i \in DOMAIN e.deltas : e.deltas[i].qty \in Int /\ e.deltas[i].fee \in Int
      /\ \A i \in DOMAIN d.deltas : i \in DOMAIN e.deltas /\ e.deltas[i] = d.deltas[i]
  <2>1. CASE e.deltas = d.deltas
    BY <2>1 DEF Tables
  <2>2. CASE e.deltas = Append(d.deltas, delta)
    <3>1. /\ IsList(e.deltas) /\ Len(d.deltas) \in Nat /\ DOMAIN d.deltas = 1 .. Len(d.deltas)
          /\ DOMAIN e.deltas = 1 .. m /\ \A i \in 1 .. Len(d.deltas) : e.deltas[i] = d.deltas[i]
          /\ e.deltas[m] = delta
      BY <2>2, AppendAny DEF Tables
    <3>2. \A i \in DOMAIN e.deltas : i \in DOMAIN d.deltas \/ i = m
      BY <3>1
    <3>3. \A i \in DOMAIN d.deltas : i \in DOMAIN e.deltas
      BY <3>1
    <3> QED
      BY <1>2, <3>1, <3>2, <3>3 DEF Tables
  <2> QED
    BY <1>1, <2>1, <2>2
<1>7. Tables(e)
  BY <1>1, <1>3, <1>5, <1>6 DEF Tables
<1>8. \A i \in DOMAIN d.snaps : i \in DOMAIN e.snaps
  BY <1>3
<1>9. Grew(d, e)
  BY <1>1, <1>3, <1>6, <1>8 DEF Grew
<1> QED
  BY <1>3, <1>7, <1>9 DEF e, snap

\* The steps of an order, and what they add up to.
FilledOf(d, o) == SumFunctionOnSet([i \in Steps(d, o) |-> d.deltas[i].qty], Steps(d, o))
FeesOf(d, o) == SumFunctionOnSet([i \in Steps(d, o) |-> d.deltas[i].fee], Steps(d, o))

LEMMA NewSteps ==
  ASSUME NEW d, Tables(d), NEW run, NEW prev, prev.seq \in Nat, prev.qty \in Int, prev.fee \in Int,
         NEW report, ReportOk(report), NEW o
  PROVE  LET e == AppendSnapshot(d, run, prev, report)
         IN  /\ o # report.order => FilledOf(e, o) = FilledOf(d, o) /\ FeesOf(e, o) = FeesOf(d, o)
             /\ o = report.order => /\ FilledOf(e, o) = FilledOf(d, o) + (report.qty - prev.qty)
                                    /\ FeesOf(e, o) = FeesOf(d, o) + (report.fee - prev.fee)
<1> DEFINE e == AppendSnapshot(d, run, prev, report)
           m == Len(d.deltas) + 1
           delta == DeltaOf(run, prev, report)
           S == Steps(d, o)
           T == Steps(e, o)
           q(t) == [i \in Steps(t, o) |-> t.deltas[i].qty]
           f(t) == [i \in Steps(t, o) |-> t.deltas[i].fee]
<1>1. e.deltas = IF NoDelta(prev, report) THEN d.deltas ELSE Append(d.deltas, delta)
  BY AppendFields
<1>2. delta.order = report.order /\ delta.qty = report.qty - prev.qty /\ delta.fee = report.fee - prev.fee
  BY DEF DeltaOf
<1>3. report.qty - prev.qty \in Int /\ report.fee - prev.fee \in Int
  BY DEF ReportOk
<1>4. IsFiniteSet(S) /\ (\A i \in S : q(d)[i] \in Int /\ f(d)[i] \in Int)
  <2>1. IsFiniteSet(S)
    BY StepsFinite
  <2>2. \A i \in S : d.deltas[i].qty \in Int /\ d.deltas[i].fee \in Int
    BY DEF Tables, Steps
  <2> HIDE DEF S
  <2>3. \A i \in Steps(d, o) : q(d)[i] = d.deltas[i].qty /\ f(d)[i] = d.deltas[i].fee
    OBVIOUS
  <2> QED
    BY <2>1, <2>2, <2>3 DEF S
<1>5. SumFunctionOnSet(q(d), S) \in Int /\ SumFunctionOnSet(f(d), S) \in Int
  <2> DEFINE a == q(d)
             b == f(d)
  <2>1. IsFiniteSet(S) /\ (\A i \in S : a[i] \in Int) /\ (\A i \in S : b[i] \in Int)
    BY <1>4
  <2> HIDE DEF S, a, b
  <2>2. SumFunctionOnSet(a, S) \in Int /\ SumFunctionOnSet(b, S) \in Int
    BY <2>1, SumType
  <2> QED
    BY <2>2 DEF a, b
<1> HIDE DEF e, delta
<1>6. CASE e.deltas = d.deltas /\ NoDelta(prev, report)
  <2>1. T = S /\ q(e) = q(d) /\ f(e) = f(d)
    BY <1>6 DEF Steps
  <2>2. report.qty - prev.qty = 0 /\ report.fee - prev.fee = 0
    BY <1>6 DEF NoDelta
  <2> HIDE DEF S, T, q, f
  <2>3. /\ SumFunctionOnSet(q(e), T) = SumFunctionOnSet(q(d), S) + (report.qty - prev.qty)
        /\ SumFunctionOnSet(f(e), T) = SumFunctionOnSet(f(d), S) + (report.fee - prev.fee)
        /\ SumFunctionOnSet(q(e), T) = SumFunctionOnSet(q(d), S)
        /\ SumFunctionOnSet(f(e), T) = SumFunctionOnSet(f(d), S)
    BY <1>5, <2>1, <2>2
  <2> QED
    BY <1>5, <2>3 DEF S, T, q, f, e, FilledOf, FeesOf
<1>7. CASE e.deltas = Append(d.deltas, delta)
  <2>1. /\ Len(d.deltas) \in Nat /\ DOMAIN d.deltas = 1 .. Len(d.deltas)
        /\ DOMAIN e.deltas = 1 .. m /\ \A i \in 1 .. Len(d.deltas) : e.deltas[i] = d.deltas[i]
        /\ e.deltas[m] = delta
    BY <1>7, AppendAny DEF Tables
  <2>2. /\ \A i : i \in DOMAIN e.deltas <=> i \in DOMAIN d.deltas \/ i = m
        /\ m \notin DOMAIN d.deltas
    BY <2>1
  <2>3. CASE o # report.order
    <3>1. T = S
      BY <1>2, <2>1, <2>2, <2>3 DEF Steps
    <3>2. q(e) = q(d) /\ f(e) = f(d)
      <4>1. \A i \in S : e.deltas[i] = d.deltas[i]
        BY <2>1 DEF Steps
      <4> QED
        BY <3>1, <4>1
    <3> HIDE DEF S, T, q, f
    <3>3. /\ SumFunctionOnSet(q(e), T) = SumFunctionOnSet(q(d), S)
          /\ SumFunctionOnSet(f(e), T) = SumFunctionOnSet(f(d), S)
      BY <3>1, <3>2
    <3> QED
      BY <1>5, <2>3, <3>3 DEF S, T, q, f, e, FilledOf, FeesOf
  <2>4. CASE o = report.order
    <3>1. T = S \cup {m} /\ m \notin S
      BY <1>2, <2>1, <2>2, <2>4 DEF Steps
    <3>2. \A i \in S : e.deltas[i] = d.deltas[i]
      BY <2>1 DEF Steps
    <3>3. \A i \in S : q(e)[i] = q(d)[i] /\ f(e)[i] = f(d)[i]
      BY <3>1, <3>2
    <3>4. q(e)[m] = report.qty - prev.qty /\ f(e)[m] = report.fee - prev.fee
      BY <1>2, <2>1, <3>1
    <3> DEFINE a == q(d)
               b == f(d)
               x == q(e)
               y == f(e)
    <3>5. /\ IsFiniteSet(S) /\ m \notin S
          /\ \A i \in S : a[i] \in Int /\ b[i] \in Int /\ x[i] = a[i] /\ y[i] = b[i]
          /\ x[m] \in Int /\ y[m] \in Int
      BY <1>3, <1>4, <3>1, <3>3, <3>4
    <3> HIDE DEF S, T, q, f, a, b, x, y, m
    <3>6. SumFunctionOnSet(x, S \cup {m}) = SumFunctionOnSet(a, S) + x[m]
      BY <3>5, SumGrows
    <3>7. SumFunctionOnSet(y, S \cup {m}) = SumFunctionOnSet(b, S) + y[m]
      <4>1. /\ IsFiniteSet(S) /\ m \notin S /\ \A i \in S : b[i] \in Int
            /\ \A i \in S : y[i] = b[i]
            /\ y[m] \in Int
        BY <3>5
      <4> QED
        BY <4>1, SumGrows
    <3>8. /\ SumFunctionOnSet(q(e), T) = SumFunctionOnSet(q(d), S) + (report.qty - prev.qty)
          /\ SumFunctionOnSet(f(e), T) = SumFunctionOnSet(f(d), S) + (report.fee - prev.fee)
      BY <3>1, <3>4, <3>6, <3>7 DEF a, b, x, y
    <3> QED
      BY <1>5, <2>4, <3>8 DEF S, T, q, f, e, FilledOf, FeesOf
  <2> QED
    BY <2>3, <2>4
<1> QED
  BY <1>1, <1>6, <1>7

\* The row read last is a row of numbers, or none.
LEMMA PreviousType ==
  ASSUME NEW d, Tables(d), NEW o, Ordered(d, o)
  PROVE  /\ Previous(d, o).seq \in Nat /\ Previous(d, o).qty \in Int /\ Previous(d, o).fee \in Int
         /\ \A i \in Chain(d, o) : d.snaps[i].seq <= Previous(d, o).seq
<1>1. CASE Chain(d, o) = {} /\ Previous(d, o) = NoSnapshot
  BY <1>1 DEF NoSnapshot
<1>2. ASSUME NEW k \in Chain(d, o), Previous(d, o) = d.snaps[k],
             \A j \in Chain(d, o) : d.snaps[j].seq <= d.snaps[k].seq
      PROVE  /\ Previous(d, o).seq \in Nat /\ Previous(d, o).qty \in Int
             /\ Previous(d, o).fee \in Int
             /\ \A i \in Chain(d, o) : d.snaps[i].seq <= Previous(d, o).seq
  <2>1. k \in DOMAIN d.snaps
    BY DEF Chain
  <2> QED
    BY <1>2, <2>1 DEF Tables
<1> QED
  BY <1>1, <1>2, PreviousIs

Links(d, o) ==
  \A i \in Chain(d, o) :
     LET before == {j \in Chain(d, o) : j < i}
     IN  d.snaps[i].seq = 1 + IF before = {} THEN 0 ELSE d.snaps[Latest(before)].seq

LEMMA TelescopesIs ==
  ASSUME NEW d, NEW o
  PROVE  Telescopes(d, o) <=> /\ Links(d, o)
                              /\ FilledOf(d, o) = Previous(d, o).qty
                              /\ FeesOf(d, o) = Previous(d, o).fee
BY DEF Telescopes, Links, FilledOf, FeesOf, Steps

\* Snapshots that differ only outside an order leave its chain alone.
LEMMA SameChain ==
  ASSUME NEW d, Tables(d), NEW e, Tables(e), NEW o, Ordered(d, o),
         Chain(e, o) = Chain(d, o), \A i \in Chain(d, o) : e.snaps[i] = d.snaps[i]
  PROVE  /\ Ordered(e, o) /\ Previous(e, o) = Previous(d, o)
         /\ Links(d, o) => Links(e, o)
<1>1. Ordered(e, o)
  BY DEF Ordered
<1>2. Previous(e, o) = Previous(d, o)
  <2>1. CASE Chain(d, o) = {}
    BY <2>1 DEF Previous
  <2>2. CASE Chain(d, o) # {}
    BY <1>1, <2>2, PreviousIs
  <2> QED
    BY <2>1, <2>2
<1>3. ASSUME Links(d, o) PROVE Links(e, o)
  <2> SUFFICES ASSUME NEW i \in Chain(d, o)
               PROVE  LET before == {j \in Chain(d, o) : j < i}
                      IN  e.snaps[i].seq = 1 + IF before = {} THEN 0
                                               ELSE e.snaps[Latest(before)].seq
    BY DEF Links
  <2> DEFINE before == {j \in Chain(d, o) : j < i}
  <2>1. d.snaps[i].seq = 1 + IF before = {} THEN 0 ELSE d.snaps[Latest(before)].seq
    BY <1>3 DEF Links
  <2>2. before # {} => Latest(before) \in Chain(d, o)
    <3>1. Len(d.snaps) \in Nat /\ before \subseteq 1 .. Len(d.snaps) /\ before \subseteq Chain(d, o)
      BY ChainIs
    <3> HIDE DEF before
    <3> QED
      BY <3>1, LatestIs
  <2> HIDE DEF before
  <2>3. e.snaps[i].seq = 1 + IF before = {} THEN 0 ELSE e.snaps[Latest(before)].seq
    BY <2>1, <2>2
  <2> QED
    BY <2>3 DEF before
<1> QED
  BY <1>1, <1>2, <1>3

\* A successor of the last snapshot of an order makes the chain one longer.
LEMMA LongerChain ==
  ASSUME NEW d, Tables(d), NEW e, Tables(e), NEW o, Ordered(d, o), Links(d, o), NEW n,
         n \in Nat, n > Len(d.snaps), Chain(e, o) = Chain(d, o) \cup {n},
         \A i \in Chain(d, o) : e.snaps[i] = d.snaps[i],
         e.snaps[n].seq = Previous(d, o).seq + 1
  PROVE  Ordered(e, o) /\ Previous(e, o) = e.snaps[n] /\ Links(e, o)
<1> DEFINE C == Chain(d, o)
<1>1. /\ Len(d.snaps) \in Nat /\ C \subseteq 1 .. Len(d.snaps) /\ C \subseteq Nat
      /\ \A i \in C : d.snaps[i].seq \in Nat
  BY ChainIs
<1>2. \A i \in C : i < n
  BY <1>1
<1>3. Previous(d, o).seq \in Nat /\ \A i \in C : d.snaps[i].seq <= Previous(d, o).seq
  BY PreviousType
<1>4. Ordered(e, o)
  <2> SUFFICES ASSUME NEW i \in C \cup {n}, NEW j \in C \cup {n}, i < j
               PROVE  e.snaps[i].seq < e.snaps[j].seq
    BY DEF Ordered
  <2>1. i \in C
    BY <1>1, <1>2
  <2>2. CASE j \in C
    BY <2>1, <2>2 DEF Ordered
  <2>3. CASE j = n
    <3>1. d.snaps[i].seq \in Nat /\ d.snaps[i].seq <= Previous(d, o).seq
      BY <1>1, <1>3, <2>1
    <3> QED
      BY <1>3, <2>1, <2>3, <3>1
  <2> QED
    BY <2>2, <2>3
<1>5. Previous(e, o) = e.snaps[n]
  <2>1. PICK k \in Chain(e, o) : (\A j \in Chain(e, o) : j <= k) /\ Previous(e, o) = e.snaps[k]
    BY <1>4, PreviousIs
  <2>2. k = n
    BY <1>1, <1>2, <2>1
  <2> QED
    BY <2>1, <2>2
<1>6. Links(e, o)
  <2> SUFFICES ASSUME NEW i \in C \cup {n}
               PROVE  LET before == {j \in C \cup {n} : j < i}
                      IN  e.snaps[i].seq = 1 + IF before = {} THEN 0
                                               ELSE e.snaps[Latest(before)].seq
    BY DEF Links
  <2> DEFINE before == {j \in C \cup {n} : j < i}
             old == {j \in C : j < i}
  <2>1. before = old
    BY <1>1, <1>2
  <2>2. old # {} => Latest(old) \in C
    <3>1. old \subseteq 1 .. Len(d.snaps) /\ old \subseteq C
      BY <1>1
    <3> HIDE DEF old, C
    <3> QED
      BY <1>1, <3>1, LatestIs
  <2>3. CASE i \in C
    <3>1. d.snaps[i].seq = 1 + IF old = {} THEN 0 ELSE d.snaps[Latest(old)].seq
      BY <2>3 DEF Links
    <3> HIDE DEF old, before
    <3>2. e.snaps[i].seq = 1 + IF before = {} THEN 0 ELSE e.snaps[Latest(before)].seq
      BY <2>1, <2>2, <2>3, <3>1
    <3> QED
      BY <3>2 DEF before
  <2>4. CASE i = n
    <3>1. old = C
      BY <1>1, <1>2, <2>4
    <3>2. Previous(d, o).seq = IF C = {} THEN 0 ELSE d.snaps[Latest(C)].seq
      BY PreviousIs DEF NoSnapshot
    <3>3. e.snaps[i].seq = 1 + IF C = {} THEN 0 ELSE e.snaps[Latest(C)].seq
      <4> HIDE DEF C
      <4>1. e.snaps[i].seq = 1 + Previous(d, o).seq
        BY <1>3, <2>4
      <4>2. C # {} => e.snaps[Latest(C)] = d.snaps[Latest(C)]
        BY <2>2, <3>1 DEF C
      <4> QED
        BY <3>2, <4>1, <4>2
    <3> HIDE DEF C, old, before
    <3>4. e.snaps[i].seq = 1 + IF before = {} THEN 0 ELSE e.snaps[Latest(before)].seq
      BY <2>1, <3>1, <3>3
    <3> QED
      BY <3>4 DEF before
  <2> QED
    BY <2>3, <2>4
<1> QED
  BY <1>4, <1>5, <1>6

\* The successor of the last snapshot keeps every chain.
LEMMA AppendKeeps ==
  ASSUME NEW d, ChainsHold(d), NEW run, NEW report, ReportOk(report), NEW prev,
         prev = Previous(d, report.order)
  PROVE  LET e == AppendSnapshot(d, run, prev, report)
         IN  ChainsHold(e) /\ Grew(d, e) /\ KeptIn(e, run, report.order)
<1> DEFINE e == AppendSnapshot(d, run, prev, report)
           n == Len(d.snaps) + 1
           snap == SnapOf(run, prev, report)
<1>1. Tables(d) /\ report.order \in Orders /\ \A o \in Orders : Ordered(d, o) /\ Telescopes(d, o)
  BY DEF ChainsHold, ReportOk
<1>2. prev.seq \in Nat /\ prev.qty \in Int /\ prev.fee \in Int
  BY <1>1, PreviousType
<1>3. /\ Tables(e) /\ Grew(d, e) /\ Len(d.snaps) \in Nat
      /\ DOMAIN d.snaps = 1 .. Len(d.snaps) /\ DOMAIN e.snaps = 1 .. n
      /\ e.snaps[n] = snap
  BY <1>1, <1>2, NewTables
<1>4. /\ snap.order = report.order /\ snap.seq = prev.seq + 1 /\ snap.run = run
      /\ snap.qty = report.qty /\ snap.fee = report.fee
  BY DEF SnapOf
<1>5. ASSUME NEW o
      PROVE  /\ o # report.order => FilledOf(e, o) = FilledOf(d, o) /\ FeesOf(e, o) = FeesOf(d, o)
             /\ o = report.order => /\ FilledOf(e, o) = FilledOf(d, o) + (report.qty - prev.qty)
                                    /\ FeesOf(e, o) = FeesOf(d, o) + (report.fee - prev.fee)
  BY <1>1, <1>2, NewSteps
<1> HIDE DEF e, snap
<1>6. n \in Nat /\ n > Len(d.snaps) /\ n \in DOMAIN e.snaps
  BY <1>3
<1>7. \A i \in DOMAIN d.snaps : i \in DOMAIN e.snaps /\ e.snaps[i] = d.snaps[i]
  BY <1>3 DEF Grew
<1>8. KeptIn(e, run, report.order)
  BY <1>3, <1>4, <1>6 DEF KeptIn
<1>9. ASSUME NEW o \in Orders PROVE Telescopes(e, o) /\ Ordered(e, o)
  <2>1. Ordered(d, o) /\ Links(d, o) /\ FilledOf(d, o) = Previous(d, o).qty
        /\ FeesOf(d, o) = Previous(d, o).fee
    BY <1>1, TelescopesIs
  <2>2. \A i \in Chain(d, o) : e.snaps[i] = d.snaps[i]
    BY <1>7 DEF Chain
  <2>3. \A i : i \in DOMAIN e.snaps <=> i \in DOMAIN d.snaps \/ i = n
    BY <1>3
  <2>4. CASE o # report.order
    <3>1. Chain(e, o) = Chain(d, o)
      BY <1>3, <1>4, <1>7, <2>3, <2>4 DEF Chain
    <3>2. Ordered(e, o) /\ Previous(e, o) = Previous(d, o) /\ Links(e, o)
      BY <1>1, <1>3, <2>1, <2>2, <3>1, SameChain
    <3>3. FilledOf(e, o) = FilledOf(d, o) /\ FeesOf(e, o) = FeesOf(d, o)
      BY <1>5, <2>4
    <3> QED
      BY <2>1, <3>2, <3>3, TelescopesIs
  <2>5. CASE o = report.order
    <3>1. Chain(e, o) = Chain(d, o) \cup {n}
      BY <1>3, <1>4, <1>7, <2>3, <2>5 DEF Chain
    <3>2. e.snaps[n].seq = Previous(d, o).seq + 1
      BY <1>3, <1>4, <2>5
    <3>3. Ordered(e, o) /\ Previous(e, o) = e.snaps[n] /\ Links(e, o)
      BY <1>1, <1>3, <1>6, <2>1, <2>2, <3>1, <3>2, LongerChain
    <3>4. FilledOf(e, o) = prev.qty + (report.qty - prev.qty)
          /\ FeesOf(e, o) = prev.fee + (report.fee - prev.fee)
      BY <1>5, <2>1, <2>5
    <3>5. report.qty \in Int /\ report.fee \in Int
      BY DEF ReportOk
    <3>6. FilledOf(e, o) = report.qty /\ FeesOf(e, o) = report.fee
      BY <1>2, <3>4, <3>5
    <3> QED
      BY <1>3, <1>4, <3>3, <3>6, TelescopesIs
  <2> QED
    BY <2>4, <2>5
<1>10. ChainsHold(e)
  BY <1>3, <1>9 DEF ChainsHold
<1> QED
  BY <1>3, <1>8, <1>10 DEF e

\* The chains depend on the two logs of executions only.
LEMMA SameLog ==
  ASSUME NEW d, ChainsHold(d), NEW e, Tables(e), e.snaps = d.snaps, e.deltas = d.deltas
  PROVE  ChainsHold(e)
<1>1. ASSUME NEW o \in Orders PROVE Telescopes(e, o) /\ Ordered(e, o)
  <2>1. Chain(e, o) = Chain(d, o) /\ Previous(e, o) = Previous(d, o) /\ Steps(e, o) = Steps(d, o)
    BY DEF Chain, Previous, Steps
  <2>2. Telescopes(d, o) /\ Ordered(d, o)
    BY DEF ChainsHold
  <2>3. Ordered(e, o) /\ Links(e, o)
    BY <2>1, <2>2, TelescopesIs DEF Ordered, Links
  <2>4. FilledOf(e, o) = FilledOf(d, o) /\ FeesOf(e, o) = FeesOf(d, o)
    BY <2>1 DEF FilledOf, FeesOf
  <2> QED
    BY <2>1, <2>2, <2>3, <2>4, TelescopesIs
<1> QED
  BY <1>1 DEF ChainsHold

LEMMA GrewMore ==
  ASSUME NEW d, NEW e, NEW f, Grew(d, e), Grew(e, f)
  PROVE  Grew(d, f)
BY DEF Grew

\* One report, compared with a row that was read before or is read now.
LEMMA IngestKeeps ==
  ASSUME NEW d, ChainsHold(d), NEW run, NEW report, ReportOk(report), NEW prev,
         prev = NoSnapshot \/ \E i \in Chain(d, report.order) : prev = d.snaps[i],
         ~Collides(d, run, prev, report)
  PROVE  LET e == IngestReport(d, run, prev, report)
         IN  ChainsHold(e) /\ Grew(d, e) /\ (report.counted => KeptIn(e, run, report.order))
<1> DEFINE e == IngestReport(d, run, prev, report)
           block == [order |-> report.order, resolved |-> FALSE]
<1>1. Tables(d) /\ report.order \in Orders
  BY DEF ChainsHold, ReportOk
<1>0. CASE ~report.counted
  <2>1. e = d /\ Grew(d, d)
    BY <1>0 DEF IngestReport, Grew
  <2> QED
    BY <1>0, <2>1
<1>2. CASE report.counted /\ Repeated(prev, run, report)
  <2>1. e = d
    BY <1>2 DEF IngestReport
  <2>2. prev.seq > 0 /\ prev.run = run
    BY <1>2 DEF Repeated
  <2>3. prev # NoSnapshot
    BY <2>2 DEF NoSnapshot
  <2>4. KeptIn(d, run, report.order)
    BY <2>2, <2>3 DEF KeptIn, Chain
  <2>5. Grew(d, d)
    BY DEF Grew
  <2> QED
    BY <2>1, <2>4, <2>5
<1>3. CASE report.counted /\ ~Repeated(prev, run, report) /\ Regressed(prev, report)
  <2>1. e = [d EXCEPT !.blocks = Append(@, block)]
    BY <1>3 DEF IngestReport
  <2>2. /\ DOMAIN e = DOMAIN d /\ e.raw = d.raw /\ e.rows = d.rows /\ e.orders = d.orders
        /\ e.cash = d.cash /\ e.snaps = d.snaps /\ e.deltas = d.deltas
        /\ e.blocks = Append(d.blocks, block)
    BY <1>1, <2>1 DEF Tables
  <2>3. block.order = report.order /\ DOMAIN block = {"order", "resolved"}
    OBVIOUS
  <2> HIDE DEF e, block
  <2>4. /\ IsList(e.blocks) /\ Len(d.blocks) \in Nat /\ DOMAIN d.blocks = 1 .. Len(d.blocks)
        /\ DOMAIN e.blocks = 1 .. (Len(d.blocks) + 1)
        /\ \A i \in 1 .. Len(d.blocks) : e.blocks[i] = d.blocks[i]
        /\ e.blocks[Len(d.blocks) + 1] = block
    BY <1>1, <2>2, AppendAny DEF Tables
  <2>5. Tables(e)
    BY <1>1, <2>2, <2>3, <2>4 DEF Tables
  <2>6. \A i \in DOMAIN d.blocks : i \in DOMAIN e.blocks
    BY <2>4
  <2>7. Grew(d, e)
    BY <2>2, <2>4, <2>6 DEF Grew
  <2>8. Len(d.blocks) + 1 \in DOMAIN e.blocks
    BY <2>4
  <2>9. KeptIn(e, run, report.order)
    BY <2>3, <2>4, <2>8 DEF KeptIn
  <2>10. ChainsHold(e)
    BY <2>2, <2>5, SameLog
  <2> QED
    BY <2>7, <2>9, <2>10 DEF e
<1>4. CASE report.counted /\ ~Repeated(prev, run, report) /\ ~Regressed(prev, report)
  <2>1. e = AppendSnapshot(d, run, prev, report)
    BY <1>4 DEF IngestReport
  <2>2. ~\E i \in Chain(d, report.order) : d.snaps[i].seq = prev.seq + 1
    BY <1>4 DEF Collides, Chain
  <2>3. prev = Previous(d, report.order)
    BY <1>1, <2>2, StaleIsLast
  <2> HIDE DEF e
  <2>4. ChainsHold(e) /\ Grew(d, e) /\ KeptIn(e, run, report.order)
    BY <2>1, <2>3, AppendKeeps
  <2> QED
    BY <2>4 DEF e
<1> QED
  BY <1>0, <1>2, <1>3, <1>4

\* What is new among the deltas is of the run and of these orders.
NewDeltas(d, e, run, O) ==
  \A i \in DOMAIN e.deltas :
     i \in DOMAIN d.deltas \/ (e.deltas[i].run = run /\ e.deltas[i].order \in O)

LEMMA ReportAdds ==
  ASSUME NEW d, Tables(d), NEW run, NEW prev, NEW report
  PROVE  NewDeltas(d, IngestReport(d, run, prev, report), run, {report.order})
<1> DEFINE e == IngestReport(d, run, prev, report)
           delta == DeltaOf(run, prev, report)
<1>1. CASE e.deltas = d.deltas
  BY <1>1 DEF NewDeltas
<1>2. CASE e.deltas = Append(d.deltas, delta)
  <2>1. delta.run = run /\ delta.order = report.order
    BY DEF DeltaOf
  <2> HIDE DEF e, delta
  <2>2. /\ Len(d.deltas) \in Nat /\ DOMAIN d.deltas = 1 .. Len(d.deltas)
        /\ DOMAIN e.deltas = 1 .. (Len(d.deltas) + 1)
        /\ e.deltas[Len(d.deltas) + 1] = delta
    BY <1>2, AppendAny DEF Tables
  <2>3. NewDeltas(d, e, run, {report.order})
    BY <2>1, <2>2 DEF NewDeltas
  <2> QED
    BY <2>3 DEF e
<1>3. e = d => e.deltas = d.deltas
  OBVIOUS
<1>4. ~report.counted \/ Repeated(prev, run, report) => e = d
  BY DEF IngestReport
<1>5. report.counted /\ ~Repeated(prev, run, report) /\ Regressed(prev, report)
        => e.deltas = d.deltas
  BY DEF IngestReport, Tables
<1>6. ASSUME report.counted, ~Repeated(prev, run, report), ~Regressed(prev, report)
      PROVE  e.deltas = d.deltas \/ e.deltas = Append(d.deltas, delta)
  <2>1. e = AppendSnapshot(d, run, prev, report)
    BY <1>6 DEF IngestReport
  <2>2. AppendSnapshot(d, run, prev, report).deltas = IF NoDelta(prev, report) THEN d.deltas
                                                      ELSE Append(d.deltas, delta)
    BY AppendFields
  <2> HIDE DEF e, delta
  <2> QED
    BY <2>1, <2>2
<1> QED
  BY <1>1, <1>2, <1>3, <1>4, <1>5, <1>6

LEMMA NewDeltasMore ==
  ASSUME NEW d, NEW e, NEW f, NEW run, NEW O, NEW o \in O, Grew(e, f),
         NewDeltas(d, e, run, O), NewDeltas(e, f, run, {o})
  PROVE  NewDeltas(d, f, run, O)
BY DEF Grew, NewDeltas

\* The databases after each report of a page.
IsIngest(f, d, run, prev, page, n) ==
  f = [k \in 1 .. n |->
         IF k = 1 THEN IngestReport(d, run, prev, page[1])
         ELSE IngestReport(f[k - 1], run, Previous(f[k - 1], page[k].order), page[k])]

LEMMA IngestIs ==
  ASSUME NEW d, NEW run, NEW prev, NEW page
  PROVE  IngestExecutions(d, run, prev, page) =
           (CHOOSE f : IsIngest(f, d, run, prev, page, Len(page)))[Len(page)]
BY DEF IngestExecutions, IsIngest

LEMMA IngestExists ==
  ASSUME NEW d, NEW run, NEW prev, NEW page, NEW n \in Nat \ {0}
  PROVE  \E f : IsIngest(f, d, run, prev, page, n)
<1> DEFINE G == {k \in 1 .. n : \E f : IsIngest(f, d, run, prev, page, k)}
           first == IngestReport(d, run, prev, page[1])
           next(f, k) == IngestReport(f[k - 1], run, Previous(f[k - 1], page[k].order), page[k])
<1>1. 1 \in G
  <2> DEFINE f == [k \in 1 .. 1 |-> first]
  <2>1. IsIngest(f, d, run, prev, page, 1)
    BY DEF IsIngest
  <2> QED
    BY <2>1
<1>2. ASSUME NEW k \in 1 .. n, k \in G, k < n PROVE k + 1 \in G
  <2>1. PICK f : IsIngest(f, d, run, prev, page, k)
    BY <1>2
  <2> DEFINE g == [m \in 1 .. (k + 1) |-> IF m = 1 THEN first ELSE next(f, m)]
  <2>2. \A m \in 1 .. k : f[m] = IF m = 1 THEN first ELSE next(f, m)
    BY <2>1 DEF IsIngest
  <2>3. \A m \in 1 .. k : g[m] = f[m]
    BY <2>2
  <2>4. \A m \in 1 .. (k + 1) : m # 1 => g[m - 1] = f[m - 1]
    <3>1. \A m \in 1 .. (k + 1) : m # 1 => m - 1 \in 1 .. k
      OBVIOUS
    <3> HIDE DEF g
    <3> QED
      BY <2>3, <3>1
  <2>5. g = [m \in 1 .. (k + 1) |-> IF m = 1 THEN first ELSE next(g, m)]
    BY <2>4
  <2>6. IsIngest(g, d, run, prev, page, k + 1)
    BY <2>5 DEF IsIngest
  <2> QED
    BY <1>2, <2>6
<1> HIDE DEF G
<1>3. \A k \in 1 .. n : k \in G
  BY <1>1, <1>2, CountUp
<1>4. n \in G
  BY <1>3
<1> QED
  BY <1>4 DEF G

OrdersIn(page) == {page[i].order : i \in DOMAIN page}

\* A page of reports keeps the chains, and every report of it with amounts is on file.
LEMMA PageKeeps ==
  ASSUME NEW d, ChainsHold(d), NEW run, NEW page, IsList(page), Len(page) # 0,
         \A i \in DOMAIN page : ReportOk(page[i]), NEW prev,
         prev = NoSnapshot \/ \E i \in Chain(d, page[1].order) : prev = d.snaps[i],
         ~Collides(d, run, prev, page[1])
  PROVE  LET e == IngestExecutions(d, run, prev, page)
         IN  /\ ChainsHold(e) /\ Grew(d, e)
             /\ \A i \in DOMAIN page : page[i].counted => KeptIn(e, run, page[i].order)
             /\ NewDeltas(d, e, run, OrdersIn(page))
<1> DEFINE n == Len(page)
           O == OrdersIn(page)
           Good(k, e) == /\ ChainsHold(e) /\ Grew(d, e) /\ NewDeltas(d, e, run, O)
                         /\ \A i \in 1 .. k : page[i].counted => KeptIn(e, run, page[i].order)
<1>0. n \in Nat \ {0} /\ DOMAIN page = 1 .. n
  BY DEF IsList
<1>1. PICK f : IsIngest(f, d, run, prev, page, n) /\ IngestExecutions(d, run, prev, page) = f[n]
  BY <1>0, IngestIs, IngestExists
<1>2. \A k \in 1 .. n :
        f[k] = IF k = 1 THEN IngestReport(d, run, prev, page[1])
               ELSE IngestReport(f[k - 1], run, Previous(f[k - 1], page[k].order), page[k])
  BY <1>1 DEF IsIngest
<1> DEFINE G == {k \in 1 .. n : Good(k, f[k])}
<1>3. 1 \in G
  <2>1. 1 \in 1 .. n /\ ReportOk(page[1])
    BY <1>0
  <2>2. f[1] = IngestReport(d, run, prev, page[1])
    BY <1>2, <2>1
  <2>3. ChainsHold(f[1]) /\ Grew(d, f[1])
        /\ (page[1].counted => KeptIn(f[1], run, page[1].order))
    BY <2>1, <2>2, IngestKeeps
  <2>4. page[1].order \in O /\ Tables(d)
    BY <1>0, <2>1 DEF ChainsHold, OrdersIn
  <2>5. NewDeltas(d, d, run, O) /\ NewDeltas(d, f[1], run, {page[1].order})
    BY <2>2, <2>4, ReportAdds DEF NewDeltas
  <2> HIDE DEF O
  <2>6. NewDeltas(d, f[1], run, O)
    BY <2>3, <2>4, <2>5, NewDeltasMore
  <2> QED
    BY <2>1, <2>3, <2>6
<1>4. ASSUME NEW k \in 1 .. n, k \in G, k < n PROVE k + 1 \in G
  <2> DEFINE e == f[k]
             report == page[k + 1]
             last == Previous(e, report.order)
             next == IngestReport(e, run, last, report)
  <2>1. k + 1 \in 1 .. n /\ k + 1 # 1 /\ (k + 1) - 1 = k /\ k \in Nat
    BY <1>0, <1>4
  <2>2. f[k + 1] = next
    BY <1>2, <2>1
  <2>3. Good(k, e)
    BY <1>4
  <2>4. ReportOk(report) /\ report.order \in Orders
    BY <1>0, <2>1 DEF ReportOk
  <2>5. /\ last = NoSnapshot \/ \E i \in Chain(e, report.order) : last = e.snaps[i]
        /\ ~\E i \in Chain(e, report.order) : e.snaps[i].seq = last.seq + 1
    BY <2>3, <2>4, LastHasNoNext
  <2>6. ~Collides(e, run, last, report)
    BY <2>5 DEF Collides, Chain
  <2>7. ChainsHold(next) /\ Grew(e, next)
        /\ (report.counted => KeptIn(next, run, report.order))
    BY <2>3, <2>4, <2>5, <2>6, IngestKeeps
  <2> HIDE DEF next
  <2>8. Grew(d, next)
    BY <2>3, <2>7, GrewMore
  <2>9. \A i \in 1 .. (k + 1) : i \in 1 .. k \/ i = k + 1
    BY <2>1
  <2>10. \A i \in 1 .. k : page[i].counted => KeptIn(next, run, page[i].order)
    BY <2>3, <2>7, KeptStays
  <2>12. report.order \in O /\ Tables(e)
    BY <1>0, <2>1, <2>3 DEF ChainsHold, OrdersIn
  <2>13. NewDeltas(e, next, run, {report.order})
    BY <2>12, ReportAdds DEF next
  <2>14. NewDeltas(d, next, run, O)
    <3> HIDE DEF O
    <3> QED
      BY <2>3, <2>7, <2>12, <2>13, NewDeltasMore
  <2>11. Good(k + 1, next)
    BY <2>7, <2>8, <2>9, <2>10, <2>14
  <2> QED
    BY <2>1, <2>2, <2>11
<1> HIDE DEF G
<1>5. \A k \in 1 .. n : k \in G
  <2> HIDE DEF n
  <2>1. n \in Nat /\ 1 <= n
    BY <1>0
  <2> QED
    BY <1>3, <1>4, <2>1, CountUp
<1>6. n \in G
  BY <1>0, <1>5
<1>7. Good(n, f[n])
  BY <1>6 DEF G
<1> QED
  BY <1>0, <1>1, <1>7

\* A transaction takes in at least one report.
LEMMA TransactionIs ==
  ASSUME NEW d, NEW run, NEW prev, NEW reports, Len(reports) \in Nat \ {0}
  PROVE  Transaction(d, run, prev, reports) \in 1 .. Len(reports)
<1> DEFINE then(n) == IngestExecutions(d, run, prev, SubSeq(reports, 1, n))
           ends == {n \in 1 .. Len(reports) : \/ n = Len(reports)
                                              \/ then(1) = d
                                              \/ then(n).blocks # d.blocks}
<1>1. Transaction(d, run, prev, reports) = CHOOSE n \in ends : \A m \in ends : n <= m
  BY DEF Transaction
<1>2. ends \subseteq 1 .. Len(reports) /\ Len(reports) \in ends
  OBVIOUS
<1> HIDE DEF ends
<1>3. ends \subseteq Nat /\ ends # {}
  BY <1>2
<1>4. \E n \in ends : \A m \in ends : n <= m
  BY <1>3, SmallestNumber
<1> QED
  BY <1>1, <1>2, <1>4

-----------------------------------------------------------------------------
(* Lists of reports                                                        *)

AnyReport == [order : Orders, qty : Nat, fee : Nat, counted : BOOLEAN,
              status : {"OPEN", "CLOSED"}, settle : Int]
BrokerOk == broker \in [Orders -> [qty : Nat, fee : Nat, open : BOOLEAN, settle : Int,
                                   placed : BOOLEAN]]

LEMMA AnyReportOk ==
  ASSUME NEW report \in AnyReport
  PROVE  ReportOk(report)
BY DEF AnyReport, ReportOk

\* The elements of a finite set in some order.
LEMMA SetToSeqType ==
  ASSUME NEW S, IsFiniteSet(S)
  PROVE  SetToSeq(S) \in Seq(S)
<1>1. PICK n \in Nat : ExistsBijection(1 .. n, S)
  BY FS_NatBijection
<1>2. Cardinality(S) = n
  BY <1>1, FS_CountingElements
<1>3. PICK f \in Bijection(1 .. n, S) : TRUE
  BY <1>1 DEF ExistsBijection
<1>4. f \in [1 .. n -> S] /\ IsInjective(f)
  BY <1>3 DEF Bijection, Injection
<1>5. SetToSeq(S) \in [1 .. n -> S]
  BY <1>2, <1>4 DEF SetToSeq
<1> QED
  BY <1>1, <1>5

LEMMA ReportType ==
  ASSUME BrokerOk, NEW o \in Orders, NEW silent
  PROVE  Report(o, silent) \in AnyReport
BY DEF BrokerOk, Report, AnyReport

LEMMA ListingType ==
  ASSUME BrokerOk, NEW open, NEW pages, NEW silent
  PROVE  Listing(open, pages, silent) \in Seq(AnyReport)
<1> DEFINE seen == UNION {{page[i].order : i \in DOMAIN page} : page \in ToSet(pages)}
           some == {x \in Orders \ seen : broker[x].placed /\ broker[x].open = open}
           R == {Report(o, silent) : o \in some}
<1>1. IsFiniteSet(some)
  BY LedgerAssumption, FS_Subset
<1>2. IsFiniteSet(R)
  <2> DEFINE report == [x \in some |-> Report(x, silent)]
  <2>1. report \in Surjection(some, R)
    BY DEF Surjection
  <2> HIDE DEF some, R, report
  <2> QED
    BY <1>1, <2>1, FS_Surjection
<1>3. R \subseteq AnyReport
  BY ReportType
<1>4. Listing(open, pages, silent) = SetToSeq(R)
  BY DEF Listing
<1> HIDE DEF R
<1>5. SetToSeq(R) \in Seq(R)
  BY <1>2, SetToSeqType
<1> QED
  BY <1>3, <1>4, <1>5

\* The ids that a list holds, each once.
IsDistinct(f, ids, n) ==
  f = [k \in 0 .. n |-> IF k = 0 THEN <<>>
                        ELSE IF ids[k] \in ToSet(f[k - 1]) THEN f[k - 1]
                        ELSE Append(f[k - 1], ids[k])]

LEMMA DistinctExists ==
  ASSUME NEW ids, NEW n \in Nat
  PROVE  \E f : IsDistinct(f, ids, n)
<1> DEFINE G == {k \in 0 .. n : \E f : IsDistinct(f, ids, k)}
           next(f, k) == IF ids[k] \in ToSet(f[k - 1]) THEN f[k - 1]
                         ELSE Append(f[k - 1], ids[k])
<1>1. 0 \in G
  <2> DEFINE f == [k \in 0 .. 0 |-> <<>>]
  <2>1. IsDistinct(f, ids, 0)
    BY DEF IsDistinct
  <2> QED
    BY <2>1
<1>2. ASSUME NEW k \in 0 .. n, k \in G, k < n PROVE k + 1 \in G
  <2>1. PICK f : IsDistinct(f, ids, k)
    BY <1>2
  <2> DEFINE g == [m \in 0 .. (k + 1) |-> IF m = 0 THEN <<>> ELSE next(f, m)]
  <2>2. \A m \in 0 .. k : f[m] = IF m = 0 THEN <<>> ELSE next(f, m)
    BY <2>1 DEF IsDistinct
  <2>3. \A m \in 0 .. k : g[m] = f[m]
    BY <2>2
  <2>4. \A m \in 0 .. (k + 1) : m # 0 => g[m - 1] = f[m - 1]
    <3>1. \A m \in 0 .. (k + 1) : m # 0 => m - 1 \in 0 .. k
      OBVIOUS
    <3> HIDE DEF g
    <3> QED
      BY <2>3, <3>1
  <2>5. g = [m \in 0 .. (k + 1) |-> IF m = 0 THEN <<>> ELSE next(g, m)]
    BY <2>4
  <2>6. IsDistinct(g, ids, k + 1)
    BY <2>5 DEF IsDistinct
  <2> QED
    BY <1>2, <2>6
<1> HIDE DEF G
<1>3. \A k \in 0 .. n : k \in G
  BY <1>1, <1>2, CountUp
<1>4. n \in G
  BY <1>3
<1> QED
  BY <1>4 DEF G

LEMMA DetailsType ==
  ASSUME NEW listed, listed.open \in Seq(Orders), listed.closed \in Seq(Orders)
  PROVE  DetailOrders(listed) \in Seq(Orders)
<1> DEFINE ids == listed.closed \o listed.open
           n == Len(ids)
           all == (CHOOSE f : IsDistinct(f, ids, n))[n]
<1>1. ids \in Seq(Orders) /\ n \in Nat
  <2>1. PICK a \in Seq(Orders), b \in Seq(Orders) : a = listed.closed /\ b = listed.open
    OBVIOUS
  <2>2. a \o b \in Seq(Orders)
    BY <2>1, ConcatProperties
  <2>3. ids \in Seq(Orders)
    BY <2>1, <2>2
  <2> HIDE DEF ids
  <2> QED
    BY <2>3
<1>2. DetailOrders(listed) = SubSeq(all, 1, IF Len(all) < MaxDetails THEN Len(all) ELSE MaxDetails)
  BY DEF DetailOrders, IsDistinct
<1> HIDE DEF ids
<1>3. PICK f : IsDistinct(f, ids, n) /\ all = f[n]
  BY <1>1, DistinctExists
<1> HIDE DEF all
<1>4. \A k \in 0 .. n : f[k] = IF k = 0 THEN <<>>
                               ELSE IF ids[k] \in ToSet(f[k - 1]) THEN f[k - 1]
                               ELSE Append(f[k - 1], ids[k])
  BY <1>3 DEF IsDistinct
<1> DEFINE G == {k \in 0 .. n : f[k] \in Seq(Orders)}
<1>5. 0 \in G
  <2>1. 0 \in 0 .. n /\ <<>> \in Seq(Orders)
    BY <1>1
  <2> QED
    BY <1>4, <2>1
<1>6. ASSUME NEW k \in 0 .. n, k \in G, k < n PROVE k + 1 \in G
  <2>1. k + 1 \in 1 .. n /\ k + 1 \in 0 .. n /\ k + 1 # 0 /\ (k + 1) - 1 = k
    BY <1>1, <1>6
  <2>2. ids[k + 1] \in Orders
    BY <1>1, <2>1
  <2>3. f[k + 1] = f[k] \/ f[k + 1] = Append(f[k], ids[k + 1])
    BY <1>4, <2>1
  <2>4. f[k] \in Seq(Orders)
    BY <1>6
  <2> HIDE DEF G
  <2>5. Append(f[k], ids[k + 1]) \in Seq(Orders)
    BY <2>2, <2>4
  <2>6. f[k + 1] \in Seq(Orders)
    BY <2>3, <2>4, <2>5
  <2> QED
    BY <2>1, <2>6 DEF G
<1> HIDE DEF G
<1>7. \A k \in 0 .. n : k \in G
  <2> HIDE DEF n
  <2>1. n \in Nat /\ 0 \in Nat /\ 0 <= n
    BY <1>1
  <2> QED
    BY <1>5, <1>6, <2>1, CountUp
<1>8. n \in G
  BY <1>1, <1>7
<1>9. all \in Seq(Orders)
  BY <1>3, <1>8 DEF G
<1> DEFINE m == IF Len(all) < MaxDetails THEN Len(all) ELSE MaxDetails
<1>10. MaxDetails \in Nat /\ Len(all) \in Nat
  BY <1>9, FoundationAssumption
<1>11. m \in Int /\ m <= Len(all)
  BY <1>10
<1>12. \A i \in 1 .. m : all[i] \in Orders
  BY <1>9, <1>11
<1> HIDE DEF m
<1>13. SubSeq(all, 1, m) \in Seq(Orders)
  BY <1>11, <1>12, SubSeqProperties
<1> QED
  BY <1>2, <1>13 DEF m

-----------------------------------------------------------------------------
(* The snapshot runs                                                       *)

OrderSteps == {"orders-open", "orders-closed", "details"}
WorkSteps == {"accounts", "holdings", "buying-power", "commissions", "sellable-quantity"}
                \cup OrderSteps

\* A process has pages in hand only while it fetches or stores the orders they report.
ProcOk(x) ==
  /\ DOMAIN x = {"step", "run", "stage", "todo", "pages", "listed", "prev", "stored", "tries"}
  /\ x.step \in WorkSteps \cup {"post", "finish", "idle"}
  /\ x.step \in {"post", "finish", "idle"} => x.todo = <<>>
  /\ x.step = "details" => x.todo \in Seq(Orders)
  /\ x.pages \in Seq(Seq(AnyReport))
  /\ DOMAIN x.listed = {"open", "closed"}
  /\ x.listed.open \in Seq(Orders) /\ x.listed.closed \in Seq(Orders)
  /\ x.stage \in {"request", "orders", "previous", "write"}
  /\ x.stage # "request" => x.pages # <<>> /\ x.step \in OrderSteps
  /\ x.stage # "request" /\ x.step = "details" => x.todo # <<>>
  /\ x.stage = "request" /\ x.pages # <<>> => x.step \in {"orders-open", "orders-closed"}
  /\ x.stage \in {"request", "orders"} => x.stored = 0
  /\ x.stage \in {"previous", "write"} => x.stored \in 0 .. (Len(Head(x.pages)) - 1)

\* The row a process read is a row of the order it is about to write.
PrevOk(d, x) ==
  x.stage = "write" => \/ x.prev = NoSnapshot
                       \/ \E i \in Chain(d, NextReport(x).order) : x.prev = d.snaps[i]

\* A report with amounts that is not stored yet.
Unstored(x, i, j) == /\ i \in DOMAIN x.pages /\ j \in DOMAIN x.pages[i]
                     /\ i = 1 => j > x.stored
                     /\ x.pages[i][j].counted
InHand(x) == {o \in Orders : \E i, j : Unstored(x, i, j) /\ x.pages[i][j].order = o}

\* Every report with amounts that a run received is on file or among the pending orders.
Filed(d, r, pending) ==
  \A i \in DOMAIN d.raw[r] : d.raw[r][i].endpoint \in OrderSteps =>
     \A j \in DOMAIN d.raw[r][i].body : d.raw[r][i].body[j].counted =>
        KeptIn(d, r, d.raw[r][i].body[j].order) \/ d.raw[r][i].body[j].order \in pending

RawOk(d) == DOMAIN d.raw = Runs /\ \A r \in Runs : IsList(d.raw[r])

RunOk(d, st, x) ==
  x.step # "idle" => x.run \in Runs /\ st[x.run] = "RUNNING" /\ Filed(d, x.run, InHand(x))

FoundationInv ==
  /\ ChainsHold(db) /\ RawOk(db) /\ BrokerOk
  /\ DOMAIN status = Runs /\ proc = [p \in Procs |-> proc[p]]
  /\ \A p \in Procs : ProcOk(proc[p]) /\ PrevOk(db, proc[p]) /\ RunOk(db, status, proc[p])
  /\ \A p, q \in Procs : proc[p].step # "idle" /\ proc[q].step # "idle" /\ p # q
                            => proc[p].run # proc[q].run
  /\ \A r \in Runs : status[r] = "none" => db.raw[r] = <<>>
  /\ \A r \in Runs : status[r] = "COMPLETE" => Filed(db, r, {})

\* Snapshots stay, and blocks stay open or closed.
Keeps(d, e) ==
  /\ \A i \in DOMAIN d.snaps : i \in DOMAIN e.snaps /\ e.snaps[i] = d.snaps[i]
  /\ \A i \in DOMAIN d.blocks : i \in DOMAIN e.blocks /\ e.blocks[i].order = d.blocks[i].order

LEMMA GrewKeeps ==
  ASSUME NEW d, NEW e, Grew(d, e)
  PROVE  Keeps(d, e)
BY DEF Grew, Keeps

LEMMA KeptOn ==
  ASSUME NEW d, NEW e, Keeps(d, e), NEW run, NEW o, KeptIn(d, run, o)
  PROVE  KeptIn(e, run, o)
BY DEF Keeps, KeptIn

LEMMA FiledOn ==
  ASSUME NEW d, NEW e, Keeps(d, e), NEW r, e.raw[r] = d.raw[r], NEW P, NEW Q, Filed(d, r, P),
         \A o \in P : o \in Q \/ KeptIn(e, r, o)
  PROVE  Filed(e, r, Q)
BY KeptOn DEF Filed

LEMMA PrevOn ==
  ASSUME NEW d, NEW e, Keeps(d, e), NEW x, PrevOk(d, x)
  PROVE  PrevOk(e, x)
BY DEF Keeps, PrevOk, Chain

\* What one process does to its run leaves the other runs as they are.
LEMMA ActiveStep ==
  ASSUME FoundationInv, NEW p \in Procs, proc[p].step # "idle",
         NEW y, ProcOk(y), PrevOk(db', y),
         proc' = [proc EXCEPT ![p] = y], broker' = broker,
         ChainsHold(db'), RawOk(db'), Keeps(db, db'),
         \A q \in Runs \ {proc[p].run} : db'.raw[q] = db.raw[q],
         \/ /\ y.step # "idle" /\ y.run = proc[p].run /\ status' = status
            /\ Filed(db', y.run, InHand(y))
         \/ y.step = "idle" /\ status' = status
         \/ y.step = "idle" /\ status' = [status EXCEPT ![proc[p].run] = "FAILED"]
         \/ /\ y.step = "idle" /\ status' = [status EXCEPT ![proc[p].run] = "COMPLETE"]
            /\ Filed(db', proc[p].run, {})
  PROVE  FoundationInv'
<1> DEFINE r == proc[p].run
<1>1. r \in Runs /\ status[r] = "RUNNING"
  BY DEF FoundationInv, RunOk
<1>2. BrokerOk'
  BY DEF FoundationInv, BrokerOk
<1>3. DOMAIN proc = Procs /\ DOMAIN status = Runs
  BY DEF FoundationInv
<1>4. /\ proc' = [q \in Procs |-> proc'[q]] /\ proc'[p] = y
      /\ \A q \in Procs : q # p => proc'[q] = proc[q]
  BY <1>3
<1>5. /\ DOMAIN status' = Runs /\ \A s \in Runs : s # r => status'[s] = status[s]
      /\ status'[r] \in {"RUNNING", "FAILED", "COMPLETE"}
      /\ status'[r] = "COMPLETE" => Filed(db', r, {})
      /\ y.step # "idle" => y.run = r /\ status'[r] = "RUNNING" /\ Filed(db', r, InHand(y))
  BY <1>1, <1>3
<1>6. ASSUME NEW q \in Procs, q # p
      PROVE  ProcOk(proc'[q]) /\ PrevOk(db', proc'[q]) /\ RunOk(db', status', proc'[q])
  <2>1. proc'[q] = proc[q]
    BY <1>4, <1>6
  <2>2. ProcOk(proc[q]) /\ PrevOk(db, proc[q]) /\ RunOk(db, status, proc[q])
    BY DEF FoundationInv
  <2>3. PrevOk(db', proc[q])
    BY <2>2, PrevOn
  <2>4. ASSUME proc[q].step # "idle"
        PROVE  /\ proc[q].run \in Runs /\ status'[proc[q].run] = "RUNNING"
               /\ Filed(db', proc[q].run, InHand(proc[q]))
    <3>1. proc[q].run # r
      BY <1>6, <2>4 DEF FoundationInv
    <3>2. /\ proc[q].run \in Runs /\ status[proc[q].run] = "RUNNING"
          /\ Filed(db, proc[q].run, InHand(proc[q]))
      BY <2>2, <2>4 DEF RunOk
    <3>3. db'.raw[proc[q].run] = db.raw[proc[q].run]
      BY <3>1, <3>2
    <3> QED
      BY <1>5, <3>1, <3>2, <3>3, FiledOn
  <2> QED
    BY <2>1, <2>2, <2>3, <2>4 DEF RunOk
<1>7. ProcOk(proc'[p]) /\ PrevOk(db', proc'[p]) /\ RunOk(db', status', proc'[p])
  BY <1>1, <1>4, <1>5 DEF RunOk
<1>8. \A q \in Procs : ProcOk(proc'[q]) /\ PrevOk(db', proc'[q]) /\ RunOk(db', status', proc'[q])
  BY <1>6, <1>7
<1>9. \A q, s \in Procs : proc'[q].step # "idle" /\ proc'[s].step # "idle" /\ q # s
                            => proc'[q].run # proc'[s].run
  <2>1. \A q, s \in Procs : proc[q].step # "idle" /\ proc[s].step # "idle" /\ q # s
                            => proc[q].run # proc[s].run
    BY DEF FoundationInv
  <2> QED
    BY <1>4, <1>5, <2>1
<1>10. \A s \in Runs : status'[s] = "none" => db'.raw[s] = <<>>
  <2>1. \A s \in Runs : status[s] = "none" => db.raw[s] = <<>>
    BY DEF FoundationInv
  <2> QED
    BY <1>5, <2>1
<1>11. ASSUME NEW s \in Runs, status'[s] = "COMPLETE" PROVE Filed(db', s, {})
  <2>1. CASE s = r
    BY <1>5, <1>11, <2>1
  <2>2. CASE s # r
    <3>1. Filed(db, s, {}) /\ db'.raw[s] = db.raw[s]
      BY <1>5, <1>11, <2>2 DEF FoundationInv
    <3> QED
      BY <3>1, FiledOn
  <2> QED
    BY <2>1, <2>2
<1> QED
  BY <1>2, <1>4, <1>5, <1>8, <1>9, <1>10, <1>11 DEF FoundationInv

\* A stored response.
LEMMA SaveRawFields ==
  ASSUME NEW d, Tables(d), RawOk(d), NEW r \in Runs, NEW endpoint, NEW ok, NEW body
  PROVE  LET e == SaveRaw(d, r, endpoint, ok, body)
             n == Len(d.raw[r]) + 1
         IN  /\ DOMAIN e = DOMAIN d /\ e.rows = d.rows /\ e.orders = d.orders
             /\ e.snaps = d.snaps /\ e.deltas = d.deltas /\ e.cash = d.cash
             /\ e.blocks = d.blocks /\ RawOk(e)
             /\ \A q \in Runs \ {r} : e.raw[q] = d.raw[q]
             /\ Len(d.raw[r]) \in Nat /\ DOMAIN d.raw[r] = 1 .. Len(d.raw[r])
             /\ DOMAIN e.raw[r] = 1 .. n
             /\ \A i \in 1 .. Len(d.raw[r]) : e.raw[r][i] = d.raw[r][i]
             /\ e.raw[r][n].endpoint = endpoint /\ e.raw[r][n].body = body
             /\ e.raw[r][n].ok = ok
<1> DEFINE row == [endpoint |-> endpoint, ok |-> ok, body |-> body]
           e == SaveRaw(d, r, endpoint, ok, body)
           n == Len(d.raw[r]) + 1
<1>1. DOMAIN d.raw = Runs /\ \A q \in Runs : IsList(d.raw[q])
  BY DEF RawOk
<1>2. /\ DOMAIN e = DOMAIN d /\ e.rows = d.rows /\ e.orders = d.orders /\ e.snaps = d.snaps
      /\ e.deltas = d.deltas /\ e.cash = d.cash /\ e.blocks = d.blocks
      /\ e.raw = [d.raw EXCEPT ![r] = Append(@, row)]
  BY DEF SaveRaw, Tables
<1>3. row.endpoint = endpoint /\ row.body = body /\ row.ok = ok
  OBVIOUS
<1> HIDE DEF e, row
<1>4. /\ DOMAIN e.raw = Runs /\ e.raw[r] = Append(d.raw[r], row)
      /\ \A q \in Runs \ {r} : e.raw[q] = d.raw[q]
  BY <1>1, <1>2
<1>5. /\ IsList(e.raw[r]) /\ Len(d.raw[r]) \in Nat /\ DOMAIN d.raw[r] = 1 .. Len(d.raw[r])
      /\ DOMAIN e.raw[r] = 1 .. n /\ \A i \in 1 .. Len(d.raw[r]) : e.raw[r][i] = d.raw[r][i]
      /\ e.raw[r][n] = row
  BY <1>1, <1>4, AppendAny
<1>6. RawOk(e)
  BY <1>1, <1>4, <1>5 DEF RawOk
<1> QED
  BY <1>2, <1>3, <1>4, <1>5, <1>6 DEF e

LEMMA SaveRawKeeps ==
  ASSUME NEW d, ChainsHold(d), RawOk(d), NEW r \in Runs, NEW endpoint, NEW ok, NEW body,
         NEW e, e = SaveRaw(d, r, endpoint, ok, body)
  PROVE  /\ ChainsHold(e) /\ RawOk(e) /\ Keeps(d, e)
         /\ \A q \in Runs \ {r} : e.raw[q] = d.raw[q]
<1>1. Tables(d)
  BY DEF ChainsHold
<1>2. /\ DOMAIN e = DOMAIN d /\ e.snaps = d.snaps /\ e.deltas = d.deltas /\ e.blocks = d.blocks
      /\ RawOk(e) /\ \A q \in Runs \ {r} : e.raw[q] = d.raw[q]
  BY <1>1, SaveRawFields
<1>3. Tables(e)
  BY <1>1, <1>2 DEF Tables
<1> QED
  BY <1>2, <1>3, SameLog DEF Keeps

LEMMA SaveRawFiled ==
  ASSUME NEW d, Tables(d), RawOk(d), NEW r \in Runs, NEW endpoint, NEW ok, NEW body,
         NEW e, e = SaveRaw(d, r, endpoint, ok, body), NEW P, NEW Q, Filed(d, r, P),
         \A o \in P : o \in Q,
         endpoint \in OrderSteps => \A j \in DOMAIN body : body[j].counted => body[j].order \in Q
  PROVE  Filed(e, r, Q)
<1> DEFINE n == Len(d.raw[r]) + 1
<1>1. /\ e.snaps = d.snaps /\ e.blocks = d.blocks
      /\ Len(d.raw[r]) \in Nat /\ DOMAIN d.raw[r] = 1 .. Len(d.raw[r])
      /\ DOMAIN e.raw[r] = 1 .. n
      /\ \A i \in 1 .. Len(d.raw[r]) : e.raw[r][i] = d.raw[r][i]
      /\ e.raw[r][n].endpoint = endpoint /\ e.raw[r][n].body = body
  BY SaveRawFields
<1> SUFFICES ASSUME NEW i \in 1 .. n, e.raw[r][i].endpoint \in OrderSteps,
                    NEW j \in DOMAIN e.raw[r][i].body, e.raw[r][i].body[j].counted
             PROVE  KeptIn(e, r, e.raw[r][i].body[j].order) \/ e.raw[r][i].body[j].order \in Q
  BY <1>1 DEF Filed
<1>2. CASE i = n
  BY <1>1, <1>2
<1>3. CASE i # n
  <2>1. i \in DOMAIN d.raw[r] /\ e.raw[r][i] = d.raw[r][i]
    BY <1>1, <1>3
  <2>2. KeptIn(d, r, d.raw[r][i].body[j].order) \/ d.raw[r][i].body[j].order \in P
    BY <2>1 DEF Filed
  <2> DEFINE o == d.raw[r][i].body[j].order
  <2>3. e.raw[r][i].body[j].order = o
    BY <2>1
  <2> HIDE DEF o
  <2>4. KeptIn(d, r, o) => KeptIn(e, r, o)
    BY <1>1 DEF KeptIn
  <2>5. KeptIn(e, r, o) \/ o \in Q
    BY <2>2, <2>4 DEF o
  <2> QED
    BY <2>3, <2>5
<1> QED
  BY <1>2, <1>3

LEMMA IdleOk ==
  /\ ProcOk(Idle) /\ Idle.step = "idle" /\ \A d : PrevOk(d, Idle)
<1>1. <<>> \in Seq(Seq(AnyReport)) /\ <<>> \in Seq(Orders)
  OBVIOUS
<1> QED
  BY <1>1 DEF Idle, ProcOk, PrevOk, WorkSteps, OrderSteps

\* What a run has seen of the order listings.
ListedOk(listed) ==
  /\ DOMAIN listed = {"open", "closed"}
  /\ listed.open \in Seq(Orders) /\ listed.closed \in Seq(Orders)

LEMMA StepAfterType ==
  ASSUME NEW step \in WorkSteps, NEW listed
  PROVE  StepAfter(step, listed) \in WorkSteps \cup {"post"}
<1>1. IncludeClosed \in BOOLEAN
  BY FoundationAssumption
<1> QED
  BY <1>1 DEF StepAfter, WorkSteps, OrderSteps

LEMMA EnterOk ==
  ASSUME NEW p, NEW step \in WorkSteps \cup {"post"}, NEW listed, ListedOk(listed)
  PROVE  LET y == Enter(p, step, listed)
         IN  /\ ProcOk(y) /\ y.step = step /\ y.step # "idle" /\ y.run = proc[p].run
             /\ \A d : PrevOk(d, y)
<1> DEFINE y == Enter(p, step, listed)
<1>1. /\ DOMAIN y = {"step", "run", "stage", "todo", "pages", "listed", "prev", "stored", "tries"}
      /\ y.step = step /\ y.run = proc[p].run /\ y.stage = "request" /\ y.listed = listed
      /\ y.pages = <<>> /\ y.todo = Requests(step, listed) /\ y.stored = 0
  BY DEF Enter, Idle
<1>2. step = "post" => Requests(step, listed) = <<>>
  BY DEF Requests
<1>3. step = "details" => Requests(step, listed) \in Seq(Orders)
  <2>1. step = "details" => Requests(step, listed) = DetailOrders(listed)
    BY DEF Requests
  <2> QED
    BY <2>1, DetailsType DEF ListedOk
<1>4. <<>> \in Seq(Seq(AnyReport))
  OBVIOUS
<1> HIDE DEF y
<1>5. step # "idle" /\ step # "finish"
  BY DEF WorkSteps, OrderSteps
<1>6. ProcOk(y) /\ \A d : PrevOk(d, y)
  BY <1>1, <1>2, <1>3, <1>4, <1>5 DEF ProcOk, PrevOk, ListedOk
<1> QED
  BY <1>1, <1>5, <1>6 DEF y

LEMMA DoneOk ==
  ASSUME NEW p, ProcOk(proc[p]), proc[p].step \in WorkSteps,
         proc[p].step = "details" => proc[p].todo # <<>>
  PROVE  LET y == Done(p)
         IN  /\ ProcOk(y) /\ y.step # "idle" /\ y.run = proc[p].run
             /\ \A d : PrevOk(d, y)
<1> DEFINE x == proc[p]
           rest == Tail(x.todo)
           y == [proc[p] EXCEPT !.todo = rest, !.stage = "request", !.pages = <<>>,
                                !.stored = 0, !.tries = 0]
<1>1. CASE rest # <<>>
  <2>1. Done(p) = y
    BY <1>1 DEF Done
  <2>2. /\ DOMAIN y = {"step", "run", "stage", "todo", "pages", "listed", "prev", "stored", "tries"}
        /\ y.step = x.step /\ y.run = x.run /\ y.stage = "request" /\ y.listed = x.listed
        /\ y.pages = <<>> /\ y.todo = rest /\ y.stored = 0
    BY DEF ProcOk
  <2>3. x.step = "details" => rest \in Seq(Orders)
    <3>1. x.step = "details" => x.todo \in Seq(Orders) /\ x.todo # <<>>
      BY DEF ProcOk
    <3> HIDE DEF x
    <3> QED
      BY <3>1
  <2>4. <<>> \in Seq(Seq(AnyReport))
    OBVIOUS
  <2>5. x.step \notin {"post", "finish", "idle"}
    BY DEF WorkSteps, OrderSteps
  <2>6. ProcOk(x)
    OBVIOUS
  <2> HIDE DEF y, x, rest
  <2>7. ProcOk(y) /\ y.step # "idle" /\ y.run = x.run /\ \A d : PrevOk(d, y)
    BY <2>2, <2>3, <2>4, <2>5, <2>6 DEF ProcOk, PrevOk
  <2> QED
    BY <2>1, <2>7 DEF x
<1>2. CASE rest = <<>>
  <2>1. Done(p) = Enter(p, StepAfter(x.step, x.listed), x.listed)
    BY <1>2 DEF Done
  <2>2. ListedOk(x.listed)
    BY DEF ProcOk, ListedOk
  <2>3. StepAfter(x.step, x.listed) \in WorkSteps \cup {"post"}
    BY StepAfterType
  <2> DEFINE next == StepAfter(x.step, x.listed)
             z == Enter(p, next, x.listed)
  <2>4. next \in WorkSteps \cup {"post"} /\ ListedOk(x.listed) /\ Done(p) = z
    BY <2>1, <2>2, <2>3
  <2> HIDE DEF x, next
  <2>5. ProcOk(z) /\ z.step = next /\ z.step # "idle" /\ z.run = proc[p].run /\ \A d : PrevOk(d, z)
    BY <2>4, EnterOk
  <2> QED
    BY <2>4, <2>5
<1> QED
  BY <1>1, <1>2

\* The page in hand has a report of the order, with amounts, that is not stored yet.
LeftOn(x, page, o) ==
  \E j \in DOMAIN page : j > x.stored /\ page[j].counted /\ page[j].order = o

\* A page that is stored is no longer in hand.
LEMMA PageDoneOk ==
  ASSUME NEW p, ProcOk(proc[p]), proc[p].stage # "request"
  PROVE  LET x == proc[p]
             y == PageDone(p)
         IN  /\ ProcOk(y) /\ y.step # "idle" /\ y.run = x.run
             /\ \A d : PrevOk(d, y)
             /\ Head(x.pages) \in Seq(AnyReport)
             /\ \A o \in InHand(x) : o \in InHand(y) \/ LeftOn(x, Head(x.pages), o)
<1> DEFINE x == proc[p]
           page == Head(x.pages)
           ids == [i \in DOMAIN page |-> page[i].order]
           listed == CASE x.step = "orders-open" -> [x.listed EXCEPT !.open = @ \o ids]
                       [] x.step = "orders-closed" -> [x.listed EXCEPT !.closed = @ \o ids]
                       [] OTHER -> x.listed
           y == [x EXCEPT !.pages = Tail(@), !.stage = "orders", !.stored = 0, !.listed = listed]
<1>1. /\ x.pages \in Seq(Seq(AnyReport)) /\ x.pages # <<>> /\ x.step \in OrderSteps
      /\ x.step = "details" => x.todo # <<>> /\ x.todo \in Seq(Orders)
      /\ ListedOk(x.listed)
      /\ DOMAIN x = {"step", "run", "stage", "todo", "pages", "listed", "prev", "stored", "tries"}
  BY DEF ProcOk, ListedOk
<1>2. PageDone(p) = IF Len(x.pages) > 1 THEN y
                    ELSE IF x.step = "details" THEN Done(p)
                    ELSE Enter(p, StepAfter(x.step, listed), listed)
  BY DEF PageDone
<1> HIDE DEF x
<1>3. page \in Seq(AnyReport) /\ Tail(x.pages) \in Seq(Seq(AnyReport))
  BY <1>1
<1>4. /\ Len(Tail(x.pages)) = Len(x.pages) - 1 /\ Len(x.pages) \in Nat \ {0}
      /\ \A i \in 1 .. Len(Tail(x.pages)) : Tail(x.pages)[i] = x.pages[i + 1]
      /\ page = x.pages[1] /\ DOMAIN x.pages = 1 .. Len(x.pages)
      /\ DOMAIN Tail(x.pages) = 1 .. Len(Tail(x.pages))
  <2> HIDE DEF page
  <2>1. x.pages \in Seq(Seq(AnyReport)) /\ x.pages # <<>>
    BY <1>1
  <2>2. Len(x.pages) \in Nat \ {0} /\ DOMAIN x.pages = 1 .. Len(x.pages)
    BY <2>1
  <2>3. /\ Len(Tail(x.pages)) = Len(x.pages) - 1
        /\ \A i \in 1 .. Len(Tail(x.pages)) : Tail(x.pages)[i] = x.pages[i + 1]
    BY <2>1, HeadTailProperties
  <2>4. DOMAIN Tail(x.pages) = 1 .. Len(Tail(x.pages))
    BY <1>3
  <2> QED
    BY <2>2, <2>3, <2>4 DEF page
<1>5. ids \in Seq(Orders)
  <2>1. \A i \in DOMAIN page : page[i].order \in Orders
    <3> HIDE DEF page
    <3>1. \A i \in DOMAIN page : page[i] \in AnyReport
      BY <1>3
    <3> QED
      BY <3>1 DEF AnyReport
  <2>2. Len(page) \in Nat /\ DOMAIN page = 1 .. Len(page)
    BY <1>3
  <2> HIDE DEF page
  <2> QED
    BY <2>1, <2>2
<1> HIDE DEF ids
<1>6. ListedOk(listed)
  <2> DEFINE a == [x.listed EXCEPT !.open = @ \o ids]
             b == [x.listed EXCEPT !.closed = @ \o ids]
  <2>1. ListedOk(a)
    <3>1. x.listed.open \o ids \in Seq(Orders)
      <4>1. PICK s \in Seq(Orders) : s = x.listed.open
        BY <1>1 DEF ListedOk
      <4> QED
        BY <1>5, <4>1, ConcatProperties
    <3>2. /\ DOMAIN a = {"open", "closed"} /\ a.open = x.listed.open \o ids
          /\ a.closed = x.listed.closed
      BY <1>1 DEF ListedOk
    <3> QED
      BY <1>1, <3>1, <3>2 DEF ListedOk
  <2>2. ListedOk(b)
    <3>1. x.listed.closed \o ids \in Seq(Orders)
      <4>1. PICK s \in Seq(Orders) : s = x.listed.closed
        BY <1>1 DEF ListedOk
      <4> QED
        BY <1>5, <4>1, ConcatProperties
    <3>2. /\ DOMAIN b = {"open", "closed"} /\ b.closed = x.listed.closed \o ids
          /\ b.open = x.listed.open
      BY <1>1 DEF ListedOk
    <3> QED
      BY <1>1, <3>1, <3>2 DEF ListedOk
  <2>3. listed = a \/ listed = b \/ listed = x.listed
    OBVIOUS
  <2> HIDE DEF a, b, listed
  <2> QED
    BY <1>1, <2>1, <2>2, <2>3
<1> HIDE DEF listed
<1>7. \A o \in InHand(x) : \E i \in 1 .. Len(x.pages) : \E j :
        Unstored(x, i, j) /\ x.pages[i][j].order = o
  BY <1>4 DEF InHand, Unstored
<1>10. \A i, j : Unstored(x, i, j) => i \in DOMAIN x.pages /\ j \in DOMAIN x.pages[i]
                                      /\ x.pages[i][j].counted /\ (i = 1 => j > x.stored)
  BY DEF Unstored
<1>8. CASE Len(x.pages) > 1
  <2>1. /\ DOMAIN y = {"step", "run", "stage", "todo", "pages", "listed", "prev", "stored", "tries"}
        /\ y.step = x.step /\ y.run = x.run /\ y.stage = "orders" /\ y.listed = listed
        /\ y.pages = Tail(x.pages) /\ y.todo = x.todo /\ y.stored = 0
    BY <1>1
  <2>2. Tail(x.pages) # <<>>
    <3> DEFINE rest == Tail(x.pages)
    <3>1. Len(rest) = Len(x.pages) - 1 /\ Len(x.pages) \in Nat
      BY <1>4
    <3> HIDE DEF rest, y
    <3>2. Len(rest) > 0
      BY <1>8, <3>1
    <3>3. Len(<<>>) = 0
      OBVIOUS
    <3>4. rest # <<>>
      BY <3>2, <3>3
    <3> QED
      BY <3>4 DEF rest
  <2>3. x.step \in WorkSteps /\ x.step \notin {"post", "finish", "idle"}
    BY <1>1 DEF OrderSteps, WorkSteps
  <2> HIDE DEF y
  <2>4. ProcOk(y) /\ y.step # "idle" /\ \A d : PrevOk(d, y)
    BY <1>1, <1>3, <1>6, <2>1, <2>2, <2>3 DEF ProcOk, PrevOk, ListedOk
  <2>5. ASSUME NEW o \in InHand(x)
        PROVE  o \in InHand(y) \/ LeftOn(x, page, o)
    <3> HIDE DEF page
    <3>1. PICK i, j : /\ i \in 1 .. Len(x.pages) /\ Unstored(x, i, j)
                       /\ x.pages[i][j].order = o
      BY <1>7
    <3>2. CASE i = 1
      BY <1>4, <1>10, <3>1, <3>2 DEF LeftOn
    <3>3. CASE i # 1
      <4>0. i \in 1 .. Len(x.pages)
        BY <3>1
      <4>1. i - 1 \in 1 .. Len(Tail(x.pages)) /\ (i - 1) + 1 = i
        BY <1>4, <3>3, <4>0
      <4>2. i - 1 \in DOMAIN y.pages /\ y.pages[i - 1] = x.pages[i]
        BY <1>4, <2>1, <4>1
      <4>3. o \in Orders /\ j \in DOMAIN x.pages[i] /\ x.pages[i][j].counted
        BY <1>10, <3>1 DEF InHand
      <4>4. j > 0
        <5>1. x.pages[i] \in Seq(AnyReport)
          BY <1>1, <1>4, <3>1
        <5> QED
          BY <4>3, <5>1
      <4>5. Unstored(y, i - 1, j)
        BY <2>1, <4>2, <4>3, <4>4 DEF Unstored
      <4> QED
        BY <3>1, <4>2, <4>3, <4>5 DEF InHand
    <3> QED
      BY <3>2, <3>3
  <2>6. PageDone(p) = y
    BY <1>2, <1>8
  <2> HIDE DEF page
  <2> QED
    BY <1>3, <2>1, <2>4, <2>5, <2>6 DEF x, page
<1>9. CASE ~(Len(x.pages) > 1)
  <2>1. ASSUME NEW o \in InHand(x)
        PROVE  LeftOn(x, page, o)
    <3> HIDE DEF page
    <3>1. PICK i, j : /\ i \in 1 .. Len(x.pages) /\ Unstored(x, i, j)
                       /\ x.pages[i][j].order = o
      BY <1>7
    <3>2. i \in 1 .. Len(x.pages)
      BY <3>1
    <3>3. i = 1
      BY <1>4, <1>9, <3>2
    <3> QED
      BY <1>4, <1>10, <3>1, <3>3 DEF LeftOn
  <2>2. x.step \in WorkSteps
    BY <1>1 DEF OrderSteps, WorkSteps
  <2>3. CASE x.step = "details"
    <3>1. PageDone(p) = Done(p)
      BY <1>2, <1>9, <2>3
    <3> HIDE DEF page
    <3>2. LET z == Done(p)
          IN  /\ ProcOk(z) /\ z.step # "idle" /\ z.run = x.run /\ \A d : PrevOk(d, z)
      BY <1>1, <2>2, DoneOk DEF x
    <3> QED
      BY <1>3, <2>1, <3>1, <3>2 DEF x, page
  <2>4. CASE x.step # "details"
    <3>1. PageDone(p) = Enter(p, StepAfter(x.step, listed), listed)
      BY <1>2, <1>9, <2>4
    <3> HIDE DEF page
    <3>2. StepAfter(x.step, listed) \in WorkSteps \cup {"post"}
      BY <2>2, StepAfterType
    <3>3. LET z == Enter(p, StepAfter(x.step, listed), listed)
          IN  /\ ProcOk(z) /\ z.step # "idle" /\ z.run = x.run /\ \A d : PrevOk(d, z)
      BY <1>6, <3>2, EnterOk DEF x
    <3> QED
      BY <1>3, <2>1, <3>1, <3>3 DEF x, page
  <2> QED
    BY <2>3, <2>4
<1> QED
  BY <1>8, <1>9

LEMMA ActiveFacts ==
  ASSUME FoundationInv, NEW p \in Procs
  PROVE  /\ ProcOk(proc[p]) /\ PrevOk(db, proc[p]) /\ ChainsHold(db) /\ Tables(db) /\ RawOk(db)
         /\ proc[p].step # "idle" =>
              /\ proc[p].run \in Runs /\ status[proc[p].run] = "RUNNING"
              /\ Filed(db, proc[p].run, InHand(proc[p]))
         /\ Waiting(p) => /\ proc[p].step \in WorkSteps /\ proc[p].step # "idle"
                          /\ proc[p].stage = "request" /\ proc[p].todo # <<>>
<1>1. ProcOk(proc[p]) /\ PrevOk(db, proc[p]) /\ ChainsHold(db) /\ RawOk(db)
      /\ RunOk(db, status, proc[p])
  BY DEF FoundationInv
<1>2. Tables(db)
  BY <1>1 DEF ChainsHold
<1>3. Waiting(p) => /\ proc[p].step \in WorkSteps /\ proc[p].step # "idle"
                    /\ proc[p].stage = "request" /\ proc[p].todo # <<>>
  BY <1>1 DEF Waiting, ProcOk
<1> QED
  BY <1>1, <1>2, <1>3 DEF RunOk

\* A step that leaves the executions, the blocks and the responses alone.
LEMMA QuietKeeps ==
  ASSUME NEW d, ChainsHold(d), RawOk(d), NEW e, DOMAIN e = DOMAIN d, e.raw = d.raw,
         e.snaps = d.snaps, e.deltas = d.deltas, e.blocks = d.blocks
  PROVE  /\ ChainsHold(e) /\ RawOk(e) /\ Keeps(d, e)
         /\ \A r : \A P : Filed(d, r, P) => Filed(e, r, P)
<1>1. Tables(e)
  BY DEF ChainsHold, Tables
<1>2. ChainsHold(e)
  BY <1>1, SameLog
<1>3. RawOk(e)
  BY DEF RawOk
<1>4. Keeps(d, e)
  BY DEF Keeps
<1> QED
  BY <1>2, <1>3, <1>4, FiledOn

LEMMA FailStep ==
  ASSUME FoundationInv, NEW p \in Procs, proc[p].step # "idle", FailRun(p),
         ChainsHold(db'), RawOk(db'), Keeps(db, db'),
         \A q \in Runs \ {proc[p].run} : db'.raw[q] = db.raw[q]
  PROVE  FoundationInv'
<1>1. /\ proc[p].run \in Runs /\ status[proc[p].run] = "RUNNING"
  BY ActiveFacts
<1>2. /\ proc' = [proc EXCEPT ![p] = Idle] /\ broker' = broker
      /\ status' = [status EXCEPT ![proc[p].run] = "FAILED"]
  BY <1>1 DEF FailRun
<1> QED
  BY <1>2, IdleOk, ActiveStep

LEMMA BrokerStep ==
  ASSUME FoundationInv, NEW o \in Orders, PlaceOrder(o) \/ BrokerReports(o)
  PROVE  FoundationInv'
<1>1. BrokerOk
  BY DEF FoundationInv
<1>2. BrokerOk'
  <2>1. CASE \E fill \in 0 .. 1, open \in BOOLEAN :
               broker' = [broker EXCEPT ![o].qty = @ + fill, ![o].fee = @ + fill, ![o].open = open]
    <3>1. PICK fill \in 0 .. 1, open \in BOOLEAN :
            broker' = [broker EXCEPT ![o].qty = @ + fill, ![o].fee = @ + fill, ![o].open = open]
      BY <2>1
    <3>2. /\ broker[o] \in [qty : Nat, fee : Nat, open : BOOLEAN, settle : Int, placed : BOOLEAN]
          /\ broker[o].qty + fill \in Nat /\ broker[o].fee + fill \in Nat
      BY <1>1 DEF BrokerOk
    <3> QED
      BY <1>1, <3>1, <3>2 DEF BrokerOk
  <2>2. CASE broker[o].fee > 0 /\ broker' = [broker EXCEPT ![o].fee = @ - 1]
    BY <1>1, <2>2 DEF BrokerOk
  <2>3. CASE broker' = [broker EXCEPT ![o].settle = 3 - @]
    BY <1>1, <2>3 DEF BrokerOk
  <2>4. CASE PlaceOrder(o)
    BY <1>1, <2>4 DEF BrokerOk, PlaceOrder
  <2> QED
    BY <2>1, <2>2, <2>3, <2>4 DEF BrokerReports
<1>3. db' = db /\ status' = status /\ proc' = proc
  BY DEF BrokerReports, PlaceOrder
<1> QED
  BY <1>2, <1>3 DEF FoundationInv

LEMMA SameStep ==
  ASSUME FoundationInv, broker' = broker, db' = db, status' = status, proc' = proc
  PROVE  FoundationInv'
BY DEF FoundationInv, BrokerOk

LEMMA BeginStep ==
  ASSUME FoundationInv, NEW p \in Procs, Begin(p)
  PROVE  FoundationInv'
<1>1. PICK r \in Runs :
        /\ status[r] = "none" /\ status' = [status EXCEPT ![r] = "RUNNING"]
        /\ proc' = [proc EXCEPT ![p] = [Idle EXCEPT !.run = r, !.step = "accounts",
                                                    !.todo = <<"">>]]
  BY DEF Begin
<1> DEFINE y == [Idle EXCEPT !.run = r, !.step = "accounts", !.todo = <<"">>]
<1>2. db' = db /\ broker' = broker /\ proc[p].step = "idle"
  BY DEF Begin
<1>3. DOMAIN status = Runs /\ proc = [q \in Procs |-> proc[q]]
  BY DEF FoundationInv
<1>4. ProcOk(y) /\ y.step # "idle" /\ y.run = r /\ PrevOk(db, y)
  <2>1. <<>> \in Seq(Seq(AnyReport)) /\ <<>> \in Seq(Orders)
    OBVIOUS
  <2> QED
    BY <2>1 DEF Idle, ProcOk, PrevOk, WorkSteps, OrderSteps
<1> HIDE DEF y
<1>5. /\ DOMAIN status' = Runs /\ status'[r] = "RUNNING"
      /\ \A s \in Runs : s # r => status'[s] = status[s]
  BY <1>1, <1>3
<1>6. /\ proc' = [q \in Procs |-> proc'[q]] /\ proc'[p] = y
      /\ \A q \in Procs : q # p => proc'[q] = proc[q]
  BY <1>1, <1>3 DEF y
<1>7. Filed(db, r, InHand(y))
  <2>1. db.raw[r] = <<>>
    BY <1>1 DEF FoundationInv
  <2> QED
    BY <2>1 DEF Filed
<1>8. \A q \in Procs : proc[q].step # "idle" => /\ proc[q].run \in Runs /\ proc[q].run # r
                                               /\ status[proc[q].run] = "RUNNING"
                                               /\ Filed(db, proc[q].run, InHand(proc[q]))
  BY <1>1, ActiveFacts
<1>9. ASSUME NEW q \in Procs
      PROVE  ProcOk(proc'[q]) /\ PrevOk(db, proc'[q]) /\ RunOk(db, status', proc'[q])
  <2>1. CASE q = p
    BY <1>4, <1>5, <1>6, <1>7, <2>1 DEF RunOk
  <2>2. CASE q # p
    <3>1. proc'[q] = proc[q] /\ ProcOk(proc[q]) /\ PrevOk(db, proc[q])
      BY <1>6, <2>2, ActiveFacts
    <3> QED
      BY <1>5, <1>8, <3>1 DEF RunOk
  <2> QED
    BY <2>1, <2>2
<1>10. \A q, s \in Procs : proc'[q].step # "idle" /\ proc'[s].step # "idle" /\ q # s
                             => proc'[q].run # proc'[s].run
  <2>1. \A q, s \in Procs : proc[q].step # "idle" /\ proc[s].step # "idle" /\ q # s
                              => proc[q].run # proc[s].run
    BY DEF FoundationInv
  <2> QED
    BY <1>4, <1>6, <1>8, <2>1
<1>11. /\ \A s \in Runs : status'[s] = "none" => db.raw[s] = <<>>
       /\ \A s \in Runs : status'[s] = "COMPLETE" => Filed(db, s, {})
  <2>1. /\ \A s \in Runs : status[s] = "none" => db.raw[s] = <<>>
        /\ \A s \in Runs : status[s] = "COMPLETE" => Filed(db, s, {})
    BY DEF FoundationInv
  <2> QED
    BY <1>5, <2>1
<1>12. ChainsHold(db) /\ RawOk(db) /\ BrokerOk'
  BY <1>2 DEF FoundationInv, BrokerOk
<1> QED
  BY <1>2, <1>5, <1>6, <1>9, <1>10, <1>11, <1>12 DEF FoundationInv

\* A response that reports no order, while the run goes on as y.
LEMMA SavedStep ==
  ASSUME FoundationInv, NEW p \in Procs, proc[p].step # "idle",
         NEW endpoint, endpoint \notin OrderSteps, NEW ok, NEW body,
         db' = SaveRaw(db, proc[p].run, endpoint, ok, body),
         broker' = broker, status' = status, proc' = proc
  PROVE  FoundationInv'
<1> DEFINE x == proc[p]
<1>1. /\ ProcOk(x) /\ PrevOk(db, x) /\ ChainsHold(db) /\ RawOk(db) /\ x.run \in Runs
      /\ Filed(db, x.run, InHand(x))
  BY ActiveFacts
<1>2. proc' = [proc EXCEPT ![p] = x]
  BY DEF FoundationInv
<1> HIDE DEF x
<1>3. /\ ChainsHold(db') /\ RawOk(db') /\ Keeps(db, db')
      /\ \A q \in Runs \ {x.run} : db'.raw[q] = db.raw[q]
  BY <1>1, SaveRawKeeps DEF x
<1>5. Filed(db', x.run, InHand(x))
  BY <1>1, SaveRawFiled DEF x, ChainsHold
<1>4. PrevOk(db', x)
  BY <1>1, <1>3, PrevOn
<1> QED
  BY <1>1, <1>2, <1>3, <1>4, <1>5, ActiveStep DEF x

LEMMA RetryStep ==
  ASSUME FoundationInv, NEW p \in Procs, RetryLater(p)
  PROVE  FoundationInv'
<1> DEFINE x == proc[p]
           y == [x EXCEPT !.tries = @ + 1]
<1>1. /\ ProcOk(x) /\ PrevOk(db, x) /\ ChainsHold(db) /\ RawOk(db) /\ x.run \in Runs
      /\ Filed(db, x.run, InHand(x)) /\ x.step # "idle" /\ x.stage = "request"
  BY ActiveFacts DEF RetryLater
<1>2. /\ proc' = [proc EXCEPT ![p] = y] /\ db' = db /\ broker' = broker /\ status' = status
  BY DEF RetryLater
<1>3. /\ DOMAIN y = DOMAIN x /\ y.step = x.step /\ y.run = x.run /\ y.stage = x.stage
      /\ y.todo = x.todo /\ y.pages = x.pages /\ y.listed = x.listed /\ y.stored = x.stored
  BY <1>1 DEF ProcOk
<1> HIDE DEF y, x
<1>4. ProcOk(y) /\ PrevOk(db, y) /\ InHand(y) = InHand(x)
  BY <1>1, <1>3 DEF ProcOk, PrevOk, InHand, Unstored
<1>5. Keeps(db, db)
  BY DEF Keeps
<1> QED
  BY <1>1, <1>2, <1>3, <1>4, <1>5, ActiveStep DEF x

LEMMA RefuseStep ==
  ASSUME FoundationInv, NEW p \in Procs, Waiting(p), FailRun(p), NEW endpoint, NEW ok,
         db' = db \/ db' = SaveRaw(db, proc[p].run, endpoint, ok, <<>>)
  PROVE  FoundationInv'
<1>1. /\ ChainsHold(db) /\ RawOk(db) /\ proc[p].run \in Runs /\ proc[p].step # "idle"
  BY ActiveFacts
<1>2. CASE db' = db
  BY <1>1, <1>2, FailStep DEF Keeps
<1>3. CASE db' = SaveRaw(db, proc[p].run, endpoint, ok, <<>>)
  <2>1. /\ ChainsHold(db') /\ RawOk(db') /\ Keeps(db, db')
        /\ \A q \in Runs \ {proc[p].run} : db'.raw[q] = db.raw[q]
    BY <1>1, <1>3, SaveRawKeeps
  <2> QED
    BY <1>1, <2>1, FailStep
<1> QED
  BY <1>2, <1>3

LEMMA NormalizedFields ==
  ASSUME NEW d, Tables(d), NEW run, NEW step \in WorkSteps \ OrderSteps, NEW argument
  PROVE  LET e == Normalized(d, run, step, argument)
         IN  /\ DOMAIN e = DOMAIN d /\ e.raw = d.raw /\ e.snaps = d.snaps
             /\ e.deltas = d.deltas /\ e.blocks = d.blocks /\ e.orders = d.orders
<1>1. \/ Normalized(d, run, step, argument) = IngestAccounts(d, run)
      \/ Normalized(d, run, step, argument) = IngestHoldings(d, run)
      \/ Normalized(d, run, step, argument) = IngestBuyingPower(d, run, argument)
      \/ Normalized(d, run, step, argument) = IngestCommissions(d, run)
      \/ Normalized(d, run, step, argument) = IngestSellableQuantity(d, run, argument)
  BY DEF Normalized, WorkSteps
<1>2. \E rows : Normalized(d, run, step, argument) = [d EXCEPT !.rows = rows]
  BY <1>1 DEF Tables, IngestAccounts, IngestHoldings, IngestBuyingPower, IngestCommissions,
              IngestSellableQuantity
<1> QED
  BY <1>2 DEF Tables

\* A response about something else, that is stored and normalized.
AnswerOf(x, body) == Normalized(SaveRaw(db, x.run, x.step, TRUE, body), x.run, x.step, body)

LEMMA AnsweredKeeps ==
  ASSUME FoundationInv, NEW p \in Procs, Waiting(p), proc[p].step \notin OrderSteps, NEW body,
         NEW e, e = AnswerOf(proc[p], body)
  PROVE  /\ ChainsHold(e) /\ RawOk(e) /\ Keeps(db, e) /\ InHand(proc[p]) = {}
         /\ \A q \in Runs \ {proc[p].run} : e.raw[q] = db.raw[q]
         /\ \A P : Filed(e, proc[p].run, P)
<1> DEFINE x == proc[p]
           saved == SaveRaw(db, x.run, x.step, TRUE, body)
<1>1. e = Normalized(saved, x.run, x.step, body) /\ x.step \notin OrderSteps
  BY DEF AnswerOf
<1>2. /\ ProcOk(x) /\ ChainsHold(db) /\ RawOk(db) /\ x.run \in Runs
      /\ Filed(db, x.run, InHand(x)) /\ x.step # "idle" /\ x.stage = "request"
      /\ x.step \in WorkSteps /\ x.todo # <<>>
  BY ActiveFacts
<1>4. InHand(x) = {}
  <2>1. x.pages = <<>>
    BY <1>1, <1>2 DEF ProcOk, OrderSteps
  <2> QED
    BY <2>1 DEF InHand, Unstored
<1> HIDE DEF x, saved
<1>12. PICK ok : saved = SaveRaw(db, x.run, x.step, ok, body)
  BY Zenon DEF saved
<1>5. /\ ChainsHold(saved) /\ RawOk(saved) /\ Keeps(db, saved)
      /\ \A q \in Runs \ {x.run} : saved.raw[q] = db.raw[q]
  BY <1>2, <1>12, SaveRawKeeps
<1>6. Tables(saved) /\ Tables(db)
  BY <1>2, <1>5 DEF ChainsHold
<1>11. \A P : Filed(saved, x.run, P)
  BY <1>1, <1>2, <1>4, <1>6, <1>12, SaveRawFiled
<1>7. /\ DOMAIN e = DOMAIN saved /\ e.raw = saved.raw /\ e.snaps = saved.snaps
      /\ e.deltas = saved.deltas /\ e.blocks = saved.blocks
  BY <1>1, <1>2, <1>6, NormalizedFields
<1>8. ChainsHold(e) /\ RawOk(e) /\ Keeps(saved, e) /\ \A P : Filed(e, x.run, P)
  BY <1>5, <1>7, <1>11, QuietKeeps
<1>9. Keeps(db, e)
  BY <1>5, <1>7 DEF Keeps
<1> QED
  BY <1>4, <1>5, <1>7, <1>8, <1>9 DEF x

LEMMA AnsweredStep ==
  ASSUME FoundationInv, NEW p \in Procs, Waiting(p), proc[p].step \notin OrderSteps, NEW body,
         db' = AnswerOf(proc[p], body),
         \/ FailRun(p)
         \/ /\ proc' = [proc EXCEPT ![p] = Done(p)]
            /\ broker' = broker /\ status' = status
  PROVE  FoundationInv'
<1> DEFINE x == proc[p]
           y == Done(p)
<1>1. /\ ProcOk(x) /\ x.step # "idle" /\ x.step \in WorkSteps /\ x.todo # <<>>
  BY ActiveFacts
<1>2. /\ ChainsHold(db') /\ RawOk(db') /\ Keeps(db, db')
      /\ \A q \in Runs \ {x.run} : db'.raw[q] = db.raw[q]
      /\ \A P : Filed(db', x.run, P)
  BY AnsweredKeeps
<1>3. CASE FailRun(p)
  BY <1>1, <1>2, <1>3, FailStep
<1>4. CASE proc' = [proc EXCEPT ![p] = Done(p)] /\ broker' = broker /\ status' = status
  <2>1. ProcOk(y) /\ y.step # "idle" /\ y.run = x.run /\ \A d : PrevOk(d, y)
    BY <1>1, DoneOk
  <2> HIDE DEF x, y
  <2> QED
    BY <1>1, <1>2, <1>4, <2>1, ActiveStep DEF x, y
<1> QED
  BY <1>3, <1>4

LEMMA AnswerStep ==
  ASSUME FoundationInv, NEW p \in Procs, Answer(p)
  PROVE  FoundationInv'
<1> DEFINE body == IF proc[p].step \in {"buying-power", "sellable-quantity"}
                   THEN Head(proc[p].todo) ELSE ""
<1>1. /\ Waiting(p) /\ proc[p].step \notin OrderSteps
      /\ db' = AnswerOf(proc[p], body) /\ proc' = [proc EXCEPT ![p] = Done(p)]
      /\ broker' = broker /\ status' = status
  BY DEF Answer, OrderSteps, AnswerOf
<1> HIDE DEF body
<1> QED
  BY <1>1, AnsweredStep

\* Whether there were several accounts, and none was named.
LEMMA AccountsAre ==
  ASSUME NEW p \in Procs, AnswerAccounts(p)
  PROVE  /\ Waiting(p) /\ proc[p].step = "accounts" /\ proc[p].step \notin OrderSteps
         /\ \E several \in BOOLEAN :
              /\ db' = AnswerOf(proc[p], several)
              /\ \/ FailRun(p)
                 \/ /\ proc' = [proc EXCEPT ![p] = Done(p)]
                    /\ UNCHANGED <<broker, status, explained, replica, changes>>
BY DEF AnswerAccounts, OrderSteps, AnswerOf, Normalized

LEMMA AccountsStep ==
  ASSUME FoundationInv, NEW p \in Procs, AnswerAccounts(p)
  PROVE  FoundationInv'
BY AccountsAre, AnsweredStep

\* A response that reports a page of orders, which y has in hand.
LEMMA FetchedStep ==
  ASSUME FoundationInv, NEW p \in Procs, Waiting(p), NEW page \in Seq(AnyReport),
         NEW ok, db' = SaveRaw(db, proc[p].run, proc[p].step, ok, page),
         NEW y, ProcOk(y), y.step # "idle", y.run = proc[p].run, y.stage # "write",
         \A o \in InHand(proc[p]) : o \in InHand(y),
         \A j \in DOMAIN page : page[j].counted => page[j].order \in InHand(y),
         proc' = [proc EXCEPT ![p] = y], broker' = broker, status' = status
  PROVE  FoundationInv'
<1> DEFINE x == proc[p]
<1>1. /\ ChainsHold(db) /\ RawOk(db) /\ x.run \in Runs /\ x.step # "idle"
      /\ Filed(db, x.run, InHand(x))
  BY ActiveFacts
<1> HIDE DEF x
<1>2. InHand(x) \subseteq InHand(y)
  BY DEF x
<1>3. /\ ChainsHold(db') /\ RawOk(db') /\ Keeps(db, db')
      /\ \A q \in Runs \ {x.run} : db'.raw[q] = db.raw[q]
  BY <1>1, SaveRawKeeps DEF x
<1>5. Filed(db', x.run, InHand(y))
  <2>1. Tables(db) /\ \A o \in InHand(x) : o \in InHand(y)
    BY <1>1, <1>2 DEF ChainsHold
  <2> QED
    BY <1>1, <2>1, SaveRawFiled DEF x
<1>4. PrevOk(db', y)
  BY DEF PrevOk
<1> QED
  BY <1>1, <1>3, <1>4, <1>5, ActiveStep DEF x

\* A page of a listing, in which these orders are reported without amounts.
Fetches(p, silent) ==
  /\ Waiting(p) /\ proc[p].step \in {"orders-open", "orders-closed"}
  /\ LET x == proc[p]
         left == Listing(x.step = "orders-open", x.pages, silent)
     IN \E n \in 0 .. Len(left) :
          LET page == SubSeq(left, 1, n)
          IN /\ db' = SaveRaw(db, x.run, x.step, TRUE, page)
             /\ \/ /\ proc' = [proc EXCEPT ![p].pages = Append(@, page), ![p].stage = "orders"]
                   /\ UNCHANGED <<status, explained, replica, changes, broker>>
                \/ /\ proc' = [proc EXCEPT ![p].pages = Append(@, page)]
                   /\ UNCHANGED <<status, explained, replica, changes, broker>>
                \/ FailRun(p)

LEMMA AppendedIs ==
  ASSUME NEW S, NEW s \in Seq(S), NEW e \in S
  PROVE  /\ Append(s, e) \in Seq(S) /\ Append(s, e) # <<>>
         /\ Len(s) \in Nat /\ DOMAIN s = 1 .. Len(s)
OBVIOUS

LEMMA PageStep ==
  ASSUME FoundationInv, NEW p \in Procs, FetchPage(p)
  PROVE  FoundationInv'
<1> PICK silent \in Silences : Fetches(p, silent)
  BY DEF FetchPage, Fetches
<1> DEFINE x == proc[p]
           left == Listing(x.step = "orders-open", x.pages, silent)
<1>0. Waiting(p) /\ x.step \in {"orders-open", "orders-closed"}
  BY DEF FetchPage
<1>1. /\ ProcOk(x) /\ x.run \in Runs /\ x.step # "idle" /\ x.stage = "request" /\ BrokerOk
  BY <1>0, ActiveFacts DEF FoundationInv
<1>2. left \in Seq(AnyReport)
  BY <1>1, ListingType
<1>3. PICK n \in 0 .. Len(left) :
        /\ db' = SaveRaw(db, x.run, x.step, TRUE, SubSeq(left, 1, n))
        /\ \/ /\ proc' = [proc EXCEPT ![p].pages = Append(@, SubSeq(left, 1, n)),
                                      ![p].stage = "orders"]
              /\ status' = status /\ broker' = broker
           \/ /\ proc' = [proc EXCEPT ![p].pages = Append(@, SubSeq(left, 1, n))]
              /\ status' = status /\ broker' = broker
           \/ FailRun(p)
  BY DEF Fetches
<1> DEFINE page == SubSeq(left, 1, n)
           stored == [x EXCEPT !.pages = Append(@, page), !.stage = "orders"]
           more == [x EXCEPT !.pages = Append(@, page)]
<1>4. page \in Seq(AnyReport)
  <2> HIDE DEF left
  <2>1. Len(left) \in Nat /\ n \in Int /\ \A i \in 1 .. n : left[i] \in AnyReport
    BY <1>2
  <2> QED
    BY <2>1, SubSeqProperties
<1>5. /\ DOMAIN stored = DOMAIN x /\ stored.step = x.step /\ stored.run = x.run
      /\ stored.stage = "orders" /\ stored.todo = x.todo /\ stored.listed = x.listed
      /\ stored.pages = Append(x.pages, page) /\ stored.stored = x.stored
      /\ DOMAIN more = DOMAIN x /\ more.step = x.step /\ more.run = x.run
      /\ more.stage = "request" /\ more.todo = x.todo /\ more.listed = x.listed
      /\ more.pages = Append(x.pages, page) /\ more.stored = x.stored
  <2> HIDE DEF page
  <2> QED
    BY <1>1 DEF ProcOk
<1>6. PICK ok : db' = SaveRaw(db, x.run, x.step, ok, page)
  BY <1>3, Zenon
<1>7. \/ proc' = [proc EXCEPT ![p] = stored] /\ status' = status /\ broker' = broker
      \/ proc' = [proc EXCEPT ![p] = more] /\ status' = status /\ broker' = broker
      \/ FailRun(p)
  BY <1>3
<1> HIDE DEF page, left, stored, more
<1>8. x.pages \in Seq(Seq(AnyReport))
  BY <1>1 DEF ProcOk
<1>9. ASSUME NEW y, DOMAIN y = DOMAIN x, y.step = x.step, y.run = x.run,
             y.stage \in {"orders", "request"}, y.todo = x.todo, y.listed = x.listed,
             y.pages = Append(x.pages, page), y.stored = x.stored
      PROVE  /\ ProcOk(y) /\ \A o \in InHand(x) : o \in InHand(y)
             /\ \A j \in DOMAIN page : page[j].counted => page[j].order \in InHand(y)
  <2> DEFINE m == Len(x.pages) + 1
  <2>1. /\ y.pages \in Seq(Seq(AnyReport)) /\ y.pages # <<>>
        /\ DOMAIN x.pages = 1 .. Len(x.pages) /\ DOMAIN y.pages = 1 .. m
        /\ Len(x.pages) \in Nat /\ m \in 1 .. m
        /\ \A i \in 1 .. Len(x.pages) : y.pages[i] = x.pages[i]
        /\ y.pages[m] = page
    <3>1. PICK s \in Seq(Seq(AnyReport)) : s = x.pages
      BY <1>8
    <3> DEFINE S == Seq(AnyReport)
    <3>5. s \in Seq(S) /\ page \in S
      BY <1>4, <3>1
    <3> HIDE DEF S
    <3>6. /\ Append(s, page) \in Seq(S) /\ Append(s, page) # <<>>
          /\ Len(s) \in Nat /\ DOMAIN s = 1 .. Len(s)
      BY <3>5, AppendedIs
    <3>2. /\ Append(s, page) \in Seq(Seq(AnyReport)) /\ Append(s, page) # <<>>
          /\ Len(s) \in Nat /\ DOMAIN s = 1 .. Len(s)
      BY <3>6 DEF S
    <3>3. IsList(s)
      BY DEF IsList
    <3>4. /\ DOMAIN Append(s, page) = 1 .. (Len(s) + 1)
          /\ \A i \in 1 .. Len(s) : Append(s, page)[i] = s[i]
          /\ Append(s, page)[Len(s) + 1] = page
      BY <3>3, AppendAny
    <3> QED
      BY <1>9, <3>1, <3>2, <3>4
  <2>2. x.step \in OrderSteps /\ x.step # "details" /\ x.step \in {"orders-open", "orders-closed"}
    BY <1>0 DEF OrderSteps
  <2>3. ProcOk(y)
    BY <1>1, <1>9, <2>1, <2>2 DEF ProcOk
  <2>4. ASSUME NEW o \in InHand(x) PROVE o \in InHand(y)
    <3>1. PICK i, j : Unstored(x, i, j) /\ x.pages[i][j].order = o /\ o \in Orders
      BY DEF InHand
    <3>2. i \in 1 .. Len(x.pages)
      BY <2>1, <3>1 DEF Unstored
    <3>3. i \in DOMAIN y.pages /\ y.pages[i] = x.pages[i]
      BY <2>1, <3>2
    <3>4. Unstored(y, i, j)
      BY <1>9, <3>1, <3>3 DEF Unstored
    <3> QED
      BY <3>1, <3>3, <3>4 DEF InHand
  <2>5. ASSUME NEW j \in DOMAIN page, page[j].counted PROVE page[j].order \in InHand(y)
    <3>1. page[j] \in AnyReport /\ j > 0
      BY <1>4
    <3>2. page[j].order \in Orders
      BY <3>1 DEF AnyReport
    <3>3. m \in DOMAIN y.pages /\ y.pages[m] = page
      BY <2>1
    <3>4. y.stored = 0
      BY <1>1, <1>9 DEF ProcOk
    <3>5. Unstored(y, m, j)
      BY <2>5, <3>1, <3>3, <3>4 DEF Unstored
    <3> QED
      BY <3>2, <3>3, <3>5 DEF InHand
  <2> QED
    BY <2>3, <2>4, <2>5
<1>10. CASE proc' = [proc EXCEPT ![p] = stored] /\ status' = status /\ broker' = broker
  <2>1. /\ ProcOk(stored) /\ (\A o \in InHand(x) : o \in InHand(stored))
        /\ (\A j \in DOMAIN page : page[j].counted => page[j].order \in InHand(stored))
    BY <1>5, <1>9
  <2> QED
    BY <1>0, <1>1, <1>4, <1>5, <1>6, <1>10, <2>1, FetchedStep
<1>11. CASE proc' = [proc EXCEPT ![p] = more] /\ status' = status /\ broker' = broker
  <2>1. /\ ProcOk(more) /\ (\A o \in InHand(x) : o \in InHand(more))
        /\ (\A j \in DOMAIN page : page[j].counted => page[j].order \in InHand(more))
    BY <1>5, <1>9
  <2> QED
    BY <1>0, <1>1, <1>4, <1>5, <1>6, <1>11, <2>1, FetchedStep
<1>12. CASE FailRun(p)
  <2>1. ChainsHold(db) /\ RawOk(db)
    BY ActiveFacts
  <2>2. /\ ChainsHold(db') /\ RawOk(db') /\ Keeps(db, db')
        /\ \A q \in Runs \ {x.run} : db'.raw[q] = db.raw[q]
    BY <1>1, <1>6, <2>1, SaveRawKeeps
  <2> QED
    BY <1>1, <1>12, <2>2, FailStep
<1> QED
  BY <1>7, <1>10, <1>11, <1>12

\* The detail of an order, which is then reported without amounts or with them.
FetchesOne(p, silent) ==
  /\ Waiting(p) /\ proc[p].step = "details"
  /\ LET page == <<Report(Head(proc[p].todo), silent)>>
     IN /\ db' = SaveRaw(db, proc[p].run, proc[p].step, TRUE, page)
        /\ proc' = [proc EXCEPT ![p].pages = <<page>>, ![p].stage = "orders"]
  /\ UNCHANGED <<broker, status, explained, replica, changes>>

LEMMA DetailStep ==
  ASSUME FoundationInv, NEW p \in Procs, FetchDetail(p)
  PROVE  FoundationInv'
<1> PICK silent \in Silences : FetchesOne(p, silent)
  BY DEF FetchDetail, FetchesOne
<1> DEFINE x == proc[p]
           page == <<Report(Head(x.todo), silent)>>
           y == [x EXCEPT !.pages = <<page>>, !.stage = "orders"]
<1>0. PICK ok : db' = SaveRaw(db, x.run, x.step, ok, page)
  BY Zenon DEF FetchesOne
<1>1. /\ x.step = "details" /\ Waiting(p)
      /\ proc' = [proc EXCEPT ![p] = y] /\ broker' = broker /\ status' = status
  BY DEF FetchesOne
<1>2. ProcOk(x) /\ x.stage = "request" /\ x.todo # <<>> /\ BrokerOk
  BY <1>1, ActiveFacts DEF FoundationInv
<1>3. Report(Head(x.todo), silent) \in AnyReport
  <2>1. x.todo \in Seq(Orders)
    BY <1>1, <1>2 DEF ProcOk
  <2>2. Head(x.todo) \in Orders
    BY <1>2, <2>1
  <2> QED
    BY <1>2, <2>2, ReportType
<1>4. page \in Seq(AnyReport) /\ DOMAIN page = {1} /\ page[1] \in AnyReport
  BY <1>3
<1>5. /\ DOMAIN y = DOMAIN x /\ y.step = x.step /\ y.run = x.run /\ y.stage = "orders"
      /\ y.todo = x.todo /\ y.listed = x.listed /\ y.pages = <<page>>
      /\ y.stored = x.stored
  <2> HIDE DEF page
  <2> QED
    BY <1>2 DEF ProcOk
<1> HIDE DEF x, y, page
<1>6. /\ <<page>> \in Seq(Seq(AnyReport)) /\ <<page>> # <<>> /\ DOMAIN <<page>> = {1}
      /\ <<page>>[1] = page
  BY <1>4
<1>7. ProcOk(y)
  BY <1>1, <1>2, <1>5, <1>6 DEF ProcOk, OrderSteps
<1>8. \A j \in DOMAIN page : page[j].counted => page[j].order \in InHand(y)
  <2>1. page[1].order \in Orders
    BY <1>4 DEF AnyReport
  <2>2. y.stored = 0
    BY <1>2, <1>5 DEF ProcOk
  <2>3. page[1].counted => Unstored(y, 1, 1)
    BY <1>4, <1>5, <1>6, <2>2 DEF Unstored
  <2> QED
    BY <1>4, <1>5, <1>6, <2>1, <2>3 DEF InHand
<1>9. InHand(x) = {}
  <2>1. x.pages = <<>>
    BY <1>1, <1>2 DEF ProcOk
  <2> QED
    BY <2>1 DEF InHand, Unstored
<1> QED
  BY <1>0, <1>1, <1>4, <1>5, <1>7, <1>8, <1>9, FetchedStep DEF x

\* A step that leaves executions, blocks and responses alone, after which the process is y.
LEMMA QuietStep ==
  ASSUME FoundationInv, NEW p \in Procs, proc[p].step # "idle",
         DOMAIN db' = DOMAIN db, db'.raw = db.raw, db'.snaps = db.snaps,
         db'.deltas = db.deltas, db'.blocks = db.blocks,
         NEW y, ProcOk(y), y.step # "idle", y.run = proc[p].run, PrevOk(db', y),
         \A o \in InHand(proc[p]) : o \in InHand(y),
         proc' = [proc EXCEPT ![p] = y], broker' = broker, status' = status
  PROVE  FoundationInv'
<1> DEFINE x == proc[p]
<1>1. /\ ChainsHold(db) /\ RawOk(db) /\ x.run \in Runs /\ x.step # "idle"
      /\ Filed(db, x.run, InHand(x))
  BY ActiveFacts
<1> HIDE DEF x
<1>2. /\ ChainsHold(db') /\ RawOk(db') /\ Keeps(db, db')
  BY <1>1, QuietKeeps
<1>3. Filed(db', x.run, InHand(y))
  BY <1>1, <1>2, FiledOn DEF x
<1>4. \A q \in Runs \ {x.run} : db'.raw[q] = db.raw[q]
  OBVIOUS
<1> QED
  BY <1>1, <1>2, <1>3, <1>4, ActiveStep DEF x

LEMMA StoreOrdersStep ==
  ASSUME FoundationInv, NEW p \in Procs, StoreOrders(p)
  PROVE  FoundationInv'
<1> DEFINE x == proc[p]
           y == [x EXCEPT !.stage = "previous"]
           z == PageDone(p)
<1>1. /\ x.stage = "orders" /\ db' = IngestOrders(db, x.run, Head(x.pages))
      /\ proc' = [proc EXCEPT ![p] = IF Head(x.pages) = <<>> THEN z ELSE y]
      /\ broker' = broker /\ status' = status
  BY DEF StoreOrders
<1>2. ProcOk(x) /\ Tables(db)
  BY ActiveFacts
<1>3. x.step # "idle"
  BY <1>1, <1>2 DEF ProcOk, OrderSteps
<1>4. /\ DOMAIN db' = DOMAIN db /\ db'.raw = db.raw /\ db'.snaps = db.snaps
      /\ db'.deltas = db.deltas /\ db'.blocks = db.blocks
  BY <1>1, <1>2 DEF IngestOrders, Tables
<1>5. CASE Head(x.pages) = <<>>
  <2>1. /\ ProcOk(z) /\ z.step # "idle" /\ z.run = x.run /\ \A d : PrevOk(d, z)
        /\ \A o \in InHand(x) : o \in InHand(z) \/ LeftOn(x, Head(x.pages), o)
    BY <1>1, <1>2, PageDoneOk
  <2>2. DOMAIN Head(x.pages) = {}
    BY <1>5
  <2> HIDE DEF x, y, z
  <2>3. proc' = [proc EXCEPT ![p] = z]
    BY <1>1, <1>5
  <2>4. \A o \in InHand(x) : o \in InHand(z)
    BY <2>1, <2>2 DEF LeftOn
  <2> QED
    BY <1>1, <1>3, <1>4, <2>1, <2>3, <2>4, QuietStep DEF x
<1>6. CASE Head(x.pages) # <<>>
  <2>1. /\ DOMAIN y = DOMAIN x /\ y.step = x.step /\ y.run = x.run /\ y.stage = "previous"
        /\ y.todo = x.todo /\ y.pages = x.pages /\ y.listed = x.listed /\ y.stored = x.stored
    BY <1>2 DEF ProcOk
  <2> HIDE DEF x, y, z
  <2>4. x.stored \in 0 .. (Len(Head(x.pages)) - 1)
    <3>1. Head(x.pages) \in Seq(AnyReport)
      BY <1>1, <1>2 DEF ProcOk
    <3>2. Len(Head(x.pages)) \in Nat \ {0}
      BY <1>6, <3>1
    <3> QED
      BY <1>1, <1>2, <3>2 DEF ProcOk
  <2>2. ProcOk(y) /\ PrevOk(db', y) /\ InHand(y) = InHand(x)
    BY <1>1, <1>2, <2>1, <2>4 DEF ProcOk, PrevOk, InHand, Unstored
  <2>3. proc' = [proc EXCEPT ![p] = y]
    BY <1>1, <1>6
  <2> QED
    BY <1>1, <1>3, <1>4, <2>1, <2>2, <2>3, QuietStep DEF x
<1> QED
  BY <1>5, <1>6

\* The part of a list after its first k elements, and its first k elements.
LEMMA PartIs ==
  ASSUME NEW S, NEW s \in Seq(S), NEW k \in Nat, k < Len(s),
         NEW t, t = SubSeq(s, k + 1, Len(s))
  PROVE  /\ t \in Seq(S) /\ Len(t) = Len(s) - k
         /\ \A i \in 1 .. Len(t) : t[i] = s[k + i]
<1>1. /\ Len(s) \in Nat /\ k + 1 \in Int /\ k + 1 <= Len(s)
      /\ \A i \in (k + 1) .. Len(s) : s[i] \in S
  OBVIOUS
<1>2. /\ t \in Seq(S)
      /\ Len(t) = IF k + 1 <= Len(s) THEN Len(s) - (k + 1) + 1 ELSE 0
      /\ \A i \in 1 .. (Len(s) - (k + 1) + 1) : t[i] = s[(k + 1) + i - 1]
  BY <1>1, SubSeqProperties
<1>3. Len(t) = Len(s) - k
  BY <1>1, <1>2
<1>4. \A i \in 1 .. Len(t) : t[i] = s[(k + 1) + i - 1] /\ (k + 1) + i - 1 = k + i
  BY <1>1, <1>2, <1>3
<1> QED
  BY <1>2, <1>3, <1>4

LEMMA StartIs ==
  ASSUME NEW S, NEW s \in Seq(S), NEW k \in Nat, k <= Len(s), NEW t, t = SubSeq(s, 1, k)
  PROVE  /\ t \in Seq(S) /\ Len(t) = k
         /\ \A i \in 1 .. Len(t) : t[i] = s[i]
<1>1. Len(s) \in Nat /\ \A i \in 1 .. k : s[i] \in S
  OBVIOUS
<1>2. /\ t \in Seq(S)
      /\ Len(t) = IF 1 <= k THEN k - 1 + 1 ELSE 0
      /\ \A i \in 1 .. (k - 1 + 1) : t[i] = s[1 + i - 1]
  BY <1>1, SubSeqProperties
<1>3. Len(t) = k
  BY <1>2
<1>4. \A i \in 1 .. Len(t) : t[i] = s[1 + i - 1] /\ 1 + i - 1 = i
  BY <1>2, <1>3
<1> QED
  BY <1>2, <1>3, <1>4

\* The reports of the page in hand that are not stored yet.
LeftOf(x) == SubSeq(Head(x.pages), x.stored + 1, Len(Head(x.pages)))

LEMMA LeftIs ==
  ASSUME NEW x, ProcOk(x), x.stage \in {"previous", "write"}
  PROVE  LET page == Head(x.pages)
             left == LeftOf(x)
         IN  /\ page \in Seq(AnyReport) /\ Len(page) \in Nat /\ DOMAIN page = 1 .. Len(page)
             /\ x.stored \in Nat /\ x.stored < Len(page)
             /\ left \in Seq(AnyReport) /\ Len(left) = Len(page) - x.stored
             /\ \A i \in 1 .. Len(left) : left[i] = page[x.stored + i]
             /\ NextReport(x) = left[1] /\ NextReport(x).order \in Orders
<1> DEFINE page == Head(x.pages)
           left == LeftOf(x)
<1>1. x.pages \in Seq(Seq(AnyReport)) /\ x.pages # <<>> /\ x.stored \in 0 .. (Len(page) - 1)
  BY DEF ProcOk
<1>2. page \in Seq(AnyReport)
  BY <1>1
<1>3. left = SubSeq(page, x.stored + 1, Len(page)) /\ NextReport(x) = page[x.stored + 1]
  BY DEF LeftOf, NextReport
<1> HIDE DEF page, left
<1>4. /\ Len(page) \in Nat /\ DOMAIN page = 1 .. Len(page)
      /\ x.stored \in Nat /\ x.stored < Len(page)
      /\ \A i \in 1 .. Len(page) : page[i] \in AnyReport
  BY <1>1, <1>2
<1>5. /\ left \in Seq(AnyReport) /\ Len(left) = Len(page) - x.stored
      /\ \A i \in 1 .. Len(left) : left[i] = page[x.stored + i]
  BY <1>2, <1>3, <1>4, PartIs
<1>6. 1 \in 1 .. Len(left) /\ x.stored + 1 \in 1 .. Len(page)
  BY <1>4, <1>5
<1>7. NextReport(x) = left[1] /\ NextReport(x).order \in Orders
  BY <1>3, <1>4, <1>5, <1>6 DEF AnyReport
<1> QED
  BY <1>2, <1>4, <1>5, <1>7 DEF page, left

\* The reports of the next transaction.
ChunkOf(x, n) == SubSeq(LeftOf(x), 1, n)

LEMMA ChunkIs ==
  ASSUME NEW x, ProcOk(x), x.stage \in {"previous", "write"}, NEW n \in 1 .. Len(LeftOf(x))
  PROVE  LET page == Head(x.pages)
             chunk == ChunkOf(x, n)
         IN  /\ chunk \in Seq(AnyReport) /\ IsList(chunk) /\ Len(chunk) = n /\ Len(chunk) # 0
             /\ DOMAIN chunk = 1 .. n
             /\ \A i \in 1 .. n : chunk[i] = page[x.stored + i] /\ ReportOk(chunk[i])
             /\ NextReport(x) = chunk[1] /\ n \in Nat /\ x.stored + n <= Len(page)
<1> DEFINE page == Head(x.pages)
           left == LeftOf(x)
           chunk == ChunkOf(x, n)
<1>1. /\ page \in Seq(AnyReport) /\ Len(page) \in Nat
      /\ x.stored \in Nat /\ x.stored < Len(page)
      /\ left \in Seq(AnyReport) /\ Len(left) = Len(page) - x.stored
      /\ \A i \in 1 .. Len(left) : left[i] = page[x.stored + i]
      /\ NextReport(x) = left[1]
  BY LeftIs
<1>2. chunk = SubSeq(left, 1, n) /\ n \in 1 .. Len(left)
  BY DEF ChunkOf
<1> HIDE DEF page, left, chunk
<1>3. Len(left) \in Nat /\ n \in Nat /\ 0 <= n /\ n <= Len(left) /\ n # 0
  BY <1>1, <1>2
<1>4. /\ chunk \in Seq(AnyReport) /\ Len(chunk) = n
      /\ \A i \in 1 .. Len(chunk) : chunk[i] = left[i]
  BY <1>1, <1>2, <1>3, StartIs
<1>5. /\ IsList(chunk) /\ DOMAIN chunk = 1 .. n
      /\ \A i \in 1 .. n : chunk[i] \in AnyReport
  BY <1>4 DEF IsList
<1>6. \A i \in 1 .. n : chunk[i] = page[x.stored + i] /\ ReportOk(chunk[i])
  <2>1. \A i \in 1 .. n : i \in 1 .. Len(left) /\ i \in 1 .. Len(chunk)
    BY <1>3, <1>4
  <2>2. \A i \in 1 .. n : chunk[i] = page[x.stored + i]
    BY <1>1, <1>4, <2>1
  <2> QED
    BY <1>5, <2>2, AnyReportOk
<1>7. 1 \in 1 .. n /\ x.stored + n <= Len(page)
  BY <1>1, <1>3
<1> QED
  BY <1>1, <1>3, <1>4, <1>5, <1>6, <1>7 DEF page, left, chunk

LEMMA ReadPreviousStep ==
  ASSUME FoundationInv, NEW p \in Procs, ReadPrevious(p)
  PROVE  FoundationInv'
<1> DEFINE x == proc[p]
           o == NextReport(x).order
           y == [x EXCEPT !.prev = Previous(db, o), !.stage = "write"]
<1>1. /\ x.stage = "previous" /\ db' = db /\ proc' = [proc EXCEPT ![p] = y]
      /\ broker' = broker /\ status' = status
  BY DEF ReadPrevious
<1>2. ProcOk(x) /\ ChainsHold(db)
  BY ActiveFacts
<1>3. x.step # "idle"
  BY <1>1, <1>2 DEF ProcOk, OrderSteps
<1>4. o \in Orders
  BY <1>1, <1>2, LeftIs
<1>5. Previous(db, o) = NoSnapshot \/ \E i \in Chain(db, o) : Previous(db, o) = db.snaps[i]
  <2> HIDE DEF o
  <2> QED
    BY <1>2, <1>4, LastHasNoNext
<1>6. /\ DOMAIN y = DOMAIN x /\ y.step = x.step /\ y.run = x.run /\ y.stage = "write"
      /\ y.todo = x.todo /\ y.pages = x.pages /\ y.listed = x.listed /\ y.prev = Previous(db, o)
      /\ y.stored = x.stored
  BY <1>2 DEF ProcOk
<1> HIDE DEF x, y
<1>7. ProcOk(y) /\ PrevOk(db', y) /\ InHand(y) = InHand(x)
  BY <1>1, <1>2, <1>5, <1>6 DEF ProcOk, PrevOk, InHand, Unstored, NextReport
<1> QED
  BY <1>1, <1>3, <1>6, <1>7, QuietStep DEF x

\* The process after a transaction of n reports.
AfterChunk(p, n) ==
  IF n = Len(LeftOf(proc[p])) THEN PageDone(p)
  ELSE [proc[p] EXCEPT !.stored = @ + n, !.stage = "previous"]

LEMMA StoresChunk ==
  ASSUME NEW p \in Procs, StoreExecutions(p), ProcOk(proc[p])
  PROVE  /\ proc[p].stage = "write"
         /\ \/ FailRun(p) /\ UNCHANGED <<db, token, faults>>
            \/ /\ ~Collides(db, proc[p].run, proc[p].prev, NextReport(proc[p]))
               /\ \E n \in 1 .. Len(LeftOf(proc[p])) :
                    /\ db' = IngestExecutions(db, proc[p].run, proc[p].prev, ChunkOf(proc[p], n))
                    /\ proc' = [proc EXCEPT ![p] = AfterChunk(p, n)]
               /\ UNCHANGED <<broker, status, token, explained, replica, changes, faults>>
<1> DEFINE x == proc[p]
           left == LeftOf(x)
           n == Transaction(db, x.run, x.prev, left)
<1>1. /\ x.stage = "write"
      /\ \/ FailRun(p) /\ UNCHANGED <<db, token, faults>>
         \/ /\ ~Collides(db, x.run, x.prev, left[1])
            /\ db' = IngestExecutions(db, x.run, x.prev, SubSeq(left, 1, n))
            /\ proc' = [proc EXCEPT ![p] = IF n = Len(left) THEN PageDone(p)
                          ELSE [x EXCEPT !.stored = @ + n, !.stage = "previous"]]
            /\ UNCHANGED <<broker, status, token, explained, replica, changes, faults>>
  BY DEF StoreExecutions, LeftOf
<1>2. /\ left \in Seq(AnyReport) /\ Len(left) = Len(Head(x.pages)) - x.stored
      /\ Len(Head(x.pages)) \in Nat /\ x.stored \in Nat /\ x.stored < Len(Head(x.pages))
      /\ NextReport(x) = left[1]
  BY <1>1, LeftIs
<1> HIDE DEF left
<1>3. Len(left) \in Nat \ {0}
  BY <1>2
<1>4. n \in 1 .. Len(left)
  BY <1>3, TransactionIs
<1> HIDE DEF n, x
<1>5. CASE FailRun(p) /\ UNCHANGED <<db, token, faults>>
  BY <1>1, <1>5 DEF x
<1>6. CASE /\ ~Collides(db, x.run, x.prev, left[1])
           /\ db' = IngestExecutions(db, x.run, x.prev, SubSeq(left, 1, n))
           /\ proc' = [proc EXCEPT ![p] = IF n = Len(left) THEN PageDone(p)
                          ELSE [x EXCEPT !.stored = @ + n, !.stage = "previous"]]
           /\ UNCHANGED <<broker, status, token, explained, replica, changes, faults>>
  <2>1. db' = IngestExecutions(db, x.run, x.prev, ChunkOf(x, n))
    BY <1>6 DEF ChunkOf, left
  <2>2. proc' = [proc EXCEPT ![p] = AfterChunk(p, n)]
    BY <1>6 DEF AfterChunk, left, x
  <2> QED
    BY <1>1, <1>2, <1>4, <1>6, <2>1, <2>2 DEF x, left
<1> QED
  BY <1>1, <1>5, <1>6

\* After a transaction the process has in hand what was not in it.
LEMMA AfterChunkOk ==
  ASSUME NEW p, ProcOk(proc[p]), proc[p].stage = "write",
         NEW n \in 1 .. Len(LeftOf(proc[p]))
  PROVE  LET x == proc[p]
             y == AfterChunk(p, n)
         IN  /\ ProcOk(y) /\ y.step # "idle" /\ y.run = x.run
             /\ \A d : PrevOk(d, y)
             /\ \A o \in InHand(x) : \/ o \in InHand(y)
                                     \/ \E i \in 1 .. n : /\ ChunkOf(x, n)[i].counted
                                                          /\ ChunkOf(x, n)[i].order = o
<1> DEFINE x == proc[p]
           page == Head(x.pages)
           left == LeftOf(x)
           chunk == ChunkOf(x, n)
           y == AfterChunk(p, n)
<1>1. /\ page \in Seq(AnyReport) /\ Len(page) \in Nat /\ DOMAIN page = 1 .. Len(page)
      /\ x.stored \in Nat /\ x.stored < Len(page)
      /\ Len(left) = Len(page) - x.stored
  BY LeftIs
<1>2. /\ n \in Nat /\ n # 0 /\ x.stored + n <= Len(page)
      /\ \A i \in 1 .. n : chunk[i] = page[x.stored + i]
  BY ChunkIs
<1>3. ASSUME NEW o, NEW j \in DOMAIN page, j > x.stored, j <= x.stored + n,
             page[j].counted, page[j].order = o
      PROVE  \E i \in 1 .. n : chunk[i].counted /\ chunk[i].order = o
  <2> DEFINE k == x.stored
  <2>2. k \in Nat /\ j \in Nat /\ n \in Nat /\ j > k /\ j <= k + n
    BY <1>1, <1>2, <1>3
  <2> HIDE DEF k
  <2>3. j - k \in 1 .. n /\ k + (j - k) = j
    BY <2>2
  <2>1. j - x.stored \in 1 .. n /\ x.stored + (j - x.stored) = j
    BY <2>3 DEF k
  <2> QED
    BY <1>2, <1>3, <2>1
<1>4. CASE n = Len(left)
  <2>1. y = PageDone(p) /\ x.stored + n = Len(page)
    BY <1>1, <1>2, <1>4 DEF AfterChunk
  <2>2. /\ ProcOk(PageDone(p)) /\ PageDone(p).step # "idle" /\ PageDone(p).run = x.run
        /\ \A d : PrevOk(d, PageDone(p))
        /\ \A o \in InHand(x) : o \in InHand(PageDone(p)) \/ LeftOn(x, page, o)
    BY PageDoneOk
  <2> HIDE DEF x, y, page, chunk
  <2>3. \A o : LeftOn(x, page, o) => \E i \in 1 .. n : chunk[i].counted /\ chunk[i].order = o
    BY <1>1, <1>3, <2>1 DEF LeftOn
  <2> QED
    BY <2>1, <2>2, <2>3 DEF x, y, page, chunk
<1>5. CASE n # Len(left)
  <2>1. y = [x EXCEPT !.stored = @ + n, !.stage = "previous"]
    BY <1>5 DEF AfterChunk
  <2>2. /\ DOMAIN y = DOMAIN x /\ y.step = x.step /\ y.run = x.run /\ y.stage = "previous"
        /\ y.todo = x.todo /\ y.pages = x.pages /\ y.listed = x.listed
        /\ y.stored = x.stored + n
    BY <2>1 DEF ProcOk
  <2>3. x.stored + n \in 0 .. (Len(page) - 1)
    BY <1>1, <1>2, <1>5
  <2>7. ProcOk(x) /\ x.stage = "write" /\ page = Head(x.pages)
    OBVIOUS
  <2> HIDE DEF x, y, page, chunk
  <2>4. ProcOk(y) /\ y.step # "idle" /\ \A d : PrevOk(d, y)
    BY <2>2, <2>3, <2>7 DEF ProcOk, PrevOk, OrderSteps
  <2>8. page = x.pages[1]
    BY <2>7 DEF ProcOk
  <2>5. ASSUME NEW o \in InHand(x)
        PROVE  o \in InHand(y) \/ \E i \in 1 .. n : chunk[i].counted /\ chunk[i].order = o
    <3>1. PICK i, j : Unstored(x, i, j) /\ x.pages[i][j].order = o /\ o \in Orders
      BY DEF InHand
    <3>2. CASE i = 1 /\ j <= x.stored + n
      BY <1>3, <2>8, <3>1, <3>2 DEF Unstored
    <3>3. CASE i = 1 => ~(j <= x.stored + n)
      <4>1. i = 1 => j \in Nat
        BY <1>1, <2>8, <3>1 DEF Unstored
      <4>2. i = 1 => j > x.stored + n
        BY <1>1, <1>2, <3>3, <4>1
      <4>3. Unstored(y, i, j)
        BY <2>2, <3>1, <4>2 DEF Unstored
      <4> QED
        BY <2>2, <3>1, <4>3 DEF InHand
    <3> QED
      BY <3>2, <3>3
  <2> QED
    BY <2>2, <2>4, <2>5 DEF x, y, chunk
<1> QED
  BY <1>4, <1>5

LEMMA StoreExecutionsStep ==
  ASSUME FoundationInv, NEW p \in Procs, StoreExecutions(p)
  PROVE  FoundationInv'
<1> DEFINE x == proc[p]
<1>2. /\ ProcOk(x) /\ PrevOk(db, x) /\ ChainsHold(db) /\ Tables(db) /\ RawOk(db)
  BY ActiveFacts
<1>1. /\ x.stage = "write"
      /\ \/ FailRun(p) /\ db' = db
         \/ /\ ~Collides(db, x.run, x.prev, NextReport(x))
            /\ \E n \in 1 .. Len(LeftOf(x)) :
                 /\ db' = IngestExecutions(db, x.run, x.prev, ChunkOf(x, n))
                 /\ proc' = [proc EXCEPT ![p] = AfterChunk(p, n)]
            /\ broker' = broker /\ status' = status
  BY <1>2, StoresChunk
<1>3. x.step # "idle"
  BY <1>1, <1>2 DEF ProcOk, OrderSteps
<1>4. x.run \in Runs /\ Filed(db, x.run, InHand(x))
  BY <1>3, ActiveFacts
<1>5. CASE FailRun(p) /\ db' = db
  <2>1. Keeps(db, db')
    BY <1>5 DEF Keeps
  <2> QED
    BY <1>2, <1>3, <1>5, <2>1, FailStep
<1>6. ASSUME ~Collides(db, x.run, x.prev, NextReport(x)), NEW n \in 1 .. Len(LeftOf(x)),
             db' = IngestExecutions(db, x.run, x.prev, ChunkOf(x, n)),
             proc' = [proc EXCEPT ![p] = AfterChunk(p, n)], broker' = broker, status' = status
      PROVE  FoundationInv'
  <2> DEFINE chunk == ChunkOf(x, n)
             y == AfterChunk(p, n)
  <2>1. /\ IsList(chunk) /\ Len(chunk) # 0 /\ NextReport(x) = chunk[1]
        /\ DOMAIN chunk = 1 .. n /\ \A i \in DOMAIN chunk : ReportOk(chunk[i])
    BY <1>1, <1>2, ChunkIs
  <2>2. /\ ProcOk(y) /\ y.step # "idle" /\ y.run = x.run /\ (\A d : PrevOk(d, y))
        /\ \A o \in InHand(x) :
             o \in InHand(y) \/ \E i \in 1 .. n : chunk[i].counted /\ chunk[i].order = o
    BY <1>1, <1>2, AfterChunkOk
  <2>3. x.prev = NoSnapshot \/ \E i \in Chain(db, chunk[1].order) : x.prev = db.snaps[i]
    BY <1>1, <1>2, <2>1 DEF PrevOk
  <2> HIDE DEF x, y, chunk
  <2>4. /\ ChainsHold(db') /\ Grew(db, db')
        /\ \A i \in DOMAIN chunk : chunk[i].counted => KeptIn(db', x.run, chunk[i].order)
    BY <1>2, <1>6, <2>1, <2>3, PageKeeps DEF chunk
  <2>5. Keeps(db, db') /\ db'.raw = db.raw
    BY <2>4, GrewKeeps DEF Grew
  <2>6. RawOk(db')
    BY <1>2, <2>5 DEF RawOk
  <2>7. \A o \in InHand(x) : o \in InHand(y) \/ KeptIn(db', x.run, o)
    BY <2>1, <2>2, <2>4
  <2>8. Filed(db', x.run, InHand(y))
    BY <1>4, <2>5, <2>7, FiledOn
  <2> QED
    BY <1>3, <1>6, <2>2, <2>4, <2>5, <2>6, <2>8, ActiveStep DEF x, y
<1> QED
  BY <1>1, <1>5, <1>6

LEMMA PostStep ==
  ASSUME FoundationInv, NEW p \in Procs, PostAllCash(p)
  PROVE  FoundationInv'
<1> DEFINE x == proc[p]
           y == [x EXCEPT !.step = "finish"]
<1>1. /\ x.step = "post" /\ proc' = [proc EXCEPT ![p] = y]
      /\ broker' = broker /\ status' = status
  BY DEF PostAllCash
<1>2. ProcOk(x) /\ Tables(db)
  BY ActiveFacts
<1>3. \E events : db' = [db EXCEPT !.cash = events]
  BY DEF PostAllCash, PostCash
<1>4. /\ DOMAIN db' = DOMAIN db /\ db'.raw = db.raw /\ db'.snaps = db.snaps
      /\ db'.deltas = db.deltas /\ db'.blocks = db.blocks
  BY <1>2, <1>3 DEF Tables
<1>5. /\ DOMAIN y = DOMAIN x /\ y.step = "finish" /\ y.run = x.run /\ y.stage = x.stage
      /\ y.todo = x.todo /\ y.pages = x.pages /\ y.listed = x.listed /\ y.stored = x.stored
  BY <1>2 DEF ProcOk
<1> HIDE DEF x, y
<1>6. ProcOk(y) /\ PrevOk(db', y) /\ InHand(y) = InHand(x)
  BY <1>1, <1>2, <1>5 DEF ProcOk, PrevOk, InHand, Unstored, OrderSteps
<1> QED
  BY <1>1, <1>4, <1>5, <1>6, QuietStep DEF x

LEMMA FinishStep ==
  ASSUME FoundationInv, NEW p \in Procs, Finish(p)
  PROVE  FoundationInv'
<1> DEFINE x == proc[p]
<1>1. /\ x.step = "finish" /\ proc' = [proc EXCEPT ![p] = Idle] /\ broker' = broker /\ db' = db
      /\ status' = [status EXCEPT ![x.run] = "COMPLETE"]
  BY DEF Finish
<1>2. /\ ProcOk(x) /\ ChainsHold(db) /\ RawOk(db) /\ Filed(db, x.run, InHand(x)) /\ x.step # "idle"
  BY <1>1, ActiveFacts
<1>3. InHand(x) = {}
  <2>1. x.pages = <<>>
    BY <1>1, <1>2 DEF ProcOk, OrderSteps
  <2> QED
    BY <2>1 DEF InHand, Unstored
<1> HIDE DEF x
<1>4. Filed(db', x.run, {}) /\ Keeps(db, db')
  BY <1>1, <1>2, <1>3 DEF Keeps
<1> QED
  BY <1>1, <1>2, <1>4, IdleOk, ActiveStep DEF x

LEMMA CrashStep ==
  ASSUME FoundationInv, NEW p \in Procs, Crash(p)
  PROVE  FoundationInv'
<1>1. /\ proc[p].step # "idle" /\ proc' = [proc EXCEPT ![p] = Idle] /\ broker' = broker
      /\ db' = db /\ status' = status
  BY DEF Crash
<1>2. ChainsHold(db) /\ RawOk(db)
  BY ActiveFacts
<1>3. Keeps(db, db')
  BY <1>1 DEF Keeps
<1> QED
  BY <1>1, <1>2, <1>3, IdleOk, ActiveStep

LEMMA ResolveStep ==
  ASSUME FoundationInv, NEW i \in DOMAIN db.blocks, Resolve(i)
  PROVE  FoundationInv'
<1> DEFINE blocks == [db.blocks EXCEPT ![i].resolved = TRUE]
<1>1. ChainsHold(db) /\ RawOk(db) /\ Tables(db)
  BY DEF FoundationInv, ChainsHold
<1>2. db' = [db EXCEPT !.blocks = blocks]
  BY <1>1 DEF Resolve, ResolveBlock, Tables
<1>3. /\ broker' = broker /\ status' = status /\ proc' = proc
  BY DEF Resolve
<1>4. /\ DOMAIN db' = DOMAIN db /\ db'.raw = db.raw /\ db'.snaps = db.snaps
      /\ db'.rows = db.rows /\ db'.orders = db.orders
      /\ db'.deltas = db.deltas /\ db'.blocks = blocks
  BY <1>1, <1>2 DEF Tables
<1>5. /\ \A j \in DOMAIN db.blocks : /\ j \in DOMAIN blocks
                                     /\ blocks[j].order = db.blocks[j].order
                                     /\ DOMAIN blocks[j] = {"order", "resolved"}
      /\ DOMAIN blocks = DOMAIN db.blocks
  BY <1>1 DEF Tables
<1>6. IsList(blocks)
  <2>1. PICK S : db.blocks \in Seq(S)
    BY <1>1 DEF Tables, IsList
  <2> DEFINE b == [db.blocks[i] EXCEPT !.resolved = TRUE]
             T == S \cup {b}
  <2>2. db.blocks \in Seq(T) /\ b \in T /\ i \in 1 .. Len(db.blocks)
    BY <2>1
  <2>3. blocks = [db.blocks EXCEPT ![i] = b]
    OBVIOUS
  <2> HIDE DEF b, T, blocks
  <2>4. blocks \in Seq(T)
    BY <2>2, <2>3, ExceptSeq
  <2> QED
    BY <2>4 DEF IsList
<1> HIDE DEF blocks
<1>7. Tables(db') /\ Keeps(db, db') /\ RawOk(db')
  BY <1>1, <1>4, <1>5, <1>6 DEF Tables, Keeps, RawOk
<1>8. ChainsHold(db')
  BY <1>1, <1>4, <1>7, SameLog
<1>9. \A r \in Runs : \A P : Filed(db, r, P) => Filed(db', r, P)
  BY <1>4, <1>7, FiledOn
<1>10. ASSUME NEW p \in Procs
       PROVE  ProcOk(proc[p]) /\ PrevOk(db', proc[p]) /\ RunOk(db', status, proc[p])
  <2>1. ProcOk(proc[p]) /\ PrevOk(db, proc[p]) /\ RunOk(db, status, proc[p])
    BY DEF FoundationInv
  <2> QED
    BY <1>7, <1>9, <2>1, PrevOn DEF RunOk
<1>11. BrokerOk'
  BY <1>3 DEF FoundationInv, BrokerOk
<1> QED
  BY <1>3, <1>4, <1>7, <1>8, <1>9, <1>10, <1>11 DEF FoundationInv

\* The processes, the broker and the operators keep the invariant.
LEMMA ProcStep ==
  ASSUME FoundationInv, NEW p \in Procs, ProcNext(p)
  PROVE  FoundationInv'
<1>1. CASE Begin(p)
  BY <1>1, BeginStep
<1>2. CASE RefreshToken(p)
  <2>1. proc[p].step # "idle"
    BY <1>2, ActiveFacts DEF RefreshToken
  <2>2. PICK ok : db' = SaveRaw(db, proc[p].run, "token", ok, <<>>)
    BY <1>2, Zenon DEF RefreshToken
  <2>3. broker' = broker /\ status' = status /\ proc' = proc /\ "token" \notin OrderSteps
    BY <1>2 DEF RefreshToken, OrderSteps
  <2> QED
    BY <2>1, <2>2, <2>3, SavedStep
<1>16. CASE TokenRefused(p)
  <2>1. PICK ok : db' = db \/ db' = SaveRaw(db, proc[p].run, "token", ok, <<>>)
    BY <1>16, Zenon DEF TokenRefused
  <2>2. Waiting(p) /\ FailRun(p)
    BY <1>16 DEF TokenRefused
  <2> QED
    BY <2>1, <2>2, RefuseStep
<1>17. CASE AnswerAccounts(p)
  BY <1>17, AccountsStep
<1>3. CASE TokenExpires(p)
  BY <1>3, SameStep DEF TokenExpires
<1>4. CASE RetryLater(p)
  BY <1>4, RetryStep
<1>5. CASE Refuse(p)
  <2>1. PICK ok : db' = SaveRaw(db, proc[p].run, proc[p].step, ok, <<>>)
    BY <1>5, Zenon DEF Refuse
  <2>2. Waiting(p) /\ FailRun(p)
    BY <1>5 DEF Refuse
  <2> QED
    BY <2>1, <2>2, RefuseStep
<1>6. CASE Unusable(p)
  <2>1. PICK ok : db' = db \/ db' = SaveRaw(db, proc[p].run, proc[p].step, ok, <<>>)
    BY <1>6, Zenon DEF Unusable
  <2>2. Waiting(p) /\ FailRun(p)
    BY <1>6 DEF Unusable
  <2> QED
    BY <2>1, <2>2, RefuseStep
<1>7. CASE Answer(p)
  BY <1>7, AnswerStep
<1>8. CASE FetchPage(p)
  BY <1>8, PageStep
<1>9. CASE FetchDetail(p)
  BY <1>9, DetailStep
<1>10. CASE StoreOrders(p)
  BY <1>10, StoreOrdersStep
<1>11. CASE ReadPrevious(p)
  BY <1>11, ReadPreviousStep
<1>12. CASE StoreExecutions(p)
  BY <1>12, StoreExecutionsStep
<1>13. CASE PostAllCash(p)
  BY <1>13, PostStep
<1>14. CASE Finish(p)
  BY <1>14, FinishStep
<1>15. CASE Crash(p)
  BY <1>15, CrashStep
<1> QED
  BY <1>1, <1>2, <1>3, <1>4, <1>5, <1>6, <1>7, <1>8, <1>9, <1>10, <1>11, <1>12, <1>13,
     <1>14, <1>15, <1>16, <1>17 DEF ProcNext

LEMMA EmptyHolds ==
  ChainsHold(EmptyTables) /\ RawOk(EmptyTables) /\ \A r \in Runs : EmptyTables.raw[r] = <<>>
<1> DEFINE e == EmptyTables
<1>1. /\ DOMAIN e = {"raw", "rows", "orders", "snaps", "deltas", "cash", "blocks"}
      /\ e.snaps = <<>> /\ e.deltas = <<>> /\ e.blocks = <<>>
      /\ DOMAIN e.raw = Runs /\ \A r \in Runs : e.raw[r] = <<>>
  BY DEF EmptyTables
<1>2. IsList(<<>>) /\ DOMAIN <<>> = {}
  <2>1. <<>> \in Seq({})
    OBVIOUS
  <2> QED
    BY <2>1 DEF IsList
<1> HIDE DEF e
<1>3. Tables(e)
  BY <1>1, <1>2 DEF Tables
<1>4. ASSUME NEW o \in Orders PROVE Telescopes(e, o) /\ Ordered(e, o)
  <2>1. Chain(e, o) = {} /\ Steps(e, o) = {}
    BY <1>1, <1>2 DEF Chain, Steps
  <2>2. Previous(e, o).qty = 0 /\ Previous(e, o).fee = 0
    BY <2>1 DEF Previous, NoSnapshot
  <2>3. FilledOf(e, o) = 0 /\ FeesOf(e, o) = 0
    <3>1. FilledOf(e, o) = SumFunctionOnSet([i \in {} |-> e.deltas[i].qty], {})
          /\ FeesOf(e, o) = SumFunctionOnSet([i \in {} |-> e.deltas[i].fee], {})
      BY <2>1 DEF FilledOf, FeesOf
    <3> QED
      BY <3>1, SumEmpty
  <2>4. Links(e, o) /\ Ordered(e, o)
    BY <2>1 DEF Links, Ordered
  <2> QED
    BY <2>2, <2>3, <2>4, TelescopesIs
<1>5. RawOk(e)
  BY <1>1, <1>2 DEF RawOk
<1> QED
  BY <1>1, <1>3, <1>4, <1>5 DEF ChainsHold, e

LEMMA FoundationStarts ==
  ASSUME FoundationInit
  PROVE  FoundationInv
<1>1. /\ db = EmptyTables /\ status = [r \in Runs |-> "none"] /\ proc = [p \in Procs |-> Idle]
  BY DEF FoundationInit
<1>2. BrokerOk
  BY DEF FoundationInit, BrokerOk
<1>3. ChainsHold(db) /\ RawOk(db) /\ \A r \in Runs : db.raw[r] = <<>>
  BY <1>1, EmptyHolds
<1>4. \A p \in Procs : proc[p] = Idle
  BY <1>1
<1>5. \A p \in Procs : ProcOk(proc[p]) /\ PrevOk(db, proc[p]) /\ RunOk(db, status, proc[p])
  BY <1>4, IdleOk DEF RunOk
<1>6. DOMAIN status = Runs /\ \A r \in Runs : status[r] = "none"
  BY <1>1
<1>7. proc = [p \in Procs |-> proc[p]]
  BY <1>1
<1> QED
  BY <1>2, <1>3, <1>4, <1>5, <1>6, <1>7, IdleOk DEF FoundationInv

LEMMA FoundationNextInv ==
  ASSUME FoundationInv, [FoundationNext]_foundationVars
  PROVE  FoundationInv'
<1>1. CASE \E o \in Orders : PlaceOrder(o) \/ BrokerReports(o)
  BY <1>1, BrokerStep
<1>2. CASE \E p \in Procs : ProcNext(p)
  BY <1>2, ProcStep
<1>3. CASE \E i \in DOMAIN db.blocks : Resolve(i)
  BY <1>3, ResolveStep
<1>4. CASE \E r \in Runs : Replay(r)
  BY <1>4, SameStep DEF Replay
<1>5. CASE UNCHANGED foundationVars
  BY <1>5, SameStep DEF foundationVars
<1> QED
  BY <1>1, <1>2, <1>3, <1>4, <1>5 DEF FoundationNext

LEMMA FoundationInvReports ==
  ASSUME FoundationInv
  PROVE  ReportsAddUp
<1>1. ChainTelescopes
  BY DEF FoundationInv, ChainsHold, ChainTelescopes
<1>2. ReportsAreKept
  <2> SUFFICES ASSUME NEW r \in Complete, NEW report \in Reports(r), report.counted
               PROVE  KeptIn(db, r, report.order)
    BY DEF ReportsAreKept, KeptIn
  <2>1. r \in Runs /\ Filed(db, r, {})
    BY DEF Complete, FoundationInv
  <2>2. PICK i \in DOMAIN db.raw[r] :
          db.raw[r][i].endpoint \in OrderSteps /\ report \in ToSet(db.raw[r][i].body)
    BY DEF Reports, OrderSteps
  <2>3. PICK j \in DOMAIN db.raw[r][i].body : report = db.raw[r][i].body[j]
    BY <2>2 DEF ToSet
  <2> QED
    BY <2>1, <2>2, <2>3 DEF Filed
<1> QED
  BY <1>1, <1>2 DEF ReportsAddUp

\* What the broker reported about fills is on file once, for every interleaving of any
\* number of processes and of crashes: the deltas of an order add up to its last snapshot,
\* and a complete run has dropped no report that states amounts: it has a snapshot or a
\* block of the order.  (One without amounts is skipped.)  The row that
\* ingest_execution_snapshots read before its transaction is still the last one whenever
\* UNIQUE(order_id, snapshot_seq) lets its successor in.
THEOREM ReportsAlwaysAddUp == FoundationSpec => []ReportsAddUp
<1>1. FoundationInit => FoundationInv
  BY FoundationStarts
<1>2. FoundationInv /\ [FoundationNext]_foundationVars => FoundationInv'
  BY FoundationNextInv
<1>3. FoundationInv => ReportsAddUp
  BY FoundationInvReports
<1> QED
  BY <1>1, <1>2, <1>3, PTL DEF FoundationSpec

-----------------------------------------------------------------------------
(* The cash of the account ledger                                          *)

\* The events of a delta that are in the cash ledger.
EventsOf(d, i) == {[type |-> c.type, amount |-> c.amount] : c \in {x \in d.cash : x.delta = i}}

\* The deltas up to one of them are posted, and nothing else is.
CashOk(d) ==
  \E m \in 0 .. Len(d.deltas) :
     /\ \A c \in d.cash : c.delta \in 1 .. m
     /\ \A i \in 1 .. m : EventsOf(d, i) = Expected(d.deltas[i])

\* Every delta is of a run and has an order row of that run.
DeltasOk(d) ==
  \A i \in DOMAIN d.deltas : d.deltas[i].run \in Runs /\ OwnRows(d, d.deltas[i]) # {}

LedgerOk(d) == Tables(d) /\ IsList(d.orders) /\ CashOk(d) /\ DeltasOk(d)

NoGapOf(d, r) == \A i \in DOMAIN d.deltas : d.deltas[i].run = r => i \notin CashGaps(d)

\* The amounts of a delta are determined by it, one for each type.
LEMMA ExpectedIs ==
  ASSUME NEW delta, NEW e \in Expected(delta)
  PROVE  /\ e = [type |-> e.type, amount |-> e.amount]
         /\ \A f \in Expected(delta) : f.type = e.type => f = e
BY DEF Expected

Fresh(d) ==
  UNION {{[delta |-> i, type |-> e.type, amount |-> e.amount,
           settle |-> OrderOf(d, d.deltas[i]).settle] : e \in Expected(d.deltas[i])}
            : i \in DOMAIN d.deltas}

EventOf(d, i, e) ==
  [delta |-> i, type |-> e.type, amount |-> e.amount, settle |-> OrderOf(d, d.deltas[i]).settle]

LEMMA FreshIs ==
  ASSUME NEW d
  PROVE  \A f \in Fresh(d) :
           \E i \in DOMAIN d.deltas : \E e \in Expected(d.deltas[i]) : f = EventOf(d, i, e)
BY DEF Fresh, EventOf

LEMMA FreshHas ==
  ASSUME NEW d, NEW i \in DOMAIN d.deltas, NEW e \in Expected(d.deltas[i])
  PROVE  EventOf(d, i, e) \in Fresh(d)
BY DEF Fresh, EventOf

LEMMA EventIs ==
  ASSUME NEW d, NEW i, NEW e
  PROVE  LET f == EventOf(d, i, e)
         IN  /\ DOMAIN f = {"delta", "type", "amount", "settle"}
             /\ f.delta = i /\ f.type = e.type /\ f.amount = e.amount
             /\ f.settle = OrderOf(d, d.deltas[i]).settle
             /\ [f EXCEPT !.amount = f.amount] = f
BY DEF EventOf

\* Posting every delta leaves exactly the events of every delta.
LEMMA PostIs ==
  ASSUME NEW d, LedgerOk(d), NEW run
  PROVE  LET e == PostCash(d, run, TRUE)
         IN  /\ DOMAIN e = DOMAIN d /\ e.raw = d.raw /\ e.rows = d.rows /\ e.orders = d.orders
             /\ e.snaps = d.snaps /\ e.deltas = d.deltas /\ e.blocks = d.blocks
             /\ e.cash = Fresh(d)
<1> DEFINE old(f) == {c \in d.cash : c.delta = f.delta /\ c.type = f.type}
           stay == {c \in d.cash : ~\E f \in Fresh(d) : f.delta = c.delta /\ f.type = c.type}
           new(f) == IF old(f) = {} THEN f
                     ELSE [f EXCEPT !.amount = (CHOOSE c \in old(f) : TRUE).amount]
           posted == {i \in DOMAIN d.deltas : TRUE \/ d.deltas[i].run = run}
<1>0. posted = DOMAIN d.deltas
  OBVIOUS
<1>1. PostCash(d, run, TRUE) = [d EXCEPT !.cash = stay \cup {new(f) : f \in Fresh(d)}]
  BY <1>0 DEF PostCash, Fresh
<1>2. ASSUME NEW c \in d.cash
      PROVE  c.delta \in DOMAIN d.deltas
             /\ [type |-> c.type, amount |-> c.amount] \in Expected(d.deltas[c.delta])
  <2>1. PICK m \in 0 .. Len(d.deltas) :
          /\ \A x \in d.cash : x.delta \in 1 .. m
          /\ \A i \in 1 .. m : EventsOf(d, i) = Expected(d.deltas[i])
    BY DEF LedgerOk, CashOk
  <2>2. Len(d.deltas) \in Nat /\ DOMAIN d.deltas = 1 .. Len(d.deltas)
    BY DEF LedgerOk, Tables, IsList
  <2>3. c.delta \in 1 .. m /\ c.delta \in DOMAIN d.deltas
    BY <2>1, <2>2
  <2>4. [type |-> c.type, amount |-> c.amount] \in EventsOf(d, c.delta)
    BY DEF EventsOf
  <2> QED
    BY <2>1, <2>3, <2>4
<1>3. stay = {}
  <2> SUFFICES ASSUME NEW c \in d.cash
               PROVE  \E f \in Fresh(d) : f.delta = c.delta /\ f.type = c.type
    OBVIOUS
  <2> DEFINE e == [type |-> c.type, amount |-> c.amount]
             f == EventOf(d, c.delta, e)
  <2>1. f \in Fresh(d)
    BY <1>2, FreshHas
  <2>2. f.delta = c.delta /\ f.type = c.type
    BY EventIs
  <2> QED
    BY <2>1, <2>2
<1>4. ASSUME NEW f \in Fresh(d) PROVE new(f) = f
  <2>1. CASE old(f) = {}
    BY <2>1
  <2>2. CASE old(f) # {}
    <3> DEFINE c == CHOOSE c \in old(f) : TRUE
    <3>1. c \in d.cash /\ c.delta = f.delta /\ c.type = f.type
      BY <2>2
    <3>2. PICK i \in DOMAIN d.deltas : \E e \in Expected(d.deltas[i]) : f = EventOf(d, i, e)
      BY FreshIs
    <3>3. PICK e \in Expected(d.deltas[i]) : f = EventOf(d, i, e)
      BY <3>2
    <3> DEFINE g == [type |-> c.type, amount |-> c.amount]
    <3>4. g \in Expected(d.deltas[i]) /\ g.type = e.type
      <4>1. f.delta = i /\ f.type = e.type
        BY <3>3, EventIs
      <4> HIDE DEF c
      <4> QED
        BY <1>2, <3>1, <4>1
    <3>5. g = e
      BY <3>4, ExpectedIs
    <3>6. c.amount = f.amount
      <4> HIDE DEF c
      <4>1. g.amount = c.amount /\ f.amount = e.amount
        BY <3>3, EventIs
      <4> QED
        BY <3>5, <4>1
    <3>7. [f EXCEPT !.amount = f.amount] = f
      BY <3>3, EventIs
    <3>8. new(f) = [f EXCEPT !.amount = c.amount]
      BY <2>2
    <3> QED
      BY <3>6, <3>7, <3>8
  <2> QED
    BY <2>1, <2>2
<1>5. stay \cup {new(f) : f \in Fresh(d)} = Fresh(d)
  BY <1>3, <1>4
<1>6. Tables(d)
  BY DEF LedgerOk
<1> HIDE DEF stay, new
<1> QED
  BY <1>1, <1>5, <1>6 DEF Tables

LEMMA PostLeavesNoGap ==
  ASSUME NEW d, LedgerOk(d), NEW run, NEW e, e = PostCash(d, run, TRUE)
  PROVE  LedgerOk(e) /\ \A r : NoGapOf(e, r)
<1>1. /\ DOMAIN e = DOMAIN d /\ e.raw = d.raw /\ e.rows = d.rows /\ e.orders = d.orders
      /\ e.snaps = d.snaps /\ e.deltas = d.deltas /\ e.blocks = d.blocks /\ e.cash = Fresh(d)
  BY PostIs
<1>2. Len(d.deltas) \in Nat /\ DOMAIN d.deltas = 1 .. Len(d.deltas)
  BY DEF LedgerOk, Tables, IsList
<1>3. \A delta : OwnRows(e, delta) = OwnRows(d, delta) /\ RowsOf(e, delta) = RowsOf(d, delta)
                 /\ OrderOf(e, delta) = OrderOf(d, delta)
  BY <1>1 DEF OwnRows, RowsOf, OrderOf
<1>9. \A c : c \in e.cash <=> c \in Fresh(d)
  BY <1>1
<1>4. ASSUME NEW i \in DOMAIN d.deltas
      PROVE  EventsOf(e, i) = Expected(d.deltas[i])
  <2>1. ASSUME NEW c \in e.cash, c.delta = i
        PROVE  [type |-> c.type, amount |-> c.amount] \in Expected(d.deltas[i])
    <3>1. PICK j \in DOMAIN d.deltas : \E x \in Expected(d.deltas[j]) : c = EventOf(d, j, x)
      BY <1>9, FreshIs
    <3>2. PICK x \in Expected(d.deltas[j]) : c = EventOf(d, j, x)
      BY <3>1
    <3>3. j = i /\ c.type = x.type /\ c.amount = x.amount
      BY <2>1, <3>2, EventIs
    <3> QED
      BY <3>3, ExpectedIs
  <2>2. ASSUME NEW x \in Expected(d.deltas[i])
        PROVE  \E c \in e.cash : c.delta = i /\ x = [type |-> c.type, amount |-> c.amount]
    <3> DEFINE c == EventOf(d, i, x)
    <3>1. c \in e.cash
      BY <1>9, FreshHas
    <3>2. c.delta = i /\ c.type = x.type /\ c.amount = x.amount
      BY EventIs
    <3> HIDE DEF c
    <3> QED
      BY <3>1, <3>2, ExpectedIs
  <2> HIDE DEF EventsOf
  <2>3. ASSUME NEW x \in EventsOf(e, i) PROVE x \in Expected(d.deltas[i])
    <3>1. PICK c \in e.cash : c.delta = i /\ x = [type |-> c.type, amount |-> c.amount]
      BY DEF EventsOf
    <3> QED
      BY <2>1, <3>1
  <2>4. ASSUME NEW x \in Expected(d.deltas[i]) PROVE x \in EventsOf(e, i)
    <3>1. PICK c \in e.cash : c.delta = i /\ x = [type |-> c.type, amount |-> c.amount]
      BY <2>2
    <3> QED
      BY <3>1 DEF EventsOf
  <2> QED
    BY <2>3, <2>4
<1>5. ASSUME NEW c \in e.cash
      PROVE  c.delta \in DOMAIN d.deltas /\ c.settle = OrderOf(d, d.deltas[c.delta]).settle
  <2>1. PICK j \in DOMAIN d.deltas : \E x \in Expected(d.deltas[j]) : c = EventOf(d, j, x)
    BY <1>9, FreshIs
  <2>2. PICK x \in Expected(d.deltas[j]) : c = EventOf(d, j, x)
    BY <2>1
  <2>3. c.delta = j /\ c.settle = OrderOf(d, d.deltas[j]).settle
    BY <2>2, EventIs
  <2> QED
    BY <2>3
<1>6. CashOk(e)
  <2>1. Len(e.deltas) \in Nat
    BY <1>1, <1>2
  <2>2. \A n \in Nat : n \in 0 .. n
    OBVIOUS
  <2>3. Len(e.deltas) \in 0 .. Len(e.deltas)
    BY <2>1, <2>2
  <2> QED
    BY <1>1, <1>2, <1>4, <1>5, <2>3 DEF CashOk
<1>7. LedgerOk(e)
  BY <1>1, <1>3, <1>6 DEF LedgerOk, Tables, DeltasOk
<1>8. ASSUME NEW i \in DOMAIN e.deltas PROVE i \notin CashGaps(e)
  <2>1. RowsOf(e, e.deltas[i]) # {}
    <3>1. e.deltas[i] = d.deltas[i] /\ i \in DOMAIN d.deltas
      BY <1>1
    <3>2. OwnRows(d, d.deltas[i]) # {}
      BY <3>1 DEF LedgerOk, DeltasOk
    <3>3. OwnRows(d, d.deltas[i]) \subseteq RowsOf(d, d.deltas[i])
      BY Zenon DEF OwnRows
    <3>4. RowsOf(e, d.deltas[i]) = RowsOf(d, d.deltas[i])
      BY <1>3
    <3> QED
      BY <3>1, <3>2, <3>3, <3>4
  <2>2. EventsOf(e, i) = Expected(e.deltas[i])
    BY <1>1, <1>4
  <2>3. ~\E c \in e.cash : c.delta = i /\ c.settle # OrderOf(e, e.deltas[i]).settle
    BY <1>1, <1>3, <1>5
  <2> QED
    BY <2>1, <2>2, <2>3 DEF CashGaps, EventsOf
<1> QED
  BY <1>7, <1>8 DEF NoGapOf

\* New order rows and new deltas are of one run, and every delta has rows of its run.
OfRun(d, e, run) ==
  /\ \A i \in DOMAIN d.orders : i \in DOMAIN e.orders /\ e.orders[i] = d.orders[i]
  /\ \A i \in DOMAIN e.orders : i \in DOMAIN d.orders \/ e.orders[i].run = run
  /\ \A i \in DOMAIN d.deltas : i \in DOMAIN e.deltas /\ e.deltas[i] = d.deltas[i]
  /\ \A i \in DOMAIN e.deltas :
        i \in DOMAIN d.deltas \/ (e.deltas[i].run = run /\ OwnRows(e, e.deltas[i]) # {})

\* What one run adds leaves the cash of the other runs without a gap.
LEMMA NoGapOn ==
  ASSUME NEW d, LedgerOk(d), NEW e, Tables(e), IsList(e.orders), e.cash = d.cash,
         NEW run \in Runs, OfRun(d, e, run)
  PROVE  LedgerOk(e) /\ \A r : r # run /\ NoGapOf(d, r) => NoGapOf(e, r)
<1>1. /\ Len(d.deltas) \in Nat /\ DOMAIN d.deltas = 1 .. Len(d.deltas)
      /\ Len(e.deltas) \in Nat /\ DOMAIN e.deltas = 1 .. Len(e.deltas)
  BY DEF LedgerOk, Tables, IsList
<1>2. Len(d.deltas) <= Len(e.deltas)
  <2>1. \A i \in 1 .. Len(d.deltas) : i \in 1 .. Len(e.deltas)
    BY <1>1 DEF OfRun
  <2>2. Len(d.deltas) = 0 \/ Len(d.deltas) \in 1 .. Len(d.deltas)
    BY <1>1
  <2> QED
    BY <1>1, <2>1, <2>2
<1>3. \A i : EventsOf(e, i) = EventsOf(d, i)
  BY DEF EventsOf
<1>4. CashOk(e)
  <2>1. PICK m \in 0 .. Len(d.deltas) :
          /\ \A c \in d.cash : c.delta \in 1 .. m
          /\ \A i \in 1 .. m : EventsOf(d, i) = Expected(d.deltas[i])
    BY DEF LedgerOk, CashOk
  <2>2. m \in 0 .. Len(e.deltas) /\ \A i \in 1 .. m : e.deltas[i] = d.deltas[i]
    BY <1>1, <1>2 DEF OfRun
  <2> QED
    BY <1>3, <2>1, <2>2 DEF CashOk
<1>5. DeltasOk(e)
  <2> SUFFICES ASSUME NEW i \in DOMAIN e.deltas
               PROVE  e.deltas[i].run \in Runs /\ OwnRows(e, e.deltas[i]) # {}
    BY DEF DeltasOk
  <2>1. CASE i \in DOMAIN d.deltas
    <3>1. /\ OwnRows(d, d.deltas[i]) # {} /\ e.deltas[i] = d.deltas[i]
          /\ d.deltas[i].run \in Runs
      BY <2>1 DEF LedgerOk, DeltasOk, OfRun
    <3> QED
      BY <3>1 DEF OwnRows, RowsOf, OfRun
  <2>2. CASE i \notin DOMAIN d.deltas
    BY <2>2 DEF OfRun
  <2> QED
    BY <2>1, <2>2
<1>6. LedgerOk(e)
  BY <1>4, <1>5 DEF LedgerOk
<1>7. ASSUME NEW r, r # run, NoGapOf(d, r), NEW i \in DOMAIN e.deltas, e.deltas[i].run = r
      PROVE  i \notin CashGaps(e)
  <2>1. i \in DOMAIN d.deltas /\ e.deltas[i] = d.deltas[i]
    BY <1>7 DEF OfRun
  <2> DEFINE delta == d.deltas[i]
  <2>2. i \notin CashGaps(d)
    BY <1>7, <2>1 DEF NoGapOf
  <2>3. OwnRows(d, delta) # {}
    BY <2>1 DEF LedgerOk, DeltasOk
  <2>4. OwnRows(e, delta) = OwnRows(d, delta)
    BY <1>7, <2>1 DEF OwnRows, RowsOf, OfRun
  <2>5. OrderOf(e, delta) = OrderOf(d, delta)
    <3> DEFINE k == Latest(OwnRows(d, delta))
    <3>1. OrderOf(d, delta) = d.orders[k] /\ OrderOf(e, delta) = e.orders[k]
      BY <2>3, <2>4 DEF OrderOf
    <3>2. OwnRows(d, delta) \subseteq 1 .. Len(d.orders) /\ Len(d.orders) \in Nat
      BY DEF OwnRows, RowsOf, LedgerOk, IsList
    <3>3. k \in OwnRows(d, delta)
      BY <2>3, <3>2, LatestIs
    <3>4. k \in DOMAIN d.orders
      BY <3>3 DEF OwnRows, RowsOf
    <3> QED
      BY <3>1, <3>4 DEF OfRun
  <2>6. RowsOf(e, delta) # {}
    BY <2>3, <2>4 DEF OwnRows
  <2>7. EventsOf(d, i) = Expected(delta)
        /\ ~\E c \in d.cash : c.delta = i /\ c.settle # OrderOf(d, delta).settle
    BY <2>1, <2>2 DEF CashGaps, EventsOf
  <2> HIDE DEF delta
  <2>8. e.deltas[i] = delta
    BY <2>1 DEF delta
  <2> QED
    BY <1>3, <2>5, <2>6, <2>7, <2>8 DEF CashGaps, EventsOf
<1> QED
  BY <1>6, <1>7 DEF NoGapOf

\* What a run has to have asked before a step.
Passed(step) ==
  CASE step = "accounts" -> {}
    [] step = "holdings" -> {"accounts"}
    [] step = "orders-open" -> {"accounts", "holdings"}
    [] step \in {"orders-closed", "details", "buying-power"}
         -> {"accounts", "holdings", "orders-open"}
    [] step = "commissions" -> {"accounts", "holdings", "orders-open", "buying-power"}
    [] step \in {"sellable-quantity", "post", "finish"} -> RequiredEndpoints

Late == {"commissions", "sellable-quantity", "post", "finish"}
Cur == Asked

OkRow(d, r, f) == \E i \in DOMAIN d.raw[r] : d.raw[r][i].endpoint = f /\ d.raw[r][i].ok
CurRow(d, r, c) == <<r, "buying-power", c>> \in d.rows
OrderRow(d, r, o) == \E k \in DOMAIN d.orders : d.orders[k].run = r /\ d.orders[k].order = o

\* What a run in progress has on file.
Ready(d, x) ==
  /\ \A f \in Passed(x.step) : OkRow(d, x.run, f)
  /\ x.step = "orders-open" /\ x.stage # "request" => OkRow(d, x.run, "orders-open")
  /\ x.step \in Late => \A c \in Cur : CurRow(d, x.run, c)
  /\ x.step = "buying-power" =>
       /\ IsList(x.todo)
       /\ \A c \in Cur : CurRow(d, x.run, c) \/ \E k \in DOMAIN x.todo : x.todo[k] = c
  /\ x.stage \in {"previous", "write"} =>
       \A j \in DOMAIN Head(x.pages) : OrderRow(d, x.run, Head(x.pages)[j].order)
  /\ x.step = "finish" => NoGapOf(d, x.run)

ExplainedOk == DOMAIN explained = Runs /\ \A r \in Runs : explained[r] \subseteq Unvalued

\* Every step of a run was asked before the run is complete, and its cash is posted.
CompleteInv ==
  /\ LedgerOk(db) /\ ExplainedOk
  /\ \A p \in Procs : proc[p].step # "idle" => Ready(db, proc[p])
  /\ \A r \in Runs : status[r] = "COMPLETE" => NoGapOf(db, r)

\* Responses and rows stay.
Stays(d, e) ==
  /\ d.rows \subseteq e.rows
  /\ \A k \in DOMAIN d.orders : k \in DOMAIN e.orders /\ e.orders[k] = d.orders[k]
  /\ \A r \in Runs : \A i \in DOMAIN d.raw[r] : i \in DOMAIN e.raw[r] /\ e.raw[r][i] = d.raw[r][i]

LEMMA RowsStay ==
  ASSUME NEW d, NEW e, Stays(d, e), NEW r \in Runs
  PROVE  /\ \A f : OkRow(d, r, f) => OkRow(e, r, f)
         /\ \A c : CurRow(d, r, c) => CurRow(e, r, c)
         /\ \A o : OrderRow(d, r, o) => OrderRow(e, r, o)
<1>1. \A f : OkRow(d, r, f) => OkRow(e, r, f)
  BY DEF Stays, OkRow
<1>2. \A c : CurRow(d, r, c) => CurRow(e, r, c)
  BY DEF Stays, CurRow
<1>3. \A o : OrderRow(d, r, o) => OrderRow(e, r, o)
  BY DEF Stays, OrderRow
<1> QED
  BY <1>1, <1>2, <1>3

\* A run in progress stays so, and so does one that y differs from in nothing that matters.
LEMMA ReadyStays ==
  ASSUME NEW d, NEW e, Stays(d, e), NEW x, x.run \in Runs, Ready(d, x),
         NoGapOf(d, x.run) => NoGapOf(e, x.run),
         NEW y, y.step = x.step, y.run = x.run, y.stage = x.stage, y.todo = x.todo,
         Head(y.pages) = Head(x.pages)
  PROVE  Ready(e, y)
BY RowsStay DEF Ready

\* One process does something to its run.
LEMMA CompleteStep ==
  ASSUME FoundationInv, CompleteInv, NEW p \in Procs, proc[p].step # "idle",
         NEW y, proc' = [proc EXCEPT ![p] = y],
         Stays(db, db'), LedgerOk(db'),
         \A r \in Runs : r # proc[p].run /\ NoGapOf(db, r) => NoGapOf(db', r),
         y.step # "idle" => Ready(db', y),
         \/ /\ status' = status \/ status' = [status EXCEPT ![proc[p].run] = "FAILED"]
            /\ explained' = explained
         \/ /\ status' = [status EXCEPT ![proc[p].run] = "COMPLETE"]
            /\ NoGapOf(db', proc[p].run)
            /\ \E B \in SUBSET Unvalued : explained' = [explained EXCEPT ![proc[p].run] = B]
  PROVE  CompleteInv'
<1> DEFINE r == proc[p].run
<1>1. r \in Runs /\ status[r] = "RUNNING" /\ DOMAIN status = Runs /\ DOMAIN proc = Procs
  BY ActiveFacts DEF FoundationInv
<1>2. ExplainedOk'
  <2>1. ExplainedOk
    BY DEF CompleteInv
  <2>2. \/ explained' = explained
        \/ \E B \in SUBSET Unvalued : explained' = [explained EXCEPT ![r] = B]
    OBVIOUS
  <2> QED
    BY <1>1, <2>1, <2>2 DEF ExplainedOk, Unvalued
<1>3. ASSUME NEW q \in Procs, proc'[q].step # "idle" PROVE Ready(db', proc'[q])
  <2>1. CASE q = p
    BY <1>1, <1>3, <2>1
  <2>2. CASE q # p
    <3>1. proc'[q] = proc[q]
      BY <1>1, <2>2
    <3>2. proc[q].step # "idle" /\ proc[q].run # r
      BY <1>3, <2>2, <3>1 DEF FoundationInv
    <3>3. proc[q].run \in Runs
      BY <3>2, ActiveFacts
    <3>4. Ready(db, proc[q])
      BY <3>2 DEF CompleteInv
    <3>5. NoGapOf(db, proc[q].run) => NoGapOf(db', proc[q].run)
      BY <3>2, <3>3
    <3>6. Ready(db', proc[q])
      BY <3>3, <3>4, <3>5, ReadyStays
    <3> QED
      BY <3>1, <3>6
  <2> QED
    BY <2>1, <2>2
<1>4. ASSUME NEW s \in Runs, status'[s] = "COMPLETE" PROVE NoGapOf(db', s)
  <2>1. CASE s = r
    <3>1. status'[r] = "COMPLETE" => NoGapOf(db', r)
      BY <1>1
    <3> QED
      BY <1>4, <2>1, <3>1
  <2>2. CASE s # r
    <3>1. status[s] = "COMPLETE"
      BY <1>1, <1>4, <2>2
    <3> QED
      BY <2>2, <3>1 DEF CompleteInv
  <2> QED
    BY <2>1, <2>2
<1> QED
  BY <1>2, <1>3, <1>4 DEF CompleteInv

\* The elements of a finite set, all of them.
LEMMA SetToSeqAll ==
  ASSUME NEW S, IsFiniteSet(S)
  PROVE  SetToSeq(S) \in Seq(S) /\ \A s \in S : \E k \in DOMAIN SetToSeq(S) : SetToSeq(S)[k] = s
<1>1. PICK n \in Nat : ExistsBijection(1 .. n, S)
  BY FS_NatBijection
<1>2. Cardinality(S) = n
  BY <1>1, FS_CountingElements
<1>3. PICK f \in Bijection(1 .. n, S) : TRUE
  BY <1>1 DEF ExistsBijection
<1>4. f \in [1 .. n -> S] /\ IsInjective(f)
  BY <1>3 DEF Bijection, Injection
<1>5. SetToSeq(S) \in [1 .. n -> S] /\ IsInjective(SetToSeq(S))
  BY <1>2, <1>4 DEF SetToSeq
<1>6. SetToSeq(S) \in Injection(1 .. n, S)
  BY <1>5 DEF Injection
<1>7. SetToSeq(S) \in Surjection(1 .. n, S)
  <2>1. IsFiniteSet(1 .. n) /\ Cardinality(1 .. n) = n
    BY <1>1, FS_Interval
  <2> QED
    BY <1>2, <1>6, <2>1, FS_Injection
<1> QED
  BY <1>5, <1>7 DEF Surjection

\* What a step adds to what the next one has to have asked.
LEMMA PassedNext ==
  ASSUME NEW step \in WorkSteps, NEW listed
  PROVE  LET next == StepAfter(step, listed)
         IN  /\ \A f \in Passed(next) : f \in Passed(step) \/ (f = step /\ f \notin {"orders-closed", "details", "sellable-quantity"})
             /\ next \in Late => step \in Late \/ step = "buying-power"
             /\ next # "finish"
<1>1. IncludeClosed \in BOOLEAN
  BY FoundationAssumption
<1>2. CASE step = "accounts"
  BY <1>2 DEF StepAfter, Passed, Late
<1>3. CASE step = "holdings"
  BY <1>3 DEF StepAfter, Passed, Late
<1>4. CASE step = "orders-open"
  <2>1. StepAfter(step, listed) \in {"orders-closed", "details", "buying-power"}
    BY <1>1, <1>4 DEF StepAfter
  <2> QED
    BY <1>4, <2>1 DEF Passed, Late
<1>5. CASE step = "orders-closed"
  <2>1. StepAfter(step, listed) \in {"details", "buying-power"}
    BY <1>5 DEF StepAfter
  <2> QED
    BY <1>5, <2>1 DEF Passed, Late
<1>6. CASE step = "details"
  BY <1>6 DEF StepAfter, Passed, Late
<1>7. CASE step = "buying-power"
  BY <1>7 DEF StepAfter, Passed, Late
<1>8. CASE step = "commissions"
  <2>1. StepAfter(step, listed) \in {"sellable-quantity", "post"}
    BY <1>8 DEF StepAfter
  <2> QED
    BY <1>8, <2>1 DEF Passed, Late, RequiredEndpoints
<1>9. CASE step = "sellable-quantity"
  BY <1>9 DEF StepAfter, Passed, Late, RequiredEndpoints
<1> QED
  BY <1>2, <1>3, <1>4, <1>5, <1>6, <1>7, <1>8, <1>9 DEF WorkSteps, OrderSteps

\* All currencies are asked for.
LEMMA CurrenciesAll ==
  IsList(Currencies) /\ \A c \in Cur : \E k \in DOMAIN Currencies : Currencies[k] = c
<1>1. IsFiniteSet({Holdings[s] : s \in DOMAIN Holdings})
  <2> DEFINE T == {Holdings[s] : s \in DOMAIN Holdings}
             currency == [s \in DOMAIN Holdings |-> Holdings[s]]
  <2>1. currency \in Surjection(DOMAIN Holdings, T)
    BY DEF Surjection
  <2> HIDE DEF T, currency
  <2>2. IsFiniteSet(T)
    BY <2>1, LedgerAssumption, FS_Surjection
  <2> QED
    BY <2>2 DEF T
<1>2. IsFiniteSet(Cur)
  <2> DEFINE T == {Holdings[s] : s \in DOMAIN Holdings}
  <2>1. Cur = Configured \cup (T \ {NoCurrency}) /\ T \ {NoCurrency} \subseteq T
    BY DEF Cur, Asked
  <2> HIDE DEF T
  <2>2. IsFiniteSet(T \ {NoCurrency})
    BY <1>1, <2>1, FS_Subset DEF T
  <2> QED
    BY <2>1, <2>2, LedgerAssumption, FS_Union
<1>3. Currencies = SetToSeq(Cur)
  BY DEF Currencies, Cur
<1> QED
  BY <1>2, <1>3, SetToSeqAll DEF IsList

\* A process enters the next step.
LEMMA EnterReady ==
  ASSUME NEW p, NEW step \in WorkSteps \cup {"post"}, NEW listed, NEW d,
         \A f \in Passed(step) : OkRow(d, proc[p].run, f),
         step \in Late => \A c \in Cur : CurRow(d, proc[p].run, c)
  PROVE  Ready(d, Enter(p, step, listed))
<1> DEFINE y == Enter(p, step, listed)
<1>1. /\ y.step = step /\ y.run = proc[p].run /\ y.stage = "request"
      /\ y.todo = Requests(step, listed)
  BY DEF Enter, Idle
<1>2. step = "buying-power" => Requests(step, listed) = Currencies
  BY DEF Requests
<1>3. step # "finish"
  BY DEF WorkSteps, OrderSteps
<1> HIDE DEF y
<1>4. Ready(d, y)
  BY <1>1, <1>2, <1>3, CurrenciesAll DEF Ready
<1> QED
  BY <1>4 DEF y

\* A process enters the step after this one.
LEMMA AfterReady ==
  ASSUME NEW p, NEW step \in WorkSteps, NEW listed, NEW d,
         \A f \in Passed(step) : OkRow(d, proc[p].run, f),
         step \notin {"orders-closed", "details", "sellable-quantity"} => OkRow(d, proc[p].run, step),
         step \in Late \cup {"buying-power"} => \A c \in Cur : CurRow(d, proc[p].run, c)
  PROVE  Ready(d, Enter(p, StepAfter(step, listed), listed))
<1> DEFINE next == StepAfter(step, listed)
<1>1. next \in WorkSteps \cup {"post"}
  BY StepAfterType
<1>2. /\ \A f \in Passed(next) : f \in Passed(step)
             \/ (f = step /\ f \notin {"orders-closed", "details", "sellable-quantity"})
      /\ next \in Late => step \in Late \/ step = "buying-power"
  BY PassedNext
<1> HIDE DEF next
<1>3. Ready(d, Enter(p, next, listed))
  BY <1>1, <1>2, EnterReady
<1> QED
  BY <1>3 DEF next

\* A process is done with one request.
LEMMA DoneReady ==
  ASSUME NEW p, ProcOk(proc[p]), proc[p].step \in WorkSteps, proc[p].step # "orders-open", NEW d,
         \A f \in Passed(proc[p].step) : OkRow(d, proc[p].run, f),
         proc[p].step \notin {"orders-closed", "details", "sellable-quantity"}
           => OkRow(d, proc[p].run, proc[p].step),
         proc[p].step \in Late => \A c \in Cur : CurRow(d, proc[p].run, c),
         proc[p].step = "buying-power" =>
           /\ IsList(Tail(proc[p].todo))
           /\ \A c \in Cur : CurRow(d, proc[p].run, c)
                \/ \E k \in DOMAIN Tail(proc[p].todo) : Tail(proc[p].todo)[k] = c
  PROVE  Ready(d, Done(p))
<1> DEFINE x == proc[p]
           rest == Tail(x.todo)
           y == [proc[p] EXCEPT !.todo = rest, !.stage = "request", !.pages = <<>>,
                                !.stored = 0, !.tries = 0]
<1>1. CASE rest # <<>>
  <2>1. Done(p) = y
    BY <1>1 DEF Done
  <2>2. /\ y.step = x.step /\ y.run = x.run /\ y.stage = "request" /\ y.todo = rest
    BY DEF ProcOk
  <2>3. x.step # "finish"
    BY DEF WorkSteps, OrderSteps
  <2> HIDE DEF y, rest
  <2>4. Ready(d, y)
    BY <2>2, <2>3 DEF Ready, rest
  <2> QED
    BY <2>1, <2>4
<1>2. CASE rest = <<>>
  <2>1. Done(p) = Enter(p, StepAfter(x.step, x.listed), x.listed)
    BY <1>2 DEF Done
  <2>2. x.step = "buying-power" => \A c \in Cur : CurRow(d, x.run, c)
    BY <1>2
  <2>3. Ready(d, Enter(p, StepAfter(x.step, x.listed), x.listed))
    BY <2>2, AfterReady
  <2> QED
    BY <2>1, <2>3
<1> QED
  BY <1>1, <1>2

\* A process is done with a page.
LEMMA PageDoneReady ==
  ASSUME NEW p, ProcOk(proc[p]), proc[p].stage # "request", NEW d, Ready(d, proc[p])
  PROVE  Ready(d, PageDone(p))
<1> DEFINE x == proc[p]
           page == Head(x.pages)
           ids == [i \in DOMAIN page |-> page[i].order]
           listed == CASE x.step = "orders-open" -> [x.listed EXCEPT !.open = @ \o ids]
                       [] x.step = "orders-closed" -> [x.listed EXCEPT !.closed = @ \o ids]
                       [] OTHER -> x.listed
           y == [x EXCEPT !.pages = Tail(@), !.stage = "orders", !.stored = 0, !.listed = listed]
<1>1. /\ x.step \in OrderSteps /\ x.step \in WorkSteps
      /\ DOMAIN x = {"step", "run", "stage", "todo", "pages", "listed", "prev", "stored", "tries"}
  BY DEF ProcOk, WorkSteps
<1>2. PageDone(p) = IF Len(x.pages) > 1 THEN y
                    ELSE IF x.step = "details" THEN Done(p)
                    ELSE Enter(p, StepAfter(x.step, listed), listed)
  BY DEF PageDone
<1> HIDE DEF page, ids
<1>3. y.step = x.step /\ y.run = x.run /\ y.stage = "orders" /\ y.todo = x.todo
  BY <1>1
<1>4. /\ \A f \in Passed(x.step) : OkRow(d, x.run, f)
      /\ x.step \notin {"orders-closed", "details", "sellable-quantity"} => OkRow(d, x.run, x.step)
      /\ x.step \notin Late /\ x.step # "buying-power" /\ x.step # "finish"
  BY <1>1 DEF Ready, OrderSteps, Late
<1>5. Ready(d, y)
  <2> HIDE DEF y, x, listed
  <2>1. x.step = "orders-open" => OkRow(d, x.run, "orders-open")
    BY <1>4
  <2> QED
    BY <1>3, <1>4, <2>1 DEF Ready
<1>6. x.step = "details" => Ready(d, Done(p))
  BY <1>1, <1>4, DoneReady
<1>7. Ready(d, Enter(p, StepAfter(x.step, listed), listed))
  <2> HIDE DEF listed
  <2> QED
    BY <1>1, <1>4, AfterReady
<1> HIDE DEF y, listed
<1> QED
  BY <1>2, <1>5, <1>6, <1>7

\* The cash and its gaps depend on the orders, the deltas and the cash events only.
LEMMA SameCash ==
  ASSUME NEW d, LedgerOk(d), NEW e, Tables(e), e.orders = d.orders, e.deltas = d.deltas,
         e.cash = d.cash
  PROVE  LedgerOk(e) /\ \A r : NoGapOf(d, r) => NoGapOf(e, r)
<1>1. \A delta : /\ RowsOf(e, delta) = RowsOf(d, delta) /\ OwnRows(e, delta) = OwnRows(d, delta)
                 /\ OrderOf(e, delta) = OrderOf(d, delta)
  BY DEF RowsOf, OwnRows, OrderOf
<1>2. \A i : EventsOf(e, i) = EventsOf(d, i)
  BY DEF EventsOf
<1>3. CashGaps(e) = CashGaps(d)
  BY <1>1 DEF CashGaps
<1>4. CashOk(e)
  BY <1>2 DEF LedgerOk, CashOk
<1>5. DeltasOk(e)
  BY <1>1 DEF LedgerOk, DeltasOk
<1> QED
  BY <1>3, <1>4, <1>5 DEF LedgerOk, NoGapOf

LEMMA SavedLedger ==
  ASSUME NEW d, LedgerOk(d), RawOk(d), NEW r \in Runs, NEW endpoint, NEW ok, NEW body,
         NEW e, e = SaveRaw(d, r, endpoint, ok, body)
  PROVE  /\ LedgerOk(e) /\ Stays(d, e) /\ e.rows = d.rows
         /\ \A q : NoGapOf(d, q) => NoGapOf(e, q)
<1> DEFINE n == Len(d.raw[r]) + 1
<1>0. Tables(d) /\ DOMAIN d.raw = Runs
  BY DEF LedgerOk, RawOk
<1>1. /\ DOMAIN e = DOMAIN d /\ e.rows = d.rows /\ e.orders = d.orders
      /\ e.snaps = d.snaps /\ e.deltas = d.deltas /\ e.cash = d.cash
      /\ e.blocks = d.blocks
      /\ \A q \in Runs \ {r} : e.raw[q] = d.raw[q]
      /\ Len(d.raw[r]) \in Nat /\ DOMAIN d.raw[r] = 1 .. Len(d.raw[r])
      /\ DOMAIN e.raw[r] = 1 .. n
      /\ \A i \in 1 .. Len(d.raw[r]) : e.raw[r][i] = d.raw[r][i]
  BY <1>0, SaveRawFields
<1>3. Tables(e)
  BY <1>0, <1>1 DEF Tables
<1>4. LedgerOk(e) /\ \A q : NoGapOf(d, q) => NoGapOf(e, q)
  BY <1>1, <1>3, SameCash
<1>5. ASSUME NEW q \in Runs, NEW i \in DOMAIN d.raw[q]
      PROVE  i \in DOMAIN e.raw[q] /\ e.raw[q][i] = d.raw[q][i]
  <2>1. CASE q = r
    <3>1. \A k \in Nat : \A j \in 1 .. k : j \in 1 .. (k + 1)
      OBVIOUS
    <3>2. i \in 1 .. Len(d.raw[r]) /\ i \in 1 .. n
      BY <1>1, <2>1, <3>1
    <3> QED
      BY <1>1, <2>1, <3>2
  <2>2. CASE q # r
    BY <1>1, <2>2
  <2> QED
    BY <2>1, <2>2
<1>6. Stays(d, e)
  BY <1>1, <1>5 DEF Stays
<1> QED
  BY <1>1, <1>4, <1>6

LEMMA SavedOk ==
  ASSUME NEW d, Tables(d), RawOk(d), NEW r \in Runs, NEW endpoint, NEW ok, NEW body,
         NEW e, e = SaveRaw(d, r, endpoint, ok, body)
  PROVE  ok = TRUE => OkRow(e, r, endpoint)
<1> DEFINE n == Len(d.raw[r]) + 1
<1>1. /\ Len(d.raw[r]) \in Nat /\ DOMAIN e.raw[r] = 1 .. n /\ e.raw[r][n].endpoint = endpoint
  BY SaveRawFields
<1>2. e.raw[r][n].ok = ok
  BY SaveRawFields
<1>3. n \in DOMAIN e.raw[r]
  BY <1>1
<1> HIDE DEF n
<1>4. ok = TRUE => e.raw[r][n].ok
  BY <1>2, Zenon
<1> QED
  BY <1>1, <1>3, <1>4, Zenon DEF OkRow

LEMMA StaysMore ==
  ASSUME NEW d, NEW e, NEW f, Stays(d, e), Stays(e, f)
  PROVE  Stays(d, f)
BY DEF Stays

LEMMA NormalizedLedger ==
  ASSUME NEW d, LedgerOk(d), NEW run, NEW step \in WorkSteps \ OrderSteps, NEW argument,
         NEW e, e = Normalized(d, run, step, argument)
  PROVE  /\ LedgerOk(e) /\ Stays(d, e)
         /\ \A q : NoGapOf(d, q) => NoGapOf(e, q)
         /\ step = "buying-power" => CurRow(e, run, argument)
<1>0. Tables(d)
  BY DEF LedgerOk
<1>1. \/ e = IngestAccounts(d, run)
      \/ e = IngestHoldings(d, run)
      \/ e = IngestBuyingPower(d, run, argument)
      \/ e = IngestCommissions(d, run)
      \/ e = IngestSellableQuantity(d, run, argument)
  BY DEF Normalized, WorkSteps
<1>2. PICK rows : e = [d EXCEPT !.rows = rows] /\ d.rows \subseteq rows
  BY <1>0, <1>1 DEF Tables, IngestAccounts, IngestHoldings, IngestBuyingPower, IngestCommissions,
              IngestSellableQuantity
<1>3. /\ DOMAIN e = DOMAIN d /\ e.raw = d.raw /\ e.rows = rows /\ e.orders = d.orders
      /\ e.snaps = d.snaps /\ e.deltas = d.deltas /\ e.cash = d.cash /\ e.blocks = d.blocks
  BY <1>0, <1>2 DEF Tables
<1>4. step = "buying-power" => CurRow(e, run, argument)
  <2>1. step = "buying-power" => e = IngestBuyingPower(d, run, argument)
    BY DEF Normalized
  <2>2. step = "buying-power" => e.rows = d.rows \cup {<<run, "buying-power", argument>>}
    BY <1>0, <2>1 DEF IngestBuyingPower, Tables
  <2> QED
    BY <2>2 DEF CurRow
<1>5. Tables(e)
  BY <1>0, <1>3 DEF Tables
<1>6. LedgerOk(e) /\ \A q : NoGapOf(d, q) => NoGapOf(e, q)
  BY <1>3, <1>5, SameCash
<1>7. Stays(d, e)
  BY <1>2, <1>3 DEF Stays
<1> QED
  BY <1>4, <1>6, <1>7

LEMMA StaysSame ==
  \A d : Stays(d, d)
BY DEF Stays

\* A run that fails or dies takes nothing with it.
LEMMA EndComplete ==
  ASSUME FoundationInv, CompleteInv, NEW p \in Procs, proc[p].step # "idle",
         proc' = [proc EXCEPT ![p] = Idle],
         Stays(db, db'), LedgerOk(db'), \A r : NoGapOf(db, r) => NoGapOf(db', r),
         status' = status \/ status' = [status EXCEPT ![proc[p].run] = "FAILED"],
         explained' = explained
  PROVE  CompleteInv'
<1>1. Idle.step = "idle"
  BY DEF Idle
<1> QED
  BY <1>1, CompleteStep

LEMMA FailComplete ==
  ASSUME FoundationInv, CompleteInv, NEW p \in Procs, proc[p].step # "idle", FailRun(p),
         Stays(db, db'), LedgerOk(db'), \A r : NoGapOf(db, r) => NoGapOf(db', r)
  PROVE  CompleteInv'
<1>1. status[proc[p].run] = "RUNNING"
  BY ActiveFacts
<1>2. /\ proc' = [proc EXCEPT ![p] = Idle] /\ explained' = explained
      /\ status' = [status EXCEPT ![proc[p].run] = "FAILED"]
  BY <1>1 DEF FailRun
<1> QED
  BY <1>2, EndComplete

LEMMA SameComplete ==
  ASSUME CompleteInv, db' = db, status' = status, proc' = proc, explained' = explained
  PROVE  CompleteInv'
BY DEF CompleteInv, ExplainedOk, Unvalued

LEMMA BeginComplete ==
  ASSUME FoundationInv, CompleteInv, NEW p \in Procs, Begin(p)
  PROVE  CompleteInv'
<1>1. PICK r \in Runs :
        /\ status[r] = "none" /\ status' = [status EXCEPT ![r] = "RUNNING"]
        /\ proc' = [proc EXCEPT ![p] = [Idle EXCEPT !.run = r, !.step = "accounts",
                                                    !.todo = <<"">>]]
  BY DEF Begin
<1> DEFINE y == [Idle EXCEPT !.run = r, !.step = "accounts", !.todo = <<"">>]
<1>2. db' = db /\ explained' = explained
  BY DEF Begin
<1>3. DOMAIN status = Runs /\ DOMAIN proc = Procs
  BY DEF FoundationInv
<1>4. y.step = "accounts" /\ y.stage = "request"
  BY DEF Idle
<1> HIDE DEF y
<1>5. Ready(db, y)
  BY <1>4 DEF Ready, Passed, Late
<1>6. \A q \in Procs : proc'[q] = IF q = p THEN y ELSE proc[q]
  BY <1>1, <1>3 DEF y
<1>7. \A s \in Runs : status'[s] = "COMPLETE" => status[s] = "COMPLETE"
  BY <1>1, <1>3
<1> QED
  BY <1>2, <1>5, <1>6, <1>7 DEF CompleteInv, ExplainedOk, Unvalued

\* A response that is stored, after which the process is x but for pages and tries.
LEMMA SavedComplete ==
  ASSUME FoundationInv, CompleteInv, NEW p \in Procs, proc[p].step # "idle",
         NEW endpoint, NEW ok, NEW body,
         db' = db \/ db' = SaveRaw(db, proc[p].run, endpoint, ok, body),
         NEW y, y.step = proc[p].step, y.run = proc[p].run, y.stage = proc[p].stage,
         y.todo = proc[p].todo, y.stage \notin {"previous", "write"},
         proc' = [proc EXCEPT ![p] = y], status' = status, explained' = explained
  PROVE  CompleteInv'
<1>1. RawOk(db) /\ proc[p].run \in Runs /\ LedgerOk(db) /\ Ready(db, proc[p])
  BY ActiveFacts DEF CompleteInv
<1>2. /\ Stays(db, db') /\ LedgerOk(db') /\ \A r : NoGapOf(db, r) => NoGapOf(db', r)
  <2>1. CASE db' = db
    BY <1>1, <2>1, StaysSame
  <2>2. CASE db' = SaveRaw(db, proc[p].run, endpoint, ok, body)
    BY <1>1, <2>2, SavedLedger
  <2> QED
    BY <2>1, <2>2
<1>3. Ready(db', y)
  BY <1>1, <1>2, RowsStay DEF Ready
<1> QED
  BY <1>2, <1>3, CompleteStep

LEMMA RefuseComplete ==
  ASSUME FoundationInv, CompleteInv, NEW p \in Procs, Waiting(p), FailRun(p), NEW endpoint, NEW ok,
         db' = db \/ db' = SaveRaw(db, proc[p].run, endpoint, ok, <<>>)
  PROVE  CompleteInv'
<1>1. RawOk(db) /\ proc[p].run \in Runs /\ proc[p].step # "idle" /\ LedgerOk(db)
  BY ActiveFacts DEF CompleteInv
<1>2. /\ Stays(db, db') /\ LedgerOk(db') /\ \A r : NoGapOf(db, r) => NoGapOf(db', r)
  <2>1. CASE db' = db
    BY <1>1, <2>1, StaysSame
  <2>2. CASE db' = SaveRaw(db, proc[p].run, endpoint, ok, <<>>)
    BY <1>1, <2>2, SavedLedger
  <2> QED
    BY <2>1, <2>2
<1> QED
  BY <1>1, <1>2, FailComplete

\* The tail of a list holds all but its head.
LEMMA TailHas ==
  ASSUME NEW s, IsList(s), s # <<>>
  PROVE  /\ IsList(Tail(s))
         /\ \A k \in DOMAIN s : s[k] = Head(s)
               \/ \E j \in DOMAIN Tail(s) : Tail(s)[j] = s[k]
<1>1. PICK S : s \in Seq(S)
  BY DEF IsList
<1>2. /\ Tail(s) \in Seq(S) /\ Len(Tail(s)) = Len(s) - 1 /\ Head(s) = s[1]
      /\ \A i \in 1 .. Len(Tail(s)) : Tail(s)[i] = s[i + 1]
  BY <1>1, HeadTailProperties
<1>3. Len(s) \in Nat /\ DOMAIN s = 1 .. Len(s) /\ DOMAIN Tail(s) = 1 .. Len(Tail(s))
  BY <1>1, <1>2
<1>4. ASSUME NEW k \in DOMAIN s, k # 1
      PROVE  \E j \in DOMAIN Tail(s) : Tail(s)[j] = s[k]
  <2>1. k - 1 \in 1 .. Len(Tail(s)) /\ (k - 1) + 1 = k
    BY <1>2, <1>3, <1>4
  <2> QED
    BY <1>2, <1>3, <2>1
<1> QED
  BY <1>2, <1>4 DEF IsList

\* A successful response is on file.
LEMMA SavedTrue ==
  ASSUME NEW d, Tables(d), RawOk(d), NEW r \in Runs, NEW endpoint, NEW body
  PROVE  OkRow(SaveRaw(d, r, endpoint, TRUE, body), r, endpoint)
<1>1. PICK ok : ok = TRUE
  BY Zenon
<1>2. OkRow(SaveRaw(d, r, endpoint, ok, body), r, endpoint)
  BY <1>1, SavedOk, Zenon
<1> QED
  BY <1>1, <1>2, Zenon

LEMMA AnsweredComplete ==
  ASSUME FoundationInv, CompleteInv, NEW p \in Procs, Waiting(p),
         proc[p].step \notin OrderSteps, NEW body, db' = AnswerOf(proc[p], body),
         proc[p].step = "buying-power" => body = Head(proc[p].todo),
         \/ FailRun(p)
         \/ /\ proc' = [proc EXCEPT ![p] = Done(p)]
            /\ status' = status /\ explained' = explained
  PROVE  CompleteInv'
<1> DEFINE x == proc[p]
           saved == SaveRaw(db, x.run, x.step, TRUE, body)
           y == Done(p)
<1>1. /\ db' = Normalized(saved, x.run, x.step, body)
      /\ x.step \notin OrderSteps
  BY DEF AnswerOf
<1>2. /\ ProcOk(x) /\ Tables(db) /\ RawOk(db) /\ x.run \in Runs /\ x.step # "idle"
      /\ x.step \in WorkSteps /\ x.todo # <<>>
  BY ActiveFacts
<1>3. LedgerOk(db) /\ Ready(db, x)
  BY <1>2 DEF CompleteInv
<1>4. OkRow(saved, x.run, x.step)
  BY <1>2, SavedTrue, Zenon
<1>12. PICK ok : saved = SaveRaw(db, x.run, x.step, ok, body)
  BY Zenon
<1>13. x.step = "buying-power" => body = Head(x.todo)
  OBVIOUS
<1> HIDE DEF saved
<1>5. /\ LedgerOk(saved) /\ Stays(db, saved)
      /\ \A q : NoGapOf(db, q) => NoGapOf(saved, q)
  BY <1>2, <1>3, <1>12, SavedLedger
<1>6. x.step \in WorkSteps \ OrderSteps
  BY <1>1, <1>2
<1>7. /\ LedgerOk(db') /\ Stays(saved, db')
      /\ \A q : NoGapOf(saved, q) => NoGapOf(db', q)
      /\ x.step = "buying-power" => CurRow(db', x.run, body)
  <2>1. PICK e : e = db'
    OBVIOUS
  <2> HIDE DEF x
  <2>2. e = Normalized(saved, x.run, x.step, body)
    BY <1>1, <2>1
  <2>3. /\ LedgerOk(e) /\ Stays(saved, e)
        /\ \A q : NoGapOf(saved, q) => NoGapOf(e, q)
        /\ x.step = "buying-power" => CurRow(e, x.run, body)
    BY <1>5, <1>6, <2>2, NormalizedLedger
  <2> QED
    BY <2>1, <2>3
<1>8. Stays(db, db') /\ \A q : NoGapOf(db, q) => NoGapOf(db', q)
  BY <1>5, <1>7, StaysMore
<1>9. Ready(db', y)
  <2>1. x.step # "orders-open" /\ x.step \notin {"orders-closed", "details"}
    BY <1>1 DEF OrderSteps
  <2>2. \A f \in Passed(x.step) : OkRow(db', x.run, f)
    BY <1>2, <1>3, <1>8, RowsStay DEF Ready
  <2>3. OkRow(db', x.run, x.step)
    BY <1>2, <1>4, <1>7, RowsStay
  <2>4. x.step \in Late => \A c \in Cur : CurRow(db', x.run, c)
    BY <1>2, <1>3, <1>8, RowsStay DEF Ready
  <2>5. ASSUME x.step = "buying-power"
        PROVE  /\ IsList(Tail(x.todo))
               /\ \A c \in Cur : CurRow(db', x.run, c)
                    \/ \E k \in DOMAIN Tail(x.todo) : Tail(x.todo)[k] = c
    <3> DEFINE todo == x.todo
    <3>1. /\ IsList(todo) /\ todo # <<>> /\ CurRow(db', x.run, Head(todo))
          /\ \A c \in Cur : CurRow(db, x.run, c) \/ \E k \in DOMAIN todo : todo[k] = c
      BY <1>2, <1>3, <1>7, <1>13, <2>5 DEF Ready
    <3>2. \A c : CurRow(db, x.run, c) => CurRow(db', x.run, c)
      BY <1>2, <1>8, RowsStay
    <3> HIDE DEF todo
    <3>3. /\ IsList(Tail(todo))
          /\ \A k \in DOMAIN todo : todo[k] = Head(todo)
                \/ \E j \in DOMAIN Tail(todo) : Tail(todo)[j] = todo[k]
      BY <3>1, TailHas
    <3>4. ASSUME NEW c \in Cur
          PROVE  CurRow(db', x.run, c) \/ \E k \in DOMAIN Tail(todo) : Tail(todo)[k] = c
      <4>1. CASE CurRow(db, x.run, c)
        BY <3>2, <4>1
      <4>2. CASE \E k \in DOMAIN todo : todo[k] = c
        <5>1. PICK k \in DOMAIN todo : todo[k] = c
          BY <4>2
        <5>2. c = Head(todo) \/ \E j \in DOMAIN Tail(todo) : Tail(todo)[j] = c
          BY <3>3, <5>1
        <5> QED
          BY <3>1, <5>2
      <4> QED
        BY <3>1, <4>1, <4>2
    <3> QED
      BY <3>3, <3>4 DEF todo
  <2> HIDE DEF y
  <2> QED
    BY <1>2, <2>1, <2>2, <2>3, <2>4, <2>5, DoneReady DEF y
<1>10. CASE FailRun(p)
  BY <1>2, <1>7, <1>8, <1>10, FailComplete
<1>11. CASE proc' = [proc EXCEPT ![p] = y] /\ status' = status /\ explained' = explained
  <2> HIDE DEF y
  <2> QED
    BY <1>2, <1>7, <1>8, <1>9, <1>11, CompleteStep
<1> QED
  BY <1>10, <1>11

LEMMA AnswerComplete ==
  ASSUME FoundationInv, CompleteInv, NEW p \in Procs, Answer(p)
  PROVE  CompleteInv'
<1> DEFINE body == IF proc[p].step \in {"buying-power", "sellable-quantity"}
                   THEN Head(proc[p].todo) ELSE ""
<1>1. /\ Waiting(p) /\ proc[p].step \notin OrderSteps
      /\ db' = AnswerOf(proc[p], body) /\ proc' = [proc EXCEPT ![p] = Done(p)]
      /\ status' = status /\ explained' = explained
      /\ proc[p].step = "buying-power" => body = Head(proc[p].todo)
  BY DEF Answer, OrderSteps, AnswerOf
<1> HIDE DEF body
<1> QED
  BY <1>1, AnsweredComplete

LEMMA AccountsComplete ==
  ASSUME FoundationInv, CompleteInv, NEW p \in Procs, AnswerAccounts(p)
  PROVE  CompleteInv'
<1>1. /\ Waiting(p) /\ proc[p].step \notin OrderSteps /\ proc[p].step # "buying-power"
      /\ \E several \in BOOLEAN :
           /\ db' = AnswerOf(proc[p], several)
           /\ \/ FailRun(p)
              \/ /\ proc' = [proc EXCEPT ![p] = Done(p)]
                 /\ status' = status /\ explained' = explained
  BY AccountsAre
<1> QED
  BY <1>1, AnsweredComplete

\* A page of orders that is stored is on file for its run.
LEMMA FetchedComplete ==
  ASSUME FoundationInv, CompleteInv, NEW p \in Procs, proc[p].step \in OrderSteps,
         NEW ok, NEW page, db' = SaveRaw(db, proc[p].run, proc[p].step, ok, page),
         OkRow(db', proc[p].run, proc[p].step),
         NEW y, y.step = proc[p].step, y.run = proc[p].run, y.stage \in {"request", "orders"},
         proc' = [proc EXCEPT ![p] = y], status' = status, explained' = explained
  PROVE  CompleteInv'
<1>1. proc[p].step # "idle" /\ proc[p].step \notin Late \cup {"buying-power"}
  BY DEF OrderSteps, Late
<1>2. RawOk(db) /\ proc[p].run \in Runs /\ LedgerOk(db) /\ Ready(db, proc[p])
  BY <1>1, ActiveFacts DEF CompleteInv
<1>3. /\ Stays(db, db') /\ LedgerOk(db') /\ \A r : NoGapOf(db, r) => NoGapOf(db', r)
  BY <1>2, SavedLedger
<1>4. \A f \in Passed(y.step) : OkRow(db', y.run, f)
  BY <1>2, <1>3, RowsStay DEF Ready
<1>5. Ready(db', y)
  BY <1>1, <1>4 DEF Ready, Late
<1> QED
  BY <1>1, <1>3, <1>5, CompleteStep

LEMMA PageComplete ==
  ASSUME FoundationInv, CompleteInv, NEW p \in Procs, FetchPage(p)
  PROVE  CompleteInv'
<1> PICK silent \in Silences : Fetches(p, silent)
  BY DEF FetchPage, Fetches
<1> DEFINE x == proc[p]
           left == Listing(x.step = "orders-open", x.pages, silent)
<1>0. Waiting(p) /\ x.step \in OrderSteps
  BY DEF FetchPage, OrderSteps
<1>1. /\ ProcOk(x) /\ x.run \in Runs /\ x.step # "idle" /\ x.stage = "request"
      /\ Tables(db) /\ RawOk(db) /\ LedgerOk(db)
  BY <1>0, ActiveFacts DEF CompleteInv
<1>3. PICK n \in 0 .. Len(left) :
        /\ db' = SaveRaw(db, x.run, x.step, TRUE, SubSeq(left, 1, n))
        /\ \/ /\ proc' = [proc EXCEPT ![p].pages = Append(@, SubSeq(left, 1, n)),
                                      ![p].stage = "orders"]
              /\ status' = status /\ explained' = explained
           \/ /\ proc' = [proc EXCEPT ![p].pages = Append(@, SubSeq(left, 1, n))]
              /\ status' = status /\ explained' = explained
           \/ FailRun(p)
  BY DEF Fetches
<1> DEFINE page == SubSeq(left, 1, n)
           stored == [x EXCEPT !.pages = Append(@, page), !.stage = "orders"]
           more == [x EXCEPT !.pages = Append(@, page)]
<1>5. /\ stored.step = x.step /\ stored.run = x.run /\ stored.stage = "orders"
      /\ more.step = x.step /\ more.run = x.run /\ more.stage = "request"
  <2> HIDE DEF page
  <2> QED
    BY <1>1 DEF ProcOk
<1>6. PICK ok : db' = SaveRaw(db, x.run, x.step, ok, page)
  BY <1>3, Zenon
<1>7. OkRow(db', x.run, x.step)
  <2>1. OkRow(SaveRaw(db, x.run, x.step, TRUE, page), x.run, x.step)
    BY <1>1, SavedTrue, Zenon
  <2> QED
    BY <1>3, <2>1, Zenon
<1>8. \/ proc' = [proc EXCEPT ![p] = stored] /\ status' = status /\ explained' = explained
      \/ proc' = [proc EXCEPT ![p] = more] /\ status' = status /\ explained' = explained
      \/ FailRun(p)
  BY <1>3
<1> HIDE DEF page, left, stored, more
<1>9. CASE \/ proc' = [proc EXCEPT ![p] = stored] /\ status' = status /\ explained' = explained
           \/ proc' = [proc EXCEPT ![p] = more] /\ status' = status /\ explained' = explained
  BY <1>0, <1>5, <1>6, <1>7, <1>9, FetchedComplete
<1>10. CASE FailRun(p)
  <2>1. /\ Stays(db, db') /\ LedgerOk(db') /\ \A r : NoGapOf(db, r) => NoGapOf(db', r)
    BY <1>1, <1>6, SavedLedger
  <2> QED
    BY <1>1, <1>10, <2>1, FailComplete
<1> QED
  BY <1>8, <1>9, <1>10

LEMMA DetailComplete ==
  ASSUME FoundationInv, CompleteInv, NEW p \in Procs, FetchDetail(p)
  PROVE  CompleteInv'
<1> PICK silent \in Silences : FetchesOne(p, silent)
  BY DEF FetchDetail, FetchesOne
<1> DEFINE x == proc[p]
           page == <<Report(Head(x.todo), silent)>>
           y == [x EXCEPT !.pages = <<page>>, !.stage = "orders"]
<1>0. PICK ok : db' = SaveRaw(db, x.run, x.step, ok, page)
  BY Zenon DEF FetchesOne
<1>1. /\ x.step = "details" /\ Waiting(p)
      /\ proc' = [proc EXCEPT ![p] = y] /\ explained' = explained /\ status' = status
  BY DEF FetchesOne
<1>2. ProcOk(x) /\ Tables(db) /\ RawOk(db) /\ x.run \in Runs /\ x.step \in OrderSteps
  BY <1>1, ActiveFacts DEF OrderSteps
<1>3. OkRow(db', x.run, x.step)
  <2>1. OkRow(SaveRaw(db, x.run, x.step, TRUE, page), x.run, x.step)
    BY <1>2, SavedTrue, Zenon
  <2>2. db' = SaveRaw(db, x.run, x.step, TRUE, page)
    BY <1>1, Zenon DEF FetchesOne
  <2> QED
    BY <2>1, <2>2, Zenon
<1>5. y.step = x.step /\ y.run = x.run /\ y.stage = "orders"
  <2> HIDE DEF page
  <2> QED
    BY <1>2 DEF ProcOk
<1> HIDE DEF y, page
<1> QED
  BY <1>0, <1>1, <1>2, <1>3, <1>5, FetchedComplete

IsJoined(u, s, t) == u = s \o t

LEMMA ConcatAny ==
  ASSUME NEW s, IsList(s), NEW t, IsList(t), NEW u, IsJoined(u, s, t)
  PROVE  /\ IsList(u) /\ Len(s) \in Nat /\ Len(t) \in Nat
         /\ DOMAIN s = 1 .. Len(s) /\ DOMAIN t = 1 .. Len(t)
         /\ DOMAIN u = 1 .. (Len(s) + Len(t))
         /\ \A i \in 1 .. Len(s) : u[i] = s[i]
         /\ \A i \in 1 .. Len(t) : u[Len(s) + i] = t[i]
<1>1. PICK S : s \in Seq(S)
  BY DEF IsList
<1>2. PICK T : t \in Seq(T)
  BY DEF IsList
<1> DEFINE U == S \cup T
<1>3. s \in Seq(U) /\ t \in Seq(U)
  BY <1>1, <1>2
<1> HIDE DEF U
<1>0. u = s \o t
  BY DEF IsJoined
<1>4. /\ s \o t \in Seq(U) /\ Len(s \o t) = Len(s) + Len(t)
      /\ \A i \in 1 .. Len(s) + Len(t) : (s \o t)[i] = IF i <= Len(s) THEN s[i] ELSE t[i - Len(s)]
  BY <1>3, ConcatProperties
<1>5. /\ Len(s) \in Nat /\ Len(t) \in Nat /\ DOMAIN s = 1 .. Len(s) /\ DOMAIN t = 1 .. Len(t)
      /\ DOMAIN (s \o t) = 1 .. Len(s \o t)
  BY <1>3, <1>4
<1>6. ASSUME NEW i \in 1 .. Len(t) PROVE (s \o t)[Len(s) + i] = t[i]
  <2>1. /\ Len(s) + i \in 1 .. Len(s) + Len(t) /\ ~(Len(s) + i <= Len(s))
        /\ (Len(s) + i) - Len(s) = i
    BY <1>5
  <2> QED
    BY <1>4, <2>1
<1>7. ASSUME NEW i \in 1 .. Len(s) PROVE (s \o t)[i] = s[i]
  <2>1. i \in 1 .. Len(s) + Len(t) /\ i <= Len(s)
    BY <1>5
  <2> QED
    BY <1>4, <2>1
<1> QED
  BY <1>0, <1>4, <1>5, <1>6, <1>7 DEF IsList

\* Order rows that a run adds.
LEMMA OrdersLedger ==
  ASSUME NEW d, LedgerOk(d), NEW run \in Runs, NEW page, IsList(page),
         NEW e, e = IngestOrders(d, run, page)
  PROVE  /\ LedgerOk(e) /\ Stays(d, e)
         /\ \A r : r # run /\ NoGapOf(d, r) => NoGapOf(e, r)
         /\ \A j \in DOMAIN page : OrderRow(e, run, page[j].order)
<1> DEFINE row(j) == [run |-> run, order |-> page[j].order, settle |-> page[j].settle]
           new == [j \in DOMAIN page |-> row(j)]
           n == Len(d.orders)
<1>0. Tables(d) /\ IsList(d.orders)
  BY DEF LedgerOk
<1>1. e = [d EXCEPT !.orders = @ \o new]
  BY DEF IngestOrders
<1>2. /\ DOMAIN new = DOMAIN page
      /\ \A j \in DOMAIN page : new[j].run = run /\ new[j].order = page[j].order
  OBVIOUS
<1>3. IsList(new)
  <2>1. Len(page) \in Nat /\ DOMAIN page = 1 .. Len(page)
    BY DEF IsList
  <2> DEFINE S == {row(j) : j \in DOMAIN page}
  <2>2. \A j \in 1 .. Len(page) : new[j] \in S
    BY <2>1
  <2>3. new = [j \in 1 .. Len(page) |-> new[j]]
    BY <1>2, <2>1
  <2> HIDE DEF new, S
  <2>4. new \in [1 .. Len(page) -> S]
    BY <2>2, <2>3
  <2>5. new \in Seq(S)
    BY <2>1, <2>4
  <2> QED
    BY <2>5 DEF IsList
<1> HIDE DEF new
<1>4. /\ DOMAIN e = DOMAIN d /\ e.raw = d.raw /\ e.rows = d.rows /\ e.orders = d.orders \o new
      /\ e.snaps = d.snaps /\ e.deltas = d.deltas /\ e.cash = d.cash /\ e.blocks = d.blocks
  BY <1>0, <1>1 DEF Tables
<1>5. /\ IsList(e.orders) /\ n \in Nat /\ Len(new) \in Nat
      /\ DOMAIN d.orders = 1 .. n /\ DOMAIN new = 1 .. Len(new)
      /\ DOMAIN e.orders = 1 .. (n + Len(new))
      /\ \A i \in 1 .. n : e.orders[i] = d.orders[i]
      /\ \A i \in 1 .. Len(new) : e.orders[n + i] = new[i]
  <2>1. PICK s : s = d.orders
    OBVIOUS
  <2>5. IsList(s) /\ IsList(new)
    BY <1>0, <1>3, <2>1
  <2>2. PICK u : IsJoined(u, s, new)
    BY DEF IsJoined
  <2>3. /\ IsList(u) /\ Len(s) \in Nat /\ Len(new) \in Nat
        /\ DOMAIN s = 1 .. Len(s) /\ DOMAIN new = 1 .. Len(new)
        /\ DOMAIN u = 1 .. (Len(s) + Len(new))
        /\ \A i \in 1 .. Len(s) : u[i] = s[i]
        /\ \A i \in 1 .. Len(new) : u[Len(s) + i] = new[i]
    BY <2>2, <2>5, ConcatAny
  <2>4. e.orders = u /\ n = Len(s)
    BY <1>4, <2>1, <2>2 DEF IsJoined
  <2> HIDE DEF n
  <2> QED
    BY <2>1, <2>3, <2>4
<1>6. Tables(e)
  BY <1>0, <1>4 DEF Tables
<1> HIDE DEF n
<1>7. \A i \in 1 .. n : i \in DOMAIN e.orders
  BY <1>5
<1>8. ASSUME NEW i \in DOMAIN e.orders, i \notin DOMAIN d.orders
      PROVE  e.orders[i].run = run
  <2>1. i - n \in 1 .. Len(new) /\ n + (i - n) = i
    BY <1>5, <1>8
  <2> QED
    BY <1>2, <1>5, <2>1
<1>9. OfRun(d, e, run)
  BY <1>4, <1>5, <1>7, <1>8 DEF OfRun
<1>10. LedgerOk(e) /\ \A r : r # run /\ NoGapOf(d, r) => NoGapOf(e, r)
  BY <1>4, <1>5, <1>6, <1>9, NoGapOn
<1>11. Stays(d, e)
  BY <1>4, <1>5, <1>7 DEF Stays
<1>12. ASSUME NEW j \in DOMAIN page PROVE OrderRow(e, run, page[j].order)
  <2>1. j \in 1 .. Len(new) /\ n + j \in DOMAIN e.orders
    BY <1>2, <1>5
  <2>2. e.orders[n + j].run = run /\ e.orders[n + j].order = page[j].order
    BY <1>2, <1>5, <2>1
  <2> QED
    BY <2>1, <2>2 DEF OrderRow
<1> QED
  BY <1>10, <1>11, <1>12

LEMMA StoreOrdersComplete ==
  ASSUME FoundationInv, CompleteInv, NEW p \in Procs, StoreOrders(p)
  PROVE  CompleteInv'
<1> DEFINE x == proc[p]
           page == Head(x.pages)
           y == [x EXCEPT !.stage = "previous"]
           z == PageDone(p)
<1>1. /\ x.stage = "orders" /\ db' = IngestOrders(db, x.run, page)
      /\ proc' = [proc EXCEPT ![p] = IF page = <<>> THEN z ELSE y]
      /\ explained' = explained /\ status' = status
  BY DEF StoreOrders
<1>2. ProcOk(x)
  BY ActiveFacts
<1>3. x.step \in OrderSteps /\ x.step # "idle"
  BY <1>1, <1>2 DEF ProcOk, OrderSteps
<1>4. x.run \in Runs /\ LedgerOk(db) /\ Ready(db, x)
  BY <1>3, ActiveFacts DEF CompleteInv
<1>5. IsList(page)
  BY <1>1, <1>2, PageDoneOk DEF IsList
<1>6. y.step = x.step /\ y.run = x.run /\ y.stage = "previous" /\ y.pages = x.pages
  BY <1>2 DEF ProcOk
<1> HIDE DEF y, z
<1>7. /\ LedgerOk(db') /\ Stays(db, db')
      /\ \A r : r # x.run /\ NoGapOf(db, r) => NoGapOf(db', r)
      /\ \A j \in DOMAIN page : OrderRow(db', x.run, page[j].order)
  <2> HIDE DEF x, page
  <2> QED
    BY <1>1, <1>4, <1>5, OrdersLedger
<1>8. x.step \notin Late \cup {"buying-power"}
  BY <1>3 DEF OrderSteps, Late
<1>9. /\ \A f \in Passed(x.step) : OkRow(db', x.run, f)
      /\ x.step = "orders-open" => OkRow(db', x.run, "orders-open")
  BY <1>1, <1>4, <1>7, RowsStay DEF Ready
<1>10. Ready(db', y)
  <2>1. Head(y.pages) = page
    BY <1>6
  <2> HIDE DEF x, page
  <2> QED
    BY <1>6, <1>7, <1>8, <1>9, <2>1 DEF Ready, Late
<1>11. Ready(db', z)
  <2>1. Ready(db', x)
    BY <1>1, <1>8, <1>9 DEF Ready, Late
  <2> QED
    BY <1>1, <1>2, <2>1, PageDoneReady DEF z
<1>12. proc' = [proc EXCEPT ![p] = y] \/ proc' = [proc EXCEPT ![p] = z]
  BY <1>1
<1> QED
  BY <1>1, <1>3, <1>7, <1>10, <1>11, <1>12, CompleteStep

LEMMA ReadPreviousComplete ==
  ASSUME FoundationInv, CompleteInv, NEW p \in Procs, ReadPrevious(p)
  PROVE  CompleteInv'
<1> DEFINE x == proc[p]
           y == [x EXCEPT !.prev = Previous(db, NextReport(x).order), !.stage = "write"]
<1>1. /\ x.stage = "previous" /\ db' = db /\ proc' = [proc EXCEPT ![p] = y]
      /\ explained' = explained /\ status' = status
  BY DEF ReadPrevious
<1>2. ProcOk(x)
  BY ActiveFacts
<1>3. x.step \in OrderSteps /\ x.step # "idle"
  BY <1>1, <1>2 DEF ProcOk, OrderSteps
<1>4. LedgerOk(db) /\ Ready(db, x)
  BY <1>3 DEF CompleteInv
<1>5. /\ y.step = x.step /\ y.run = x.run /\ y.stage = "write" /\ y.todo = x.todo
      /\ y.pages = x.pages
  BY <1>2 DEF ProcOk
<1> HIDE DEF y
<1>6. Ready(db', y)
  BY <1>1, <1>4, <1>5 DEF Ready
<1> QED
  BY <1>1, <1>3, <1>4, <1>6, StaysSame, CompleteStep

LEMMA StoreExecutionsComplete ==
  ASSUME FoundationInv, CompleteInv, NEW p \in Procs, StoreExecutions(p)
  PROVE  CompleteInv'
<1> DEFINE x == proc[p]
           page == Head(x.pages)
<1>2. ProcOk(x) /\ PrevOk(db, x) /\ ChainsHold(db) /\ Tables(db)
  BY ActiveFacts
<1>1. /\ x.stage = "write"
      /\ \/ FailRun(p) /\ db' = db
         \/ /\ ~Collides(db, x.run, x.prev, NextReport(x))
            /\ \E n \in 1 .. Len(LeftOf(x)) :
                 /\ db' = IngestExecutions(db, x.run, x.prev, ChunkOf(x, n))
                 /\ proc' = [proc EXCEPT ![p] = AfterChunk(p, n)]
            /\ explained' = explained /\ status' = status
  BY <1>2, StoresChunk
<1>3. x.step \in OrderSteps /\ x.step # "idle"
  BY <1>1, <1>2 DEF ProcOk, OrderSteps
<1>4. x.run \in Runs /\ LedgerOk(db) /\ Ready(db, x)
  BY <1>3, ActiveFacts DEF CompleteInv
<1>5. CASE FailRun(p) /\ db' = db
  BY <1>3, <1>4, <1>5, StaysSame, FailComplete
<1>6. ASSUME ~Collides(db, x.run, x.prev, NextReport(x)), NEW n \in 1 .. Len(LeftOf(x)),
             db' = IngestExecutions(db, x.run, x.prev, ChunkOf(x, n)),
             proc' = [proc EXCEPT ![p] = AfterChunk(p, n)],
             explained' = explained, status' = status
      PROVE  CompleteInv'
  <2> DEFINE chunk == ChunkOf(x, n)
             y == AfterChunk(p, n)
             O == OrdersIn(chunk)
  <2>1. /\ IsList(chunk) /\ Len(chunk) # 0 /\ NextReport(x) = chunk[1]
        /\ DOMAIN chunk = 1 .. n /\ \A i \in DOMAIN chunk : ReportOk(chunk[i])
        /\ \A i \in 1 .. n : chunk[i] = page[x.stored + i]
    BY <1>1, <1>2, ChunkIs
  <2>3. x.prev = NoSnapshot \/ \E i \in Chain(db, chunk[1].order) : x.prev = db.snaps[i]
    BY <1>1, <1>2, <2>1 DEF PrevOk
  <2>2. /\ \A j \in DOMAIN page : OrderRow(db, x.run, page[j].order)
        /\ \A i \in DOMAIN chunk : OrderRow(db, x.run, chunk[i].order)
    <3>1. \A j \in DOMAIN page : OrderRow(db, x.run, page[j].order)
      BY <1>1, <1>4 DEF Ready
    <3>2. /\ Len(page) \in Nat /\ DOMAIN page = 1 .. Len(page) /\ x.stored \in Nat
          /\ n \in Nat /\ x.stored + n <= Len(page)
      BY <1>1, <1>2, LeftIs, ChunkIs
    <3> DEFINE k == x.stored
               m == Len(page)
    <3>3. k \in Nat /\ m \in Nat /\ n \in Nat /\ k + n <= m
      BY <3>2
    <3> HIDE DEF k, m
    <3>4. \A i \in 1 .. n : k + i \in 1 .. m
      BY <3>3
    <3>5. \A i \in DOMAIN chunk : chunk[i] = page[x.stored + i] /\ x.stored + i \in DOMAIN page
      BY <2>1, <3>2, <3>4 DEF k, m
    <3> HIDE DEF chunk, page, x
    <3> QED
      BY <3>1, <3>5
  <2>11. y = PageDone(p) \/ y = [x EXCEPT !.stored = @ + n, !.stage = "previous"]
    BY DEF AfterChunk
  <2> HIDE DEF x, y, page, chunk
  <2>13. ~Collides(db, x.run, x.prev, chunk[1]) /\ db' = IngestExecutions(db, x.run, x.prev, chunk)
    BY <1>6, <2>1 DEF chunk
  <2>4. ChainsHold(db') /\ Grew(db, db') /\ NewDeltas(db, db', x.run, O)
    BY <1>2, <2>1, <2>3, <2>13, PageKeeps
  <2>5. Tables(db') /\ Stays(db, db') /\ db'.orders = db.orders /\ db'.cash = db.cash
    BY <2>4 DEF ChainsHold, Grew, Stays
  <2>6. OfRun(db, db', x.run)
    <3>1. ASSUME NEW i \in DOMAIN db'.deltas, i \notin DOMAIN db.deltas
          PROVE  db'.deltas[i].run = x.run /\ OwnRows(db', db'.deltas[i]) # {}
      <4>1. db'.deltas[i].run = x.run /\ db'.deltas[i].order \in O
        BY <2>4, <3>1 DEF NewDeltas
      <4>2. PICK j \in DOMAIN chunk : db'.deltas[i].order = chunk[j].order
        BY <4>1 DEF OrdersIn
      <4>3. PICK k \in DOMAIN db.orders :
              db.orders[k].run = x.run /\ db.orders[k].order = chunk[j].order
        BY <2>2 DEF OrderRow
      <4>4. k \in OwnRows(db', db'.deltas[i])
        BY <2>5, <4>1, <4>2, <4>3 DEF OwnRows, RowsOf
      <4> QED
        BY <4>1, <4>4
    <3> QED
      BY <2>4, <2>5, <3>1 DEF OfRun, Grew
  <2>7. IsList(db'.orders)
    BY <1>4, <2>5 DEF LedgerOk
  <2>8. LedgerOk(db') /\ \A r : r # x.run /\ NoGapOf(db, r) => NoGapOf(db', r)
    BY <1>4, <2>5, <2>6, <2>7, NoGapOn
  <2>12. /\ x.step \notin Late \cup {"buying-power"}
         /\ \A f \in Passed(x.step) : OkRow(db', x.run, f)
         /\ x.step = "orders-open" => OkRow(db', x.run, "orders-open")
         /\ \A j \in DOMAIN page : OrderRow(db', x.run, page[j].order)
    <3>1. x.step \notin Late \cup {"buying-power"}
      BY <1>3 DEF OrderSteps, Late
    <3>2. /\ \A f \in Passed(x.step) : OkRow(db', x.run, f)
          /\ x.step = "orders-open" => OkRow(db', x.run, "orders-open")
      BY <1>1, <1>4, <2>5, RowsStay DEF Ready
    <3>3. \A j \in DOMAIN page : OrderRow(db', x.run, page[j].order)
      BY <1>4, <2>2, <2>5, RowsStay
    <3> QED
      BY <3>1, <3>2, <3>3
  <2>10. Ready(db', y)
    <3>1. CASE y = PageDone(p)
      <4>1. Ready(db', x)
        BY <2>12 DEF Ready, Late, page
      <4> QED
        BY <1>1, <1>2, <3>1, <4>1, PageDoneReady DEF x
    <3>2. CASE y = [x EXCEPT !.stored = @ + n, !.stage = "previous"]
      <4>1. /\ y.step = x.step /\ y.run = x.run /\ y.stage = "previous" /\ y.pages = x.pages
        BY <1>2, <3>2 DEF ProcOk
      <4> QED
        BY <2>12, <4>1 DEF Ready, Late, page
    <3> QED
      BY <2>11, <3>1, <3>2
  <2> QED
    BY <1>3, <1>6, <2>5, <2>8, <2>10, CompleteStep DEF x, y
<1> QED
  BY <1>1, <1>5, <1>6

LEMMA PostComplete ==
  ASSUME FoundationInv, CompleteInv, NEW p \in Procs, PostAllCash(p)
  PROVE  CompleteInv'
<1> DEFINE x == proc[p]
           y == [x EXCEPT !.step = "finish"]
<1>1. /\ x.step = "post" /\ proc' = [proc EXCEPT ![p] = y]
      /\ explained' = explained /\ status' = status
  BY DEF PostAllCash
<1>2. ProcOk(x) /\ x.step # "idle"
  BY <1>1, ActiveFacts
<1>3. x.run \in Runs /\ LedgerOk(db) /\ Ready(db, x)
  BY <1>2, ActiveFacts DEF CompleteInv
<1>4. db' = PostCash(db, x.run, TRUE)
  BY Zenon DEF PostAllCash
<1>5. /\ y.step = "finish" /\ y.run = x.run /\ y.stage = x.stage /\ x.stage = "request"
  BY <1>1, <1>2 DEF ProcOk, OrderSteps
<1> HIDE DEF y, x
<1>6. LedgerOk(db') /\ \A r : NoGapOf(db', r)
  BY <1>3, <1>4, PostLeavesNoGap
<1>7. /\ db'.raw = db.raw /\ db'.rows = db.rows /\ db'.orders = db.orders
  BY <1>3, <1>4, PostIs
<1>8. Stays(db, db')
  BY <1>7 DEF Stays
<1>9. Ready(db', y)
  <2>1. Passed("finish") = Passed("post")
    BY DEF Passed
  <2>2. "post" \in Late /\ "finish" \in Late
    BY DEF Late
  <2>3. \A f \in Passed("finish") : OkRow(db', x.run, f)
    BY <1>1, <1>3, <1>8, <2>1, RowsStay DEF Ready
  <2>4. \A c \in Cur : CurRow(db', x.run, c)
    BY <1>1, <1>3, <1>8, <2>2, RowsStay DEF Ready
  <2> QED
    BY <1>5, <1>6, <2>3, <2>4 DEF Ready
<1> QED
  BY <1>1, <1>2, <1>6, <1>8, <1>9, CompleteStep DEF x

\* A run that is finished has nothing left to explain but holdings without a currency.
LEMMA NoBlockers ==
  ASSUME NEW r, \A f \in RequiredEndpoints : OkRow(db, r, f), \A c \in Cur : CurRow(db, r, c)
  PROVE  Blockers(db, r) \subseteq Unvalued
<1>1. {f \in RequiredEndpoints :
         ~\E i \in DOMAIN db.raw[r] : db.raw[r][i].endpoint = f /\ db.raw[r][i].ok} = {}
  BY DEF OkRow
<1>2. \E c \in Asked : <<r, "buying-power", c>> \in db.rows
  <2>1. Cur # {}
    BY LedgerAssumption DEF Cur, Asked
  <2> QED
    BY <2>1 DEF Cur, CurRow
<1>3. {h \in Held(db, r) : /\ Holdings[h] # NoCurrency
                           /\ <<r, "buying-power", Holdings[h]>> \notin db.rows} = {}
  BY DEF Cur, CurRow, Asked, Held
<1>4. {<<"invalid_normalized_holding_value", s>> : s \in
         {h \in Held(db, r) : Holdings[h] = NoCurrency}} \subseteq Unvalued
  BY DEF Held, Unvalued
<1> QED
  BY <1>1, <1>2, <1>3, <1>4 DEF Blockers

LEMMA FinishComplete ==
  ASSUME FoundationInv, CompleteInv, NEW p \in Procs, Finish(p)
  PROVE  CompleteInv'
<1> DEFINE x == proc[p]
<1>1. /\ x.step = "finish" /\ proc' = [proc EXCEPT ![p] = Idle] /\ db' = db
      /\ status' = [status EXCEPT ![x.run] = "COMPLETE"]
      /\ explained' = [explained EXCEPT ![x.run] = Blockers(db, x.run)]
  BY DEF Finish
<1>2. LedgerOk(db) /\ Ready(db, x) /\ x.step # "idle"
  BY <1>1 DEF CompleteInv
<1>3. Blockers(db, x.run) \in SUBSET Unvalued
  <2>1. Passed("finish") = RequiredEndpoints /\ "finish" \in Late
    BY DEF Passed, Late
  <2>2. /\ \A f \in RequiredEndpoints : OkRow(db, x.run, f)
        /\ \A c \in Cur : CurRow(db, x.run, c)
    BY <1>1, <1>2, <2>1 DEF Ready
  <2> QED
    BY <2>2, NoBlockers
<1>4. NoGapOf(db, x.run)
  BY <1>1, <1>2 DEF Ready
<1>5. Idle.step = "idle"
  BY DEF Idle
<1> QED
  BY <1>1, <1>2, <1>3, <1>4, <1>5, StaysSame, CompleteStep

LEMMA ResolveComplete ==
  ASSUME FoundationInv, CompleteInv, NEW i \in DOMAIN db.blocks, Resolve(i)
  PROVE  CompleteInv'
<1>1. FoundationInv' /\ LedgerOk(db)
  BY ResolveStep DEF CompleteInv
<1>2. Tables(db') /\ Tables(db)
  BY <1>1 DEF FoundationInv, ChainsHold, LedgerOk
<1>3. /\ status' = status /\ proc' = proc /\ explained' = explained
      /\ db' = [db EXCEPT !.blocks[i].resolved = TRUE]
  BY DEF Resolve, ResolveBlock
<1>4. \E blocks : db' = [db EXCEPT !.blocks = blocks]
  BY <1>3
<1>5. /\ db'.raw = db.raw /\ db'.rows = db.rows /\ db'.orders = db.orders
      /\ db'.deltas = db.deltas /\ db'.cash = db.cash
  BY <1>2, <1>4 DEF Tables
<1>6. LedgerOk(db') /\ \A r : NoGapOf(db, r) => NoGapOf(db', r)
  BY <1>1, <1>2, <1>5, SameCash
<1>7. Stays(db, db')
  BY <1>5 DEF Stays
<1>8. ASSUME NEW p \in Procs, proc[p].step # "idle" PROVE Ready(db', proc[p])
  <2>1. proc[p].run \in Runs /\ Ready(db, proc[p])
    BY <1>8, ActiveFacts DEF CompleteInv
  <2> QED
    BY <1>6, <1>7, <2>1, ReadyStays
<1> QED
  BY <1>3, <1>6, <1>8 DEF CompleteInv, ExplainedOk, Unvalued

LEMMA ProcComplete ==
  ASSUME FoundationInv, CompleteInv, NEW p \in Procs, ProcNext(p)
  PROVE  CompleteInv'
<1>0. ProcOk(proc[p]) /\ (Waiting(p) => proc[p].step # "idle" /\ proc[p].stage = "request")
  BY ActiveFacts
<1>1. CASE Begin(p)
  BY <1>1, BeginComplete
<1>2. CASE RefreshToken(p)
  <2>1. Waiting(p)
    BY <1>2 DEF RefreshToken
  <2>2. PICK ok : db' = SaveRaw(db, proc[p].run, "token", ok, <<>>)
    BY <1>2, Zenon DEF RefreshToken
  <2>3. status' = status /\ proc' = proc /\ explained' = explained
    BY <1>2 DEF RefreshToken
  <2>4. proc' = [proc EXCEPT ![p] = proc[p]]
    BY <2>3 DEF FoundationInv
  <2> QED
    BY <1>0, <2>1, <2>2, <2>3, <2>4, SavedComplete
<1>3. CASE TokenExpires(p)
  BY <1>3, SameComplete DEF TokenExpires
<1>4. CASE RetryLater(p)
  <2> DEFINE y == [proc[p] EXCEPT !.tries = @ + 1]
  <2>1. /\ Waiting(p) /\ proc' = [proc EXCEPT ![p] = y] /\ db' = db
        /\ status' = status /\ explained' = explained
    BY <1>4 DEF RetryLater
  <2>2. /\ y.step = proc[p].step /\ y.run = proc[p].run /\ y.stage = proc[p].stage
        /\ y.todo = proc[p].todo
    BY <1>0 DEF ProcOk
  <2> HIDE DEF y
  <2> QED
    BY <1>0, <2>1, <2>2, SavedComplete
<1>5. CASE Refuse(p)
  <2>1. PICK ok : db' = SaveRaw(db, proc[p].run, proc[p].step, ok, <<>>)
    BY <1>5, Zenon DEF Refuse
  <2>2. Waiting(p) /\ FailRun(p)
    BY <1>5 DEF Refuse
  <2> QED
    BY <2>1, <2>2, RefuseComplete
<1>6. CASE Unusable(p)
  <2>1. PICK ok : db' = db \/ db' = SaveRaw(db, proc[p].run, proc[p].step, ok, <<>>)
    BY <1>6, Zenon DEF Unusable
  <2>2. Waiting(p) /\ FailRun(p)
    BY <1>6 DEF Unusable
  <2> QED
    BY <2>1, <2>2, RefuseComplete
<1>7. CASE Answer(p)
  BY <1>7, AnswerComplete
<1>8. CASE FetchPage(p)
  BY <1>8, PageComplete
<1>9. CASE FetchDetail(p)
  BY <1>9, DetailComplete
<1>10. CASE StoreOrders(p)
  BY <1>10, StoreOrdersComplete
<1>11. CASE ReadPrevious(p)
  BY <1>11, ReadPreviousComplete
<1>12. CASE StoreExecutions(p)
  BY <1>12, StoreExecutionsComplete
<1>13. CASE PostAllCash(p)
  BY <1>13, PostComplete
<1>14. CASE Finish(p)
  BY <1>14, FinishComplete
<1>15. CASE Crash(p)
  <2>1. /\ proc[p].step # "idle" /\ proc' = [proc EXCEPT ![p] = Idle] /\ db' = db
        /\ status' = status /\ explained' = explained /\ LedgerOk(db)
    BY <1>15 DEF Crash, CompleteInv
  <2> QED
    BY <2>1, StaysSame, EndComplete
<1>16. CASE TokenRefused(p)
  <2>1. PICK ok : db' = db \/ db' = SaveRaw(db, proc[p].run, "token", ok, <<>>)
    BY <1>16, Zenon DEF TokenRefused
  <2>2. Waiting(p) /\ FailRun(p)
    BY <1>16 DEF TokenRefused
  <2> QED
    BY <2>1, <2>2, RefuseComplete
<1>17. CASE AnswerAccounts(p)
  BY <1>17, AccountsComplete
<1> QED
  BY <1>1, <1>2, <1>3, <1>4, <1>5, <1>6, <1>7, <1>8, <1>9, <1>10, <1>11, <1>12, <1>13,
     <1>14, <1>15, <1>16, <1>17 DEF ProcNext

LEMMA CompleteStarts ==
  ASSUME FoundationInit
  PROVE  CompleteInv
<1>1. /\ db = EmptyTables /\ status = [r \in Runs |-> "none"] /\ proc = [p \in Procs |-> Idle]
      /\ explained = [r \in Runs |-> {}]
  BY DEF FoundationInit
<1>2. Tables(db)
  BY <1>1, EmptyHolds DEF ChainsHold
<1>3. db.orders = <<>> /\ db.deltas = <<>> /\ db.cash = {}
  BY <1>1 DEF EmptyTables
<1>4. IsList(<<>>) /\ DOMAIN <<>> = {} /\ Len(<<>>) = 0
  <2>1. <<>> \in Seq({})
    OBVIOUS
  <2> QED
    BY <2>1 DEF IsList
<1>5. CashOk(db)
  BY <1>3, <1>4 DEF CashOk
<1>6. DeltasOk(db)
  BY <1>3, <1>4 DEF DeltasOk
<1>7. LedgerOk(db)
  BY <1>2, <1>3, <1>4, <1>5, <1>6 DEF LedgerOk
<1>8. \A p \in Procs : proc[p].step = "idle"
  BY <1>1 DEF Idle
<1>9. \A r \in Runs : status[r] # "COMPLETE"
  BY <1>1
<1> QED
  BY <1>1, <1>7, <1>8, <1>9 DEF CompleteInv, ExplainedOk

LEMMA CompleteNextInv ==
  ASSUME FoundationInv, CompleteInv, [FoundationNext]_foundationVars
  PROVE  CompleteInv'
<1>1. CASE \E o \in Orders : PlaceOrder(o) \/ BrokerReports(o)
  BY <1>1, SameComplete DEF BrokerReports, PlaceOrder
<1>2. CASE \E p \in Procs : ProcNext(p)
  BY <1>2, ProcComplete
<1>3. CASE \E i \in DOMAIN db.blocks : Resolve(i)
  BY <1>3, ResolveComplete
<1>4. CASE \E r \in Runs : Replay(r)
  BY <1>4, SameComplete DEF Replay
<1>5. CASE UNCHANGED foundationVars
  BY <1>5, SameComplete DEF foundationVars
<1> QED
  BY <1>1, <1>2, <1>3, <1>4, <1>5 DEF FoundationNext

LEMMA CompleteInvMeans ==
  ASSUME CompleteInv
  PROVE  CompleteMeansComplete
<1>1. LedgerOk(db) /\ ExplainedOk
      /\ \A r \in Runs : status[r] = "COMPLETE" => NoGapOf(db, r)
  BY DEF CompleteInv
<1>2. ASSUME NEW i \in CashGaps(db), status[db.deltas[i].run] = "COMPLETE"
      PROVE  FALSE
  <2>1. i \in DOMAIN db.deltas /\ db.deltas[i].run \in Runs
    BY <1>1 DEF CashGaps, LedgerOk, DeltasOk
  <2> QED
    BY <1>1, <1>2, <2>1 DEF NoGapOf
<1>3. ASSUME NEW c \in db.cash, NEW i \in 1 .. c.delta
      PROVE  {e.type : e \in Expected(db.deltas[i])} = {d.type : d \in {x \in db.cash : x.delta = i}}
  <2>1. PICK m \in 0 .. Len(db.deltas) :
          /\ \A x \in db.cash : x.delta \in 1 .. m
          /\ \A j \in 1 .. m : EventsOf(db, j) = Expected(db.deltas[j])
    BY <1>1 DEF LedgerOk, CashOk
  <2>2. i \in 1 .. m
    <3>1. c.delta \in 1 .. m
      BY <2>1
    <3>2. \A k \in 1 .. m : \A j \in 1 .. k : j \in 1 .. m
      <4>1. Len(db.deltas) \in Nat
        BY <1>1 DEF LedgerOk, Tables, IsList
      <4> QED
        BY <4>1
    <3> QED
      BY <3>1, <3>2
  <2>3. EventsOf(db, i) = Expected(db.deltas[i])
    BY <2>1, <2>2
  <2>4. {e.type : e \in EventsOf(db, i)} = {d.type : d \in {x \in db.cash : x.delta = i}}
    <3> DEFINE S == {x \in db.cash : x.delta = i}
               event(x) == [type |-> x.type, amount |-> x.amount]
    <3>1. EventsOf(db, i) = {event(x) : x \in S}
      BY DEF EventsOf
    <3>2. \A x \in S : event(x).type = x.type
      OBVIOUS
    <3> HIDE DEF S, event
    <3>3. {e.type : e \in {event(x) : x \in S}} = {x.type : x \in S}
      BY <3>2
    <3> QED
      BY <3>1, <3>3 DEF S
  <2> QED
    BY <2>3, <2>4
<1>4. CompleteLeavesNoGap
  BY <1>2, <1>3 DEF CompleteLeavesNoGap
<1>5. CompleteIsExplained
  BY <1>1 DEF CompleteIsExplained, Complete, ExplainedOk
<1> QED
  BY <1>4, <1>5 DEF CompleteMeansComplete

\* COMPLETE means complete, for every interleaving of any number of processes and of
\* crashes: a complete run asked everything explain_account_state needs and for the buying
\* power of every currency it holds, so that its explanation can lack nothing but the value
\* of a holding without a currency; its own fills are in the cash ledger with the settlement
\* date it was told last, and so are the fills of runs that died before, because
\* post_execution_cash_events posts the deltas of every run.
THEOREM CompleteIsComplete == FoundationSpec => []CompleteMeansComplete
<1>1. FoundationInit => FoundationInv /\ CompleteInv
  BY FoundationStarts, CompleteStarts
<1>2. FoundationInv /\ CompleteInv /\ [FoundationNext]_foundationVars
        => FoundationInv' /\ CompleteInv'
  BY FoundationNextInv, CompleteNextInv
<1>3. CompleteInv => CompleteMeansComplete
  BY CompleteInvMeans
<1> QED
  BY <1>1, <1>2, <1>3, PTL DEF FoundationSpec

-----------------------------------------------------------------------------
(* The replay of a run                                                     *)

\* The snapshots of an order that one run stored, and the last of them.
Own(d, r, o) == {i \in Chain(d, o) : d.snaps[i].run = r}
IsLastOwn(d, r, o, i) == i \in Own(d, r, o) /\ \A j \in Own(d, r, o) : j <= i

IsBlocked(d, o) == \E i \in DOMAIN d.blocks : d.blocks[i].order = o

\* What is reported of an order never goes down along its chain.
Climbs(d, o) ==
  \A i, j \in Chain(d, o) :
     i < j => d.snaps[i].qty <= d.snaps[j].qty /\ d.snaps[i].fee <= d.snaps[j].fee
AllClimb(d) == \A o \in Orders : Climbs(d, o)

\* A database e, to which only run r was replayed, ends where r ended in d.
Agrees(d, e, r, o) ==
  \/ IsBlocked(d, o)
  \/ Own(d, r, o) = {} /\ Chain(e, o) = {}
  \/ /\ Chain(e, o) # {}
     /\ \E i \in Own(d, r, o) : /\ IsLastOwn(d, r, o, i)
                                /\ Previous(e, o).qty = d.snaps[i].qty
                                /\ Previous(e, o).fee = d.snaps[i].fee
AllAgree(d, e, r) == \A o \in Orders : Agrees(d, e, r, o)

\* A row that the process of a run has read: its run has stored nothing since.
WasRead(d, r, o, prev) ==
  \/ prev = NoSnapshot /\ Own(d, r, o) = {}
  \/ \E i \in Chain(d, o) : prev = d.snaps[i] /\ \A j \in Own(d, r, o) : j <= i

\* What one report does to the chains.
Reported(d, e, run, prev, report) ==
  /\ ChainsHold(e) /\ Grew(d, e)
  /\ \A u \in Orders : u # report.order => /\ Chain(e, u) = Chain(d, u)
                                           /\ Previous(e, u) = Previous(d, u)
  /\ \/ ~report.counted /\ e = d
     \/ report.counted /\ Repeated(prev, run, report) /\ e = d
     \/ /\ ~Repeated(prev, run, report) /\ Regressed(prev, report)
        /\ e.snaps = d.snaps /\ IsBlocked(e, report.order)
     \/ /\ report.counted /\ ~Regressed(prev, report) /\ prev = Previous(d, report.order)
        /\ Len(d.snaps) + 1 \in Nat
        /\ Chain(e, report.order) = Chain(d, report.order) \cup {Len(d.snaps) + 1}
        /\ e.snaps[Len(d.snaps) + 1] = SnapOf(run, prev, report)
        /\ Previous(e, report.order) = SnapOf(run, prev, report)

LEMMA ReportShape ==
  ASSUME NEW d, ChainsHold(d), NEW run, NEW report, ReportOk(report), NEW prev,
         prev = NoSnapshot \/ \E i \in Chain(d, report.order) : prev = d.snaps[i],
         ~Collides(d, run, prev, report),
         NEW e, e = IngestReport(d, run, prev, report)
  PROVE  Reported(d, e, run, prev, report)
<1> DEFINE n == Len(d.snaps) + 1
           block == [order |-> report.order, resolved |-> FALSE]
           snap == SnapOf(run, prev, report)
<1>1. Tables(d) /\ report.order \in Orders /\ \A o \in Orders : Ordered(d, o) /\ Telescopes(d, o)
  BY DEF ChainsHold, ReportOk
<1>2. ChainsHold(e) /\ Grew(d, e)
  BY IngestKeeps
<1>3. Tables(e) /\ \A o \in Orders : Ordered(e, o)
  BY <1>2 DEF ChainsHold
<1>4. e.snaps = d.snaps => \A u : Chain(e, u) = Chain(d, u) /\ Previous(e, u) = Previous(d, u)
  BY DEF Chain, Previous
<1>5. CASE ~report.counted \/ Repeated(prev, run, report)
  <2>1. e = d
    BY <1>5 DEF IngestReport
  <2> QED
    BY <1>2, <1>5, <2>1 DEF Reported
<1>6. CASE report.counted /\ ~Repeated(prev, run, report) /\ Regressed(prev, report)
  <2>1. e = [d EXCEPT !.blocks = Append(@, block)]
    BY <1>6 DEF IngestReport
  <2>2. e.snaps = d.snaps /\ e.blocks = Append(d.blocks, block)
    BY <1>1, <2>1 DEF Tables
  <2>3. block.order = report.order
    OBVIOUS
  <2> HIDE DEF block
  <2>4. /\ Len(d.blocks) \in Nat /\ DOMAIN e.blocks = 1 .. (Len(d.blocks) + 1)
        /\ e.blocks[Len(d.blocks) + 1] = block
    BY <1>1, <2>2, AppendAny DEF Tables
  <2>5. Len(d.blocks) + 1 \in DOMAIN e.blocks
    BY <2>4
  <2>6. IsBlocked(e, report.order)
    BY <2>3, <2>4, <2>5 DEF IsBlocked
  <2> QED
    BY <1>2, <1>4, <1>6, <2>2, <2>6 DEF Reported
<1>7. CASE report.counted /\ ~Repeated(prev, run, report) /\ ~Regressed(prev, report)
  <2>1. e = AppendSnapshot(d, run, prev, report)
    BY <1>7 DEF IngestReport
  <2>2. ~\E i \in Chain(d, report.order) : d.snaps[i].seq = prev.seq + 1
    BY <1>7 DEF Collides, Chain
  <2>3. prev = Previous(d, report.order)
    BY <1>1, <2>2, StaleIsLast
  <2>4. prev.seq \in Nat /\ prev.qty \in Int /\ prev.fee \in Int
    BY <1>1, <2>3, PreviousType
  <2>5. /\ Len(d.snaps) \in Nat /\ DOMAIN d.snaps = 1 .. Len(d.snaps) /\ DOMAIN e.snaps = 1 .. n
        /\ e.snaps[n] = snap
    BY <1>1, <2>1, <2>4, NewTables
  <2>6. snap.order = report.order /\ snap.seq = prev.seq + 1
    BY DEF SnapOf
  <2> HIDE DEF snap
  <2>7. \A i : i \in DOMAIN e.snaps <=> i \in DOMAIN d.snaps \/ i = n
    BY <2>5
  <2>8. \A i \in DOMAIN d.snaps : e.snaps[i] = d.snaps[i]
    BY <1>2 DEF Grew
  <2>9. Chain(e, report.order) = Chain(d, report.order) \cup {n}
    BY <2>5, <2>6, <2>7, <2>8 DEF Chain
  <2>10. n \in Nat /\ n > Len(d.snaps)
    BY <2>5
  <2>11. Previous(e, report.order) = snap
    <3>1. Links(d, report.order)
      BY <1>1, TelescopesIs
    <3>2. \A i \in Chain(d, report.order) : e.snaps[i] = d.snaps[i]
      BY <2>8 DEF Chain
    <3>3. e.snaps[n].seq = Previous(d, report.order).seq + 1
      BY <2>3, <2>5, <2>6
    <3> HIDE DEF n
    <3> QED
      BY <1>1, <1>3, <2>5, <2>9, <2>10, <3>1, <3>2, <3>3, LongerChain
  <2>12. ASSUME NEW u \in Orders, u # report.order
         PROVE  Chain(e, u) = Chain(d, u) /\ Previous(e, u) = Previous(d, u)
    <3>1. Chain(e, u) = Chain(d, u)
      BY <2>5, <2>6, <2>7, <2>8, <2>12 DEF Chain
    <3>2. \A i \in Chain(d, u) : e.snaps[i] = d.snaps[i]
      BY <2>8 DEF Chain
    <3> QED
      BY <1>1, <1>3, <3>1, <3>2, SameChain
  <2> QED
    BY <1>2, <1>7, <2>3, <2>5, <2>9, <2>10, <2>11, <2>12 DEF snap, Reported
<1> QED
  BY <1>5, <1>6, <1>7

\* The row read last is the highest of its chain.
LEMMA TopIsHighest ==
  ASSUME NEW d, Tables(d), NEW o, Ordered(d, o), Climbs(d, o), NEW i \in Chain(d, o)
  PROVE  /\ Previous(d, o).seq > 0 /\ Previous(d, o).seq \in Nat
         /\ Previous(d, o).qty \in Int /\ Previous(d, o).fee \in Int
         /\ d.snaps[i].qty \in Int /\ d.snaps[i].fee \in Int
         /\ d.snaps[i].qty <= Previous(d, o).qty /\ d.snaps[i].fee <= Previous(d, o).fee
<1>1. PICK k \in Chain(d, o) : (\A j \in Chain(d, o) : j <= k) /\ Previous(d, o) = d.snaps[k]
  BY PreviousIs
<1>2. /\ d.snaps[k].seq \in Nat \ {0} /\ d.snaps[k].qty \in Int /\ d.snaps[k].fee \in Int
      /\ d.snaps[i].qty \in Int /\ d.snaps[i].fee \in Int
  BY DEF Chain, Tables
<1>3. i \in Nat /\ k \in Nat
  BY ChainIs
<1>4. CASE i = k
  BY <1>1, <1>2, <1>4
<1>5. CASE i # k
  <2>1. i < k
    BY <1>1, <1>3, <1>5
  <2>2. d.snaps[i].qty <= d.snaps[k].qty /\ d.snaps[i].fee <= d.snaps[k].fee
    BY <2>1 DEF Climbs
  <2> QED
    BY <1>1, <1>2, <2>2
<1> QED
  BY <1>4, <1>5

LEMMA ReportClimbs ==
  ASSUME NEW d, ChainsHold(d), AllClimb(d), NEW run, NEW report, ReportOk(report), NEW prev,
         prev = NoSnapshot \/ \E i \in Chain(d, report.order) : prev = d.snaps[i],
         ~Collides(d, run, prev, report),
         NEW e, e = IngestReport(d, run, prev, report)
  PROVE  AllClimb(e)
<1> DEFINE o == report.order
           n == Len(d.snaps) + 1
<1>1. /\ ChainsHold(e) /\ Grew(d, e)
      /\ \A u \in Orders : u # o => Chain(e, u) = Chain(d, u)
      /\ \/ e.snaps = d.snaps
         \/ /\ ~Regressed(prev, report) /\ prev = Previous(d, o) /\ n \in Nat
            /\ Chain(e, o) = Chain(d, o) \cup {n}
            /\ e.snaps[n] = SnapOf(run, prev, report)
  <2>1. Reported(d, e, run, prev, report)
    BY ReportShape
  <2> QED
    BY <2>1 DEF Reported
<1>2. Tables(d) /\ o \in Orders /\ Ordered(d, o)
  BY DEF ChainsHold, ReportOk
<1>3. \A i \in DOMAIN d.snaps : e.snaps[i] = d.snaps[i]
  BY <1>1 DEF Grew
<1>4. \A u : \A i \in Chain(d, u) : e.snaps[i] = d.snaps[i]
  BY <1>3 DEF Chain
<1>5. ASSUME NEW u \in Orders, u # o PROVE Climbs(e, u)
  BY <1>1, <1>4, <1>5 DEF Climbs, AllClimb
<1>6. CASE e.snaps = d.snaps
  BY <1>6 DEF Climbs, AllClimb, Chain
<1>7. CASE /\ ~Regressed(prev, report) /\ prev = Previous(d, o) /\ n \in Nat
           /\ Chain(e, o) = Chain(d, o) \cup {n}
           /\ e.snaps[n] = SnapOf(run, prev, report)
  <2>1. e.snaps[n].qty = report.qty /\ e.snaps[n].fee = report.fee
    BY <1>7 DEF SnapOf
  <2>2. report.qty \in Int /\ report.fee \in Int
    BY DEF ReportOk
  <2>3. \A i \in Chain(d, o) : i < n
    BY <1>2, ChainIs
  <2>4. Climbs(d, o)
    BY <1>2 DEF AllClimb
  <2>5. ASSUME NEW i \in Chain(d, o)
        PROVE  d.snaps[i].qty <= report.qty /\ d.snaps[i].fee <= report.fee
    <3>1. /\ prev.seq > 0 /\ prev.qty \in Int /\ prev.fee \in Int
          /\ d.snaps[i].qty \in Int /\ d.snaps[i].fee \in Int
          /\ d.snaps[i].qty <= prev.qty /\ d.snaps[i].fee <= prev.fee
      BY <1>2, <1>7, <2>4, TopIsHighest
    <3>2. ~(report.qty < prev.qty) /\ ~(report.fee < prev.fee)
      BY <1>7, <3>1 DEF Regressed
    <3> QED
      BY <2>2, <3>1, <3>2
  <2>6. \A i \in Chain(d, o) : i \in Nat
    BY <1>2, ChainIs
  <2> HIDE DEF n, o
  <2>7. ASSUME NEW i \in Chain(e, o), NEW j \in Chain(e, o), i < j
        PROVE  e.snaps[i].qty <= e.snaps[j].qty /\ e.snaps[i].fee <= e.snaps[j].fee
    <3>1. i \in Chain(d, o)
      BY <1>7, <2>3, <2>6, <2>7
    <3>2. CASE j = n
      BY <1>4, <2>1, <2>5, <3>1, <3>2
    <3>3. CASE j \in Chain(d, o)
      BY <1>4, <2>4, <2>7, <3>1, <3>3 DEF Climbs
    <3> QED
      BY <1>7, <3>2, <3>3
  <2>8. Climbs(e, o)
    BY <2>7 DEF Climbs
  <2> QED
    BY <1>5, <2>8 DEF AllClimb
<1> QED
  BY <1>1, <1>6, <1>7

\* A report that does not go down is the last row of its order.
LEMMA ReportLands ==
  ASSUME NEW e, ChainsHold(e), NEW run, NEW report, ReportOk(report),
         NEW e2, e2 = IngestReport(e, run, Previous(e, report.order), report)
  PROVE  /\ Reported(e, e2, run, Previous(e, report.order), report)
         /\ report.counted /\ ~Regressed(Previous(e, report.order), report) =>
              /\ Chain(e2, report.order) # {}
              /\ Previous(e2, report.order).qty = report.qty
              /\ Previous(e2, report.order).fee = report.fee
<1> DEFINE o == report.order
           last == Previous(e, o)
<1>1. o \in Orders /\ Tables(e)
  BY DEF ReportOk, ChainsHold
<1>2. /\ last = NoSnapshot \/ \E i \in Chain(e, o) : last = e.snaps[i]
      /\ ~\E i \in Chain(e, o) : e.snaps[i].seq = last.seq + 1
  BY <1>1, LastHasNoNext
<1>3. ~Collides(e, run, last, report)
  BY <1>2 DEF Collides, Chain
<1>4. Reported(e, e2, run, last, report)
  BY <1>2, <1>3, ReportShape
<1>5. Chain(e, o) = {} => last.seq = 0
  BY DEF Previous, NoSnapshot
<1> HIDE DEF o, last
<1>6. ASSUME Repeated(last, run, report), e2 = e
      PROVE  Chain(e2, o) # {} /\ Previous(e2, o).qty = report.qty /\ Previous(e2, o).fee = report.fee
  <2>1. last.seq > 0 /\ last.qty = report.qty /\ last.fee = report.fee
    BY <1>6 DEF Repeated
  <2>2. Chain(e, o) # {}
    BY <1>5, <2>1
  <2> QED
    BY <1>6, <2>1, <2>2 DEF last
<1>7. ASSUME Previous(e2, o) = SnapOf(run, last, report), Chain(e2, o) = Chain(e, o) \cup {Len(e.snaps) + 1}
      PROVE  Chain(e2, o) # {} /\ Previous(e2, o).qty = report.qty /\ Previous(e2, o).fee = report.fee
  BY <1>7 DEF SnapOf
<1> QED
  BY <1>4, <1>6, <1>7 DEF Reported, o, last

\* What a run stores for an order is unchanged by a report of another order or run.
LEMMA SameOwn ==
  ASSUME NEW d, NEW e, Grew(d, e), NEW run, NEW o, Chain(e, o) = Chain(d, o)
  PROVE  /\ Own(e, run, o) = Own(d, run, o) /\ \A i \in Own(d, run, o) : e.snaps[i] = d.snaps[i]
         /\ IsBlocked(d, o) => IsBlocked(e, o)
<1>1. \A i \in Chain(d, o) : e.snaps[i] = d.snaps[i]
  BY DEF Grew, Chain
<1> QED
  BY <1>1 DEF Own, Grew, IsBlocked

LEMMA BlockedStays ==
  ASSUME NEW d, NEW e, Grew(d, e), NEW o, IsBlocked(d, o)
  PROVE  IsBlocked(e, o)
BY DEF Grew, IsBlocked

\* The ledger and the replay take the same report.
LEMMA ReportAgrees ==
  ASSUME NEW d, ChainsHold(d), AllClimb(d), NEW run, NEW report, ReportOk(report),
         NEW prev, WasRead(d, run, report.order, prev), ~Collides(d, run, prev, report),
         NEW d2, d2 = IngestReport(d, run, prev, report),
         NEW e, ChainsHold(e), AllAgree(d, e, run),
         NEW e2, e2 = IngestReport(e, run, Previous(e, report.order), report)
  PROVE  AllAgree(d2, e2, run)
<1> DEFINE o == report.order
           n == Len(d.snaps) + 1
           last == Previous(e, o)
<1>1. prev = NoSnapshot \/ \E i \in Chain(d, o) : prev = d.snaps[i]
  BY DEF WasRead
<1>2. Reported(d, d2, run, prev, report)
  BY <1>1, ReportShape
<1>3. /\ Reported(e, e2, run, last, report)
      /\ report.counted /\ ~Regressed(last, report) =>
           /\ Chain(e2, o) # {}
           /\ Previous(e2, o).qty = report.qty /\ Previous(e2, o).fee = report.fee
  BY ReportLands
<1>4. /\ o \in Orders /\ report.qty \in Int /\ report.fee \in Int
      /\ Tables(d) /\ Ordered(d, o) /\ Climbs(d, o)
  BY DEF ReportOk, ChainsHold, AllClimb
<1>5. Grew(d, d2)
  BY <1>2 DEF Reported
<1>6. ASSUME NEW u \in Orders, u # o PROVE Agrees(d2, e2, run, u)
  <2>1. /\ Chain(d2, u) = Chain(d, u) /\ Chain(e2, u) = Chain(e, u)
        /\ Previous(e2, u) = Previous(e, u)
    BY <1>2, <1>3, <1>6 DEF Reported
  <2>2. /\ Own(d2, run, u) = Own(d, run, u)
        /\ \A i \in Own(d, run, u) : d2.snaps[i] = d.snaps[i]
        /\ IsBlocked(d, u) => IsBlocked(d2, u)
    BY <1>5, <2>1, SameOwn
  <2>3. Agrees(d, e, run, u)
    BY DEF AllAgree
  <2> QED
    BY <2>1, <2>2, <2>3 DEF Agrees, IsLastOwn
<1>7. \A i \in Own(d, run, o) : i \in Chain(d, o) /\ i \in Nat
  BY <1>4, ChainIs DEF Own
<1>8. Agrees(d, e, run, o)
  BY <1>4 DEF AllAgree
<1>9. IsBlocked(d, o) => IsBlocked(d2, o)
  BY <1>5, BlockedStays
<1>10. Chain(e, o) = {} => last.seq = 0
  BY DEF Previous, NoSnapshot
<1> HIDE DEF o, n, last
<1>11. ASSUME report.counted, Repeated(prev, run, report), d2 = d
       PROVE  Agrees(d2, e2, run, o)
  <2>1. prev.seq > 0 /\ prev.run = run /\ prev.qty = report.qty /\ prev.fee = report.fee
    BY <1>11 DEF Repeated
  <2>2. prev # NoSnapshot
    BY <2>1 DEF NoSnapshot
  <2>3. PICK i \in Chain(d, o) : prev = d.snaps[i] /\ \A j \in Own(d, run, o) : j <= i
    BY <2>2 DEF WasRead, o
  <2>4. IsLastOwn(d, run, o, i)
    BY <2>1, <2>3 DEF IsLastOwn, Own
  <2>5. CASE IsBlocked(d, o)
    BY <1>9, <2>5 DEF Agrees
  <2>6. CASE ~IsBlocked(d, o)
    <3>1. PICK k \in Own(d, run, o) : /\ IsLastOwn(d, run, o, k)
                                      /\ last.qty = d.snaps[k].qty /\ last.fee = d.snaps[k].fee
      BY <1>8, <2>4, <2>6 DEF Agrees, IsLastOwn, last
    <3>2. k = i
      BY <1>7, <2>4, <3>1 DEF IsLastOwn
    <3>3. ~Regressed(last, report)
      BY <1>4, <2>1, <2>3, <3>1, <3>2 DEF Regressed
    <3> QED
      BY <1>3, <1>11, <2>1, <2>3, <2>4, <3>3 DEF Agrees, IsLastOwn
  <2> QED
    BY <2>5, <2>6
<1>12. ASSUME report.counted, ~Regressed(prev, report), prev = Previous(d, o), n \in Nat,
              Chain(d2, o) = Chain(d, o) \cup {n}, d2.snaps[n] = SnapOf(run, prev, report)
       PROVE  Agrees(d2, e2, run, o)
  <2>1. d2.snaps[n].qty = report.qty /\ d2.snaps[n].fee = report.fee /\ d2.snaps[n].run = run
    BY <1>12 DEF SnapOf
  <2>2. \A i \in Chain(d, o) : i \in Nat /\ i < n
    BY <1>4, ChainIs DEF n
  <2>3. IsLastOwn(d2, run, o, n)
    BY <1>12, <2>1, <2>2 DEF IsLastOwn, Own
  <2>4. CASE IsBlocked(d, o)
    BY <1>9, <2>4 DEF Agrees
  <2>5. CASE ~IsBlocked(d, o)
    <3>1. ASSUME Regressed(last, report) PROVE FALSE
      <4>1. last.seq > 0 /\ (report.qty < last.qty \/ report.fee < last.fee)
        BY <3>1 DEF Regressed
      <4>2. PICK k \in Own(d, run, o) : last.qty = d.snaps[k].qty /\ last.fee = d.snaps[k].fee
        BY <1>8, <1>10, <2>5, <4>1 DEF Agrees, last
      <4>3. k \in Chain(d, o)
        BY <1>7
      <4>4. /\ prev.seq > 0 /\ prev.qty \in Int /\ prev.fee \in Int
            /\ d.snaps[k].qty \in Int /\ d.snaps[k].fee \in Int
            /\ d.snaps[k].qty <= prev.qty /\ d.snaps[k].fee <= prev.fee
        BY <1>4, <1>12, <4>3, TopIsHighest
      <4>5. ~(report.qty < prev.qty) /\ ~(report.fee < prev.fee)
        BY <1>12, <4>4 DEF Regressed
      <4> QED
        BY <1>4, <4>1, <4>2, <4>4, <4>5
    <3>2. /\ Chain(e2, o) # {}
          /\ Previous(e2, o).qty = d2.snaps[n].qty /\ Previous(e2, o).fee = d2.snaps[n].fee
      BY <1>3, <1>12, <2>1, <3>1
    <3> QED
      BY <2>3, <3>2 DEF Agrees, IsLastOwn
  <2> QED
    BY <2>4, <2>5
<1>13. Agrees(d2, e2, run, o)
  <2>1. CASE report.counted /\ Repeated(prev, run, report) /\ d2 = d
    BY <1>11, <2>1
  <2>4. CASE ~report.counted /\ d2 = d
    <3>1. e2 = e
      BY <2>4 DEF IngestReport
    <3> QED
      BY <1>8, <2>4, <3>1
  <2>2. CASE IsBlocked(d2, o)
    BY <2>2 DEF Agrees
  <2>3. CASE /\ report.counted /\ ~Regressed(prev, report) /\ prev = Previous(d, o) /\ n \in Nat
             /\ Chain(d2, o) = Chain(d, o) \cup {n} /\ d2.snaps[n] = SnapOf(run, prev, report)
    BY <1>12, <2>3
  <2> QED
    BY <1>2, <2>1, <2>2, <2>3, <2>4 DEF Reported, o, n
<1> QED
  BY <1>6, <1>13 DEF AllAgree

\* What the other runs have stored stays theirs.
OwnStays(d, e, r) == \A o \in Orders : Own(e, r, o) = Own(d, r, o)

LEMMA OthersOwn ==
  ASSUME NEW d, NEW e, NEW run, NEW prev, NEW report, ReportOk(report),
         Reported(d, e, run, prev, report), NEW r, r # run
  PROVE  OwnStays(d, e, r)
<1> SUFFICES ASSUME NEW o \in Orders PROVE Own(e, r, o) = Own(d, r, o)
  BY DEF OwnStays
<1>1. Grew(d, e)
  BY DEF Reported
<1>2. \A i \in Chain(d, o) : e.snaps[i] = d.snaps[i]
  BY <1>1 DEF Grew, Chain
<1>3. Chain(e, o) = Chain(d, o) => Own(e, r, o) = Own(d, r, o)
  BY <1>2 DEF Own
<1>4. SnapOf(run, prev, report).run = run
  BY DEF SnapOf
<1>5. ASSUME NEW n, Chain(e, o) = Chain(d, o) \cup {n}, e.snaps[n] = SnapOf(run, prev, report)
      PROVE  Own(e, r, o) = Own(d, r, o)
  BY <1>2, <1>4, <1>5 DEF Own
<1>6. e.snaps = d.snaps => Chain(e, o) = Chain(d, o)
  BY DEF Chain
<1>7. e = d => e.snaps = d.snaps
  OBVIOUS
<1>8. CASE o # report.order
  BY <1>3, <1>8 DEF Reported
<1>9. CASE o = report.order
  BY <1>3, <1>5, <1>6, <1>7, <1>9 DEF Reported
<1> QED
  BY <1>8, <1>9

LEMMA OwnStaysMore ==
  ASSUME NEW d, NEW e, NEW f, NEW r, OwnStays(d, e, r), OwnStays(e, f, r)
  PROVE  OwnStays(d, f, r)
BY DEF OwnStays

\* The row read inside the transaction is a row that was read.
LEMMA LastWasRead ==
  ASSUME NEW d, ChainsHold(d), NEW o \in Orders, NEW r
  PROVE  /\ WasRead(d, r, o, Previous(d, o))
         /\ \A run, report : report.order = o => ~Collides(d, run, Previous(d, o), report)
<1>1. Tables(d) /\ Ordered(d, o)
  BY DEF ChainsHold
<1>2. Own(d, r, o) \subseteq Chain(d, o)
  BY DEF Own
<1>3. WasRead(d, r, o, Previous(d, o))
  BY <1>1, <1>2, PreviousIs DEF WasRead
<1>4. ~\E i \in Chain(d, o) : d.snaps[i].seq = Previous(d, o).seq + 1
  BY LastHasNoNext
<1> QED
  BY <1>3, <1>4 DEF Collides, Chain

\* The ledger d and the replay e take the same page.
BothTake(d, d2, e, e2, run, prev, page) ==
  /\ WasRead(d, run, page[1].order, prev) /\ ~Collides(d, run, prev, page[1])
  /\ d2 = IngestExecutions(d, run, prev, page)
  /\ e2 = IngestExecutions(e, run, Previous(e, page[1].order), page)

LEMMA PageAgrees ==
  ASSUME NEW d, ChainsHold(d), AllClimb(d), NEW run, NEW page, IsList(page), Len(page) # 0,
         \A i \in DOMAIN page : ReportOk(page[i]), NEW prev,
         NEW e, ChainsHold(e), AllAgree(d, e, run),
         NEW d2, NEW e2, BothTake(d, d2, e, e2, run, prev, page)
  PROVE  /\ AllClimb(d2) /\ ChainsHold(e2) /\ AllAgree(d2, e2, run)
         /\ \A r : r # run => OwnStays(d, d2, r)
<1> DEFINE n == Len(page)
           first == Previous(e, page[1].order)
           Good(k, a, b) == /\ ChainsHold(a) /\ AllClimb(a) /\ ChainsHold(b) /\ AllAgree(a, b, run)
                            /\ \A r : r # run => OwnStays(d, a, r)
<1> USE DEF BothTake
<1>0. n \in Nat \ {0} /\ DOMAIN page = 1 .. n
  BY DEF IsList
<1>1. PICK f : IsIngest(f, d, run, prev, page, n) /\ d2 = f[n]
  BY <1>0, IngestIs, IngestExists
<1>2. PICK g : IsIngest(g, e, run, first, page, n) /\ e2 = g[n]
  BY <1>0, IngestIs, IngestExists
<1>3. \A k \in 1 .. n :
        f[k] = IF k = 1 THEN IngestReport(d, run, prev, page[1])
               ELSE IngestReport(f[k - 1], run, Previous(f[k - 1], page[k].order), page[k])
  BY <1>1 DEF IsIngest
<1>4. \A k \in 1 .. n :
        g[k] = IF k = 1 THEN IngestReport(e, run, first, page[1])
               ELSE IngestReport(g[k - 1], run, Previous(g[k - 1], page[k].order), page[k])
  BY <1>2 DEF IsIngest
<1>5. ASSUME NEW a, ChainsHold(a), AllClimb(a), NEW b, ChainsHold(b), AllAgree(a, b, run),
             NEW report, ReportOk(report), NEW was, WasRead(a, run, report.order, was),
             ~Collides(a, run, was, report),
             NEW a2, a2 = IngestReport(a, run, was, report),
             NEW b2, b2 = IngestReport(b, run, Previous(b, report.order), report),
             \A r : r # run => OwnStays(d, a, r)
      PROVE  Good(0, a2, b2)
  <2>1. was = NoSnapshot \/ \E i \in Chain(a, report.order) : was = a.snaps[i]
    BY <1>5 DEF WasRead
  <2>2. Reported(a, a2, run, was, report)
    BY <1>5, <2>1, ReportShape
  <2>3. Reported(b, b2, run, Previous(b, report.order), report)
    BY <1>5, ReportLands
  <2>4. AllClimb(a2)
    BY <1>5, <2>1, ReportClimbs
  <2>5. AllAgree(a2, b2, run)
    BY <1>5, ReportAgrees
  <2>6. \A r : r # run => OwnStays(a, a2, r)
    BY <1>5, <2>2, OthersOwn
  <2>7. \A r : r # run => OwnStays(d, a2, r)
    BY <1>5, <2>6, OwnStaysMore
  <2> QED
    BY <2>2, <2>3, <2>4, <2>5, <2>7 DEF Reported
<1> DEFINE G == {k \in 1 .. n : Good(k, f[k], g[k])}
<1>6. 1 \in G
  <2>1. 1 \in 1 .. n /\ ReportOk(page[1])
    BY <1>0
  <2>2. f[1] = IngestReport(d, run, prev, page[1]) /\ g[1] = IngestReport(e, run, first, page[1])
    BY <1>3, <1>4, <2>1
  <2>3. \A r : r # run => OwnStays(d, d, r)
    BY DEF OwnStays
  <2>4. Good(0, f[1], g[1])
    <3> HIDE DEF Good
    <3> QED
      BY <1>5, <2>1, <2>2, <2>3
  <2> QED
    BY <2>1, <2>4
<1>7. ASSUME NEW k \in 1 .. n, k \in G, k < n PROVE k + 1 \in G
  <2> DEFINE a == f[k]
             b == g[k]
             report == page[k + 1]
             last == Previous(a, report.order)
  <2>1. k + 1 \in 1 .. n /\ k + 1 # 1 /\ (k + 1) - 1 = k
    BY <1>0, <1>7
  <2>2. /\ f[k + 1] = IngestReport(a, run, last, report)
        /\ g[k + 1] = IngestReport(b, run, Previous(b, report.order), report)
    BY <1>3, <1>4, <2>1
  <2>3. Good(k, a, b)
    BY <1>7
  <2>4. ReportOk(report) /\ report.order \in Orders
    BY <1>0, <2>1 DEF ReportOk
  <2>5. WasRead(a, run, report.order, last) /\ ~Collides(a, run, last, report)
    BY <2>3, <2>4, LastWasRead
  <2>6. Good(0, f[k + 1], g[k + 1])
    <3>1. ChainsHold(a) /\ AllClimb(a) /\ ChainsHold(b) /\ AllAgree(a, b, run)
          /\ \A r : r # run => OwnStays(d, a, r)
      BY <2>3
    <3> HIDE DEF Good, G, a, b, report, last
    <3> QED
      BY <1>5, <2>2, <2>4, <2>5, <3>1
  <2> QED
    BY <2>1, <2>6
<1> HIDE DEF G
<1>8. \A k \in 1 .. n : k \in G
  <2> HIDE DEF n
  <2>1. n \in Nat /\ 1 <= n
    BY <1>0
  <2> QED
    BY <1>6, <1>7, <2>1, CountUp
<1>9. n \in G
  BY <1>0, <1>8
<1>10. Good(n, f[n], g[n])
  BY <1>9 DEF G
<1> QED
  BY <1>1, <1>2, <1>10

\* Reports that are taken in one after the other, in one transaction or in several.
Takes(d, run, reports) == IngestExecutions(d, run, Previous(d, reports[1].order), reports)

LEMMA SameIngest ==
  ASSUME NEW d, NEW run, NEW prev, NEW n \in Nat \ {0}, NEW left, NEW chunk,
         \A k \in 1 .. n : chunk[k] = left[k],
         NEW f, IsIngest(f, d, run, prev, left, n), NEW g, IsIngest(g, d, run, prev, chunk, n)
  PROVE  g[n] = f[n]
<1> DEFINE next(e, s, k) == IngestReport(e[k - 1], run, Previous(e[k - 1], s[k].order), s[k])
           G == {k \in 1 .. n : g[k] = f[k]}
<1>1. \A k \in 1 .. n : /\ f[k] = IF k = 1 THEN IngestReport(d, run, prev, left[1])
                                  ELSE next(f, left, k)
                       /\ g[k] = IF k = 1 THEN IngestReport(d, run, prev, chunk[1])
                                  ELSE next(g, chunk, k)
  BY DEF IsIngest
<1>2. 1 \in G
  <2>1. 1 \in 1 .. n
    OBVIOUS
  <2> HIDE DEF next
  <2> QED
    BY <1>1, <2>1
<1>3. ASSUME NEW k \in 1 .. n, k \in G, k < n PROVE k + 1 \in G
  <2>1. k + 1 \in 1 .. n /\ k + 1 # 1 /\ (k + 1) - 1 = k
    BY <1>3
  <2>2. g[k + 1] = next(g, chunk, k + 1) /\ f[k + 1] = next(f, left, k + 1)
    <3> HIDE DEF next
    <3> QED
      BY <1>1, <2>1
  <2>3. g[k] = f[k] /\ chunk[k + 1] = left[k + 1]
    BY <1>3, <2>1
  <2> QED
    BY <2>1, <2>2, <2>3
<1> HIDE DEF G
<1>4. \A k \in 1 .. n : k \in G
  BY <1>2, <1>3, CountUp
<1>5. n \in G
  BY <1>4
<1> QED
  BY <1>5 DEF G

LEMMA TakesInTwo ==
  ASSUME NEW d, NEW run, NEW left, Len(left) \in Nat, NEW n \in Nat \ {0}, n < Len(left),
         NEW chunk, Len(chunk) = n, \A i \in 1 .. n : chunk[i] = left[i],
         NEW rest, Len(rest) = Len(left) - n,
         \A i \in 1 .. Len(rest) : rest[i] = left[n + i]
  PROVE  Takes(d, run, left) = Takes(Takes(d, run, chunk), run, rest)
<1> DEFINE all == Len(left)
           more == Len(rest)
           first == Previous(d, left[1].order)
           mid == Takes(d, run, chunk)
           next(f, s, k) == IngestReport(f[k - 1], run, Previous(f[k - 1], s[k].order), s[k])
<1>0. /\ all \in Nat \ {0} /\ more \in Nat \ {0} /\ more = all - n
      /\ chunk[1] = left[1] /\ rest[1] = left[n + 1]
  OBVIOUS
<1>1. PICK f : IsIngest(f, d, run, first, left, all) /\ Takes(d, run, left) = f[all]
  BY <1>0, IngestIs, IngestExists DEF Takes
<1>2. PICK g : IsIngest(g, d, run, first, chunk, n) /\ mid = g[n]
  BY <1>0, IngestIs, IngestExists DEF Takes
<1>3. PICK h : /\ IsIngest(h, mid, run, Previous(mid, rest[1].order), rest, more)
               /\ Takes(mid, run, rest) = h[more]
  <2> HIDE DEF mid
  <2> QED
    BY <1>0, IngestIs, IngestExists DEF Takes
<1>4. \A k \in 1 .. all : f[k] = IF k = 1 THEN IngestReport(d, run, first, left[1])
                                ELSE next(f, left, k)
  BY <1>1 DEF IsIngest
<1>5. \A k \in 1 .. n : g[k] = IF k = 1 THEN IngestReport(d, run, first, chunk[1])
                              ELSE next(g, chunk, k)
  BY <1>2 DEF IsIngest
<1>6. \A k \in 1 .. more :
        h[k] = IF k = 1 THEN IngestReport(mid, run, Previous(mid, rest[1].order), rest[1])
               ELSE next(h, rest, k)
  BY <1>3 DEF IsIngest
<1> HIDE DEF mid, all, more, first
<1>10. mid = f[n]
  <2> DEFINE F == [k \in 1 .. n |-> f[k]]
  <2>1. \A k \in 1 .. n : k \in 1 .. all /\ (k # 1 => k - 1 \in 1 .. n)
    BY <1>0
  <2>2. F = [k \in 1 .. n |-> IF k = 1 THEN IngestReport(d, run, first, left[1])
                              ELSE next(F, left, k)]
    <3>1. \A k \in 1 .. n : F[k] = f[k] /\ (k # 1 => F[k - 1] = f[k - 1])
      BY <2>1
    <3> QED
      BY <1>4, <2>1, <3>1
  <2>3. F[n] = f[n]
    BY <1>0
  <2> HIDE DEF F
  <2>4. IsIngest(F, d, run, first, left, n)
    BY <2>2 DEF IsIngest
  <2>5. g[n] = F[n]
    BY <1>2, <2>4, SameIngest
  <2> QED
    BY <1>2, <2>3, <2>5
<1> DEFINE H == {k \in 1 .. more : h[k] = f[n + k]}
<1>11. 1 \in H
  <2>1. 1 \in 1 .. more /\ n + 1 \in 1 .. all /\ n + 1 # 1 /\ (n + 1) - 1 = n
    BY <1>0
  <2>2. f[n + 1] = next(f, left, n + 1)
    <3> HIDE DEF next
    <3> QED
      BY <1>4, <2>1
  <2>3. h[1] = IngestReport(mid, run, Previous(mid, rest[1].order), rest[1])
    <3> HIDE DEF next
    <3> QED
      BY <1>6, <2>1
  <2> QED
    BY <1>0, <1>10, <2>1, <2>2, <2>3
<1>12. ASSUME NEW k \in 1 .. more, k \in H, k < more PROVE k + 1 \in H
  <2>1. /\ k + 1 \in 1 .. more /\ k + 1 # 1 /\ (k + 1) - 1 = k
        /\ n + (k + 1) \in 1 .. all /\ n + (k + 1) # 1 /\ (n + (k + 1)) - 1 = n + k
    <3> HIDE DEF H
    <3>1. k \in Nat /\ k # 0 /\ more \in Nat /\ k + 1 <= more
      BY <1>0, <1>12
    <3>2. n \in Nat /\ n # 0 /\ all \in Nat /\ more = all - n
      BY <1>0
    <3> QED
      BY <3>1, <3>2
  <2>2. h[k + 1] = next(h, rest, k + 1) /\ f[n + (k + 1)] = next(f, left, n + (k + 1))
    <3> HIDE DEF next
    <3> QED
      BY <1>4, <1>6, <2>1
  <2>3. h[k] = f[n + k] /\ rest[k + 1] = left[n + (k + 1)]
    BY <1>12, <2>1 DEF more
  <2> QED
    BY <2>1, <2>2, <2>3
<1> HIDE DEF H
<1>13. \A k \in 1 .. more : k \in H
  <2>1. more \in Nat /\ 1 <= more
    BY <1>0
  <2> QED
    BY <1>11, <1>12, <2>1, CountUp
<1>14. more \in 1 .. more /\ n + more = all
  BY <1>0
<1>15. h[more] = f[all]
  <2>1. h[more] = f[n + more]
    BY <1>13, <1>14 DEF H
  <2> QED
    BY <1>14, <2>1
<1> QED
  BY <1>1, <1>3, <1>15 DEF mid

\* The databases after each of n stored responses.
IsReplay(f, r, rows, n) ==
  f = [k \in 0 .. n |-> IF k = 0 THEN EmptyTables ELSE ReplayRow(f[k - 1], r, rows[k])]
Replayed(e, r, rows, n) == \E f : IsReplay(f, r, rows, n) /\ e = f[n]

LEMMA ReplayIs ==
  ASSUME NEW f, NEW r, NEW rows, NEW n \in Nat, IsReplay(f, r, rows, n)
  PROVE  /\ f[0] = EmptyTables
         /\ \A k \in 1 .. n : f[k] = ReplayRow(f[k - 1], r, rows[k])
<1>1. \A k \in 0 .. n : f[k] = IF k = 0 THEN EmptyTables ELSE ReplayRow(f[k - 1], r, rows[k])
  BY DEF IsReplay
<1>2. 0 \in 0 .. n /\ \A k \in 1 .. n : k \in 0 .. n /\ k # 0
  OBVIOUS
<1> QED
  BY <1>1, <1>2

LEMMA ReplayedNone ==
  ASSUME NEW r, NEW rows
  PROVE  Replayed(EmptyTables, r, rows, 0)
<1> DEFINE f == [k \in 0 .. 0 |-> EmptyTables]
<1>1. f = [k \in 0 .. 0 |-> IF k = 0 THEN EmptyTables ELSE ReplayRow(f[k - 1], r, rows[k])]
  <2>1. \A k \in 0 .. 0 : k = 0
    OBVIOUS
  <2> QED
    BY <2>1
<1>2. f[0] = EmptyTables
  OBVIOUS
<1> HIDE DEF f
<1> QED
  BY <1>1, <1>2 DEF Replayed, IsReplay

LEMMA ReplayedMore ==
  ASSUME NEW r, NEW rows, NEW n \in Nat, NEW e, Replayed(e, r, rows, n)
  PROVE  Replayed(ReplayRow(e, r, rows[n + 1]), r, rows, n + 1)
<1>1. PICK f : IsReplay(f, r, rows, n) /\ e = f[n]
  BY DEF Replayed
<1> DEFINE next(m) == ReplayRow(f[m - 1], r, rows[m])
           g == [m \in 0 .. (n + 1) |-> IF m = 0 THEN EmptyTables ELSE next(m)]
<1>2. \A m \in 0 .. n : f[m] = IF m = 0 THEN EmptyTables ELSE next(m)
  BY <1>1 DEF IsReplay
<1>3. \A m \in 0 .. n : g[m] = f[m]
  BY <1>2
<1>4. \A m \in 0 .. (n + 1) : m # 0 => g[m - 1] = f[m - 1]
  <2>1. \A m \in 0 .. (n + 1) : m # 0 => m - 1 \in 0 .. n
    OBVIOUS
  <2> HIDE DEF g
  <2> QED
    BY <1>3, <2>1
<1>5. g = [m \in 0 .. (n + 1) |-> IF m = 0 THEN EmptyTables ELSE ReplayRow(g[m - 1], r, rows[m])]
  BY <1>4
<1>6. g[n + 1] = ReplayRow(e, r, rows[n + 1])
  <2>1. n + 1 \in 0 .. (n + 1) /\ n + 1 # 0 /\ (n + 1) - 1 = n
    OBVIOUS
  <2> QED
    BY <1>1, <2>1
<1> HIDE DEF g
<1> QED
  BY <1>5, <1>6 DEF Replayed, IsReplay

\* What was replayed depends on the responses up to there.
LEMMA ReplayedSame ==
  ASSUME NEW r, NEW rows, NEW rows2, NEW n \in Nat, \A k \in 1 .. n : rows2[k] = rows[k],
         NEW e, Replayed(e, r, rows, n)
  PROVE  Replayed(e, r, rows2, n)
<1>1. PICK f : IsReplay(f, r, rows, n) /\ e = f[n]
  BY DEF Replayed
<1>2. \A k \in 0 .. n : k # 0 => rows2[k] = rows[k]
  <2>1. \A k \in 0 .. n : k # 0 => k \in 1 .. n
    OBVIOUS
  <2> QED
    BY <2>1
<1>3. IsReplay(f, r, rows2, n)
  BY <1>1, <1>2 DEF IsReplay
<1> QED
  BY <1>1, <1>3 DEF Replayed

LEMMA ReplayedOnce ==
  ASSUME NEW r, NEW rows, NEW n \in Nat, NEW e, Replayed(e, r, rows, n),
         NEW e2, Replayed(e2, r, rows, n)
  PROVE  e = e2
<1>1. PICK f : IsReplay(f, r, rows, n) /\ e = f[n]
  BY DEF Replayed
<1>2. PICK g : IsReplay(g, r, rows, n) /\ e2 = g[n]
  BY DEF Replayed
<1>3. f[0] = g[0] /\ \A k \in 1 .. n : /\ f[k] = ReplayRow(f[k - 1], r, rows[k])
                                       /\ g[k] = ReplayRow(g[k - 1], r, rows[k])
  BY <1>1, <1>2, ReplayIs
<1> DEFINE G == {k \in 0 .. n : f[k] = g[k]}
<1>4. 0 \in G
  BY <1>3
<1>5. ASSUME NEW k \in 0 .. n, k \in G, k < n PROVE k + 1 \in G
  <2>1. k + 1 \in 1 .. n /\ k + 1 \in 0 .. n /\ (k + 1) - 1 = k
    BY <1>5
  <2> QED
    BY <1>3, <1>5, <2>1
<1> HIDE DEF G
<1>6. \A k \in 0 .. n : k \in G
  BY <1>4, <1>5, CountUp
<1>7. n \in G
  BY <1>6
<1> QED
  BY <1>1, <1>2, <1>7 DEF G

LEMMA RebuiltIs ==
  ASSUME NEW r, NEW n \in Nat, n = Len(db.raw[r]), NEW e, Replayed(e, r, db.raw[r], n)
  PROVE  Rebuilt(r) = e
<1>1. Rebuilt(r) = (CHOOSE f : IsReplay(f, r, db.raw[r], n))[n]
  BY DEF Rebuilt, IsReplay
<1>2. \E f : IsReplay(f, r, db.raw[r], n)
  BY DEF Replayed
<1>3. Replayed(Rebuilt(r), r, db.raw[r], n)
  BY <1>1, <1>2 DEF Replayed
<1> QED
  BY <1>3, ReplayedOnce

\* A database that a run was replayed to holds deltas of that run only.
Sound(e, r) ==
  /\ ChainsHold(e) /\ RawOk(e) /\ LedgerOk(e)
  /\ \A i \in DOMAIN e.deltas : e.deltas[i].run = r

\* The paths that a client asks for.
Endpoints == WorkSteps \cup {"token"}

LEMMA EmptySound ==
  ASSUME NEW r
  PROVE  Sound(EmptyTables, r) /\ \A o : Chain(EmptyTables, o) = {}
<1> DEFINE e == EmptyTables
<1>1. ChainsHold(e) /\ RawOk(e) /\ Tables(e)
  BY EmptyHolds DEF ChainsHold
<1>2. e.orders = <<>> /\ e.deltas = <<>> /\ e.cash = {} /\ e.snaps = <<>>
  BY DEF EmptyTables
<1>3. IsList(<<>>) /\ DOMAIN <<>> = {} /\ Len(<<>>) = 0
  <2>1. <<>> \in Seq({})
    OBVIOUS
  <2> QED
    BY <2>1 DEF IsList
<1> HIDE DEF e
<1>4. CashOk(e) /\ DeltasOk(e)
  BY <1>2, <1>3 DEF CashOk, DeltasOk
<1>5. LedgerOk(e)
  BY <1>1, <1>2, <1>3, <1>4 DEF LedgerOk
<1> QED
  BY <1>1, <1>2, <1>3, <1>5 DEF Sound, Chain, e

\* Nothing that is said of executions changes while the logs stay.
LEMMA SameLogAgrees ==
  ASSUME NEW d, NEW e, NEW e2, NEW r, e2.snaps = e.snaps, AllAgree(d, e, r)
  PROVE  AllAgree(d, e2, r)
<1>1. \A o : Chain(e2, o) = Chain(e, o) /\ Previous(e2, o) = Previous(e, o)
  BY DEF Chain, Previous
<1> QED
  BY <1>1 DEF AllAgree, Agrees

LEMMA SavedSound ==
  ASSUME NEW e, NEW r \in Runs, Sound(e, r), NEW endpoint, NEW ok, NEW body,
         NEW s, s = SaveRaw(e, r, endpoint, ok, body)
  PROVE  Sound(s, r) /\ s.snaps = e.snaps
<1>1. ChainsHold(e) /\ RawOk(e) /\ LedgerOk(e) /\ Tables(e)
  BY DEF Sound, ChainsHold
<1>2. ChainsHold(s) /\ RawOk(s)
  BY <1>1, SaveRawKeeps
<1>3. LedgerOk(s)
  BY <1>1, SavedLedger
<1>4. s.snaps = e.snaps /\ s.deltas = e.deltas
  BY <1>1, SaveRawFields
<1> QED
  BY <1>2, <1>3, <1>4 DEF Sound

\* The response to a request that is not about orders.
LEMMA QuietRow ==
  ASSUME NEW e, NEW r \in Runs, Sound(e, r), NEW row, row.endpoint \in Endpoints \ OrderSteps,
         NEW e2, e2 = ReplayRow(e, r, row)
  PROVE  Sound(e2, r) /\ e2.snaps = e.snaps
<1> DEFINE s == SaveRaw(e, r, row.endpoint, TRUE, row.body)
<1>1. PICK ok : s = SaveRaw(e, r, row.endpoint, ok, row.body)
  BY Zenon DEF s
<1>2. e2 = s \/ (row.endpoint # "token" /\ e2 = Normalized(s, r, row.endpoint, row.body))
  BY DEF ReplayRow, OrderSteps
<1> HIDE DEF s
<1>3. Sound(s, r) /\ s.snaps = e.snaps
  BY <1>1, SavedSound
<1>4. ASSUME row.endpoint # "token", e2 = Normalized(s, r, row.endpoint, row.body)
      PROVE  Sound(e2, r) /\ e2.snaps = s.snaps
  <2>1. row.endpoint \in WorkSteps \ OrderSteps
    BY <1>4 DEF Endpoints
  <2>2. ChainsHold(s) /\ RawOk(s) /\ LedgerOk(s) /\ Tables(s)
    BY <1>3 DEF Sound, ChainsHold
  <2>3. /\ DOMAIN e2 = DOMAIN s /\ e2.raw = s.raw /\ e2.snaps = s.snaps
        /\ e2.deltas = s.deltas /\ e2.blocks = s.blocks
    BY <1>4, <2>1, <2>2, NormalizedFields
  <2>4. ChainsHold(e2) /\ RawOk(e2)
    BY <2>2, <2>3, QuietKeeps
  <2>5. LedgerOk(e2)
    BY <1>4, <2>1, <2>2, NormalizedLedger
  <2> QED
    BY <1>3, <2>3, <2>4, <2>5 DEF Sound
<1> QED
  BY <1>2, <1>3, <1>4

LEMMA OrdersSound ==
  ASSUME NEW e, NEW r \in Runs, Sound(e, r), NEW page, IsList(page),
         NEW s, s = IngestOrders(e, r, page)
  PROVE  Sound(s, r) /\ s.snaps = e.snaps /\ \A j \in DOMAIN page : OrderRow(s, r, page[j].order)
<1>1. ChainsHold(e) /\ RawOk(e) /\ LedgerOk(e) /\ Tables(e)
  BY DEF Sound, ChainsHold
<1>2. LedgerOk(s) /\ \A j \in DOMAIN page : OrderRow(s, r, page[j].order)
  BY <1>1, OrdersLedger
<1>3. /\ DOMAIN s = DOMAIN e /\ s.raw = e.raw /\ s.snaps = e.snaps
      /\ s.deltas = e.deltas /\ s.blocks = e.blocks
  BY <1>1 DEF IngestOrders, Tables
<1>4. ChainsHold(s) /\ RawOk(s)
  BY <1>1, <1>3, QuietKeeps
<1> QED
  BY <1>2, <1>3, <1>4 DEF Sound

LEMMA ExecutionsSound ==
  ASSUME NEW e, NEW r \in Runs, Sound(e, r), NEW page, IsList(page), Len(page) # 0,
         \A i \in DOMAIN page : ReportOk(page[i]),
         \A j \in DOMAIN page : OrderRow(e, r, page[j].order),
         NEW e2, e2 = IngestExecutions(e, r, Previous(e, page[1].order), page)
  PROVE  Sound(e2, r)
<1> DEFINE O == OrdersIn(page)
           prev == Previous(e, page[1].order)
<1>1. ChainsHold(e) /\ RawOk(e) /\ LedgerOk(e)
  BY DEF Sound
<1>2. page[1].order \in Orders
  <2>1. 1 \in DOMAIN page
    BY DEF IsList
  <2> QED
    BY <2>1 DEF ReportOk
<1>3. /\ prev = NoSnapshot \/ \E i \in Chain(e, page[1].order) : prev = e.snaps[i]
      /\ ~Collides(e, r, prev, page[1])
  BY <1>1, <1>2, LastHasNoNext, LastWasRead
<1> HIDE DEF prev
<1>4. ChainsHold(e2) /\ Grew(e, e2) /\ NewDeltas(e, e2, r, O)
  BY <1>1, <1>3, PageKeeps DEF prev
<1>5. Tables(e2) /\ e2.orders = e.orders /\ e2.cash = e.cash /\ e2.raw = e.raw
  BY <1>4 DEF ChainsHold, Grew
<1>6. ASSUME NEW i \in DOMAIN e2.deltas, i \notin DOMAIN e.deltas
      PROVE  e2.deltas[i].run = r /\ OwnRows(e2, e2.deltas[i]) # {}
  <2>1. e2.deltas[i].run = r /\ e2.deltas[i].order \in O
    BY <1>4, <1>6 DEF NewDeltas
  <2>2. PICK j \in DOMAIN page : e2.deltas[i].order = page[j].order
    BY <2>1 DEF OrdersIn
  <2>3. PICK k \in DOMAIN e.orders : e.orders[k].run = r /\ e.orders[k].order = page[j].order
    BY DEF OrderRow
  <2>4. k \in OwnRows(e2, e2.deltas[i])
    BY <1>5, <2>1, <2>2, <2>3 DEF OwnRows, RowsOf
  <2> QED
    BY <2>1, <2>4
<1>7. OfRun(e, e2, r)
  BY <1>4, <1>5, <1>6 DEF OfRun, Grew
<1>8. IsList(e2.orders)
  BY <1>1, <1>5 DEF LedgerOk
<1>9. LedgerOk(e2)
  BY <1>1, <1>5, <1>7, <1>8, NoGapOn
<1>10. RawOk(e2)
  BY <1>1, <1>5 DEF RawOk
<1>11. \A i \in DOMAIN e2.deltas : e2.deltas[i].run = r
  <2>1. \A i \in DOMAIN e.deltas : e.deltas[i].run = r /\ e2.deltas[i] = e.deltas[i]
    BY <1>4 DEF Sound, Grew
  <2> QED
    BY <1>6, <2>1
<1> QED
  BY <1>4, <1>9, <1>10, <1>11 DEF Sound

\* A stored page of orders, and what the executions of it are compared with.
LEMMA PageRow ==
  ASSUME NEW e, NEW r \in Runs, Sound(e, r), NEW row, row.endpoint \in OrderSteps,
         row.body \in Seq(AnyReport), NEW e2, e2 = ReplayRow(e, r, row)
  PROVE  /\ Sound(e2, r)
         /\ row.body = <<>> => e2.snaps = e.snaps
         /\ row.body # <<>> =>
              \E s : /\ Sound(s, r) /\ s.snaps = e.snaps
                     /\ e2 = IngestExecutions(s, r, Previous(s, row.body[1].order), row.body)
<1> DEFINE v == SaveRaw(e, r, row.endpoint, TRUE, row.body)
           s == IngestOrders(v, r, row.body)
           page == row.body
<1>1. PICK ok : v = SaveRaw(e, r, row.endpoint, ok, row.body)
  BY Zenon DEF v
<1>2. e2 = IF page = <<>> THEN s ELSE IngestExecutions(s, r, Previous(s, page[1].order), page)
  BY DEF ReplayRow, OrderSteps
<1> HIDE DEF v
<1>3. Sound(v, r) /\ v.snaps = e.snaps
  BY <1>1, SavedSound
<1>4. IsList(page)
  BY DEF IsList
<1>5. /\ Sound(s, r) /\ s.snaps = v.snaps
      /\ \A j \in DOMAIN page : OrderRow(s, r, page[j].order)
  BY <1>3, <1>4, OrdersSound
<1> HIDE DEF s
<1>6. CASE page = <<>>
  BY <1>2, <1>3, <1>5, <1>6
<1>7. CASE page # <<>>
  <2>1. Len(page) # 0 /\ \A i \in DOMAIN page : ReportOk(page[i])
    <3>1. \A i \in DOMAIN page : page[i] \in AnyReport
      OBVIOUS
    <3>2. Len(page) # 0
      BY <1>7
    <3> QED
      BY <3>1, <3>2, AnyReportOk
  <2>2. e2 = IngestExecutions(s, r, Previous(s, page[1].order), page)
    BY <1>2, <1>7
  <2> HIDE DEF page
  <2>3. Sound(e2, r)
    BY <1>4, <1>5, <2>1, <2>2, ExecutionsSound
  <2> QED
    BY <1>3, <1>5, <1>7, <2>2, <2>3 DEF page
<1> QED
  BY <1>6, <1>7

\* The pages in hand are the responses about orders that come after the first n.
Placed(pos, rows, n, pages) ==
  /\ pos \in [DOMAIN pages -> (n + 1) .. Len(rows)]
  /\ \A k, m \in DOMAIN pages : k < m => pos[k] < pos[m]
  /\ \A k \in DOMAIN pages : /\ rows[pos[k]].endpoint \in OrderSteps
                             /\ rows[pos[k]].body = pages[k]
  /\ \A j \in (n + 1) .. Len(rows) :
       rows[j].endpoint \in OrderSteps => \E k \in DOMAIN pages : pos[k] = j
Rest(rows, n, pages) == \E pos : Placed(pos, rows, n, pages)

\* Every response is a success, from a path that is replayed.
RowsOk(rows) == \A i \in DOMAIN rows : rows[i].ok /\ rows[i].endpoint \in Endpoints

\* The responses but the pages in hand, replayed, end where the run has come to.
Follows(d, r, pages, n, e) ==
  Replayed(e, r, d.raw[r], n) /\ Sound(e, r) /\ AllAgree(d, e, r) /\ Rest(d.raw[r], n, pages)
InStep(d, r, pages) ==
  RowsOk(d.raw[r]) /\ \E n \in 0 .. Len(d.raw[r]) : \E e : Follows(d, r, pages, n, e)

\* Responses that are not about orders are replayed without a trace in the executions.
LEMMA Advance ==
  ASSUME NEW rows, NEW r \in Runs, NEW n \in Nat, NEW m \in Nat, n <= m,
         \A j \in (n + 1) .. m : rows[j].endpoint \in Endpoints \ OrderSteps,
         NEW e, Replayed(e, r, rows, n), Sound(e, r)
  PROVE  \E e2 : Replayed(e2, r, rows, m) /\ Sound(e2, r) /\ e2.snaps = e.snaps
<1> DEFINE G == {k \in n .. m :
                   \E e2 : Replayed(e2, r, rows, k) /\ Sound(e2, r) /\ e2.snaps = e.snaps}
<1>1. n \in G
  OBVIOUS
<1>2. ASSUME NEW k \in n .. m, k \in G, k < m PROVE k + 1 \in G
  <2>1. PICK f : Replayed(f, r, rows, k) /\ Sound(f, r) /\ f.snaps = e.snaps
    BY <1>2
  <2> DEFINE row == rows[k + 1]
             g == ReplayRow(f, r, row)
  <2>2. k + 1 \in (n + 1) .. m /\ k + 1 \in n .. m /\ k \in Nat
    BY <1>2
  <2>3. row.endpoint \in Endpoints \ OrderSteps
    BY <2>2
  <2>4. Replayed(g, r, rows, k + 1)
    BY <2>1, <2>2, ReplayedMore
  <2> HIDE DEF row
  <2>5. PICK h : h = g
    OBVIOUS
  <2>6. Sound(h, r) /\ h.snaps = f.snaps
    BY <2>1, <2>3, <2>5, QuietRow
  <2> HIDE DEF g
  <2> QED
    BY <2>1, <2>2, <2>4, <2>5, <2>6
<1> HIDE DEF G
<1>3. \A k \in n .. m : k \in G
  BY <1>1, <1>2, CountUp
<1>4. m \in G
  BY <1>3
<1> QED
  BY <1>4 DEF G

\* A response is added to those of a run.
IsAdded(rows, rows2, endpoint, body) ==
  LET n == Len(rows) + 1
  IN  /\ Len(rows) \in Nat /\ DOMAIN rows = 1 .. Len(rows)
      /\ Len(rows2) = n /\ DOMAIN rows2 = 1 .. n
      /\ \A i \in 1 .. Len(rows) : rows2[i] = rows[i]
      /\ rows2[n].endpoint = endpoint /\ rows2[n].body = body

LEMMA RestSaved ==
  ASSUME NEW rows, NEW rows2, NEW endpoint, NEW body, IsAdded(rows, rows2, endpoint, body),
         endpoint \notin OrderSteps, NEW n \in 0 .. Len(rows), NEW pages, Rest(rows, n, pages)
  PROVE  Rest(rows2, n, pages)
<1> DEFINE l == Len(rows)
<1>1. /\ l \in Nat /\ Len(rows2) = l + 1 /\ \A i \in 1 .. l : rows2[i] = rows[i]
      /\ rows2[l + 1].endpoint \notin OrderSteps
  BY DEF IsAdded
<1>0. PICK pos : Placed(pos, rows, n, pages)
  BY DEF Rest
<1>2. /\ pos \in [DOMAIN pages -> (n + 1) .. l]
      /\ \A k, m \in DOMAIN pages : k < m => pos[k] < pos[m]
      /\ \A k \in DOMAIN pages : /\ rows[pos[k]].endpoint \in OrderSteps
                                 /\ rows[pos[k]].body = pages[k]
      /\ \A j \in (n + 1) .. l :
           rows[j].endpoint \in OrderSteps => \E k \in DOMAIN pages : pos[k] = j
  BY <1>0 DEF Placed
<1> HIDE DEF l
<1>3. \A j \in (n + 1) .. l : j \in 1 .. l /\ j \in (n + 1) .. (l + 1)
  BY <1>1 DEF l
<1>4. pos \in [DOMAIN pages -> (n + 1) .. (l + 1)]
  BY <1>2, <1>3
<1>5. \A k \in DOMAIN pages : rows2[pos[k]] = rows[pos[k]]
  BY <1>1, <1>2, <1>3
<1>6. \A j \in (n + 1) .. (l + 1) : j \in (n + 1) .. l \/ j = l + 1
  BY <1>1 DEF l
<1>7. \A j \in (n + 1) .. (l + 1) :
        rows2[j].endpoint \in OrderSteps => \E k \in DOMAIN pages : pos[k] = j
  BY <1>1, <1>2, <1>3, <1>6
<1>8. Placed(pos, rows2, n, pages)
  <2>1. Len(rows2) = l + 1
    BY <1>1
  <2> QED
    BY <1>2, <1>4, <1>5, <1>7, <2>1 DEF Placed
<1> QED
  BY <1>8 DEF Rest

LEMMA RestFetched ==
  ASSUME NEW rows, NEW rows2, NEW endpoint \in OrderSteps, NEW page,
         IsAdded(rows, rows2, endpoint, page),
         NEW n \in 0 .. Len(rows), NEW pages, IsList(pages), Rest(rows, n, pages)
  PROVE  Rest(rows2, n, Append(pages, page))
<1> DEFINE l == Len(rows)
           h == Len(pages)
           pages2 == Append(pages, page)
<1>1. /\ l \in Nat /\ Len(rows2) = l + 1 /\ \A i \in 1 .. l : rows2[i] = rows[i]
      /\ rows2[l + 1].endpoint \in OrderSteps /\ rows2[l + 1].body = page
  BY DEF IsAdded
<1>0. PICK pos : Placed(pos, rows, n, pages)
  BY DEF Rest
<1>2. /\ pos \in [DOMAIN pages -> (n + 1) .. l]
      /\ \A k, m \in DOMAIN pages : k < m => pos[k] < pos[m]
      /\ \A k \in DOMAIN pages : /\ rows[pos[k]].endpoint \in OrderSteps
                                 /\ rows[pos[k]].body = pages[k]
      /\ \A j \in (n + 1) .. l :
           rows[j].endpoint \in OrderSteps => \E k \in DOMAIN pages : pos[k] = j
  BY <1>0 DEF Placed
<1>3. /\ h \in Nat /\ DOMAIN pages = 1 .. h /\ DOMAIN pages2 = 1 .. (h + 1)
      /\ (\A i \in 1 .. h : pages2[i] = pages[i]) /\ pages2[h + 1] = page
  BY AppendAny
<1> HIDE DEF pages2, h
<1> DEFINE pos2 == [k \in 1 .. (h + 1) |-> IF k = h + 1 THEN l + 1 ELSE pos[k]]
<1>4. n \in Nat /\ n <= l
  BY <1>1
<1>5. \A k \in 1 .. h : k # h + 1 /\ k \in 1 .. (h + 1)
  BY <1>3
<1>6. \A k \in 1 .. (h + 1) : k \in 1 .. h \/ k = h + 1
  BY <1>3
<1>7. \A k \in 1 .. h : pos[k] \in (n + 1) .. l
  BY <1>2, <1>3
<1> HIDE DEF l
<1>8. \A j \in (n + 1) .. l : j \in 1 .. l /\ j \in (n + 1) .. (l + 1) /\ j < l + 1
  BY <1>1, <1>4
<1>9. l + 1 \in (n + 1) .. (l + 1)
  BY <1>1, <1>4
<1>10. (\A k \in 1 .. h : pos2[k] = pos[k]) /\ pos2[h + 1] = l + 1
  BY <1>3, <1>5
<1>11. pos2 \in [1 .. (h + 1) -> (n + 1) .. (l + 1)]
  BY <1>6, <1>7, <1>8, <1>9, <1>10
<1> HIDE DEF pos2
<1>12. ASSUME NEW k \in 1 .. (h + 1), NEW m \in 1 .. (h + 1), k < m PROVE pos2[k] < pos2[m]
  <2>1. k \in 1 .. h
    BY <1>3, <1>6, <1>12
  <2>2. CASE m = h + 1
    BY <1>7, <1>8, <1>10, <2>1, <2>2
  <2>3. CASE m \in 1 .. h
    BY <1>2, <1>3, <1>10, <1>12, <2>1, <2>3
  <2> QED
    BY <1>6, <2>2, <2>3
<1>13. ASSUME NEW k \in 1 .. (h + 1)
       PROVE  rows2[pos2[k]].endpoint \in OrderSteps /\ rows2[pos2[k]].body = pages2[k]
  <2>1. CASE k = h + 1
    BY <1>1, <1>3, <1>10, <2>1
  <2>2. CASE k \in 1 .. h
    <3>1. rows2[pos2[k]] = rows[pos[k]]
      BY <1>1, <1>7, <1>8, <1>10, <2>2
    <3> QED
      BY <1>2, <1>3, <2>2, <3>1
  <2> QED
    BY <1>6, <2>1, <2>2
<1>14. ASSUME NEW j \in (n + 1) .. (l + 1), rows2[j].endpoint \in OrderSteps
       PROVE  \E k \in 1 .. (h + 1) : pos2[k] = j
  <2>1. CASE j = l + 1
    <3>1. h + 1 \in 1 .. (h + 1)
      BY <1>3
    <3> QED
      BY <1>10, <2>1, <3>1
  <2>2. CASE j # l + 1
    <3>1. j \in (n + 1) .. l
      BY <1>1, <1>4, <2>2
    <3>2. rows[j].endpoint \in OrderSteps
      BY <1>1, <1>8, <1>14, <3>1
    <3>3. PICK k \in 1 .. h : pos[k] = j
      BY <1>2, <1>3, <3>1, <3>2
    <3> QED
      BY <1>5, <1>10, <3>3
  <2> QED
    BY <2>1, <2>2
<1>15. Placed(pos2, rows2, n, pages2)
  <2>1. Len(rows2) = l + 1 /\ DOMAIN pages2 = 1 .. (h + 1)
    BY <1>1, <1>3
  <2>2. /\ \A k, m \in 1 .. (h + 1) : k < m => pos2[k] < pos2[m]
        /\ \A k \in 1 .. (h + 1) : /\ rows2[pos2[k]].endpoint \in OrderSteps
                                    /\ rows2[pos2[k]].body = pages2[k]
        /\ \A j \in (n + 1) .. (l + 1) :
             rows2[j].endpoint \in OrderSteps => \E k \in 1 .. (h + 1) : pos2[k] = j
    BY <1>12, <1>13, <1>14
  <2> QED
    BY <1>11, <2>1, <2>2 DEF Placed
<1> QED
  BY <1>15 DEF Rest, pages2

\* What others did, or a step that leaves the executions alone, changes nothing of a run's own.
LEMMA AgreesOn ==
  ASSUME NEW d, NEW d2, Keeps(d, d2), NEW r, OwnStays(d, d2, r), NEW e, AllAgree(d, e, r)
  PROVE  AllAgree(d2, e, r)
<1> SUFFICES ASSUME NEW o \in Orders PROVE Agrees(d2, e, r, o)
  BY DEF AllAgree
<1>1. IsBlocked(d, o) => IsBlocked(d2, o)
  BY DEF Keeps, IsBlocked
<1>2. Own(d2, r, o) = Own(d, r, o)
  BY DEF OwnStays
<1>3. \A i \in Own(d, r, o) : d2.snaps[i] = d.snaps[i]
  BY DEF Own, Chain, Keeps
<1>4. \A i : IsLastOwn(d, r, o, i) => IsLastOwn(d2, r, o, i)
  BY <1>2 DEF IsLastOwn
<1>5. Agrees(d, e, r, o)
  BY DEF AllAgree
<1> QED
  BY <1>1, <1>2, <1>3, <1>4, <1>5 DEF Agrees

LEMMA SameOwns ==
  ASSUME NEW d, NEW d2, d2.snaps = d.snaps
  PROVE  /\ \A r : OwnStays(d, d2, r)
         /\ AllClimb(d) => AllClimb(d2)
<1>1. \A o : Chain(d2, o) = Chain(d, o)
  BY DEF Chain
<1> QED
  BY <1>1 DEF OwnStays, Own, AllClimb, Climbs

LEMMA InStepOn ==
  ASSUME NEW d, NEW d2, Keeps(d, d2), NEW r, OwnStays(d, d2, r), d2.raw[r] = d.raw[r],
         NEW pages, InStep(d, r, pages)
  PROVE  InStep(d2, r, pages)
<1>1. PICK n \in 0 .. Len(d.raw[r]) : \E e : Follows(d, r, pages, n, e)
  BY DEF InStep
<1>2. PICK e : Follows(d, r, pages, n, e)
  BY <1>1
<1>3. AllAgree(d2, e, r)
  BY <1>2, AgreesOn DEF Follows
<1>4. Follows(d2, r, pages, n, e)
  BY <1>2, <1>3 DEF Follows
<1>5. RowsOk(d2.raw[r]) /\ n \in 0 .. Len(d2.raw[r])
  BY DEF InStep
<1> QED
  BY <1>4, <1>5 DEF InStep

\* A response that is stored.
LEMMA SavedRows ==
  ASSUME NEW d, Tables(d), RawOk(d), NEW r \in Runs, NEW endpoint \in Endpoints, NEW ok, NEW body,
         NEW d2, d2 = SaveRaw(d, r, endpoint, ok, body)
  PROVE  /\ IsAdded(d.raw[r], d2.raw[r], endpoint, body)
         /\ RowsOk(d.raw[r]) /\ ok = TRUE => RowsOk(d2.raw[r])
<1> DEFINE l == Len(d.raw[r])
           n == l + 1
<1>1. /\ l \in Nat /\ DOMAIN d.raw[r] = 1 .. l /\ DOMAIN d2.raw[r] = 1 .. n
      /\ \A i \in 1 .. l : d2.raw[r][i] = d.raw[r][i]
      /\ d2.raw[r][n].endpoint = endpoint /\ d2.raw[r][n].body = body
  BY SaveRawFields
<1>2. d2.raw[r][n].ok = ok
  BY SaveRawFields
<1>3. RawOk(d2)
  BY SaveRawFields
<1>4. Len(d2.raw[r]) = n
  <2>1. PICK S : d2.raw[r] \in Seq(S)
    BY <1>3 DEF RawOk, IsList
  <2>2. Len(d2.raw[r]) \in Nat /\ DOMAIN d2.raw[r] = 1 .. Len(d2.raw[r])
    BY <2>1
  <2> HIDE DEF l
  <2> QED
    BY <1>1, <2>2
<1>5. IsAdded(d.raw[r], d2.raw[r], endpoint, body)
  BY <1>1, <1>4 DEF IsAdded
<1>6. \A i \in 1 .. n : i \in 1 .. l \/ i = n
  BY <1>1
<1> HIDE DEF n, l
<1>7. ASSUME RowsOk(d.raw[r]), ok = TRUE PROVE RowsOk(d2.raw[r])
  <2>1. \A i \in 1 .. l : d2.raw[r][i].ok /\ d2.raw[r][i].endpoint \in Endpoints
    BY <1>1, <1>7 DEF RowsOk
  <2>2. d2.raw[r][n].ok
    BY <1>2, <1>7, Zenon
  <2>3. d2.raw[r][n].endpoint \in Endpoints
    BY <1>1
  <2> QED
    BY <1>1, <1>6, <2>1, <2>2, <2>3, Zenon DEF RowsOk
<1> QED
  BY <1>5, <1>7

\* The pages in hand after a response.
PagesWith(pages, endpoint, body) ==
  IF endpoint \in OrderSteps THEN Append(pages, body) ELSE pages

LEMMA InStepSaved ==
  ASSUME NEW d, Tables(d), RawOk(d), NEW r \in Runs, NEW endpoint \in Endpoints, NEW ok, NEW body,
         NEW d2, d2 = SaveRaw(d, r, endpoint, ok, body),
         NEW pages, IsList(pages), InStep(d, r, pages)
  PROVE  ok = TRUE => InStep(d2, r, PagesWith(pages, endpoint, body))
<1> DEFINE pages2 == PagesWith(pages, endpoint, body)
           rows == d.raw[r]
           rows2 == d2.raw[r]
<1>1. IsAdded(rows, rows2, endpoint, body)
  BY SavedRows
<1>2. ok = TRUE => RowsOk(rows2)
  BY SavedRows DEF InStep
<1>3. PICK n \in 0 .. Len(rows) : \E e : Follows(d, r, pages, n, e)
  BY DEF InStep
<1>4. PICK e : Follows(d, r, pages, n, e)
  BY <1>3
<1>5. d2.snaps = d.snaps /\ d2.blocks = d.blocks
  BY SaveRawFields
<1>6. Keeps(d, d2) /\ OwnStays(d, d2, r)
  BY <1>5, SameOwns DEF Keeps
<1>7. AllAgree(d2, e, r) /\ Sound(e, r)
  BY <1>4, <1>6, AgreesOn DEF Follows
<1>8. Replayed(e, r, rows, n) /\ Rest(rows, n, pages)
  BY <1>4 DEF Follows
<1> HIDE DEF rows, rows2
<1>9. n \in Nat /\ n \in 0 .. Len(rows2) /\ \A k \in 1 .. n : rows2[k] = rows[k]
  BY <1>1 DEF IsAdded
<1>10. Replayed(e, r, rows2, n)
  BY <1>8, <1>9, ReplayedSame
<1>11. Rest(rows2, n, pages2)
  <2>1. CASE endpoint \in OrderSteps
    BY <1>1, <1>8, <2>1, RestFetched DEF PagesWith
  <2>2. CASE endpoint \notin OrderSteps
    BY <1>1, <1>8, <2>2, RestSaved DEF PagesWith
  <2> QED
    BY <2>1, <2>2
<1>12. Follows(d2, r, pages2, n, e)
  BY <1>7, <1>10, <1>11 DEF Follows, rows2
<1>13. n \in 0 .. Len(d2.raw[r])
  BY <1>9 DEF rows2
<1> QED
  BY <1>2, <1>12, <1>13 DEF InStep, rows2

\* The next page in hand is the next response about orders.
LEMMA NextPage ==
  ASSUME NEW rows, Len(rows) \in Nat, DOMAIN rows = 1 .. Len(rows), RowsOk(rows),
         NEW r \in Runs, NEW pages, IsList(pages), pages # <<>>,
         NEW n \in 0 .. Len(rows), NEW e, Replayed(e, r, rows, n), Sound(e, r),
         Rest(rows, n, pages)
  PROVE  \E m \in 1 .. Len(rows) : \E f :
            /\ Replayed(f, r, rows, m - 1) /\ Sound(f, r) /\ f.snaps = e.snaps
            /\ rows[m].endpoint \in OrderSteps /\ rows[m].body = Head(pages)
            /\ Rest(rows, m, Tail(pages))
<1> DEFINE l == Len(rows)
           h == Len(pages)
           tail == Tail(pages)
<1>1. /\ h \in Nat /\ h # 0 /\ DOMAIN pages = 1 .. h /\ Head(pages) = pages[1]
      /\ DOMAIN tail = 1 .. (h - 1) /\ \A k \in 1 .. (h - 1) : tail[k] = pages[k + 1]
  <2>1. PICK S : pages \in Seq(S)
    BY DEF IsList
  <2>2. /\ Tail(pages) \in Seq(S) /\ Len(Tail(pages)) = Len(pages) - 1 /\ Head(pages) = pages[1]
        /\ \A i \in 1 .. Len(Tail(pages)) : Tail(pages)[i] = pages[i + 1]
    BY <2>1, HeadTailProperties
  <2> QED
    BY <2>1, <2>2
<1> HIDE DEF tail, h, l
<1>2. PICK pos : Placed(pos, rows, n, pages)
  BY DEF Rest
<1>3. /\ pos \in [1 .. h -> (n + 1) .. l]
      /\ \A k, j \in 1 .. h : k < j => pos[k] < pos[j]
      /\ \A k \in 1 .. h : rows[pos[k]].endpoint \in OrderSteps /\ rows[pos[k]].body = pages[k]
      /\ \A j \in (n + 1) .. l :
           rows[j].endpoint \in OrderSteps => \E k \in 1 .. h : pos[k] = j
  BY <1>1, <1>2 DEF Placed, l
<1> DEFINE m == pos[1]
<1>4. /\ l \in Nat /\ n \in Nat /\ 1 \in 1 .. h /\ m \in (n + 1) .. l
      /\ rows[m].endpoint \in OrderSteps /\ rows[m].body = Head(pages)
  BY <1>1, <1>3 DEF l
<1> HIDE DEF m
<1>5. /\ m \in 1 .. l /\ m - 1 \in Nat /\ n <= m - 1
      /\ \A j \in (n + 1) .. (m - 1) : j \in (n + 1) .. l /\ j < m /\ j \in 1 .. l
  BY <1>4
<1>6. ASSUME NEW j \in (n + 1) .. (m - 1) PROVE rows[j].endpoint \in Endpoints \ OrderSteps
  <2>1. rows[j].endpoint \in Endpoints
    BY <1>5 DEF RowsOk, l
  <2>2. ASSUME rows[j].endpoint \in OrderSteps PROVE FALSE
    <3>1. PICK k \in 1 .. h : pos[k] = j
      BY <1>3, <1>5, <2>2
    <3>2. k = 1 \/ 1 < k
      BY <1>1
    <3>3. CASE k = 1
      BY <1>4, <1>5, <3>1, <3>3 DEF m
    <3>4. CASE 1 < k
      <4>1. m < j /\ j < m
        BY <1>3, <1>4, <1>5, <3>1, <3>4 DEF m
      <4> QED
        BY <1>4, <4>1
    <3> QED
      BY <3>2, <3>3, <3>4
  <2> QED
    BY <2>1, <2>2
<1>7. PICK f : Replayed(f, r, rows, m - 1) /\ Sound(f, r) /\ f.snaps = e.snaps
  BY <1>4, <1>5, <1>6, Advance
<1> DEFINE pos2 == [k \in 1 .. (h - 1) |-> pos[k + 1]]
<1>8. \A k \in 1 .. (h - 1) : k + 1 \in 1 .. h /\ k \in Int /\ 1 < k + 1
  BY <1>1
<1>9. \A k \in 1 .. h : k # 1 => pos[k] \in (m + 1) .. l
  <2> SUFFICES ASSUME NEW k \in 1 .. h, k # 1 PROVE pos[k] \in (m + 1) .. l
    OBVIOUS
  <2>1. 1 < k
    BY <1>1
  <2>2. m < pos[k] /\ pos[k] \in (n + 1) .. l
    BY <1>3, <1>4, <2>1 DEF m
  <2> QED
    BY <1>4, <2>2
<1>10. pos2 \in [1 .. (h - 1) -> (m + 1) .. l] /\ \A k \in 1 .. (h - 1) : pos2[k] = pos[k + 1]
  <2>1. \A k \in 1 .. (h - 1) : pos[k + 1] \in (m + 1) .. l
    <3>1. \A k \in 1 .. (h - 1) : k + 1 \in 1 .. h /\ k + 1 # 1
      BY <1>8
    <3> QED
      BY <1>9, <3>1
  <2> QED
    BY <2>1
<1> HIDE DEF pos2
<1>11. \A k, j \in 1 .. (h - 1) : k < j => pos2[k] < pos2[j]
  <2>1. \A k, j \in 1 .. (h - 1) : k < j => k + 1 < j + 1
    BY <1>8
  <2> QED
    BY <1>3, <1>8, <1>10, <2>1
<1>12. \A k \in 1 .. (h - 1) : rows[pos2[k]].endpoint \in OrderSteps /\ rows[pos2[k]].body = tail[k]
  BY <1>1, <1>3, <1>8, <1>10
<1>13. ASSUME NEW j \in (m + 1) .. l, rows[j].endpoint \in OrderSteps
       PROVE  \E k \in 1 .. (h - 1) : pos2[k] = j
  <2>1. j \in (n + 1) .. l /\ j # m
    BY <1>4
  <2>2. PICK k \in 1 .. h : pos[k] = j
    BY <1>3, <1>13, <2>1
  <2>3. k # 1
    BY <2>1, <2>2 DEF m
  <2>4. k - 1 \in 1 .. (h - 1) /\ (k - 1) + 1 = k
    BY <1>1, <2>3
  <2> QED
    BY <1>10, <2>2, <2>4
<1>14. Placed(pos2, rows, m, tail)
  BY <1>1, <1>10, <1>11, <1>12, <1>13 DEF Placed, l
<1>15. Rest(rows, m, tail)
  BY <1>14 DEF Rest
<1> QED
  BY <1>4, <1>5, <1>7, <1>15 DEF l, tail

\* In the middle of a page: these reports of it are left, and a replay that has taken in the
\* others goes on to where it is after the whole response.
Midway(d, r, pages, left) ==
  /\ RowsOk(d.raw[r])
  /\ \E n \in 0 .. Len(d.raw[r]) : \E c, e :
       /\ ChainsHold(c) /\ AllAgree(d, c, r) /\ e = Takes(c, r, left)
       /\ Replayed(e, r, d.raw[r], n) /\ Sound(e, r) /\ Rest(d.raw[r], n, Tail(pages))

\* The page in hand is the next response that a replay comes to.
LEMMA PageInHand ==
  ASSUME NEW d, RawOk(d), NEW r \in Runs,
         NEW pages \in Seq(Seq(AnyReport)), pages # <<>>, InStep(d, r, pages)
  PROVE  \E n \in 0 .. Len(d.raw[r]) : \E e :
            /\ Replayed(e, r, d.raw[r], n) /\ Sound(e, r) /\ Rest(d.raw[r], n, Tail(pages))
            /\ Head(pages) = <<>> => AllAgree(d, e, r)
            /\ Head(pages) # <<>> => \E c : /\ ChainsHold(c) /\ AllAgree(d, c, r)
                                            /\ e = Takes(c, r, Head(pages))
<1> DEFINE rows == d.raw[r]
           page == Head(pages)
<1>1. Len(rows) \in Nat /\ DOMAIN rows = 1 .. Len(rows) /\ RowsOk(rows)
  <2>1. PICK S : rows \in Seq(S)
    BY DEF RawOk, IsList
  <2> QED
    BY <2>1 DEF InStep
<1>2. PICK n \in 0 .. Len(rows) : \E e : Follows(d, r, pages, n, e)
  BY DEF InStep
<1>3. PICK e : Follows(d, r, pages, n, e)
  BY <1>2
<1>4. /\ Replayed(e, r, rows, n) /\ Sound(e, r) /\ AllAgree(d, e, r) /\ Rest(rows, n, pages)
      /\ IsList(pages) /\ page \in Seq(AnyReport)
  BY <1>3 DEF Follows, IsList
<1> HIDE DEF rows, page
<1>5. PICK m \in 1 .. Len(rows) : \E f :
         /\ Replayed(f, r, rows, m - 1) /\ Sound(f, r) /\ f.snaps = e.snaps
         /\ rows[m].endpoint \in OrderSteps /\ rows[m].body = page
         /\ Rest(rows, m, Tail(pages))
  BY <1>1, <1>4, NextPage DEF page
<1>6. PICK f :
         /\ Replayed(f, r, rows, m - 1) /\ Sound(f, r) /\ f.snaps = e.snaps
         /\ rows[m].endpoint \in OrderSteps /\ rows[m].body = page
         /\ Rest(rows, m, Tail(pages))
  BY <1>5
<1> DEFINE row == rows[m]
           h == ReplayRow(f, r, row)
<1>7. PICK g : g = h
  OBVIOUS
<1>8. Replayed(g, r, rows, m)
  <2>1. m - 1 \in Nat /\ (m - 1) + 1 = m
    BY <1>1
  <2>2. Replayed(ReplayRow(f, r, rows[(m - 1) + 1]), r, rows, (m - 1) + 1)
    BY <1>6, <2>1, ReplayedMore
  <2> QED
    BY <1>7, <2>1, <2>2
<1> HIDE DEF row
<1>9. /\ Sound(g, r)
      /\ row.body = <<>> => g.snaps = f.snaps
      /\ row.body # <<>> =>
           \E s : /\ Sound(s, r) /\ s.snaps = f.snaps
                  /\ g = IngestExecutions(s, r, Previous(s, row.body[1].order), row.body)
  <2>1. row.endpoint \in OrderSteps /\ row.body \in Seq(AnyReport)
    BY <1>4, <1>6 DEF row
  <2> QED
    BY <1>6, <1>7, <2>1, PageRow
<1>10. row.body = page
  BY <1>6 DEF row
<1> HIDE DEF h
<1>11. page = <<>> => AllAgree(d, g, r)
  BY <1>4, <1>6, <1>9, <1>10, SameLogAgrees
<1>12. ASSUME page # <<>>
       PROVE  \E s : ChainsHold(s) /\ AllAgree(d, s, r) /\ g = Takes(s, r, page)
  <2>1. PICK s : /\ Sound(s, r) /\ s.snaps = f.snaps
                 /\ g = IngestExecutions(s, r, Previous(s, page[1].order), page)
    BY <1>9, <1>10, <1>12
  <2>2. AllAgree(d, s, r) /\ ChainsHold(s)
    BY <1>4, <1>6, <2>1, SameLogAgrees DEF Sound
  <2> QED
    BY <2>1, <2>2 DEF Takes
<1>13. m \in 0 .. Len(rows)
  BY <1>1
<1> QED
  BY <1>6, <1>8, <1>9, <1>11, <1>12, <1>13 DEF rows, page

\* A page without orders.
LEMMA InStepPage ==
  ASSUME NEW d, RawOk(d), NEW r \in Runs, NEW pages \in Seq(Seq(AnyReport)), pages # <<>>,
         InStep(d, r, pages), Head(pages) = <<>>
  PROVE  InStep(d, r, Tail(pages))
<1>1. PICK n \in 0 .. Len(d.raw[r]) : \E e :
         /\ Replayed(e, r, d.raw[r], n) /\ Sound(e, r) /\ Rest(d.raw[r], n, Tail(pages))
         /\ AllAgree(d, e, r)
  BY PageInHand
<1> QED
  BY <1>1 DEF InStep, Follows

\* None of the page in hand is stored.
LEMMA MidwayStarts ==
  ASSUME NEW d, RawOk(d), NEW r \in Runs, NEW pages \in Seq(Seq(AnyReport)), pages # <<>>,
         InStep(d, r, pages), Head(pages) # <<>>
  PROVE  Midway(d, r, pages, Head(pages))
<1>1. PICK n \in 0 .. Len(d.raw[r]) : \E e :
         /\ Replayed(e, r, d.raw[r], n) /\ Sound(e, r) /\ Rest(d.raw[r], n, Tail(pages))
         /\ \E c : ChainsHold(c) /\ AllAgree(d, c, r) /\ e = Takes(c, r, Head(pages))
  BY PageInHand
<1> QED
  BY <1>1 DEF InStep, Midway

LEMMA MidwayOn ==
  ASSUME NEW d, NEW d2, Keeps(d, d2), NEW r, OwnStays(d, d2, r), d2.raw[r] = d.raw[r],
         NEW pages, NEW left, Midway(d, r, pages, left)
  PROVE  Midway(d2, r, pages, left)
<1>1. PICK n \in 0 .. Len(d.raw[r]) : \E c, e :
         /\ ChainsHold(c) /\ AllAgree(d, c, r) /\ e = Takes(c, r, left)
         /\ Replayed(e, r, d.raw[r], n) /\ Sound(e, r) /\ Rest(d.raw[r], n, Tail(pages))
  BY DEF Midway
<1>2. PICK c, e :
         /\ ChainsHold(c) /\ AllAgree(d, c, r) /\ e = Takes(c, r, left)
         /\ Replayed(e, r, d.raw[r], n) /\ Sound(e, r) /\ Rest(d.raw[r], n, Tail(pages))
  BY <1>1
<1>3. AllAgree(d2, c, r)
  BY <1>2, AgreesOn
<1>4. RowsOk(d2.raw[r]) /\ n \in 0 .. Len(d2.raw[r])
  BY DEF Midway
<1> QED
  BY <1>2, <1>3, <1>4 DEF Midway

\* The reports of one transaction, and those of the page that are then left.
IsPart(left, n, chunk, rest) ==
  /\ Len(left) \in Nat /\ n \in 1 .. Len(left)
  /\ IsList(chunk) /\ Len(chunk) = n /\ \A i \in 1 .. n : chunk[i] = left[i]
  /\ \A i \in DOMAIN chunk : ReportOk(chunk[i])
  /\ n < Len(left) => /\ Len(rest) = Len(left) - n
                      /\ \A i \in 1 .. Len(rest) : rest[i] = left[n + i]

IsTaken(d, d2, r, prev, chunk) ==
  /\ WasRead(d, r, chunk[1].order, prev) /\ ~Collides(d, r, prev, chunk[1])
  /\ d2 = IngestExecutions(d, r, prev, chunk) /\ d2.raw = d.raw

LEMMA MidwayMore ==
  ASSUME NEW d, ChainsHold(d), AllClimb(d), NEW r \in Runs, NEW pages, NEW left,
         Midway(d, r, pages, left), NEW n, NEW chunk, NEW rest, IsPart(left, n, chunk, rest),
         NEW prev, NEW d2, IsTaken(d, d2, r, prev, chunk)
  PROVE  /\ AllClimb(d2) /\ \A q : q # r => OwnStays(d, d2, q)
         /\ n = Len(left) => InStep(d2, r, Tail(pages))
         /\ n < Len(left) => Midway(d2, r, pages, rest)
<1>1. PICK m \in 0 .. Len(d.raw[r]) : \E c, e :
         /\ ChainsHold(c) /\ AllAgree(d, c, r) /\ e = Takes(c, r, left)
         /\ Replayed(e, r, d.raw[r], m) /\ Sound(e, r) /\ Rest(d.raw[r], m, Tail(pages))
  BY DEF Midway
<1>2. PICK c, e :
         /\ ChainsHold(c) /\ AllAgree(d, c, r) /\ e = Takes(c, r, left)
         /\ Replayed(e, r, d.raw[r], m) /\ Sound(e, r) /\ Rest(d.raw[r], m, Tail(pages))
  BY <1>1
<1>3. RowsOk(d2.raw[r]) /\ m \in 0 .. Len(d2.raw[r]) /\ d2.raw = d.raw
  BY DEF Midway, IsTaken
<1>4. /\ Len(left) \in Nat /\ n \in Nat \ {0} /\ n <= Len(left) /\ Len(chunk) = n
      /\ IsList(chunk) /\ Len(chunk) # 0 /\ chunk[1] = left[1]
      /\ \A i \in DOMAIN chunk : ReportOk(chunk[i])
  BY DEF IsPart
<1>5. PICK c2 : c2 = Takes(c, r, chunk)
  OBVIOUS
<1>6. BothTake(d, d2, c, c2, r, prev, chunk)
  BY <1>5 DEF BothTake, Takes, IsTaken
<1>7. /\ AllClimb(d2) /\ ChainsHold(c2) /\ AllAgree(d2, c2, r)
      /\ \A q : q # r => OwnStays(d, d2, q)
  <2>1. IsList(chunk) /\ Len(chunk) # 0 /\ \A i \in DOMAIN chunk : ReportOk(chunk[i])
    BY <1>4
  <2>2. ChainsHold(c) /\ AllAgree(d, c, r)
    BY <1>2
  <2> QED
    BY <1>6, <2>1, <2>2, PageAgrees
<1>8. ASSUME n = Len(left) PROVE InStep(d2, r, Tail(pages))
  <2>1. c2 = e
    <3>1. Takes(c, r, chunk) = Takes(c, r, left)
      <4> DEFINE first == Previous(c, left[1].order)
      <4>1. PICK f : IsIngest(f, c, r, first, left, n) /\ Takes(c, r, left) = f[n]
        BY <1>4, <1>8, IngestIs, IngestExists DEF Takes
      <4>2. PICK g : IsIngest(g, c, r, first, chunk, n) /\ Takes(c, r, chunk) = g[n]
        BY <1>4, IngestIs, IngestExists DEF Takes
      <4>3. \A k \in 1 .. n : chunk[k] = left[k]
        BY DEF IsPart
      <4>4. f[n] = g[n]
        BY <1>4, <4>1, <4>2, <4>3, SameIngest
      <4> QED
        BY <4>1, <4>2, <4>4
    <3> QED
      BY <1>2, <1>5, <3>1
  <2> QED
    BY <1>2, <1>3, <1>7, <2>1 DEF InStep, Follows
<1>9. ASSUME n < Len(left) PROVE Midway(d2, r, pages, rest)
  <2>1. e = Takes(c2, r, rest)
    BY <1>2, <1>4, <1>5, <1>9, TakesInTwo DEF IsPart
  <2> QED
    BY <1>2, <1>3, <1>7, <2>1 DEF Midway
<1> QED
  BY <1>7, <1>8, <1>9

\* A process about to write has read a row since which its run has stored nothing.
Reads(d, x) == x.stage = "write" => WasRead(d, x.run, NextReport(x).order, x.prev)

\* A process has come as far as a replay of what its run has stored, but the pages in hand.
OnTrack(d, x) == IF x.stored = 0 THEN InStep(d, x.run, x.pages)
                 ELSE Midway(d, x.run, x.pages, LeftOf(x))

\* A replay ends where its run ended, with all of its cash posted.
ReplicaOk(d, r, st, copy) ==
  copy.built => st = "COMPLETE" /\ CashGaps(copy.tables) = {} /\ AllAgree(d, copy.tables, r)

\* Whenever a run stops, replaying its responses leads to where it has come.
ReplayInv ==
  /\ AllClimb(db) /\ replica = [r \in Runs |-> replica[r]]
  /\ \A p \in Procs : proc[p].step # "idle" =>
        Reads(db, proc[p]) /\ OnTrack(db, proc[p])
  /\ \A r \in Runs : status[r] = "COMPLETE" => InStep(db, r, <<>>)
  /\ \A r \in Runs : status[r] = "none" => \A o \in Orders : Own(db, r, o) = {}
  /\ \A r \in Runs : ReplicaOk(db, r, status[r], replica[r])

LEMMA ReadsOn ==
  ASSUME NEW d, NEW d2, Keeps(d, d2), NEW x, ProcOk(x), OwnStays(d, d2, x.run), Reads(d, x)
  PROVE  Reads(d2, x)
<1> SUFFICES ASSUME x.stage = "write" PROVE WasRead(d2, x.run, NextReport(x).order, x.prev)
  BY DEF Reads
<1> DEFINE o == NextReport(x).order
<1>1. o \in Orders
  BY LeftIs
<1>2. WasRead(d, x.run, o, x.prev)
  BY DEF Reads
<1> HIDE DEF o
<1>3. Own(d2, x.run, o) = Own(d, x.run, o)
  BY <1>1 DEF OwnStays
<1>4. \A i \in Chain(d, o) : i \in Chain(d2, o) /\ d2.snaps[i] = d.snaps[i]
  BY DEF Chain, Keeps
<1>5. WasRead(d2, x.run, o, x.prev)
  BY <1>2, <1>3, <1>4 DEF WasRead
<1> QED
  BY <1>5 DEF o

LEMMA OnTrackOn ==
  ASSUME NEW d, NEW d2, Keeps(d, d2), NEW x, OwnStays(d, d2, x.run), d2.raw[x.run] = d.raw[x.run],
         OnTrack(d, x)
  PROVE  OnTrack(d2, x)
BY InStepOn, MidwayOn DEF OnTrack

\* A process has pages in hand whole, unless it is storing the first.
LEMMA WholePages ==
  ASSUME ReplayInv, NEW p \in Procs, proc[p].step # "idle", ProcOk(proc[p]),
         proc[p].stage \in {"request", "orders"}
  PROVE  proc[p].stored = 0 /\ InStep(db, proc[p].run, proc[p].pages)
BY DEF ReplayInv, OnTrack, ProcOk

\* One process does something to its run.
LEMMA ReplayStep ==
  ASSUME FoundationInv, ReplayInv, NEW p \in Procs, proc[p].step # "idle",
         NEW y, proc' = [proc EXCEPT ![p] = y], replica' = replica,
         AllClimb(db'), Keeps(db, db'),
         \A q \in Runs : q # proc[p].run => OwnStays(db, db', q) /\ db'.raw[q] = db.raw[q],
         y.step # "idle" => Reads(db', y) /\ OnTrack(db', y),
         \/ status' = status \/ status' = [status EXCEPT ![proc[p].run] = "FAILED"]
         \/ /\ status' = [status EXCEPT ![proc[p].run] = "COMPLETE"]
            /\ InStep(db', proc[p].run, <<>>)
  PROVE  ReplayInv'
<1> DEFINE r == proc[p].run
<1>1. r \in Runs /\ status[r] = "RUNNING" /\ DOMAIN status = Runs /\ DOMAIN proc = Procs
  BY ActiveFacts DEF FoundationInv
<1>2. replica' = [q \in Runs |-> replica'[q]] /\ \A q : replica'[q] = replica[q]
  BY DEF ReplayInv
<1>3. ASSUME NEW q \in Procs, proc'[q].step # "idle"
      PROVE  Reads(db', proc'[q]) /\ OnTrack(db', proc'[q])
  <2>1. CASE q = p
    BY <1>1, <1>3, <2>1
  <2>2. CASE q # p
    <3>1. proc'[q] = proc[q]
      BY <1>1, <2>2
    <3>2. proc[q].step # "idle" /\ proc[q].run # r
      BY <1>3, <2>2, <3>1 DEF FoundationInv
    <3>3. proc[q].run \in Runs /\ ProcOk(proc[q])
      BY <3>2, ActiveFacts
    <3>4. Reads(db, proc[q]) /\ OnTrack(db, proc[q])
      BY <3>2 DEF ReplayInv
    <3>5. OwnStays(db, db', proc[q].run) /\ db'.raw[proc[q].run] = db.raw[proc[q].run]
      BY <3>2, <3>3
    <3> DEFINE x == proc[q]
    <3> HIDE DEF x
    <3>6. Reads(db', x) /\ OnTrack(db', x)
      BY <3>3, <3>4, <3>5, ReadsOn, OnTrackOn DEF x
    <3> QED
      BY <3>1, <3>6 DEF x
  <2> QED
    BY <2>1, <2>2
<1>4. /\ \A s \in Runs : s # r => status'[s] = status[s]
      /\ status'[r] \in {"RUNNING", "FAILED", "COMPLETE"}
      /\ status'[r] = "COMPLETE" => InStep(db', r, <<>>)
  BY <1>1
<1>5. ASSUME NEW s \in Runs, status'[s] = "COMPLETE" PROVE InStep(db', s, <<>>)
  <2>1. CASE s = r
    BY <1>4, <1>5, <2>1
  <2>2. CASE s # r
    <3>1. InStep(db, s, <<>>)
      BY <1>4, <1>5, <2>2 DEF ReplayInv
    <3> QED
      BY <2>2, <3>1, InStepOn
  <2> QED
    BY <2>1, <2>2
<1>6. ASSUME NEW s \in Runs, status'[s] = "none", NEW o \in Orders PROVE Own(db', s, o) = {}
  <2>1. s # r /\ status[s] = "none"
    BY <1>4, <1>6
  <2>2. Own(db, s, o) = {} /\ OwnStays(db, db', s)
    BY <2>1 DEF ReplayInv
  <2> QED
    BY <2>2 DEF OwnStays
<1>7. ASSUME NEW s \in Runs PROVE ReplicaOk(db', s, status'[s], replica'[s])
  <2>1. ReplicaOk(db, s, status[s], replica[s])
    BY DEF ReplayInv
  <2>2. CASE s = r
    BY <1>1, <1>2, <2>1, <2>2 DEF ReplicaOk
  <2>3. CASE s # r
    <3>1. OwnStays(db, db', s) /\ status'[s] = status[s]
      BY <1>4, <2>3
    <3>2. AllAgree(db, replica[s].tables, s) => AllAgree(db', replica[s].tables, s)
      BY <3>1, AgreesOn
    <3> QED
      BY <1>2, <2>1, <3>1, <3>2 DEF ReplicaOk
  <2> QED
    BY <2>2, <2>3
<1> QED
  BY <1>2, <1>3, <1>5, <1>6, <1>7 DEF ReplayInv

\* The pages in hand after a request, and after a page.
LEMMA DonePages ==
  ASSUME NEW p, ProcOk(proc[p])
  PROVE  Done(p).pages = <<>> /\ Done(p).stage = "request" /\ Done(p).stored = 0
<1> DEFINE rest == Tail(proc[p].todo)
           y == [proc[p] EXCEPT !.todo = rest, !.stage = "request", !.pages = <<>>,
                                !.stored = 0, !.tries = 0]
           z == Enter(p, StepAfter(proc[p].step, proc[p].listed), proc[p].listed)
<1>1. Done(p) = y \/ Done(p) = z
  BY DEF Done
<1>2. z.pages = <<>> /\ z.stage = "request" /\ z.stored = 0
  BY DEF Enter, Idle
<1> HIDE DEF z
<1>3. y.pages = <<>> /\ y.stage = "request" /\ y.stored = 0
  <2> HIDE DEF rest
  <2> QED
    BY DEF ProcOk
<1> QED
  BY <1>1, <1>2, <1>3

LEMMA PageDonePages ==
  ASSUME NEW p, ProcOk(proc[p]), proc[p].stage # "request"
  PROVE  /\ PageDone(p).pages = Tail(proc[p].pages) /\ PageDone(p).stage # "write"
         /\ PageDone(p).stored = 0
<1> DEFINE x == proc[p]
           page == Head(x.pages)
           ids == [i \in DOMAIN page |-> page[i].order]
           listed == CASE x.step = "orders-open" -> [x.listed EXCEPT !.open = @ \o ids]
                       [] x.step = "orders-closed" -> [x.listed EXCEPT !.closed = @ \o ids]
                       [] OTHER -> x.listed
           y == [x EXCEPT !.pages = Tail(@), !.stage = "orders", !.stored = 0, !.listed = listed]
           z == Enter(p, StepAfter(x.step, listed), listed)
<1>1. PageDone(p) = IF Len(x.pages) > 1 THEN y
                    ELSE IF x.step = "details" THEN Done(p) ELSE z
  BY DEF PageDone
<1>2. z.pages = <<>> /\ z.stage = "request" /\ z.stored = 0
  BY DEF Enter, Idle
<1> HIDE DEF listed, z
<1>3. y.pages = Tail(x.pages) /\ y.stage = "orders" /\ y.stored = 0
  BY DEF ProcOk
<1> HIDE DEF y
<1>4. Done(p).pages = <<>> /\ Done(p).stage = "request" /\ Done(p).stored = 0
  BY DonePages
<1>5. ~(Len(x.pages) > 1) => Tail(x.pages) = <<>>
  <2>1. PICK S : x.pages \in Seq(S)
    BY DEF ProcOk
  <2>2. x.pages # <<>>
    BY DEF ProcOk
  <2> HIDE DEF x
  <2>3. /\ Tail(x.pages) \in Seq(S) /\ Len(Tail(x.pages)) = Len(x.pages) - 1
        /\ Len(x.pages) \in Nat
    BY <2>1, <2>2, HeadTailProperties
  <2>4. ~(Len(x.pages) > 1) => Len(Tail(x.pages)) = 0
    <3>1. Len(Tail(x.pages)) \in Nat
      BY <2>3
    <3> DEFINE k == Len(x.pages)
               m == Len(Tail(x.pages))
    <3>2. k \in Nat /\ m \in Nat /\ m = k - 1
      BY <2>3, <3>1
    <3> HIDE DEF k, m
    <3>3. ~(k > 1) => m = 0
      BY <3>2
    <3> QED
      BY <3>3 DEF k, m
  <2> QED
    BY <2>3, <2>4, EmptySeq
<1> QED
  BY <1>1, <1>2, <1>3, <1>4, <1>5

\* A run that begins is in step with a new database.
LEMMA InStepStarts ==
  ASSUME NEW d, NEW r, d.raw[r] = <<>>, \A o \in Orders : Own(d, r, o) = {}
  PROVE  InStep(d, r, <<>>)
<1> DEFINE rows == d.raw[r]
           pos == [k \in {} |-> 0]
<1>1. rows = <<>> /\ Len(rows) = 0 /\ DOMAIN rows = {} /\ DOMAIN <<>> = {}
  OBVIOUS
<1>2. 0 \in 0 .. Len(rows) /\ RowsOk(rows)
  BY <1>1 DEF RowsOk
<1>3. Placed(pos, rows, 0, <<>>)
  <2>1. (0 + 1) .. Len(rows) = {}
    BY <1>1
  <2> HIDE DEF rows
  <2> QED
    BY <1>1, <2>1 DEF Placed
<1>4. AllAgree(d, EmptyTables, r)
  BY EmptySound DEF AllAgree, Agrees
<1>5. Follows(d, r, <<>>, 0, EmptyTables)
  BY <1>3, <1>4, EmptySound, ReplayedNone DEF Follows, Rest
<1> QED
  BY <1>2, <1>5 DEF InStep

\* What a step leaves to the other runs, and to the order of the reports.
Apart(d, d2, r) ==
  /\ AllClimb(d2) /\ Keeps(d, d2)
  /\ \A q \in Runs : q # r => OwnStays(d, d2, q) /\ d2.raw[q] = d.raw[q]

\* A step that leaves the executions alone.
LEMMA QuietApart ==
  ASSUME NEW d, AllClimb(d), NEW r, NEW d2, Keeps(d, d2), d2.snaps = d.snaps,
         \A q \in Runs : q # r => d2.raw[q] = d.raw[q]
  PROVE  Apart(d, d2, r) /\ OwnStays(d, d2, r)
BY SameOwns DEF Apart

LEMMA SavedApart ==
  ASSUME FoundationInv, ReplayInv, NEW p \in Procs, proc[p].step # "idle",
         NEW endpoint, NEW ok, NEW body,
         NEW d2, d2 = SaveRaw(db, proc[p].run, endpoint, ok, body)
  PROVE  Apart(db, d2, proc[p].run) /\ ChainsHold(d2) /\ RawOk(d2)
<1> DEFINE r == proc[p].run
<1>1. ChainsHold(db) /\ Tables(db) /\ RawOk(db) /\ r \in Runs /\ AllClimb(db)
  BY ActiveFacts DEF ReplayInv
<1> HIDE DEF r
<1>2. ChainsHold(d2) /\ RawOk(d2) /\ Keeps(db, d2) /\ \A q \in Runs \ {r} : d2.raw[q] = db.raw[q]
  BY <1>1, SaveRawKeeps DEF r
<1>3. d2.snaps = db.snaps
  BY <1>1, SaveRawFields DEF r
<1> QED
  BY <1>1, <1>2, <1>3, QuietApart DEF r

LEMMA SavedInStep ==
  ASSUME FoundationInv, ReplayInv, NEW p \in Procs, proc[p].step # "idle",
         proc[p].stage = "request", NEW endpoint \in Endpoints, NEW body,
         NEW d2, d2 = SaveRaw(db, proc[p].run, endpoint, TRUE, body)
  PROVE  InStep(d2, proc[p].run, PagesWith(proc[p].pages, endpoint, body))
<1> DEFINE x == proc[p]
<1>1. Tables(db) /\ RawOk(db) /\ x.run \in Runs /\ ProcOk(x) /\ InStep(db, x.run, x.pages)
  BY ActiveFacts, WholePages
<1>2. IsList(x.pages)
  BY <1>1 DEF ProcOk, IsList
<1>3. PICK ok : ok = TRUE
  BY Zenon
<1>4. d2 = SaveRaw(db, x.run, endpoint, ok, body)
  BY <1>3, Zenon
<1> HIDE DEF x
<1>5. ok = TRUE => InStep(d2, x.run, PagesWith(x.pages, endpoint, body))
  BY <1>1, <1>2, <1>4, InStepSaved
<1>6. InStep(d2, x.run, PagesWith(x.pages, endpoint, body))
  BY <1>3, <1>5, Zenon
<1> QED
  BY <1>6 DEF x

LEMMA FailReplays ==
  ASSUME FoundationInv, ReplayInv, NEW p \in Procs, proc[p].step # "idle", FailRun(p),
         Apart(db, db', proc[p].run)
  PROVE  ReplayInv'
<1>1. status[proc[p].run] = "RUNNING"
  BY ActiveFacts
<1>2. /\ proc' = [proc EXCEPT ![p] = Idle] /\ replica' = replica
      /\ status' = [status EXCEPT ![proc[p].run] = "FAILED"]
  BY <1>1 DEF FailRun
<1>3. Idle.step = "idle"
  BY DEF Idle
<1> QED
  BY <1>2, <1>3, ReplayStep DEF Apart

LEMMA SameApart ==
  ASSUME ReplayInv, NEW r
  PROVE  Apart(db, db, r)
BY DEF ReplayInv, Apart, Keeps, OwnStays

LEMMA RefuseReplays ==
  ASSUME FoundationInv, ReplayInv, NEW p \in Procs, Waiting(p), FailRun(p), NEW endpoint, NEW ok,
         db' = db \/ db' = SaveRaw(db, proc[p].run, endpoint, ok, <<>>)
  PROVE  ReplayInv'
<1>1. proc[p].step # "idle"
  BY ActiveFacts
<1>2. Apart(db, db', proc[p].run)
  <2>1. CASE db' = db
    BY <2>1, SameApart
  <2>2. CASE db' = SaveRaw(db, proc[p].run, endpoint, ok, <<>>)
    BY <1>1, <2>2, SavedApart
  <2> QED
    BY <2>1, <2>2
<1> QED
  BY <1>1, <1>2, FailReplays

LEMMA SameReplays ==
  ASSUME ReplayInv, db' = db, status' = status, proc' = proc, replica' = replica
  PROVE  ReplayInv'
BY DEF ReplayInv

LEMMA BeginReplays ==
  ASSUME FoundationInv, ReplayInv, NEW p \in Procs, Begin(p)
  PROVE  ReplayInv'
<1>1. PICK r \in Runs :
        /\ status[r] = "none" /\ status' = [status EXCEPT ![r] = "RUNNING"]
        /\ proc' = [proc EXCEPT ![p] = [Idle EXCEPT !.run = r, !.step = "accounts",
                                                    !.todo = <<"">>]]
  BY DEF Begin
<1> DEFINE y == [Idle EXCEPT !.run = r, !.step = "accounts", !.todo = <<"">>]
<1>2. db' = db /\ replica' = replica
  BY DEF Begin
<1>3. DOMAIN status = Runs /\ DOMAIN proc = Procs /\ db.raw[r] = <<>>
  BY <1>1 DEF FoundationInv
<1>4. y.stage = "request" /\ y.run = r /\ y.pages = <<>> /\ y.stored = 0
  BY DEF Idle
<1>5. proc'[p] = y /\ \A q \in Procs : q # p => proc'[q] = proc[q]
  BY <1>1, <1>3
<1> HIDE DEF y
<1>6. InStep(db, r, <<>>)
  BY <1>1, <1>3, InStepStarts DEF ReplayInv
<1>7. Reads(db, y) /\ OnTrack(db, y)
  BY <1>4, <1>6 DEF Reads, OnTrack
<1>8. \A q \in Procs : proc'[q].step # "idle" =>
         Reads(db, proc'[q]) /\ OnTrack(db, proc'[q])
  BY <1>5, <1>7 DEF ReplayInv
<1>9. \A s \in Runs : /\ status'[s] = "COMPLETE" => status[s] = "COMPLETE"
                      /\ status'[s] = "none" => status[s] = "none"
                      /\ status[s] = "COMPLETE" => status'[s] = "COMPLETE"
  BY <1>1, <1>3
<1>10. \A s \in Runs : ReplicaOk(db, s, status'[s], replica[s])
  BY <1>9 DEF ReplayInv, ReplicaOk
<1> QED
  BY <1>2, <1>8, <1>9, <1>10 DEF ReplayInv

\* A response that is stored, and the pages the process then has in hand.
LEMMA SavedReplays ==
  ASSUME FoundationInv, ReplayInv, NEW p \in Procs, proc[p].step # "idle",
         NEW endpoint, NEW ok, NEW body, db' = SaveRaw(db, proc[p].run, endpoint, ok, body),
         NEW y, y.stage # "write", y.stored = 0, y.run = proc[p].run,
         InStep(db', proc[p].run, y.pages),
         proc' = [proc EXCEPT ![p] = y], status' = status, replica' = replica
  PROVE  ReplayInv'
<1>1. Apart(db, db', proc[p].run)
  BY SavedApart
<1>2. Reads(db', y) /\ OnTrack(db', y)
  BY DEF Reads, OnTrack
<1> QED
  BY <1>1, <1>2, ReplayStep DEF Apart

LEMMA RefreshReplays ==
  ASSUME FoundationInv, ReplayInv, NEW p \in Procs, RefreshToken(p)
  PROVE  ReplayInv'
<1>1. Waiting(p) /\ status' = status /\ replica' = replica /\ proc' = proc
  BY DEF RefreshToken
<1>2. /\ proc[p].step # "idle" /\ proc[p].stage = "request" /\ ProcOk(proc[p])
      /\ proc[p].stored = 0
  BY <1>1, ActiveFacts DEF ProcOk
<1>3. proc' = [proc EXCEPT ![p] = proc[p]]
  BY <1>1 DEF FoundationInv
<1>4. "token" \in Endpoints /\ PagesWith(proc[p].pages, "token", <<>>) = proc[p].pages
  BY DEF Endpoints, PagesWith, OrderSteps
<1>5. db' = SaveRaw(db, proc[p].run, "token", TRUE, <<>>)
  BY Zenon DEF RefreshToken
<1>6. InStep(db', proc[p].run, PagesWith(proc[p].pages, "token", <<>>))
  BY <1>2, <1>4, <1>5, SavedInStep, Zenon
<1>7. InStep(db', proc[p].run, proc[p].pages)
  BY <1>4, <1>6
<1>8. PICK ok : db' = SaveRaw(db, proc[p].run, "token", ok, <<>>)
  BY <1>5, Zenon
<1> QED
  BY <1>1, <1>2, <1>3, <1>7, <1>8, SavedReplays

LEMMA RetryReplays ==
  ASSUME FoundationInv, ReplayInv, NEW p \in Procs, RetryLater(p)
  PROVE  ReplayInv'
<1> DEFINE x == proc[p]
           y == [x EXCEPT !.tries = @ + 1]
<1>1. /\ Waiting(p) /\ proc' = [proc EXCEPT ![p] = y] /\ db' = db
      /\ status' = status /\ replica' = replica
  BY DEF RetryLater
<1>2. ProcOk(x) /\ x.step # "idle" /\ x.stage = "request"
  BY <1>1, ActiveFacts
<1>3. /\ y.run = x.run /\ y.stage = "request" /\ y.pages = x.pages
      /\ y.stored = x.stored /\ x.stored = 0
  BY <1>2 DEF ProcOk
<1> HIDE DEF y
<1>4. Reads(db', y) /\ OnTrack(db', y)
  BY <1>1, <1>2, <1>3, WholePages DEF Reads, OnTrack
<1>5. Apart(db, db', x.run)
  BY <1>1, SameApart
<1> QED
  BY <1>1, <1>2, <1>4, <1>5, ReplayStep DEF Apart

LEMMA AnsweredReplays ==
  ASSUME FoundationInv, ReplayInv, NEW p \in Procs, Waiting(p),
         proc[p].step \notin OrderSteps, NEW body, db' = AnswerOf(proc[p], body),
         \/ FailRun(p)
         \/ /\ proc' = [proc EXCEPT ![p] = Done(p)]
            /\ replica' = replica /\ status' = status
  PROVE  ReplayInv'
<1> DEFINE x == proc[p]
           saved == SaveRaw(db, x.run, x.step, TRUE, body)
           y == Done(p)
<1>1. /\ db' = Normalized(saved, x.run, x.step, body)
      /\ x.step \notin OrderSteps /\ Waiting(p)
  BY DEF AnswerOf
<1>2. /\ ProcOk(x) /\ x.run \in Runs /\ x.step # "idle" /\ x.step \in WorkSteps
      /\ x.todo # <<>> /\ x.stage = "request"
  BY <1>1, ActiveFacts
<1>3. x.pages = <<>> /\ x.step \in Endpoints \ OrderSteps
  BY <1>1, <1>2 DEF ProcOk, OrderSteps, Endpoints
<1>4. /\ y.pages = <<>> /\ y.stage = "request" /\ y.run = x.run /\ y.step # "idle"
      /\ y.stored = 0
  BY <1>2, DonePages, DoneOk
<1>19. \/ FailRun(p)
       \/ /\ proc' = [proc EXCEPT ![p] = y] /\ replica' = replica /\ status' = status
  OBVIOUS
<1> HIDE DEF y
<1>5. PICK s : s = saved
  OBVIOUS
<1>6. PICK ok : s = SaveRaw(db, x.run, x.step, ok, body)
  BY <1>5, Zenon
<1>7. Apart(db, s, x.run) /\ ChainsHold(s) /\ RawOk(s)
  BY <1>2, <1>6, SavedApart
<1>8. InStep(s, x.run, PagesWith(x.pages, x.step, body))
  BY <1>2, <1>3, <1>5, SavedInStep, Zenon
<1>9. InStep(s, x.run, <<>>)
  BY <1>3, <1>8 DEF PagesWith
<1>10. db' = Normalized(s, x.run, x.step, body)
  BY <1>1, <1>5, Zenon
<1> HIDE DEF saved, x
<1>11. /\ DOMAIN db' = DOMAIN s /\ db'.raw = s.raw /\ db'.snaps = s.snaps
       /\ db'.deltas = s.deltas /\ db'.blocks = s.blocks
  <2>1. Tables(s) /\ x.step \in WorkSteps \ OrderSteps
    BY <1>2, <1>3, <1>7 DEF ChainsHold
  <2> QED
    BY <1>10, <2>1, NormalizedFields
<1>12. Keeps(s, db') /\ AllClimb(s) /\ Keeps(db, s)
  BY <1>7, <1>11, QuietKeeps DEF Apart
<1>13. Apart(s, db', x.run) /\ OwnStays(s, db', x.run)
  BY <1>11, <1>12, QuietApart
<1>14. InStep(db', x.run, <<>>)
  BY <1>9, <1>11, <1>12, <1>13, InStepOn
<1>15. Keeps(db, db')
  BY <1>12 DEF Keeps
<1>16. \A q \in Runs : q # x.run => OwnStays(db, db', q) /\ db'.raw[q] = db.raw[q]
  BY <1>7, <1>11, <1>13, OwnStaysMore DEF Apart
<1>17. Reads(db', y) /\ OnTrack(db', y)
  BY <1>4, <1>14 DEF Reads, OnTrack
<1>18. AllClimb(db')
  BY <1>13 DEF Apart
<1>20. CASE FailRun(p)
  <2>1. Apart(db, db', proc[p].run)
    BY <1>15, <1>16, <1>18 DEF Apart, x
  <2> QED
    BY <1>2, <1>20, <2>1, FailReplays DEF x
<1>21. CASE proc' = [proc EXCEPT ![p] = y] /\ replica' = replica /\ status' = status
  BY <1>2, <1>15, <1>16, <1>17, <1>18, <1>21, ReplayStep DEF x
<1> QED
  BY <1>19, <1>20, <1>21

LEMMA AnswerReplays ==
  ASSUME FoundationInv, ReplayInv, NEW p \in Procs, Answer(p)
  PROVE  ReplayInv'
<1> DEFINE body == IF proc[p].step \in {"buying-power", "sellable-quantity"}
                   THEN Head(proc[p].todo) ELSE ""
<1>1. /\ Waiting(p) /\ proc[p].step \notin OrderSteps
      /\ db' = AnswerOf(proc[p], body) /\ proc' = [proc EXCEPT ![p] = Done(p)]
      /\ status' = status /\ replica' = replica
  BY DEF Answer, OrderSteps, AnswerOf
<1> HIDE DEF body
<1> QED
  BY <1>1, AnsweredReplays

LEMMA AccountsReplays ==
  ASSUME FoundationInv, ReplayInv, NEW p \in Procs, AnswerAccounts(p)
  PROVE  ReplayInv'
<1>1. /\ Waiting(p) /\ proc[p].step \notin OrderSteps
      /\ \E several \in BOOLEAN :
           /\ db' = AnswerOf(proc[p], several)
           /\ \/ FailRun(p)
              \/ /\ proc' = [proc EXCEPT ![p] = Done(p)]
                 /\ status' = status /\ replica' = replica
  BY AccountsAre
<1> QED
  BY <1>1, AnsweredReplays

LEMMA PageReplays ==
  ASSUME FoundationInv, ReplayInv, NEW p \in Procs, FetchPage(p)
  PROVE  ReplayInv'
<1> PICK silent \in Silences : Fetches(p, silent)
  BY DEF FetchPage, Fetches
<1> DEFINE x == proc[p]
           left == Listing(x.step = "orders-open", x.pages, silent)
<1>0. Waiting(p) /\ x.step \in OrderSteps
  BY DEF Fetches, OrderSteps
<1>1. ProcOk(x) /\ x.step # "idle" /\ x.stage = "request" /\ x.step \in Endpoints
  BY <1>0, ActiveFacts DEF Endpoints, WorkSteps
<1>2. PICK n \in 0 .. Len(left) :
        /\ db' = SaveRaw(db, x.run, x.step, TRUE, SubSeq(left, 1, n))
        /\ \/ /\ proc' = [proc EXCEPT ![p].pages = Append(@, SubSeq(left, 1, n)),
                                      ![p].stage = "orders"]
              /\ status' = status /\ replica' = replica
           \/ /\ proc' = [proc EXCEPT ![p].pages = Append(@, SubSeq(left, 1, n))]
              /\ status' = status /\ replica' = replica
           \/ FailRun(p)
  BY DEF Fetches
<1> DEFINE page == SubSeq(left, 1, n)
           stored == [x EXCEPT !.pages = Append(@, page), !.stage = "orders"]
           more == [x EXCEPT !.pages = Append(@, page)]
<1>3. /\ stored.run = x.run /\ stored.stage = "orders" /\ stored.pages = Append(x.pages, page)
      /\ more.run = x.run /\ more.stage = "request" /\ more.pages = Append(x.pages, page)
      /\ stored.stored = 0 /\ more.stored = 0
  <2> HIDE DEF page
  <2> QED
    BY <1>1 DEF ProcOk
<1>4. db' = SaveRaw(db, x.run, x.step, TRUE, page)
  BY <1>2, Zenon
<1>5. \/ proc' = [proc EXCEPT ![p] = stored] /\ status' = status /\ replica' = replica
      \/ proc' = [proc EXCEPT ![p] = more] /\ status' = status /\ replica' = replica
      \/ FailRun(p)
  BY <1>2
<1> HIDE DEF page, left, stored, more
<1>6. PICK ok : db' = SaveRaw(db, x.run, x.step, ok, page)
  BY <1>4, Zenon
<1>7. InStep(db', x.run, PagesWith(x.pages, x.step, page))
  BY <1>1, <1>4, SavedInStep, Zenon
<1>8. InStep(db', x.run, Append(x.pages, page))
  BY <1>0, <1>7 DEF PagesWith
<1>9. CASE \/ proc' = [proc EXCEPT ![p] = stored] /\ status' = status /\ replica' = replica
           \/ proc' = [proc EXCEPT ![p] = more] /\ status' = status /\ replica' = replica
  BY <1>1, <1>3, <1>6, <1>8, <1>9, SavedReplays
<1>10. CASE FailRun(p)
  BY <1>1, <1>6, <1>10, SavedApart, FailReplays
<1> QED
  BY <1>5, <1>9, <1>10

LEMMA DetailReplays ==
  ASSUME FoundationInv, ReplayInv, NEW p \in Procs, FetchDetail(p)
  PROVE  ReplayInv'
<1> PICK silent \in Silences : FetchesOne(p, silent)
  BY DEF FetchDetail, FetchesOne
<1> DEFINE x == proc[p]
           page == <<Report(Head(x.todo), silent)>>
           y == [x EXCEPT !.pages = <<page>>, !.stage = "orders"]
<1>1. /\ x.step = "details" /\ Waiting(p)
      /\ proc' = [proc EXCEPT ![p] = y] /\ replica' = replica /\ status' = status
  BY DEF FetchesOne
<1>2. ProcOk(x) /\ x.step # "idle" /\ x.stage = "request"
  BY <1>1, ActiveFacts
<1>3. x.pages = <<>> /\ x.step \in OrderSteps /\ x.step \in Endpoints
  BY <1>1, <1>2 DEF ProcOk, OrderSteps, Endpoints, WorkSteps
<1>4. db' = SaveRaw(db, x.run, x.step, TRUE, page)
  BY <1>1, Zenon DEF FetchesOne
<1> HIDE DEF page
<1>5. y.run = x.run /\ y.stage = "orders" /\ y.pages = <<page>> /\ y.stored = 0
  BY <1>2 DEF ProcOk
<1> HIDE DEF y
<1>6. PICK ok : db' = SaveRaw(db, x.run, x.step, ok, page)
  BY <1>4, Zenon
<1>7. InStep(db', x.run, PagesWith(x.pages, x.step, page))
  BY <1>2, <1>3, <1>4, SavedInStep, Zenon
<1>8. Append(<<>>, page) = <<page>>
  OBVIOUS
<1>9. InStep(db', x.run, y.pages)
  BY <1>3, <1>5, <1>7, <1>8 DEF PagesWith
<1> QED
  BY <1>1, <1>2, <1>5, <1>6, <1>9, SavedReplays

LEMMA StoreOrdersReplays ==
  ASSUME FoundationInv, ReplayInv, NEW p \in Procs, StoreOrders(p)
  PROVE  ReplayInv'
<1> DEFINE x == proc[p]
           page == Head(x.pages)
           y == [x EXCEPT !.stage = "previous"]
           z == PageDone(p)
<1>1. /\ x.stage = "orders" /\ db' = IngestOrders(db, x.run, page)
      /\ proc' = [proc EXCEPT ![p] = IF page = <<>> THEN z ELSE y]
      /\ replica' = replica /\ status' = status
  BY DEF StoreOrders
<1>2. ProcOk(x) /\ Tables(db) /\ ChainsHold(db) /\ RawOk(db)
  BY ActiveFacts
<1>3. x.step # "idle" /\ x.pages \in Seq(Seq(AnyReport)) /\ x.pages # <<>>
  BY <1>1, <1>2 DEF ProcOk, OrderSteps
<1>4. /\ db'.raw = db.raw /\ db'.snaps = db.snaps /\ db'.blocks = db.blocks
      /\ AllClimb(db) /\ InStep(db, x.run, x.pages) /\ x.run \in Runs /\ x.stored = 0
  BY <1>1, <1>2, <1>3, ActiveFacts, WholePages DEF IngestOrders, Tables, ReplayInv
<1>5. Keeps(db, db')
  BY <1>4 DEF Keeps
<1>6. Apart(db, db', x.run) /\ OwnStays(db, db', x.run)
  BY <1>4, <1>5, QuietApart
<1>7. /\ y.run = x.run /\ y.stage = "previous" /\ y.pages = x.pages
      /\ y.stored = x.stored
  BY <1>2 DEF ProcOk
<1>8. z.run = x.run /\ z.pages = Tail(x.pages) /\ z.stage # "write" /\ z.stored = 0
  BY <1>1, <1>2, PageDoneOk, PageDonePages
<1>9. CASE page = <<>>
  <2>1. InStep(db', x.run, Tail(x.pages))
    <3>1. InStep(db, x.run, Tail(x.pages))
      <4> HIDE DEF x
      <4> QED
        BY <1>2, <1>3, <1>4, <1>9, InStepPage DEF x
    <3> QED
      BY <1>4, <1>5, <1>6, <3>1, InStepOn
  <2> HIDE DEF z
  <2>2. Reads(db', z) /\ OnTrack(db', z) /\ proc' = [proc EXCEPT ![p] = z]
    BY <1>1, <1>8, <1>9, <2>1 DEF Reads, OnTrack
  <2> QED
    BY <1>1, <1>3, <1>6, <2>2, ReplayStep DEF Apart
<1>10. CASE page # <<>>
  <2>1. InStep(db', x.run, x.pages)
    BY <1>4, <1>5, <1>6, InStepOn
  <2> HIDE DEF y
  <2>2. Reads(db', y) /\ OnTrack(db', y) /\ proc' = [proc EXCEPT ![p] = y]
    BY <1>1, <1>4, <1>7, <1>10, <2>1 DEF Reads, OnTrack
  <2> QED
    BY <1>1, <1>3, <1>6, <2>2, ReplayStep DEF Apart
<1> QED
  BY <1>9, <1>10

LEMMA ReadPreviousReplays ==
  ASSUME FoundationInv, ReplayInv, NEW p \in Procs, ReadPrevious(p)
  PROVE  ReplayInv'
<1> DEFINE x == proc[p]
           o == NextReport(x).order
           y == [x EXCEPT !.prev = Previous(db, o), !.stage = "write"]
<1>1. /\ x.stage = "previous" /\ db' = db /\ proc' = [proc EXCEPT ![p] = y]
      /\ replica' = replica /\ status' = status
  BY DEF ReadPrevious
<1>2. ProcOk(x) /\ ChainsHold(db)
  BY ActiveFacts
<1>3. x.step # "idle"
  BY <1>1, <1>2 DEF ProcOk, OrderSteps
<1>4. o \in Orders
  BY <1>1, <1>2, LeftIs
<1> HIDE DEF o
<1>5. WasRead(db, x.run, o, Previous(db, o))
  BY <1>2, <1>4, LastWasRead
<1>6. /\ y.run = x.run /\ y.stage = "write" /\ y.pages = x.pages /\ y.prev = Previous(db, o)
      /\ y.stored = x.stored
  BY <1>2 DEF ProcOk
<1> HIDE DEF y
<1>9. NextReport(y) = NextReport(x) /\ LeftOf(y) = LeftOf(x)
  BY <1>6 DEF NextReport, LeftOf
<1>7. Reads(db', y) /\ OnTrack(db', y)
  BY <1>1, <1>3, <1>5, <1>6, <1>9 DEF Reads, OnTrack, ReplayInv, o
<1>8. Apart(db, db', x.run)
  BY <1>1, SameApart
<1> QED
  BY <1>1, <1>3, <1>7, <1>8, ReplayStep DEF Apart

LEMMA StoreExecutionsReplays ==
  ASSUME FoundationInv, ReplayInv, NEW p \in Procs, StoreExecutions(p)
  PROVE  ReplayInv'
<1> DEFINE x == proc[p]
           page == Head(x.pages)
           left == LeftOf(x)
<1>1. ProcOk(x) /\ PrevOk(db, x) /\ ChainsHold(db) /\ RawOk(db)
  BY ActiveFacts
<1>2. /\ x.stage = "write"
      /\ \/ FailRun(p) /\ db' = db
         \/ /\ ~Collides(db, x.run, x.prev, NextReport(x))
            /\ \E n \in 1 .. Len(left) :
                 /\ db' = IngestExecutions(db, x.run, x.prev, ChunkOf(x, n))
                 /\ proc' = [proc EXCEPT ![p] = AfterChunk(p, n)]
            /\ replica' = replica /\ status' = status
  BY <1>1, StoresChunk
<1>3. x.step # "idle" /\ x.pages \in Seq(Seq(AnyReport)) /\ x.pages # <<>>
  BY <1>1, <1>2 DEF ProcOk, OrderSteps
<1>4. /\ x.run \in Runs /\ AllClimb(db) /\ OnTrack(db, x) /\ Reads(db, x)
  BY <1>3, ActiveFacts DEF ReplayInv
<1>5. CASE FailRun(p) /\ db' = db
  <2>1. Apart(db, db', x.run)
    BY <1>5, SameApart
  <2> QED
    BY <1>3, <1>5, <2>1, FailReplays
<1>6. /\ page \in Seq(AnyReport) /\ Len(page) \in Nat /\ DOMAIN page = 1 .. Len(page)
      /\ x.stored \in Nat /\ x.stored < Len(page)
      /\ left \in Seq(AnyReport) /\ Len(left) = Len(page) - x.stored
      /\ \A i \in 1 .. Len(left) : left[i] = page[x.stored + i]
      /\ NextReport(x) = left[1]
  BY <1>1, <1>2, LeftIs
<1>7. Midway(db, x.run, x.pages, left)
  <2>1. CASE x.stored = 0
    <3>1. page # <<>>
      BY <1>6
    <3>2. left = page
      <4>1. left = SubSeq(page, 1, Len(page))
        BY <2>1 DEF LeftOf
      <4> HIDE DEF page, left
      <4> QED
        BY <1>6, <4>1
    <3>3. InStep(db, x.run, x.pages)
      BY <1>4, <2>1 DEF OnTrack
    <3> HIDE DEF x, left
    <3> QED
      BY <1>1, <1>3, <1>4, <3>1, <3>2, <3>3, MidwayStarts
  <2>2. CASE x.stored # 0
    BY <1>4, <2>2 DEF OnTrack
  <2> QED
    BY <2>1, <2>2
<1>8. ASSUME ~Collides(db, x.run, x.prev, NextReport(x)), NEW n \in 1 .. Len(left),
             db' = IngestExecutions(db, x.run, x.prev, ChunkOf(x, n)),
             proc' = [proc EXCEPT ![p] = AfterChunk(p, n)],
             replica' = replica, status' = status
      PROVE  ReplayInv'
  <2> DEFINE chunk == ChunkOf(x, n)
             y == AfterChunk(p, n)
             rest == LeftOf(y)
  <2>1. /\ IsList(chunk) /\ Len(chunk) = n /\ Len(chunk) # 0 /\ DOMAIN chunk = 1 .. n
        /\ \A i \in 1 .. n : chunk[i] = page[x.stored + i] /\ ReportOk(chunk[i])
        /\ NextReport(x) = chunk[1] /\ n \in Nat /\ x.stored + n <= Len(page)
    BY <1>1, <1>2, ChunkIs
  <2>2. /\ ProcOk(y) /\ y.step # "idle" /\ y.run = x.run
    BY <1>1, <1>2, AfterChunkOk
  <2>3. x.prev = NoSnapshot \/ \E i \in Chain(db, chunk[1].order) : x.prev = db.snaps[i]
    BY <1>1, <1>2, <2>1 DEF PrevOk
  <2>4. n # Len(left) => /\ y.stage = "previous" /\ y.stored = x.stored + n
                         /\ y.pages = x.pages
    BY <1>1 DEF AfterChunk, ProcOk
  <2>5. n = Len(left) => y.pages = Tail(x.pages) /\ y.stage # "write" /\ y.stored = 0
    BY <1>1, <1>2, PageDonePages DEF AfterChunk
  <2> HIDE DEF y
  <2>6. Grew(db, db')
    <3> HIDE DEF chunk, x
    <3> QED
      BY <1>1, <1>8, <2>1, <2>3, PageKeeps DEF chunk
  <2>7. Keeps(db, db') /\ db'.raw = db.raw
    BY <2>6, GrewKeeps DEF Grew
  <2>8. ASSUME n < Len(left)
        PROVE  Len(rest) = Len(left) - n /\ \A i \in 1 .. Len(rest) : rest[i] = left[n + i]
    <3> DEFINE k == x.stored + n
    <3>1. k \in Nat /\ k < Len(page) /\ n # Len(left)
      BY <1>6, <2>1, <2>8
    <3>2. rest = SubSeq(page, k + 1, Len(page))
      BY <2>4, <3>1 DEF LeftOf
    <3> HIDE DEF k, rest, page, left
    <3>3. Len(rest) = Len(page) - k /\ \A i \in 1 .. Len(rest) : rest[i] = page[k + i]
      <4>1. page \in Seq(AnyReport) /\ k \in Nat /\ k < Len(page)
        BY <1>6, <3>1
      <4> QED
        BY <3>2, <4>1, PartIs
    <3>4. Len(page) - k = Len(left) - n
      BY <1>6, <2>1 DEF k
    <3>5. \A i \in 1 .. (Len(left) - n) : n + i \in 1 .. Len(left) /\ x.stored + (n + i) = k + i
      BY <1>6, <2>1 DEF k
    <3> QED
      BY <1>6, <3>3, <3>4, <3>5
  <2>9. IsPart(left, n, chunk, rest)
    <3>1. \A i \in 1 .. n : chunk[i] = left[i]
      <4>1. \A i \in 1 .. n : i \in 1 .. Len(left)
        BY <1>6, <2>1
      <4> HIDE DEF chunk, left
      <4> QED
        BY <1>6, <2>1, <4>1
    <3>2. Len(left) \in Nat
      BY <1>6
    <3> HIDE DEF chunk, left, rest
    <3> QED
      BY <1>8, <2>1, <2>8, <3>1, <3>2 DEF IsPart
  <2>10. IsTaken(db, db', x.run, x.prev, chunk)
    BY <1>2, <1>4, <1>8, <2>1, <2>7 DEF IsTaken, Reads
  <2>11. /\ AllClimb(db') /\ \A q : q # x.run => OwnStays(db, db', q)
         /\ n = Len(left) => InStep(db', x.run, Tail(x.pages))
         /\ n < Len(left) => Midway(db', x.run, x.pages, rest)
    <3> HIDE DEF x, chunk, left, rest
    <3> QED
      BY <1>1, <1>4, <1>7, <2>9, <2>10, MidwayMore
  <2>12. OnTrack(db', y)
    <3>1. CASE n = Len(left)
      BY <2>2, <2>5, <2>11, <3>1 DEF OnTrack
    <3>2. CASE n # Len(left)
      <4>1. n < Len(left) /\ y.stored # 0
        BY <1>6, <2>1, <2>4, <3>2
      <4> QED
        BY <2>2, <2>4, <2>11, <3>2, <4>1 DEF OnTrack
    <3> QED
      BY <3>1, <3>2
  <2>13. Reads(db', y)
    BY <2>4, <2>5 DEF Reads
  <2>14. \A q \in Runs : q # x.run => OwnStays(db, db', q) /\ db'.raw[q] = db.raw[q]
    BY <2>7, <2>11
  <2>15. proc' = [proc EXCEPT ![p] = y]
    BY <1>8 DEF y
  <2> QED
    BY <1>3, <1>8, <2>7, <2>11, <2>12, <2>13, <2>14, <2>15, ReplayStep
<1> QED
  BY <1>2, <1>5, <1>8

LEMMA PostReplays ==
  ASSUME FoundationInv, ReplayInv, NEW p \in Procs, PostAllCash(p)
  PROVE  ReplayInv'
<1> DEFINE x == proc[p]
           y == [x EXCEPT !.step = "finish"]
<1>1. /\ x.step = "post" /\ proc' = [proc EXCEPT ![p] = y]
      /\ replica' = replica /\ status' = status
  BY DEF PostAllCash
<1>2. ProcOk(x) /\ Tables(db) /\ x.step # "idle"
  BY <1>1, ActiveFacts
<1>3. \E events : db' = [db EXCEPT !.cash = events]
  BY DEF PostAllCash, PostCash
<1>4. db'.raw = db.raw /\ db'.snaps = db.snaps /\ db'.blocks = db.blocks
  BY <1>2, <1>3 DEF Tables
<1>11. x.stage = "request" /\ x.stored = 0
  BY <1>1, <1>2 DEF ProcOk, OrderSteps
<1>5. y.run = x.run /\ y.stage = "request" /\ y.pages = x.pages /\ y.stored = 0
  BY <1>2, <1>11 DEF ProcOk
<1> HIDE DEF y
<1>6. Keeps(db, db') /\ AllClimb(db)
  BY <1>4 DEF Keeps, ReplayInv
<1>7. Apart(db, db', x.run) /\ OwnStays(db, db', x.run)
  BY <1>4, <1>6, QuietApart
<1>8. InStep(db, x.run, x.pages)
  BY <1>2, <1>11, WholePages
<1>9. InStep(db', x.run, x.pages)
  BY <1>4, <1>6, <1>7, <1>8, InStepOn
<1>10. Reads(db', y) /\ OnTrack(db', y)
  BY <1>5, <1>9 DEF Reads, OnTrack
<1> QED
  BY <1>1, <1>2, <1>7, <1>10, ReplayStep DEF Apart

LEMMA FinishReplays ==
  ASSUME FoundationInv, ReplayInv, NEW p \in Procs, Finish(p)
  PROVE  ReplayInv'
<1> DEFINE x == proc[p]
<1>1. /\ x.step = "finish" /\ proc' = [proc EXCEPT ![p] = Idle] /\ db' = db
      /\ status' = [status EXCEPT ![x.run] = "COMPLETE"] /\ replica' = replica
  BY DEF Finish
<1>2. ProcOk(x) /\ x.step # "idle"
  BY <1>1, ActiveFacts
<1>3. x.pages = <<>> /\ x.stage = "request"
  BY <1>1, <1>2 DEF ProcOk, OrderSteps
<1>4. InStep(db', x.run, <<>>)
  BY <1>1, <1>2, <1>3, WholePages
<1>5. Apart(db, db', x.run)
  BY <1>1, SameApart
<1>6. Idle.step = "idle"
  BY DEF Idle
<1> QED
  BY <1>1, <1>2, <1>4, <1>5, <1>6, ReplayStep DEF Apart

LEMMA CrashReplays ==
  ASSUME FoundationInv, ReplayInv, NEW p \in Procs, Crash(p)
  PROVE  ReplayInv'
<1>1. /\ proc[p].step # "idle" /\ proc' = [proc EXCEPT ![p] = Idle] /\ db' = db
      /\ status' = status /\ replica' = replica
  BY DEF Crash
<1>2. Apart(db, db', proc[p].run)
  BY <1>1, SameApart
<1>3. Idle.step = "idle"
  BY DEF Idle
<1> QED
  BY <1>1, <1>2, <1>3, ReplayStep DEF Apart

LEMMA ResolveReplays ==
  ASSUME FoundationInv, ReplayInv, NEW i \in DOMAIN db.blocks, Resolve(i)
  PROVE  ReplayInv'
<1> DEFINE blocks == [db.blocks EXCEPT ![i].resolved = TRUE]
<1>1. Tables(db)
  BY DEF FoundationInv, ChainsHold
<1>2. /\ db' = [db EXCEPT !.blocks = blocks]
      /\ status' = status /\ proc' = proc /\ replica' = replica
  BY <1>1 DEF Resolve, ResolveBlock, Tables
<1>3. db'.raw = db.raw /\ db'.snaps = db.snaps /\ db'.blocks = blocks
  BY <1>1, <1>2 DEF Tables
<1>4. \A j \in DOMAIN db.blocks : j \in DOMAIN blocks /\ blocks[j].order = db.blocks[j].order
  BY <1>1 DEF Tables
<1> HIDE DEF blocks
<1>5. Keeps(db, db')
  BY <1>3, <1>4 DEF Keeps
<1>6. AllClimb(db') /\ \A r : OwnStays(db, db', r)
  BY <1>3, SameOwns DEF ReplayInv
<1>7. \A r \in Runs : \A pages : InStep(db, r, pages) => InStep(db', r, pages)
  BY <1>3, <1>5, <1>6, InStepOn
<1>8. ASSUME NEW p \in Procs, proc[p].step # "idle"
      PROVE  Reads(db', proc[p]) /\ OnTrack(db', proc[p])
  <2>1. ProcOk(proc[p]) /\ proc[p].run \in Runs
    BY <1>8, ActiveFacts
  <2>2. Reads(db, proc[p]) /\ OnTrack(db, proc[p])
    BY <1>8 DEF ReplayInv
  <2> QED
    BY <1>3, <1>5, <1>6, <2>1, <2>2, ReadsOn, OnTrackOn
<1>9. ASSUME NEW r \in Runs PROVE ReplicaOk(db', r, status[r], replica[r])
  <2>1. ReplicaOk(db, r, status[r], replica[r])
    BY DEF ReplayInv
  <2>2. AllAgree(db, replica[r].tables, r) => AllAgree(db', replica[r].tables, r)
    BY <1>5, <1>6, AgreesOn
  <2> QED
    BY <2>1, <2>2 DEF ReplicaOk
<1>10. \A r \in Runs : status[r] = "none" => \A o \in Orders : Own(db', r, o) = {}
  BY <1>6 DEF ReplayInv, OwnStays
<1> QED
  BY <1>2, <1>6, <1>7, <1>8, <1>9, <1>10 DEF ReplayInv

\* Posting the deltas of the only run there is posts them all.
LEMMA PostOnly ==
  ASSUME NEW e, NEW r, Sound(e, r)
  PROVE  PostCash(e, r, FALSE) = PostCash(e, r, TRUE)
<1>1. {i \in DOMAIN e.deltas : FALSE \/ e.deltas[i].run = r}
        = {i \in DOMAIN e.deltas : TRUE \/ e.deltas[i].run = r}
  BY DEF Sound
<1> QED
  BY <1>1 DEF PostCash

\* A complete run, replayed.
LEMMA RebuiltAgrees ==
  ASSUME NEW r \in Runs, RawOk(db), InStep(db, r, <<>>),
         NEW e, e = PostCash(Rebuilt(r), r, FALSE)
  PROVE  CashGaps(e) = {} /\ AllAgree(db, e, r)
<1> DEFINE rows == db.raw[r]
           l == Len(rows)
<1>1. l \in Nat /\ RowsOk(rows) /\ DOMAIN rows = 1 .. l
  <2>1. PICK S : rows \in Seq(S)
    BY DEF RawOk, IsList
  <2> QED
    BY <2>1 DEF InStep
<1>2. PICK n \in 0 .. l : \E f : Follows(db, r, <<>>, n, f)
  BY DEF InStep
<1>3. PICK f : Follows(db, r, <<>>, n, f)
  BY <1>2
<1>4. Replayed(f, r, rows, n) /\ Sound(f, r) /\ AllAgree(db, f, r) /\ Rest(rows, n, <<>>)
  BY <1>3 DEF Follows
<1> HIDE DEF rows
<1>5. \A j \in (n + 1) .. l : rows[j].endpoint \in Endpoints \ OrderSteps
  <2>1. PICK pos : Placed(pos, rows, n, <<>>)
    BY <1>4 DEF Rest
  <2>2. DOMAIN <<>> = {}
    OBVIOUS
  <2>3. \A j \in (n + 1) .. l : rows[j].endpoint \notin OrderSteps
    BY <2>1, <2>2 DEF Placed
  <2>4. \A j \in (n + 1) .. l : j \in 1 .. l
    BY <1>1
  <2> QED
    BY <1>1, <2>3, <2>4 DEF RowsOk
<1> HIDE DEF l
<1>6. PICK g : Replayed(g, r, rows, l) /\ Sound(g, r) /\ g.snaps = f.snaps
  <2>1. n \in Nat /\ n <= l
    BY <1>1
  <2> QED
    BY <1>1, <1>4, <1>5, <2>1, Advance
<1>7. Rebuilt(r) = g
  BY <1>1, <1>6, RebuiltIs DEF rows, l
<1>8. e = PostCash(g, r, TRUE)
  BY <1>6, <1>7, PostOnly, Zenon
<1>9. LedgerOk(g)
  BY <1>6 DEF Sound
<1>10. LedgerOk(e) /\ \A q : NoGapOf(e, q)
  BY <1>8, <1>9, PostLeavesNoGap
<1>11. CashGaps(e) = {}
  <2>1. \A i \in CashGaps(e) : i \in DOMAIN e.deltas
    BY DEF CashGaps
  <2> QED
    BY <1>10, <2>1 DEF NoGapOf
<1>12. e.snaps = f.snaps
  <2>1. PostCash(g, r, TRUE).snaps = g.snaps
    BY <1>9, PostIs
  <2> QED
    BY <1>6, <1>8, <2>1, Zenon
<1>13. AllAgree(db, e, r)
  BY <1>4, <1>12, SameLogAgrees
<1> QED
  BY <1>11, <1>13

LEMMA RunReplays ==
  ASSUME FoundationInv, ReplayInv, NEW r \in Runs, Replay(r)
  PROVE  ReplayInv'
<1> DEFINE tables == PostCash(Rebuilt(r), r, FALSE)
           copy == [built |-> TRUE, tables |-> tables]
<1>1. /\ status[r] = "COMPLETE" /\ replica' = [replica EXCEPT ![r] = copy]
      /\ db' = db /\ status' = status /\ proc' = proc
  BY DEF Replay
<1>2. RawOk(db) /\ InStep(db, r, <<>>)
  BY <1>1 DEF FoundationInv, ReplayInv
<1>3. CashGaps(tables) = {} /\ AllAgree(db, tables, r)
  <2>1. PICK e : e = tables
    OBVIOUS
  <2>2. CashGaps(e) = {} /\ AllAgree(db, e, r)
    BY <1>2, <2>1, RebuiltAgrees, Zenon
  <2> QED
    BY <2>1, <2>2, Zenon
<1>4. copy.tables = tables
  OBVIOUS
<1> HIDE DEF copy, tables
<1>5. ReplicaOk(db, r, status[r], copy)
  BY <1>1, <1>3, <1>4 DEF ReplicaOk
<1>6. replica = [s \in Runs |-> replica[s]]
  BY DEF ReplayInv
<1>7. /\ replica' = [s \in Runs |-> replica'[s]]
      /\ replica'[r] = copy /\ \A s \in Runs : s # r => replica'[s] = replica[s]
  BY <1>1, <1>6
<1>8. \A s \in Runs : ReplicaOk(db, s, status[s], replica'[s])
  BY <1>5, <1>7 DEF ReplayInv
<1> QED
  BY <1>1, <1>7, <1>8 DEF ReplayInv

LEMMA ProcReplays ==
  ASSUME FoundationInv, ReplayInv, NEW p \in Procs, ProcNext(p)
  PROVE  ReplayInv'
<1>1. CASE Begin(p)
  BY <1>1, BeginReplays
<1>2. CASE RefreshToken(p)
  BY <1>2, RefreshReplays
<1>3. CASE TokenExpires(p)
  BY <1>3, SameReplays DEF TokenExpires
<1>4. CASE RetryLater(p)
  BY <1>4, RetryReplays
<1>5. CASE Refuse(p)
  <2>1. PICK ok : db' = SaveRaw(db, proc[p].run, proc[p].step, ok, <<>>)
    BY <1>5, Zenon DEF Refuse
  <2>2. Waiting(p) /\ FailRun(p)
    BY <1>5 DEF Refuse
  <2> QED
    BY <2>1, <2>2, RefuseReplays
<1>6. CASE Unusable(p)
  <2>1. PICK ok : db' = db \/ db' = SaveRaw(db, proc[p].run, proc[p].step, ok, <<>>)
    BY <1>6, Zenon DEF Unusable
  <2>2. Waiting(p) /\ FailRun(p)
    BY <1>6 DEF Unusable
  <2> QED
    BY <2>1, <2>2, RefuseReplays
<1>7. CASE Answer(p)
  BY <1>7, AnswerReplays
<1>8. CASE FetchPage(p)
  BY <1>8, PageReplays
<1>9. CASE FetchDetail(p)
  BY <1>9, DetailReplays
<1>10. CASE StoreOrders(p)
  BY <1>10, StoreOrdersReplays
<1>11. CASE ReadPrevious(p)
  BY <1>11, ReadPreviousReplays
<1>12. CASE StoreExecutions(p)
  BY <1>12, StoreExecutionsReplays
<1>13. CASE PostAllCash(p)
  BY <1>13, PostReplays
<1>14. CASE Finish(p)
  BY <1>14, FinishReplays
<1>15. CASE Crash(p)
  BY <1>15, CrashReplays
<1>16. CASE TokenRefused(p)
  <2>1. PICK ok : db' = db \/ db' = SaveRaw(db, proc[p].run, "token", ok, <<>>)
    BY <1>16, Zenon DEF TokenRefused
  <2>2. Waiting(p) /\ FailRun(p)
    BY <1>16 DEF TokenRefused
  <2> QED
    BY <2>1, <2>2, RefuseReplays
<1>17. CASE AnswerAccounts(p)
  BY <1>17, AccountsReplays
<1> QED
  BY <1>1, <1>2, <1>3, <1>4, <1>5, <1>6, <1>7, <1>8, <1>9, <1>10, <1>11, <1>12, <1>13,
     <1>14, <1>15, <1>16, <1>17 DEF ProcNext

LEMMA ReplayStarts ==
  ASSUME FoundationInit
  PROVE  ReplayInv
<1>1. /\ db = EmptyTables /\ status = [r \in Runs |-> "none"] /\ proc = [p \in Procs |-> Idle]
      /\ replica = [r \in Runs |-> NoReplica]
  BY DEF FoundationInit
<1>2. \A o : Chain(db, o) = {}
  BY <1>1, EmptySound
<1>3. AllClimb(db) /\ \A r \in Runs : \A o \in Orders : Own(db, r, o) = {}
  BY <1>2 DEF AllClimb, Climbs, Own
<1>4. \A p \in Procs : proc[p].step = "idle"
  BY <1>1 DEF Idle
<1>5. \A r \in Runs : status[r] = "none" /\ ReplicaOk(db, r, status[r], replica[r])
  BY <1>1 DEF ReplicaOk, NoReplica
<1> QED
  BY <1>1, <1>3, <1>4, <1>5 DEF ReplayInv

LEMMA ReplayNextInv ==
  ASSUME FoundationInv, ReplayInv, [FoundationNext]_foundationVars
  PROVE  ReplayInv'
<1>1. CASE \E o \in Orders : PlaceOrder(o) \/ BrokerReports(o)
  BY <1>1, SameReplays DEF BrokerReports, PlaceOrder
<1>2. CASE \E p \in Procs : ProcNext(p)
  BY <1>2, ProcReplays
<1>3. CASE \E i \in DOMAIN db.blocks : Resolve(i)
  BY <1>3, ResolveReplays
<1>4. CASE \E r \in Runs : Replay(r)
  BY <1>4, RunReplays
<1>5. CASE UNCHANGED foundationVars
  BY <1>5, SameReplays DEF foundationVars
<1> QED
  BY <1>1, <1>2, <1>3, <1>4, <1>5 DEF FoundationNext

LEMMA ReplayInvMeans ==
  ASSUME FoundationInv, ReplayInv
  PROVE  ReplayAgrees
<1> SUFFICES ASSUME NEW r \in Complete
             PROVE  /\ \A i \in DOMAIN db.raw[r] : db.raw[r][i].ok
                    /\ replica[r].built => \A o \in Orders :
                         LET own == {i \in Chain(db, o) : db.snaps[i].run = r}
                         IN (own # {} /\ \A i \in DOMAIN db.blocks : db.blocks[i].order # o)
                            => /\ Previous(replica[r].tables, o).qty = db.snaps[Latest(own)].qty
                               /\ Previous(replica[r].tables, o).fee = db.snaps[Latest(own)].fee
                               /\ CashGaps(replica[r].tables) = {}
  BY DEF ReplayAgrees
<1>1. r \in Runs /\ InStep(db, r, <<>>)
  BY DEF Complete, ReplayInv
<1>2. \A i \in DOMAIN db.raw[r] : db.raw[r][i].ok
  BY <1>1 DEF InStep, RowsOk
<1> DEFINE copy == replica[r].tables
<1>3. ASSUME replica[r].built, NEW o \in Orders, Own(db, r, o) # {}, ~IsBlocked(db, o)
      PROVE  /\ Previous(copy, o).qty = db.snaps[Latest(Own(db, r, o))].qty
             /\ Previous(copy, o).fee = db.snaps[Latest(Own(db, r, o))].fee
             /\ CashGaps(copy) = {}
  <2>1. CashGaps(copy) = {} /\ Agrees(db, copy, r, o)
    BY <1>1, <1>3 DEF ReplayInv, ReplicaOk, AllAgree
  <2>2. PICK i \in Own(db, r, o) : /\ IsLastOwn(db, r, o, i)
                                   /\ Previous(copy, o).qty = db.snaps[i].qty
                                   /\ Previous(copy, o).fee = db.snaps[i].fee
    BY <1>3, <2>1 DEF Agrees
  <2>3. Tables(db)
    BY DEF FoundationInv, ChainsHold
  <2>4. Len(db.snaps) \in Nat /\ Own(db, r, o) \subseteq 1 .. Len(db.snaps)
    <3>1. PICK S : db.snaps \in Seq(S)
      BY <2>3 DEF Tables, IsList
    <3>2. Len(db.snaps) \in Nat /\ DOMAIN db.snaps = 1 .. Len(db.snaps)
      BY <3>1
    <3> QED
      BY <3>2 DEF Own, Chain
  <2> DEFINE own == Own(db, r, o)
  <2> HIDE DEF own
  <2>5. Latest(own) \in own /\ \A j \in own : j <= Latest(own)
    BY <1>3, <2>4, LatestIs DEF own
  <2>6. i \in own /\ \A j \in own : j <= i
    BY <2>2 DEF IsLastOwn, own
  <2>7. Latest(own) = i
    BY <2>4, <2>5, <2>6 DEF own
  <2> QED
    BY <2>1, <2>2, <2>7 DEF own
<1> QED
  BY <1>2, <1>3 DEF Own, IsBlocked

\* The replay of a complete run agrees with the run, for every interleaving of any number
\* of processes and of crashes: every response that the run stored is a success, which
\* replay_foundation_run asks for, and unless a report of an order was blocked, the new
\* database ends at the cumulative quantity and fee that the run stored last, with all of its
\* cash posted, although it holds none of the snapshots that other runs stored in between
\* and takes in at once the pages that the run stored in several transactions.  A run whose
\* accounts response lists several accounts is left out: replay_foundation_run refuses it.
THEOREM ReplayEndsWhereTheRunDid == FoundationSpec => []ReplayAgrees
<1>1. FoundationInit => FoundationInv /\ ReplayInv
  BY FoundationStarts, ReplayStarts
<1>2. FoundationInv /\ ReplayInv /\ [FoundationNext]_foundationVars
        => FoundationInv' /\ ReplayInv'
  BY FoundationNextInv, ReplayNextInv
<1>3. FoundationInv /\ ReplayInv => ReplayAgrees
  BY ReplayInvMeans
<1> QED
  BY <1>1, <1>2, <1>3, PTL DEF FoundationSpec
=============================================================================

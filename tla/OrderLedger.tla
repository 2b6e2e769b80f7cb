---------------------------- MODULE OrderLedger ----------------------------
(***************************************************************************)
(* Order observation and the account ledger it feeds: the order state log  *)
(* (account/orders.py), the cumulative execution snapshots                 *)
(* (account/executions.py), the service that applies one observed broker   *)
(* response to both, posts the difference and releases reservations        *)
(* (execution/fills.py), the poster (ledger/posting.py), reservations      *)
(* (ledger/cash.py, ledger/positions.py) and tax lots (TaxLots).           *)
(*                                                                         *)
(* One account and one instrument.  Every table of the code is append-only *)
(* and keyed by the broker order, so a table is a function from the orders *)
(* to sequences.  The cash and position rows of an order, which the code   *)
(* only ever adds up, are kept as their sums.                              *)
(*                                                                         *)
(* One call of the service is one action: its writes are inside a          *)
(* savepoint that an error rolls back, so a refused call changes nothing   *)
(* and is not an action.                                                   *)
(***************************************************************************)
EXTENDS OrderStates, TaxLots, Sequences, SequencesExt

CONSTANTS
    Orders,          \* broker orders
    Side,            \* Side[o]: "BUY" or "SELL"
    Ordered,         \* Ordered[o]: the quantity ordered, NoQuantity if by amount
    Opening,         \* quantity of the opening position
    Statuses,        \* statuses the broker reports
    Reports,         \* cumulative executions the broker reports
    Responses,       \* identities of stored raw responses
    Contexts,        \* posting contexts a caller can pass
    OwnStates,       \* states the program itself records
    TimeoutAnswers,  \* what a lookup after a submission timeout finds: NotFound
                     \* or a status
    Amounts,         \* amounts a caller reserves
    MaxLate,         \* how far behind the clock an observation may be applied
    MaxTime,         \* bound on the clock
    MaxEvents,       \* bounds on the rows of one order: state events,
    MaxSnapshots,    \* execution snapshots
    MaxReservations  \* and reservation events

Fields == {"quantity", "amount", "commission", "tax"}
NoQuantity == 0
NoContext == "no context"
NoResponse == "no response"
NoReason == "no reason"
NotFound == "not found"
TimedOut == "timed out"

ASSUME LedgerAssumption ==
    /\ IsFiniteSet(Orders)
    /\ Side \in [Orders -> {"BUY", "SELL"}]
    /\ Ordered \in [Orders -> Nat]
    /\ Opening \in Nat
    /\ OwnStates \subseteq OrderState
    /\ Reports \subseteq [Fields -> Nat]
    /\ Amounts \subseteq Nat
    /\ MaxLate \in Nat /\ MaxTime \in Nat
    /\ MaxEvents \in Nat /\ MaxSnapshots \in Nat /\ MaxReservations \in Nat
    /\ NoContext \notin Contexts /\ NoResponse \notin Responses

VARIABLES
    now,        \* the clock
    log,        \* log[o]: am_order_state_event rows
    snaps,      \* snaps[o]: am_execution_snapshot rows, each with its delta
    posted,     \* posted[o]: am_execution_posting rows, <<snapshot, context>>
    cash,       \* cash[o]: sum of the cash rows posted for the order
    position,   \* position[o]: sum of its position rows
    res,        \* res[o]: am_cash/position_reservation_event rows
    lots,       \* am_tax_lot and timing rows
    disposals   \* am_tax_lot_disposal and timing rows

ledger == <<posted, cash, position, lots, disposals>>
vars == <<now, log, snaps, ledger, res>>

Time == 0..MaxTime
Reasons == {NoReason, TimedOut} \cup Statuses \cup TimeoutAnswers
Event == [state : OrderState, at : Time, src : Responses \cup {NoResponse},
          reason : Reasons]
Snapshot == [cum : Reports, at : Time, src : Responses]
Reservation == [amount : Nat, status : {"RESERVED", "RELEASED"}, at : Time,
                src : Responses]
MaxLots == MaxSnapshots * Cardinality({o \in Orders : Side[o] = "BUY"})
OpeningLot == [id |-> <<"opening", 0>>, quantity |-> Opening, at |-> 0, 
               rank |-> MaxLots + 1]

(* What the tables hold. *)
TypeOK ==
    /\ now \in Time
    /\ log \in [Orders -> Seq(Event)]
    /\ snaps \in [Orders -> Seq(Snapshot)]
    /\ posted \in [Orders -> SUBSET (Nat \X Contexts)]
    /\ \A o \in Orders : posted[o] \subseteq (DOMAIN snaps[o]) \X Contexts
    /\ cash \in [Orders -> Int]
    /\ position \in [Orders -> Int]
    /\ res \in [Orders -> Seq(Reservation)]

Init ==
    /\ now = 0
    /\ log = [o \in Orders |-> <<>>]
    /\ snaps = [o \in Orders |-> <<>>]
    /\ posted = [o \in Orders |-> {}]
    /\ cash = [o \in Orders |-> 0]
    /\ position = [o \in Orders |-> 0]
    /\ res = [o \in Orders |-> <<>>]
    /\ lots = {OpeningLot}
    /\ disposals = {}

-----------------------------------------------------------------------------
(* Order states. *)

Uses(rows, src) == \E i \in DOMAIN rows : rows[i].src = src

(* OrderStateRepository.append: a response seen before must repeat the     *)
(* latest event exactly; a new event moves forward in time along an        *)
(* allowed transition.                                                     *)
AcceptsState(o, e) ==
    IF e.src # NoResponse /\ Uses(log[o], e.src)
    THEN Last(log[o]) = e
    ELSE /\ Len(log[o]) < MaxEvents
         /\ log[o] # <<>> => /\ e.at >= Last(log[o]).at
                             /\ MayFollow(Last(log[o]).state, e.state)

WithState(o, e) ==
    IF e.src # NoResponse /\ Uses(log[o], e.src) THEN log[o] ELSE Append(log[o], e)

(* append_broker_state normalises the status; an unknown one keeps its raw *)
(* value as the reason.                                                    *)
BrokerEvent(raw, at, src) ==
    [state |-> Normalize(raw), at |-> at, src |-> src,
     reason |-> IF Normalize(raw) = "UNKNOWN" THEN raw ELSE NoReason]

IsFinal(o) == log[o] # <<>> /\ Last(log[o]).state \in Terminal

-----------------------------------------------------------------------------
(* Cumulative executions. *)

Nothing == [f \in Fields |-> 0]

Cumulative(rows) == IF rows = <<>> THEN Nothing ELSE Last(rows).cum

(* ExecutionSnapshotRepository.append on one report.  The average price is *)
(* left out: it must be positive exactly when the amount must.             *)
WellFormed(o, cum) ==
    /\ cum["quantity"] = 0 => cum["amount"] = 0
    /\ cum["quantity"] > 0 => cum["amount"] > 0
    /\ Ordered[o] # NoQuantity => cum["quantity"] <= Ordered[o]

Repeats(rows, cum) == \E i \in DOMAIN rows : rows[i].cum = cum

(* Bug: a report that falls behind the last one is taken. *)
AcceptsDecrease(o, s) ==
    /\ WellFormed(o, s.cum)
    /\ IF Uses(snaps[o], s.src)
       THEN Last(snaps[o]) = s
       ELSE IF Repeats(snaps[o], s.cum)
       THEN Last(snaps[o]).cum = s.cum
       ELSE /\ Len(snaps[o]) < MaxSnapshots
            /\ snaps[o] # <<>> => s.at >= Last(snaps[o]).at

AcceptsReport(o, s) ==
    /\ WellFormed(o, s.cum)
    /\ IF Uses(snaps[o], s.src)
       THEN Last(snaps[o]) = s
       ELSE IF Repeats(snaps[o], s.cum)
       THEN Last(snaps[o]).cum = s.cum
       ELSE /\ Len(snaps[o]) < MaxSnapshots
            /\ snaps[o] # <<>> => s.at >= Last(snaps[o]).at
            /\ \A f \in Fields : s.cum[f] >= Cumulative(snaps[o])[f]

WithReport(o, s) ==
    IF Uses(snaps[o], s.src) \/ Repeats(snaps[o], s.cum)
    THEN snaps[o]
    ELSE Append(snaps[o], s)

(* Bug: the cumulative report is taken for the difference. *)
DeltaWhole(rows) == Last(rows).cum

(* delta_for_snapshot: the last snapshot less the one before it. *)
DeltaOf(rows) ==
    [f \in Fields |-> Last(rows).cum[f] - Cumulative(Front(rows))[f]]

HasEffect(delta) == \E f \in Fields : delta[f] # 0

(* observe() compares the fill-bearing states with the ordered quantity. *)
StateFits(o, state, quantity) ==
    /\ state \in FillBearing => quantity > 0
    /\ Ordered[o] # NoQuantity =>
           /\ state = "FILLED" => quantity = Ordered[o]
           /\ state = "PARTIALLY_FILLED" => quantity < Ordered[o]

-----------------------------------------------------------------------------
(* Posting. *)

Sign(o) == IF Side[o] = "BUY" THEN 1 ELSE -1

CashEffect(o, d) == (0 - Sign(o)) * d["amount"] - d["commission"] - d["tax"]

PositionEffect(o, d) == Sign(o) * d["quantity"]

IsPosted(o, n) == \E c \in Contexts : <<n, c>> \in posted[o]

(* ExecutionLedgerPoster.post of snapshot n of an order: a posted delta    *)
(* must come with its original context and writes nothing; another one     *)
(* writes its cash and position rows, and opens or consumes tax lots.      *)
AcceptsPosting(o, n, d, context, at) ==
    IF IsPosted(o, n)
    THEN <<n, context>> \in posted[o]
    ELSE Side[o] = "SELL" /\ d["quantity"] > 0 =>
             Covered(lots, disposals, d["quantity"], at)

FreeRanks(at) == (1..MaxLots) \ {l.rank : l \in {k \in lots : DayOf(k.at) = DayOf(at)}}

(* The lots after a purchase: its place in its day is arbitrary. *)
LotsAfter(o, n, d, at) ==
    IF Side[o] = "BUY" /\ d["quantity"] > 0
    THEN {lots \cup {[id |-> <<o, n>>, quantity |-> d["quantity"], at |-> at,
                      rank |-> rank]} : rank \in FreeRanks(at)}
    ELSE {lots}

NewDisposals(o, n, d, at) ==
    IF Side[o] = "SELL" /\ d["quantity"] > 0
    THEN Disposed(lots, disposals, <<o, n>>, d["quantity"], at)
    ELSE {}

Post(o, n, d, context, at) ==
    IF IsPosted(o, n)
    THEN UNCHANGED ledger
    ELSE /\ posted' = [posted EXCEPT ![o] = @ \cup {<<n, context>>}]
         /\ cash' = [cash EXCEPT ![o] = @ + CashEffect(o, d)]
         /\ position' = [position EXCEPT ![o] = @ + PositionEffect(o, d)]
         /\ lots' \in LotsAfter(o, n, d, at)
         /\ disposals' = disposals \cup NewDisposals(o, n, d, at)

-----------------------------------------------------------------------------
(* Reservations. *)

IsReserved(o) == res[o] # <<>> /\ Last(res[o]).status = "RESERVED"

(* _release_reservations, for a final state: the response that proves it   *)
(* must not already stand in the reservation log.                          *)
AcceptsRelease(o, state, src) ==
    state \in Terminal /\ IsReserved(o) => ~Uses(res[o], src) /\ Len(res[o]) < MaxReservations

Released(o, state, at, src) ==
    IF state \in Terminal /\ IsReserved(o)
    THEN Append(res[o], [amount |-> 0, status |-> "RELEASED", at |-> at, src |-> src])
    ELSE res[o]

(* reserve_open_order and reserve_sell. A response seen before changes     *)
(* nothing. Neither asks for the state of the order.                       *)
Reserve(o, amount, released, at, src) ==
    /\ ~Uses(res[o], src)
    /\ Len(res[o]) < MaxReservations
    /\ res[o] # <<>> => at >= Last(res[o]).at
    /\ res' = [res EXCEPT ![o] = Append(@,
                  [amount |-> IF released THEN 0 ELSE amount,
                   status |-> IF released THEN "RELEASED" ELSE "RESERVED",
                   at |-> at, src |-> src])]
    /\ UNCHANGED <<now, log, snaps, ledger>>

-----------------------------------------------------------------------------
(* The service. *)

(* observe() of a known status without an execution. *)
ObserveState(o, raw, at, src) ==
    LET e == BrokerEvent(raw, at, src) IN
    /\ e.state \notin FillBearing \cup {"UNKNOWN"}
    /\ AcceptsState(o, e)
    /\ AcceptsRelease(o, e.state, src)
    /\ log' = [log EXCEPT ![o] = WithState(o, e)]
    /\ res' = [res EXCEPT ![o] = Released(o, e.state, at, src)]
    /\ UNCHANGED <<now, snaps, ledger>>

(* observe() of a known status with an execution and, where it is needed,  *)
(* the context to post it in.                                              *)
ObserveExecution(o, raw, at, src, cum, context) ==
    LET e == BrokerEvent(raw, at, src)
        s == [cum |-> cum, at |-> at, src |-> src]
        rows == WithReport(o, s)
        d == DeltaOf(rows)
    IN  /\ e.state # "UNKNOWN"
        /\ e.state \in FillBearing => context # NoContext
        /\ AcceptsState(o, e)
        /\ AcceptsReport(o, s)
        /\ StateFits(o, e.state, Last(rows).cum["quantity"])
        /\ HasEffect(d) => context # NoContext
        /\ context # NoContext => AcceptsPosting(o, Len(rows), d, context, at)
        /\ AcceptsRelease(o, e.state, src)
        /\ log' = [log EXCEPT ![o] = WithState(o, e)]
        /\ snaps' = [snaps EXCEPT ![o] = rows]
        /\ IF context = NoContext
           THEN UNCHANGED ledger
           ELSE Post(o, Len(rows), d, context, at)
        /\ res' = [res EXCEPT ![o] = Released(o, e.state, at, src)]
        /\ UNCHANGED now

(* observe() of a status it does not know: the event is kept, outside the  *)
(* savepoint, and the call raises.                                         *)
ObserveUnknown(o, raw, at, src) ==
    LET e == BrokerEvent(raw, at, src) IN
    /\ e.state = "UNKNOWN"
    /\ AcceptsState(o, e)
    /\ log' = [log EXCEPT ![o] = WithState(o, e)]
    /\ UNCHANGED <<now, snaps, ledger, res>>

(* append() by the program itself, before the broker has said anything. *)
Advance(o, state, at) ==
    LET e == [state |-> state, at |-> at, src |-> NoResponse, reason |-> NoReason] IN
    /\ log[o] = <<>> => state \in {"PLANNED", "SUBMITTING"}
    /\ AcceptsState(o, e)
    /\ log' = [log EXCEPT ![o] = WithState(o, e)]
    /\ UNCHANGED <<now, snaps, ledger, res>>

(* recover_submission_timeout when the lookup finds nothing, *)
TimeoutUnproven(o, at, src) ==
    LET e == [state |-> "REVIEW_REQUIRED", at |-> at, src |-> src, reason |-> TimedOut] IN
    /\ NotFound \in TimeoutAnswers
    /\ log[o] # <<>>
    /\ AcceptsState(o, e)
    /\ log' = [log EXCEPT ![o] = WithState(o, e)]
    /\ UNCHANGED <<now, snaps, ledger, res>>

(* and when it finds the order: its status is recorded, and nothing else. *)
TimeoutFound(o, raw, at, src) ==
    LET e == BrokerEvent(raw, at, src) IN
    /\ AcceptsState(o, e)
    /\ log' = [log EXCEPT ![o] = WithState(o, e)]
    /\ UNCHANGED <<now, snaps, ledger, res>>

Tick ==
    /\ now < MaxTime
    /\ now' = now + 1
    /\ UNCHANGED <<log, snaps, ledger, res>>

(* The instants a call can carry: the time, as far behind the clock as     *)
(* MaxLate allows, or, for a response that is redelivered, its own.        *)
Instants(o, src) ==
    {t \in Time : now - MaxLate <= t /\ t <= now}
    \cup {log[o][i].at : i \in {j \in DOMAIN log[o] : log[o][j].src = src}}

Observation(o) ==
    \E src \in Responses : \E at \in Instants(o, src) :
        \/ \E raw \in Statuses :
              \/ ObserveState(o, raw, at, src)
              \/ ObserveUnknown(o, raw, at, src)
              \/ \E cum \in Reports, context \in Contexts \cup {NoContext} :
                    ObserveExecution(o, raw, at, src, cum, context)
        \/ TimeoutUnproven(o, at, src)
        \/ \E raw \in TimeoutAnswers \ {NotFound} : TimeoutFound(o, raw, at, src)
        \/ \E amount \in Amounts, released \in BOOLEAN :
              Reserve(o, amount, released, at, src)

Own(o) ==
    \E at \in Instants(o, NoResponse) :
        \/ \E state \in OwnStates : Advance(o, state, at)
        \/ TimeoutUnproven(o, at, NoResponse)

Next == Tick \/ \E o \in Orders : Observation(o) \/ Own(o)

Spec == Init /\ [][Next]_vars

-----------------------------------------------------------------------------
(* Properties. *)

(* Each difference between two cumulative reports reaches the cash and the *)
(* position ledger exactly once, however often the reports are repeated    *)
(* and whatever fails between them: the rows of an order add up to its     *)
(* last report.                                                            *)
LedgerMatchesReports ==
    \A o \in Orders :
        /\ cash[o] = CashEffect(o, Cumulative(snaps[o]))
        /\ position[o] = PositionEffect(o, Cumulative(snaps[o]))

(* The states of an order move forward in time along allowed transitions. *)
StatesChain ==
    \A o \in Orders : \A i \in DOMAIN log[o] \ {1} :
        /\ log[o][i].at >= log[o][i-1].at
        /\ MayFollow(log[o][i-1].state, log[o][i].state)

(* Its cumulative reports move forward in time and never decrease. *)
SnapshotsChain ==
    \A o \in Orders : \A i \in DOMAIN snaps[o] \ {1} :
        /\ snaps[o][i].at >= snaps[o][i-1].at
        /\ \A f \in Fields : snaps[o][i].cum[f] >= snaps[o][i-1].cum[f]

(* Every difference with an effect has been posted. *)
EffectsPosted ==
    \A o \in Orders : \A i \in DOMAIN snaps[o] :
        HasEffect(DeltaOf(SubSeq(snaps[o], 1, i))) => IsPosted(o, i)

(* What _validate_order_states, _validate_execution_chain and              *)
(* _validate_postings of ledger/replay.py demand of the tables before it   *)
(* rebuilds the account: however responses are redelivered, late or        *)
(* refused, and whatever a timeout lookup answers, the writers never leave *)
(* states and executions that replay refuses.                              *)
ExecutionsReplay == StatesChain /\ SnapshotsChain /\ EffectsPosted

(* A fill-bearing state stands together with the execution that proves it  *)
(* and its posting, and once it is final no reservation is left            *)
(* (docs/order_state_execution.md:34). The code breaks it:                 *)
(* recover_submission_timeout records such a state with nothing else, and  *)
(* a reservation may be recorded for an order that is closed.              *)
FillIsPosted ==
    \A o \in Orders : log[o] # <<>> /\ Last(log[o]).state \in FillBearing =>
        /\ snaps[o] # <<>> /\ position[o] # 0
        /\ ~(IsFinal(o) /\ IsReserved(o))

(* No lot is disposed of more than it holds: what dispose_fifo means to    *)
(* refuse (tax_lots.py:129).                                               *)
LotsNotOverdrawn == \A l \in lots : Left(disposals, l, MaxTime) >= 0

Holding == Opening + SumFunction(position)

(* What the lots hold is the position: the opening quantity and every      *)
(* purchase less every sale.                                               *)
LotsMatchPosition ==
    SumFunction([l \in lots |-> Left(disposals, l, MaxTime)]) = Holding

(* First in, first out by acquisition date: nothing is taken from a lot    *)
(* while one of an earlier day, known at that time, still has something.   *)
FirstInFirstOut ==
    \A d \in disposals : \A k, l \in lots :
        l.id = d.lot /\ k.at <= d.at /\ DayOf(k.at) < DayOf(l.at)
            => Left(disposals, k, d.at) <= 0

(* An execution that moves the position is not earlier than what the lots  *)
(* record: the executions of the account are applied in the order in which *)
(* they were observed.  The code does not see to it.                       *)
PostedInOrder ==
    \A o \in Orders : position'[o] # position[o] =>
        \A y \in lots \cup disposals : y.at <= Last(log'[o]).at

(* While executions are applied in the order they were observed            *)
(* (PostedInOrder), and whatever the interleaving of partial fills, the    *)
(* tax lots and the position ledger tell the same holding, no lot is sold  *)
(* twice and the oldest are sold first.                                    *)
LotsSound == LotsNotOverdrawn /\ LotsMatchPosition /\ FirstInFirstOut

(* A final state is never left. *)
FinalIsFinal ==
    [][\A o \in Orders : IsFinal(o) => log'[o] # <<>> /\ Last(log'[o]).state = Last(log[o]).state]_vars
=============================================================================

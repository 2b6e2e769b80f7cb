------------------------- MODULE OrderLedgerProofs -------------------------
(***************************************************************************)
(* Proofs about OrderLedger, for any orders, any broker and any bounds.    *)
(***************************************************************************)
EXTENDS OrderLedger, SumTheorems, TLAPS

(* Every status the broker can report means one of the order states. *)
LEMMA NormalizeType == \A raw : Normalize(raw) \in OrderState
<1>1. SUFFICES ASSUME NEW raw PROVE Normalize(raw) \in OrderState
    OBVIOUS
<1>2. CASE raw \notin DOMAIN BrokerStateMap
    <2>1. "UNKNOWN" \in OrderState
        BY DEF OrderState, AllowedTransitions
    <2> QED BY <1>2, <2>1 DEF Normalize
<1>3. CASE raw \in DOMAIN BrokerStateMap
    <2>1. \A s \in {"ACKNOWLEDGED", "OPEN", "PARTIALLY_FILLED", "FILLED",
                    "CANCEL_PENDING", "CANCELED", "REPLACE_PENDING", "REPLACED",
                    "REJECTED", "REVIEW_REQUIRED"} : s \in OrderState
        BY DEF OrderState, AllowedTransitions, Terminal
    <2>2. BrokerStateMap[raw] \in
            {"ACKNOWLEDGED", "OPEN", "PARTIALLY_FILLED", "FILLED",
             "CANCEL_PENDING", "CANCELED", "REPLACE_PENDING", "REPLACED",
             "REJECTED", "REVIEW_REQUIRED"}
        BY <1>3 DEF BrokerStateMap
    <2> QED BY <1>3, <2>1, <2>2 DEF Normalize
<1> QED BY <1>2, <1>3

(* The last row of a table that is not empty is one of its rows. *)
LEMMA LastIsRow ==
    ASSUME NEW S, NEW rows \in Seq(S), rows # <<>>
    PROVE  /\ Last(rows) \in S
           /\ Len(rows) \in DOMAIN rows
           /\ Len(rows) \in Nat \ {0}
BY DEF Last

LEMMA AppendRow ==
    ASSUME NEW S, NEW rows \in Seq(S), NEW row \in S
    PROVE  /\ Append(rows, row) \in Seq(S)
           /\ Append(rows, row) # <<>>
           /\ Last(Append(rows, row)) = row
           /\ Front(Append(rows, row)) = rows
           /\ Len(Append(rows, row)) = Len(rows) + 1
           /\ DOMAIN Append(rows, row) = DOMAIN rows \cup {Len(rows) + 1}
           /\ \A i \in DOMAIN rows : Append(rows, row)[i] = rows[i]
BY DEF Last, Front

-----------------------------------------------------------------------------
(* What one accepted call does to the state log of an order. *)

LEMMA EventType ==
    ASSUME NEW raw \in Statuses \cup TimeoutAnswers, NEW at \in Time, NEW src \in Responses
    PROVE  BrokerEvent(raw, at, src) \in Event
<1>1. Normalize(raw) \in OrderState
    BY NormalizeType
<1>2. (IF Normalize(raw) = "UNKNOWN" THEN raw ELSE NoReason) \in Reasons
    BY DEF Reasons
<1> QED BY <1>1, <1>2 DEF BrokerEvent, Event

(* The log of an order after any call: the log before, or the log with one *)
(* event that may follow it.                                               *)
Follows(rows, next) ==
    \/ next = rows
    \/ \E e \in Event :
          /\ next = Append(rows, e)
          /\ rows # <<>> => e.at >= Last(rows).at /\ MayFollow(Last(rows).state, e.state)

LEMMA AcceptedFollows ==
    ASSUME NEW o \in Orders, NEW e \in Event, AcceptsState(o, e)
    PROVE  Follows(log[o], WithState(o, e))
BY DEF AcceptsState, WithState, Follows

LEMMA InstantsType ==
    ASSUME TypeOK, NEW o \in Orders, NEW src, NEW at \in Instants(o, src)
    PROVE  at \in Time
<1>1. CASE at \in {t \in Time : now - MaxLate <= t /\ t <= now}
    BY <1>1
<1>2. CASE at \in {log[o][i].at : i \in {j \in DOMAIN log[o] : log[o][j].src = src}}
    <2>1. PICK i \in DOMAIN log[o] : at = log[o][i].at
        BY <1>2
    <2>2. log[o][i] \in Event
        BY <2>1 DEF TypeOK
    <2> QED BY <2>1, <2>2 DEF Event
<1> QED BY <1>1, <1>2 DEF Instants

(* Every step, but a tick of the clock, is one call for one order. *)
LEMMA Calls ==
    ASSUME TypeOK, Next
    PROVE  \/ Tick
           \/ \E o \in Orders, at \in Time :
                \/ \E src \in Responses, raw \in Statuses : ObserveState(o, raw, at, src)
                \/ \E src \in Responses, raw \in Statuses : ObserveUnknown(o, raw, at, src)
                \/ \E src \in Responses, raw \in Statuses, cum \in Reports,
                      context \in Contexts \cup {NoContext} :
                        ObserveExecution(o, raw, at, src, cum, context)
                \/ \E src \in Responses \cup {NoResponse} : TimeoutUnproven(o, at, src)
                \/ \E src \in Responses, raw \in TimeoutAnswers : TimeoutFound(o, raw, at, src)
                \/ \E src \in Responses, amount \in Amounts, released \in BOOLEAN :
                      Reserve(o, amount, released, at, src)
                \/ \E state \in OwnStates : Advance(o, state, at)
<1>1. SUFFICES ASSUME NEW o \in Orders, Observation(o) \/ Own(o)
               PROVE  \E at \in Time :
                \/ \E src \in Responses, raw \in Statuses : ObserveState(o, raw, at, src)
                \/ \E src \in Responses, raw \in Statuses : ObserveUnknown(o, raw, at, src)
                \/ \E src \in Responses, raw \in Statuses, cum \in Reports,
                      context \in Contexts \cup {NoContext} :
                        ObserveExecution(o, raw, at, src, cum, context)
                \/ \E src \in Responses \cup {NoResponse} : TimeoutUnproven(o, at, src)
                \/ \E src \in Responses, raw \in TimeoutAnswers : TimeoutFound(o, raw, at, src)
                \/ \E src \in Responses, amount \in Amounts, released \in BOOLEAN :
                      Reserve(o, amount, released, at, src)
                \/ \E state \in OwnStates : Advance(o, state, at)
    BY Zenon DEF Next
<1>2. CASE Observation(o)
    <2>1. \A src \in Responses : \A at \in Instants(o, src) : at \in Time
        BY InstantsType
    <2> QED BY <1>2, <2>1, Zenon DEF Observation
<1>3. CASE Own(o)
    <2>1. \A at \in Instants(o, NoResponse) : at \in Time
        BY InstantsType
    <2> QED BY <1>3, <2>1, Zenon DEF Own
<1> QED BY <1>1, <1>2, <1>3

-----------------------------------------------------------------------------
(* Cumulative values, their differences and what they are worth. *)

LEMMA CumulativeType ==
    ASSUME NEW rows \in Seq(Snapshot)
    PROVE  Cumulative(rows) \in [Fields -> Nat]
<1>1. CASE rows = <<>>
    BY <1>1 DEF Cumulative, Nothing
<1>2. CASE rows # <<>>
    <2>1. Last(rows) \in Snapshot
        BY <1>2, LastIsRow
    <2> QED BY <1>2, <2>1, LedgerAssumption DEF Cumulative, Snapshot
<1> QED BY <1>1, <1>2

LEMMA EffectsAdd ==
    ASSUME NEW o \in Orders, NEW a \in [Fields -> Nat], NEW b \in [Fields -> Nat]
    PROVE  LET d == [f \in Fields |-> b[f] - a[f]] IN
           /\ CashEffect(o, d) \in Int
           /\ CashEffect(o, a) + CashEffect(o, d) = CashEffect(o, b)
           /\ PositionEffect(o, d) \in Int
           /\ PositionEffect(o, a) + PositionEffect(o, d) = PositionEffect(o, b)
<1> DEFINE d == [f \in Fields |-> b[f] - a[f]]
<1>1. /\ \A f \in Fields : a[f] \in Int /\ b[f] \in Int /\ d[f] = b[f] - a[f]
      /\ {"quantity", "amount", "commission", "tax"} = Fields
    BY DEF Fields
<1>7. SUFFICES /\ CashEffect(o, d) \in Int
               /\ CashEffect(o, a) + CashEffect(o, d) = CashEffect(o, b)
               /\ PositionEffect(o, d) \in Int
               /\ PositionEffect(o, a) + PositionEffect(o, d) = PositionEffect(o, b)
    OBVIOUS
<1> HIDE DEF d
<1>2. Sign(o) \in {1, -1}
    BY DEF Sign
<1>3. /\ d["quantity"] = b["quantity"] - a["quantity"]
      /\ d["amount"] = b["amount"] - a["amount"]
      /\ d["commission"] = b["commission"] - a["commission"]
      /\ d["tax"] = b["tax"] - a["tax"]
    BY <1>1
<1>4. /\ a["quantity"] \in Int /\ a["amount"] \in Int /\ a["commission"] \in Int
      /\ a["tax"] \in Int
      /\ b["quantity"] \in Int /\ b["amount"] \in Int /\ b["commission"] \in Int
      /\ b["tax"] \in Int
    BY <1>1
<1>5. CASE Sign(o) = 1
    BY <1>3, <1>4, <1>5 DEF CashEffect, PositionEffect
<1>6. CASE Sign(o) = -1
    BY <1>3, <1>4, <1>6 DEF CashEffect, PositionEffect
<1> QED BY <1>2, <1>5, <1>6

LEMMA NoEffectIsZero ==
    ASSUME NEW o \in Orders, NEW d \in [Fields -> Int], ~HasEffect(d)
    PROVE  CashEffect(o, d) = 0 /\ PositionEffect(o, d) = 0
<1>1. d["quantity"] = 0 /\ d["amount"] = 0 /\ d["commission"] = 0 /\ d["tax"] = 0
    BY DEF HasEffect, Fields
<1> QED BY <1>1 DEF CashEffect, PositionEffect, Sign

LEMMA NothingIsWorthNothing ==
    ASSUME NEW o \in Orders
    PROVE  CashEffect(o, Nothing) = 0 /\ PositionEffect(o, Nothing) = 0
BY NoEffectIsZero DEF Nothing, HasEffect

LEMMA DeltaType ==
    ASSUME NEW rows \in Seq(Snapshot), rows # <<>>
    PROVE  DeltaOf(rows) \in [Fields -> Int]
<1>1. Front(rows) \in Seq(Snapshot)
    BY DEF Front
<1>2. Cumulative(Front(rows)) \in [Fields -> Nat]
    BY <1>1, CumulativeType
<1>3. Last(rows).cum \in [Fields -> Nat]
    <2>1. Last(rows) \in Snapshot
        BY LastIsRow
    <2> QED BY <2>1, LedgerAssumption DEF Snapshot
<1> QED BY <1>2, <1>3 DEF DeltaOf

(* A prefix of a table does not change when a row is appended. *)
LEMMA PrefixStays ==
    ASSUME NEW S, NEW rows \in Seq(S), NEW row \in S, NEW i \in DOMAIN rows
    PROVE  SubSeq(Append(rows, row), 1, i) = SubSeq(rows, 1, i)
<1> DEFINE a == SubSeq(Append(rows, row), 1, i)
           b == SubSeq(rows, 1, i)
<1>1. /\ a \in Seq(S) /\ b \in Seq(S)
      /\ Len(a) = i /\ Len(b) = i
      /\ \A k \in 1..i : a[k] = b[k]
    OBVIOUS
<1> HIDE DEF a, b
<1>2. a = b
    BY <1>1
<1> QED BY <1>2 DEF a, b

LEMMA WholeTable ==
    ASSUME NEW S, NEW rows \in Seq(S), rows # <<>>
    PROVE  SubSeq(rows, 1, Len(rows)) = rows
OBVIOUS

-----------------------------------------------------------------------------
(* The ledger of an order matches its reports, and every difference that   *)
(* matters is posted: the inductive part of LedgerMatchesReports.          *)
Balanced(o) ==
    /\ cash[o] = CashEffect(o, Cumulative(snaps[o]))
    /\ position[o] = PositionEffect(o, Cumulative(snaps[o]))
    /\ \A i \in DOMAIN snaps[o] :
          HasEffect(DeltaOf(SubSeq(snaps[o], 1, i))) => IsPosted(o, i)

LedgerTyped(o) ==
    /\ snaps[o] \in Seq(Snapshot)
    /\ posted[o] \subseteq (DOMAIN snaps[o]) \X Contexts
    /\ cash[o] \in Int
    /\ position[o] \in Int

(* The order of an accepted execution stays balanced. *)
LEMMA ExecutionBalances ==
    ASSUME TypeOK, NEW o \in Orders, Balanced(o),
           NEW raw, NEW at \in Time, NEW src \in Responses, NEW cum \in Reports,
           NEW context \in Contexts \cup {NoContext},
           ObserveExecution(o, raw, at, src, cum, context)
    PROVE  Balanced(o)' /\ LedgerTyped(o)'
<1> DEFINE s == [cum |-> cum, at |-> at, src |-> src]
           rows == WithReport(o, s)
           d == DeltaOf(rows)
           n == Len(rows)
<1>1. /\ s \in Snapshot
      /\ s.cum = cum
      /\ snaps[o] \in Seq(Snapshot)
      /\ cash[o] \in Int /\ position[o] \in Int
      /\ posted[o] \subseteq (DOMAIN snaps[o]) \X Contexts
    BY DEF Snapshot, TypeOK
<1>2. /\ snaps'[o] = rows
      /\ HasEffect(d) => context # NoContext
      /\ context = NoContext => UNCHANGED ledger
      /\ context # NoContext => Post(o, n, d, context, at)
    BY DEF ObserveExecution, TypeOK
<1>3. context # NoContext /\ ~IsPosted(o, n) =>
         /\ posted'[o] = posted[o] \cup {<<n, context>>}
         /\ cash'[o] = cash[o] + CashEffect(o, d)
         /\ position'[o] = position[o] + PositionEffect(o, d)
    BY <1>2 DEF Post, TypeOK
<1>4. context = NoContext \/ IsPosted(o, n) =>
         posted'[o] = posted[o] /\ cash'[o] = cash[o] /\ position'[o] = position[o]
    BY <1>2 DEF Post, ledger
<1>5. IsPosted(o, n) => n \in DOMAIN snaps[o]
    BY <1>1 DEF IsPosted
<1>6. \A i : IsPosted(o, i)' <=> \E c \in Contexts : <<i, c>> \in posted'[o]
    BY DEF IsPosted
<1>7. CASE rows = Append(snaps[o], s)
    <2>1. /\ rows \in Seq(Snapshot) /\ rows # <<>>
          /\ Last(rows) = s /\ Front(rows) = snaps[o]
          /\ n = Len(snaps[o]) + 1
          /\ DOMAIN rows = DOMAIN snaps[o] \cup {n}
        <3>1. /\ Append(snaps[o], s) \in Seq(Snapshot) /\ Append(snaps[o], s) # <<>>
              /\ Last(Append(snaps[o], s)) = s /\ Front(Append(snaps[o], s)) = snaps[o]
              /\ Len(Append(snaps[o], s)) = Len(snaps[o]) + 1
              /\ DOMAIN Append(snaps[o], s) = DOMAIN snaps[o] \cup {Len(snaps[o]) + 1}
            <4> HIDE DEF s
            <4> QED BY <1>1, AppendRow
        <3> HIDE DEF rows, s
        <3> QED BY <1>7, <3>1
    <2>2. ~IsPosted(o, n)
        BY <1>1, <1>5, <2>1
    <2>3. Cumulative(rows) = cum
        BY <1>1, <2>1 DEF Cumulative
    <2>4. d = [f \in Fields |-> cum[f] - Cumulative(snaps[o])[f]]
        BY <1>1, <2>1 DEF DeltaOf
    <2>5. /\ cum \in [Fields -> Nat]
          /\ Cumulative(snaps[o]) \in [Fields -> Nat]
        BY <1>1, CumulativeType, LedgerAssumption
    <2>6. /\ CashEffect(o, d) \in Int
          /\ CashEffect(o, Cumulative(snaps[o])) + CashEffect(o, d) = CashEffect(o, cum)
          /\ PositionEffect(o, d) \in Int
          /\ PositionEffect(o, Cumulative(snaps[o])) + PositionEffect(o, d)
               = PositionEffect(o, cum)
        BY <2>4, <2>5, EffectsAdd
    <2>7. context = NoContext => CashEffect(o, d) = 0 /\ PositionEffect(o, d) = 0
        BY <1>2, <2>1, DeltaType, NoEffectIsZero
    <2> HIDE DEF rows, d, n, s
    <2>8. /\ cash'[o] = cash[o] + CashEffect(o, d)
          /\ position'[o] = position[o] + PositionEffect(o, d)
        BY <1>1, <1>3, <1>4, <2>2, <2>7
    <2>9. /\ cash'[o] = CashEffect(o, cum) /\ cash'[o] \in Int
          /\ position'[o] = PositionEffect(o, cum) /\ position'[o] \in Int
        BY <1>1, <2>6, <2>8 DEF Balanced
    <2>10. Cumulative(snaps'[o]) = cum
        BY <1>2, <2>3
    <2>11. posted'[o] \subseteq (DOMAIN rows) \X Contexts
        BY <1>1, <1>3, <1>4, <2>1, <2>2
    <2>12. ASSUME NEW i \in DOMAIN rows, HasEffect(DeltaOf(SubSeq(rows, 1, i)))
           PROVE  \E c \in Contexts : <<i, c>> \in posted'[o]
        <3>1. CASE i = n
            <4>1. HasEffect(d)
                BY <2>1, <2>12, <3>1, WholeTable DEF d, n
            <4> QED BY <1>2, <1>3, <2>2, <3>1, <4>1
        <3>2. CASE i \in DOMAIN snaps[o]
            <4>1. SubSeq(rows, 1, i) = SubSeq(snaps[o], 1, i)
                BY <1>1, <1>7, <3>2, PrefixStays
            <4>2. IsPosted(o, i)
                BY <2>12, <3>2, <4>1 DEF Balanced
            <4> QED BY <1>3, <1>4, <2>2, <4>2 DEF IsPosted
        <3> QED BY <2>1, <3>1, <3>2
    <2>13. LedgerTyped(o)'
        BY <1>2, <2>1, <2>9, <2>11 DEF LedgerTyped
    <2>14. \A i \in DOMAIN snaps'[o] :
              HasEffect(DeltaOf(SubSeq(snaps'[o], 1, i))) => IsPosted(o, i)'
        BY <1>2, <1>6, <2>12
    <2>15. Balanced(o)'
        BY <2>9, <2>10, <2>14 DEF Balanced
    <2> QED BY <2>13, <2>15
<1>8. CASE rows = snaps[o] /\ snaps[o] # <<>>
    <2>1. /\ n \in DOMAIN snaps[o]
          /\ SubSeq(snaps[o], 1, n) = snaps[o]
          /\ d \in [Fields -> Int]
        BY <1>1, <1>8, WholeTable, LastIsRow, DeltaType
    <2>2. ~IsPosted(o, n) => CashEffect(o, d) = 0 /\ PositionEffect(o, d) = 0
        BY <1>8, <2>1, NoEffectIsZero DEF Balanced
    <2> HIDE DEF rows, d, n, s
    <2>3. cash'[o] = cash[o] /\ position'[o] = position[o]
        BY <1>1, <1>3, <1>4, <2>2
    <2>4. /\ posted[o] \subseteq posted'[o]
          /\ posted'[o] \subseteq (DOMAIN snaps[o]) \X Contexts
        BY <1>1, <1>3, <1>4, <2>1
    <2>5. snaps'[o] = snaps[o]
        BY <1>2, <1>8
    <2>6. \A i \in DOMAIN snaps'[o] :
              HasEffect(DeltaOf(SubSeq(snaps'[o], 1, i))) => IsPosted(o, i)'
        BY <1>6, <2>4, <2>5 DEF Balanced, IsPosted
    <2>7. Balanced(o)'
        BY <2>3, <2>5, <2>6 DEF Balanced
    <2>8. LedgerTyped(o)'
        BY <1>1, <2>3, <2>4, <2>5 DEF LedgerTyped
    <2> QED BY <2>7, <2>8
<1>9. \/ rows = Append(snaps[o], s)
      \/ rows = snaps[o] /\ snaps[o] # <<>>
    <2>1. Uses(snaps[o], src) => snaps[o] # <<>>
        BY DEF Uses
    <2>2. Repeats(snaps[o], cum) => snaps[o] # <<>>
        BY DEF Repeats
    <2> QED BY <2>1, <2>2 DEF WithReport
<1> QED BY <1>7, <1>8, <1>9

-----------------------------------------------------------------------------
(* What a step does to the state logs, *)
LEMMA LogAppends ==
    ASSUME TypeOK, NEW o \in Orders, NEW e \in Event, AcceptsState(o, e),
           log' = [log EXCEPT ![o] = WithState(o, e)]
    PROVE  /\ log' \in [Orders -> Seq(Event)]
           /\ \A p \in Orders : Follows(log[p], log'[p])
<1>1. log \in [Orders -> Seq(Event)]
    BY DEF TypeOK
<1>2. WithState(o, e) \in Seq(Event)
    BY <1>1 DEF WithState
<1>3. Follows(log[o], WithState(o, e))
    BY AcceptedFollows
<1>4. \A p \in Orders : log'[p] = IF p = o THEN WithState(o, e) ELSE log[p]
    BY <1>1
<1>5. \A rows : Follows(rows, rows)
    BY DEF Follows
<1> QED BY <1>1, <1>2, <1>3, <1>4, <1>5

LEMMA LogStep ==
    ASSUME TypeOK, [Next]_vars
    PROVE  /\ log' \in [Orders -> Seq(Event)]
           /\ \A p \in Orders : Follows(log[p], log'[p])
<1>1. CASE UNCHANGED log
    BY <1>1 DEF TypeOK, Follows
<1>2. ASSUME NEW o \in Orders, NEW at \in Time, NEW src \in Responses,
             NEW raw \in Statuses \cup TimeoutAnswers,
             AcceptsState(o, BrokerEvent(raw, at, src)),
             log' = [log EXCEPT ![o] = WithState(o, BrokerEvent(raw, at, src))]
      PROVE  /\ log' \in [Orders -> Seq(Event)]
             /\ \A p \in Orders : Follows(log[p], log'[p])
    <2>1. BrokerEvent(raw, at, src) \in Event
        BY EventType
    <2> QED BY <1>2, <2>1, LogAppends
<1>3. ASSUME NEW o \in Orders, NEW at \in Time, NEW src \in Responses \cup {NoResponse},
             TimeoutUnproven(o, at, src)
      PROVE  /\ log' \in [Orders -> Seq(Event)]
             /\ \A p \in Orders : Follows(log[p], log'[p])
    <2> DEFINE e == [state |-> "REVIEW_REQUIRED", at |-> at, src |-> src, reason |-> TimedOut]
    <2>1. "REVIEW_REQUIRED" \in OrderState /\ TimedOut \in Reasons
        BY DEF OrderState, AllowedTransitions, Reasons
    <2>2. e \in Event
        BY <2>1 DEF Event
    <2>3. AcceptsState(o, e) /\ log' = [log EXCEPT ![o] = WithState(o, e)]
        BY <1>3 DEF TimeoutUnproven
    <2> HIDE DEF e
    <2> QED BY <2>2, <2>3, LogAppends
<1>4. ASSUME NEW o \in Orders, NEW at \in Time, NEW state \in OwnStates,
             Advance(o, state, at)
      PROVE  /\ log' \in [Orders -> Seq(Event)]
             /\ \A p \in Orders : Follows(log[p], log'[p])
    <2> DEFINE e == [state |-> state, at |-> at, src |-> NoResponse, reason |-> NoReason]
    <2>1. e \in Event
        BY LedgerAssumption DEF Event, Reasons
    <2>2. AcceptsState(o, e) /\ log' = [log EXCEPT ![o] = WithState(o, e)]
        BY <1>4 DEF Advance
    <2> HIDE DEF e
    <2> QED BY <2>1, <2>2, LogAppends
<1>5. CASE Tick
    BY <1>1, <1>5 DEF Tick
<1>6. ASSUME NEW o \in Orders, NEW at \in Time, NEW src \in Responses, NEW raw \in Statuses,
             ObserveState(o, raw, at, src)
      PROVE  /\ log' \in [Orders -> Seq(Event)]
             /\ \A p \in Orders : Follows(log[p], log'[p])
    BY <1>2, <1>6 DEF ObserveState
<1>7. ASSUME NEW o \in Orders, NEW at \in Time, NEW src \in Responses, NEW raw \in Statuses,
             ObserveUnknown(o, raw, at, src)
      PROVE  /\ log' \in [Orders -> Seq(Event)]
             /\ \A p \in Orders : Follows(log[p], log'[p])
    BY <1>2, <1>7 DEF ObserveUnknown
<1>8. ASSUME NEW o \in Orders, NEW at \in Time, NEW src \in Responses, NEW raw \in Statuses,
             NEW cum \in Reports, NEW context \in Contexts \cup {NoContext},
             ObserveExecution(o, raw, at, src, cum, context)
      PROVE  /\ log' \in [Orders -> Seq(Event)]
             /\ \A p \in Orders : Follows(log[p], log'[p])
    BY <1>2, <1>8 DEF ObserveExecution
<1>9. ASSUME NEW o \in Orders, NEW at \in Time, NEW src \in Responses,
             NEW raw \in TimeoutAnswers, TimeoutFound(o, raw, at, src)
      PROVE  /\ log' \in [Orders -> Seq(Event)]
             /\ \A p \in Orders : Follows(log[p], log'[p])
    BY <1>2, <1>9 DEF TimeoutFound
<1>10. ASSUME NEW o \in Orders, NEW at \in Time, NEW src \in Responses,
              NEW amount \in Amounts, NEW released \in BOOLEAN,
              Reserve(o, amount, released, at, src)
       PROVE  UNCHANGED log
    BY <1>10 DEF Reserve
<1>11. CASE UNCHANGED vars
    BY <1>1, <1>11 DEF vars
<1>12. CASE Next
    BY <1>12, Calls, <1>1, <1>3, <1>4, <1>5, <1>6, <1>7, <1>8, <1>9, <1>10, Zenon
<1> QED BY <1>11, <1>12

(* and to the reservation logs: at most one event is appended, when the    *)
(* order is released or reserved.                                          *)
Extends(rows, next) ==
    next = rows \/ \E r \in Reservation : next = Append(rows, r)

LEMMA ReleaseType ==
    ASSUME NEW o \in Orders, NEW state, NEW at \in Time, NEW src \in Responses
    PROVE  Extends(res[o], Released(o, state, at, src))
<1>1. [amount |-> 0, status |-> "RELEASED", at |-> at, src |-> src] \in Reservation
    BY DEF Reservation
<1> QED BY <1>1 DEF Released, Extends

LEMMA ResStep ==
    ASSUME TypeOK, [Next]_vars
    PROVE  /\ res' \in [Orders -> Seq(Reservation)]
           /\ \A p \in Orders : Extends(res[p], res'[p])
<1>1. res \in [Orders -> Seq(Reservation)]
    BY DEF TypeOK
<1>2. \A rows : Extends(rows, rows)
    BY DEF Extends
<1>3. ASSUME NEW o \in Orders, NEW rows, Extends(res[o], rows),
             res' = [res EXCEPT ![o] = rows]
      PROVE  /\ res' \in [Orders -> Seq(Reservation)]
             /\ \A p \in Orders : Extends(res[p], res'[p])
    <2>1. rows \in Seq(Reservation)
        BY <1>1, <1>3 DEF Extends
    <2> QED BY <1>1, <1>2, <1>3, <2>1
<1>4. CASE UNCHANGED res
    BY <1>1, <1>2, <1>4
<1>5. ASSUME NEW o \in Orders, NEW at \in Time, NEW src \in Responses,
             NEW amount \in Amounts, NEW released \in BOOLEAN,
             Reserve(o, amount, released, at, src)
      PROVE  /\ res' \in [Orders -> Seq(Reservation)]
             /\ \A p \in Orders : Extends(res[p], res'[p])
    <2> DEFINE r == [amount |-> IF released THEN 0 ELSE amount,
                     status |-> IF released THEN "RELEASED" ELSE "RESERVED",
                     at |-> at, src |-> src]
    <2>1. r \in Reservation
        BY LedgerAssumption DEF Reservation
    <2>2. res' = [res EXCEPT ![o] = Append(res[o], r)]
        BY <1>5 DEF Reserve
    <2> HIDE DEF r
    <2>3. Extends(res[o], Append(res[o], r))
        BY <2>1 DEF Extends
    <2> QED BY <1>3, <2>2, <2>3
<1>6. ASSUME NEW o \in Orders, NEW at \in Time, NEW src \in Responses, NEW state,
             res' = [res EXCEPT ![o] = Released(o, state, at, src)]
      PROVE  /\ res' \in [Orders -> Seq(Reservation)]
             /\ \A p \in Orders : Extends(res[p], res'[p])
    BY <1>3, <1>6, ReleaseType
<1>7. CASE UNCHANGED vars
    BY <1>4, <1>7 DEF vars
<1>8. ASSUME NEW o \in Orders, NEW at \in Time, NEW src \in Responses, NEW raw \in Statuses,
             ObserveState(o, raw, at, src)
      PROVE  /\ res' \in [Orders -> Seq(Reservation)]
             /\ \A p \in Orders : Extends(res[p], res'[p])
    BY <1>6, <1>8 DEF ObserveState
<1>9. ASSUME NEW o \in Orders, NEW at \in Time, NEW src \in Responses, NEW raw \in Statuses,
             NEW cum \in Reports, NEW context \in Contexts \cup {NoContext},
             ObserveExecution(o, raw, at, src, cum, context)
      PROVE  /\ res' \in [Orders -> Seq(Reservation)]
             /\ \A p \in Orders : Extends(res[p], res'[p])
    BY <1>6, <1>9 DEF ObserveExecution
<1>10. ASSUME NEW o \in Orders, NEW at, NEW src, NEW raw,
              \/ ObserveUnknown(o, raw, at, src) \/ TimeoutUnproven(o, at, src)
              \/ TimeoutFound(o, raw, at, src) \/ Advance(o, raw, at)
       PROVE  UNCHANGED res
    BY <1>10 DEF ObserveUnknown, TimeoutUnproven, TimeoutFound, Advance
<1>11. CASE Tick
    BY <1>4, <1>11 DEF Tick
<1>12. CASE Next
    BY <1>4, <1>5, <1>8, <1>9, <1>10, <1>11, <1>12, Calls, Zenon
<1> QED BY <1>7, <1>12

(* A step leaves the ledgers alone, or is the execution of one order. *)
LEMMA LedgerStep ==
    ASSUME TypeOK, [Next]_vars
    PROVE  \/ UNCHANGED <<snaps, ledger>>
           \/ \E o \in Orders, raw \in Statuses, at \in Time, src \in Responses, cum \in Reports,
                context \in Contexts \cup {NoContext} :
                  ObserveExecution(o, raw, at, src, cum, context)
<1>1. ASSUME NEW o, NEW at, NEW src, NEW raw, NEW released, NEW amount,
             \/ ObserveState(o, raw, at, src) \/ ObserveUnknown(o, raw, at, src)
             \/ TimeoutUnproven(o, at, src) \/ TimeoutFound(o, raw, at, src)
             \/ Advance(o, raw, at) \/ Reserve(o, amount, released, at, src)
             \/ Tick
      PROVE  UNCHANGED <<snaps, ledger>>
    BY <1>1 DEF ObserveState, ObserveUnknown, TimeoutUnproven, TimeoutFound, Advance, Reserve, Tick
<1>2. CASE UNCHANGED vars
    BY <1>2 DEF vars, ledger
<1>3. CASE Next
    BY <1>1, <1>3, Calls, Zenon
<1> QED BY <1>2, <1>3

LEMMA ExecutionLeavesOthers ==
    ASSUME TypeOK, NEW o \in Orders, NEW raw, NEW at, NEW src, NEW cum, NEW context,
           ObserveExecution(o, raw, at, src, cum, context)
    PROVE  /\ \A p \in Orders \ {o} : /\ snaps'[p] = snaps[p] /\ posted'[p] = posted[p]
                                      /\ cash'[p] = cash[p] /\ position'[p] = position[p]
           /\ snaps' = [p \in Orders |-> snaps'[p]]
           /\ posted' = [p \in Orders |-> posted'[p]]
           /\ cash' = [p \in Orders |-> cash'[p]]
           /\ position' = [p \in Orders |-> position'[p]]
<1> DEFINE rows == WithReport(o, [cum |-> cum, at |-> at, src |-> src])
           d == DeltaOf(rows)
<1>1. /\ snaps' = [snaps EXCEPT ![o] = rows]
      /\ \/ UNCHANGED ledger
         \/ /\ posted' = [posted EXCEPT ![o] = @ \cup {<<Len(rows), context>>}]
            /\ cash' = [cash EXCEPT ![o] = @ + CashEffect(o, d)]
            /\ position' = [position EXCEPT ![o] = @ + PositionEffect(o, d)]
    BY DEF ObserveExecution, Post
<1>2. /\ snaps \in [Orders -> Seq(Snapshot)] /\ cash \in [Orders -> Int]
      /\ position \in [Orders -> Int] /\ posted \in [Orders -> SUBSET (Nat \X Contexts)]
    BY DEF TypeOK
<1> HIDE DEF rows, d
<1>3. CASE UNCHANGED ledger
    BY <1>1, <1>2, <1>3 DEF ledger
<1> QED BY <1>1, <1>2, <1>3

-----------------------------------------------------------------------------
Inv ==
    /\ TypeOK
    /\ \A o \in Orders : Balanced(o)

LEMMA InvStep == ASSUME Inv, [Next]_vars PROVE Inv'
<1>1. TypeOK /\ \A o \in Orders : Balanced(o)
    BY DEF Inv
<1>2. /\ log' \in [Orders -> Seq(Event)]
      /\ res' \in [Orders -> Seq(Reservation)]
    BY <1>1, LogStep, ResStep
<1>3. now' \in Time
    <2>1. \A o, raw, at, src, released, amount, cum, context :
             \/ ObserveState(o, raw, at, src) \/ ObserveUnknown(o, raw, at, src)
             \/ TimeoutUnproven(o, at, src) \/ TimeoutFound(o, raw, at, src)
             \/ Advance(o, raw, at) \/ Reserve(o, amount, released, at, src)
             \/ ObserveExecution(o, raw, at, src, cum, context)
             => now' = now
        BY DEF ObserveState, ObserveUnknown, TimeoutUnproven, TimeoutFound, Advance,
               Reserve, ObserveExecution
    <2>2. CASE Tick
        BY <1>1, <2>2, LedgerAssumption DEF Tick, TypeOK, Time
    <2>3. CASE UNCHANGED vars
        BY <1>1, <2>3 DEF vars, TypeOK
    <2>4. CASE Next
        <3>1. Tick \/ now' = now
            BY <1>1, <2>1, <2>4, Calls, Zenon
        <3> QED BY <1>1, <2>2, <3>1 DEF TypeOK
    <2> QED BY <2>3, <2>4
<1>4. \A o \in Orders : LedgerTyped(o)
    BY <1>1 DEF TypeOK, LedgerTyped
<1>5. /\ \A o \in Orders : Balanced(o)' /\ LedgerTyped(o)'
      /\ snaps' = [p \in Orders |-> snaps'[p]]
      /\ posted' = [p \in Orders |-> posted'[p]]
      /\ cash' = [p \in Orders |-> cash'[p]]
      /\ position' = [p \in Orders |-> position'[p]]
    <2>1. ASSUME NEW o \in Orders, snaps'[o] = snaps[o], posted'[o] = posted[o],
                 cash'[o] = cash[o], position'[o] = position[o]
          PROVE  Balanced(o)' /\ LedgerTyped(o)'
        BY <1>1, <1>4, <2>1 DEF Balanced, LedgerTyped, IsPosted
    <2>2. CASE UNCHANGED <<snaps, ledger>>
        <3>1. /\ snaps' = snaps /\ posted' = posted /\ cash' = cash /\ position' = position
            BY <2>2 DEF ledger
        <3>2. /\ snaps = [p \in Orders |-> snaps[p]]
              /\ posted = [p \in Orders |-> posted[p]]
              /\ cash = [p \in Orders |-> cash[p]]
              /\ position = [p \in Orders |-> position[p]]
            BY <1>1 DEF TypeOK
        <3> QED BY <2>1, <3>1, <3>2
    <2>3. ASSUME NEW o \in Orders, NEW raw \in Statuses, NEW at \in Time, NEW src \in Responses,
                 NEW cum \in Reports, NEW context \in Contexts \cup {NoContext},
                 ObserveExecution(o, raw, at, src, cum, context)
          PROVE  /\ \A p \in Orders : Balanced(p)' /\ LedgerTyped(p)'
                 /\ snaps' = [p \in Orders |-> snaps'[p]]
                 /\ posted' = [p \in Orders |-> posted'[p]]
                 /\ cash' = [p \in Orders |-> cash'[p]]
                 /\ position' = [p \in Orders |-> position'[p]]
        <3>1. Balanced(o)' /\ LedgerTyped(o)'
            BY <1>1, <2>3, ExecutionBalances
        <3>2. /\ \A p \in Orders \ {o} : /\ snaps'[p] = snaps[p] /\ posted'[p] = posted[p]
                                         /\ cash'[p] = cash[p] /\ position'[p] = position[p]
              /\ snaps' = [p \in Orders |-> snaps'[p]]
              /\ posted' = [p \in Orders |-> posted'[p]]
              /\ cash' = [p \in Orders |-> cash'[p]]
              /\ position' = [p \in Orders |-> position'[p]]
            BY <1>1, <2>3, ExecutionLeavesOthers
        <3> QED BY <2>1, <3>1, <3>2
    <2> QED BY <1>1, <2>2, <2>3, LedgerStep, Zenon
<1>6. /\ \A o \in Orders : snaps'[o] \in Seq(Snapshot) /\ cash'[o] \in Int /\ position'[o] \in Int
      /\ \A o \in Orders : posted'[o] \subseteq (DOMAIN snaps'[o]) \X Contexts
    BY <1>5 DEF LedgerTyped
<1>7. \A o \in Orders : posted'[o] \subseteq Nat \X Contexts
    BY <1>6
<1>8. TypeOK'
    BY <1>2, <1>3, <1>5, <1>6, <1>7 DEF TypeOK
<1> QED BY <1>5, <1>8 DEF Inv

LEMMA InvInit == Init => Inv
<1> SUFFICES ASSUME Init PROVE Inv
    OBVIOUS
<1>1. TypeOK
    BY LedgerAssumption DEF Init, TypeOK, Time
<1>2. \A o \in Orders : Cumulative(snaps[o]) = Nothing /\ DOMAIN snaps[o] = {}
    BY DEF Init, Cumulative
<1>3. \A o \in Orders : Balanced(o)
    BY <1>2, NothingIsWorthNothing DEF Init, Balanced
<1> QED BY <1>1, <1>3 DEF Inv

(* Type correctness and the balance of every order's ledger are invariants *)
(* of the specification: the inductive invariant the theorems rest on.     *)
THEOREM LedgerInvariant == Spec => []Inv
<1>1. Inv /\ UNCHANGED vars => Inv'
    BY InvStep
<1> QED BY InvInit, InvStep, <1>1, PTL DEF Spec

(* The tables keep their types. *)
THEOREM TypeCorrect == Spec => []TypeOK
BY LedgerInvariant, PTL DEF Inv

(* Every difference between cumulative reports is posted exactly once, for *)
(* any broker: repeated, late, contradictory and redelivered responses     *)
(* included (observe, ExecutionLedgerPoster.post).                         *)
THEOREM PostedExactlyOnce == Spec => []LedgerMatchesReports
<1>1. Inv => LedgerMatchesReports
    BY DEF Inv, Balanced, LedgerMatchesReports
<1> QED BY LedgerInvariant, <1>1, PTL

(* A final state is never left (assert_order_transition), whoever appends. *)
THEOREM FinalStatesAreFinal == Spec => FinalIsFinal
<1>1. ASSUME TypeOK, [Next]_vars, NEW o \in Orders, IsFinal(o)
      PROVE  log'[o] # <<>> /\ Last(log'[o]).state = Last(log[o]).state
    <2>1. Follows(log[o], log'[o]) /\ log[o] \in Seq(Event) /\ log[o] # <<>>
        BY <1>1, LogStep DEF TypeOK, IsFinal
    <2>2. CASE log'[o] = log[o]
        BY <2>1, <2>2
    <2>3. ASSUME NEW e \in Event, log'[o] = Append(log[o], e),
                 MayFollow(Last(log[o]).state, e.state)
          PROVE  log'[o] # <<>> /\ Last(log'[o]).state = Last(log[o]).state
        <3>1. e.state = Last(log[o]).state
            BY <1>1, <2>3 DEF MayFollow, IsFinal
        <3>2. Append(log[o], e) # <<>> /\ Last(Append(log[o], e)) = e
            BY <2>1, AppendRow
        <3> QED BY <2>3, <3>1, <3>2
    <2> QED BY <2>1, <2>2, <2>3 DEF Follows
<1>2. ASSUME TypeOK, [Next]_vars
      PROVE  [\A o \in Orders : IsFinal(o) => log'[o] # <<>> /\ Last(log'[o]).state = Last(log[o]).state]_vars
    BY <1>1, <1>2
<1> QED BY TypeCorrect, <1>2, PTL DEF Spec, FinalIsFinal

-----------------------------------------------------------------------------
(* Replay accepts the states and the executions that the writers leave.    *)
Chains == StatesChain /\ SnapshotsChain

(* Two neighbours of a table after a row is appended. *)
LEMMA Neighbours ==
    ASSUME NEW S, NEW rows \in Seq(S), NEW row \in S,
           NEW i \in DOMAIN Append(rows, row) \ {1}
    PROVE  \/ /\ i \in DOMAIN rows \ {1}
              /\ Append(rows, row)[i] = rows[i]
              /\ Append(rows, row)[i-1] = rows[i-1]
           \/ /\ i = Len(rows) + 1 /\ rows # <<>>
              /\ Append(rows, row)[i] = row
              /\ Append(rows, row)[i-1] = Last(rows)
BY DEF Last

LEMMA ChainsStep == ASSUME Inv, Chains, [Next]_vars PROVE Chains'
<1>1. TypeOK
    BY DEF Inv
<1>2. StatesChain'
    <2>1. SUFFICES ASSUME NEW o \in Orders, NEW i \in DOMAIN log'[o] \ {1}
                   PROVE  /\ log'[o][i].at >= log'[o][i-1].at
                          /\ MayFollow(log'[o][i-1].state, log'[o][i].state)
        BY DEF StatesChain
    <2>2. Follows(log[o], log'[o]) /\ log[o] \in Seq(Event)
        BY <1>1, LogStep DEF TypeOK
    <2>3. CASE log'[o] = log[o]
        BY <2>1, <2>3 DEF Chains, StatesChain
    <2>4. ASSUME NEW e \in Event, log'[o] = Append(log[o], e),
                 log[o] # <<>> => e.at >= Last(log[o]).at /\ MayFollow(Last(log[o]).state, e.state)
          PROVE  /\ log'[o][i].at >= log'[o][i-1].at
                 /\ MayFollow(log'[o][i-1].state, log'[o][i].state)
        <3>1. \/ /\ i \in DOMAIN log[o] \ {1}
                 /\ log'[o][i] = log[o][i] /\ log'[o][i-1] = log[o][i-1]
              \/ /\ log[o] # <<>>
                 /\ log'[o][i] = e /\ log'[o][i-1] = Last(log[o])
            BY <2>1, <2>2, <2>4, Neighbours
        <3> QED BY <2>4, <3>1 DEF Chains, StatesChain
    <2> QED BY <2>2, <2>3, <2>4 DEF Follows
<1>3. SnapshotsChain'
    <2>1. CASE UNCHANGED <<snaps, ledger>>
        BY <2>1 DEF Chains, SnapshotsChain
    <2>2. ASSUME NEW o \in Orders, NEW raw \in Statuses, NEW at \in Time, NEW src \in Responses,
                 NEW cum \in Reports, NEW context \in Contexts \cup {NoContext},
                 ObserveExecution(o, raw, at, src, cum, context)
          PROVE  SnapshotsChain'
        <3> DEFINE s == [cum |-> cum, at |-> at, src |-> src]
        <3>1. /\ snaps'[o] = WithReport(o, s) /\ AcceptsReport(o, s)
              /\ \A p \in Orders \ {o} : snaps'[p] = snaps[p]
              /\ snaps[o] \in Seq(Snapshot) /\ s \in Snapshot
            BY <1>1, <2>2 DEF ObserveExecution, TypeOK, Snapshot
        <3> HIDE DEF s
        <3>2. \/ snaps'[o] = snaps[o]
              \/ /\ snaps'[o] = Append(snaps[o], s)
                 /\ snaps[o] # <<>> => /\ s.at >= Last(snaps[o]).at
                                       /\ \A f \in Fields : s.cum[f] >= Last(snaps[o]).cum[f]
            BY <3>1 DEF WithReport, AcceptsReport, Cumulative
        <3>3. ASSUME NEW i \in DOMAIN snaps'[o] \ {1}
              PROVE  /\ snaps'[o][i].at >= snaps'[o][i-1].at
                     /\ \A f \in Fields : snaps'[o][i].cum[f] >= snaps'[o][i-1].cum[f]
            <4>1. CASE snaps'[o] = snaps[o]
                BY <3>3, <4>1 DEF Chains, SnapshotsChain
            <4>2. CASE snaps'[o] = Append(snaps[o], s)
                <5>1. \/ /\ i \in DOMAIN snaps[o] \ {1}
                         /\ snaps'[o][i] = snaps[o][i] /\ snaps'[o][i-1] = snaps[o][i-1]
                      \/ /\ i = Len(snaps[o]) + 1 /\ snaps[o] # <<>>
                         /\ snaps'[o][i] = s /\ snaps'[o][i-1] = Last(snaps[o])
                    BY <3>1, <3>3, <4>2, Neighbours
                <5>2. snaps'[o] # snaps[o]
                    BY <3>1, <4>2
                <5> QED BY <3>2, <5>1, <5>2 DEF Chains, SnapshotsChain
            <4> QED BY <3>2, <4>1, <4>2
        <3> QED BY <3>1, <3>3 DEF Chains, SnapshotsChain
    <2> QED BY <1>1, <2>1, <2>2, LedgerStep, Zenon
<1> QED BY <1>2, <1>3 DEF Chains

(* However responses are redelivered, late or refused, and whatever a       *)
(* timeout lookup answers: the states and the cumulative reports of every  *)
(* order are in order, and every difference with an effect is posted, as   *)
(* ledger/replay.py demands.                                               *)
THEOREM ExecutionsCanBeReplayed == Spec => []ExecutionsReplay
<1>1. Init => Inv /\ Chains
    <2>1. Init => Chains
        BY DEF Init, Chains, StatesChain, SnapshotsChain
    <2> QED BY <2>1, InvInit
<1>2. Inv /\ Chains /\ [Next]_vars => (Inv /\ Chains)'
    BY InvStep, ChainsStep
<1>3. Inv /\ Chains => ExecutionsReplay
    BY DEF Inv, Balanced, Chains, ExecutionsReplay, EffectsPosted
<1> QED BY <1>1, <1>2, <1>3, PTL DEF Spec

-----------------------------------------------------------------------------
(* Tax lots.  What a step does to the lots: nothing, a purchase that opens *)
(* one, or a sale that takes from them.                                    *)

LotPurchase(o, n, q, at) ==
    /\ Side[o] = "BUY"
    /\ \E rank \in FreeRanks(at) :
          lots' = lots \cup {[id |-> <<o, n>>, quantity |-> q, at |-> at, rank |-> rank]}
    /\ disposals' = disposals
    /\ position' = [position EXCEPT ![o] = @ + q]

LotSale(o, n, q, at) ==
    /\ Side[o] = "SELL"
    /\ Covered(lots, disposals, q, at)
    /\ lots' = lots
    /\ disposals' = disposals \cup Disposed(lots, disposals, <<o, n>>, q, at)
    /\ position' = [position EXCEPT ![o] = @ - q]

StillPosted == \A p, m : IsPosted(p, m) /\ p \in Orders => IsPosted(p, m)'

(* The log of an order after an accepted event ends with that event. *)
LEMMA LogEndsWith ==
    ASSUME Inv, NEW o \in Orders, NEW e \in Event, AcceptsState(o, e)
    PROVE  /\ WithState(o, e) # <<>>
           /\ Last(WithState(o, e)) = e
<1>1. log[o] \in Seq(Event)
    BY DEF Inv, TypeOK
<1>2. CASE e.src # NoResponse /\ Uses(log[o], e.src)
    <2>1. log[o] # <<>>
        BY <1>2 DEF Uses
    <2> QED BY <1>2, <2>1 DEF AcceptsState, WithState
<1>3. CASE ~(e.src # NoResponse /\ Uses(log[o], e.src))
    <2>1. Append(log[o], e) # <<>> /\ Last(Append(log[o], e)) = e
        BY <1>1, AppendRow
    <2> QED BY <1>3, <2>1 DEF WithState
<1> QED BY <1>2, <1>3

(* A report that is taken never moves a posted quantity down. *)
LEMMA DeltaGrows ==
    ASSUME Inv, NEW o \in Orders, NEW at \in Time, NEW src \in Responses, NEW cum \in Reports,
           AcceptsReport(o, [cum |-> cum, at |-> at, src |-> src])
    PROVE  LET rows == WithReport(o, [cum |-> cum, at |-> at, src |-> src])
               d == DeltaOf(rows)
           IN  /\ Len(rows) \in Nat \ {0}
               /\ ~IsPosted(o, Len(rows)) => d["quantity"] \in Nat
<1> DEFINE s == [cum |-> cum, at |-> at, src |-> src]
           rows == WithReport(o, s)
           d == DeltaOf(rows)
<1>1. s \in Snapshot /\ s.cum = cum /\ s.src = src /\ snaps[o] \in Seq(Snapshot)
    BY DEF Snapshot, Inv, TypeOK
<1>2. Cumulative(snaps[o]) \in [Fields -> Nat] /\ cum \in [Fields -> Nat]
    BY <1>1, CumulativeType, LedgerAssumption
<1>3. CASE Uses(snaps[o], src) \/ Repeats(snaps[o], cum)
    <2>1. rows = snaps[o] /\ snaps[o] # <<>>
        BY <1>1, <1>3 DEF WithReport, Uses, Repeats
    <2>2. /\ Len(snaps[o]) \in DOMAIN snaps[o] /\ Len(snaps[o]) \in Nat \ {0}
          /\ SubSeq(snaps[o], 1, Len(snaps[o])) = snaps[o]
        BY <1>1, <2>1, LastIsRow, WholeTable
    <2>3. ~IsPosted(o, Len(rows)) => ~HasEffect(d)
        BY <2>1, <2>2 DEF Inv, Balanced
    <2>4. ~HasEffect(d) => d["quantity"] = 0
        BY DEF HasEffect, Fields
    <2> QED BY <2>1, <2>2, <2>3, <2>4
<1>4. CASE ~(Uses(snaps[o], src) \/ Repeats(snaps[o], cum))
    <2>1. rows = Append(snaps[o], s)
        BY <1>1, <1>4 DEF WithReport
    <2>2. /\ Last(rows) = s /\ Front(rows) = snaps[o] /\ Len(rows) = Len(snaps[o]) + 1
        <3> HIDE DEF s, rows
        <3> QED BY <1>1, <2>1, AppendRow
    <2>3. \A f \in Fields : cum[f] >= Cumulative(snaps[o])[f]
        BY <1>1, <1>4 DEF AcceptsReport
    <2>4. d["quantity"] = cum["quantity"] - Cumulative(snaps[o])["quantity"]
        BY <1>1, <2>2 DEF DeltaOf, Fields
    <2>5. Len(rows) \in Nat \ {0}
        BY <1>1, <2>2
    <2>6. d["quantity"] \in Nat
        BY <1>2, <2>3, <2>4 DEF Fields
    <2> QED BY <2>5, <2>6
<1> QED BY <1>3, <1>4

LEMMA LotMoves ==
    ASSUME Inv, [Next]_vars
    PROVE  /\ StillPosted
           /\ \/ UNCHANGED <<lots, disposals, position>>
              \/ \E o \in Orders, n \in Nat \ {0}, q \in Nat \ {0}, at \in Time :
                    /\ ~IsPosted(o, n) /\ IsPosted(o, n)'
                    /\ Last(log'[o]).at = at
                    /\ LotPurchase(o, n, q, at) \/ LotSale(o, n, q, at)
<1>0. TypeOK
    BY DEF Inv
<1>1. CASE UNCHANGED <<snaps, ledger>>
    BY <1>1 DEF ledger, StillPosted, IsPosted
<1>2. ASSUME NEW o \in Orders, NEW raw \in Statuses, NEW at \in Time, NEW src \in Responses,
             NEW cum \in Reports, NEW context \in Contexts \cup {NoContext},
             ObserveExecution(o, raw, at, src, cum, context)
      PROVE  /\ StillPosted
             /\ \/ UNCHANGED <<lots, disposals, position>>
                \/ \E n \in Nat \ {0}, q \in Nat \ {0} :
                      /\ ~IsPosted(o, n) /\ IsPosted(o, n)'
                      /\ Last(log'[o]).at = at
                      /\ LotPurchase(o, n, q, at) \/ LotSale(o, n, q, at)
    <2> DEFINE s == [cum |-> cum, at |-> at, src |-> src]
               rows == WithReport(o, s)
               d == DeltaOf(rows)
               n == Len(rows)
               q == d["quantity"]
    <2>1. /\ AcceptsReport(o, s)
          /\ context = NoContext => UNCHANGED ledger
          /\ context # NoContext => AcceptsPosting(o, n, d, context, at) /\ Post(o, n, d, context, at)
        BY <1>2 DEF ObserveExecution
    <2>2. n \in Nat \ {0} /\ (~IsPosted(o, n) => q \in Nat)
        BY <2>1, DeltaGrows
    <2>e. Last(log'[o]).at = at
        <3> DEFINE e == BrokerEvent(raw, at, src)
        <3>1. e \in Event /\ e.at = at
            BY EventType DEF BrokerEvent
        <3>2. AcceptsState(o, e) /\ log' = [log EXCEPT ![o] = WithState(o, e)]
            BY <1>2 DEF ObserveExecution
        <3> HIDE DEF e
        <3>3. Last(WithState(o, e)) = e
            BY <3>1, <3>2, LogEndsWith
        <3> QED BY <1>0, <3>1, <3>2, <3>3 DEF TypeOK
    <2> HIDE DEF rows, d, n
    <2>3. CASE UNCHANGED ledger
        BY <2>3 DEF ledger, StillPosted, IsPosted
    <2>4. CASE ~UNCHANGED ledger
        <3>1. /\ context # NoContext /\ context \in Contexts /\ ~IsPosted(o, n)
              /\ posted' = [posted EXCEPT ![o] = @ \cup {<<n, context>>}]
              /\ position' = [position EXCEPT ![o] = @ + PositionEffect(o, d)]
              /\ lots' \in LotsAfter(o, n, d, at)
              /\ disposals' = disposals \cup NewDisposals(o, n, d, at)
            BY <2>1, <2>4 DEF Post
        <3>2. /\ posted'[o] = posted[o] \cup {<<n, context>>}
              /\ \A p \in Orders : posted[p] \subseteq posted'[p]
            BY <1>0, <3>1 DEF TypeOK
        <3>3. StillPosted
            BY <3>2 DEF StillPosted, IsPosted
        <3> PICK m \in Nat \ {0}, r \in Nat : m = n /\ r = q
            BY <2>2, <3>1
        <3>m. ~IsPosted(o, m) /\ IsPosted(o, m)'
            BY <3>1, <3>2 DEF IsPosted
        <3>4. q \in Nat /\ q = d["quantity"] /\ position \in [Orders -> Int]
            BY <1>0, <2>2, <3>1 DEF TypeOK
        <3> HIDE DEF q
        <3>5. Side[o] = "BUY" \/ Side[o] = "SELL"
            BY LedgerAssumption
        <3>6. CASE q = 0
            <4>1. position' = position
                <5>1. PositionEffect(o, d) = 0
                    BY <3>4, <3>6 DEF PositionEffect, Sign
                <5> QED BY <3>1, <3>4, <5>1
            <4>2. lots' = lots /\ disposals' = disposals
                BY <3>1, <3>4, <3>6 DEF LotsAfter, NewDisposals
            <4> QED BY <3>3, <4>1, <4>2
        <3>7. CASE q # 0 /\ Side[o] = "BUY"
            <4>1. PositionEffect(o, d) = q
                BY <3>4, <3>7 DEF PositionEffect, Sign
            <4>2. LotPurchase(o, m, r, at)
                BY <3>1, <3>4, <3>7, <4>1 DEF LotPurchase, LotsAfter, NewDisposals
            <4> QED BY <2>e, <3>3, <3>m, <3>7, <4>2
        <3>8. CASE q # 0 /\ Side[o] = "SELL"
            <4>1. PositionEffect(o, d) = 0 - q
                BY <3>4, <3>8 DEF PositionEffect, Sign
            <4>2. position' = [position EXCEPT ![o] = @ - q]
                <5>1. position[o] + PositionEffect(o, d) = position[o] - q
                    BY <3>4, <4>1
                <5> QED BY <3>1, <5>1
            <4>3. Covered(lots, disposals, q, at)
                BY <2>1, <3>1, <3>4, <3>8 DEF AcceptsPosting
            <4>4. /\ lots' = lots
                  /\ disposals' = disposals \cup Disposed(lots, disposals, <<o, n>>, q, at)
                BY <3>1, <3>4, <3>8 DEF LotsAfter, NewDisposals
            <4>5. LotSale(o, m, r, at)
                BY <3>8, <4>2, <4>3, <4>4 DEF LotSale
            <4> QED BY <2>e, <3>3, <3>m, <3>8, <4>5
        <3> QED BY <3>5, <3>6, <3>7, <3>8
    <2> QED BY <2>3, <2>4
<1> QED BY <1>0, <1>1, <1>2, LedgerStep, Zenon

-----------------------------------------------------------------------------
(* Totals of lots and disposals.  L and D stand for the lots and the       *)
(* disposals, before or after a step.                                      *)

LotRows(L) ==
    /\ IsFiniteSet(L)
    /\ \A l \in L : l.quantity \in Nat /\ l.at \in Time /\ l.rank \in Nat
    /\ \A k, l \in L : k.id = l.id => k = l
    /\ \A k, l \in L : k # l /\ DayOf(k.at) = DayOf(l.at) => k.rank # l.rank

DisposalRows(L, D) ==
    /\ IsFiniteSet(D)
    /\ \A d \in D : /\ d.quantity \in Nat /\ d.at \in Time
                    /\ \E l \in L : l.id = d.lot /\ l.at <= d.at

Oldest(L, D) ==
    \A d \in D : \A k, l \in L :
        l.id = d.lot /\ k.at <= d.at /\ DayOf(k.at) < DayOf(l.at) => Left(D, k, d.at) <= 0

LEMMA TimeIsNat == Time \subseteq Nat /\ MaxTime \in Time /\ \A x \in Time : x <= MaxTime
BY LedgerAssumption DEF Time

LEMMA DaysInOrder ==
    ASSUME NEW a \in Nat, NEW b \in Nat
    PROVE  DayOf(a) \in Int /\ DayOf(b) \in Int /\ (a <= b => DayOf(a) <= DayOf(b))
<1>0. Day \in Nat \ {0}
    BY DayAssumption
<1>1. a = Day * (a \div Day) + (a % Day) /\ a % Day \in 0..(Day-1) /\ a \div Day \in Int
    BY <1>0
<1>2. b = Day * (b \div Day) + (b % Day) /\ b % Day \in 0..(Day-1) /\ b \div Day \in Int
    BY <1>0
<1> DEFINE x == a \div Day
           y == b \div Day
<1> HIDE DEF x, y
<1>3. ASSUME a <= b, x > y PROVE FALSE
    <2>1. x >= y + 1 /\ x \in Int /\ y \in Int
        BY <1>1, <1>2, <1>3 DEF x, y
    <2>2. Day * x >= Day * (y + 1)
        BY <1>0, <2>1
    <2>3. Day * (y + 1) = Day * y + Day
        BY <1>0, <2>1
    <2> QED BY <1>0, <1>1, <1>2, <1>3, <2>1, <2>2, <2>3 DEF x, y
<1> QED BY <1>1, <1>2, <1>3 DEF x, y, DayOf

LEMMA TotalOfRows ==
    ASSUME NEW xs, IsFiniteSet(xs), \A x \in xs : x.quantity \in Nat
    PROVE  Total(xs) \in Nat
<1> DEFINE f == [x \in xs |-> x.quantity]
<1>1. f \in [xs -> Nat]
    OBVIOUS
<1> HIDE DEF f
<1>2. SumFunction(f) \in Nat
    BY <1>1, TotalNat
<1> QED BY <1>2 DEF Total, f

LEMMA TotalWithRow ==
    ASSUME NEW xs, IsFiniteSet(xs), \A x \in xs : x.quantity \in Nat,
           NEW e, e \notin xs, e.quantity \in Nat
    PROVE  Total(xs \cup {e}) = Total(xs) + e.quantity
<1> DEFINE f == [x \in xs |-> x.quantity]
           ys == xs \cup {e}
           g == [x \in ys |-> x.quantity]
<1>1. /\ \A x \in xs : f[x] = g[x] /\ g[x] \in Int
      /\ g[e] = e.quantity /\ DOMAIN g = ys /\ DOMAIN f = xs
    OBVIOUS
<1>2. Total(xs) = SumFunction(f) /\ Total(ys) = SumFunction(g)
    BY DEF Total
<1>3. SumFunction(f) = SumFunctionOnSet(f, xs) /\ SumFunction(g) = SumFunctionOnSet(g, ys)
    BY <1>1 DEF SumFunction
<1> HIDE DEF f, g
<1>4. SumFunctionOnSet(f, xs) = SumFunctionOnSet(g, xs)
    BY <1>1, SumEqual
<1>5. SumFunctionOnSet(g, ys) = g[e] + SumFunctionOnSet(g, xs)
    BY <1>1, SumAdd
<1>6. SumFunctionOnSet(g, xs) \in Int
    BY <1>1, SumType
<1> QED BY <1>1, <1>2, <1>3, <1>4, <1>5, <1>6

(* What is left of a lot, and that later disposals only lower it. *)
LEMMA LeftType ==
    ASSUME NEW D, IsFiniteSet(D), \A d \in D : d.quantity \in Nat, NEW l, l.quantity \in Nat, NEW at
    PROVE  /\ Left(D, l, at) \in Int
           /\ Left(D, l, at) <= l.quantity
<1> DEFINE xs == {d \in D : d.lot = l.id /\ d.at <= at}
<1>1. IsFiniteSet(xs) /\ \A x \in xs : x.quantity \in Nat
    BY FS_Subset
<1>2. Left(D, l, at) = l.quantity - Total(xs)
    BY DEF Left
<1> HIDE DEF xs
<1>3. Total(xs) \in Nat
    BY <1>1, TotalOfRows
<1> QED BY <1>2, <1>3

(* When no disposal is later, what is left at an instant is what is left.  *)
LEMMA LeftNow ==
    ASSUME NEW D, NEW at \in Time, \A d \in D : d.at \in Time /\ d.at <= at, NEW l
    PROVE  Left(D, l, MaxTime) = Left(D, l, at)
<1>1. \A d \in D : d.at <= MaxTime
    BY TimeIsNat
<1>2. {d \in D : d.lot = l.id /\ d.at <= MaxTime} = {d \in D : d.lot = l.id /\ d.at <= at}
    BY <1>1
<1> QED BY <1>2 DEF Left

LEMMA SmallerOfTwo ==
    ASSUME NEW a \in Int, NEW b \in Int
    PROVE  Min({a, b}) = IF a <= b THEN a ELSE b
<1>1. Min({a, b}) \in {a, b} /\ \A y \in {a, b} : Min({a, b}) <= y
    <2>1. \E x \in {a, b} : \A y \in {a, b} : x <= y
        <3>1. CASE a <= b
            BY <3>1
        <3>2. CASE ~(a <= b)
            BY <3>2
        <3> QED BY <3>1, <3>2
    <2> QED BY <2>1 DEF Min
<1> QED BY <1>1

(* The lots in the order of dispose_fifo. *)
LEMMA LotOrder ==
    ASSUME NEW L, LotRows(L)
    PROVE  LET R == {p \in L \X L : Precedes(p[1], p[2])} IN
           /\ \A k, l \in L : <<k, l>> \in R <=> Precedes(k, l)
           /\ \A x \in L : <<x, x>> \notin R
           /\ \A x, y, z \in L : <<x, y>> \in R /\ <<y, z>> \in R => <<x, z>> \in R
           /\ \A x, y \in L : x = y \/ <<x, y>> \in R \/ <<y, x>> \in R
<1>1. \A l \in L : DayOf(l.at) \in Int /\ l.rank \in Nat
    <2> SUFFICES ASSUME NEW l \in L PROVE DayOf(l.at) \in Int /\ l.rank \in Nat
        OBVIOUS
    <2>1. l.at \in Nat /\ l.rank \in Nat
        BY TimeIsNat DEF LotRows
    <2> QED BY <2>1, DaysInOrder
<1>2. \A k, l \in L : k # l /\ DayOf(k.at) = DayOf(l.at) => k.rank # l.rank
    BY DEF LotRows
<1>3. /\ \A x \in L : ~Precedes(x, x)
      /\ \A x, y, z \in L : Precedes(x, y) /\ Precedes(y, z) => Precedes(x, z)
      /\ \A x, y \in L : x = y \/ Precedes(x, y) \/ Precedes(y, x)
    BY <1>1, <1>2 DEF Precedes
<1> DEFINE R == {p \in L \X L : Precedes(p[1], p[2])}
<1>4. \A k, l \in L : <<k, l>> \in R <=> Precedes(k, l)
    OBVIOUS
<1> HIDE DEF R
<1>5. /\ \A x \in L : <<x, x>> \notin R
      /\ \A x, y, z \in L : <<x, y>> \in R /\ <<y, z>> \in R => <<x, z>> \in R
      /\ \A x, y \in L : x = y \/ <<x, y>> \in R \/ <<y, x>> \in R
    BY <1>3, <1>4
<1> QED BY <1>4, <1>5 DEF R

(* What a sale takes from each lot: nothing before the older ones are      *)
(* empty, never more than the lot has, and the quantity sold in all.       *)
SaleReady(L, D, at) ==
    /\ LotRows(L) /\ DisposalRows(L, D)
    /\ at \in Time
    /\ \A l \in L : l.at <= at /\ Left(D, l, MaxTime) >= 0
    /\ \A d \in D : d.at <= at

LEMMA SaleTakes ==
    ASSUME NEW L, NEW D, NEW at, SaleReady(L, D, at), NEW q \in Nat \ {0}, Covered(L, D, q, at)
    PROVE  LET take == [l \in L |-> Taken(L, D, l, q, at)] IN
           /\ Visible(L, at) = L
           /\ \A l \in L : Left(D, l, at) \in Nat /\ take[l] \in Nat /\ take[l] <= Left(D, l, at)
           /\ SumFunctionOnSet(take, L) = q
           /\ \A k, l \in L : Precedes(k, l) /\ take[l] > 0 => take[k] = Left(D, k, at)
<1> DEFINE w == [l \in L |-> Left(D, l, at)]
           take == [l \in L |-> Taken(L, D, l, q, at)]
           R == {p \in L \X L : Precedes(p[1], p[2])}
           Before(l) == {k \in L : <<k, l>> \in R}
           B(l) == SumFunctionOnSet(w, Before(l))
<1>1. /\ IsFiniteSet(L) /\ IsFiniteSet(D) /\ \A d \in D : d.quantity \in Nat
      /\ \A l \in L : l.quantity \in Nat
    BY DEF SaleReady, LotRows, DisposalRows
<1>2. Visible(L, at) = L
    BY DEF Visible, SaleReady
<1>3. ASSUME NEW l \in L PROVE Left(D, l, at) \in Nat
    <2>1. Left(D, l, MaxTime) = Left(D, l, at) /\ Left(D, l, MaxTime) >= 0
        BY LeftNow DEF SaleReady, DisposalRows
    <2>2. Left(D, l, at) \in Int
        BY <1>1, LeftType
    <2> QED BY <2>1, <2>2
<1>4. w \in [L -> Nat] /\ \A l \in L : w[l] = Left(D, l, at) /\ w[l] \in Nat
    BY <1>3
<1>5. /\ \A k, l \in L : <<k, l>> \in R <=> Precedes(k, l)
      /\ \A x \in L : <<x, x>> \notin R
      /\ \A x, y, z \in L : <<x, y>> \in R /\ <<y, z>> \in R => <<x, z>> \in R
      /\ \A x, y \in L : x = y \/ <<x, y>> \in R \/ <<y, x>> \in R
    <2>1. LotRows(L)
        BY DEF SaleReady
    <2> QED BY <2>1, LotOrder
<1> HIDE DEF w, R
<1>6. ASSUME NEW ls \in SUBSET L PROVE Offered(D, ls, at) = SumFunctionOnSet(w, ls)
    <2> DEFINE g == [l \in ls |-> Positive(Left(D, l, at))]
    <2>1. IsFiniteSet(ls) /\ DOMAIN g = ls
        BY <1>1, FS_Subset
    <2>2. \A l \in ls : g[l] = w[l]
        BY <1>4 DEF Positive
    <2>3. Offered(D, ls, at) = SumFunctionOnSet(g, ls)
        BY <2>1 DEF Offered, SumFunction
    <2> HIDE DEF g
    <2> QED BY <2>1, <2>2, <2>3, SumEqual
<1>7. ASSUME NEW l \in L
      PROVE  /\ B(l) \in Nat
             /\ take[l] = IF q <= B(l) THEN 0 ELSE IF w[l] <= q - B(l) THEN w[l] ELSE q - B(l)
    <2>1. {k \in L : Precedes(k, l)} = Before(l) /\ Before(l) \in SUBSET L
        BY <1>5
    <2>2. Taken(L, D, l, q, at) = Min({Positive(w[l]), Positive(q - B(l))})
        BY <1>2, <1>4, <1>6, <2>1 DEF Taken
    <2>3. B(l) \in Nat
        <3>1. IsFiniteSet(Before(l)) /\ \A x \in Before(l) : w[x] \in Nat
            BY <1>1, <1>4, <2>1, FS_Subset
        <3> HIDE DEF Before
        <3> QED BY <3>1, SumNat
    <2> DEFINE b == B(l)
    <2>b. b \in Nat /\ B(l) = b
        BY <2>3
    <2> HIDE DEF b, B
    <2>4. w[l] \in Nat /\ q \in Nat /\ Positive(w[l]) = w[l]
        BY <1>4 DEF Positive
    <2>5. Positive(q - b) = IF q <= b THEN 0 ELSE q - b
        BY <2>b, <2>4 DEF Positive
    <2>6. Positive(q - b) \in Int
        BY <2>5, <2>4, <2>b
    <2>7. Taken(L, D, l, q, at) = IF w[l] <= Positive(q - b) THEN w[l] ELSE Positive(q - b)
        BY <2>2, <2>4, <2>6, <2>b, SmallerOfTwo
    <2>8. take[l] = Taken(L, D, l, q, at)
        OBVIOUS
    <2> HIDE DEF take
    <2> QED BY <2>4, <2>5, <2>7, <2>8, <2>b
<1>8. SumFunctionOnSet(w, L) \in Nat /\ q <= SumFunctionOnSet(w, L)
    <2>1. Offered(D, L, at) >= q
        BY <1>2 DEF Covered
    <2>2. SumFunctionOnSet(w, L) \in Nat
        BY <1>1, <1>4, SumNat
    <2> QED BY <1>6, <2>1, <2>2
<1> HIDE DEF take
<1>9. SumFunctionOnSet(take, L) = q
    <2>1. SumFunctionOnSet(take, L)
           = IF q <= SumFunctionOnSet(w, L) THEN q ELSE SumFunctionOnSet(w, L)
        <3>1. \A x \in L :
                LET before == SumFunctionOnSet(w, {k \in L : <<k, x>> \in R})
                IN  take[x] = IF q <= before THEN 0
                              ELSE IF w[x] <= q - before THEN w[x] ELSE q - before
            BY <1>7
        <3>2. q \in Nat /\ w \in [L -> Nat] /\ IsFiniteSet(L)
            BY <1>1, <1>4
        <3>3. /\ \A x \in L : <<x, x>> \notin R
              /\ \A x, y, z \in L : <<x, y>> \in R /\ <<y, z>> \in R => <<x, z>> \in R
              /\ \A x, y \in L : x = y \/ <<x, y>> \in R \/ <<y, x>> \in R
            BY <1>5
        <3>4. TakenInTurn(L, R, w, q, take)
            BY <3>1, <3>3, Zenon DEF TakenInTurn
        <3> QED BY <3>2, <3>4, Waterfall
    <2> QED BY <1>8, <2>1
<1> HIDE DEF Before
<1>10. \A l \in L : take[l] \in Nat /\ take[l] <= w[l]
    <2> SUFFICES ASSUME NEW l \in L PROVE take[l] \in Nat /\ take[l] <= w[l]
        OBVIOUS
    <2> DEFINE b == B(l)
    <2>1. b \in Nat /\ take[l] = IF q <= b THEN 0 ELSE IF w[l] <= q - b THEN w[l] ELSE q - b
        BY <1>7
    <2> HIDE DEF b
    <2> QED BY <1>4, <2>1
<1>11. ASSUME NEW k \in L, NEW l \in L, Precedes(k, l), take[l] > 0
       PROVE  take[k] = w[k]
    <2> DEFINE b == B(l)
               c == B(k)
               T == Before(k) \cup {k}
    <2>1. b \in Nat /\ c \in Nat
          /\ take[l] = (IF q <= b THEN 0 ELSE IF w[l] <= q - b THEN w[l] ELSE q - b)
          /\ take[k] = (IF q <= c THEN 0 ELSE IF w[k] <= q - c THEN w[k] ELSE q - c)
        BY <1>7
    <2>2. /\ T \in SUBSET Before(l) /\ k \notin Before(k)
          /\ IsFiniteSet(Before(l)) /\ IsFiniteSet(Before(k))
          /\ Before(l) \subseteq L /\ Before(k) \subseteq L
        <3>1. Before(l) \subseteq L /\ Before(k) \subseteq L
            BY DEF Before
        <3>2. T \in SUBSET Before(l) /\ k \notin Before(k)
            BY <1>5, <1>11 DEF Before
        <3> QED BY <1>1, <3>1, <3>2, FS_Subset
    <2>3. SumFunctionOnSet(w, T) = w[k] + c
        <3>1. \A x \in Before(k) : w[x] \in Int
            BY <1>4, <2>2
        <3>2. w[k] \in Int
            BY <1>4
        <3> QED BY <2>2, <3>1, <3>2, SumAdd
    <2>4. SumFunctionOnSet(w, T) <= b
        <3>1. \A x \in Before(l) : w[x] \in Nat
            BY <1>4, <2>2
        <3> HIDE DEF T
        <3> QED BY <2>2, <3>1, SumPart
    <2> HIDE DEF b, c, T
    <2> QED BY <1>4, <1>11, <2>1, <2>3, <2>4
<1>12. \A l \in L : w[l] = Left(D, l, at)
    BY <1>4
<1> QED BY <1>2, <1>3, <1>9, <1>10, <1>11, <1>12 DEF take

(* One disposal row per lot a sale takes from, and what it leaves of each. *)
LEMMA SaleLowers ==
    ASSUME NEW L, NEW D, NEW at, SaleReady(L, D, at), NEW q \in Nat \ {0}, Covered(L, D, q, at),
           NEW by, \A d \in D : d.by # by
    PROVE  LET E == D \cup Disposed(L, D, by, q, at) IN
           /\ DisposalRows(L, E)
           /\ \A l \in L, t \in Time :
                 Left(E, l, t) = Left(D, l, t) - (IF at <= t THEN Taken(L, D, l, q, at) ELSE 0)
<1> DEFINE take == [l \in L |-> Taken(L, D, l, q, at)]
           row == [l \in L |-> [lot |-> l.id, by |-> by, quantity |-> take[l], at |-> at]]
           K == {l \in L : take[l] > 0}
           N == {row[l] : l \in K}
           E == D \cup N
<1>1. /\ Visible(L, at) = L
      /\ \A l \in L : take[l] \in Nat
    BY SaleTakes
<1>2. /\ IsFiniteSet(L) /\ IsFiniteSet(D) /\ \A d \in D : d.quantity \in Nat /\ d.at \in Time
      /\ \A l \in L : l.quantity \in Nat /\ l.at <= at
      /\ \A k, l \in L : k.id = l.id => k = l
      /\ at \in Time
    BY DEF SaleReady, LotRows, DisposalRows
<1>3. Disposed(L, D, by, q, at) = N
    BY <1>1 DEF Disposed
<1>4. \A l \in L : take[l] = Taken(L, D, l, q, at)
    OBVIOUS
<1> HIDE DEF take
<1>5. /\ \A l \in L : /\ row[l].lot = l.id /\ row[l].by = by
                      /\ row[l].quantity = take[l] /\ row[l].at = at
      /\ \A l \in L : row[l] \notin D
    OBVIOUS
<1> HIDE DEF row
<1>6. IsFiniteSet(E) /\ N \subseteq {row[l] : l \in L}
    <2>1. IsFiniteSet(K)
        BY <1>2, FS_Subset
    <2>s. [l \in K |-> row[l]] \in Surjection(K, N)
        BY DEF Surjection
    <2> HIDE DEF K
    <2>2. IsFiniteSet(N)
        BY <2>1, <2>s, FS_Surjection
    <2> HIDE DEF N
    <2>3. IsFiniteSet(E)
        BY <1>2, <2>2, FS_Union
    <2> QED BY <2>3 DEF N, K
<1>7. DisposalRows(L, E)
    <2>1. \A d \in N : /\ d.quantity \in Nat /\ d.at \in Time
                       /\ \E l \in L : l.id = d.lot /\ l.at <= d.at
        BY <1>1, <1>2, <1>5, <1>6
    <2>2. \A d \in D : /\ d.quantity \in Nat /\ d.at \in Time
                       /\ \E l \in L : l.id = d.lot /\ l.at <= d.at
        BY DEF SaleReady, DisposalRows
    <2> HIDE DEF N
    <2> QED BY <1>6, <2>1, <2>2 DEF DisposalRows
<1>8. ASSUME NEW l \in L, NEW t \in Time
      PROVE  Left(E, l, t) = Left(D, l, t) - (IF at <= t THEN take[l] ELSE 0)
    <2> DEFINE xs == {d \in D : d.lot = l.id /\ d.at <= t}
               ys == {d \in E : d.lot = l.id /\ d.at <= t}
    <2>1. IsFiniteSet(xs) /\ (\A x \in xs : x.quantity \in Nat) /\ row[l] \notin xs
        BY <1>2, <1>5, FS_Subset
    <2>2. Left(D, l, t) = l.quantity - Total(xs) /\ Left(E, l, t) = l.quantity - Total(ys)
        BY DEF Left
    <2>3. take[l] \in Nat /\ l.quantity \in Nat
        BY <1>1, <1>2
    <2>4. CASE at <= t /\ take[l] > 0
        <3>1. \A d \in N : d.lot = l.id => d = row[l]
            BY <1>2, <1>5
        <3>2. row[l] \in N /\ row[l].lot = l.id /\ row[l].at <= t
            BY <1>5, <2>4
        <3>3. ys = xs \cup {row[l]}
            BY <3>1, <3>2
        <3>4. row[l].quantity = take[l]
            BY <1>5
        <3> HIDE DEF xs, ys, N
        <3>5. Total(ys) = Total(xs) + take[l]
            BY <2>1, <2>3, <3>3, <3>4, TotalWithRow
        <3>6. Total(xs) \in Nat
            BY <2>1, TotalOfRows
        <3> QED BY <2>2, <2>3, <2>4, <3>5, <3>6
    <2>5. CASE ~(at <= t /\ take[l] > 0)
        <3>1. \A d \in N : d.lot = l.id => ~(d.at <= t)
            BY <1>2, <1>5, <2>5
        <3>2. ys = xs
            BY <3>1
        <3> HIDE DEF xs, ys, N
        <3>3. Total(xs) \in Nat
            BY <2>1, TotalOfRows
        <3>4. (IF at <= t THEN take[l] ELSE 0) = 0
            BY <2>3, <2>5
        <3> QED BY <2>2, <2>3, <3>2, <3>3, <3>4
    <2> QED BY <2>4, <2>5
<1> HIDE DEF N
<1> QED BY <1>3, <1>4, <1>7, <1>8

(* A sale sells the oldest lots, never more than they hold, and leaves     *)
(* what they held less what was sold.                                      *)
LEMMA SaleLeaves ==
    ASSUME NEW L, NEW D, NEW at, SaleReady(L, D, at), NEW q \in Nat \ {0}, Covered(L, D, q, at),
           NEW by, \A d \in D : d.by # by, Oldest(L, D)
    PROVE  LET E == D \cup Disposed(L, D, by, q, at) IN
           /\ DisposalRows(L, E)
           /\ \A l \in L : Left(E, l, MaxTime) >= 0
           /\ SumFunction([l \in L |-> Left(E, l, MaxTime)])
                = SumFunction([l \in L |-> Left(D, l, MaxTime)]) - q
           /\ Oldest(L, E)
<1> DEFINE take == [l \in L |-> Taken(L, D, l, q, at)]
           E == D \cup Disposed(L, D, by, q, at)
           f == [l \in L |-> Left(D, l, MaxTime)]
           g == [l \in L |-> Left(E, l, MaxTime)]
           less == [l \in L |-> Left(E, l, MaxTime) - Left(D, l, MaxTime)]
<1>1. /\ \A l \in L : Left(D, l, at) \in Nat /\ take[l] \in Nat /\ take[l] <= Left(D, l, at)
      /\ SumFunctionOnSet(take, L) = q
      /\ \A k, l \in L : Precedes(k, l) /\ take[l] > 0 => take[k] = Left(D, k, at)
    BY SaleTakes
<1>2. /\ DisposalRows(L, E)
      /\ \A l \in L, t \in Time :
            Left(E, l, t) = Left(D, l, t) - (IF at <= t THEN take[l] ELSE 0)
    BY SaleLowers
<1>3. /\ IsFiniteSet(L) /\ IsFiniteSet(D) /\ \A d \in D : d.quantity \in Nat /\ d.at \in Time
      /\ \A l \in L : l.quantity \in Nat
      /\ \A k, l \in L : k.id = l.id => k = l
      /\ at \in Time /\ \A d \in D : d.at <= at
    BY DEF SaleReady, LotRows, DisposalRows
<1>4. ASSUME NEW d \in E PROVE d \in D \/ \E l \in L : d.lot = l.id /\ d.at = at /\ take[l] > 0
    BY DEF Disposed, Visible
<1> HIDE DEF take, E
<1>5. MaxTime \in Time /\ at <= MaxTime /\ at <= at
    BY <1>3, TimeIsNat
<1>6. ASSUME NEW l \in L
      PROVE  /\ Left(D, l, MaxTime) = Left(D, l, at)
             /\ Left(E, l, MaxTime) = Left(D, l, at) - take[l]
             /\ Left(E, l, at) = Left(D, l, at) - take[l]
    <2>1. Left(D, l, MaxTime) = Left(D, l, at)
        BY <1>3, LeftNow
    <2> QED BY <1>2, <1>3, <1>5, <2>1
<1>7. \A l \in L : Left(E, l, MaxTime) >= 0
    BY <1>1, <1>6
<1>8. SumFunction(g) = SumFunction(f) - q
    <2>1. /\ \A l \in L : g[l] \in Int /\ take[l] \in Int /\ f[l] = g[l] + take[l]
          /\ DOMAIN f = L /\ DOMAIN g = L
        BY <1>1, <1>6
    <2> HIDE DEF f, g
    <2>2. SumFunctionOnSet(f, L) = SumFunctionOnSet(g, L) + SumFunctionOnSet(take, L)
        BY <1>3, <2>1, SumPlus
    <2>3. SumFunctionOnSet(g, L) \in Int
        BY <1>3, <2>1, SumType
    <2>4. SumFunction(f) = SumFunctionOnSet(f, L) /\ SumFunction(g) = SumFunctionOnSet(g, L)
        BY <2>1 DEF SumFunction
    <2> QED BY <1>1, <2>2, <2>3, <2>4
<1>9. ASSUME NEW d \in E, NEW k \in L, NEW l \in L,
             l.id = d.lot, k.at <= d.at, DayOf(k.at) < DayOf(l.at)
      PROVE  Left(E, k, d.at) <= 0
    <2>1. CASE d \in D
        <3>1. Left(D, k, d.at) <= 0
            BY <1>9, <2>1 DEF Oldest
        <3>2. Left(D, k, d.at) \in Int
            BY <1>3, LeftType
        <3>3. Left(E, k, d.at) = Left(D, k, d.at) - (IF at <= d.at THEN take[k] ELSE 0)
            BY <1>2, <1>3, <2>1
        <3>4. take[k] \in Nat
            BY <1>1
        <3> QED BY <3>1, <3>2, <3>3, <3>4
    <2>2. CASE \E j \in L : d.lot = j.id /\ d.at = at /\ take[j] > 0
        <3>1. d.at = at /\ take[l] > 0
            BY <1>3, <1>9, <2>2
        <3>2. Precedes(k, l)
            BY <1>9 DEF Precedes
        <3>3. Left(E, k, at) = Left(D, k, at) - take[k] /\ take[k] = Left(D, k, at) /\ take[k] \in Nat
            BY <1>1, <1>6, <3>1, <3>2
        <3> QED BY <3>1, <3>3
    <2> QED BY <1>4, <2>1, <2>2
<1>10. Oldest(L, E)
    BY <1>9 DEF Oldest
<1> HIDE DEF f, g
<1> QED BY <1>2, <1>7, <1>8, <1>10 DEF E, f, g

(* A lot that nothing was taken from is whole. *)
LEMMA LeftWhole ==
    ASSUME NEW D, NEW l, l.quantity \in Nat, NEW at, \A d \in D : d.lot # l.id
    PROVE  Left(D, l, at) = l.quantity
<1> DEFINE xs == {d \in D : d.lot = l.id /\ d.at <= at}
<1>1. xs = {}
    OBVIOUS
<1>2. Left(D, l, at) = l.quantity - Total(xs)
    BY DEF Left
<1> HIDE DEF xs
<1>3. Total(xs) = 0
    BY <1>1, SumEmpty DEF Total, SumFunction
<1> QED BY <1>2, <1>3

(* A purchase that is not earlier than what the lots record adds its       *)
(* quantity to what they hold.                                             *)
LEMMA PurchaseAdds ==
    ASSUME NEW L, NEW D, LotRows(L), DisposalRows(L, D), Oldest(L, D),
           NEW new, new.quantity \in Nat, new.at \in Time, new.rank \in Nat,
           \A l \in L : /\ l.id # new.id /\ l.at <= new.at
                        /\ DayOf(l.at) = DayOf(new.at) => l.rank # new.rank
    PROVE  LET M == L \cup {new} IN
           /\ LotRows(M) /\ DisposalRows(M, D)
           /\ Left(D, new, MaxTime) = new.quantity
           /\ SumFunction([l \in M |-> Left(D, l, MaxTime)])
                = SumFunction([l \in L |-> Left(D, l, MaxTime)]) + new.quantity
           /\ Oldest(M, D)
<1> DEFINE M == L \cup {new}
           f == [l \in L |-> Left(D, l, MaxTime)]
           g == [l \in M |-> Left(D, l, MaxTime)]
<1>1. /\ IsFiniteSet(L) /\ IsFiniteSet(D) /\ \A d \in D : d.quantity \in Nat
      /\ \A l \in L : l.quantity \in Nat /\ l.at \in Time /\ l.rank \in Nat
      /\ \A k, l \in L : k.id = l.id => k = l
      /\ \A k, l \in L : k # l /\ DayOf(k.at) = DayOf(l.at) => k.rank # l.rank
      /\ \A d \in D : \E l \in L : l.id = d.lot
    BY DEF LotRows, DisposalRows
<1>2. IsFiniteSet(M) /\ new \notin L
    BY <1>1, FS_AddElement
<1>3. LotRows(M)
    <2>1. \A l \in M : l.quantity \in Nat /\ l.at \in Time /\ l.rank \in Nat
        BY <1>1
    <2>2. \A k, l \in M : k.id = l.id => k = l
        BY <1>1
    <2>3. \A k, l \in M : k # l /\ DayOf(k.at) = DayOf(l.at) => k.rank # l.rank
        BY <1>1
    <2> QED BY <1>2, <2>1, <2>2, <2>3 DEF LotRows
<1>4. DisposalRows(M, D)
    BY DEF DisposalRows
<1>5. Left(D, new, MaxTime) = new.quantity
    <2>1. \A d \in D : d.lot # new.id
        BY <1>1
    <2> QED BY <2>1, LeftWhole
<1>6. SumFunction(g) = SumFunction(f) + new.quantity
    <2>1. \A l \in L : f[l] = g[l] /\ g[l] \in Int
        <3> SUFFICES ASSUME NEW l \in L PROVE Left(D, l, MaxTime) \in Int
            OBVIOUS
        <3> QED BY <1>1, LeftType
    <2>2. g[new] = new.quantity /\ DOMAIN f = L /\ DOMAIN g = M
        BY <1>5
    <2> HIDE DEF f, g
    <2>3. SumFunctionOnSet(g, M) = g[new] + SumFunctionOnSet(g, L)
        BY <1>1, <1>2, <2>1, <2>2, SumAdd
    <2>4. SumFunctionOnSet(f, L) = SumFunctionOnSet(g, L) /\ SumFunctionOnSet(g, L) \in Int
        BY <1>1, <2>1, SumEqual, SumType
    <2>5. SumFunction(f) = SumFunctionOnSet(f, L) /\ SumFunction(g) = SumFunctionOnSet(g, M)
        BY <2>2 DEF SumFunction
    <2> QED BY <2>2, <2>3, <2>4, <2>5
<1>7. ASSUME NEW d \in D, NEW k \in M, NEW l \in M,
             l.id = d.lot, k.at <= d.at, DayOf(k.at) < DayOf(l.at)
      PROVE  Left(D, k, d.at) <= 0
    <2>1. l \in L
        BY <1>1, <1>7
    <2>2. k # new
        <3>1. l.at \in Nat /\ new.at \in Nat /\ l.at <= new.at
            BY <1>1, <2>1, TimeIsNat
        <3>2. DayOf(l.at) \in Int /\ DayOf(new.at) \in Int /\ DayOf(l.at) <= DayOf(new.at)
            BY <3>1, DaysInOrder
        <3> QED BY <1>7, <3>2
    <2> QED BY <1>7, <2>1, <2>2 DEF Oldest
<1>8. Oldest(M, D)
    BY <1>7 DEF Oldest
<1> HIDE DEF f, g
<1> QED BY <1>3, <1>4, <1>5, <1>6, <1>8 DEF f, g

-----------------------------------------------------------------------------
(* What is left of the lots is the position, the opening lot and one lot   *)
(* per posted purchase being sold from oldest to newest.  The rows keep    *)
(* the posting they come from, which is what makes their keys distinct.    *)
LotInv ==
    /\ LotRows(lots) /\ DisposalRows(lots, disposals)
    /\ \A l \in lots : \/ l.id = OpeningLot.id
                       \/ \E o \in Orders, n \in Nat \ {0} : l.id = <<o, n>> /\ IsPosted(o, n)
    /\ \A d \in disposals : \E o \in Orders, n \in Nat \ {0} : d.by = <<o, n>> /\ IsPosted(o, n)
    /\ LotsSound

LEMMA RanksAreNat == MaxLots \in Nat
<1>1. IsFiniteSet({o \in Orders : Side[o] = "BUY"})
    BY LedgerAssumption, FS_Subset
<1>2. Cardinality({o \in Orders : Side[o] = "BUY"}) \in Nat
    BY <1>1, FS_CardinalityType
<1> QED BY <1>2, LedgerAssumption DEF MaxLots

LEMMA LotsInit == Init => LotInv
<1> SUFFICES ASSUME Init PROVE LotInv
    OBVIOUS
<1> DEFINE f == [l \in lots |-> Left(disposals, l, MaxTime)]
<1>1. lots = {OpeningLot} /\ disposals = {} /\ position = [o \in Orders |-> 0]
    BY DEF Init
<1>2. /\ OpeningLot.quantity = Opening /\ OpeningLot.quantity \in Nat
      /\ OpeningLot.at \in Time /\ OpeningLot.rank \in Nat
    BY RanksAreNat, LedgerAssumption DEF OpeningLot, Time
<1>3. IsFiniteSet(lots) /\ IsFiniteSet(disposals)
    BY <1>1, FS_EmptySet, FS_Singleton
<1>4. LotRows(lots) /\ DisposalRows(lots, disposals)
    <2> HIDE DEF OpeningLot
    <2> QED BY <1>1, <1>2, <1>3 DEF LotRows, DisposalRows
<1>5. \A l \in lots : Left(disposals, l, MaxTime) = Opening
    <2>1. \A l \in lots : l.quantity = Opening /\ l.quantity \in Nat
        BY <1>1, <1>2
    <2>2. \A l : \A d \in disposals : d.lot # l.id
        BY <1>1
    <2> QED BY <2>1, <2>2, LeftWhole
<1>6. SumFunction(f) = Opening
    <2>1. f[OpeningLot] = Opening /\ DOMAIN f = {} \cup {OpeningLot} /\ OpeningLot \notin {}
        BY <1>1, <1>5
    <2> HIDE DEF f
    <2>2. SumFunctionOnSet(f, {} \cup {OpeningLot}) = f[OpeningLot] + SumFunctionOnSet(f, {})
        <3>1. f[OpeningLot] \in Int
            BY <1>2, <2>1
        <3> HIDE DEF OpeningLot
        <3> QED BY <2>1, <3>1, FS_EmptySet, SumAdd
    <2> QED BY <1>2, <2>1, <2>2, SumEmpty DEF SumFunction
<1>7. SumFunction(position) = 0
    BY <1>1, LedgerAssumption, TotalZero
<1>8. LotsSound
    <2>1. LotsNotOverdrawn
        BY <1>2, <1>5 DEF LotsNotOverdrawn
    <2>2. LotsMatchPosition
        BY <1>2, <1>6, <1>7 DEF LotsMatchPosition, Holding
    <2>3. FirstInFirstOut
        BY <1>1 DEF FirstInFirstOut
    <2> QED BY <2>1, <2>2, <2>3 DEF LotsSound
<1> QED BY <1>1, <1>4, <1>8 DEF LotInv

LEMMA LotsStep == ASSUME Inv, LotInv, [Next]_vars, [PostedInOrder]_vars PROVE LotInv'
<1>0. /\ LotRows(lots) /\ DisposalRows(lots, disposals)
      /\ Oldest(lots, disposals)
      /\ \A l \in lots : Left(disposals, l, MaxTime) >= 0
      /\ SumFunction([l \in lots |-> Left(disposals, l, MaxTime)]) = Opening + SumFunction(position)
    BY DEF LotInv, LotsSound, LotsNotOverdrawn, LotsMatchPosition, Holding, FirstInFirstOut, Oldest
<1>t. position \in [Orders -> Int] /\ IsFiniteSet(Orders) /\ Opening \in Nat
    BY LedgerAssumption DEF Inv, TypeOK
<1>s. StillPosted
    BY LotMoves
<1> DEFINE LotIds == \A l \in lots : \/ l.id = OpeningLot.id
                       \/ \E o \in Orders, n \in Nat \ {0} : l.id = <<o, n>> /\ IsPosted(o, n)
           SaleIds == \A d \in disposals :
                         \E o \in Orders, n \in Nat \ {0} : d.by = <<o, n>> /\ IsPosted(o, n)
<1>i. LotIds /\ SaleIds
    BY DEF LotInv
<1>1. CASE UNCHANGED <<lots, disposals, position>>
    <2>1. LotIds' /\ SaleIds'
        BY <1>1, <1>s, <1>i DEF StillPosted
    <2>2. LotsSound'
        BY <1>1 DEF LotInv, LotsSound, LotsNotOverdrawn, LotsMatchPosition, Holding, FirstInFirstOut
    <2>3. LotRows(lots') /\ DisposalRows(lots', disposals')
        BY <1>0, <1>1
    <2> QED BY <2>1, <2>2, <2>3 DEF LotInv
<1>2. ASSUME NEW o \in Orders, NEW n \in Nat \ {0}, NEW q \in Nat \ {0}, NEW at \in Time,
             ~IsPosted(o, n), IsPosted(o, n)', Last(log'[o]).at = at,
             LotPurchase(o, n, q, at) \/ LotSale(o, n, q, at)
      PROVE  LotInv'
    <2>1. position' \in [Orders -> Int] /\ position'[o] # position[o]
        BY <1>2, <1>t DEF LotPurchase, LotSale
    <2>2. \A y \in lots \cup disposals : y.at <= at
        <3>1. PostedInOrder
            BY <2>1 DEF vars, ledger
        <3> QED BY <1>2, <2>1, <3>1 DEF PostedInOrder
    <2>3. SumFunction(position') = SumFunction(position) - position[o] + position'[o]
        <3>1. \A x \in Orders : x # o => position'[x] = position[x]
            BY <1>2, <1>t DEF LotPurchase, LotSale
        <3> QED BY <1>t, <2>1, <3>1, TotalUpdate
    <2>4. SumFunction(position) \in Int /\ position[o] \in Int
        BY <1>t, TotalType
    <2>5. CASE LotPurchase(o, n, q, at)
        <3>1. PICK rank \in FreeRanks(at) :
                 lots' = lots \cup {[id |-> <<o, n>>, quantity |-> q, at |-> at, rank |-> rank]}
            BY <2>5 DEF LotPurchase
        <3> DEFINE new == [id |-> <<o, n>>, quantity |-> q, at |-> at, rank |-> rank]
        <3>2. /\ rank \in Nat
              /\ \A l \in lots : DayOf(l.at) = DayOf(at) => l.rank # rank
            BY RanksAreNat DEF FreeRanks
        <3>3. \A l \in lots : l.id # <<o, n>>
            <4> SUFFICES ASSUME NEW l \in lots, l.id = <<o, n>> PROVE FALSE
                OBVIOUS
            <4>1. OpeningLot.id = <<"opening", 0>>
                BY DEF OpeningLot
            <4>2. PICK p \in Orders, m \in Nat \ {0} : l.id = <<p, m>> /\ IsPosted(p, m)
                BY <1>i, <4>1
            <4>3. p = o /\ m = n
                BY <4>2
            <4> QED BY <1>2, <4>2, <4>3
        <3>4. /\ new.id = <<o, n>> /\ new.quantity = q /\ new.at = at /\ new.rank = rank
              /\ lots' = lots \cup {new} /\ disposals' = disposals
            BY <2>5, <3>1 DEF LotPurchase
        <3> HIDE DEF new
        <3> DEFINE M == lots \cup {new}
        <3>5. /\ new.quantity \in Nat /\ new.at \in Time /\ new.rank \in Nat
              /\ \A l \in lots : /\ l.id # new.id /\ l.at <= new.at
                                 /\ DayOf(l.at) = DayOf(new.at) => l.rank # new.rank
            BY <2>2, <3>2, <3>3, <3>4
        <3>6. /\ LotRows(M) /\ DisposalRows(M, disposals)
              /\ Left(disposals, new, MaxTime) = new.quantity
              /\ SumFunction([l \in M |-> Left(disposals, l, MaxTime)])
                   = SumFunction([l \in lots |-> Left(disposals, l, MaxTime)]) + new.quantity
              /\ Oldest(M, disposals)
            BY <1>0, <3>5, PurchaseAdds
        <3>7. position'[o] = position[o] + q
            BY <1>t, <2>5 DEF LotPurchase
        <3>8. LotIds' /\ SaleIds'
            <4>1. LotIds'
                <5> SUFFICES ASSUME NEW l \in lots'
                             PROVE  \/ l.id = OpeningLot.id
                                    \/ \E p \in Orders, m \in Nat \ {0} :
                                         l.id = <<p, m>> /\ IsPosted(p, m)'
                    OBVIOUS
                <5>1. CASE l = new
                    BY <1>2, <3>4, <5>1
                <5>2. CASE l \in lots
                    BY <1>i, <1>s, <5>2 DEF StillPosted
                <5> QED BY <3>4, <5>1, <5>2
            <4>2. SaleIds'
                BY <1>i, <1>s, <3>4 DEF StillPosted
            <4> QED BY <4>1, <4>2
        <3> HIDE DEF LotIds, SaleIds
        <3>9. LotsNotOverdrawn'
            BY <1>0, <3>4, <3>5, <3>6 DEF LotsNotOverdrawn
        <3>10. SumFunction([l \in lots' |-> Left(disposals', l, MaxTime)])
                 = Opening + SumFunction(position')
            <4> DEFINE a == SumFunction([l \in lots |-> Left(disposals, l, MaxTime)])
                       b == SumFunction([l \in lots' |-> Left(disposals', l, MaxTime)])
            <4>1. b = a + q
                BY <3>4, <3>6
            <4>2. a = Opening + SumFunction(position)
                BY <1>0
            <4> HIDE DEF a, b
            <4>3. b = Opening + SumFunction(position')
                BY <1>t, <2>3, <2>4, <3>7, <4>1, <4>2
            <4> QED BY <4>3 DEF b
        <3>11. FirstInFirstOut'
            BY <3>4, <3>6 DEF FirstInFirstOut, Oldest
        <3>12. LotRows(lots') /\ DisposalRows(lots', disposals')
            BY <3>4, <3>6
        <3> QED BY <3>8, <3>9, <3>10, <3>11, <3>12
                DEF LotInv, LotIds, SaleIds, LotsSound, LotsMatchPosition, Holding
    <2>6. CASE LotSale(o, n, q, at)
        <3> DEFINE E == disposals \cup Disposed(lots, disposals, <<o, n>>, q, at)
        <3>1. Covered(lots, disposals, q, at) /\ lots' = lots /\ disposals' = E
            BY <2>6 DEF LotSale
        <3>2. \A d \in disposals : d.by # <<o, n>>
            <4> SUFFICES ASSUME NEW d \in disposals, d.by = <<o, n>> PROVE FALSE
                OBVIOUS
            <4>1. PICK p \in Orders, m \in Nat \ {0} : d.by = <<p, m>> /\ IsPosted(p, m)
                BY <1>i
            <4>2. p = o /\ m = n
                BY <4>1
            <4> QED BY <1>2, <4>1, <4>2
        <3>3. SaleReady(lots, disposals, at)
            BY <1>0, <2>2 DEF SaleReady
        <3>4. /\ DisposalRows(lots, E)
              /\ \A l \in lots : Left(E, l, MaxTime) >= 0
              /\ SumFunction([l \in lots |-> Left(E, l, MaxTime)])
                   = SumFunction([l \in lots |-> Left(disposals, l, MaxTime)]) - q
              /\ Oldest(lots, E)
            BY <1>0, <3>1, <3>2, <3>3, SaleLeaves
        <3>5. position'[o] = position[o] - q
            BY <1>t, <2>6 DEF LotSale
        <3>6. \A d \in E : d \in disposals \/ d.by = <<o, n>>
            BY DEF Disposed
        <3> HIDE DEF E
        <3>7. LotIds' /\ SaleIds'
            <4>1. LotIds'
                BY <1>i, <1>s, <3>1 DEF StillPosted
            <4>2. SaleIds'
                <5> SUFFICES ASSUME NEW d \in E
                             PROVE  \E p \in Orders, m \in Nat \ {0} :
                                       d.by = <<p, m>> /\ IsPosted(p, m)'
                    BY <3>1
                <5>1. CASE d.by = <<o, n>>
                    BY <1>2, <5>1
                <5>2. CASE d \in disposals
                    BY <1>i, <1>s, <5>2 DEF StillPosted
                <5> QED BY <3>6, <5>1, <5>2
            <4> QED BY <4>1, <4>2
        <3> HIDE DEF LotIds, SaleIds
        <3>8. LotsNotOverdrawn'
            BY <3>1, <3>4 DEF LotsNotOverdrawn
        <3>9. SumFunction([l \in lots' |-> Left(disposals', l, MaxTime)])
                = Opening + SumFunction(position')
            <4> DEFINE a == SumFunction([l \in lots |-> Left(disposals, l, MaxTime)])
                       b == SumFunction([l \in lots' |-> Left(disposals', l, MaxTime)])
            <4>1. b = a - q
                BY <3>1, <3>4
            <4>2. a = Opening + SumFunction(position)
                BY <1>0
            <4> HIDE DEF a, b
            <4>3. b = Opening + SumFunction(position')
                BY <1>t, <2>3, <2>4, <3>5, <4>1, <4>2
            <4> QED BY <4>3 DEF b
        <3>10. FirstInFirstOut'
            BY <3>1, <3>4 DEF FirstInFirstOut, Oldest
        <3>11. LotRows(lots') /\ DisposalRows(lots', disposals')
            BY <1>0, <3>1, <3>4
        <3> QED BY <3>7, <3>8, <3>9, <3>10, <3>11
                DEF LotInv, LotIds, SaleIds, LotsSound, LotsMatchPosition, Holding
    <2> QED BY <1>2, <2>5, <2>6
<1> HIDE DEF LotIds, SaleIds
<1> QED BY <1>1, <1>2, LotMoves

(* While the executions of the account are applied in the order in which   *)
(* they were observed, the tax lots hold the position, no lot is sold more *)
(* than once, and the lots of an earlier day are sold first                *)
(* (ledger/posting.py with ledger/tax_lots.py), for any number of orders   *)
(* and partial fills.                                                      *)
THEOREM LotsStaySound == Spec /\ [][PostedInOrder]_vars => []LotsSound
<1>1. Init => LotInv
    BY LotsInit
<1>2. Inv /\ LotInv /\ [Next]_vars /\ [PostedInOrder]_vars => LotInv'
    BY LotsStep
<1>3. LotInv => LotsSound
    BY DEF LotInv
<1> QED BY <1>1, <1>2, <1>3, LedgerInvariant, PTL DEF Spec
=============================================================================

------------------------------ MODULE Foundation ------------------------------
(* Snapshot runs of the Toss account (toss_trading/account/foundation.py) by  *)
(* processes that share one ledger database, each with its own read-only      *)
(* client (toss_trading/broker/toss.py), and the replay of a complete run     *)
(* into a new database (toss_trading/account/replay.py).                      *)
(*                                                                            *)
(* Every commit of the ledger is a step of its own; so is every HTTP request. *)
(* A request for something other than orders is stored and normalized in one  *)
(* step: nothing reads what lies between.                                     *)
EXTENDS AccountLedger

CONSTANTS
    Procs,             \* processes that take snapshots
    Named,             \* processes whose account_seq is configured or given
    IncludeClosed,     \* include_closed_orders
    MaxPages,          \* max_order_pages
    MaxDetails,        \* max_order_details
    MaxRetries,        \* retries of a GET answered with 429
    MaxReports,        \* bound: changes of an order at the broker
    MaxFaults          \* bound: crashes, refusals and lost tokens

ASSUME FoundationAssumption ==
    Named \subseteq Procs
    /\ {IncludeClosed} \subseteq BOOLEAN
    /\ {MaxPages, MaxDetails, MaxRetries, MaxReports, MaxFaults} \subseteq Nat

VARIABLES
    broker,      \* what the broker would report of each order
    db,          \* the ledger database
    status,      \* snapshot_run.status of each run, "none" before it begins
    proc,        \* each process: its run, step, the responses in hand, and how
                 \* many reports of the first are stored
    token,       \* the access token each client caches
    explained,   \* the blockers that each finished run reported
    replica,     \* the database a replay of each run built
    changes, faults

foundationVars == <<broker, db, status, proc, token, explained, replica, changes, faults>>

NoReplica == [built |-> FALSE]
Idle == [step |-> "idle", run |-> 0, stage |-> "request", todo |-> <<>>, pages |-> <<>>,
         listed |-> [open |-> <<>>, closed |-> <<>>], prev |-> NoSnapshot, stored |-> 0,
         tries |-> 0]

FoundationInit ==
    /\ \E placed \in SUBSET Orders : broker =
          [o \in Orders |-> [qty |-> 0, fee |-> 0, open |-> TRUE, settle |-> 1,
                             placed |-> o \in placed]]
    /\ db = EmptyTables
    /\ status = [r \in Runs |-> "none"]
    /\ proc = [p \in Procs |-> Idle]
    /\ token = [p \in Procs |-> "none"]
    /\ explained = [r \in Runs |-> {}]
    /\ replica = [r \in Runs |-> NoReplica]
    /\ changes = 0 /\ faults = 0

-------------------------------------------------------------------------------
(* The broker, outside the repository: an order is placed, then come fills, a *)
(* corrected fee, which may go down, a corrected settlement date, and the end *)
(* of the order.                                                              *)
PlaceOrder(o) ==
    /\ ~broker[o].placed
    /\ broker' = [broker EXCEPT ![o].placed = TRUE]
    /\ UNCHANGED <<db, status, proc, token, explained, replica, changes, faults>>

BrokerReports(o) ==
    /\ broker[o].placed /\ changes < MaxReports
    /\ changes' = changes + 1
    /\ \/ /\ broker[o].open
          /\ \E fill \in 0..1, open \in BOOLEAN :
               /\ fill = 1 \/ ~open
               /\ broker' = [broker EXCEPT ![o].qty = @ + fill, ![o].fee = @ + fill,
                                           ![o].open = open]
       \/ /\ broker[o].fee > 0
          /\ broker' = [broker EXCEPT ![o].fee = @ - 1]
       \/ broker' = [broker EXCEPT ![o].settle = 3 - @]
    /\ UNCHANGED <<db, status, proc, token, explained, replica, faults>>

(* An order without fills may be reported without amounts.                    *)
Silences == SUBSET {o \in Orders : broker[o].qty = 0}
Report(o, silent) ==
    [order |-> o, qty |-> broker[o].qty, fee |-> broker[o].fee, counted |-> o \notin silent,
     status |-> IF broker[o].open THEN "OPEN" ELSE "CLOSED", settle |-> broker[o].settle]
(* The orders that are open, or closed, and were on no earlier page.          *)
Listing(open, pages, silent) ==
    LET seen == UNION {{page[i].order : i \in DOMAIN page} : page \in ToSet(pages)}
    IN  SetToSeq({Report(o, silent) :
                     o \in {x \in Orders \ seen : broker[x].placed /\ broker[x].open = open}})

-------------------------------------------------------------------------------
(* The steps of snapshot(), in order, and the requests of each. *)

Currencies == SetToSeq(Asked)

(* The ids of the closed, then of the open orders, without repetition.        *)
DetailOrders(listed) ==
    LET ids == listed.closed \o listed.open
        distinct[n \in 0 .. Len(ids)] ==
            IF n = 0 THEN <<>>
            ELSE IF ids[n] \in ToSet(distinct[n - 1]) THEN distinct[n - 1]
            ELSE Append(distinct[n - 1], ids[n])
        all == distinct[Len(ids)]
    IN  SubSeq(all, 1, IF Len(all) < MaxDetails THEN Len(all) ELSE MaxDetails)

(* Requests(step, listed): what each request of a step asks for.              *)
Requests(step, listed) ==
    CASE step = "details" -> DetailOrders(listed)
      [] step = "buying-power" -> Currencies
      [] step = "sellable-quantity" -> SetToSeq(DOMAIN Holdings)
      [] step \in {"post", "finish"} -> <<>>
      [] OTHER -> <<"">>

(* The step after one; details or sellable quantities may have nothing to ask. *)
StepAfter(step, listed) ==
    LET nonempty(next, after) == IF Requests(next, listed) = <<>> THEN after ELSE next
    IN CASE step = "accounts" -> "holdings"
         [] step = "holdings" -> "orders-open"
         [] step = "orders-open" /\ IncludeClosed -> "orders-closed"
         [] step = "orders-open" /\ ~IncludeClosed -> nonempty("details", "buying-power")
         [] step = "orders-closed" -> nonempty("details", "buying-power")
         [] step = "details" -> "buying-power"
         [] step = "buying-power" -> "commissions"
         [] step = "commissions" -> nonempty("sellable-quantity", "post")
         [] step = "sellable-quantity" -> "post"

Enter(p, step, listed) ==
    [Idle EXCEPT !.run = proc[p].run, !.step = step, !.listed = listed,
                 !.todo = Requests(step, listed)]
(* The process once the request in hand is done with. *)
Done(p) ==
    LET rest == Tail(proc[p].todo)
    IN IF rest # <<>> THEN [proc[p] EXCEPT !.todo = rest, !.stage = "request", !.pages = <<>>,
                                           !.stored = 0, !.tries = 0]
       ELSE Enter(p, StepAfter(proc[p].step, proc[p].listed), proc[p].listed)

(* begin_snapshot_run *)
Begin(p) ==
    /\ proc[p].step = "idle"
    /\ \E r \in Runs :
         /\ status[r] = "none" /\ \A q \in Runs : q < r => status[q] # "none"
         /\ status' = [status EXCEPT ![r] = "RUNNING"]
         /\ proc' = [proc EXCEPT ![p] = [Idle EXCEPT !.run = r, !.step = "accounts",
                                                     !.todo = <<"">>]]
    /\ UNCHANGED <<broker, db, token, explained, replica, changes, faults>>

(* Any exception: fail_snapshot_run moves a RUNNING run only. *)
FailRun(p) ==
    /\ status' = [status EXCEPT ![proc[p].run] = IF @ = "RUNNING" THEN "FAILED" ELSE @]
    /\ proc' = [proc EXCEPT ![p] = Idle]
    /\ UNCHANGED <<broker, explained, replica, changes>>

-------------------------------------------------------------------------------
(* The client *)

Waiting(p) == proc[p].stage = "request" /\ proc[p].todo # <<>>

(* refresh_token forgets the cached token before it asks for a new one, which *)
(* may end the tokens of other clients at the provider.  Without a usable one *)
(* the run fails.                                                             *)
RefreshToken(p) ==
    /\ Waiting(p)
    /\ token[p] = "none"
    /\ \E ended \in {Q \in SUBSET (Procs \ {p}) : faults + Cardinality(Q) <= MaxFaults} :
         /\ token' = [q \in Procs |-> IF q = p THEN "live"
                                      ELSE IF q \in ended /\ token[q] = "live" THEN "dead"
                                      ELSE token[q]]
         /\ faults' = faults + Cardinality(ended)
    /\ db' = SaveRaw(db, proc[p].run, "token", TRUE, <<>>)
    /\ UNCHANGED <<broker, status, proc, explained, replica, changes>>

TokenRefused(p) ==
    /\ Waiting(p)
    /\ token[p] = "none" /\ faults < MaxFaults
    /\ faults' = faults + 1
    /\ \/ db' = db
       \/ \E ok \in BOOLEAN : db' = SaveRaw(db, proc[p].run, "token", ok, <<>>)
    /\ FailRun(p)
    /\ UNCHANGED token

(* The cached token reaches its expiry margin. *)
TokenExpires(p) ==
    /\ token[p] # "none" /\ faults < MaxFaults
    /\ token' = [token EXCEPT ![p] = "none"]
    /\ faults' = faults + 1
    /\ UNCHANGED <<broker, db, status, proc, explained, replica, changes>>

(* A bug: the answer that is retried is stored as well. *)
RetryLaterStored(p) ==
    /\ Waiting(p) /\ token[p] = "live"
    /\ proc[p].tries < MaxRetries /\ faults < MaxFaults
    /\ faults' = faults + 1
    /\ db' = SaveRaw(db, proc[p].run, proc[p].step, FALSE, <<>>)
    /\ proc' = [proc EXCEPT ![p].tries = @ + 1]
    /\ UNCHANGED <<broker, status, token, explained, replica, changes>>
(* _send waits out a 429 and asks again; only the last answer is stored. *)
RetryLater(p) ==
    /\ Waiting(p) /\ token[p] = "live"
    /\ proc[p].tries < MaxRetries /\ faults < MaxFaults
    /\ faults' = faults + 1
    /\ proc' = [proc EXCEPT ![p].tries = @ + 1]
    /\ UNCHANGED <<broker, db, status, token, explained, replica, changes>>

(* An answer of 400 or more is stored and raised. *)
Refuse(p) ==
    /\ Waiting(p) /\ token[p] # "none"
    /\ token[p] = "live" => faults < MaxFaults
    /\ faults' = IF token[p] = "live" THEN faults + 1 ELSE faults
    /\ db' = SaveRaw(db, proc[p].run, proc[p].step, FALSE, <<>>)
    /\ FailRun(p)
    /\ UNCHANGED token

(* No answer, an answer outside the contract (require_accounts, orders_page,  *)
(* order_detail ...), or a cursor that repeats.                               *)
Unusable(p) ==
    /\ Waiting(p) /\ faults < MaxFaults
    /\ faults' = faults + 1
    /\ \/ db' = db
       \/ token[p] = "live" /\ db' = SaveRaw(db, proc[p].run, proc[p].step, TRUE, <<>>)
    /\ FailRun(p)
    /\ UNCHANGED token

Normalized(d, run, step, argument) ==
    CASE step = "accounts" -> IngestAccounts(d, run)
      [] step = "holdings" -> IngestHoldings(d, run)
      [] step = "buying-power" -> IngestBuyingPower(d, run, argument)
      [] step = "commissions" -> IngestCommissions(d, run)
      [] step = "sellable-quantity" -> IngestSellableQuantity(d, run, argument)

(* The accounts of the user.  Which of several a run is about must be named;  *)
(* the answer is stored before that is found missing.                         *)
AnswerAccounts(p) ==
    /\ Waiting(p) /\ token[p] = "live" /\ proc[p].step = "accounts"
    /\ \E several \in BOOLEAN :
         /\ db' = IngestAccounts(SaveRaw(db, proc[p].run, "accounts", TRUE, several), proc[p].run)
         /\ IF several /\ p \notin Named THEN FailRun(p)
            ELSE proc' = [proc EXCEPT ![p] = Done(p)]
                 /\ UNCHANGED <<broker, status, explained, replica, changes>>
    /\ UNCHANGED <<token, faults>>

Answer(p) ==
    /\ Waiting(p) /\ token[p] = "live"
    /\ proc[p].step \notin {"accounts", "orders-open", "orders-closed", "details"}
    /\ LET x == proc[p]
           body == IF x.step \in {"buying-power", "sellable-quantity"} THEN Head(x.todo) ELSE ""
       IN /\ db' = Normalized(SaveRaw(db, x.run, x.step, TRUE, body), x.run, x.step, body)
          /\ proc' = [proc EXCEPT ![p] = Done(p)]
    /\ UNCHANGED <<broker, status, token, explained, replica, changes, faults>>

(* The pages of a listing are all fetched before the first is ingested; an    *)
(* order may move while they are.                                             *)
FetchPage(p) ==
    /\ Waiting(p) /\ token[p] = "live"
    /\ proc[p].step \in {"orders-open", "orders-closed"}
    /\ \E silent \in Silences :
       LET x == proc[p]
           left == Listing(x.step = "orders-open", x.pages, silent)
       IN \E n \in 0..Len(left) :
            LET page == SubSeq(left, 1, n)
                last == n = Len(left)
            IN /\ last \/ x.step = "orders-closed"
               /\ db' = SaveRaw(db, x.run, x.step, TRUE, page)
               /\ \/ /\ last
                     /\ proc' = [proc EXCEPT ![p].pages = Append(@, page), ![p].stage = "orders"]
                     /\ UNCHANGED <<status, explained, replica, changes, broker>>
                  \/ /\ ~last /\ Len(x.pages) + 1 < MaxPages
                     /\ proc' = [proc EXCEPT ![p].pages = Append(@, page)]
                     /\ UNCHANGED <<status, explained, replica, changes, broker>>
                  \/ ~last /\ Len(x.pages) + 1 = MaxPages /\ FailRun(p)
    /\ UNCHANGED <<token, faults>>

FetchDetail(p) ==
    /\ Waiting(p) /\ token[p] = "live" /\ proc[p].step = "details"
    /\ \E silent \in Silences :
       LET page == <<Report(Head(proc[p].todo), silent)>>
       IN /\ db' = SaveRaw(db, proc[p].run, "details", TRUE, page)
          /\ proc' = [proc EXCEPT ![p].pages = <<page>>, ![p].stage = "orders"]
    /\ UNCHANGED <<broker, status, token, explained, replica, changes, faults>>

-------------------------------------------------------------------------------
(* The pages in hand *)

(* The next page, or the end of the request. *)
PageDone(p) ==
    LET x == proc[p]
        page == Head(x.pages)
        ids == [i \in DOMAIN page |-> page[i].order]
        listed == CASE x.step = "orders-open" -> [x.listed EXCEPT !.open = @ \o ids]
                    [] x.step = "orders-closed" -> [x.listed EXCEPT !.closed = @ \o ids]
                    [] OTHER -> x.listed
    IN IF Len(x.pages) > 1
       THEN [x EXCEPT !.pages = Tail(@), !.stage = "orders", !.stored = 0, !.listed = listed]
       ELSE IF x.step = "details" THEN Done(p)
       ELSE Enter(p, StepAfter(x.step, listed), listed)

StoreOrders(p) ==
    /\ proc[p].stage = "orders"
    /\ db' = IngestOrders(db, proc[p].run, Head(proc[p].pages))
    /\ proc' = [proc EXCEPT ![p] = IF Head(proc[p].pages) = <<>> THEN PageDone(p)
                                   ELSE [proc[p] EXCEPT !.stage = "previous"]]
    /\ UNCHANGED <<broker, status, token, explained, replica, changes, faults>>

(* A bug: after a commit in mid-page the first report is looked up again. *)
FirstReport(x) == Head(x.pages)[1]
NextReport(x) == Head(x.pages)[x.stored + 1]

(* The SELECT of the previous snapshot runs outside the transaction that the  *)
(* INSERT begins.                                                             *)
ReadPrevious(p) ==
    /\ proc[p].stage = "previous"
    /\ proc' = [proc EXCEPT ![p].prev = Previous(db, NextReport(proc[p]).order),
                            ![p].stage = "write"]
    /\ UNCHANGED <<broker, db, status, token, explained, replica, changes, faults>>

(* The reports of one transaction.  What follows a block, or a report that is *)
(* passed over, is compared with a row that is read outside one again.        *)
StoreExecutions(p) ==
    /\ proc[p].stage = "write"
    /\ LET x == proc[p]
           left == SubSeq(Head(x.pages), x.stored + 1, Len(Head(x.pages)))
           n == Transaction(db, x.run, x.prev, left)
       IN \/ /\ Collides(db, x.run, x.prev, left[1])
             /\ FailRun(p)
             /\ UNCHANGED <<db, token, faults>>
          \/ /\ ~Collides(db, x.run, x.prev, left[1])
             /\ db' = IngestExecutions(db, x.run, x.prev, SubSeq(left, 1, n))
             /\ proc' = [proc EXCEPT ![p] = IF n = Len(left) THEN PageDone(p)
                           ELSE [x EXCEPT !.stored = @ + n, !.stage = "previous"]]
             /\ UNCHANGED <<broker, status, token, explained, replica, changes, faults>>

-------------------------------------------------------------------------------
(* The end of a run *)

(* A bug: only the deltas of this run are posted. *)
PostOwnCash(p) ==
    /\ proc[p].step = "post"
    /\ db' = PostCash(db, proc[p].run, FALSE)
    /\ proc' = [proc EXCEPT ![p].step = "finish"]
    /\ UNCHANGED <<broker, status, token, explained, replica, changes, faults>>
(* Deltas of every run of the account: those of a run that failed after it    *)
(* stored a fill included.                                                    *)
PostAllCash(p) ==
    /\ proc[p].step = "post"
    /\ Postable(db)
    /\ db' = PostCash(db, proc[p].run, TRUE)
    /\ proc' = [proc EXCEPT ![p].step = "finish"]
    /\ UNCHANGED <<broker, status, token, explained, replica, changes, faults>>

(* finish_snapshot_run, and the explanation that snapshot() returns. *)
Finish(p) ==
    /\ proc[p].step = "finish"
    /\ status[proc[p].run] = "RUNNING"
    /\ status' = [status EXCEPT ![proc[p].run] = "COMPLETE"]
    /\ explained' = [explained EXCEPT ![proc[p].run] = Blockers(db, proc[p].run)]
    /\ proc' = [proc EXCEPT ![p] = Idle]
    /\ UNCHANGED <<broker, db, token, replica, changes, faults>>

(* The process dies and is started again; nothing marks its run. *)
Crash(p) ==
    /\ proc[p].step # "idle" /\ faults < MaxFaults
    /\ faults' = faults + 1
    /\ proc' = [proc EXCEPT ![p] = Idle]
    /\ token' = [token EXCEPT ![p] = "none"]
    /\ UNCHANGED <<broker, db, status, explained, replica, changes>>

(* An operator closes a block after looking at the order. *)
Resolve(i) ==
    /\ i \in DOMAIN db.blocks /\ ~db.blocks[i].resolved
    /\ db' = ResolveBlock(db, i)
    /\ UNCHANGED <<broker, status, proc, token, explained, replica, changes, faults>>

-------------------------------------------------------------------------------
(* replay_foundation_run *)

(* One stored response, dispatched by its path into the fresh database d. *)
ReplayRow(d, r, row) ==
    LET saved == SaveRaw(d, r, row.endpoint, TRUE, row.body)
        stored == IngestOrders(saved, r, row.body)
    IN IF row.endpoint = "token" THEN saved
       ELSE IF row.endpoint \in {"orders-open", "orders-closed", "details"}
       THEN IF row.body = <<>> THEN stored
            ELSE IngestExecutions(stored, r, Previous(stored, row.body[1].order), row.body)
       ELSE Normalized(saved, r, row.endpoint, row.body)

(* A fresh database after all the stored responses of a run.                  *)
Rebuilt(r) ==
    LET rows == db.raw[r]
        after[n \in 0 .. Len(rows)] ==
            IF n = 0 THEN EmptyTables ELSE ReplayRow(after[n - 1], r, rows[n])
    IN  after[Len(rows)]

(* Which account the responses are about can no longer be told when there     *)
(* were several: their keys are not stored (_accounts_for_bound_run).         *)
OneAccount(r) == \A i \in DOMAIN db.raw[r] :
                    db.raw[r][i].endpoint = "accounts" => ~db.raw[r][i].body

(* Only a complete run, only successful responses, only into a new database;  *)
(* a failure leaves no database behind.                                       *)
Replay(r) ==
    /\ status[r] = "COMPLETE"
    /\ ~replica[r].built
    /\ OneAccount(r) /\ \A i \in DOMAIN db.raw[r] : db.raw[r][i].ok
    /\ replica' = [replica EXCEPT ![r] = [built |-> TRUE,
                                         tables |-> PostCash(Rebuilt(r), r, FALSE)]]
    /\ UNCHANGED <<broker, db, status, proc, token, explained, changes, faults>>

-------------------------------------------------------------------------------
ProcNext(p) ==
    \/ Begin(p) \/ RefreshToken(p) \/ TokenRefused(p) \/ TokenExpires(p) \/ RetryLater(p)
    \/ Refuse(p) \/ Unusable(p) \/ AnswerAccounts(p) \/ Answer(p) \/ FetchPage(p) \/ FetchDetail(p)
    \/ StoreOrders(p) \/ ReadPrevious(p) \/ StoreExecutions(p)
    \/ PostAllCash(p) \/ Finish(p) \/ Crash(p)

FoundationNext ==
    \/ \E o \in Orders : PlaceOrder(o) \/ BrokerReports(o)
    \/ \E p \in Procs : ProcNext(p)
    \/ \E i \in DOMAIN db.blocks : Resolve(i)
    \/ \E r \in Runs : Replay(r)

FoundationSpec == FoundationInit /\ [][FoundationNext]_foundationVars

-------------------------------------------------------------------------------
Complete == {r \in Runs : status[r] = "COMPLETE"}
Reports(r) == UNION {ToSet(db.raw[r][i].body) : i \in {j \in DOMAIN db.raw[r] :
                db.raw[r][j].endpoint \in {"orders-open", "orders-closed", "details"}}}

(* The execution log of an order is one chain: every snapshot succeeds the    *)
(* one stored before it and every delta leads from a snapshot to its only     *)
(* successor, so that the deltas add up to the last cumulative report whoever *)
(* stored it.  ingest_execution_snapshots compares with a row read before its *)
(* transaction.                                                               *)
Telescopes(d, o) ==
    LET steps == {i \in DOMAIN d.deltas : d.deltas[i].order = o} IN
    /\ \A i \in Chain(d, o) :
          LET before == {j \in Chain(d, o) : j < i}
          IN  d.snaps[i].seq = 1 + IF before = {} THEN 0 ELSE d.snaps[Latest(before)].seq
    /\ SumFunctionOnSet([i \in steps |-> d.deltas[i].qty], steps) = Previous(d, o).qty
    /\ SumFunctionOnSet([i \in steps |-> d.deltas[i].fee], steps) = Previous(d, o).fee
ChainTelescopes == \A o \in Orders : Telescopes(db, o)

(* A complete run leaves no cash gap: its own deltas are in the cash ledger   *)
(* with the settlement date it reported last, and so is every delta that was  *)
(* stored before one already posted, such as that of a run that failed or     *)
(* died between the fill and the posting.                                     *)
CompleteLeavesNoGap ==
    /\ \A i \in CashGaps(db) : status[db.deltas[i].run] # "COMPLETE"
    /\ \A c \in db.cash : \A i \in 1..c.delta :
         {e.type : e \in Expected(db.deltas[i])} = {d.type : d \in {x \in db.cash : x.delta = i}}

(* No amounts that a complete run was told are lost: they are a snapshot of   *)
(* that run, or the order has a block for an operator to look at.  A report   *)
(* without amounts leaves nothing (ledger.py:1001).                           *)
ReportsAreKept ==
    \A r \in Complete : \A report \in {x \in Reports(r) : x.counted} :
        \/ \E i \in DOMAIN db.snaps : db.snaps[i].run = r /\ db.snaps[i].order = report.order
        \/ \E i \in DOMAIN db.blocks : db.blocks[i].order = report.order

(* What the broker reported about fills is on file once: added up without     *)
(* gaps or doubles, and with nothing dropped in silence, whichever of two     *)
(* processes stored its report first.                                         *)
ReportsAddUp == ChainTelescopes /\ ReportsAreKept

(* A run is marked complete only with everything explain_account_state needs: *)
(* all that can be wrong with the explanation that snapshot() returns is a    *)
(* holding for which the broker stated no currency.                           *)
Unvalued == {<<"invalid_normalized_holding_value", s>> :
                s \in {h \in DOMAIN Holdings : Holdings[h] = NoCurrency}}
CompleteIsExplained == \A r \in Complete : explained[r] \subseteq Unvalued

(* COMPLETE means complete: the cash of every fill up to the run is posted,   *)
(* whoever died before, and the account state has an explanation.             *)
CompleteMeansComplete == CompleteLeavesNoGap /\ CompleteIsExplained

(* A complete run has stored nothing but successful responses, which a replay *)
(* insists on, and a replay ends where the run ended unless a report of the   *)
(* order was blocked.  A run about one of several accounts is never replayed. *)
ReplayAgrees ==
    \A r \in Complete :
        /\ \A i \in DOMAIN db.raw[r] : db.raw[r][i].ok
        /\ replica[r].built => \A o \in Orders :
             LET own == {i \in Chain(db, o) : db.snaps[i].run = r}
             IN (own # {} /\ \A i \in DOMAIN db.blocks : db.blocks[i].order # o)
                => /\ Previous(replica[r].tables, o).qty = db.snaps[Latest(own)].qty
                   /\ Previous(replica[r].tables, o).fee = db.snaps[Latest(own)].fee
                   /\ CashGaps(replica[r].tables) = {}
===============================================================================

# A TLA+ model of toss-trading-core

Two Python packages share one repository: `asset_management` (the accounting, decision and
execution core, `src/src/asset_management`) and `toss_trading` (the older Toss adapter, its account
ledger and the research automation, `src/src/toss_trading`), with `alpha_management` as a small
expression language for signals.  Nothing in the repository may place a live order by itself: the
broker transport is injected.  What the code promises is therefore about records: that an order is
sent at most once, that what the broker reports is booked exactly once, that a ledger can be
replayed, that evidence is newer than the decision it supports.

## The system and its parts

| part | state it keeps | operations | what is hard about it |
|---|---|---|---|
| submission journal (`execution/submission.py`) | SQLite rows `submission`, append-only `submission_audit` | `submit_once`, `mark_ambiguous`, `recover` | processes that die between commit and transport, retries, reads outside a transaction, an authority that changes while it is read |
| rate limiter (`broker/rate_limit.py`, copied in `toss_trading/runtime`) | tokens, capacity, `updated_at`; a heap of waiting threads | `acquire`, `try_acquire`, `update_from_headers` | a condition variable, priorities, timeouts, exceptions in a wait |
| paper broker (`execution/paper.py`) | one JSON row per account | `initialize`, `submit_order`, `cancel_order`, `record_fill` | reservations against partial fills, fees, cancels |
| order states and executions (`account/orders.py`, `account/executions.py`) | append-only events, cumulative snapshots and their deltas | `append`, `append_broker_state` | redelivery, duplicates, late and unknown reports |
| observation and posting (`execution/fills.py`, `ledger/posting.py`) | posting links, cash and position rows | `observe`, `recover_submission_timeout`, `post` | several tables in one savepoint, retries with another context |
| cash, positions, tax lots (`ledger/cash.py`, `positions.py`, `tax_lots.py`) | openings, events, reservations, lots, disposals | `reserve_*`, `acquire`, `dispose_fifo`, `state` | as-of reads against rows that arrive late |
| replay and reconciliation (`ledger/replay.py`, `reconciliation.py`, `provider_accounting_snapshot.py`) | reconciliation runs, items, issues, resolutions | `rebuild`, `reconcile`, `resolve` | a verdict over evidence that keeps arriving |
| Toss account ledger (`toss_trading/account`, `toss_trading/broker`) | one SQLite file with schema versions, raw responses, order snapshots, deltas, cash events; a token cache | open and migrate, take a snapshot, replay a run; token refresh, GET with retry, pages | two processes on one file, a read before the transaction that uses it, a run that dies half-way, a token that expires during a request, 429 |
| decisions (`decisions/`, `orchestration/`) | decision journal, overrides | kernel, governor, overrides | gates in a fixed order, expiry of approvals |
| governance (`governance/`) | model and strategy registries, mandates | register, promote, retire, attest | life cycles with dual control |
| dataset store (`data/immutable.py`, `phase9.py`, `alfred*.py`) | content-addressed blobs, manifests, requests, captures; source health | publish, collect the plan, price context, ALFRED ingestion, audit | crash between blob and manifest, damaged files, claims that a child inherits from its parents |
| observations (`data/repositories.py`, `raw_store.py`, `asof_query.py`) | append-only rows with revisions, raw responses | append, latest and series at a cutoff | late revisions, two rows that claim to be the newest |
| analytics (`signals`, `features`, `states`, `expectations`, `risk`, `portfolio`, `pricing`, `calculations`, `validation`) | none or append-only results | pure functions over evidence | numeric edges, look-ahead |
| research backtests (`research/backtest.py`) | none; bars and vintages as collected | momentum, factor and macro strategies, walk-forward folds | look-ahead, dates that are recognised in hindsight |
| research automation (`research/hypotheses.py`, `candidate_evaluation.py`, `prospective.py`, `automation.py`, the run script) | hypothesis ledger, observations, completion markers, latest links | plan, screen, evaluate, report, interpret, upload, mail | runs abandoned anywhere, a sealed holdout, a budget of trials |
| research data lake (`research/data_lake.py`, `providers.py`) | content-addressed raw and normalised files, manifests | ingest, verify | crash between two files, repetition |
| dossiers and recommendations (`research/variant_perception.py`, `stock_recommendations.py`) | frozen dossier files, the latest recommendations | build, freeze, validate, screen, recommend | a long validator that derives again what the builder derived; several files of one symbol |

They interact in one direction.  A decision becomes a planned order intent; the journal claims it and
calls the transport; the read-only sync stores raw responses and feeds `observe`, which appends order
states and executions and posts their difference to cash, positions and lots; reconciliation compares
the ledgers with a broker snapshot; and `recover` clears an ambiguous submission only when the newest
order event, a clean reconciliation and, for a fill, a posting agree.  The stores and the research stand
beside this line: they write evidence (datasets, observations, experiment records, dossiers) that the
pipeline's artifacts cite and that nothing writes back to.

## Modules

| module | models | state |
|---|---|---|
| `Submission` | the journal and the processes that call it | `row`, `started`, `state`, `audit` are the two tables; `pc`, `job`, `seen` the local variables of each call; `event`, `recon`, `issues`, `posted` the authority it reads |
| `OnceOnly` | what a caller may rely on: each economic order goes new, open, settled and is sent at most once | `phase`, `sent` |
| `TokenBucket`, `PriorityBucket` | the bucket and the priority queue around it | `tokens`, `capacity`, `lag`; `queue` is the heap, `pc`/`due`/`notified` the threads and the condition variable |
| `PaperBroker` | the paper account | `cash`, `positions`, `orders`, `fills` as in the JSON row |
| `OrderStates` | the status map and the transition table | none |
| `TaxLots` | as-of lots and FIFO disposal | none |
| `OrderLedger` | observation, executions, posting, reservations, lots of one account and instrument | `log`, `snaps`, `posted`, `res`, `lots`, `disposals` are the append-only tables; `cash`, `position` the sums of the posted rows |
| `AccountFacts` | how a broker snapshot and the ledgers are turned into comparable facts, and the comparison under a tolerance policy | none |
| `Reconciliation` | `reconcile`, `resolve_issue`, `trade_gate` read by read, `authorize_order_intent` and the order-intent trigger of migration 0009 | `snaps`, `registered`, `runs`, `resolved`, `auth`, `intents` are the tables; `job` is what each call has read and not yet written |
| `Pipeline` | the eight stages of a run, the triggers of migration 0010, the assembler of the canonical request, runtime adapters and the parity ledger | `created`, `stages`, `intents`, `ledger`; `task` is what each call has read; the artifact tables are constants |
| `ModelGovernance` | the model registry, review evidence, published snapshots, the selection of a run and the tokens that calculations carry; extends `Pipeline` | `registry`, `reviews`, `snapshots`, `selected`, `tokens`, `calculations` |
| `AccountLedger`, `Foundation` | the tables of the Toss account ledger and their statements; snapshot runs of several processes, each with its client, and the replay of a run into a fresh database | `db` holds the tables; `status`, `explained` the run rows; `proc` what each process has fetched and not yet written; `token` its cache; `broker` what would be answered; `replica` the replayed databases |
| `LedgerSchema` | the migrations that every process runs when it opens that file, with the backfill of version 2 and the transaction Python opens for it | `file` is what is committed, `tx` what one process will commit, `opener` where each process is, `restarts` the deaths |
| `Backtest` | the three strategies, the loop over dates, trades and walk-forward folds | `bars`, `vintages`, `today` are the stored data; `config`, `result` the last backtest |
| `Hypotheses`, `ResearchRun` | the hypothesis ledger as operators on one value; the steps of one automation run after the other | `ledger`, `collections`, `latest` are the files; `run` the run in progress with the execution costs it has loaded; `vendor`, `day` the world |
| `DataLake` | ingests into the lake of one run, and its checks | `objects`, `manifests` are the files; `ingesting`, `written` an ingest that may die |
| `FocusedDossier` | what the builder demands and derives, and the validator's second derivation, with the order in which the payload lists its open interest | none |
| `StockRecommendations` | the analyst, the dossier directory and the recommendation run | `draft`, `files`, `latest`, `failed`, `today` |
| `Phase9`, `DatasetStore` | the normalizers; the store, the collection plan, price contexts, ALFRED and the audit | `disk`, `bad` are the files and the damaged ones; `job`, `plan` the writers; `health` |
| `Vintages` | the observation table with its triggers, the raw responses and the as-of queries | `observations`, `raws`, `clock` |
| `SumTheorems` | sums over finite sets, and taking an amount from an ordered set in turn | |
| `*Proofs` | the theorems of the module they extend; `AccountProofs` those of `PaperBroker` and `Foundation`, `PipelineProofs` also those of `ModelGovernance` and `StockRecommendations`, `EvidenceProofs` those of `LedgerSchema`, `Vintages`, `Hypotheses`, `ResearchRun`, `DataLake`, `DatasetStore` and `Backtest` | |
| `MC*` | the values of the constants for TLC; `MCFoundation`, `MCGoverned`, `MCOrderLedger`, `MCReconciliation`, `MCResearch` and `MCStores` hold several scenarios, and their variable `part` names the one a behaviour is about; `MCRecommendations` has the payload of the dossiers, for `MCGoverned` and for a run of its own | |

Every BEGIN IMMEDIATE block and every savepoint is one action; every statement outside one that reads what
may still change, or writes, is an action of its own, and what it read is kept in the process's local state
until it is used.  A SELECT by id from a table whose rows never change joins the read that names the id.  A
call that raises changes nothing and is not an action; that a savepoint undoes what a failing statement left
inside it is taken from SQLite.

What the data is abstracted to:

* A content hash or a canonical JSON text is the identity of what it hashes; two hashes are equal when
  the contents are.  Where the code orders by a hash (lots of one day, runs completed at one instant)
  the model orders by an arbitrary rank chosen when the row is made.
* Decimal amounts are small naturals.  Timestamps are ticks of one clock; in `ModelGovernance` a tick is
  a day, because review dates are dates.  An instant the caller passes (`as_of`, `observed_at`,
  `effective_at`) is chosen freely within what the code accepts, and only `started_at`, `completed_at`
  and `authorized_at` are the clock.
* `Pipeline` takes the artifact rows as constants: they are written by other components before the stage
  that names them, and never change.  A run chooses among rows of its own, of another run and of mixed
  lineage.
* `Reconciliation` registers the policy when it is read.  The code commits it a statement earlier or
  later; the model allows the earliest moment, so it has at least the code's interleavings.
* Files that are named by a hash are named by their content; a damaged file is one in `bad`, or one whose
  content differs from its name.
* In the research modules a price is a small number, a return is the weights and the trade that decide it,
  a p-value a count of losing dates, and a text is left out.  In `FocusedDossier` percentages are integers
  over a small base and ratios are compared by cross-multiplication, so no rounding is invented.  Nor is any
  found: the builder and the validator add floats in the order of their rows (`variant_perception.py:3656`,
  `:3706`), and where these sums differ by rounding the model has them equal.
* An order may be placed at the broker, filled, corrected or closed at any time (`Foundation`), and
  `ingested_at` of an observation is the clock at the append, which the code takes from its caller
  (`Vintages`).
* A process may die at any point between two actions (`Crash`, `Die`), and keeps nothing but the tables.

## Runs

Every run finishes in under five minutes.  Deadlock checking is off where bounded counters run out; the
bucket run keeps it on.  A constraint that leaves interleavings out is written and explained in the MC
module.

| run | instance | what it shows |
|---|---|---|
| `submission_once` | two processes, three requests of one account: two client ids of one economic order, and a different order that reuses a client id; three audit rows per client; the authority changes between the reads of its check | nothing is sent twice, or settled without having been delivered; the journal implements `OnceOnly` |
| `submission_recover` | one order, two instants, four audit rows, two processes: two markers with the same or different instants between the reads of a recovery, and events, reconciliations and issues between those of the authority check | a recovered state rests on evidence and on a lookup newer than every marker |
| `bucket` | three threads, two priorities, requests for nothing and for the whole bucket, one header that halves or empties it, one thread that may be thrown out of its wait | no lost wakeup, no oversleeping, no more grants than a bucket of that size allows, every call returns |
| `ledger` | part *chain*: one purchase of 2, reports of 0, 1 and 2, five statuses with one the code does not know, two responses, two posting contexts, own states, reservations at any time, late answers, and timeout lookups that find nothing, an open, a filled or a cancelled order; part *lots*: a purchase and two sales of one instrument with an opening lot, filled in parts, three instants | every reported difference is posted exactly once; `ExecutionsReplay`: the validators of `replay.py` accept the states, executions and postings the writers leave; `LotsSound`: with executions applied in the order they were observed, lots are used oldest first, never beyond their size, and add up to the position |
| `ledger_fill` | the same instance | *violation*: see findings |
| `reconciliation` | part *gate*: two processes, two snapshots of an equal or a different balance, two runs, two runtimes, two instants, the reads of the gate apart; part *facts*: 384 broker payloads against 20 ledger books that differ in quantity, balance or order state | an issue is closed only by newer good evidence; no intent is stored over an unexplained difference; a run without a bad item means that both sides describe the same account, up to the tolerance |
| `governed` | part *stages*: two runs, two callers, mixed lineage, decisions that allow, reduce and block, two runtimes, two kernels; part *models*: one run with cutoff 1 and as-of 2, one active and one unregistered model, six edits, two snapshots, one publisher, two binders; part *dossiers*: the shipped policy, an honest payload and changes an analyst may make to it, open interest with and without ties in two orders, two file names, damage, a legacy file, four days, three markets | no intent without its stages and one that let its target through; an evaluation is one lineage; every published history can be replayed; `CalculationsWarranted`: no calculation rests on an unreviewed, inactive or later-known model; a token is never taken back; `HonestDossierPasses`: what the builder accepts the validator accepts, if a call and a put that tie are listed in the order of the dossier; a buy is supported by the figures it names, damaged or not; the newest verdict of a symbol wins |
| `foundation` | part *runs*: two processes open, migrate and restart on one file, then take two runs of snapshots of an order that is filled, corrected and closed, with reports without amounts, one or several accounts, two pages, one retry, one fault (crash, refusal, lost or refused token); part *page*: one run and two orders on a page, for the transactions that end in mid-page; part *paper*: the paper broker with two instruments, client ids and intents, three fill ids, amounts 1 and 2, fees 0 and 1, up to 6 units of cash | a version claims only what the file has, and the old rows are filled if nobody died; `ReportsAddUp`: the deltas telescope, and each report with amounts that a complete run was told is on file or has a block; `CompleteMeansComplete`: a complete run leaves no fill unposted, and nothing unexplained but the value of a holding without a currency; a complete run about the only account of the user can be replayed and ends where it ended; `AccountIsSound`: reservations stay covered (`Solvent`) and balances are the sum of the fills (`Conserved`); an order's counters agree with its fills |
| `research` | backtests over six dates, with one configuration per strategy kind, price moves, a gap and late vintages; four automation runs, one of them in trouble (abandoned, without the total-return vendor, with higher costs, or weekly) or its evaluation lost, with two families and one hypothesis a week; ingests of one lake that die anywhere | no decision uses data of a later date, and a longer history never rewrites a shorter one; `FutureStaysSealed`, `RevealedOnce`: no window is seen before its verdict, the verdicts on a hypothesis are about one window and a rejection stays one under the same execution costs, and there is one headline; the trial budget holds; `CrashIsHarmless`: a crash leaves the catalogue closed and a repetition heals it |
| `research_reported` | the same runs | *violation*: see findings |
| `recommendations_listed` | the payload with the rows of open interest listed call or put first | *violation*: see findings |
| `stores` | the collection plan of ten datasets with a good answer each and answers that break one demand each, a price context beside it, ALFRED pages plain and captured, one crash or damaged file; three observations of two periods over four instants | `ClaimsHoldForLineage`: availability and licence hold for everything a dataset is made of; `DamageIsFound`: what cannot be read was damaged from outside and the audit names it; `OneValueInForce`: of the vintages of a period one is in force on a day; `OneLastingAnswer`: a query at a past cutoff has one answer, and it stays |

Why the bounds are enough: every hazard of `PROJECT.json` that a property covers needs at most two processes
(three threads in the bucket, so that a priority can displace a sleeping head) and one repetition (a second marker, a second report, a second run, a second snapshot, a second ingest), and each
instance has that repetition plus the wrong order of it.  For each property a mutated definition of the model, kept
next to the definition it replaces and commented as a bug, makes TLC find a violation in the same
instance, so the instance does reach the case the property is about.

**Fairness.**  Only the bucket has a liveness property.  `EveryCallReturns` assumes weak fairness of
`Enter` and `Wake` of every thread and of the clock: the interpreter schedules runnable threads, a
thread that has been notified or whose timeout has passed is runnable, and `time.monotonic` advances.
Calls and header corrections are bounded.  The property names its two exceptions, which the code
really has: a marker left on the heap by an exception in a wait, and a request for more than the
capacity after a header lowered it.

## What is proved

The theorems hold for every value of the constants, given the named assumptions of the modules.  Most only
type the constants (bounds are naturals, tables of constants are functions between the sets they relate,
sets that are summed over are finite; `SettingAssumption` and `FiguresAssumption` say of the recommendations
that days, prices and parsed figures are numbers and lists are finite).  Three say more, and the code
justifies them: the two named `PolicyAssumption` are what `load_research_policy` and
`load_focused_research_policy` demand of their files; `RunAssumption` has the collector ask for every symbol
the policy may trade, as `data/universe.csv` does; `PastAssumption` says that the registry a behaviour starts
from was made by the registry's own operations.  TLC evaluates the assumptions in every run.  Hypotheses
that the code does not enforce are stated in the theorem that needs them, and named below.

* `SubmissionProofs`.  `SubmissionInv` adds to the properties what each in-flight call has read: a
  process that is about to transmit owns the only unresolved claim of its account and has not sent yet;
  the proof carried by a recovery bounds every marker whose sequence number it has seen.  From it follow
  type correctness, at most one send, serial submission per account, the two freshness properties, that
  only a delivered order is resolved, that a send has its claim (`SendIsClaimed`), and that the journal
  implements `OnceOnly` (initial states and steps).  Without the sequence numbers the freshness
  properties are not inductive: a marker with the timestamp of the previous one changes neither state
  nor cutoff.
* `PriorityBucketProofs`.  `QueueInv` adds that markers of different calls differ and that a waiting
  thread's marker is on the heap.  Then the head of the heap is never asleep without a timeout unless
  notified, and until a header comes the bucket grants no more than its size and rate allow.
  `SleepersAreNotLate` needs that the timeout of a sleeper was computed from a level the bucket has at
  least kept (`SleepFits`).
* `AccountProofs`.  Of the paper broker: an order's fills stay within its quantity and fee, FILLED means that nothing
  remains, an intent is stored once (`OneOrderPerIntent`), and a closed order never changes
  (`TerminalIsFinal`).  `AccountInv` joins these with the sums: what live orders hold back is covered
  (`Solvent`), the balances are the opening and the fills (`Conserved`), and an order's counters are its
  fills.  They hold each other up: a fill is paid from what its own order reserved, at a price no worse
  than its limit.
  Of the Toss account ledger (`ReportsAlwaysAddUp`): `FoundationInv` says of every order that the deltas
  add up to its last snapshot and that each snapshot succeeds the one before; of every process what it
  may hold between two statements; and of every run that each report it was told is a snapshot of that run,
  has a block, has no amounts and is passed over, or is still in the hands of its process.  The row a process read before its transaction may
  be stale.  It is then no longer the last, the row built from it has a sequence number that is taken, and
  the UNIQUE constraint of the log refuses it: whatever is stored succeeded the last snapshot.  Two
  processes never hold one run, and a run is complete only when its process holds nothing.
  `LedgerAssumption` says that orders, holdings and configured currencies are finite and that at least one
  currency is configured (the default is USD; with an empty list a run of an account without holdings would
  never ask for a balance, and the explanation would miss it).
  `CompleteIsComplete` adds `CompleteInv`.  The cash ledger holds exactly the events of a prefix of the deltas,
  whichever run stored them, and every delta has an order row of its run (`CashOk`, `DeltasOk`): so posting
  leaves no gap (`PostLeavesNoGap`), and what another run stores later is no gap of this one (`NoGapOn`).  A
  run in progress has on file what the steps it has passed asked for: every currency has its answer or is
  still to be asked, and the orders of the page in hand have their rows (`Ready`).  When it finishes nothing
  blocks its explanation but a holding whose currency the broker did not state.
  `ReplayEndsWhereTheRunDid` compares two histories of an order: the run's own snapshots, with those of other
  runs between them, and what the replay of its responses makes of the same reports without the others;
  a run that saw several accounts is not replayed, because the code refuses to.
  `Agrees` relates them: the order has a block, or neither has anything of the run, or the replay's last
  snapshot has the quantity and fee of the run's last.  It is kept because what is stored of an order never
  goes down along its chain (`AllClimb`): a report that repeats or succeeds the last snapshot of all cannot
  regress against the last one of the run.  A report is passed over as a repeat only of a snapshot of its own
  run, so whether the replay passes over it too or stores it, both have the same figures last.  `InStep` says
  it of a run in progress: its stored responses but the pages still in hand, replayed, end where the run
  has come to, and all of them are successes; `Reads`, that a process about to write has read a row since which its run stored
  nothing.  The replay has only deltas of its run, so posting them posts all (`PostOnly`).
* `OrderLedgerProofs`.  The invariant `Balanced` telescopes the snapshot chain: what is posted is the
  difference between the last report and nothing, one link per snapshot.  From it: type correctness, the
  ledger equals the reports, a final state is final (`FinalIsFinal`), and the validators of states,
  executions and postings accept what is stored (`ExecutionsCanBeReplayed`), whatever the callers do and a
  timeout lookup answers; replay's rule about reservations is no part of it, because the writers break it (see
  the observations).  `LotsStaySound` assumes that executions are applied in the order they
  were observed (`PostedInOrder`), which the code does not enforce.  The lots need that what a sale takes in turn adds up
  to the sale (`Waterfall` in `SumTheorems`), and that as-of views are complete when nothing is late.
* `ReconciliationProofs`.  The invariant joins the tables' types, what each call in flight has read
  (`JobsOK`: what it read is still there, because tables only grow), one policy per version, and the four
  properties, among them one verdict per snapshot and policy version (`OneVerdict`) and `StatusIsHonest`.
  `AgreementTheorem` (`CleanMeansAgreement`) adds that every run and every call in flight holds the
  comparison of the snapshot and the book it names (`Compared`).  What a clean comparison means is a chain
  of lemmas on `AccountFacts`: a good item has a fact on each side (`Partner`), facts meet target by target
  (`PartsMeet`), and the lists of facts are read back into holdings, money, open orders, states and
  executions.  It assumes of the constants that quantities are integers and that the rows of one list have
  distinct identities: two open rows of one order that state a term are refused by `_fact_map`.
* `PipelineProofs`.  The invariant joins that every stage row still resolves, what calls in flight hold,
  and the properties.  The argument is again that tables only grow: a stage that resolved still
  resolves, so a request assembled twice is the same request, and two runtimes cannot disagree
  (`Parity`).  For the model registry `RegistryInv` adds that every registry value in play, current,
  read or published, is chained (each transition starts where the previous ones ended), that what a
  snapshot published was known when it was published, and that what a binder holds still follows from the
  snapshot it read.  Then histories can be replayed, tokens are kept, and calculations are warranted.
  For the recommendations `FilesInv` says of every dossier file that it is as it was frozen, or its digest no
  longer fits it, or its base scenario contradicts its own inputs: an edit without a new hash is seen by the
  hash, and the edits with one that the model has are seen by the validator's second calculation.  So a file
  the validator accepts is as it was frozen (`ValidIsFrozen`), and so is one that is bought (`BoughtIs`), whose
  name is the only one of its kind.  `BuysAreSupported` then follows from what the builder demands of its
  payload: among others, that the organizations behind the confirming signals are counted once each
  (`ConfirmedByCompanies`).  `LatestVerdictIsTaken` is about the run: no later verdict on the symbol is
  in the directory.
  `HonestDossiersPass` compares builder and validator section by section (the `Same...` lemmas: a section under
  the policy of the file is the section under the values in the validator's code) and needs that the drivers
  of the growth of earnings add up whatever the figures (`AttributionHolds`, a polynomial identity).  Its
  hypothesis `PolicyIsShipped` is that the policy file has those values, as
  `config/focused_research_policy.json` does; `load_focused_research_policy` does not ask for it.  Its other
  premise, `TiesAsStored`, is in the property: a call and a put of one expiry and strike with equal open interest are listed in
  the order in which the dossier stores them.  Without it the code refuses honest dossiers (`recommendations_listed`).
* `EvidenceProofs`.
  The migrations: an opener's place implies the parts it sees (`Fits`), in its own transaction or in the
  file, and what is committed only grows, so a version is true whoever wrote it and whoever died
  (`SchemaInv`).  `RowsInv` follows the backfill of version 2: while nobody has died, a file with the column
  has its rows filled, or the process that added the column is about to fill them or has them in its
  transaction.
  The observations: the revisions of a period form one chain with growing availability, because the
  trigger asks a successor to be later than what it succeeds and refuses a second successor.  So each of
  the four queries has one answer, and rows that arrive later are available later than any past cutoff.
  The research runs: `RRInv` says of every recorded evaluation that its screen saw nothing after the
  cutoff of its protocol and that what it reveals is about the *first* sufficient window after it
  (`FirstWindow`, which does not depend on how much of the future is stored); that a rejection would be a
  rejection against today's family too under the same execution costs, because the family only grows and so
  does the correction; that
  the run in progress evaluates against the family of all registered hypotheses; and that every record
  names the first window of the holdout.  The planner's loop is a fold; its invariant is that it has added
  n hypotheses of this week and nothing else.  From it: `FutureStaysSealed`, `RevealedOnce` and
  `WithinAllowance`, for any policy, universe, delivery and answers, and runs that are abandoned anywhere.
  The lake: `LakeInv` says where every file came from, that an ingest has written its first files in order,
  an object before its manifest and the pages before the parts, and that a complete ingest is still there.
  So the catalogue is closed at every crash, and with every bundle ingested from one response the lake holds
  exactly what the bundles give: that it verifies (`CrashesAreHarmless`) is then a matter of the responses,
  and `ResponsesAgree` says what is asked of them.
  The dataset store: `StoreInv` says that everything catalogued, and every draft a writer holds, is well made
  (each demand of `read` that does not look at the disk holds of it) and that what it rests on, its parents,
  its blob and its request, reached the disk before it; about the damaged files it says nothing, so damage
  may come anywhere.  Comparisons with direct parents then compose over the lineage (`ClaimsHold`), a dataset
  whose lineage is untouched can be read and the two rounds of the audit reach every descendant
  (`DamageIsAlwaysFound`), and closed intervals leave one vintage per period and day (`OneVintageInForce`).
  `DatasetAssumption` types the responses: integer times, days that are naturals and one of the two licences
  that `validate_license_tag` admits.
  The backtests: `LoopState` says of the loop after any number of dates that every trade was signalled on an
  earlier date than the one it took effect on, by a signal that was warranted then, and that its weights are
  those held on the date after; so is the pending target warranted (`DecisionsAreKnown`).  The factor
  strategies check the availability of the four dates that bound their windows only; that the dates in
  between were available too follows because a bar becomes available a fixed lag after its session.  For
  `PastStaysFixed`, `MoreData` relates the data of two runs: the panel goes on, the bars of its dates stay,
  and at every date but the last the same macro vintages are public, because a release is public from today
  and the publication lag is positive.  Then the same dates are due (a month end is told from the next date,
  and the last date has no signal), each has the same signal, and the two loops agree up to the last date of
  the shorter run, where the longer one continues (`Agree`, `LoopContinues`).  `BacktestAssumption` types the
  configurations and says that the candidates are neither the cash nor the benchmark symbol.

The library's induction theorems cannot be used by the installed provers.  Where data has to be followed by
induction, over finite sets in `SumTheorems`, over the planner's proposals, the reports of a page, the ids of
a listing, the stored responses of a run and the dates of a backtest (`CountUp`), the
proofs take a smallest counterexample and contradict it.

Left to TLC is the liveness of the bucket (`EveryCallReturns`), which is beyond the prover.  Every other
property of the passing runs is a theorem, some under the hypotheses named above.

## Findings

* `ledger_fill`: `recover_submission_timeout` records whatever status the lookup answers.  When it answers FILLED
  the state stands without a snapshot, a posting or the release of its reservation (`fills.py:192`), though
  `docs/order_state_execution.md:34` says that a fill-bearing state is committed with all of them.
* `research_reported`: a run that skips the total-return vendor after the first complete holdout window
  names the holdout `invalid_data_gap` while its metrics are in the record (`backtest.py:1164`), and
  `strategy_snapshot` refuses the record (`reporting.py:275`), so every later run fails, against
  `docs/19_research_data_and_backtest.md:114`.
* `recommendations_listed`: the builder leaves ties in the concentrations of open interest in the order of the
  payload (`variant_perception.py:3794`), the validator in the order of the stored rows, so a dossier whose
  put was listed before the tied call is refused after the command wrote it, against
  `docs/34_variant_perception_focused_research.md:476`.

Met while modelling, kept as observations.

Ledger, reconciliation and governance:

* A balance whose state cannot be computed is skipped on the internal side (`reconciliation.py:315`, `:350`),
  so a snapshot that does not have it either is a clean MATCH, against `docs/account_reconciliation.md:9`.
  `CleanMeansAgreement` speaks of books whose states can be computed.
* An order row with neither a status nor an execution gives no fact (`reconciliation.py:787-792`, `:408`), so
  an order that only one side has in that form is not seen; `CleanMeansAgreement` speaks of orders that
  state their state.
* `update_from_headers` sets the tokens but not `updated_at`, so the time before the response is credited
  again; `Conforms` therefore speaks of the time before the first header.
* With a sale that is applied later than it was observed, the as-of view of a lot (`tax_lots.py:115`) misses
  disposals already booked, and a lot can be overdrawn, which `tax_lots.py:129` means to refuse.
* Reservations are not tied to the state of their order.  `reserve_open_order` and `reserve_sell` take one for a
  closed order (`cash.py:229`), and a terminal response that is applied late releases a reservation at an
  instant before it was made (`fills.py:147`).  Replay refuses both ledgers, and
  `docs/cash_position_settlement.md:26-27` rules both out.
* Version 2 of the Toss ledger adds `amount_decimal` in a statement that commits alone, and only the process that
  added it fills the old rows (`ledger.py:300-308`).  A process that dies in between leaves them unfilled for
  good under a version that goes on to 5; `tests/test_cash_ledger.py:413` has one process that lives.
* A report with no `orderId`, `filledQuantity` or `filledAmount` is passed over without a trace
  (`ledger.py:996-1002`); `ReportsAddUp` speaks of reports with amounts.
* A run with `account_seq` completes for a user of several accounts (`foundation.py:106-122`) and can then never
  be replayed (`replay.py:42-45`).
* `bind_runtime_run` looks for stage evidence outside the transaction of its insert.
* The intent trigger does not tie the decision of stage 7 to the target of stage 6, and no row ties an
  intent to an evaluation; the assembler's join is the only place where the lineage is compared.
* `publish_snapshot` samples its clock before the insert, so a snapshot may be published with an instant
  earlier than rows already visible.
* The maximum age of a reconciliation counts from the caller's `as_of`, and the intent guard measures it
  at `authorized_at`.
* A settlement date corrected by a later run is not taken up by `post_execution_cash_events`, which prefers
  the delta's own run; rows of `broker_reconciliation_log` carry no run id and nothing reads them.

Research:

* `_daily_estimated_available_at` is 20:00 New York, the next UTC date, so a bar is never usable on its own
  date, while `providers.py:51` calls it a same-session estimate;
  `config/autonomous_research_policy.json:38` allows a skip of 0, which is then always a point-in-time
  violation, and the macro backtest always raises on provider data.
* `run_quant_factor` checks the availability of four dates only.
* A late backfill inside `complete_through` counts as verified (`docs/19_research_data_and_backtest.md:122`).
* `cli/research_backtest.py` prints metrics of the whole sample, holdout included, to a report that is
  uploaded.
* A failed screen is made again by every weekly run with the run id as its seed, although the record says
  `none_retest_only_with_new_scheduled_data`; the daily run does not retry a transient
  `evaluation_failed`.  A passed prospective verdict may become not qualified when the family grows, and a
  rejected one qualified when a later run loads another cost model, since every run judges the window again
  (`candidate_evaluation.py:404-421`).
* The planner's `len(known) + len(created) >= limit` counts what it created twice.
* Earlier evaluations are picked by file name, so `weekly-*` sorts after every `daily-*`.
* Upload aliases are visible before the tree is complete, and a half-uploaded tree cannot be uploaded again
  (`ifGenerationMatch` 0).
* The digest is sent before its delivery is recorded (`email_digest.py:578`), so it is delivered at least
  once; made again after the latest link moved, it has another evidence digest and is refused.
* `docs/24_gmail_research_digest.md:13` promises a FACTS fallback, which makes one finding per candidate and
  three more, while `_points` (`interpretation.py:337`) allows eight: with six candidates it raises.
* A Tiingo ingest repeated after its fetch is fetched again; `RepetitionHeals` speaks of bundles that were
  fetched once.

Dossiers and recommendations:

* Of two valid dossiers of a symbol with one as-of date the first in the order of uuid file names wins
  (`stock_recommendations.py:220`); a dossier dated after the last bar, or one that is invalid, stops the whole
  run, while legacy and stale ones do not.
* The validator has its policy written in, so a dossier built under another loadable policy is refused; the
  freeze command writes the file before its memo validates it (`research_validate_focus_dossier.py:46-48`), and
  a file that does not validate then stops later runs.
* Price and entry range are never compared with the latest close; a signal of direction "mixed" never
  reconciles; the attribution check cannot fail for reconciled figures; valuation, chains, risk and position
  are protected by the hash only, not derived again.

Stores:

* `inspect.getsource(normalize)` hashes the closure `checked`, so that part of `code_revision` is the same for
  every phase 9 dataset.
* `LatestSuccessfulDataset` reads every manifest, so one damaged file fails every query; it asks the
  manifests and not the source health, so a dataset whose collector stopped before reporting counts as
  successful; two retrievals with one `available_at` are a conflict until a later one arrives.
* Publishing again onto a damaged file is refused (`IMMUTABLE_CONTENT_CONFLICT`): repetition does not heal
  damage.
* `OneLastingAnswer` rests on callers that stamp `ingested_at` with the clock.

## What is not modelled

Live transport, encodings and file formats, the numeric analytics (optimisation, covariance, pricing,
statistics), report text, command lines, and deployment.  Raw-response verification is taken to succeed.
Monitoring, locks and the scheduler of `asset_management` are docstrings without code.  Of what has state,
left out are: the JSON-lines journals of decisions, overrides and economic outcomes, which load, check and
append without a lock; the repeated reads of `collect_consistent_account_truth`; the settlement evidence and
the totals of the provider accounting snapshot; the strategy registry and the investor mandate, which have
the form of the model registry; the planner, slices and schedules before the journal, which are functions of
one request.  `PROJECT.json` lists every part with its reason.

## Plan

The plan is carried out: every safety property of the runs is proved.  What could follow is a model of the
parts listed above, first the journals, whose load, check and append without a lock are open to interleavings.

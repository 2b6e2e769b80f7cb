--------------------------- MODULE Reconciliation ---------------------------
(***************************************************************************)
(* The reconciliation gate of one account (ledger/reconciliation.py and    *)
(* the triggers of schemas/migrations 0007 and 0009): snapshots of the     *)
(* broker's account are compared with the ledger, what disagrees becomes   *)
(* an issue, issues are resolved by later evidence, and an order intent    *)
(* enters the database only under an authorization that still holds.       *)
(*                                                                         *)
(* Every table is append-only.  Processes share the database, and a method *)
(* reads before it writes: reconcile, resolve_issue and                    *)
(* authorize_order_intent each have steps that read and check and a step   *)
(* that writes, with the other processes in between.  A process may die    *)
(* between two of them.  A step that raises changes nothing.               *)
(***************************************************************************)
EXTENDS AccountFacts, Sequences, FiniteSets

CONSTANTS
    Procs,       \* processes that use the database
    Runtimes,    \* runtime runs
    Intents,     \* order intents
    Payloads,    \* what the broker can report: a function from names
    Books,       \* what the ledgers can answer: a function from names
    Policies,    \* tolerance policies callers pass
    MaxTime,     \* bound on the clock
    MaxSnaps,    \* bounds on the stored snapshots
    MaxRuns      \* and reconciliation runs

ASSUME ReconciliationAssumption ==
    /\ MaxTime \in Nat /\ MaxSnaps \in Nat /\ MaxRuns \in Nat
    /\ \A q \in Policies : q.from \in Int /\ q.until \in Int /\ q.maxAge \in Nat
    /\ \A q \in Policies : \A r \in q.rules : r.absolute \in Int
    /\ \A x \in DOMAIN Payloads : PayloadOK(Payloads[x])
    /\ \A x \in DOMAIN Books : BookOK(Books[x])

VARIABLES
    now,         \* the clock
    snaps,       \* am_account_snapshot
    registered,  \* am_reconciliation_tolerance_policy
    runs,        \* am_account_reconciliation_v2 with the items, in the order of
                 \* insertion; book is what the ledgers answered
    resolved,    \* am_reconciliation_resolution_v2: [issue, evidence]
    auth,        \* ..._authorization: [intent, run, at]
    intents,     \* am_order_intent: [intent, run, seen], seen being the number
                 \* of runs when it was inserted
    job          \* the call each process is in, with its local variables

tables == <<snaps, registered, runs, resolved, auth, intents>>
vars == <<now, tables, job>>

Time == 0..MaxTime
Statuses == {"MATCH", "TOLERANCE_MATCH", "BLOCKED"}
Snapshot == [runtime : Runtimes, payload : DOMAIN Payloads, at : Time]
ItemStatuses == {"MATCH", "TOLERANCE_MATCH", "MISMATCH", "UNVERIFIABLE"}

Idle == [op |-> "idle"]

-----------------------------------------------------------------------------
(* Reading the tables. *)

Good == {"MATCH", "TOLERANCE_MATCH"}
BadKeys(r) == {k \in DOMAIN r.items : r.items[k] \notin Good}
GoodKeys(r) == {k \in DOMAIN r.items : r.items[k] \in Good}

(* am_reconciliation_issue_v2: _persist_item opens one for each bad item. *)
Issues == UNION {{<<n, k>> : k \in BadKeys(runs[n])} : n \in DOMAIN runs}

IsResolved(issue) == \E x \in resolved : x.issue = issue
OpenIssues == {issue \in Issues : ~IsResolved(issue)}

(* ORDER BY completed_at_utc DESC, reconciliation_run_id DESC LIMIT 1; the *)
(* identity is a hash, so its order is an arbitrary rank.                  *)
IsLatest(n) ==
    \A m \in DOMAIN runs :
        \/ runs[m].at < runs[n].at
        \/ runs[m].at = runs[n].at /\ runs[m].rank <= runs[n].rank

-----------------------------------------------------------------------------
(* reconcile_snapshot and reconcile. *)

(* register_policy: a version means one policy for ever. *)
Registrable(policy) == \A q \in registered : q.version = policy.version => q = policy

(* The checks of reconcile and _validate_snapshot. *)
MayReconcile(s, policy, at) ==
    /\ s \in DOMAIN snaps
    /\ policy.from <= at /\ at < policy.until
    /\ snaps[s].at <= at
    /\ Registrable(policy)

StatusOfRun(items, open) ==
    IF open # {} \/ \E k \in DOMAIN items : items[k] \notin Good THEN "BLOCKED"
    ELSE IF \E k \in DOMAIN items : items[k] = "TOLERANCE_MATCH" THEN "TOLERANCE_MATCH"
    ELSE "MATCH"

(* Reading: the two sides, the comparison, the issues still open.          *)
(* _fact_map and tolerance_for raise on what cannot be compared.           *)
Reconcile(p, s, policy, at, book) ==
    LET broker == BrokerFacts(Payloads[snaps[s].payload])
        internal == InternalFacts(Books[book])
        items == Items(broker, internal, policy.rules)
    IN  /\ job[p] = Idle
        /\ MayReconcile(s, policy, at)
        /\ Unambiguous(broker) /\ Unambiguous(internal)
        /\ Decidable(broker, internal, policy.rules)
        /\ registered' = registered \cup {policy}
        /\ job' = [job EXCEPT ![p] =
                      [op |-> "reconcile", snapshot |-> s, policy |-> policy, at |-> at,
                       items |-> items, book |-> book,
                       status |-> StatusOfRun(items, OpenIssues)]]
        /\ UNCHANGED <<now, snaps, runs, resolved, auth, intents>>

(* A run of this snapshot under this policy is stored already. *)
Stored(j) == \E n \in DOMAIN runs : runs[n].snapshot = j.snapshot /\ runs[n].policy = j.policy

(* Writing: the run with its items and issues, in one savepoint. A stored  *)
(* run is returned or conflicts, and nothing is written.                   *)
Persist(p, rank) ==
    LET j == job[p] IN
    /\ j.op = "reconcile"
    /\ \/ /\ Stored(j)
          /\ UNCHANGED runs
       \/ /\ ~Stored(j)
          /\ Len(runs) < MaxRuns
          /\ \A n \in DOMAIN runs : runs[n].rank # rank
          /\ runs' = Append(runs, [snapshot |-> j.snapshot, policy |-> j.policy,
                                   at |-> j.at, items |-> j.items, book |-> j.book,
                                   status |-> j.status, rank |-> rank])
    /\ job' = [job EXCEPT ![p] = Idle]
    /\ UNCHANGED <<now, snaps, registered, resolved, auth, intents>>

-----------------------------------------------------------------------------
(* resolve_issue. *)

(* Bug: any run that matches will do. *)
ResolveByAny(p, issue, n) ==
    /\ job[p] = Idle
    /\ issue \in OpenIssues
    /\ n \in DOMAIN runs
    /\ issue[2] \in GoodKeys(runs[n])
    /\ job' = [job EXCEPT ![p] = [op |-> "resolve", issue |-> issue, evidence |-> n]]
    /\ UNCHANGED <<now, tables>>

(* Reading: the evidence is the latest run and matches on the dimension.   *)
(* Whether the issue is resolved is read again by the primary key.         *)
Resolve(p, issue, n) ==
    /\ job[p] = Idle
    /\ issue \in OpenIssues
    /\ n \in DOMAIN runs
    /\ issue[2] \in GoodKeys(runs[n])
    /\ IsLatest(n)
    /\ job' = [job EXCEPT ![p] = [op |-> "resolve", issue |-> issue, evidence |-> n]]
    /\ UNCHANGED <<now, tables>>

(* The primary key refuses a second resolution. *)
RecordResolution(p) ==
    LET j == job[p] IN
    /\ j.op = "resolve"
    /\ resolved' = IF IsResolved(j.issue) THEN resolved
                   ELSE resolved \cup {[issue |-> j.issue, evidence |-> j.evidence]}
    /\ job' = [job EXCEPT ![p] = Idle]
    /\ UNCHANGED <<now, snaps, registered, runs, auth, intents>>

-----------------------------------------------------------------------------
(* trade_gate, authorize_order_intent and the database guard. *)

(* An instant is neither before a run nor further from it than its policy  *)
(* allows.                                                                 *)
FreshAt(n, at) == runs[n].at <= at /\ at - runs[n].at <= runs[n].policy.maxAge

(* trade_gate with no reason to refuse. *)
Allows(n, at) ==
    /\ FreshAt(n, at)
    /\ IsLatest(n)
    /\ BadKeys(runs[n]) = {}
    /\ OpenIssues = {}

(* The run is the latest, fresh and clean. *)
TradeGate(p, i, n) ==
    /\ job[p] = Idle
    /\ n \in DOMAIN runs
    /\ FreshAt(n, now)
    /\ IsLatest(n)
    /\ BadKeys(runs[n]) = {}
    /\ job' = [job EXCEPT ![p] = [op |-> "gate", intent |-> i, run |-> n, at |-> now]]
    /\ UNCHANGED <<now, tables>>

(* The last read of trade_gate; an open issue raises, like a crash here. *)
Authorize(p) ==
    /\ job[p].op = "gate"
    /\ OpenIssues = {}
    /\ job' = [job EXCEPT ![p].op = "authorize"]
    /\ UNCHANGED <<now, tables>>

(* A stored authorization is returned or conflicts. *)
RecordAuthorization(p) ==
    LET j == job[p] IN
    /\ j.op = "authorize"
    /\ auth' = IF \E a \in auth : a.intent = j.intent THEN auth
               ELSE auth \cup {[intent |-> j.intent, run |-> j.run, at |-> j.at]}
    /\ job' = [job EXCEPT ![p] = Idle]
    /\ UNCHANGED <<now, snaps, registered, runs, resolved, intents>>

(* Bug: the guard trusts the authorization. *)
GuardedOnce(a, runtime) == snaps[runs[a.run].snapshot].runtime = runtime

(* am_order_intent_reconciliation_guard on an intent of a runtime run,     *)
(* which is also the runtime run of its risk decision.                     *)
Guarded(a, runtime) ==
    /\ snaps[runs[a.run].snapshot].runtime = runtime
    /\ Allows(a.run, a.at)

InsertIntent(i, runtime) ==
    /\ \A x \in intents : x.intent # i
    /\ \E a \in auth :
          /\ a.intent = i
          /\ Guarded(a, runtime)
          /\ intents' = intents \cup {[intent |-> i, run |-> a.run, seen |-> Len(runs)]}
    /\ UNCHANGED <<now, snaps, registered, runs, resolved, auth, job>>

-----------------------------------------------------------------------------
(* The rest of the system. *)

(* The read-only sync stores a snapshot of the account. *)
Capture(runtime, payload) ==
    /\ Len(snaps) < MaxSnaps
    /\ snaps' = Append(snaps, [runtime |-> runtime, payload |-> payload, at |-> now])
    /\ UNCHANGED <<now, registered, runs, resolved, auth, intents, job>>

(* A process dies in a call or leaves it through an exception. *)
Crash(p) ==
    /\ job[p] # Idle
    /\ job' = [job EXCEPT ![p] = Idle]
    /\ UNCHANGED <<now, tables>>

Tick ==
    /\ now < MaxTime
    /\ now' = now + 1
    /\ UNCHANGED <<tables, job>>

Init ==
    /\ now = 0
    /\ snaps = <<>>
    /\ registered = {}
    /\ runs = <<>>
    /\ resolved = {}
    /\ auth = {}
    /\ intents = {}
    /\ job = [p \in Procs |-> Idle]

Call(p) ==
    \/ \E s \in DOMAIN snaps, policy \in Policies, at \in Time, book \in DOMAIN Books :
          Reconcile(p, s, policy, at, book)
    \/ \E rank \in 1..MaxRuns : Persist(p, rank)
    \/ \E issue \in OpenIssues, n \in DOMAIN runs : Resolve(p, issue, n)
    \/ RecordResolution(p)
    \/ \E i \in Intents, n \in DOMAIN runs : TradeGate(p, i, n)
    \/ Authorize(p)
    \/ RecordAuthorization(p)
    \/ Crash(p)

Next ==
    \/ \E p \in Procs : Call(p)
    \/ \E i \in Intents, runtime \in Runtimes : InsertIntent(i, runtime)
    \/ \E runtime \in Runtimes, payload \in DOMAIN Payloads : Capture(runtime, payload)
    \/ Tick

Spec == Init /\ [][Next]_vars
-----------------------------------------------------------------------------
(* Properties. *)

(* What the tables and the calls hold. *)
TypeOK ==
    /\ now \in Time
    /\ snaps \in Seq(Snapshot)
    /\ registered \subseteq Policies
    /\ \A n \in DOMAIN runs :
          /\ runs[n].snapshot \in DOMAIN snaps /\ runs[n].policy \in registered
          /\ runs[n].at \in Time /\ runs[n].book \in DOMAIN Books
          /\ runs[n].items \in [DOMAIN runs[n].items -> ItemStatuses]
          /\ runs[n].status \in Statuses /\ runs[n].rank \in 1..MaxRuns
    /\ resolved \subseteq [issue : Issues, evidence : DOMAIN runs]
    /\ auth \subseteq [intent : Intents, run : DOMAIN runs, at : Time]
    /\ intents \subseteq [intent : Intents, run : DOMAIN runs, seen : 0..Len(runs)]

(* An issue is closed only by a run that looked at the account no earlier  *)
(* than the run that raised it, and found that very dimension in order,    *)
(* whatever is reconciled, late or backdated, around the resolution.       *)
EvidenceNotOlder ==
    \A x \in resolved :
        /\ x.issue[2] \in GoodKeys(runs[x.evidence])
        /\ runs[x.evidence].at >= runs[x.issue[1]].at

(* An intent in the database rests on a clean run that no run stored       *)
(* before it is newer than, and everything those runs ever found wrong was *)
(* found right again at the same time or later: no interleaving of         *)
(* reconciliations, resolutions and authorizations slips past the guard.   *)
IntentIsCovered ==
    \A x \in intents :
        /\ BadKeys(runs[x.run]) = {}
        /\ \A m \in 1..x.seen :
              /\ runs[m].at <= runs[x.run].at
              /\ \A k \in BadKeys(runs[m]) : \E n \in 1..x.seen :
                    runs[n].at >= runs[m].at /\ k \in GoodKeys(runs[n])

(* A snapshot is judged once under a policy: a retried or concurrent       *)
(* reconciliation never leaves a second verdict.                           *)
OneVerdict ==
    \A m, n \in DOMAIN runs :
        runs[m].snapshot = runs[n].snapshot /\ runs[m].policy.version = runs[n].policy.version
            => m = n

(* What recovery and the gate read from a run: it is BLOCKED unless all    *)
(* its items are good.                                                     *)
StatusIsHonest == \A n \in DOMAIN runs : runs[n].status # "BLOCKED" => BadKeys(runs[n]) = {}

(* The books whose every opening balance still has a readable state. *)
Readable(b) == DOMAIN b.positions \cup DOMAIN b.cash \subseteq b.readable

(* Every order states its state: one with neither a state nor an execution *)
(* gives no fact at all, so the comparison cannot see it.                  *)
Stated(orders) == \A o \in orders : o.state # None

(* A run without a bad item means that the broker's account and the ledger *)
(* are the same account within the tolerances: nothing that only one side  *)
(* has, and no target that neither side could state, passes for agreement. *)
CleanMeansAgreement ==
    \A n \in DOMAIN runs :
        LET payload == Payloads[snaps[runs[n].snapshot].payload]
            book == Books[runs[n].book]
        IN  BadKeys(runs[n]) = {} /\ Readable(book)
               /\ Stated(OrdersOf(payload)) /\ Stated(book.orders) =>
                   SameAccount(payload, book, runs[n].policy.rules)
=============================================================================

----------------------------- MODULE Submission -----------------------------
(***************************************************************************)
(* The durable submission protocol of asset_management.execution           *)
(* (SubmissionJournal): a claim is committed before the only transport     *)
(* attempt, a retry never sends again, and an ambiguous order is cleared   *)
(* only by append-only authority that is newer than the ambiguity.         *)
(*                                                                         *)
(* Several processes share one journal file.  Every BEGIN IMMEDIATE ...    *)
(* commit block is one step.  Outside a transaction every read of what may *)
(* still change (the row, the audit length, the markers, the newest event, *)
(* the newest reconciliation, the open issues, the posting), the transport *)
(* and the lookup are steps of their own; a SELECT of an append-only row   *)
(* by its id joins the read that names it.  A process may crash between    *)
(* any two steps.                                                          *)
(***************************************************************************)
EXTENDS Integers, Sequences

CONSTANTS
  Procs,        \* processes (or restarts of one) that use the journal
  Requests,     \* distinct (account, intent payload) pairs callers may submit
  Clients,      \* client order ids
  EconKeys,     \* digests of (account, run, target, instrument, side)
  Accounts,
  ClientOf,     \* [Requests -> Clients]
  EconOf,       \* [Requests -> EconKeys]
  KeyAccount,   \* [EconKeys -> Accounts]: the digest covers the account
  NoRequest,    \* a client id without a submission row
  NoClient,     \* a process that runs no call
  Recovered,    \* broker statuses the authority may report
  FillStates,   \* those that need an execution posting
  MaxTime,      \* bound on the clock
  MaxAudit,     \* bound on the audit rows of one client
  MaxSync       \* bound on the authority records per order and per account

ASSUME RequestAssumption ==
  /\ ClientOf \in [Requests -> Clients]
  /\ EconOf \in [Requests -> EconKeys]
  /\ KeyAccount \in [EconKeys -> Accounts]
  /\ NoRequest \notin Requests
  /\ NoClient \notin Clients

ASSUME StateAssumption ==
  /\ FillStates \subseteq Recovered
  /\ Recovered \cap {"NONE", "SUBMITTING", "UNKNOWN_BROKER_STATE"} = {}

ASSUME BoundAssumption == MaxTime \in Nat /\ MaxAudit \in Nat /\ MaxSync \in Nat

VARIABLES
  row,        \* journal: the immutable identity of each client's row
  started,    \* journal: the row's started timestamp
  state,      \* journal: the row's state
  audit,      \* journal: append-only audit rows of each client
  pc, job, seen,          \* control and local variables of each process
  sends, delivered,       \* transport calls per client; orders the broker has
  event, recon, issues, posted,  \* append-only authority, as the check reads it
  now,        \* wall clock
  proof       \* history: what the last recovery of a client rested on

journal == <<row, started, state, audit>>
procs == <<pc, job, seen>>
broker == <<sends, delivered>>
authority == <<event, recon, issues, posted>>
vars == <<journal, procs, broker, authority, now, proof>>

-----------------------------------------------------------------------------
Time == 0..MaxTime
NoMarker == -1
Unresolved == {"SUBMITTING", "UNKNOWN_BROKER_STATE"}
States == {"NONE"} \cup Unresolved \cup Recovered
\* Where a recover has the state it is about to record, subject to what is unread.
Proven == {"run", "issues", "verdict"}
PCs == {"idle", "claimed", "sent", "row", "sequence", "cutoff", "lookup", "order"} \cup Proven

\* One audit row: the recorded state and the ambiguous_at marker of its evidence.
AuditRow == [state : States, marker : Time \cup {NoMarker}]

\* The newest order-state event, with the times of the raw response behind it.
Event == [ver : 0..MaxSync, status : Recovered \cup {"NONE"}, requested : Time, observed : Time]

\* The newest reconciliation of an account, and of each order the event whose raw
\* response its snapshot links to (0 for none).
Recon == [ver : 0..MaxSync, clean : BOOLEAN, snapshotAt : Time, completed : Time,
          linked : [Clients -> 0..MaxSync]]

\* What a running recover holds: the state, audit sequence and cutoff it read,
\* the record versions its lookup cited, the observation time of the order state
\* and the state it is about to record.  asked and oldest are history: the audit
\* length when the lookup ran and the oldest timestamp of the evidence.
Seen == [state : States, sequence : Nat, cutoff : Time, eventVer : 0..MaxSync,
         reconVer : 0..MaxSync, status : Recovered \cup {"NONE"}, observed : Time,
         result : States, asked : Nat, oldest : Time]

Verdict(from, sequence, result, asked, oldest) ==
  [state |-> from, sequence |-> sequence, cutoff |-> 0, eventVer |-> 0, reconVer |-> 0,
   status |-> "NONE", observed |-> 0, result |-> result, asked |-> asked, oldest |-> oldest]

NothingSeen == Verdict("NONE", 0, "NONE", 0, 0)

TypeOK ==
  /\ row \in [Clients -> Requests \cup {NoRequest}]
  /\ started \in [Clients -> Time]
  /\ state \in [Clients -> States]
  /\ audit \in [Clients -> Seq(AuditRow)]
  /\ pc \in [Procs -> PCs]
  /\ job \in [Procs -> Clients \cup {NoClient}]
  /\ seen \in [Procs -> Seen]
  /\ sends \in [Clients -> Nat]
  /\ delivered \subseteq Clients
  /\ event \in [Clients -> Event]
  /\ recon \in [Accounts -> Recon]
  /\ issues \subseteq Accounts
  /\ posted \subseteq Clients
  /\ now \in Time
  /\ proof \in [Clients -> [asked : Nat, oldest : Time]]

Init ==
  /\ row = [c \in Clients |-> NoRequest]
  /\ started = [c \in Clients |-> 0]
  /\ state = [c \in Clients |-> "NONE"]
  /\ audit = [c \in Clients |-> <<>>]
  /\ pc = [p \in Procs |-> "idle"]
  /\ job = [p \in Procs |-> NoClient]
  /\ seen = [p \in Procs |-> NothingSeen]
  /\ sends = [c \in Clients |-> 0]
  /\ delivered = {}
  /\ event = [c \in Clients |-> [ver |-> 0, status |-> "NONE", requested |-> 0, observed |-> 0]]
  /\ recon = [a \in Accounts |-> [ver |-> 0, clean |-> FALSE, snapshotAt |-> 0,
                                  completed |-> 0, linked |-> [c \in Clients |-> 0]]]
  /\ issues = {}
  /\ posted = {}
  /\ now = 0
  /\ proof = [c \in Clients |-> [asked |-> 0, oldest |-> 0]]

-----------------------------------------------------------------------------
(* Reads of the journal                                                    *)

Account(c) == KeyAccount[EconOf[row[c]]]

\* Bug: the lookup compares client ids only, so a new quote's id passes.
ExistingByClient(r) == {c \in Clients : row[c] # NoRequest /\ c = ClientOf[r]}

\* The rows that share the request's client id or its economic key.
Existing(r) ==
  {c \in Clients : row[c] # NoRequest /\ (c = ClientOf[r] \/ EconOf[row[c]] = EconOf[r])}

\* Bug: a claim that has not been answered yet does not block its account.
UnresolvedAnswered(a) ==
  {c \in Clients : row[c] # NoRequest /\ Account(c) = a /\ state[c] = "UNKNOWN_BROKER_STATE"}

UnresolvedOn(a) == {c \in Clients : row[c] # NoRequest /\ Account(c) = a /\ state[c] \in Unresolved}

\* Every durable ambiguity boundary of a client: its start and all its markers.
Markers(trail) == {trail[i].marker : i \in DOMAIN trail}

Boundaries(c) == {started[c]} \cup Markers(audit[c])

\* Bug: evidence has to be newer than the start of the order, not than its markers.
RecoveryCutoffStarted(c) == started[c]

RecoveryCutoff(c) == CHOOSE t \in Boundaries(c) : \A b \in Boundaries(c) : b <= t

\* _record: the state update and its audit row, in the caller's transaction.
Record(c, s, marker) ==
  /\ Len(audit[c]) < MaxAudit
  /\ state' = [state EXCEPT ![c] = s]
  /\ audit' = [audit EXCEPT ![c] = Append(@, [state |-> s, marker |-> marker])]

Return(p) ==
  /\ pc' = [pc EXCEPT ![p] = "idle"]
  /\ job' = [job EXCEPT ![p] = NoClient]
  /\ seen' = [seen EXCEPT ![p] = NothingSeen]

Goto(p, label, s) ==
  /\ pc' = [pc EXCEPT ![p] = label]
  /\ seen' = [seen EXCEPT ![p] = s]
  /\ UNCHANGED job

\* The state to record is known; the closing transaction uses nothing else.
Conclude(p, label, result, asked, oldest) ==
  Goto(p, label, Verdict(seen[p].state, seen[p].sequence, result, asked, oldest))

Unproven(p) == Conclude(p, "verdict", "UNKNOWN_BROKER_STATE", 0, 0)

-----------------------------------------------------------------------------
(* submit_once                                                             *)

\* The claim: a request that nothing recorded conflicts with, on an account
\* without an unresolved order.  A retry (ALREADY_RECORDED_NO_RESEND), a
\* conflict and a blocked account all return or raise without a change.
Claim(p, r, at) ==
  LET c == ClientOf[r] IN
  /\ pc[p] = "idle"
  /\ Existing(r) = {}
  /\ UnresolvedOn(KeyAccount[EconOf[r]]) = {}
  /\ row' = [row EXCEPT ![c] = r]
  /\ started' = [started EXCEPT ![c] = at]
  /\ Record(c, "SUBMITTING", NoMarker)
  /\ pc' = [pc EXCEPT ![p] = "claimed"]
  /\ job' = [job EXCEPT ![p] = c]
  /\ UNCHANGED <<seen, broker, authority, now, proof>>

\* The only transport call.  Whether and when it arrives is up to the broker.
Transport(p) ==
  /\ pc[p] = "claimed"
  /\ sends' = [sends EXCEPT ![job[p]] = @ + 1]
  /\ Goto(p, "sent", seen[p])
  /\ UNCHANGED <<journal, delivered, authority, now, proof>>

\* The call returned or raised: either way the order is now ambiguous.  The
\* write is unconditional, whatever another process recorded meanwhile.
RecordAmbiguous(p) ==
  /\ pc[p] = "sent"
  /\ Record(job[p], "UNKNOWN_BROKER_STATE", NoMarker)
  /\ Return(p)
  /\ UNCHANGED <<row, started, broker, authority, now, proof>>

(* mark_ambiguous, before a cancel, a replace or a boot recovery            *)
MarkAmbiguous(c, at) ==
  /\ row[c] # NoRequest
  /\ at >= RecoveryCutoff(c)
  /\ Record(c, "UNKNOWN_BROKER_STATE", at)
  /\ UNCHANGED <<row, started, procs, broker, authority, now, proof>>

-----------------------------------------------------------------------------
(* recover                                                                 *)

\* The row read; a client that is already reconciled returns at once.
RecoverRow(p, c) ==
  /\ pc[p] = "idle"
  /\ row[c] # NoRequest
  /\ state[c] \in Unresolved
  /\ pc' = [pc EXCEPT ![p] = "row"]
  /\ job' = [job EXCEPT ![p] = c]
  /\ seen' = [seen EXCEPT ![p] = [NothingSeen EXCEPT !.state = state[c]]]
  /\ UNCHANGED <<journal, broker, authority, now, proof>>

RecoverSequence(p) ==
  /\ pc[p] = "row"
  /\ Goto(p, "sequence", [seen[p] EXCEPT !.sequence = Len(audit[job[p]])])
  /\ UNCHANGED <<journal, broker, authority, now, proof>>

RecoverCutoff(p) ==
  /\ pc[p] = "sequence"
  /\ Goto(p, "cutoff", [seen[p] EXCEPT !.cutoff = RecoveryCutoff(job[p])])
  /\ UNCHANGED <<journal, broker, authority, now, proof>>

\* Bug: an empty answer of the lookup is taken for a cancelled order.
RecoverLookupGuess(p) ==
  LET c == job[p] IN
  /\ pc[p] = "cutoff"
  /\ \E s \in Recovered : Conclude(p, "verdict", s, Len(audit[c]), seen[p].cutoff)
  /\ UNCHANGED <<journal, broker, authority, now, proof>>

\* The injected lookup: it raises or returns nothing, or it cites records.
RecoverLookup(p) ==
  LET c == job[p] IN
  /\ pc[p] = "cutoff"
  /\ \/ Unproven(p)
     \/ /\ event[c].ver > 0
        /\ Goto(p, "lookup", [seen[p] EXCEPT !.asked = Len(audit[c]),
                                             !.eventVer = event[c].ver,
                                             !.reconVer = recon[Account(c)].ver,
                                             !.status = event[c].status])
  /\ UNCHANGED <<journal, broker, authority, now, proof>>

\* _authority_verified, order reads: the cited event is still the newest one,
\* and both its raw request and its observation are past the cutoff.
CurrentEvent(p) ==
  LET e == event[job[p]] IN
  /\ e.ver = seen[p].eventVer
  /\ e.status = seen[p].status
  /\ e.requested >= seen[p].cutoff
  /\ e.observed >= seen[p].cutoff

VerifyOrder(p) ==
  LET e == event[job[p]] IN
  /\ pc[p] = "lookup"
  /\ IF CurrentEvent(p)
     THEN Goto(p, "order", [seen[p] EXCEPT !.observed = e.observed, !.oldest = e.requested])
     ELSE Unproven(p)
  /\ UNCHANGED <<journal, broker, authority, now, proof>>

\* The cited run is still the newest, clean, linked to the cited response, over a
\* snapshot past the cutoff, and complete after everything it covers.
CurrentRun(p) ==
  LET k == recon[Account(job[p])] IN
  /\ k.ver > 0
  /\ k.ver = seen[p].reconVer
  /\ k.clean
  /\ k.linked[job[p]] = seen[p].eventVer
  /\ k.snapshotAt >= seen[p].cutoff
  /\ \A t \in {seen[p].cutoff, seen[p].observed, k.snapshotAt} : k.completed >= t

VerifyRun(p) ==
  LET snapshotAt == recon[Account(job[p])].snapshotAt IN
  /\ pc[p] = "order"
  /\ IF CurrentRun(p)
     THEN Conclude(p, "run", seen[p].status, seen[p].asked,
                   IF snapshotAt < seen[p].oldest THEN snapshotAt ELSE seen[p].oldest)
     ELSE Unproven(p)
  /\ UNCHANGED <<journal, broker, authority, now, proof>>

\* The account has no open issue; the posting is read for a fill only.
VerifyIssues(p) ==
  /\ pc[p] = "run"
  /\ IF Account(job[p]) \in issues THEN Unproven(p)
     ELSE Goto(p, IF seen[p].result \in FillStates THEN "issues" ELSE "verdict", seen[p])
  /\ UNCHANGED <<journal, broker, authority, now, proof>>

\* A fill is recorded only once an execution of the order is in the ledger.
VerifyPosting(p) ==
  /\ pc[p] = "issues"
  /\ IF job[p] \in posted THEN Goto(p, "verdict", seen[p]) ELSE Unproven(p)
  /\ UNCHANGED <<journal, broker, authority, now, proof>>

\* Bug: the state is compared and the audit sequence is not.
UnchangedState(p) == state[job[p]] = seen[p].state

\* The generation check of the closing transaction: same state and no audit row
\* since the read, or RECOVERY_STATE_CHANGED_REQUERY.
Unchanged(p) ==
  /\ state[job[p]] = seen[p].state
  /\ Len(audit[job[p]]) = seen[p].sequence

RecoverCommit(p) ==
  LET c == job[p] IN
  /\ pc[p] = "verdict"
  /\ Unchanged(p)
  /\ Record(c, seen[p].result, NoMarker)
  /\ proof' = IF seen[p].result \in Recovered
              THEN [proof EXCEPT ![c] = [asked |-> seen[p].asked, oldest |-> seen[p].oldest]]
              ELSE proof
  /\ Return(p)
  /\ UNCHANGED <<row, started, broker, authority, now>>

RecoverRequery(p) ==
  /\ pc[p] = "verdict"
  /\ ~ Unchanged(p)
  /\ Return(p)
  /\ UNCHANGED <<journal, broker, authority, now, proof>>

\* A process dies or leaves the call through an exception that nothing in the
\* journal handles; whatever it had committed stays.
Crash(p) ==
  /\ pc[p] # "idle"
  /\ Return(p)
  /\ UNCHANGED <<journal, broker, authority, now, proof>>

-----------------------------------------------------------------------------
(* The world outside the journal: broker, read-only sync, reconciliation    *)

\* A sent order may reach the broker late, or never.
Deliver(c) ==
  /\ sends[c] > 0
  /\ c \notin delivered
  /\ delivered' = delivered \cup {c}
  /\ UNCHANGED <<journal, procs, sends, authority, now, proof>>

\* A sync appends an order-state event.  Its raw request may have started long
\* before the answer is stored.
SyncOrder(c, status, requested, observed) ==
  /\ c \in delivered
  /\ event[c].ver < MaxSync
  /\ requested <= observed /\ observed <= now
  /\ event' = [event EXCEPT ![c] = [ver |-> @.ver + 1, status |-> status,
                                    requested |-> requested, observed |-> observed]]
  /\ UNCHANGED <<journal, procs, broker, recon, issues, posted, now, proof>>

\* A reconciliation run of an account; a bad item opens an issue, and a run
\* over an open issue is BLOCKED.
ReconcileAccount(a, clean, snapshotAt) ==
  /\ recon[a].ver < MaxSync
  /\ snapshotAt <= now
  /\ a \in issues => ~ clean
  /\ recon' = [recon EXCEPT ![a] =
       [ver |-> @.ver + 1, clean |-> clean, snapshotAt |-> snapshotAt, completed |-> now,
        linked |-> [c \in Clients |->
                     IF c \in delivered /\ Account(c) = a THEN event[c].ver ELSE 0]]]
  /\ issues' = IF clean THEN issues ELSE issues \cup {a}
  /\ UNCHANGED <<journal, procs, broker, event, posted, now, proof>>

ResolveIssue(a) ==
  /\ a \in issues
  /\ issues' = issues \ {a}
  /\ UNCHANGED <<journal, procs, broker, event, recon, posted, now, proof>>

PostFill(c) ==
  /\ event[c].status \in FillStates
  /\ c \notin posted
  /\ posted' = posted \cup {c}
  /\ UNCHANGED <<journal, procs, broker, event, recon, issues, now, proof>>

Tick ==
  /\ now < MaxTime
  /\ now' = now + 1
  /\ UNCHANGED <<journal, procs, broker, authority, proof>>

-----------------------------------------------------------------------------
SubmitOnce(p) ==
  \/ \E r \in Requests, at \in Time : Claim(p, r, at)
  \/ Transport(p)
  \/ RecordAmbiguous(p)

Recover(p) ==
  \/ \E c \in Clients : RecoverRow(p, c)
  \/ RecoverSequence(p)
  \/ RecoverCutoff(p)
  \/ RecoverLookup(p)
  \/ VerifyOrder(p)
  \/ VerifyRun(p)
  \/ VerifyIssues(p)
  \/ VerifyPosting(p)
  \/ RecoverCommit(p)
  \/ RecoverRequery(p)

World ==
  \/ \E c \in Clients : Deliver(c) \/ PostFill(c)
  \/ \E c \in Clients, s \in Recovered, t, u \in Time : SyncOrder(c, s, t, u)
  \/ \E a \in Accounts, clean \in BOOLEAN, t \in Time : ReconcileAccount(a, clean, t)
  \/ \E a \in Accounts : ResolveIssue(a)
  \/ Tick

Next ==
  \/ \E p \in Procs : SubmitOnce(p) \/ Recover(p) \/ Crash(p)
  \/ \E c \in Clients, at \in Time : MarkAmbiguous(c, at)
  \/ World

Spec == Init /\ [][Next]_vars

-----------------------------------------------------------------------------
(* The abstraction each economic order is meant to obey                     *)

OwnersIn(rows, e) == {c \in Clients : rows[c] # NoRequest /\ EconOf[rows[c]] = e}

Owners(e) == OwnersIn(row, e)

AnyOf(S) == CHOOSE x \in S : TRUE

Phase == [e \in EconKeys |->
            IF Owners(e) = {} THEN "new"
            ELSE IF \E c \in Owners(e) : state[c] \in Unresolved THEN "open" ELSE "settled"]

Sent == [e \in EconKeys |-> IF Owners(e) = {} THEN 0 ELSE sends[AnyOf(Owners(e))]]

Abstract == INSTANCE OnceOnly WITH phase <- Phase, sent <- Sent

-----------------------------------------------------------------------------
(* Properties                                                              *)

\* The journal, its processes and their crashes implement the once-only order
\* life cycle that OnceOnly states for each economic order.
ImplementsOnceOnly == Abstract!Spec

\* At most one transmission per economic order, whatever processes crash, retry
\* or change the quote behind the same order (submit_once).
AtMostOneSend ==
  \A c, d \in Clients :
    /\ sends[c] <= 1
    /\ (row[c] # NoRequest /\ row[d] # NoRequest /\ c # d /\ EconOf[row[c]] = EconOf[row[d]])
         => sends[c] + sends[d] <= 1

\* A transmission is always preceded by its durable claim, so a restart finds it.
SendIsClaimed ==
  \A c \in Clients : sends[c] > 0 => row[c] # NoRequest /\ Len(audit[c]) > 0

\* Two orders of one account are never both about to be transmitted: the first
\* must have reached the broker and been reconciled before the second is claimed.
SerialPerAccount ==
  \A p, q \in Procs :
    (p # q /\ pc[p] = "claimed" /\ pc[q] = "claimed")
       => Account(job[p]) # Account(job[q])

\* A reconciled state rests on evidence no part of which is older than the start
\* of the order or any cancel, replace or boot-recovery marker (recover).
ResolvedIsFresh ==
  \A c \in Clients : state[c] \in Recovered =>
    \A b \in Boundaries(c) : b <= proof[c].oldest

\* A reconciled state rests on a lookup made after the last ambiguity marker was
\* committed, even when two markers carry the same timestamp.
LookupAfterMarkers ==
  \A c \in Clients : state[c] \in Recovered =>
    \A i \in DOMAIN audit[c] : i > proof[c].asked => audit[c][i].marker = NoMarker

\* An order that is settled as reconciled has really reached the broker.
ResolvedWasDelivered ==
  \A c \in Clients : state[c] \in Recovered => c \in delivered
=============================================================================

------------------------ MODULE ReconciliationProofs ------------------------
(***************************************************************************)
(* Proofs about Reconciliation, for any processes, payloads, books,        *)
(* policies and bounds.                                                    *)
(*                                                                         *)
(* The inductive invariant says of each call under way what its reading    *)
(* step established and no later step can undo: rows are only ever added,  *)
(* and a run keeps its instant and its items.  Facts and their comparison  *)
(* stay opaque in it; the second half of the module opens them, to show    *)
(* what a comparison without a bad item means.                             *)
(***************************************************************************)
EXTENDS Reconciliation, SequenceTheorems, TLAPS

MapsOf(p, b) == [ItemKeys(BrokerFacts(Payloads[p]), InternalFacts(Books[b])) -> ItemStatuses]

ItemMaps == UNION {UNION {MapsOf(p, b) : b \in DOMAIN Books} : p \in DOMAIN Payloads}

Run == [snapshot : Nat, policy : Policies, at : Time, items : ItemMaps,
        book : DOMAIN Books, status : Statuses, rank : 1..MaxRuns]

Tables ==
    /\ now \in Time
    /\ snaps \in Seq(Snapshot)
    /\ registered \subseteq Policies
    /\ runs \in Seq(Run)
    /\ \A n \in DOMAIN runs : runs[n].snapshot \in DOMAIN snaps /\ runs[n].policy \in registered
    /\ resolved \subseteq [issue : Issues, evidence : DOMAIN runs]
    /\ auth \subseteq [intent : Intents, run : DOMAIN runs, at : Time]
    /\ intents \subseteq [intent : Intents, run : DOMAIN runs, seen : 0..Len(runs)]
    /\ DOMAIN job = Procs

(* What a call under way knows. *)
ReconcileOK(j) ==
    /\ j.snapshot \in DOMAIN snaps /\ j.policy \in registered
    /\ j.at \in Time /\ j.items \in ItemMaps /\ j.book \in DOMAIN Books
    /\ j.status \in Statuses
    /\ j.status # "BLOCKED" => BadKeys(j) = {}

ResolveOK(j) ==
    /\ j.issue \in Issues /\ j.evidence \in DOMAIN runs
    /\ j.issue[2] \in GoodKeys(runs[j.evidence])
    /\ runs[j.evidence].at >= runs[j.issue[1]].at

AuthorizeOK(j) == j.intent \in Intents /\ j.run \in DOMAIN runs /\ j.at \in Time

JobOK(j) ==
    /\ j.op = "reconcile" => ReconcileOK(j)
    /\ j.op = "resolve" => ResolveOK(j)
    /\ j.op \in {"gate", "authorize"} => AuthorizeOK(j)

JobsOK == \A p \in Procs : JobOK(job[p])

(* A version means one policy. *)
OnePolicy == \A q, r \in registered : q.version = r.version => q = r

Inv ==
    /\ Tables
    /\ JobsOK
    /\ OnePolicy
    /\ EvidenceNotOlder
    /\ IntentIsCovered
    /\ OneVerdict
    /\ StatusIsHonest

-----------------------------------------------------------------------------
(* Every step leaves the stored snapshots, policies and runs as they are. *)
Grows ==
    /\ DOMAIN snaps \subseteq DOMAIN snaps'
    /\ registered \subseteq registered'
    /\ DOMAIN runs \subseteq DOMAIN runs'
    /\ \A n \in DOMAIN runs : runs'[n] = runs[n]

(* The rows have their types. *)
LEMMA RowTypes ==
    ASSUME Tables
    PROVE  /\ \A n \in DOMAIN runs : runs[n] \in Run /\ runs[n].at \in Int
           /\ \A s \in DOMAIN snaps : snaps[s] \in Snapshot
<1>1. runs \in Seq(Run) /\ snaps \in Seq(Snapshot)
  BY DEF Tables
<1>2. ASSUME NEW n \in DOMAIN runs PROVE runs[n] \in Run
  BY <1>1
<1>3. ASSUME NEW s \in DOMAIN snaps PROVE snaps[s] \in Snapshot
  BY <1>1
<1>4. ASSUME NEW r \in Run PROVE r.at \in Int
  BY ReconciliationAssumption DEF Run, Time
<1> QED BY <1>2, <1>3, <1>4

(* An item has one of the four statuses. *)
LEMMA ItemsType ==
    ASSUME NEW p \in DOMAIN Payloads, NEW b \in DOMAIN Books, NEW rules
    PROVE  Items(BrokerFacts(Payloads[p]), InternalFacts(Books[b]), rules) \in ItemMaps
<1> DEFINE B == BrokerFacts(Payloads[p])
           I == InternalFacts(Books[b])
<1> HIDE DEF B, I
<1>1. ASSUME NEW k PROVE StatusOf(B, I, rules, k) \in ItemStatuses
  BY DEF StatusOf, ItemStatuses
<1>2. Items(B, I, rules) \in [ItemKeys(B, I) -> ItemStatuses]
  BY <1>1 DEF Items
<1>3. Items(B, I, rules) \in MapsOf(p, b)
  BY <1>2 DEF MapsOf, B, I
<1>4. MapsOf(p, b) \subseteq UNION {MapsOf(p, c) : c \in DOMAIN Books}
  OBVIOUS
<1>5. UNION {MapsOf(p, c) : c \in DOMAIN Books} \subseteq ItemMaps
  BY DEF ItemMaps
<1> QED BY <1>3, <1>4, <1>5 DEF B, I

(* The issues are the bad items of the stored runs. *)
LEMMA IssuesAre ==
    ASSUME NEW x
    PROVE  x \in Issues <=> \E n \in DOMAIN runs : \E k \in BadKeys(runs[n]) : x = <<n, k>>
<1> DEFINE Of(n) == {<<n, k>> : k \in BadKeys(runs[n])}
<1>1. x \in Issues <=> \E n \in DOMAIN runs : x \in Of(n)
  BY DEF Issues
<1>2. ASSUME NEW n PROVE x \in Of(n) <=> \E k \in BadKeys(runs[n]) : x = <<n, k>>
  OBVIOUS
<1> HIDE DEF Of
<1> QED BY <1>1, <1>2

LEMMA IssuesGrow == ASSUME Grows PROVE Issues \subseteq Issues'
<1> SUFFICES ASSUME NEW x \in Issues PROVE x \in Issues'
  OBVIOUS
<1>1. PICK n \in DOMAIN runs : \E k \in BadKeys(runs[n]) : x = <<n, k>>
  BY IssuesAre
<1>2. n \in DOMAIN runs' /\ runs'[n] = runs[n]
  BY DEF Grows
<1>3. BadKeys(runs'[n]) = BadKeys(runs[n])
  BY <1>2
<1>4. \E m \in DOMAIN runs' : \E k \in BadKeys(runs'[m]) : x = <<m, k>>
  BY <1>1, <1>2, <1>3
<1> DEFINE Of(m) == {<<m, k>> : k \in BadKeys(runs'[m])}
<1>5. Issues' = UNION {Of(m) : m \in DOMAIN runs'}
  BY DEF Issues
<1>6. \E m \in DOMAIN runs' : x \in Of(m)
  BY <1>4
<1> HIDE DEF Of
<1> QED BY <1>5, <1>6

(* What a call knows stays true. *)
LEMMA JobStays ==
    ASSUME Grows, NEW j, JobOK(j) PROVE JobOK(j)'
<1>1. ASSUME ReconcileOK(j) PROVE ReconcileOK(j)'
  BY <1>1 DEF ReconcileOK, Grows, BadKeys
<1>2. ASSUME ResolveOK(j) PROVE ResolveOK(j)'
  <2>1. j.issue \in Issues /\ j.evidence \in DOMAIN runs
    BY <1>2 DEF ResolveOK
  <2>2. PICK n \in DOMAIN runs : \E k \in BadKeys(runs[n]) : j.issue = <<n, k>>
    BY <2>1, IssuesAre
  <2>3. j.issue \in Issues'
    BY <2>1, IssuesGrow
  <2>4. runs'[j.evidence] = runs[j.evidence] /\ runs'[n] = runs[n] /\ j.evidence \in DOMAIN runs'
    BY <2>1 DEF Grows
  <2>5. j.issue[1] = n
    BY <2>2
  <2> QED BY <1>2, <2>3, <2>4, <2>5 DEF ResolveOK, GoodKeys
<1>3. ASSUME AuthorizeOK(j) PROVE AuthorizeOK(j)'
  BY <1>3 DEF AuthorizeOK, Grows
<1> QED BY <1>1, <1>2, <1>3 DEF JobOK

-----------------------------------------------------------------------------
(* What was written stays well typed, *)
LEMMA RowsStay ==
    ASSUME Tables, Grows, Len(runs) <= Len(runs'), Len(runs') \in Nat
    PROVE  /\ resolved \subseteq [issue : Issues', evidence : DOMAIN runs']
           /\ auth \subseteq [intent : Intents, run : DOMAIN runs', at : Time]
           /\ intents \subseteq [intent : Intents, run : DOMAIN runs', seen : 0..Len(runs')]
<1>1. Issues \subseteq Issues' /\ DOMAIN runs \subseteq DOMAIN runs'
  BY IssuesGrow DEF Grows
<1>2. 0..Len(runs) \subseteq 0..Len(runs')
  BY DEF Tables
<1>3. resolved \subseteq [issue : Issues', evidence : DOMAIN runs']
  BY <1>1 DEF Tables
<1>4. auth \subseteq [intent : Intents, run : DOMAIN runs', at : Time]
  BY <1>1 DEF Tables
<1>5. intents \subseteq [intent : Intents, run : DOMAIN runs', seen : 0..Len(runs')]
  BY <1>1, <1>2 DEF Tables
<1> QED BY <1>3, <1>4, <1>5

(* closed issues stay justified, *)
LEMMA EvidenceStays ==
    ASSUME Tables, Grows, EvidenceNotOlder, resolved' = resolved
    PROVE  EvidenceNotOlder'
<1> SUFFICES ASSUME NEW x \in resolved
             PROVE  /\ x.issue[2] \in GoodKeys(runs'[x.evidence])
                    /\ runs'[x.evidence].at >= runs'[x.issue[1]].at
  BY DEF EvidenceNotOlder, GoodKeys
<1>1. x.issue \in Issues /\ x.evidence \in DOMAIN runs
  BY DEF Tables
<1>2. PICK n \in DOMAIN runs : \E k \in BadKeys(runs[n]) : x.issue = <<n, k>>
  BY <1>1, IssuesAre
<1>3. x.issue[1] = n
  BY <1>2
<1>4. runs'[x.evidence] = runs[x.evidence] /\ runs'[n] = runs[n]
  BY <1>1 DEF Grows
<1> QED BY <1>3, <1>4 DEF EvidenceNotOlder

(* and so do the intents. *)
LEMMA CoverStays ==
    ASSUME Tables, Grows, IntentIsCovered, intents' = intents
    PROVE  IntentIsCovered'
<1>1. ASSUME NEW x \in intents, NEW m \in 1..x.seen
      PROVE  m \in DOMAIN runs /\ runs'[m] = runs[m]
  <2>1. x.seen \in 0..Len(runs) /\ runs \in Seq(Run)
    BY DEF Tables
  <2>2. m \in 1..Len(runs)
    BY <2>1
  <2> QED BY <2>1, <2>2 DEF Grows
<1>2. ASSUME NEW x \in intents PROVE runs'[x.run] = runs[x.run]
  BY DEF Tables, Grows
<1> SUFFICES ASSUME NEW x \in intents
             PROVE  /\ BadKeys(runs'[x.run]) = {}
                    /\ \A m \in 1..x.seen :
                          /\ runs'[m].at <= runs'[x.run].at
                          /\ \A k \in BadKeys(runs'[m]) : \E n \in 1..x.seen :
                                runs'[n].at >= runs'[m].at /\ k \in GoodKeys(runs'[n])
  BY DEF IntentIsCovered, BadKeys, GoodKeys
<1>3. BadKeys(runs'[x.run]) = {}
  BY <1>2 DEF IntentIsCovered
<1>4. ASSUME NEW m \in 1..x.seen, NEW k \in BadKeys(runs'[m])
      PROVE  \E n \in 1..x.seen : runs'[n].at >= runs'[m].at /\ k \in GoodKeys(runs'[n])
  <2>1. k \in BadKeys(runs[m])
    BY <1>1
  <2>2. PICK n \in 1..x.seen : runs[n].at >= runs[m].at /\ k \in GoodKeys(runs[n])
    BY <2>1 DEF IntentIsCovered
  <2>3. runs'[n].at >= runs'[m].at /\ k \in GoodKeys(runs'[n])
    BY <2>2, <1>1
  <2> QED BY <2>3
<1>5. ASSUME NEW m \in 1..x.seen PROVE runs'[m].at <= runs'[x.run].at
  BY <1>1, <1>2 DEF IntentIsCovered
<1> QED BY <1>3, <1>4, <1>5

(* A step that writes no run, no resolution and no intent. *)
LEMMA Quiet ==
    ASSUME Inv, Grows, runs' = runs, resolved' = resolved, intents' = intents
    PROVE  /\ EvidenceNotOlder' /\ IntentIsCovered' /\ OneVerdict' /\ StatusIsHonest'
           /\ resolved' \subseteq [issue : Issues', evidence : DOMAIN runs']
           /\ auth \subseteq [intent : Intents, run : DOMAIN runs', at : Time]
           /\ intents' \subseteq [intent : Intents, run : DOMAIN runs', seen : 0..Len(runs')]
           /\ \A n \in DOMAIN runs' : runs'[n].snapshot \in DOMAIN snaps' /\ runs'[n].policy \in registered'
<1> USE DEF Inv
<1>1. EvidenceNotOlder' /\ IntentIsCovered'
  BY EvidenceStays, CoverStays
<1>2. OneVerdict' /\ StatusIsHonest'
  BY DEF OneVerdict, StatusIsHonest, BadKeys
<1>3. Len(runs) <= Len(runs') /\ Len(runs') \in Nat
  BY DEF Tables
<1>4. \A n \in DOMAIN runs' : runs'[n].snapshot \in DOMAIN snaps' /\ runs'[n].policy \in registered'
  BY DEF Tables, Grows
<1> QED BY <1>1, <1>2, <1>3, <1>4, RowsStay

(* A step of one process keeps what the others know. *)
LEMMA OneJob ==
    ASSUME Inv, Grows, NEW p \in Procs, NEW j, job' = [job EXCEPT ![p] = j], JobOK(j)'
    PROVE  JobsOK' /\ DOMAIN job' = Procs
<1>1. DOMAIN job = Procs
  BY DEF Inv, Tables
<1> SUFFICES ASSUME NEW q \in Procs PROVE JobOK(job[q])'
  BY <1>1 DEF JobsOK
<1>2. PICK v : v = job[q]
  OBVIOUS
<1>3. JobOK(v)
  BY <1>2 DEF Inv, JobsOK
<1>4. JobOK(v)'
  BY <1>3, JobStays
<1>5. \/ job'[q] = j
      \/ job'[q] = v
  BY <1>1, <1>2
<1>6. CASE job'[q] = j
  BY <1>6 DEF JobOK, ReconcileOK, ResolveOK, AuthorizeOK, BadKeys
<1>7. CASE job'[q] = v
  BY <1>7, <1>4 DEF JobOK, ReconcileOK, ResolveOK, AuthorizeOK, BadKeys
<1> QED BY <1>5, <1>6, <1>7

-----------------------------------------------------------------------------
(* One lemma for each step. *)

LEMMA IdleOK == JobOK(Idle) /\ JobOK(Idle)'
BY DEF JobOK, Idle

LEMMA ReconcileStep ==
    ASSUME Inv, NEW p \in Procs, NEW s \in DOMAIN snaps, NEW policy \in Policies,
           NEW at \in Time, NEW book \in DOMAIN Books, Reconcile(p, s, policy, at, book)
    PROVE  Inv'
<1> DEFINE items == Items(BrokerFacts(Payloads[snaps[s].payload]), InternalFacts(Books[book]),
                          policy.rules)
           status == StatusOfRun(items, OpenIssues)
<1>1. /\ registered' = registered \cup {policy}
      /\ UNCHANGED <<now, snaps, runs, resolved, auth, intents>>
      /\ Registrable(policy)
  BY DEF Reconcile, MayReconcile
<1>2. Grows
  BY <1>1 DEF Grows
<1>3. PICK v : v = [op |-> "reconcile", snapshot |-> s, policy |-> policy, at |-> at,
                    items |-> items, book |-> book, status |-> status]
  OBVIOUS
<1>4. job' = [job EXCEPT ![p] = v]
  BY <1>3 DEF Reconcile
<1>5. items \in ItemMaps
  <2>1. snaps[s].payload \in DOMAIN Payloads
    <3>1. snaps[s] \in Snapshot
      BY RowTypes DEF Inv
    <3> QED BY <3>1 DEF Snapshot
  <2> QED BY <2>1, ItemsType
<1>6. /\ status \in Statuses
      /\ status # "BLOCKED" => BadKeys(v) = {}
  <2> HIDE DEF items
  <2>1. status \in Statuses
    BY DEF StatusOfRun, Statuses
  <2>2. v.items = items
    BY <1>3
  <2>3. ASSUME status # "BLOCKED" PROVE BadKeys(v) = {}
    <3>1. \A k \in DOMAIN items : items[k] \in Good
      BY <2>3 DEF StatusOfRun
    <3> QED BY <3>1, <2>2 DEF BadKeys
  <2> QED BY <2>1, <2>3
<1> HIDE DEF items, status
<1>7. JobOK(v)'
  <2>1. /\ v.op = "reconcile" /\ v.snapshot = s /\ v.policy = policy /\ v.at = at
        /\ v.items = items /\ v.book = book /\ v.status = status
    BY <1>3
  <2>2. v.snapshot \in DOMAIN snaps' /\ v.policy \in registered'
    BY <2>1, <1>1
  <2>3. ReconcileOK(v)'
    BY <2>1, <2>2, <1>5, <1>6 DEF ReconcileOK, BadKeys
  <2> QED BY <2>1, <2>3 DEF JobOK
<1>8. JobsOK' /\ DOMAIN job' = Procs
  BY <1>2, <1>4, <1>7, OneJob
<1>9. OnePolicy'
  BY <1>1 DEF Inv, OnePolicy, Registrable
<1>10. Tables'
  BY <1>1, <1>2, <1>8, Quiet DEF Inv, Tables
<1> QED BY <1>1, <1>2, <1>8, <1>9, <1>10, Quiet DEF Inv

LEMMA ResolveStep ==
    ASSUME Inv, NEW p \in Procs, NEW issue \in OpenIssues, NEW n \in DOMAIN runs,
           Resolve(p, issue, n)
    PROVE  Inv'
<1>1. UNCHANGED <<now, snaps, registered, runs, resolved, auth, intents>>
  BY DEF Resolve, tables
<1>2. Grows
  BY <1>1 DEF Grows
<1>3. PICK v : v = [op |-> "resolve", issue |-> issue, evidence |-> n]
  OBVIOUS
<1>4. job' = [job EXCEPT ![p] = v]
  BY <1>3 DEF Resolve
<1>5. JobOK(v)
  <2>1. v.op = "resolve" /\ v.issue = issue /\ v.evidence = n
    BY <1>3
  <2>2. issue \in Issues /\ issue[2] \in GoodKeys(runs[n]) /\ IsLatest(n)
    BY DEF Resolve, OpenIssues
  <2>3. PICK m \in DOMAIN runs : \E k \in BadKeys(runs[m]) : issue = <<m, k>>
    BY <2>2, IssuesAre
  <2>4. issue[1] = m
    BY <2>3
  <2>5. runs[m].at \in Int /\ runs[n].at \in Int
    BY RowTypes DEF Inv
  <2>6. runs[n].at >= runs[m].at
    BY <2>2, <2>5 DEF IsLatest
  <2>7. ResolveOK(v)
    BY <2>1, <2>2, <2>4, <2>6 DEF ResolveOK
  <2> QED BY <2>1, <2>7 DEF JobOK
<1>6. JobsOK' /\ DOMAIN job' = Procs
  BY <1>2, <1>4, <1>5, JobStays, OneJob
<1>7. Tables'
  BY <1>1, <1>2, <1>6, Quiet DEF Inv, Tables
<1> QED BY <1>1, <1>2, <1>6, <1>7, Quiet DEF Inv, OnePolicy

LEMMA TradeGateStep ==
    ASSUME Inv, NEW p \in Procs, NEW i \in Intents, NEW n \in DOMAIN runs, TradeGate(p, i, n)
    PROVE  Inv'
<1>1. UNCHANGED <<now, snaps, registered, runs, resolved, auth, intents>>
  BY DEF TradeGate, tables
<1>2. Grows
  BY <1>1 DEF Grows
<1>3. PICK v : v = [op |-> "gate", intent |-> i, run |-> n, at |-> now]
  OBVIOUS
<1>4. job' = [job EXCEPT ![p] = v]
  BY <1>3 DEF TradeGate
<1>5. JobOK(v)
  BY <1>3 DEF JobOK, AuthorizeOK, Inv, Tables
<1>6. JobsOK' /\ DOMAIN job' = Procs
  BY <1>2, <1>4, <1>5, JobStays, OneJob
<1>7. Tables'
  BY <1>1, <1>2, <1>6, Quiet DEF Inv, Tables
<1> QED BY <1>1, <1>2, <1>6, <1>7, Quiet DEF Inv, OnePolicy

LEMMA AuthorizeStep ==
    ASSUME Inv, NEW p \in Procs, Authorize(p)
    PROVE  Inv'
<1>1. UNCHANGED <<now, snaps, registered, runs, resolved, auth, intents>>
  BY DEF Authorize, tables
<1>2. Grows
  BY <1>1 DEF Grows
<1>3. PICK v : v = [job[p] EXCEPT !.op = "authorize"]
  OBVIOUS
<1>4. job' = [job EXCEPT ![p] = v]
  BY <1>3 DEF Authorize
<1>5. JobOK(v)
  <2>1. AuthorizeOK(job[p])
    BY DEF Authorize, Inv, JobsOK, JobOK
  <2>2. v.intent = job[p].intent /\ v.run = job[p].run /\ v.at = job[p].at
    BY <1>3
  <2>3. v.op = "authorize"
    BY <1>3 DEF Authorize
  <2> QED BY <2>1, <2>2, <2>3 DEF JobOK, AuthorizeOK
<1>6. JobsOK' /\ DOMAIN job' = Procs
  BY <1>2, <1>4, <1>5, JobStays, OneJob
<1>7. Tables'
  BY <1>1, <1>2, <1>6, Quiet DEF Inv, Tables
<1> QED BY <1>1, <1>2, <1>6, <1>7, Quiet DEF Inv, OnePolicy

LEMMA CrashStep ==
    ASSUME Inv, NEW p \in Procs, Crash(p)
    PROVE  Inv'
<1>1. /\ UNCHANGED <<now, snaps, registered, runs, resolved, auth, intents>>
      /\ job' = [job EXCEPT ![p] = Idle]
  BY DEF Crash, tables
<1>2. Grows
  BY <1>1 DEF Grows
<1>3. JobsOK' /\ DOMAIN job' = Procs
  BY <1>1, <1>2, IdleOK, OneJob
<1>4. Tables'
  BY <1>1, <1>2, <1>3, Quiet DEF Inv, Tables
<1> QED BY <1>1, <1>2, <1>3, <1>4, Quiet DEF Inv, OnePolicy

LEMMA RecordAuthorizationStep ==
    ASSUME Inv, NEW p \in Procs, RecordAuthorization(p)
    PROVE  Inv'
<1>1. /\ UNCHANGED <<now, snaps, registered, runs, resolved, intents>>
      /\ job' = [job EXCEPT ![p] = Idle]
  BY DEF RecordAuthorization
<1>2. Grows
  BY <1>1 DEF Grows
<1>3. JobsOK' /\ DOMAIN job' = Procs
  BY <1>1, <1>2, IdleOK, OneJob
<1>4. auth' \subseteq [intent : Intents, run : DOMAIN runs', at : Time]
  <2>1. AuthorizeOK(job[p])
    BY DEF RecordAuthorization, Inv, JobsOK, JobOK
  <2>2. auth' \subseteq auth \cup {[intent |-> job[p].intent, run |-> job[p].run, at |-> job[p].at]}
    BY DEF RecordAuthorization
  <2>3. [intent |-> job[p].intent, run |-> job[p].run, at |-> job[p].at]
            \in [intent : Intents, run : DOMAIN runs, at : Time]
    BY <2>1 DEF AuthorizeOK
  <2> QED BY <1>1, <2>2, <2>3 DEF Inv, Tables
<1>5. Tables'
  BY <1>1, <1>2, <1>3, <1>4, Quiet DEF Inv, Tables
<1> QED BY <1>1, <1>2, <1>3, <1>5, Quiet DEF Inv, OnePolicy

LEMMA CaptureStep ==
    ASSUME Inv, NEW runtime \in Runtimes, NEW payload \in DOMAIN Payloads,
           Capture(runtime, payload)
    PROVE  Inv'
<1>1. /\ UNCHANGED <<now, registered, runs, resolved, auth, intents, job>>
      /\ snaps' = Append(snaps, [runtime |-> runtime, payload |-> payload, at |-> now])
  BY DEF Capture
<1>2. snaps \in Seq(Snapshot) /\ now \in Time
  BY DEF Inv, Tables
<1>3. [runtime |-> runtime, payload |-> payload, at |-> now] \in Snapshot
  BY <1>2 DEF Snapshot
<1>4. snaps' \in Seq(Snapshot) /\ DOMAIN snaps \subseteq DOMAIN snaps'
  BY <1>1, <1>2, <1>3
<1>5. Grows
  BY <1>1, <1>4 DEF Grows
<1>6. JobsOK'
  <2> SUFFICES ASSUME NEW q \in Procs PROVE JobOK(job[q])'
    BY DEF JobsOK
  <2>1. PICK v : v = job[q]
    OBVIOUS
  <2>2. JobOK(v)
    BY <2>1 DEF Inv, JobsOK
  <2>3. JobOK(v)'
    BY <1>5, <2>2, JobStays
  <2>4. job'[q] = v
    BY <1>1, <2>1
  <2> QED BY <2>3, <2>4 DEF JobOK, ReconcileOK, ResolveOK, AuthorizeOK, BadKeys
<1>7. Tables'
  BY <1>1, <1>4, <1>5, Quiet DEF Inv, Tables
<1> QED BY <1>1, <1>5, <1>6, <1>7, Quiet DEF Inv, OnePolicy

LEMMA RecordResolutionStep ==
    ASSUME Inv, NEW p \in Procs, RecordResolution(p)
    PROVE  Inv'
<1> DEFINE row == [issue |-> job[p].issue, evidence |-> job[p].evidence]
<1>1. /\ UNCHANGED <<now, snaps, registered, runs, auth, intents>>
      /\ job' = [job EXCEPT ![p] = Idle]
      /\ resolved' \subseteq resolved \cup {row}
  BY DEF RecordResolution
<1>2. Grows
  BY <1>1 DEF Grows
<1>3. JobsOK' /\ DOMAIN job' = Procs
  BY <1>1, <1>2, IdleOK, OneJob
<1>4. ResolveOK(job[p])
  BY DEF RecordResolution, Inv, JobsOK, JobOK
<1>5. row.issue = job[p].issue /\ row.evidence = job[p].evidence
  OBVIOUS
<1>6. row \in [issue : Issues, evidence : DOMAIN runs]
  BY <1>4 DEF ResolveOK
<1>7. Issues' = Issues
  BY <1>1 DEF Issues, BadKeys
<1> HIDE DEF row
<1>8. resolved' \subseteq [issue : Issues', evidence : DOMAIN runs']
  BY <1>1, <1>6, <1>7 DEF Inv, Tables
<1>9. EvidenceNotOlder'
  <2> SUFFICES ASSUME NEW x \in resolved'
               PROVE  /\ x.issue[2] \in GoodKeys(runs[x.evidence])
                      /\ runs[x.evidence].at >= runs[x.issue[1]].at
    BY <1>1 DEF EvidenceNotOlder, GoodKeys
  <2>1. CASE x = row
    BY <2>1, <1>4, <1>5 DEF ResolveOK
  <2>2. CASE x \in resolved
    BY <2>2 DEF Inv, EvidenceNotOlder
  <2> QED BY <2>1, <2>2, <1>1
<1>10. IntentIsCovered' /\ OneVerdict' /\ StatusIsHonest' /\ OnePolicy'
  <2>1. IntentIsCovered'
    BY <1>1, <1>2, CoverStays DEF Inv
  <2>2. OneVerdict' /\ StatusIsHonest' /\ OnePolicy'
    BY <1>1 DEF Inv, OneVerdict, StatusIsHonest, OnePolicy, BadKeys
  <2> QED BY <2>1, <2>2
<1>11. Tables'
  BY <1>1, <1>3, <1>8 DEF Inv, Tables
<1> QED BY <1>3, <1>9, <1>10, <1>11 DEF Inv

(* An intent gets in when every issue is closed; each one has its          *)
(* evidence among the runs stored so far.                                  *)
LEMMA InsertIntentStep ==
    ASSUME Inv, NEW i \in Intents, NEW runtime \in Runtimes, InsertIntent(i, runtime)
    PROVE  Inv'
<1>1. UNCHANGED <<now, snaps, registered, runs, resolved, auth, job>>
  BY DEF InsertIntent
<1>2. PICK a \in auth : /\ Guarded(a, runtime)
                        /\ intents' = intents \cup {[intent |-> i, run |-> a.run, seen |-> Len(runs)]}
  BY DEF InsertIntent
<1> DEFINE row == [intent |-> i, run |-> a.run, seen |-> Len(runs)]
<1>3. /\ IsLatest(a.run) /\ BadKeys(runs[a.run]) = {} /\ OpenIssues = {}
      /\ a.run \in DOMAIN runs
  BY <1>2 DEF Guarded, Allows, Inv, Tables
<1>4. runs \in Seq(Run) /\ Len(runs) \in Nat /\ DOMAIN runs = 1..Len(runs)
  BY DEF Inv, Tables
<1>5. row.run = a.run /\ row.seen = Len(runs)
  OBVIOUS
<1>6. row \in [intent : Intents, run : DOMAIN runs, seen : 0..Len(runs)]
  BY <1>3, <1>4
<1> HIDE DEF row
<1>7. ASSUME NEW m \in DOMAIN runs PROVE runs[m].at <= runs[a.run].at
  BY <1>3, RowTypes DEF IsLatest, Inv
<1>8. ASSUME NEW m \in DOMAIN runs, NEW k \in BadKeys(runs[m])
      PROVE  \E n \in DOMAIN runs : runs[n].at >= runs[m].at /\ k \in GoodKeys(runs[n])
  <2>1. <<m, k>> \in Issues
    BY IssuesAre
  <2>2. PICK x \in resolved : x.issue = <<m, k>>
    BY <2>1, <1>3 DEF OpenIssues, IsResolved
  <2>3. x.evidence \in DOMAIN runs
    BY DEF Inv, Tables
  <2>4. x.issue[1] = m /\ x.issue[2] = k
    BY <2>2
  <2>5. k \in GoodKeys(runs[x.evidence]) /\ runs[x.evidence].at >= runs[m].at
    BY <2>4 DEF Inv, EvidenceNotOlder
  <2> QED BY <2>3, <2>5
<1>9. IntentIsCovered'
  <2> SUFFICES ASSUME NEW x \in intents'
               PROVE  /\ BadKeys(runs[x.run]) = {}
                      /\ \A m \in 1..x.seen :
                            /\ runs[m].at <= runs[x.run].at
                            /\ \A k \in BadKeys(runs[m]) : \E n \in 1..x.seen :
                                  runs[n].at >= runs[m].at /\ k \in GoodKeys(runs[n])
    BY <1>1 DEF IntentIsCovered, BadKeys, GoodKeys
  <2>1. CASE x = row
    BY <2>1, <1>3, <1>4, <1>5, <1>7, <1>8
  <2>2. CASE x \in intents
    BY <2>2 DEF Inv, IntentIsCovered
  <2> QED BY <2>1, <2>2, <1>2 DEF row
<1>10. intents' \subseteq [intent : Intents, run : DOMAIN runs', seen : 0..Len(runs')]
  BY <1>1, <1>2, <1>6 DEF Inv, Tables, row
<1>11. Issues' = Issues
  BY <1>1 DEF Issues, BadKeys
<1>12. Tables'
  BY <1>1, <1>10, <1>11 DEF Inv, Tables
<1>13. JobsOK'
  BY <1>1, <1>11 DEF Inv, JobsOK, JobOK, ReconcileOK, ResolveOK, AuthorizeOK, BadKeys, GoodKeys
<1>14. EvidenceNotOlder' /\ OneVerdict' /\ StatusIsHonest' /\ OnePolicy'
  BY <1>1 DEF Inv, EvidenceNotOlder, OneVerdict, StatusIsHonest, OnePolicy, BadKeys, GoodKeys
<1> QED BY <1>9, <1>12, <1>13, <1>14 DEF Inv

(* A run that is stored already changes nothing; a new one is appended. *)
LEMMA PersistStep ==
    ASSUME Inv, NEW p \in Procs, NEW rank \in 1..MaxRuns, Persist(p, rank)
    PROVE  Inv'
<1> DEFINE j == job[p]
           row == [snapshot |-> j.snapshot, policy |-> j.policy, at |-> j.at, items |-> j.items,
                   book |-> j.book, status |-> j.status, rank |-> rank]
<1>1. /\ UNCHANGED <<now, snaps, registered, resolved, auth, intents>>
      /\ job' = [job EXCEPT ![p] = Idle]
  BY DEF Persist
<1>2. ReconcileOK(j)
  BY DEF Persist, Inv, JobsOK, JobOK
<1>3. CASE UNCHANGED runs
  <2>1. Grows
    BY <1>1, <1>3 DEF Grows
  <2>2. JobsOK' /\ DOMAIN job' = Procs
    BY <1>1, <2>1, IdleOK, OneJob
  <2>3. Tables'
    BY <1>1, <1>3, <2>1, <2>2, Quiet DEF Inv, Tables
  <2> QED BY <1>1, <1>3, <2>1, <2>2, <2>3, Quiet DEF Inv, OnePolicy
<1>4. CASE ~Stored(j) /\ runs' = Append(runs, row)
  <2>1. runs \in Seq(Run) /\ snaps \in Seq(Snapshot)
    BY DEF Inv, Tables
  <2>2. /\ row.snapshot = j.snapshot /\ row.policy = j.policy /\ row.items = j.items
        /\ row.status = j.status
    OBVIOUS
  <2>3. row \in Run
    <3>1. j.snapshot \in Nat
      BY <1>2, <2>1 DEF ReconcileOK
    <3>2. j.policy \in Policies
      BY <1>2 DEF ReconcileOK, Inv, Tables
    <3> QED BY <1>2, <3>1, <3>2 DEF ReconcileOK, Run
  <2> HIDE DEF row, j
  <2>4. /\ runs' \in Seq(Run)
        /\ Len(runs) \in Nat /\ Len(runs') = Len(runs) + 1
        /\ DOMAIN runs = 1..Len(runs) /\ DOMAIN runs' = 1..(Len(runs) + 1)
        /\ \A n \in 1..Len(runs) : runs'[n] = runs[n]
        /\ runs'[Len(runs) + 1] = row
    BY <2>1, <2>3, <1>4
  <2>5. Grows
    BY <1>1, <2>4 DEF Grows
  <2>6. JobsOK' /\ DOMAIN job' = Procs
    BY <1>1, <2>5, IdleOK, OneJob
  <2>7. EvidenceNotOlder' /\ IntentIsCovered'
    BY <1>1, <2>5, EvidenceStays, CoverStays DEF Inv
  <2>8. OneVerdict'
    <3>1. \A n \in DOMAIN runs : runs[n].snapshot # row.snapshot \/ runs[n].policy # row.policy
      BY <1>4, <2>2 DEF Stored
    <3>2. \A n \in DOMAIN runs : runs[n].policy \in registered
      BY DEF Inv, Tables
    <3>3. row.policy \in registered
      BY <1>2, <2>2 DEF ReconcileOK
    <3>4. \A n \in DOMAIN runs :
             runs[n].snapshot # row.snapshot \/ runs[n].policy.version # row.policy.version
      BY <3>1, <3>2, <3>3 DEF Inv, OnePolicy
    <3> SUFFICES ASSUME NEW m \in DOMAIN runs', NEW n \in DOMAIN runs',
                        runs'[m].snapshot = runs'[n].snapshot,
                        runs'[m].policy.version = runs'[n].policy.version
                 PROVE  m = n
      BY DEF OneVerdict
    <3>5. m \in DOMAIN runs \/ m = Len(runs) + 1
      BY <2>4
    <3>6. n \in DOMAIN runs \/ n = Len(runs) + 1
      BY <2>4
    <3>7. CASE m \in DOMAIN runs /\ n \in DOMAIN runs
      BY <3>7, <2>4 DEF Inv, OneVerdict
    <3>8. CASE m \in DOMAIN runs /\ n = Len(runs) + 1
      BY <3>8, <3>4, <2>4
    <3>9. CASE n \in DOMAIN runs /\ m = Len(runs) + 1
      BY <3>9, <3>4, <2>4
    <3> QED BY <3>5, <3>6, <3>7, <3>8, <3>9
  <2>9. StatusIsHonest'
    <3>1. row.status # "BLOCKED" => BadKeys(row) = {}
      BY <1>2, <2>2 DEF ReconcileOK, BadKeys
    <3> SUFFICES ASSUME NEW n \in DOMAIN runs', runs'[n].status # "BLOCKED"
                 PROVE  BadKeys(runs'[n]) = {}
      BY DEF StatusIsHonest, BadKeys
    <3>2. CASE n \in DOMAIN runs
      BY <3>2, <2>4 DEF Inv, StatusIsHonest
    <3>3. CASE n = Len(runs) + 1
      BY <3>3, <3>1, <2>4
    <3> QED BY <2>4, <3>2, <3>3
  <2>10. \A n \in DOMAIN runs' : runs'[n].snapshot \in DOMAIN snaps' /\ runs'[n].policy \in registered'
    <3> SUFFICES ASSUME NEW n \in DOMAIN runs'
                 PROVE  runs'[n].snapshot \in DOMAIN snaps /\ runs'[n].policy \in registered
      BY <1>1
    <3>1. CASE n \in DOMAIN runs
      BY <3>1, <2>4 DEF Inv, Tables
    <3>2. CASE n = Len(runs) + 1
      BY <3>2, <2>2, <2>4, <1>2 DEF ReconcileOK
    <3> QED BY <2>4, <3>1, <3>2
  <2>11. Len(runs) <= Len(runs') /\ Len(runs') \in Nat
    BY <2>4
  <2>12. Tables'
    BY <1>1, <2>4, <2>5, <2>6, <2>10, <2>11, RowsStay DEF Inv, Tables
  <2> QED BY <1>1, <2>6, <2>7, <2>8, <2>9, <2>12 DEF Inv, OnePolicy
<1> QED BY <1>3, <1>4 DEF Persist

LEMMA TickStep == ASSUME Inv, Tick PROVE Inv'
<1>1. now' = now + 1 /\ now < MaxTime /\ UNCHANGED <<snaps, registered, runs, resolved, auth, intents, job>>
  BY DEF Tick, tables
<1>2. now' \in Time
  BY <1>1, ReconciliationAssumption DEF Inv, Tables, Time
<1>3. Issues' = Issues
  BY <1>1 DEF Issues, BadKeys
<1>4. Tables'
  BY <1>1, <1>2, <1>3 DEF Inv, Tables
<1>5. JobsOK'
  BY <1>1, <1>3 DEF Inv, JobsOK, JobOK, ReconcileOK, ResolveOK, AuthorizeOK, BadKeys, GoodKeys
<1>6. /\ EvidenceNotOlder' /\ IntentIsCovered' /\ OneVerdict' /\ StatusIsHonest' /\ OnePolicy'
  BY <1>1 DEF Inv, EvidenceNotOlder, IntentIsCovered, OneVerdict, StatusIsHonest, OnePolicy, BadKeys, GoodKeys
<1> QED BY <1>4, <1>5, <1>6 DEF Inv

LEMMA StutterStep == ASSUME Inv, UNCHANGED vars PROVE Inv'
<1>1. UNCHANGED <<now, snaps, registered, runs, resolved, auth, intents, job>>
  BY DEF vars, tables
<1>3. Issues' = Issues
  BY <1>1 DEF Issues, BadKeys
<1>4. Tables'
  BY <1>1, <1>3 DEF Inv, Tables
<1>5. JobsOK'
  BY <1>1, <1>3 DEF Inv, JobsOK, JobOK, ReconcileOK, ResolveOK, AuthorizeOK, BadKeys, GoodKeys
<1>6. /\ EvidenceNotOlder' /\ IntentIsCovered' /\ OneVerdict' /\ StatusIsHonest' /\ OnePolicy'
  BY <1>1 DEF Inv, EvidenceNotOlder, IntentIsCovered, OneVerdict, StatusIsHonest, OnePolicy, BadKeys, GoodKeys
<1> QED BY <1>4, <1>5, <1>6 DEF Inv

LEMMA InitHolds == ASSUME Init PROVE Inv
<1>1. /\ now = 0 /\ snaps = <<>> /\ registered = {} /\ runs = <<>>
      /\ resolved = {} /\ auth = {} /\ intents = {} /\ job = [p \in Procs |-> Idle]
  BY DEF Init
<1>2. Tables
  <2>1. now \in Time
    BY <1>1, ReconciliationAssumption DEF Time
  <2>2. <<>> \in Seq(Snapshot) /\ <<>> \in Seq(Run) /\ DOMAIN <<>> = {}
    OBVIOUS
  <2> QED BY <1>1, <2>1, <2>2 DEF Tables
<1>3. JobsOK
  BY <1>1, IdleOK DEF JobsOK
<1>4. OnePolicy /\ EvidenceNotOlder /\ IntentIsCovered /\ OneVerdict /\ StatusIsHonest
  BY <1>1 DEF OnePolicy, EvidenceNotOlder, IntentIsCovered, OneVerdict, StatusIsHonest
<1> QED BY <1>2, <1>3, <1>4 DEF Inv

LEMMA CallStep == ASSUME Inv, NEW p \in Procs, Call(p) PROVE Inv'
<1>1. CASE \E s \in DOMAIN snaps, policy \in Policies, at \in Time, book \in DOMAIN Books :
              Reconcile(p, s, policy, at, book)
  BY <1>1, ReconcileStep
<1>2. CASE \E rank \in 1..MaxRuns : Persist(p, rank)
  BY <1>2, PersistStep
<1>3. CASE \E issue \in OpenIssues, n \in DOMAIN runs : Resolve(p, issue, n)
  BY <1>3, ResolveStep
<1>4. CASE RecordResolution(p)
  BY <1>4, RecordResolutionStep
<1>5. CASE \E i \in Intents, n \in DOMAIN runs : TradeGate(p, i, n)
  BY <1>5, TradeGateStep
<1>8. CASE Authorize(p)
  BY <1>8, AuthorizeStep
<1>6. CASE RecordAuthorization(p)
  BY <1>6, RecordAuthorizationStep
<1>7. CASE Crash(p)
  BY <1>7, CrashStep
<1> QED BY <1>1, <1>2, <1>3, <1>4, <1>5, <1>6, <1>7, <1>8 DEF Call

LEMMA NextStep == ASSUME Inv, [Next]_vars PROVE Inv'
<1>1. CASE \E p \in Procs : Call(p)
  BY <1>1, CallStep
<1>2. CASE \E i \in Intents, runtime \in Runtimes : InsertIntent(i, runtime)
  BY <1>2, InsertIntentStep
<1>3. CASE \E runtime \in Runtimes, payload \in DOMAIN Payloads : Capture(runtime, payload)
  BY <1>3, CaptureStep
<1>4. CASE Tick
  BY <1>4, TickStep
<1>5. CASE UNCHANGED vars
  BY <1>5, StutterStep
<1> QED BY <1>1, <1>2, <1>3, <1>4, <1>5 DEF Next

(* The invariant holds in every reachable state. *)
THEOREM Invariance == Spec => []Inv
<1>1. Init => Inv
  BY InitHolds
<1>2. Inv /\ [Next]_vars => Inv'
  BY NextStep
<1> QED BY <1>1, <1>2, PTL DEF Spec

-----------------------------------------------------------------------------
(* Every row of the reconciliation tables has its type, and points only to *)
(* rows that exist.                                                        *)
THEOREM TypeCorrect == Spec => []TypeOK
<1>1. ASSUME Inv PROVE TypeOK
  <2>1. ASSUME NEW f \in ItemMaps PROVE f \in [DOMAIN f -> ItemStatuses]
    <3>1. PICK a \in DOMAIN Payloads : f \in UNION {MapsOf(a, b) : b \in DOMAIN Books}
      BY <2>1 DEF ItemMaps
    <3>2. PICK b \in DOMAIN Books : f \in MapsOf(a, b)
      BY <3>1
    <3> QED BY <3>2 DEF MapsOf
  <2>2. ASSUME NEW n \in DOMAIN runs
        PROVE  /\ runs[n].at \in Time /\ runs[n].book \in DOMAIN Books /\ runs[n].items \in ItemMaps
               /\ runs[n].status \in Statuses /\ runs[n].rank \in 1..MaxRuns
    <3>1. runs[n] \in Run
      BY <1>1, RowTypes DEF Inv
    <3> QED BY <3>1 DEF Run
  <2> QED BY <1>1, <2>1, <2>2 DEF Inv, Tables, TypeOK
<1> QED BY <1>1, Invariance, PTL

(* An issue is closed only on evidence from the same instant or later that *)
(* finds the same dimension in order (resolve_issue).                      *)
THEOREM EvidenceTheorem == Spec => []EvidenceNotOlder
BY Invariance, PTL DEF Inv

(* The guard of the intent table lets an intent in only over a clean,      *)
(* newest run with every earlier finding answered, whatever happens        *)
(* between the gate, the authorization and the insert.                     *)
THEOREM CoverTheorem == Spec => []IntentIsCovered
BY Invariance, PTL DEF Inv

(* A snapshot has one verdict under a policy version (reconcile).          *)
THEOREM VerdictTheorem == Spec => []OneVerdict
BY Invariance, PTL DEF Inv

(* A run that is not BLOCKED has no bad item (reconcile).                  *)
THEOREM StatusTheorem == Spec => []StatusIsHonest
BY Invariance, PTL DEF Inv

-----------------------------------------------------------------------------
(* What a clean comparison means.  Every fact of one side meets a fact of  *)
(* the same target and dimension on the other; read back through the lists *)
(* of facts, target by target, that is the agreement of the two accounts.  *)

Agrees(rules, f, g) ==
    /\ f.numeric = g.numeric
    /\ ~f.numeric => f.words = g.words
    /\ f.numeric => \/ Distance(f, g) = 0
                    \/ \E r \in rules : r.target = f.target /\ Distance(f, g) <= r.absolute

CleanPair(B, I, rules) ==
    /\ Unambiguous(B) /\ Unambiguous(I)
    /\ \A k \in ItemKeys(B, I) : StatusOf(B, I, rules, k) \in Good

(* The fact at the key of a fact is that fact. *)
LEMMA FactIs ==
    ASSUME NEW F, Unambiguous(F), NEW f \in F
    PROVE  FactAt(F, KeyOf(f)) = f /\ KeyOf(f) \in KeysOf(F)
<1>1. FactAt(F, KeyOf(f)) \in F /\ KeyOf(FactAt(F, KeyOf(f))) = KeyOf(f)
  BY DEF FactAt
<1> QED BY <1>1 DEF Unambiguous, KeysOf

(* A good item is one of two facts that agree. *)
LEMMA GoodItem ==
    ASSUME NEW B, NEW I, NEW rules, NEW k, StatusOf(B, I, rules, k) \in Good
    PROVE  /\ k \in KeysOf(B) /\ k \in KeysOf(I)
           /\ Agrees(rules, FactAt(B, k), FactAt(I, k))
<1> DEFINE f == FactAt(B, k)
           g == FactAt(I, k)
<1>1. ~(k \notin KeysOf(B) \cap KeysOf(I) \/ f.numeric # g.numeric)
  <2>1. "UNVERIFIABLE" \notin Good
    BY DEF Good
  <2> QED BY <2>1 DEF StatusOf
<1>2. ~f.numeric => f.words = g.words
  <2>1. "MISMATCH" \notin Good
    BY DEF Good
  <2> QED BY <1>1, <2>1 DEF StatusOf
<1>3. ASSUME f.numeric
      PROVE  Distance(f, g) = 0 \/ \E r \in Strictest(rules, f) : Distance(f, g) <= r.absolute
  <2>1. "MISMATCH" \notin Good /\ "UNVERIFIABLE" \notin Good
    BY DEF Good
  <2> QED BY <1>1, <1>3, <2>1 DEF StatusOf
<1>4. \A r \in Strictest(rules, f) : r \in rules /\ r.target = f.target
  BY DEF Strictest, Applies
<1> HIDE DEF f, g
<1>5. Agrees(rules, f, g)
  BY <1>1, <1>2, <1>3, <1>4 DEF Agrees
<1> QED BY <1>1, <1>5 DEF f, g

(* In a clean comparison each fact of one side has its partner. *)
LEMMA Partner ==
    ASSUME NEW B, NEW I, NEW rules, CleanPair(B, I, rules)
    PROVE  /\ \A f \in B : \E g \in I : KeyOf(g) = KeyOf(f) /\ Agrees(rules, f, g)
           /\ \A g \in I : \E f \in B : KeyOf(f) = KeyOf(g) /\ Agrees(rules, f, g)
<1>1. KeysOf(B) \cup KeysOf(I) \subseteq ItemKeys(B, I)
  BY DEF ItemKeys
<1>2. ASSUME NEW f \in B
      PROVE  \E g \in I : KeyOf(g) = KeyOf(f) /\ Agrees(rules, f, g)
  <2>1. FactAt(B, KeyOf(f)) = f /\ KeyOf(f) \in KeysOf(B)
    BY FactIs DEF CleanPair
  <2>2. KeyOf(f) \in KeysOf(I) /\ Agrees(rules, f, FactAt(I, KeyOf(f)))
    BY <1>1, <2>1, GoodItem DEF CleanPair
  <2>3. PICK g \in I : KeyOf(g) = KeyOf(f)
    BY <2>2 DEF KeysOf
  <2>4. FactAt(I, KeyOf(f)) = g
    BY <2>3, FactIs DEF CleanPair
  <2> QED BY <2>2, <2>3, <2>4
<1>3. ASSUME NEW g \in I
      PROVE  \E f \in B : KeyOf(f) = KeyOf(g) /\ Agrees(rules, f, g)
  <2>1. FactAt(I, KeyOf(g)) = g /\ KeyOf(g) \in KeysOf(I)
    BY FactIs DEF CleanPair
  <2>2. KeyOf(g) \in KeysOf(B) /\ Agrees(rules, FactAt(B, KeyOf(g)), g)
    BY <1>1, <2>1, GoodItem DEF CleanPair
  <2>3. PICK f \in B : KeyOf(f) = KeyOf(g)
    BY <2>2 DEF KeysOf
  <2>4. FactAt(B, KeyOf(g)) = f
    BY <2>3, FactIs DEF CleanPair
  <2> QED BY <2>2, <2>3, <2>4
<1> QED BY <1>2, <1>3

(* No target is left out. *)
LEMMA TargetCovered ==
    ASSUME NEW B, NEW I, NEW rules, CleanPair(B, I, rules), NEW t \in Targets
    PROVE  (\E f \in B : f.target = t) /\ (\E g \in I : g.target = t)
<1> DEFINE keys == KeysOf(B) \cup KeysOf(I)
<1>1. CASE t \notin {k[1] : k \in keys}
  <2>1. <<t, Whole>> \in ItemKeys(B, I)
    BY <1>1 DEF ItemKeys
  <2>2. <<t, Whole>> \in KeysOf(B)
    BY <2>1, GoodItem DEF CleanPair
  <2>3. <<t, Whole>>[1] = t
    OBVIOUS
  <2> QED BY <1>1, <2>2, <2>3
<1>2. CASE t \in {k[1] : k \in keys}
  <2>1. PICK k \in keys : k[1] = t
    BY <1>2
  <2>2. k \in KeysOf(B) /\ k \in KeysOf(I)
    BY GoodItem DEF CleanPair, ItemKeys
  <2>3. PICK f \in B, g \in I : k = KeyOf(f) /\ k = KeyOf(g)
    BY <2>2 DEF KeysOf
  <2>4. f.target = t /\ g.target = t
    BY <2>1, <2>3 DEF KeyOf
  <2> QED BY <2>4
<1> QED BY <1>1, <1>2

(* Facts as records. *)
LEMMA NumericFields ==
    \A t, d, n, c, i :
        /\ Numeric(t, d, n, c, i).target = t /\ Numeric(t, d, n, c, i).dimension = d
        /\ Numeric(t, d, n, c, i).numeric = TRUE /\ Numeric(t, d, n, c, i).number = n
        /\ KeyOf(Numeric(t, d, n, c, i)) = <<t, d>>
BY DEF Numeric, KeyOf

LEMMA TextualFields ==
    \A t, d, w :
        /\ Textual(t, d, w).target = t /\ Textual(t, d, w).dimension = d
        /\ Textual(t, d, w).numeric = FALSE /\ Textual(t, d, w).words = w
        /\ KeyOf(Textual(t, d, w)) = <<t, d>>
BY DEF Textual, KeyOf

(* Numbers that agree are near. *)
LEMMA Nearness ==
    ASSUME NEW rules, \A r \in rules : r.absolute \in Int, NEW f, NEW g, f.numeric = TRUE,
           Agrees(rules, f, g), f.number \in Int, g.number \in Int
    PROVE  Near(rules, f.target, f.number, g.number)
<1>1. Distance(f, g) = 0 \/ \E r \in rules : r.target = f.target /\ Distance(f, g) <= r.absolute
  BY DEF Agrees
<1>2. CASE Distance(f, g) = 0
  <2>1. f.number = g.number
    BY <1>2 DEF Distance
  <2> QED BY <2>1 DEF Near
<1>3. ASSUME NEW r \in rules, r.target = f.target, Distance(f, g) <= r.absolute
      PROVE  Near(rules, f.target, f.number, g.number)
  <2>1. f.number - g.number <= r.absolute /\ g.number - f.number <= r.absolute
    BY <1>3 DEF Distance
  <2> QED BY <1>3, <2>1 DEF Near
<1> QED BY <1>1, <1>2, <1>3

(* The metrics of an execution are compared under three targets. *)
LEMMA MetricTargets ==
    ASSUME NEW o, DOMAIN o.filled \subseteq DOMAIN MetricTarget, NEW m \in DOMAIN o.filled
    PROVE  MetricTarget[m] \in {"CUMULATIVE_EXECUTION", "COMMISSION", "TAX"}
<1>1. m \in {"quantity", "amount", "commission", "tax"}
  BY DEF MetricTarget
<1> QED BY <1>1 DEF MetricTarget

(* A fact about an order, by its target. *)
LEMMA OrderFactTargets ==
    ASSUME NEW o, DOMAIN o.filled \subseteq DOMAIN MetricTarget
    PROVE  /\ \A f \in OpenOrder(o) : f.target = "OPEN_ORDERS"
           /\ \A f \in Executed(o) :
                 \/ f = Textual("SETTLEMENT_DATE", <<o.id>>, {o.settlement})
                 \/ \E m \in DOMAIN o.filled :
                       f = Numeric(MetricTarget[m], <<o.id, m>>, o.filled[m], o.currency, o.instrument)
           /\ \A f \in Executed(o) :
                 f.target \in {"CUMULATIVE_EXECUTION", "COMMISSION", "TAX", "SETTLEMENT_DATE"}
<1>1. \A f \in OpenOrder(o) : f.target = "OPEN_ORDERS"
  BY DEF OpenOrder, Numeric, Textual
<1>2. \A f \in Executed(o) :
         \/ f = Textual("SETTLEMENT_DATE", <<o.id>>, {o.settlement})
         \/ \E m \in DOMAIN o.filled :
               f = Numeric(MetricTarget[m], <<o.id, m>>, o.filled[m], o.currency, o.instrument)
  BY DEF Executed
<1>3. \A f \in Executed(o) :
         f.target \in {"CUMULATIVE_EXECUTION", "COMMISSION", "TAX", "SETTLEMENT_DATE"}
  <2> SUFFICES ASSUME NEW f \in Executed(o)
               PROVE  f.target \in {"CUMULATIVE_EXECUTION", "COMMISSION", "TAX", "SETTLEMENT_DATE"}
    OBVIOUS
  <2>1. CASE f = Textual("SETTLEMENT_DATE", <<o.id>>, {o.settlement})
    BY <2>1, NumericFields, TextualFields
  <2>2. ASSUME NEW m \in DOMAIN o.filled,
               f = Numeric(MetricTarget[m], <<o.id, m>>, o.filled[m], o.currency, o.instrument)
        PROVE  f.target \in {"CUMULATIVE_EXECUTION", "COMMISSION", "TAX"}
    BY <2>2, MetricTargets, NumericFields, TextualFields
  <2> QED BY <1>2, <2>1, <2>2
<1> QED BY <1>1, <1>2, <1>3

(* The target of a fact tells which part of its side it comes from. *)
LEMMA PartTargets ==
    ASSUME NEW p, NEW b, NEW open, NEW orders,
           \A o \in orders : DOMAIN o.filled \subseteq DOMAIN MetricTarget
    PROVE  /\ \A f \in BrokerHoldings(p) \cup LedgerHoldings(b) : f.target = "HOLDINGS"
           /\ \A f \in BrokerSellable(p) \cup LedgerSellable(b) : f.target = "SELLABLE_QUANTITY"
           /\ \A f \in BrokerMoney(p) \cup LedgerMoney(b) : f.target \in {"CASH", "BUYING_POWER"}
           /\ \A f \in BrokerStates(p) \cup LedgerStates(b) : f.target = "ORDER_STATE"
           /\ \A f \in OpenFacts(open) : f.target = "OPEN_ORDERS"
           /\ \A f \in ExecutionFacts(orders) : f.target \in OrderTargets
<1>1. \A s, q, c, u : \A f \in Holding(s, q, c, u) : f.target = "HOLDINGS"
  BY DEF Numeric, Holding
<1>2. \A f \in BrokerHoldings(p) \cup LedgerHoldings(b) : f.target = "HOLDINGS"
  <2>1. \A f \in BrokerHoldings(p) : f.target = "HOLDINGS"
    <3> DEFINE D1 == UNION {Holding(h.symbol, h.quantity, h.cost, h.currency) : h \in p.holdings}
               D2 == {Textual("HOLDINGS", Whole, {h.symbol : h \in p.holdings})}
    <3>1. \A f \in D1 : f.target = "HOLDINGS"
      BY <1>1
    <3>2. \A f \in D2 : f.target = "HOLDINGS"
      BY TextualFields
    <3>3. BrokerHoldings(p) = D2 \cup D1
      BY DEF BrokerHoldings
    <3> HIDE DEF D1, D2
    <3> QED BY <3>1, <3>2, <3>3
  <2>2. \A f \in LedgerHoldings(b) : f.target = "HOLDINGS"
    <3> DEFINE D1 == UNION {Holding(s, b.positions[s].quantity, b.positions[s].cost,
                                    b.positions[s].currency) : s \in Held(b)}
               D2 == {Textual("HOLDINGS", Whole, Held(b))}
    <3>1. \A f \in D1 : f.target = "HOLDINGS"
      BY <1>1
    <3>2. \A f \in D2 : f.target = "HOLDINGS"
      BY TextualFields
    <3>3. LedgerHoldings(b) = D2 \cup D1
      BY DEF LedgerHoldings
    <3> HIDE DEF D1, D2
    <3> QED BY <3>1, <3>2, <3>3
  <2> QED BY <2>1, <2>2
<1>3. \A f \in BrokerSellable(p) \cup LedgerSellable(b) : f.target = "SELLABLE_QUANTITY"
  <2>1. \A f \in NoSellable : f.target = "SELLABLE_QUANTITY"
    BY DEF Textual, NoSellable
  <2>2. \A f \in BrokerSellable(p) : f.target = "SELLABLE_QUANTITY"
    BY <2>1 DEF Numeric, BrokerSellable
  <2>3. \A f \in LedgerSellable(b) : f.target = "SELLABLE_QUANTITY"
    BY <2>1 DEF Numeric, LedgerSellable
  <2> QED BY <2>2, <2>3
<1>4. \A f \in BrokerMoney(p) \cup LedgerMoney(b) : f.target \in {"CASH", "BUYING_POWER"}
  <2>1. \A f \in BrokerMoney(p) : f.target \in {"CASH", "BUYING_POWER"}
    BY DEF Numeric, BrokerMoney
  <2>2. \A f \in LedgerMoney(b) : f.target \in {"CASH", "BUYING_POWER"}
    BY DEF Numeric, LedgerMoney
  <2> QED BY <2>1, <2>2
<1>5. \A f \in BrokerStates(p) \cup LedgerStates(b) : f.target = "ORDER_STATE"
  <2>1. \A f \in BrokerStates(p) : f.target = "ORDER_STATE"
    BY DEF Textual, BrokerStates, StateFact
  <2>2. \A f \in LedgerStates(b) : f.target = "ORDER_STATE"
    BY DEF Textual, LedgerStates, StateFact
  <2> QED BY <2>1, <2>2
<1>6. \A f \in OpenFacts(open) : f.target = "OPEN_ORDERS"
  <2>1. \A o : \A f \in OpenOrder(o) : f.target = "OPEN_ORDERS"
    BY DEF OpenOrder, Numeric, Textual
  <2> QED BY <2>1, TextualFields DEF OpenFacts
<1>7. \A f \in ExecutionFacts(orders) : f.target \in OrderTargets
  <2>1. \A f \in EmptyOrders : f.target \in OrderTargets
    BY DEF Textual, EmptyOrders
  <2>2. \A o \in orders : \A f \in Executed(o) : f.target \in OrderTargets
    BY OrderFactTargets DEF OrderTargets
  <2> QED BY <2>1, <2>2 DEF ExecutionFacts
<1> QED BY <1>2, <1>3, <1>4, <1>5, <1>6, <1>7

(* Two sets of facts of which each fact has its partner in the other. *)
Meet(rules, F, G) ==
    /\ \A f \in F : \E g \in G : KeyOf(g) = KeyOf(f) /\ Agrees(rules, f, g)
    /\ \A g \in G : \E f \in F : KeyOf(f) = KeyOf(g) /\ Agrees(rules, f, g)

LEMMA OrdersKnown ==
    ASSUME NEW p, PayloadOK(p) PROVE RowsOK(OrdersOf(p))
<1>1. \A o \in OrdersOf(p) :
         \/ o \in p.details
         \/ o \in p.closed /\ o.id \notin {x.id : x \in p.details}
         \/ o \in p.open /\ o.id \notin {x.id : x \in p.details} \cup {x.id : x \in p.closed}
  BY DEF OrdersOf
<1>2. RowsOK(p.open) /\ RowsOK(p.closed) /\ RowsOK(p.details)
  BY DEF PayloadOK
<1>3. ASSUME NEW o \in OrdersOf(p), NEW x \in OrdersOf(p), o.id = x.id PROVE o = x
  BY <1>1, <1>2, <1>3 DEF RowsOK
<1>4. ASSUME NEW o \in OrdersOf(p)
      PROVE  /\ o.executed \in BOOLEAN
             /\ DOMAIN o.filled \subseteq DOMAIN MetricTarget
             /\ \A f \in DOMAIN o.filled : o.filled[f] \in Int
  <2>1. o \in p.open \/ o \in p.closed \/ o \in p.details
    BY <1>1
  <2> QED BY <1>2, <2>1 DEF RowsOK
<1> QED BY <1>3, <1>4 DEF RowsOK

(* Partners have one target, so the parts of the two sides meet. *)
LEMMA PartsMeet ==
    ASSUME NEW p, PayloadOK(p), NEW b, BookOK(b), NEW rules,
           CleanPair(BrokerFacts(p), InternalFacts(b), rules)
    PROVE  /\ Meet(rules, BrokerHoldings(p), LedgerHoldings(b))
           /\ Meet(rules, BrokerSellable(p), LedgerSellable(b))
           /\ Meet(rules, BrokerMoney(p), LedgerMoney(b))
           /\ Meet(rules, OpenFacts(p.open), OpenFacts(LedgerOpen(b)))
           /\ Meet(rules, BrokerStates(p) \cup ExecutionFacts(OrdersOf(p)),
                          LedgerStates(b) \cup ExecutionFacts(b.orders))
<1> DEFINE B1 == BrokerHoldings(p)
           B2 == BrokerSellable(p)
           B3 == BrokerMoney(p)
           B4 == OpenFacts(p.open)
           B5 == BrokerStates(p) \cup ExecutionFacts(OrdersOf(p))
           I1 == LedgerHoldings(b)
           I2 == LedgerSellable(b)
           I3 == LedgerMoney(b)
           I4 == OpenFacts(LedgerOpen(b))
           I5 == LedgerStates(b) \cup ExecutionFacts(b.orders)
           B == BrokerFacts(p)
           I == InternalFacts(b)
<1>1. B = B1 \cup B2 \cup B3 \cup B4 \cup B5 /\ I = I1 \cup I2 \cup I3 \cup I4 \cup I5
  BY DEF BrokerFacts, InternalFacts
<1>2. /\ \A o \in OrdersOf(p) : DOMAIN o.filled \subseteq DOMAIN MetricTarget
      /\ \A o \in b.orders : DOMAIN o.filled \subseteq DOMAIN MetricTarget
  BY OrdersKnown DEF RowsOK, BookOK
<1>3. "ORDER_STATE" \in OrderTargets
  BY DEF OrderTargets
<1>4. /\ \A f \in B1 \cup I1 : f.target = "HOLDINGS"
      /\ \A f \in B2 \cup I2 : f.target = "SELLABLE_QUANTITY"
      /\ \A f \in B3 \cup I3 : f.target \in {"CASH", "BUYING_POWER"}
      /\ \A f \in B4 : f.target = "OPEN_ORDERS"
      /\ \A f \in B5 : f.target \in OrderTargets
  BY <1>2, <1>3, PartTargets
<1>5. /\ \A f \in I4 : f.target = "OPEN_ORDERS"
      /\ \A f \in I5 : f.target \in OrderTargets
  BY <1>2, <1>3, PartTargets
<1>6. /\ \A f \in B : \E g \in I : KeyOf(g) = KeyOf(f) /\ Agrees(rules, f, g)
      /\ \A g \in I : \E f \in B : KeyOf(f) = KeyOf(g) /\ Agrees(rules, f, g)
  BY Partner
<1> HIDE DEF B, I, B1, B2, B3, B4, B5, I1, I2, I3, I4, I5
<1>7. \A f, g : KeyOf(f) = KeyOf(g) => f.target = g.target
  BY DEF KeyOf
<1>8. OrderTargets \cap {"HOLDINGS", "SELLABLE_QUANTITY", "CASH", "BUYING_POWER", "OPEN_ORDERS"} = {}
  BY DEF OrderTargets
<1>9. ASSUME NEW f \in B, NEW g \in I, KeyOf(f) = KeyOf(g)
      PROVE  /\ f \in B1 <=> g \in I1
             /\ f \in B2 <=> g \in I2
             /\ f \in B3 <=> g \in I3
             /\ f \in B4 <=> g \in I4
             /\ f \in B5 <=> g \in I5
  <2>1. f.target = g.target
    BY <1>7, <1>9
  <2>2. /\ f \in B1 \/ f \in B2 \/ f \in B3 \/ f \in B4 \/ f \in B5
        /\ g \in I1 \/ g \in I2 \/ g \in I3 \/ g \in I4 \/ g \in I5
    BY <1>1
  <2> QED BY <1>4, <1>5, <1>8, <2>1, <2>2
<1>10. Meet(rules, B1, I1)
  BY <1>1, <1>6, <1>9 DEF Meet
<1>11. Meet(rules, B2, I2)
  BY <1>1, <1>6, <1>9 DEF Meet
<1>12. Meet(rules, B3, I3)
  BY <1>1, <1>6, <1>9 DEF Meet
<1>13. Meet(rules, B4, I4)
  BY <1>1, <1>6, <1>9 DEF Meet
<1>14. Meet(rules, B5, I5)
  BY <1>1, <1>6, <1>9 DEF Meet
<1> QED BY <1>10, <1>11, <1>12, <1>13, <1>14 DEF B1, B2, B3, B4, B5, I1, I2, I3, I4, I5

(* The facts of a part, as the lists give them. *)
LEMMA HoldingsAre ==
    ASSUME NEW p, NEW b
    PROVE  /\ Textual("HOLDINGS", Whole, {h.symbol : h \in p.holdings}) \in BrokerHoldings(p)
           /\ Textual("HOLDINGS", Whole, Held(b)) \in LedgerHoldings(b)
           /\ \A h \in p.holdings :
                 /\ Numeric("HOLDINGS", <<h.symbol, "quantity">>, h.quantity, h.currency, h.symbol)
                       \in BrokerHoldings(p)
                 /\ Numeric("HOLDINGS", <<h.symbol, "average_cost">>, h.cost, h.currency, h.symbol)
                       \in BrokerHoldings(p)
           /\ \A g \in LedgerHoldings(b) :
                 \/ g = Textual("HOLDINGS", Whole, Held(b))
                 \/ \E s \in Held(b) :
                       \/ g = Numeric("HOLDINGS", <<s, "quantity">>, b.positions[s].quantity,
                                      b.positions[s].currency, s)
                       \/ g = Numeric("HOLDINGS", <<s, "average_cost">>, b.positions[s].cost,
                                      b.positions[s].currency, s)
<1>1. /\ Textual("HOLDINGS", Whole, {h.symbol : h \in p.holdings}) \in BrokerHoldings(p)
      /\ Textual("HOLDINGS", Whole, Held(b)) \in LedgerHoldings(b)
  BY DEF BrokerHoldings, LedgerHoldings
<1>2. ASSUME NEW h \in p.holdings
      PROVE  /\ Numeric("HOLDINGS", <<h.symbol, "quantity">>, h.quantity, h.currency, h.symbol)
                   \in BrokerHoldings(p)
             /\ Numeric("HOLDINGS", <<h.symbol, "average_cost">>, h.cost, h.currency, h.symbol)
                   \in BrokerHoldings(p)
  <2>1. Holding(h.symbol, h.quantity, h.cost, h.currency) \subseteq BrokerHoldings(p)
    BY DEF BrokerHoldings
  <2> QED BY <2>1 DEF Holding
<1>3. ASSUME NEW g \in LedgerHoldings(b)
      PROVE  \/ g = Textual("HOLDINGS", Whole, Held(b))
             \/ \E s \in Held(b) :
                   \/ g = Numeric("HOLDINGS", <<s, "quantity">>, b.positions[s].quantity,
                                  b.positions[s].currency, s)
                   \/ g = Numeric("HOLDINGS", <<s, "average_cost">>, b.positions[s].cost,
                                  b.positions[s].currency, s)
  <2>1. \/ g = Textual("HOLDINGS", Whole, Held(b))
        \/ \E s \in Held(b) : g \in Holding(s, b.positions[s].quantity, b.positions[s].cost,
                                            b.positions[s].currency)
    BY DEF LedgerHoldings
  <2> QED BY <2>1 DEF Holding
<1> QED BY <1>1, <1>2, <1>3

(* The same securities, with near quantities and costs. *)
LEMMA HoldingsAgree ==
    ASSUME NEW p, PayloadOK(p), NEW b, BookOK(b), NEW rules,
           \A r \in rules : r.absolute \in Int,
           Meet(rules, BrokerHoldings(p), LedgerHoldings(b))
    PROVE  /\ {h.symbol : h \in p.holdings} = Held(b)
           /\ \A h \in p.holdings :
                 /\ Near(rules, "HOLDINGS", h.quantity, b.positions[h.symbol].quantity)
                 /\ Near(rules, "HOLDINGS", h.cost, b.positions[h.symbol].cost)
<1> DEFINE names == {h.symbol : h \in p.holdings}
           whole == Textual("HOLDINGS", Whole, names)
           mine == Textual("HOLDINGS", Whole, Held(b))
           amount(s) == Numeric("HOLDINGS", <<s, "quantity">>, b.positions[s].quantity,
                                b.positions[s].currency, s)
           price(s) == Numeric("HOLDINGS", <<s, "average_cost">>, b.positions[s].cost,
                               b.positions[s].currency, s)
<1>1. /\ whole \in BrokerHoldings(p)
      /\ \A g \in LedgerHoldings(b) :
            g = mine \/ \E s \in Held(b) : g = amount(s) \/ g = price(s)
  BY HoldingsAre
<1>2. /\ whole.numeric = FALSE /\ whole.words = names
      /\ mine.numeric = FALSE /\ mine.words = Held(b)
  BY TextualFields
<1>3. \A s : /\ amount(s).numeric = TRUE /\ amount(s).number = b.positions[s].quantity
             /\ KeyOf(amount(s)) = <<"HOLDINGS", <<s, "quantity">>>>
             /\ price(s).numeric = TRUE /\ price(s).number = b.positions[s].cost
             /\ KeyOf(price(s)) = <<"HOLDINGS", <<s, "average_cost">>>>
  BY NumericFields
<1> HIDE DEF names, whole, mine, amount, price
<1>4. names = Held(b)
  <2>1. PICK g \in LedgerHoldings(b) : KeyOf(g) = KeyOf(whole) /\ Agrees(rules, whole, g)
    BY <1>1 DEF Meet
  <2>2. g.numeric = FALSE /\ g.words = names
    BY <1>2, <2>1 DEF Agrees
  <2>3. g = mine
    BY <1>1, <1>3, <2>2
  <2> QED BY <1>2, <2>2, <2>3
<1>5. ASSUME NEW h \in p.holdings
      PROVE  /\ Near(rules, "HOLDINGS", h.quantity, b.positions[h.symbol].quantity)
             /\ Near(rules, "HOLDINGS", h.cost, b.positions[h.symbol].cost)
  <2> DEFINE f1 == Numeric("HOLDINGS", <<h.symbol, "quantity">>, h.quantity, h.currency, h.symbol)
             f2 == Numeric("HOLDINGS", <<h.symbol, "average_cost">>, h.cost, h.currency, h.symbol)
  <2>1. f1 \in BrokerHoldings(p) /\ f2 \in BrokerHoldings(p)
    BY HoldingsAre
  <2>2. /\ f1.numeric = TRUE /\ f1.number = h.quantity /\ f1.target = "HOLDINGS"
        /\ KeyOf(f1) = <<"HOLDINGS", <<h.symbol, "quantity">>>>
        /\ f2.numeric = TRUE /\ f2.number = h.cost /\ f2.target = "HOLDINGS"
        /\ KeyOf(f2) = <<"HOLDINGS", <<h.symbol, "average_cost">>>>
    BY NumericFields
  <2> HIDE DEF f1, f2
  <2>3. h.quantity \in Int /\ h.cost \in Int
    BY DEF PayloadOK
  <2>4. PICK g1 \in LedgerHoldings(b) : KeyOf(g1) = KeyOf(f1) /\ Agrees(rules, f1, g1)
    BY <2>1 DEF Meet
  <2>5. PICK g2 \in LedgerHoldings(b) : KeyOf(g2) = KeyOf(f2) /\ Agrees(rules, f2, g2)
    BY <2>1 DEF Meet
  <2>6. g1.numeric = TRUE /\ g2.numeric = TRUE
    BY <2>2, <2>4, <2>5 DEF Agrees
  <2>7. g1 = amount(h.symbol) /\ h.symbol \in Held(b)
    BY <1>1, <1>2, <1>3, <2>2, <2>4, <2>6
  <2>8. g2 = price(h.symbol)
    BY <1>1, <1>2, <1>3, <2>2, <2>5, <2>6
  <2>9. b.positions[h.symbol].quantity \in Int /\ b.positions[h.symbol].cost \in Int
    BY <2>7 DEF Held, BookOK
  <2>10. Near(rules, f1.target, f1.number, g1.number)
    BY <1>3, <2>2, <2>3, <2>4, <2>7, <2>9, Nearness
  <2>11. Near(rules, f2.target, f2.number, g2.number)
    BY <1>3, <2>2, <2>3, <2>5, <2>8, <2>9, Nearness
  <2> QED BY <1>3, <2>2, <2>7, <2>8, <2>10, <2>11
<1> QED BY <1>4, <1>5 DEF names

(* What may be sold of each security. *)
LEMMA SellableAgrees ==
    ASSUME NEW p, PayloadOK(p), NEW b, BookOK(b), NEW rules,
           \A r \in rules : r.absolute \in Int,
           Meet(rules, BrokerSellable(p), LedgerSellable(b)), NEW s \in Held(b)
    PROVE  /\ s \in DOMAIN p.sellable
           /\ Near(rules, "SELLABLE_QUANTITY", p.sellable[s], b.positions[s].sellable)
<1> DEFINE g == Numeric("SELLABLE_QUANTITY", <<s>>, b.positions[s].sellable, None, s)
           his(x) == Numeric("SELLABLE_QUANTITY", <<x>>, p.sellable[x], None, x)
           none == Textual("SELLABLE_QUANTITY", Whole, {})
<1>1. g \in LedgerSellable(b)
  BY DEF LedgerSellable
<1>2. \A f \in BrokerSellable(p) : f = none \/ \E x \in DOMAIN p.sellable : f = his(x)
  BY DEF BrokerSellable, NoSellable
<1>3. /\ g.numeric = TRUE /\ g.number = b.positions[s].sellable
      /\ KeyOf(g) = <<"SELLABLE_QUANTITY", <<s>>>>
      /\ none.numeric = FALSE
  BY NumericFields, TextualFields
<1>4. \A x : /\ his(x).numeric = TRUE /\ his(x).number = p.sellable[x]
             /\ his(x).target = "SELLABLE_QUANTITY"
             /\ KeyOf(his(x)) = <<"SELLABLE_QUANTITY", <<x>>>>
  BY NumericFields
<1> HIDE DEF g, his, none
<1>5. PICK f \in BrokerSellable(p) : KeyOf(f) = KeyOf(g) /\ Agrees(rules, f, g)
  BY <1>1 DEF Meet
<1>6. f.numeric = TRUE
  BY <1>3, <1>5 DEF Agrees
<1>7. f = his(s) /\ s \in DOMAIN p.sellable
  BY <1>2, <1>3, <1>4, <1>5, <1>6
<1>8. p.sellable[s] \in Int /\ b.positions[s].sellable \in Int
  BY <1>7 DEF Held, PayloadOK, BookOK
<1>9. Near(rules, f.target, f.number, g.number)
  BY <1>3, <1>4, <1>5, <1>6, <1>7, <1>8, Nearness
<1> QED BY <1>3, <1>4, <1>7, <1>9

(* The same currencies, with near balances and buying powers. *)
LEMMA MoneyAgrees ==
    ASSUME NEW p, PayloadOK(p), NEW b, BookOK(b), DOMAIN b.cash \subseteq b.readable, NEW rules,
           \A r \in rules : r.absolute \in Int,
           Meet(rules, BrokerMoney(p), LedgerMoney(b))
    PROVE  /\ DOMAIN p.cash = DOMAIN b.cash /\ DOMAIN p.buying = DOMAIN b.cash
           /\ \A c \in DOMAIN b.cash :
                 /\ Near(rules, "CASH", p.cash[c], b.cash[c].cash)
                 /\ Near(rules, "BUYING_POWER", p.buying[c], b.cash[c].orderable)
<1> DEFINE f1(c) == Numeric("CASH", <<c>>, p.cash[c], c, None)
           f2(c) == Numeric("BUYING_POWER", <<c>>, p.buying[c], c, None)
           g1(c) == Numeric("CASH", <<c>>, b.cash[c].cash, c, None)
           g2(c) == Numeric("BUYING_POWER", <<c>>, b.cash[c].orderable, c, None)
<1>1. /\ \A c \in DOMAIN p.cash : f1(c) \in BrokerMoney(p)
      /\ \A c \in DOMAIN p.buying : f2(c) \in BrokerMoney(p)
      /\ \A f \in BrokerMoney(p) :
            (\E c \in DOMAIN p.cash : f = f1(c)) \/ (\E c \in DOMAIN p.buying : f = f2(c))
  BY DEF BrokerMoney
<1>2. DOMAIN b.cash \cap b.readable = DOMAIN b.cash
  OBVIOUS
<1>3. LedgerMoney(b) = {g1(c) : c \in DOMAIN b.cash} \cup {g2(c) : c \in DOMAIN b.cash}
  BY <1>2 DEF LedgerMoney
<1>4. /\ \A c \in DOMAIN b.cash : g1(c) \in LedgerMoney(b) /\ g2(c) \in LedgerMoney(b)
      /\ \A g \in LedgerMoney(b) : \E c \in DOMAIN b.cash : g = g1(c) \/ g = g2(c)
  BY <1>3
<1>5. \A c : /\ f1(c).numeric = TRUE /\ f1(c).number = p.cash[c] /\ f1(c).target = "CASH"
             /\ KeyOf(f1(c)) = <<"CASH", <<c>>>>
             /\ f2(c).numeric = TRUE /\ f2(c).number = p.buying[c] /\ f2(c).target = "BUYING_POWER"
             /\ KeyOf(f2(c)) = <<"BUYING_POWER", <<c>>>>
             /\ g1(c).number = b.cash[c].cash /\ KeyOf(g1(c)) = <<"CASH", <<c>>>>
             /\ g2(c).number = b.cash[c].orderable /\ KeyOf(g2(c)) = <<"BUYING_POWER", <<c>>>>
  BY NumericFields
<1> HIDE DEF f1, f2, g1, g2
<1>6. ASSUME NEW c \in DOMAIN p.cash PROVE c \in DOMAIN b.cash
  <2>1. PICK g \in LedgerMoney(b) : KeyOf(g) = KeyOf(f1(c))
    BY <1>1 DEF Meet
  <2> QED BY <1>4, <1>5, <2>1
<1>7. ASSUME NEW c \in DOMAIN p.buying PROVE c \in DOMAIN b.cash
  <2>1. PICK g \in LedgerMoney(b) : KeyOf(g) = KeyOf(f2(c))
    BY <1>1 DEF Meet
  <2> QED BY <1>4, <1>5, <2>1
<1>8. ASSUME NEW c \in DOMAIN b.cash
      PROVE  c \in DOMAIN p.cash /\ Near(rules, "CASH", p.cash[c], b.cash[c].cash)
  <2>1. PICK f \in BrokerMoney(p) : KeyOf(f) = KeyOf(g1(c)) /\ Agrees(rules, f, g1(c))
    BY <1>4 DEF Meet
  <2>2. f = f1(c) /\ c \in DOMAIN p.cash
    BY <1>1, <1>5, <2>1
  <2>3. p.cash[c] \in Int /\ b.cash[c].cash \in Int
    BY <2>2 DEF PayloadOK, BookOK
  <2>4. Near(rules, f.target, f.number, g1(c).number)
    BY <1>5, <2>1, <2>2, <2>3, Nearness
  <2> QED BY <1>5, <2>2, <2>4
<1>9. ASSUME NEW c \in DOMAIN b.cash
      PROVE  c \in DOMAIN p.buying /\ Near(rules, "BUYING_POWER", p.buying[c], b.cash[c].orderable)
  <2>1. PICK f \in BrokerMoney(p) : KeyOf(f) = KeyOf(g2(c)) /\ Agrees(rules, f, g2(c))
    BY <1>4 DEF Meet
  <2>2. f = f2(c) /\ c \in DOMAIN p.buying
    BY <1>1, <1>5, <2>1
  <2>3. p.buying[c] \in Int /\ b.cash[c].orderable \in Int
    BY <2>2 DEF PayloadOK, BookOK
  <2>4. Near(rules, f.target, f.number, g2(c).number)
    BY <1>5, <2>1, <2>2, <2>3, Nearness
  <2> QED BY <1>5, <2>2, <2>4
<1> QED BY <1>6, <1>7, <1>8, <1>9

(* The same orders are open. *)
LEMMA OpenAgrees ==
    ASSUME NEW open, NEW mine, NEW rules, Meet(rules, OpenFacts(open), OpenFacts(mine))
    PROVE  {o.id : o \in open} = {o.id : o \in mine}
<1> DEFINE f == Textual("OPEN_ORDERS", Whole, {o.id : o \in open})
           h == Textual("OPEN_ORDERS", Whole, {o.id : o \in mine})
<1>1. f \in OpenFacts(open)
  BY DEF OpenFacts
<1>2. \A g \in OpenFacts(mine) : g = h \/ \E o \in mine : g \in OpenOrder(o)
  BY DEF OpenFacts
<1>3. f.numeric = FALSE /\ f.words = {o.id : o \in open} /\ KeyOf(f) = <<"OPEN_ORDERS", Whole>>
  BY TextualFields
<1>4. h.words = {o.id : o \in mine}
  BY TextualFields
<1>5. \A o : \A g \in OpenOrder(o) : \E d : g.dimension = <<o.id, d>>
  BY DEF OpenOrder, Numeric, Textual
<1>6. PICK g \in OpenFacts(mine) : KeyOf(g) = KeyOf(f) /\ Agrees(rules, f, g)
  BY <1>1 DEF Meet
<1> HIDE DEF f, h
<1>7. g.dimension = <<"*">> /\ g.words = f.words
  BY <1>3, <1>6 DEF Agrees, KeyOf, Whole
<1>8. \A x, y : <<x, y>> # <<"*">>
  OBVIOUS
<1>9. g = h
  BY <1>2, <1>5, <1>7, <1>8
<1> QED BY <1>3, <1>4, <1>7, <1>9

(* The facts about executions, as the lists give them. *)
Settled(o) == Textual("SETTLEMENT_DATE", <<o.id>>, {o.settlement})
Metric(o, m) == Numeric(MetricTarget[m], <<o.id, m>>, o.filled[m], o.currency, o.instrument)

LEMMA ExecutionsAre ==
    ASSUME NEW orders
    PROVE  /\ \A o \in orders : o.executed =>
                 /\ Settled(o) \in ExecutionFacts(orders)
                 /\ \A m \in DOMAIN o.filled : Metric(o, m) \in ExecutionFacts(orders)
           /\ \A f \in ExecutionFacts(orders) :
                 \/ f.numeric = FALSE /\ f.words = {}
                 \/ \E o \in orders : /\ o.executed
                                      /\ f = Settled(o) \/ \E m \in DOMAIN o.filled : f = Metric(o, m)
<1>1. ASSUME NEW o \in orders, o.executed PROVE Executed(o) \subseteq ExecutionFacts(orders)
  BY <1>1 DEF ExecutionFacts
<1>2. \A o : /\ Settled(o) \in Executed(o)
             /\ \A m \in DOMAIN o.filled : Metric(o, m) \in Executed(o)
             /\ \A f \in Executed(o) : f = Settled(o) \/ \E m \in DOMAIN o.filled : f = Metric(o, m)
  BY DEF Executed, Settled, Metric
<1>3. \A f \in EmptyOrders : f.numeric = FALSE /\ f.words = {}
  BY DEF EmptyOrders, Textual
<1>4. \A f \in ExecutionFacts(orders) :
         f \in EmptyOrders \/ \E o \in orders : o.executed /\ f \in Executed(o)
  BY DEF ExecutionFacts
<1> QED BY <1>1, <1>2, <1>3, <1>4

LEMMA ExecutionFields ==
    \A o : /\ Settled(o).numeric = FALSE /\ Settled(o).words = {o.settlement}
          /\ KeyOf(Settled(o)) = <<"SETTLEMENT_DATE", <<o.id>>>>
          /\ \A m : /\ Metric(o, m).numeric = TRUE /\ Metric(o, m).number = o.filled[m]
                    /\ Metric(o, m).target = MetricTarget[m]
                    /\ KeyOf(Metric(o, m)) = <<MetricTarget[m], <<o.id, m>>>>
BY NumericFields, TextualFields DEF Settled, Metric

LEMMA StatesAre ==
    ASSUME NEW p, NEW b
    PROVE  /\ \A o \in OrdersOf(p) : o.state # None =>
                 StateFact(o, Normalize(o.state)) \in BrokerStates(p)
           /\ \A f \in BrokerStates(p) : \E o \in OrdersOf(p) : f = StateFact(o, Normalize(o.state))
           /\ \A x \in b.orders : x.state # None => StateFact(x, x.state) \in LedgerStates(b)
           /\ \A g \in LedgerStates(b) : \E x \in b.orders : g = StateFact(x, x.state)
           /\ \A o, v : /\ StateFact(o, v).numeric = FALSE /\ StateFact(o, v).words = {v}
                        /\ KeyOf(StateFact(o, v)) = <<"ORDER_STATE", <<o.id>>>>
<1>1. \A o, v : /\ StateFact(o, v).numeric = FALSE /\ StateFact(o, v).words = {v}
                /\ KeyOf(StateFact(o, v)) = <<"ORDER_STATE", <<o.id>>>>
  BY TextualFields DEF StateFact
<1>2. /\ \A o \in OrdersOf(p) : o.state # None =>
            StateFact(o, Normalize(o.state)) \in BrokerStates(p)
      /\ \A f \in BrokerStates(p) : \E o \in OrdersOf(p) : f = StateFact(o, Normalize(o.state))
  BY DEF BrokerStates
<1>3. /\ \A x \in b.orders : x.state # None => StateFact(x, x.state) \in LedgerStates(b)
      /\ \A g \in LedgerStates(b) : \E x \in b.orders : g = StateFact(x, x.state)
  BY DEF LedgerStates
<1> QED BY <1>1, <1>2, <1>3

(* The facts of the orders of both sides, which meet. *)
OrdersMeet(rules, p, b) ==
    Meet(rules, BrokerStates(p) \cup ExecutionFacts(OrdersOf(p)),
                LedgerStates(b) \cup ExecutionFacts(b.orders))

(* An order of the broker is in the ledger, in its state. *)
LEMMA StatesAgree ==
    ASSUME NEW p, PayloadOK(p), NEW b, BookOK(b), NEW rules, OrdersMeet(rules, p, b)
    PROVE  /\ \A o \in OrdersOf(p) : o.state # None =>
                 \E x \in b.orders : x.id = o.id /\ x.state = Normalize(o.state)
           /\ \A x \in b.orders : x.state # None => \E o \in OrdersOf(p) : o.id = x.id
<1>1. /\ \A o \in OrdersOf(p) : DOMAIN o.filled \subseteq DOMAIN MetricTarget
      /\ \A x \in b.orders : DOMAIN x.filled \subseteq DOMAIN MetricTarget
  BY OrdersKnown DEF BookOK, RowsOK
<1>2. ASSUME NEW orders, \A x \in orders : DOMAIN x.filled \subseteq DOMAIN MetricTarget,
             NEW g \in ExecutionFacts(orders), NEW d, NEW v, g.numeric = FALSE, g.words = {v}
      PROVE  KeyOf(g) # <<"ORDER_STATE", d>>
  <2>1. PICK x \in orders : g = Settled(x) \/ \E m \in DOMAIN x.filled : g = Metric(x, m)
    BY <1>2, ExecutionsAre
  <2>2. g = Settled(x)
    <3>1. \A m : Metric(x, m).numeric = TRUE
      BY ExecutionFields
    <3> QED BY <1>2, <2>1, <3>1, Zenon
  <2> QED BY <1>2, <2>2, ExecutionFields
<1>3. ASSUME NEW o \in OrdersOf(p), o.state # None
      PROVE  \E x \in b.orders : x.id = o.id /\ x.state = Normalize(o.state)
  <2> DEFINE v == Normalize(o.state)
             f == StateFact(o, v)
  <2>1. f \in BrokerStates(p)
    BY <1>3, StatesAre
  <2>2. f.numeric = FALSE /\ f.words = {v} /\ KeyOf(f) = <<"ORDER_STATE", <<o.id>>>>
    BY StatesAre
  <2> HIDE DEF f, v
  <2>3. PICK g \in LedgerStates(b) \cup ExecutionFacts(b.orders) :
                KeyOf(g) = KeyOf(f) /\ Agrees(rules, f, g)
    BY <2>1 DEF OrdersMeet, Meet
  <2>4. g.numeric = FALSE /\ g.words = {v}
    BY <2>2, <2>3 DEF Agrees
  <2>5. g \in LedgerStates(b)
    BY <1>1, <1>2, <2>2, <2>3, <2>4
  <2>6. PICK x \in b.orders : g = StateFact(x, x.state)
    BY <2>5, StatesAre
  <2>7. g.words = {x.state} /\ KeyOf(g) = <<"ORDER_STATE", <<x.id>>>>
    BY <2>6, StatesAre
  <2>8. x.id = o.id /\ x.state = v
    BY <2>2, <2>3, <2>4, <2>7
  <2> QED BY <2>8 DEF v
<1>4. ASSUME NEW x \in b.orders, x.state # None
      PROVE  \E o \in OrdersOf(p) : o.id = x.id
  <2> DEFINE g == StateFact(x, x.state)
  <2>1. g \in LedgerStates(b)
    BY <1>4, StatesAre
  <2>2. g.numeric = FALSE /\ g.words = {x.state} /\ KeyOf(g) = <<"ORDER_STATE", <<x.id>>>>
    BY StatesAre
  <2> HIDE DEF g
  <2>3. PICK f \in BrokerStates(p) \cup ExecutionFacts(OrdersOf(p)) :
                KeyOf(f) = KeyOf(g) /\ Agrees(rules, f, g)
    BY <2>1 DEF OrdersMeet, Meet
  <2>4. f.numeric = FALSE /\ f.words = {x.state}
    BY <2>2, <2>3 DEF Agrees
  <2>5. f \in BrokerStates(p)
    BY <1>1, <1>2, <2>2, <2>3, <2>4
  <2>6. PICK o \in OrdersOf(p) : f = StateFact(o, Normalize(o.state))
    BY <2>5, StatesAre
  <2>7. KeyOf(f) = <<"ORDER_STATE", <<o.id>>>>
    BY <2>6, StatesAre
  <2>8. o.id = x.id
    BY <2>2, <2>3, <2>7
  <2> QED BY <2>8
<1> QED BY <1>3, <1>4

(* A settlement or a metric that one side states is that of an order. *)
IsSettlement(g, id, v) ==
    g.numeric = FALSE /\ g.words = {v} /\ KeyOf(g) = <<"SETTLEMENT_DATE", <<id>>>>
IsMetric(g, t, id, m) == g.numeric = TRUE /\ KeyOf(g) = <<t, <<id, m>>>>

HasSettlement(orders, id, v) == \E x \in orders : x.executed /\ x.id = id /\ x.settlement = v
HasMetric(orders, id, m, n) ==
    \E x \in orders : x.executed /\ x.id = id /\ m \in DOMAIN x.filled /\ n = x.filled[m]

LEMMA ExecutionFound ==
    ASSUME NEW states, \A f \in states : f.numeric = FALSE /\ f.target = "ORDER_STATE",
           NEW orders, \A x \in orders : DOMAIN x.filled \subseteq DOMAIN MetricTarget,
           NEW g \in states \cup ExecutionFacts(orders), NEW id
    PROVE  /\ \A v : IsSettlement(g, id, v) => HasSettlement(orders, id, v)
           /\ \A t, m : IsMetric(g, t, id, m) => HasMetric(orders, id, m, g.number)
<1>1. ASSUME NEW v, IsSettlement(g, id, v) PROVE HasSettlement(orders, id, v)
  <2> USE DEF IsSettlement
  <2>1. g \in ExecutionFacts(orders)
    BY <1>1 DEF KeyOf
  <2>2. PICK x \in orders : /\ x.executed
                            /\ g = Settled(x) \/ \E m \in DOMAIN x.filled : g = Metric(x, m)
    BY <1>1, <2>1, ExecutionsAre
  <2>3. g = Settled(x)
    <3>1. \A m : Metric(x, m).numeric = TRUE
      BY ExecutionFields
    <3> QED BY <1>1, <2>2, <3>1, Zenon
  <2>4. KeyOf(g) = <<"SETTLEMENT_DATE", <<x.id>>>> /\ g.words = {x.settlement}
    BY <2>3, ExecutionFields
  <2>5. x.id = id /\ x.settlement = v
    BY <1>1, <2>4
  <2> QED BY <2>2, <2>5 DEF HasSettlement
<1>2. ASSUME NEW t, NEW m, IsMetric(g, t, id, m) PROVE HasMetric(orders, id, m, g.number)
  <2> USE DEF IsMetric
  <2>1. g \in ExecutionFacts(orders)
    BY <1>2
  <2>2. PICK x \in orders : /\ x.executed
                            /\ g = Settled(x) \/ \E k \in DOMAIN x.filled : g = Metric(x, k)
    <3>1. ~(g.numeric = FALSE /\ g.words = {})
      BY <1>2
    <3> QED BY <2>1, <3>1, ExecutionsAre
  <2>3. PICK k \in DOMAIN x.filled : g = Metric(x, k)
    <3>1. Settled(x).numeric = FALSE
      BY ExecutionFields
    <3> QED BY <1>2, <2>2, <3>1, Zenon
  <2>4. KeyOf(g) = <<MetricTarget[k], <<x.id, k>>>> /\ g.number = x.filled[k]
    BY <2>3, ExecutionFields
  <2>5. x.id = id /\ k = m
    BY <1>2, <2>4
  <2>6. m \in DOMAIN x.filled /\ g.number = x.filled[m]
    BY <2>4, <2>5
  <2> QED BY <2>2, <2>5, <2>6 DEF HasMetric
<1> QED BY <1>1, <1>2

(* The same orders, in the same state, filled to the same extent. *)
LEMMA OrdersAgree ==
    ASSUME NEW p, PayloadOK(p), NEW b, BookOK(b), NEW rules, OrdersMeet(rules, p, b),
           \A r \in rules : r.absolute \in Int,
           Stated(OrdersOf(p)), Stated(b.orders),
           {o.id : o \in p.open} = {o.id : o \in LedgerOpen(b)}
    PROVE  SameOrders(p, b, rules)
<1> DEFINE orders == OrdersOf(p)
           F == BrokerStates(p) \cup ExecutionFacts(orders)
           G == LedgerStates(b) \cup ExecutionFacts(b.orders)
<1>1. RowsOK(orders) /\ RowsOK(b.orders)
  BY OrdersKnown DEF BookOK
<1>2. /\ \A f \in F : \E g \in G : KeyOf(g) = KeyOf(f) /\ Agrees(rules, f, g)
      /\ \A g \in G : \E f \in F : KeyOf(f) = KeyOf(g) /\ Agrees(rules, f, g)
  BY DEF OrdersMeet, Meet
<1>3. /\ \A f \in BrokerStates(p) : f.numeric = FALSE /\ f.target = "ORDER_STATE"
      /\ \A f \in LedgerStates(b) : f.numeric = FALSE /\ f.target = "ORDER_STATE"
  <2>1. \A o, v : StateFact(o, v).numeric = FALSE /\ StateFact(o, v).target = "ORDER_STATE"
    BY TextualFields DEF StateFact
  <2>2. /\ \A f \in BrokerStates(p) : \E o \in OrdersOf(p) : f = StateFact(o, Normalize(o.state))
        /\ \A g \in LedgerStates(b) : \E x \in b.orders : g = StateFact(x, x.state)
    BY StatesAre
  <2> QED BY <2>1, <2>2
<1>4. /\ \A x \in orders : DOMAIN x.filled \subseteq DOMAIN MetricTarget
      /\ \A x \in b.orders : DOMAIN x.filled \subseteq DOMAIN MetricTarget
  BY <1>1 DEF RowsOK
<1>5. {o.id : o \in orders} = {o.id : o \in b.orders}
  BY StatesAgree DEF Stated
<1>6. /\ \A o \in orders : o.executed =>
            Settled(o) \in F /\ \A m \in DOMAIN o.filled : Metric(o, m) \in F
      /\ \A x \in b.orders : x.executed =>
            Settled(x) \in G /\ \A m \in DOMAIN x.filled : Metric(x, m) \in G
  BY ExecutionsAre
<1>7. \A g \in G : \A id :
         /\ \A v : IsSettlement(g, id, v) => HasSettlement(b.orders, id, v)
         /\ \A t, m : IsMetric(g, t, id, m) => HasMetric(b.orders, id, m, g.number)
  BY <1>3, <1>4, ExecutionFound
<1>8. \A f \in F : \A id :
         /\ \A v : IsSettlement(f, id, v) => HasSettlement(orders, id, v)
         /\ \A t, m : IsMetric(f, t, id, m) => HasMetric(orders, id, m, f.number)
  BY <1>3, <1>4, ExecutionFound
<1> HIDE DEF F, G
<1>9. ASSUME NEW o \in orders, NEW mine \in b.orders, mine.id = o.id
      PROVE  /\ Normalize(o.state) = mine.state
             /\ o.executed = mine.executed
             /\ o.executed =>
                   /\ DOMAIN o.filled = DOMAIN mine.filled
                   /\ \A m \in DOMAIN o.filled :
                         Near(rules, MetricTarget[m], o.filled[m], mine.filled[m])
                   /\ o.settlement = mine.settlement
  <2>1. /\ \A x \in b.orders : x.id = o.id => x = mine
        /\ \A x \in orders : x.id = o.id => x = o
    BY <1>1, <1>9 DEF RowsOK
  <2>2. Normalize(o.state) = mine.state
    BY <2>1, StatesAgree DEF Stated
  <2>3. ASSUME o.executed PROVE mine.executed /\ o.settlement = mine.settlement
    <3> DEFINE f == Settled(o)
    <3>1. f.numeric = FALSE /\ f.words = {o.settlement} /\ KeyOf(f) = <<"SETTLEMENT_DATE", <<o.id>>>>
      BY ExecutionFields
    <3>2. f \in F
      BY <1>6, <2>3
    <3> HIDE DEF f
    <3>3. PICK g \in G : KeyOf(g) = KeyOf(f) /\ Agrees(rules, f, g)
      BY <1>2, <3>2
    <3>4. IsSettlement(g, o.id, o.settlement)
      BY <3>1, <3>3 DEF Agrees, IsSettlement
    <3>5. PICK x \in b.orders : x.executed /\ x.id = o.id /\ x.settlement = o.settlement
      BY <1>7, <3>4 DEF HasSettlement, HasMetric
    <3> QED BY <2>1, <3>5
  <2>4. ASSUME mine.executed PROVE o.executed
    <3> DEFINE g == Settled(mine)
    <3>1. g.numeric = FALSE /\ g.words = {mine.settlement} /\ KeyOf(g) = <<"SETTLEMENT_DATE", <<o.id>>>>
      BY <1>9, ExecutionFields
    <3>2. g \in G
      BY <1>6, <2>4
    <3> HIDE DEF g
    <3>3. PICK f \in F : KeyOf(f) = KeyOf(g) /\ Agrees(rules, f, g)
      BY <1>2, <3>2
    <3>4. IsSettlement(f, o.id, mine.settlement)
      BY <3>1, <3>3 DEF Agrees, IsSettlement
    <3>5. PICK x \in orders : x.executed /\ x.id = o.id
      BY <1>8, <3>4 DEF HasSettlement, HasMetric
    <3> QED BY <2>1, <3>5
  <2>5. ASSUME o.executed, NEW m \in DOMAIN o.filled
        PROVE  /\ m \in DOMAIN mine.filled
               /\ Near(rules, MetricTarget[m], o.filled[m], mine.filled[m])
    <3> DEFINE f == Metric(o, m)
    <3>1. /\ f.numeric = TRUE /\ f.number = o.filled[m] /\ f.target = MetricTarget[m]
          /\ KeyOf(f) = <<MetricTarget[m], <<o.id, m>>>>
      BY ExecutionFields
    <3>2. f \in F
      BY <1>6, <2>5
    <3> HIDE DEF f
    <3>3. PICK g \in G : KeyOf(g) = KeyOf(f) /\ Agrees(rules, f, g)
      BY <1>2, <3>2
    <3>4. IsMetric(g, MetricTarget[m], o.id, m)
      BY <3>1, <3>3 DEF Agrees, IsMetric
    <3>5. PICK x \in b.orders : x.executed /\ x.id = o.id /\ m \in DOMAIN x.filled /\ g.number = x.filled[m]
      BY <1>7, <3>4 DEF HasSettlement, HasMetric
    <3>6. x = mine
      BY <2>1, <3>5
    <3>7. o.filled[m] \in Int /\ mine.filled[m] \in Int
      BY <1>1, <3>5, <3>6 DEF RowsOK
    <3>8. Near(rules, f.target, f.number, g.number)
      BY <3>1, <3>3, <3>5, <3>6, <3>7, Nearness
    <3> QED BY <3>1, <3>5, <3>6, <3>8
  <2>6. ASSUME mine.executed, NEW m \in DOMAIN mine.filled PROVE m \in DOMAIN o.filled
    <3> DEFINE g == Metric(mine, m)
    <3>1. g.numeric = TRUE /\ KeyOf(g) = <<MetricTarget[m], <<mine.id, m>>>> /\ mine.id = o.id
      BY <1>9, ExecutionFields
    <3>2. g \in G
      BY <1>6, <2>6
    <3> HIDE DEF g
    <3>3. PICK f \in F : KeyOf(f) = KeyOf(g) /\ Agrees(rules, f, g)
      BY <1>2, <3>2
    <3>4. IsMetric(f, MetricTarget[m], o.id, m)
      BY <3>1, <3>3 DEF Agrees, IsMetric
    <3>5. PICK x \in orders : x.executed /\ x.id = o.id /\ m \in DOMAIN x.filled
      BY <1>8, <3>4 DEF HasSettlement, HasMetric
    <3> QED BY <2>1, <3>5
  <2>7. o.executed \in BOOLEAN /\ mine.executed \in BOOLEAN
    BY <1>1 DEF RowsOK
  <2>8. o.executed = mine.executed
    BY <2>3, <2>4, <2>7
  <2>9. o.executed =>
           /\ DOMAIN o.filled = DOMAIN mine.filled
           /\ \A m \in DOMAIN o.filled : Near(rules, MetricTarget[m], o.filled[m], mine.filled[m])
           /\ o.settlement = mine.settlement
    BY <2>3, <2>5, <2>6
  <2> QED BY <2>2, <2>8, <2>9
<1>10. ASSUME NEW o \in orders PROVE Row(b.orders, o.id) \in b.orders /\ Row(b.orders, o.id).id = o.id
  <2>1. PICK x \in b.orders : x.id = o.id
    BY <1>5
  <2> QED BY <2>1 DEF Row
<1> HIDE DEF orders
<1> QED BY <1>5, <1>9, <1>10, Zenon DEF SameOrders, orders

(* Two sides without a bad item are the same account. *)
LEMMA CleanIsSame ==
    ASSUME NEW p, PayloadOK(p), NEW b, BookOK(b), NEW rules, \A r \in rules : r.absolute \in Int,
           CleanPair(BrokerFacts(p), InternalFacts(b), rules),
           Readable(b), Stated(OrdersOf(p)), Stated(b.orders)
    PROVE  SameAccount(p, b, rules)
<1>1. /\ Meet(rules, BrokerHoldings(p), LedgerHoldings(b))
      /\ Meet(rules, BrokerSellable(p), LedgerSellable(b))
      /\ Meet(rules, BrokerMoney(p), LedgerMoney(b))
      /\ Meet(rules, OpenFacts(p.open), OpenFacts(LedgerOpen(b)))
      /\ OrdersMeet(rules, p, b)
  BY PartsMeet DEF OrdersMeet
<1>2. SameHoldings(p, b, rules)
  <2>1. Held(b) = {s \in DOMAIN b.positions : b.positions[s].quantity # 0}
    BY DEF Held, Readable
  <2>2. /\ {h.symbol : h \in p.holdings} = Held(b)
        /\ \A h \in p.holdings :
              /\ Near(rules, "HOLDINGS", h.quantity, b.positions[h.symbol].quantity)
              /\ Near(rules, "HOLDINGS", h.cost, b.positions[h.symbol].cost)
    BY <1>1, HoldingsAgree
  <2>3. ASSUME NEW h \in p.holdings
        PROVE  /\ h.symbol \in DOMAIN p.sellable
               /\ Near(rules, "SELLABLE_QUANTITY", p.sellable[h.symbol], b.positions[h.symbol].sellable)
    <3>1. h.symbol \in Held(b)
      BY <2>2
    <3> QED BY <1>1, <3>1, SellableAgrees
  <2> QED BY <2>1, <2>2, <2>3 DEF SameHoldings
<1>3. SameCash(p, b, rules)
  <2>1. DOMAIN b.cash \subseteq b.readable
    BY DEF Readable
  <2>2. /\ DOMAIN p.cash = DOMAIN b.cash /\ DOMAIN p.buying = DOMAIN b.cash
        /\ \A c \in DOMAIN b.cash :
              /\ Near(rules, "CASH", p.cash[c], b.cash[c].cash)
              /\ Near(rules, "BUYING_POWER", p.buying[c], b.cash[c].orderable)
    BY <1>1, <2>1, MoneyAgrees
  <2>3. DOMAIN b.cash # {}
    <3>1. "CASH" \in Targets
      BY DEF Targets
    <3>2. PICK g \in InternalFacts(b) : g.target = "CASH"
      BY <3>1, TargetCovered
    <3>3. \A o \in b.orders : DOMAIN o.filled \subseteq DOMAIN MetricTarget
      BY DEF BookOK, RowsOK
    <3>4. "CASH" \notin OrderTargets
      BY DEF OrderTargets
    <3>5. /\ \A f \in LedgerHoldings(b) : f.target = "HOLDINGS"
          /\ \A f \in LedgerSellable(b) : f.target = "SELLABLE_QUANTITY"
          /\ \A f \in LedgerStates(b) : f.target = "ORDER_STATE"
          /\ \A f \in OpenFacts(LedgerOpen(b)) : f.target = "OPEN_ORDERS"
          /\ \A f \in ExecutionFacts(b.orders) : f.target \in OrderTargets
      BY <3>3, PartTargets
    <3>6. g \in LedgerMoney(b)
      BY <3>2, <3>4, <3>5 DEF InternalFacts
    <3> QED BY <3>6 DEF LedgerMoney
  <2> QED BY <2>2, <2>3 DEF SameCash
<1>4. SameOrders(p, b, rules)
  <2>1. {o.id : o \in p.open} = {o.id : o \in LedgerOpen(b)}
    BY <1>1, OpenAgrees
  <2> QED BY <1>1, <2>1, OrdersAgree
<1> QED BY <1>2, <1>3, <1>4 DEF SameAccount

(* What a run compared: the snapshot and the book it names, both of them   *)
(* unambiguous.                                                            *)
Comparison(r, s) ==
    LET broker == BrokerFacts(Payloads[s.payload])
        internal == InternalFacts(Books[r.book])
    IN  /\ Unambiguous(broker) /\ Unambiguous(internal)
        /\ r.items = Items(broker, internal, r.policy.rules)

Compared ==
    /\ \A n \in DOMAIN runs : Comparison(runs[n], snaps[runs[n].snapshot])
    /\ \A p \in Procs : job[p].op = "reconcile" => Comparison(job[p], snaps[job[p].snapshot])

(* A call stores the run it has read. *)
Writes(p, rank) ==
    /\ job[p].op = "reconcile"
    /\ Len(runs) < MaxRuns
    /\ runs' = Append(runs, [snapshot |-> job[p].snapshot, policy |-> job[p].policy,
                             at |-> job[p].at, items |-> job[p].items, book |-> job[p].book,
                             status |-> job[p].status, rank |-> rank])

(* A call keeps the snapshots, and what it writes it has compared. *)
LEMMA CallKeeps ==
    ASSUME NEW p, Call(p)
    PROVE  /\ snaps' = snaps
           /\ runs' = runs \/ \E rank : Writes(p, rank)
           /\ \E j : /\ job' = [job EXCEPT ![p] = j]
                     /\ j.op = "reconcile" => Comparison(j, snaps[j.snapshot])
<1>1. ASSUME NEW s \in DOMAIN snaps, NEW policy \in Policies, NEW at \in Time, NEW book \in DOMAIN Books,
             Reconcile(p, s, policy, at, book)
      PROVE  /\ snaps' = snaps /\ runs' = runs
             /\ \E j : /\ job' = [job EXCEPT ![p] = j]
                       /\ j.op = "reconcile" => Comparison(j, snaps[j.snapshot])
  <2> DEFINE broker == BrokerFacts(Payloads[snaps[s].payload])
             internal == InternalFacts(Books[book])
             items == Items(broker, internal, policy.rules)
             status == StatusOfRun(items, OpenIssues)
             j == [op |-> "reconcile", snapshot |-> s, policy |-> policy, at |-> at,
                   items |-> items, book |-> book, status |-> status]
  <2>1. /\ job' = [job EXCEPT ![p] = j] /\ Unambiguous(broker) /\ Unambiguous(internal)
        /\ snaps' = snaps /\ runs' = runs
    BY <1>1 DEF Reconcile
  <2>2. j.snapshot = s /\ j.book = book /\ j.policy = policy /\ j.items = items
    OBVIOUS
  <2> HIDE DEF j
  <2>3. Comparison(j, snaps[j.snapshot])
    BY <2>1, <2>2 DEF Comparison
  <2> QED BY <2>1, <2>3
<1>2. ASSUME NEW j, job' = [job EXCEPT ![p] = j], j.op # "reconcile"
      PROVE  \E i : /\ job' = [job EXCEPT ![p] = i]
                    /\ i.op = "reconcile" => Comparison(i, snaps[i.snapshot])
  BY <1>2
<1>3. Idle.op # "reconcile"
  BY DEF Idle
<1>4. ASSUME NEW rank \in 1..MaxRuns, Persist(p, rank)
      PROVE  /\ snaps' = snaps /\ job' = [job EXCEPT ![p] = Idle]
             /\ runs' = runs \/ Writes(p, rank)
  <2>1. snaps' = snaps /\ job' = [job EXCEPT ![p] = Idle] /\ job[p].op = "reconcile"
    BY <1>4 DEF Persist
  <2>2. runs' = runs \/ Writes(p, rank)
    BY <1>4, <2>1, Zenon DEF Persist, Writes
  <2> QED BY <2>1, <2>2
<1>5. ASSUME NEW issue, NEW n, Resolve(p, issue, n)
      PROVE  /\ snaps' = snaps /\ runs' = runs
             /\ \E j : job' = [job EXCEPT ![p] = j] /\ j.op # "reconcile"
  <2>1. [op |-> "resolve", issue |-> issue, evidence |-> n].op # "reconcile"
    OBVIOUS
  <2> QED BY <1>5, <2>1 DEF Resolve, tables
<1>6. ASSUME NEW i, NEW n, TradeGate(p, i, n)
      PROVE  /\ snaps' = snaps /\ runs' = runs
             /\ \E j : job' = [job EXCEPT ![p] = j] /\ j.op # "reconcile"
  <2>1. [op |-> "gate", intent |-> i, run |-> n, at |-> now].op # "reconcile"
    OBVIOUS
  <2> QED BY <1>6, <2>1 DEF TradeGate, tables
<1>8. ASSUME Authorize(p)
      PROVE  /\ snaps' = snaps /\ runs' = runs
             /\ \E j : job' = [job EXCEPT ![p] = j] /\ j.op # "reconcile"
  <2>1. [job[p] EXCEPT !.op = "authorize"].op # "reconcile"
    BY <1>8 DEF Authorize
  <2>2. job' = [job EXCEPT ![p] = [job[p] EXCEPT !.op = "authorize"]]
    BY <1>8 DEF Authorize
  <2> QED BY <1>8, <2>1, <2>2 DEF Authorize, tables
<1>7. ASSUME RecordResolution(p) \/ RecordAuthorization(p) \/ Crash(p)
      PROVE  snaps' = snaps /\ runs' = runs /\ job' = [job EXCEPT ![p] = Idle]
  BY <1>7 DEF RecordResolution, RecordAuthorization, Crash, tables
<1> HIDE DEF Idle
<1> QED BY <1>1, <1>2, <1>3, <1>4, <1>5, <1>6, <1>7, <1>8 DEF Call

(* A stored snapshot stays. *)
LEMMA SnapshotsStay ==
    ASSUME Inv, [Next]_vars
    PROVE  \A s \in DOMAIN snaps : s \in DOMAIN snaps' /\ snaps'[s] = snaps[s]
<1>1. snaps \in Seq(Snapshot)
  BY DEF Inv, Tables
<1>2. snaps' = snaps \/ \E runtime \in Runtimes, payload \in DOMAIN Payloads :
                           /\ snaps' = Append(snaps, [runtime |-> runtime, payload |-> payload, at |-> now])
                           /\ now \in Time
  <2>1. now \in Time
    BY DEF Inv, Tables
  <2>2. CASE UNCHANGED vars
    BY <2>2 DEF vars, tables
  <2>3. ASSUME NEW p \in Procs, Call(p) PROVE snaps' = snaps
    BY <2>3, CallKeeps
  <2>4. CASE \E i \in Intents, runtime \in Runtimes : InsertIntent(i, runtime)
    BY <2>4 DEF InsertIntent
  <2>5. CASE \E runtime \in Runtimes, payload \in DOMAIN Payloads : Capture(runtime, payload)
    BY <2>1, <2>5 DEF Capture
  <2>6. CASE Tick
    BY <2>6 DEF Tick, tables
  <2> QED BY <2>2, <2>3, <2>4, <2>5, <2>6 DEF Next
<1>3. ASSUME NEW runtime \in Runtimes, NEW payload \in DOMAIN Payloads, now \in Time,
             snaps' = Append(snaps, [runtime |-> runtime, payload |-> payload, at |-> now])
      PROVE  \A s \in DOMAIN snaps : s \in DOMAIN snaps' /\ snaps'[s] = snaps[s]
  <2> DEFINE row == [runtime |-> runtime, payload |-> payload, at |-> now]
  <2>1. row \in Snapshot /\ snaps' = Append(snaps, row)
    BY <1>3 DEF Snapshot
  <2> HIDE DEF row
  <2>2. /\ Len(Append(snaps, row)) = Len(snaps) + 1
        /\ \A i \in 1..Len(snaps) : Append(snaps, row)[i] = snaps[i]
        /\ DOMAIN Append(snaps, row) = 1..(Len(snaps) + 1)
    BY <1>1, <2>1, AppendProperties, LenProperties
  <2> QED BY <1>1, <2>1, <2>2, LenProperties
<1> QED BY <1>2, <1>3

(* Runs and calls go on naming what they compared. *)
LEMMA ComparedStep == ASSUME Inv, Compared, [Next]_vars PROVE Compared'
<1>1. /\ \A n \in DOMAIN runs : runs[n].snapshot \in DOMAIN snaps
      /\ \A p \in Procs : job[p].op = "reconcile" => job[p].snapshot \in DOMAIN snaps
      /\ runs \in Seq(Run) /\ DOMAIN job = Procs
  BY DEF Inv, Tables, JobsOK, JobOK, ReconcileOK
<1>2. \A s \in DOMAIN snaps : s \in DOMAIN snaps' /\ snaps'[s] = snaps[s]
  BY SnapshotsStay
<1>3. /\ \A n \in DOMAIN runs : Comparison(runs[n], snaps'[runs[n].snapshot])
      /\ \A p \in Procs : job[p].op = "reconcile" => Comparison(job[p], snaps'[job[p].snapshot])
  BY <1>1, <1>2 DEF Compared
<1>4. ASSUME runs' = runs, job' = job PROVE Compared'
  BY <1>3, <1>4 DEF Compared, Comparison
<1>5. ASSUME NEW p \in Procs, Call(p) PROVE Compared'
  <2>1. snaps' = snaps
    BY <1>5, CallKeeps
  <2>2. PICK j : job' = [job EXCEPT ![p] = j] /\ (j.op = "reconcile" => Comparison(j, snaps[j.snapshot]))
    BY <1>5, CallKeeps
  <2>3. \A q \in Procs : job'[q].op = "reconcile" => Comparison(job'[q], snaps[job'[q].snapshot])
    BY <1>1, <2>2 DEF Compared
  <2>4. \A n \in DOMAIN runs' : Comparison(runs'[n], snaps[runs'[n].snapshot])
    <3>1. CASE runs' = runs
      BY <3>1 DEF Compared
    <3>2. ASSUME NEW rank, Writes(p, rank)
          PROVE  \A n \in DOMAIN runs' : Comparison(runs'[n], snaps[runs'[n].snapshot])
      <4> DEFINE row == [snapshot |-> job[p].snapshot, policy |-> job[p].policy,
                         at |-> job[p].at, items |-> job[p].items, book |-> job[p].book,
                         status |-> job[p].status, rank |-> rank]
      <4>1. /\ row.snapshot = job[p].snapshot /\ row.policy = job[p].policy
            /\ row.items = job[p].items /\ row.book = job[p].book
        OBVIOUS
      <4>2. runs' = Append(runs, row) /\ job[p].op = "reconcile"
        BY <3>2 DEF Writes
      <4> HIDE DEF row
      <4>3. Comparison(row, snaps[row.snapshot])
        BY <4>1, <4>2 DEF Compared, Comparison
      <4>4. runs \in Seq(Run \cup {row}) /\ row \in Run \cup {row}
        BY <1>1
      <4>5. /\ DOMAIN Append(runs, row) = 1..(Len(runs) + 1) /\ DOMAIN runs = 1..Len(runs)
            /\ Len(runs) \in Nat
            /\ \A i \in 1..Len(runs) : Append(runs, row)[i] = runs[i]
            /\ Append(runs, row)[Len(runs) + 1] = row
        BY <4>4, AppendProperties, LenProperties
      <4>6. ASSUME NEW n \in DOMAIN runs' PROVE Comparison(runs'[n], snaps[runs'[n].snapshot])
        <5>1. CASE n \in 1..Len(runs)
          <6>1. runs'[n] = runs[n] /\ n \in DOMAIN runs
            BY <4>2, <4>5, <5>1
          <6> QED BY <6>1 DEF Compared
        <5>2. CASE n = Len(runs) + 1
          BY <4>2, <4>3, <4>5, <5>2
        <5> QED BY <4>2, <4>5, <5>1, <5>2
      <4> QED BY <4>6
    <3> QED BY <1>5, <3>1, <3>2, CallKeeps
  <2> QED BY <2>1, <2>3, <2>4 DEF Compared, Comparison
<1>6. CASE UNCHANGED vars
  BY <1>4, <1>6 DEF vars, tables
<1>7. CASE \E i \in Intents, runtime \in Runtimes : InsertIntent(i, runtime)
  BY <1>4, <1>7 DEF InsertIntent
<1>8. CASE \E runtime \in Runtimes, payload \in DOMAIN Payloads : Capture(runtime, payload)
  BY <1>4, <1>8 DEF Capture
<1>9. CASE Tick
  BY <1>4, <1>9 DEF Tick, tables
<1> QED BY <1>5, <1>6, <1>7, <1>8, <1>9 DEF Next

LEMMA ComparedInit == ASSUME Init PROVE Compared
<1>1. DOMAIN runs = {}
  BY DEF Init
<1>2. \A p \in Procs : job[p].op # "reconcile"
  BY DEF Init, Idle
<1> QED BY <1>1, <1>2 DEF Compared

(* A run without a bad item compared two sides that are the same account. *)
LEMMA ComparedIsEnough == ASSUME Inv, Compared PROVE CleanMeansAgreement
<1> SUFFICES ASSUME NEW n \in DOMAIN runs, BadKeys(runs[n]) = {}, Readable(Books[runs[n].book]),
                    Stated(OrdersOf(Payloads[snaps[runs[n].snapshot].payload])),
                    Stated(Books[runs[n].book].orders)
             PROVE  SameAccount(Payloads[snaps[runs[n].snapshot].payload], Books[runs[n].book],
                                runs[n].policy.rules)
  BY DEF CleanMeansAgreement
<1> DEFINE r == runs[n]
           payload == Payloads[snaps[r.snapshot].payload]
           book == Books[r.book]
           broker == BrokerFacts(payload)
           internal == InternalFacts(book)
<1>1. r \in Run /\ r.snapshot \in DOMAIN snaps /\ snaps[r.snapshot] \in Snapshot
  BY RowTypes DEF Inv, Tables
<1>2. r.book \in DOMAIN Books /\ r.policy \in Policies /\ snaps[r.snapshot].payload \in DOMAIN Payloads
  BY <1>1 DEF Run, Snapshot
<1>3. PayloadOK(payload) /\ BookOK(book) /\ \A q \in r.policy.rules : q.absolute \in Int
  BY <1>2, ReconciliationAssumption
<1>4. /\ Unambiguous(broker) /\ Unambiguous(internal)
      /\ r.items = Items(broker, internal, r.policy.rules)
  BY DEF Compared, Comparison
<1>5. ASSUME NEW k \in ItemKeys(broker, internal)
      PROVE  StatusOf(broker, internal, r.policy.rules, k) \in Good
  <2> HIDE DEF broker, internal, r
  <2>1. k \in DOMAIN r.items /\ r.items[k] = StatusOf(broker, internal, r.policy.rules, k)
    BY <1>4 DEF Items
  <2>2. BadKeys(r) = {}
    BY DEF r
  <2> QED BY <2>1, <2>2 DEF BadKeys
<1>6. CleanPair(broker, internal, r.policy.rules)
  BY <1>4, <1>5 DEF CleanPair
<1> QED BY <1>3, <1>6, CleanIsSame

(* For any payloads, books, tolerances and interleaving, a stored run      *)
(* without a bad item stands for two accounts that are the same within the *)
(* tolerances, as far as balances can be read and orders state their state.*)
THEOREM AgreementTheorem == Spec => []CleanMeansAgreement
<1>1. Init => Compared
  BY ComparedInit
<1>2. Inv /\ Compared /\ [Next]_vars => Compared'
  BY ComparedStep
<1>3. Inv /\ Compared => CleanMeansAgreement
  BY ComparedIsEnough
<1> QED BY <1>1, <1>2, <1>3, Invariance, PTL DEF Spec
=============================================================================

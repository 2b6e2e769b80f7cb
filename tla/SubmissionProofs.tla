-------------------------- MODULE SubmissionProofs --------------------------
(***************************************************************************)
(* Proofs about Submission for every set of processes, requests, clients,   *)
(* keys and accounts and every bound.                                      *)
(***************************************************************************)
EXTENDS Submission, SequenceTheorems, TLAPS

(***************************************************************************)
(* The inductive invariant, in named parts.                                *)
(***************************************************************************)

\* A row is filed under the client of its request, has a state and an audit
\* trail from the moment it exists, and was claimed before it was sent.
RowOK ==
  \A c \in Clients :
    /\ row[c] = NoRequest => state[c] = "NONE" /\ audit[c] = <<>> /\ sends[c] = 0
    /\ row[c] # NoRequest => /\ ClientOf[row[c]] = c
                             /\ state[c] # "NONE"
                             /\ Len(audit[c]) > 0

\* A process inside a call works on a client that has a row.
JobOK ==
  \A p \in Procs : pc[p] # "idle" => job[p] \in Clients /\ row[job[p]] # NoRequest

LEMMA AppendFacts ==
  ASSUME NEW S, NEW s \in Seq(S), NEW e \in S
  PROVE  /\ Append(s, e) \in Seq(S)
         /\ Len(Append(s, e)) = Len(s) + 1
         /\ DOMAIN Append(s, e) = 1..(Len(s) + 1)
         /\ \A i \in 1..Len(s) : Append(s, e)[i] = s[i]
         /\ Append(s, e)[Len(s) + 1] = e
  BY AppendProperties

\* The cutoff read by recover and mark_ambiguous exists and bounds all boundaries.
HasCutoff(c) == \E t \in Boundaries(c) : \A b \in Boundaries(c) : b <= t

CutoffOK == \A c \in Clients : HasCutoff(c)

LEMMA CutoffIsMax ==
  ASSUME TypeOK, NEW c \in Clients, HasCutoff(c)
  PROVE  /\ RecoveryCutoff(c) \in Time
         /\ RecoveryCutoff(c) \in Boundaries(c)
         /\ \A b \in Boundaries(c) : b <= RecoveryCutoff(c)
<1>1. RecoveryCutoff(c) \in Boundaries(c) /\ \A b \in Boundaries(c) : b <= RecoveryCutoff(c)
  BY DEF HasCutoff, RecoveryCutoff
<1>2. Boundaries(c) \subseteq Time \cup {NoMarker}
  <2>1. audit[c] \in Seq(AuditRow) /\ started[c] \in Time
    BY DEF TypeOK
  <2>2. \A i \in DOMAIN audit[c] : audit[c][i] \in AuditRow
    BY <2>1
  <2>3. \A i \in DOMAIN audit[c] : audit[c][i].marker \in Time \cup {NoMarker}
    BY <2>2 DEF AuditRow
  <2>4. QED
    BY <2>1, <2>3 DEF Boundaries, Markers
<1>3. started[c] \in Boundaries(c) /\ started[c] \in Time
  BY DEF TypeOK, Boundaries
<1>4. started[c] <= RecoveryCutoff(c)
  BY <1>1, <1>3
<1>5. QED
  BY <1>1, <1>2, <1>3, <1>4, BoundAssumption DEF Time, NoMarker

\* What _record does to the journal: one state, one more audit row.
LEMMA RecordFacts ==
  ASSUME TypeOK, NEW c \in Clients, NEW s \in States, NEW m \in Time \cup {NoMarker},
         state' = [state EXCEPT ![c] = s],
         audit' = [audit EXCEPT ![c] = Append(@, [state |-> s, marker |-> m])]
  PROVE  /\ state' \in [Clients -> States]
         /\ audit' \in [Clients -> Seq(AuditRow)]
         /\ state'[c] = s
         /\ Len(audit'[c]) = Len(audit[c]) + 1
         /\ Len(audit[c]) \in Nat
         /\ DOMAIN audit[c] = 1..Len(audit[c])
         /\ DOMAIN audit'[c] = 1..(Len(audit[c]) + 1)
         /\ audit'[c][Len(audit[c]) + 1].marker = m
         /\ \A i \in 1..Len(audit[c]) : audit'[c][i] = audit[c][i]
         /\ \A d \in Clients : d # c => state'[d] = state[d] /\ audit'[d] = audit[d]
         /\ Markers(audit'[c]) = Markers(audit[c]) \cup {m}
<1> DEFINE e == [state |-> s, marker |-> m]
<1>1. e \in AuditRow /\ e.marker = m
  BY DEF AuditRow
<1>2. audit[c] \in Seq(AuditRow) /\ DOMAIN audit[c] = 1..Len(audit[c]) /\ Len(audit[c]) \in Nat
  BY DEF TypeOK
<1>4. audit' = [audit EXCEPT ![c] = Append(audit[c], e)]
  OBVIOUS
<1> HIDE DEF e
<1>3. /\ Append(audit[c], e) \in Seq(AuditRow)
      /\ Len(Append(audit[c], e)) = Len(audit[c]) + 1
      /\ DOMAIN Append(audit[c], e) = 1..(Len(audit[c]) + 1)
      /\ \A i \in 1..Len(audit[c]) : Append(audit[c], e)[i] = audit[c][i]
      /\ Append(audit[c], e)[Len(audit[c]) + 1] = e
  BY <1>1, <1>2, AppendFacts
<1>5. audit'[c] = Append(audit[c], e) /\ \A d \in Clients : d # c => audit'[d] = audit[d]
  BY <1>4 DEF TypeOK
<1>6. audit' \in [Clients -> Seq(AuditRow)]
  BY <1>3, <1>4 DEF TypeOK
<1>7. /\ state' \in [Clients -> States]
      /\ state'[c] = s
      /\ \A d \in Clients : d # c => state'[d] = state[d]
  BY DEF TypeOK
<1>8. Markers(audit'[c]) = Markers(audit[c]) \cup {m}
  <2>1. \A i \in DOMAIN audit[c] : i \in DOMAIN audit'[c] /\ audit'[c][i] = audit[c][i]
    BY <1>2, <1>3, <1>5
  <2>2. /\ Len(audit[c]) + 1 \in DOMAIN audit'[c]
        /\ audit'[c][Len(audit[c]) + 1].marker = m
    BY <1>1, <1>2, <1>3, <1>5
  <2>3. \A i \in DOMAIN audit'[c] : i \in DOMAIN audit[c] \/ i = Len(audit[c]) + 1
    BY <1>2, <1>3, <1>5
  <2>4. QED
    BY <2>1, <2>2, <2>3 DEF Markers
<1>9. QED
  BY <1>1, <1>2, <1>3, <1>5, <1>6, <1>7, <1>8

-----------------------------------------------------------------------------
(* Type correctness                                                        *)

TypeInv == TypeOK /\ RowOK /\ JobOK /\ CutoffOK

\* What the authority says of an order, and what a recovery carries of it, is a
\* broker status of an order that reached the broker.
ResultOK ==
  /\ \A c \in Clients : event[c].ver > 0 => event[c].status \in Recovered /\ c \in delivered
  /\ \A p \in Procs :
       /\ pc[p] \in {"lookup", "order"} => seen[p].status \in Recovered /\ job[p] \in delivered
       /\ pc[p] \in Proven =>
            \/ seen[p].result = "UNKNOWN_BROKER_STATE"
            \/ seen[p].result \in Recovered /\ job[p] \in delivered

LEMMA InitType == Init => TypeInv
<1> SUFFICES ASSUME Init PROVE TypeInv
  OBVIOUS
<1>1. \A c \in Clients : audit[c] = <<>> /\ <<>> \in Seq(AuditRow)
  BY DEF Init
<1>2. TypeOK
  BY <1>1, BoundAssumption, StateAssumption
     DEF Init, TypeOK, Time, States, PCs, Proven, Seen, NothingSeen, Verdict, Event, Recon, Unresolved
<1>3. RowOK /\ JobOK
  BY DEF Init, RowOK, JobOK
<1>4. CutoffOK
  <2> SUFFICES ASSUME NEW c \in Clients PROVE HasCutoff(c)
    BY DEF CutoffOK
  <2>1. Boundaries(c) = {0}
    BY DEF Init, Boundaries, Markers
  <2>2. QED
    BY <2>1 DEF HasCutoff
<1>5. QED
  BY <1>2, <1>3, <1>4 DEF TypeInv
LEMMA MaxOfUnion ==
  ASSUME NEW B \in SUBSET Int, \E t \in B : \A b \in B : b <= t, NEW m \in Int
  PROVE  \E t \in B \cup {m} : \A b \in B \cup {m} : b <= t
<1>1. PICK t \in B : \A b \in B : b <= t
  OBVIOUS
<1>2. CASE m <= t
  BY <1>1, <1>2
<1>3. CASE ~ (m <= t)
  <2>1. \A b \in B \cup {m} : b <= m
    BY <1>1, <1>3
  <2>2. QED
    BY <2>1
<1>4. QED
  BY <1>2, <1>3

LEMMA BoundariesInt == ASSUME TypeOK, NEW c \in Clients PROVE Boundaries(c) \in SUBSET Int
<1>1. audit[c] \in Seq(AuditRow) /\ started[c] \in Time
  BY DEF TypeOK
<1>2. \A i \in DOMAIN audit[c] : audit[c][i] \in AuditRow
  BY <1>1
<1>3. \A i \in DOMAIN audit[c] : audit[c][i].marker \in Int
  BY <1>2, BoundAssumption DEF AuditRow, Time, NoMarker
<1>4. QED
  BY <1>1, <1>3, BoundAssumption DEF Boundaries, Markers, Time

\* _record on an existing row keeps the journal part of the invariant.
LEMMA RecordKeepsJournal ==
  ASSUME TypeInv, NEW c \in Clients, NEW s \in States \ {"NONE"}, NEW m \in Time \cup {NoMarker},
         row[c] # NoRequest,
         state' = [state EXCEPT ![c] = s],
         audit' = [audit EXCEPT ![c] = Append(@, [state |-> s, marker |-> m])],
         UNCHANGED <<row, started, sends>>
  PROVE  /\ state' \in [Clients -> States]
         /\ audit' \in [Clients -> Seq(AuditRow)]
         /\ RowOK' /\ CutoffOK'
<1>1. TypeOK /\ RowOK /\ CutoffOK
  BY DEF TypeInv
<1>2. s \in States
  OBVIOUS
<1>3. /\ state' \in [Clients -> States]
      /\ audit' \in [Clients -> Seq(AuditRow)]
      /\ state'[c] = s
      /\ Len(audit'[c]) = Len(audit[c]) + 1
      /\ Len(audit[c]) \in Nat
      /\ \A d \in Clients : d # c => state'[d] = state[d] /\ audit'[d] = audit[d]
      /\ Markers(audit'[c]) = Markers(audit[c]) \cup {m}
  BY <1>1, <1>2, RecordFacts
<1>4. RowOK'
  BY <1>1, <1>3 DEF RowOK
<1>5. CutoffOK'
  <2> SUFFICES ASSUME NEW d \in Clients PROVE HasCutoff(d)'
    BY DEF CutoffOK
  <2>1. CASE d = c
    <3>1. Boundaries(c) \in SUBSET Int
      BY <1>1, BoundariesInt
    <3>2. m \in Int
      BY BoundAssumption DEF Time, NoMarker
    <3>3. \E t \in Boundaries(c) : \A b \in Boundaries(c) : b <= t
      BY <1>1 DEF CutoffOK, HasCutoff
    <3>4. \E t \in Boundaries(c) \cup {m} : \A b \in Boundaries(c) \cup {m} : b <= t
      BY <3>1, <3>2, <3>3, MaxOfUnion
    <3>5. Boundaries(c)' = Boundaries(c) \cup {m}
      BY <1>3 DEF Boundaries
    <3>6. QED
      BY <2>1, <3>4, <3>5 DEF HasCutoff
  <2>2. CASE d # c
    <3>1. Boundaries(d)' = Boundaries(d)
      BY <1>3, <2>2 DEF Boundaries
    <3>2. QED
      BY <1>1, <3>1 DEF CutoffOK, HasCutoff
  <2>3. QED
    BY <2>1, <2>2
<1>6. QED
  BY <1>3, <1>4, <1>5

LEMMA JournalFrame ==
  ASSUME TypeInv, UNCHANGED journal, UNCHANGED sends
  PROVE  RowOK' /\ CutoffOK'
<1>1. RowOK'
  BY DEF TypeInv, journal, RowOK
<1>2. \A c \in Clients : Boundaries(c)' = Boundaries(c)
  BY DEF journal, Boundaries
<1>3. CutoffOK'
  BY <1>2 DEF TypeInv, CutoffOK, HasCutoff
<1>4. QED
  BY <1>1, <1>3
\* The steps of a call that touch nothing but the caller's own control state.
LEMMA LocalStepType ==
  ASSUME TypeInv, NEW p \in Procs, NEW label \in PCs \ {"idle"}, NEW v \in Seen,
         pc[p] # "idle",
         pc' = [pc EXCEPT ![p] = label], seen' = [seen EXCEPT ![p] = v], UNCHANGED job,
         UNCHANGED <<journal, broker, authority, now, proof>>
  PROVE  TypeInv'
<1>1. RowOK' /\ CutoffOK'
  BY JournalFrame DEF broker
<1>2. JobOK'
  BY DEF TypeInv, TypeOK, JobOK, journal
<1>3. TypeOK'
  BY DEF TypeInv, TypeOK, journal, broker, authority
<1>4. QED
  BY <1>1, <1>2, <1>3 DEF TypeInv

LEMMA TypeStep == TypeInv /\ ResultOK /\ [Next]_vars => TypeInv'
<1> SUFFICES ASSUME TypeInv, ResultOK, [Next]_vars PROVE TypeInv'
  OBVIOUS
<1>0. TypeOK /\ RowOK /\ JobOK /\ CutoffOK
  BY DEF TypeInv
<1>a. /\ NothingSeen \in Seen
      /\ {"SUBMITTING", "UNKNOWN_BROKER_STATE"} \subseteq States \ {"NONE"}
      /\ Recovered \subseteq States
      /\ NoMarker \in Time \cup {NoMarker}
  BY BoundAssumption DEF NothingSeen, Verdict, Seen, States, Unresolved, Time
<1>1. ASSUME NEW p \in Procs, NEW r \in Requests, NEW at \in Time, Claim(p, r, at)
      PROVE  TypeInv'
  <2> DEFINE c == ClientOf[r]
  <2>1. c \in Clients
    BY RequestAssumption
  <2>2. row[c] = NoRequest
    BY <1>1, <2>1 DEF Claim, Existing
  <2>3. /\ state' = [state EXCEPT ![c] = "SUBMITTING"]
        /\ audit' = [audit EXCEPT ![c] = Append(@, [state |-> "SUBMITTING", marker |-> NoMarker])]
        /\ row' = [row EXCEPT ![c] = r]
        /\ started' = [started EXCEPT ![c] = at]
        /\ pc' = [pc EXCEPT ![p] = "claimed"]
        /\ job' = [job EXCEPT ![p] = c]
        /\ UNCHANGED <<seen, broker, authority, now, proof>>
    BY <1>1 DEF Claim, Record
  <2> HIDE DEF c
  <2>4. /\ state' \in [Clients -> States]
        /\ audit' \in [Clients -> Seq(AuditRow)]
        /\ state'[c] = "SUBMITTING"
        /\ Len(audit'[c]) = Len(audit[c]) + 1
        /\ Len(audit[c]) \in Nat
        /\ \A d \in Clients : d # c => state'[d] = state[d] /\ audit'[d] = audit[d]
        /\ Markers(audit'[c]) = Markers(audit[c]) \cup {NoMarker}
    BY <1>0, <1>a, <2>1, <2>3, RecordFacts
  <2>5. TypeOK'
    BY <1>0, <2>1, <2>3, <2>4 DEF TypeOK, PCs, Proven, broker, authority
  <2>6. RowOK'
    <3>1. ClientOf[r] = c
      BY DEF c
    <3>2. r # NoRequest
      BY RequestAssumption
    <3>3. QED
      BY <1>0, <2>1, <2>3, <2>4, <3>1, <3>2 DEF RowOK, TypeOK, broker
  <2>7. JobOK'
    BY <1>0, <2>1, <2>3, RequestAssumption DEF JobOK, TypeOK
  <2>8. CutoffOK'
    <3> SUFFICES ASSUME NEW d \in Clients PROVE HasCutoff(d)'
      BY DEF CutoffOK
    <3>1. CASE d = c
      <4>1. audit[c] = <<>>
        BY <1>0, <2>1, <2>2 DEF RowOK
      <4>2. Markers(audit[c]) = {}
        BY <4>1 DEF Markers
      <4>3. Boundaries(c)' = {at} \cup {NoMarker}
        BY <1>0, <2>1, <2>3, <2>4, <4>2 DEF Boundaries, TypeOK
      <4>4. QED
        BY <3>1, <4>3, BoundAssumption DEF HasCutoff, Time, NoMarker
    <3>2. CASE d # c
      <4>1. Boundaries(d)' = Boundaries(d)
        BY <1>0, <2>3, <2>4, <3>2 DEF Boundaries, TypeOK
      <4>2. QED
        BY <1>0, <4>1 DEF CutoffOK, HasCutoff
    <3>3. QED
      BY <3>1, <3>2
  <2>9. QED
    BY <2>5, <2>6, <2>7, <2>8 DEF TypeInv
<1>2. ASSUME NEW p \in Procs, Transport(p) PROVE TypeInv'
  <2>1. job[p] \in Clients /\ row[job[p]] # NoRequest
    BY <1>0, <1>2 DEF JobOK, Transport
  <2>2. /\ sends' = [sends EXCEPT ![job[p]] = @ + 1]
        /\ pc' = [pc EXCEPT ![p] = "sent"] /\ seen' = [seen EXCEPT ![p] = seen[p]]
        /\ UNCHANGED <<job, journal, delivered, authority, now, proof>>
    BY <1>2 DEF Transport, Goto
  <2>3. TypeOK'
    BY <1>0, <2>1, <2>2 DEF TypeOK, journal, authority, PCs, Proven
  <2>4. RowOK' /\ JobOK'
    BY <1>0, <1>2, <2>1, <2>2 DEF RowOK, JobOK, TypeOK, journal, Transport
  <2>5. \A d \in Clients : Boundaries(d)' = Boundaries(d)
    BY <2>2 DEF Boundaries, journal
  <2>6. CutoffOK'
    BY <1>0, <2>5 DEF CutoffOK, HasCutoff
  <2>7. QED
    BY <2>3, <2>4, <2>6 DEF TypeInv
<1>3. ASSUME NEW p \in Procs, RecordAmbiguous(p) PROVE TypeInv'
  <2>1. job[p] \in Clients /\ row[job[p]] # NoRequest
    BY <1>0, <1>3 DEF JobOK, RecordAmbiguous
  <2>2. /\ state' = [state EXCEPT ![job[p]] = "UNKNOWN_BROKER_STATE"]
        /\ audit' = [audit EXCEPT ![job[p]] =
                       Append(@, [state |-> "UNKNOWN_BROKER_STATE", marker |-> NoMarker])]
        /\ pc' = [pc EXCEPT ![p] = "idle"] /\ job' = [job EXCEPT ![p] = NoClient]
        /\ seen' = [seen EXCEPT ![p] = NothingSeen]
        /\ UNCHANGED <<row, started, broker, authority, now, proof>>
    BY <1>3 DEF RecordAmbiguous, Record, Return
  <2>3. UNCHANGED sends
    BY <2>2 DEF broker
  <2>4. state' \in [Clients -> States] /\ audit' \in [Clients -> Seq(AuditRow)] /\ RowOK' /\ CutoffOK'
    BY <1>a, <2>1, <2>2, <2>3, RecordKeepsJournal
  <2>5. TypeOK' /\ JobOK'
    BY <1>0, <1>a, <2>2, <2>4 DEF TypeOK, JobOK, broker, authority, PCs, Proven
  <2>6. QED
    BY <2>4, <2>5 DEF TypeInv
<1>4. ASSUME NEW c \in Clients, NEW at \in Time, MarkAmbiguous(c, at) PROVE TypeInv'
  <2>2. /\ state' = [state EXCEPT ![c] = "UNKNOWN_BROKER_STATE"]
        /\ audit' = [audit EXCEPT ![c] =
                       Append(@, [state |-> "UNKNOWN_BROKER_STATE", marker |-> at])]
        /\ row[c] # NoRequest
        /\ UNCHANGED <<row, started, procs, broker, authority, now, proof>>
    BY <1>4 DEF MarkAmbiguous, Record
  <2>3. UNCHANGED sends
    BY <2>2 DEF broker
  <2>4. state' \in [Clients -> States] /\ audit' \in [Clients -> Seq(AuditRow)] /\ RowOK' /\ CutoffOK'
    BY <1>a, <2>2, <2>3, RecordKeepsJournal
  <2>5. TypeOK' /\ JobOK'
    BY <1>0, <2>2, <2>4 DEF TypeOK, JobOK, broker, authority, procs
  <2>6. QED
    BY <2>4, <2>5 DEF TypeInv
<1>5. ASSUME NEW p \in Procs, NEW c \in Clients, RecoverRow(p, c) PROVE TypeInv'
  <2>1. RowOK' /\ CutoffOK'
    BY <1>5, JournalFrame DEF RecoverRow, broker
  <2>2. TypeOK' /\ JobOK'
    BY <1>0, <1>5, <1>a DEF RecoverRow, TypeOK, JobOK, Seen, PCs, Proven, NothingSeen, Verdict,
       journal, broker, authority
  <2>3. QED
    BY <2>1, <2>2 DEF TypeInv
<1>6. ASSUME NEW p \in Procs, RecoverSequence(p) PROVE TypeInv'
  <2>1. pc[p] # "idle" /\ job[p] \in Clients /\ row[job[p]] # NoRequest
    BY <1>0, <1>6 DEF JobOK, RecoverSequence
  <2>2. [seen[p] EXCEPT !.sequence = Len(audit[job[p]])] \in Seen
    <3>1. seen[p] \in Seen /\ Len(audit[job[p]]) \in Nat
      BY <1>0, <2>1 DEF TypeOK
    <3>2. QED
      BY <3>1 DEF Seen
  <2>3. QED
    BY <1>6, <2>1, <2>2, LocalStepType DEF RecoverSequence, Goto, PCs, Proven
<1>7. ASSUME NEW p \in Procs, RecoverCutoff(p) PROVE TypeInv'
  <2>1. pc[p] # "idle" /\ job[p] \in Clients /\ row[job[p]] # NoRequest
    BY <1>0, <1>7 DEF JobOK, RecoverCutoff
  <2>2. RecoveryCutoff(job[p]) \in Time
    BY <1>0, <2>1, CutoffIsMax DEF CutoffOK
  <2>3. [seen[p] EXCEPT !.cutoff = RecoveryCutoff(job[p])] \in Seen
    <3>1. seen[p] \in Seen
      BY <1>0 DEF TypeOK
    <3>2. QED
      BY <2>2, <3>1 DEF Seen
  <2>4. QED
    BY <1>7, <2>1, <2>3, LocalStepType DEF RecoverCutoff, Goto, PCs, Proven
<1>b. ASSUME NEW p \in Procs, NEW res \in States, NEW n \in Nat, NEW t \in Time
      PROVE  Verdict(seen[p].state, seen[p].sequence, res, n, t) \in Seen
  <2>1. seen[p].state \in States /\ seen[p].sequence \in Nat
    BY <1>0 DEF TypeOK, Seen
  <2>2. 0 \in Time /\ 0 \in 0..MaxSync
    BY BoundAssumption DEF Time
  <2>3. QED
    BY <1>b, <2>1, <2>2 DEF Verdict, Seen
<1>c. ASSUME NEW p \in Procs, pc[p] # "idle", Unproven(p),
             UNCHANGED <<journal, broker, authority, now, proof>>
      PROVE  TypeInv'
  <2>1. Verdict(seen[p].state, seen[p].sequence, "UNKNOWN_BROKER_STATE", 0, 0) \in Seen
    <3>1. 0 \in Time /\ 0 \in Nat /\ "UNKNOWN_BROKER_STATE" \in States
      BY <1>a, BoundAssumption DEF Time
    <3>2. QED
      BY <1>b, <3>1
  <2>2. QED
    BY <1>c, <2>1, LocalStepType DEF Unproven, Conclude, Goto, PCs, Proven
<1>8. ASSUME NEW p \in Procs, RecoverLookup(p) PROVE TypeInv'
  <2>1. pc[p] # "idle" /\ job[p] \in Clients /\ row[job[p]] # NoRequest
    BY <1>0, <1>8 DEF JobOK, RecoverLookup
  <2> DEFINE c == job[p]
             v == [seen[p] EXCEPT !.asked = Len(audit[c]), !.eventVer = event[c].ver,
                                  !.reconVer = recon[Account(c)].ver, !.status = event[c].status]
  <2>2. Account(c) \in Accounts
    BY <1>0, <2>1, RequestAssumption DEF Account, TypeOK
  <2>3. v \in Seen
    <3>1. seen[p] \in Seen /\ Len(audit[c]) \in Nat /\ event[c] \in Event /\ recon[Account(c)] \in Recon
      BY <1>0, <2>1, <2>2 DEF TypeOK
    <3>2. /\ event[c].ver \in 0..MaxSync /\ event[c].status \in Recovered \cup {"NONE"}
          /\ recon[Account(c)].ver \in 0..MaxSync
      BY <3>1 DEF Event, Recon
    <3>3. QED
      BY <3>1, <3>2 DEF Seen
  <2>4. UNCHANGED <<journal, broker, authority, now, proof>>
    BY <1>8 DEF RecoverLookup
  <2>5. CASE Unproven(p)
    BY <2>1, <2>4, <2>5, <1>c
  <2>6. CASE Goto(p, "lookup", v)
    BY <2>1, <2>3, <2>4, <2>6, LocalStepType DEF Goto, PCs, Proven
  <2>7. QED
    BY <1>8, <2>5, <2>6 DEF RecoverLookup
<1>9. ASSUME NEW p \in Procs, VerifyOrder(p) PROVE TypeInv'
  <2>1. pc[p] # "idle" /\ job[p] \in Clients /\ row[job[p]] # NoRequest
    BY <1>0, <1>9 DEF JobOK, VerifyOrder
  <2> DEFINE v == [seen[p] EXCEPT !.observed = event[job[p]].observed,
                                  !.oldest = event[job[p]].requested]
  <2>2. v \in Seen
    <3>1. seen[p] \in Seen /\ event[job[p]] \in Event
      BY <1>0, <2>1 DEF TypeOK
    <3>2. event[job[p]].observed \in Time /\ event[job[p]].requested \in Time
      BY <3>1 DEF Event
    <3>3. QED
      BY <3>1, <3>2 DEF Seen
  <2>3. UNCHANGED <<journal, broker, authority, now, proof>>
    BY <1>9 DEF VerifyOrder
  <2>4. CASE Unproven(p)
    BY <2>1, <2>3, <2>4, <1>c
  <2>5. CASE Goto(p, "order", v)
    BY <2>1, <2>2, <2>3, <2>5, LocalStepType DEF Goto, PCs, Proven
  <2>6. QED
    BY <1>9, <2>4, <2>5 DEF VerifyOrder
<1>10. ASSUME NEW p \in Procs, VerifyRun(p) PROVE TypeInv'
  <2>1. pc[p] # "idle" /\ job[p] \in Clients /\ row[job[p]] # NoRequest
    BY <1>0, <1>10 DEF JobOK, VerifyRun
  <2> DEFINE snapshotAt == recon[Account(job[p])].snapshotAt
             old == IF snapshotAt < seen[p].oldest THEN snapshotAt ELSE seen[p].oldest
             v == Verdict(seen[p].state, seen[p].sequence, seen[p].status, seen[p].asked, old)
  <2>2. Account(job[p]) \in Accounts
    BY <1>0, <2>1, RequestAssumption DEF Account, TypeOK
  <2>3. snapshotAt \in Time /\ seen[p].oldest \in Time /\ seen[p].asked \in Nat
    BY <1>0, <2>2 DEF TypeOK, Seen, Recon
  <2>4. seen[p].status \in States
    BY <1>a, <1>10 DEF ResultOK, VerifyRun
  <2>5. v \in Seen
    BY <2>3, <2>4, <1>b
  <2>6. UNCHANGED <<journal, broker, authority, now, proof>>
    BY <1>10 DEF VerifyRun
  <2>7. CASE Unproven(p)
    BY <2>1, <2>6, <2>7, <1>c
  <2>8. CASE Goto(p, "run", v)
    BY <2>1, <2>5, <2>6, <2>8, LocalStepType DEF Goto, PCs, Proven
  <2>9. QED
    BY <1>10, <2>7, <2>8 DEF VerifyRun, Conclude
<1>v. ASSUME NEW p \in Procs, VerifyIssues(p) PROVE TypeInv'
  <2>1. pc[p] # "idle" /\ UNCHANGED <<journal, broker, authority, now, proof>> /\ seen[p] \in Seen
    BY <1>0, <1>v DEF VerifyIssues, TypeOK
  <2> DEFINE label == IF seen[p].result \in FillStates THEN "issues" ELSE "verdict"
  <2>2. label \in PCs \ {"idle"}
    BY DEF PCs, Proven
  <2>3. CASE Unproven(p)
    BY <2>1, <2>3, <1>c
  <2> HIDE DEF label
  <2>4. CASE Goto(p, label, seen[p])
    BY <2>1, <2>2, <2>4, LocalStepType DEF Goto
  <2>5. QED
    BY <1>v, <2>3, <2>4 DEF VerifyIssues, label
<1>w. ASSUME NEW p \in Procs, VerifyPosting(p) PROVE TypeInv'
  <2>1. pc[p] # "idle" /\ UNCHANGED <<journal, broker, authority, now, proof>> /\ seen[p] \in Seen
    BY <1>0, <1>w DEF VerifyPosting, TypeOK
  <2>2. CASE Unproven(p)
    BY <2>1, <2>2, <1>c
  <2>3. CASE Goto(p, "verdict", seen[p])
    BY <2>1, <2>3, LocalStepType DEF Goto, PCs, Proven
  <2>4. QED
    BY <1>w, <2>2, <2>3 DEF VerifyPosting
<1>11. ASSUME NEW p \in Procs, RecoverCommit(p) PROVE TypeInv'
  <2>1. pc[p] # "idle" /\ job[p] \in Clients /\ row[job[p]] # NoRequest
    BY <1>0, <1>11 DEF JobOK, RecoverCommit
  <2> DEFINE res == seen[p].result
  <2>2. res \in States \ {"NONE"}
    BY <1>a, <1>11, StateAssumption DEF ResultOK, Proven, RecoverCommit
  <2>3. /\ state' = [state EXCEPT ![job[p]] = res]
        /\ audit' = [audit EXCEPT ![job[p]] = Append(@, [state |-> res, marker |-> NoMarker])]
        /\ pc' = [pc EXCEPT ![p] = "idle"] /\ job' = [job EXCEPT ![p] = NoClient]
        /\ seen' = [seen EXCEPT ![p] = NothingSeen]
        /\ UNCHANGED <<row, started, broker, authority, now>>
    BY <1>11 DEF RecoverCommit, Record, Return
  <2>4. UNCHANGED sends
    BY <2>3 DEF broker
  <2>5. state' \in [Clients -> States] /\ audit' \in [Clients -> Seq(AuditRow)] /\ RowOK' /\ CutoffOK'
    BY <1>a, <2>1, <2>2, <2>3, <2>4, RecordKeepsJournal
  <2>6. proof' \in [Clients -> [asked : Nat, oldest : Time]]
    BY <1>0, <1>11, <2>1 DEF RecoverCommit, TypeOK, Seen
  <2>7. TypeOK' /\ JobOK'
    BY <1>0, <1>a, <2>3, <2>5, <2>6 DEF TypeOK, JobOK, broker, authority, PCs, Proven
  <2>8. QED
    BY <2>5, <2>7 DEF TypeInv
<1>d. ASSUME NEW p \in Procs, Return(p), UNCHANGED <<journal, broker, authority, now, proof>>
      PROVE  TypeInv'
  <2>1. RowOK' /\ CutoffOK'
    BY <1>d, JournalFrame DEF broker
  <2>2. TypeOK' /\ JobOK'
    BY <1>0, <1>d, <1>a DEF Return, TypeOK, JobOK, PCs, Proven, journal, broker, authority
  <2>3. QED
    BY <2>1, <2>2 DEF TypeInv
<1>12. ASSUME NEW p \in Procs, RecoverRequery(p) PROVE TypeInv'
  BY <1>12, <1>d DEF RecoverRequery
<1>13. ASSUME NEW p \in Procs, Crash(p) PROVE TypeInv'
  BY <1>13, <1>d DEF Crash
<1>e. ASSUME UNCHANGED journal, UNCHANGED procs, UNCHANGED proof, UNCHANGED sends,
             delivered' \subseteq Clients, event' \in [Clients -> Event],
             recon' \in [Accounts -> Recon], issues' \subseteq Accounts,
             posted' \subseteq Clients, now' \in Time
      PROVE  TypeInv'
  <2>1. RowOK' /\ CutoffOK'
    BY <1>e, JournalFrame
  <2>2. TypeOK' /\ JobOK'
    BY <1>0, <1>e DEF TypeOK, JobOK, journal, procs
  <2>3. QED
    BY <2>1, <2>2 DEF TypeInv
<1>14. ASSUME NEW c \in Clients, Deliver(c) PROVE TypeInv'
  BY <1>0, <1>14, <1>e DEF Deliver, TypeOK, authority
<1>15. ASSUME NEW c \in Clients, PostFill(c) PROVE TypeInv'
  BY <1>0, <1>15, <1>e DEF PostFill, TypeOK, broker
<1>16. ASSUME NEW c \in Clients, NEW s \in Recovered, NEW t \in Time, NEW u \in Time,
              SyncOrder(c, s, t, u)
       PROVE  TypeInv'
  <2>1. event' \in [Clients -> Event]
    BY <1>0, <1>16, BoundAssumption DEF SyncOrder, TypeOK, Event
  <2>2. QED
    BY <1>0, <1>16, <1>e, <2>1 DEF SyncOrder, TypeOK, broker
<1>17. ASSUME NEW a \in Accounts, NEW clean \in BOOLEAN, NEW t \in Time,
              ReconcileAccount(a, clean, t)
       PROVE  TypeInv'
  <2> DEFINE links == [c \in Clients |->
                         IF c \in delivered /\ Account(c) = a THEN event[c].ver ELSE 0]
             run == [ver |-> recon[a].ver + 1, clean |-> clean, snapshotAt |-> t,
                     completed |-> now, linked |-> links]
  <2>0. run \in Recon
    <3>1. links \in [Clients -> 0..MaxSync]
      BY <1>0, BoundAssumption DEF TypeOK, Event
    <3>2. recon[a].ver + 1 \in 0..MaxSync
      BY <1>0, <1>17, BoundAssumption DEF ReconcileAccount, TypeOK, Recon
    <3> HIDE DEF links
    <3>3. QED
      BY <1>0, <3>1, <3>2 DEF TypeOK, Recon
  <2>1. recon' \in [Accounts -> Recon]
    <3>1. recon' = [recon EXCEPT ![a] = run]
      BY <1>17 DEF ReconcileAccount
    <3> HIDE DEF run
    <3>2. QED
      BY <1>0, <2>0, <3>1 DEF TypeOK
  <2>2. issues' \subseteq Accounts
    BY <1>0, <1>17 DEF ReconcileAccount, TypeOK
  <2>3. QED
    BY <1>0, <1>17, <1>e, <2>1, <2>2 DEF ReconcileAccount, TypeOK, broker
<1>18. ASSUME NEW a \in Accounts, ResolveIssue(a) PROVE TypeInv'
  BY <1>0, <1>18, <1>e DEF ResolveIssue, TypeOK, broker
<1>19. ASSUME Tick PROVE TypeInv'
  BY <1>0, <1>19, <1>e, BoundAssumption DEF Tick, TypeOK, broker, authority, Time
<1>20. CASE UNCHANGED vars
  BY <1>0, <1>20, <1>e DEF vars, TypeOK, broker, authority
<1>21. QED
  BY <1>1, <1>2, <1>3, <1>4, <1>5, <1>6, <1>7, <1>8, <1>9, <1>10, <1>v, <1>w, <1>11, <1>12, <1>13, <1>14,
     <1>15, <1>16, <1>17, <1>18, <1>19, <1>20
     DEF Next, SubmitOnce, Recover, World

\* A concluded recovery carries what it was concluded with.
LEMMA ConcludeFacts ==
  ASSUME TypeOK, NEW p \in Procs, NEW res, NEW n, NEW t,
         seen' = [seen EXCEPT ![p] =
                    Verdict(seen[p].state, seen[p].sequence, res, n, t)]
  PROVE  /\ seen'[p].result = res /\ seen'[p].asked = n /\ seen'[p].oldest = t
         /\ seen'[p].state = seen[p].state /\ seen'[p].sequence = seen[p].sequence
         /\ \A q \in Procs : q # p => seen'[q] = seen[q]
<1>1. /\ seen'[p] = Verdict(seen[p].state, seen[p].sequence, res, n, t)
      /\ \A q \in Procs : q # p => seen'[q] = seen[q]
  BY DEF TypeOK
<1>2. QED
  BY <1>1 DEF Verdict

LEMMA GotoFacts ==
  ASSUME TypeOK, NEW p \in Procs, NEW v,
         seen' = [seen EXCEPT ![p] = v]
  PROVE  seen'[p] = v /\ \A q \in Procs : q # p => seen'[q] = seen[q]
  BY DEF TypeOK

LEMMA ResultStep == TypeInv /\ ResultOK /\ [Next]_vars => ResultOK'
<1> SUFFICES ASSUME TypeInv, ResultOK, [Next]_vars PROVE ResultOK'
  OBVIOUS
<1>0. TypeOK /\ JobOK /\ ResultOK
  BY DEF TypeInv
<1>1. ASSUME NEW p \in Procs, NEW r \in Requests, NEW at \in Time, Claim(p, r, at) PROVE ResultOK'
  BY <1>0, <1>1 DEF Claim, TypeOK, JobOK, ResultOK, Proven, journal, procs, broker, authority
<1>2. ASSUME NEW p \in Procs, Transport(p) PROVE ResultOK'
  BY <1>0, <1>2 DEF Transport, Goto, TypeOK, JobOK, ResultOK, Proven, journal, procs, broker, authority
<1>3. ASSUME NEW p \in Procs, RecordAmbiguous(p) PROVE ResultOK'
  BY <1>0, <1>3 DEF RecordAmbiguous, Return, TypeOK, JobOK, ResultOK, Proven, journal, procs, broker, authority
<1>4. ASSUME NEW c \in Clients, NEW at \in Time, MarkAmbiguous(c, at) PROVE ResultOK'
  BY <1>0, <1>4 DEF MarkAmbiguous, TypeOK, JobOK, ResultOK, Proven, journal, procs, broker, authority
<1>5. ASSUME NEW p \in Procs, NEW c \in Clients, RecoverRow(p, c) PROVE ResultOK'
  BY <1>0, <1>5 DEF RecoverRow, TypeOK, JobOK, ResultOK, Proven, journal, procs, broker, authority
<1>6. ASSUME NEW p \in Procs, RecoverSequence(p) PROVE ResultOK'
  BY <1>0, <1>6 DEF RecoverSequence, Goto, TypeOK, JobOK, ResultOK, Proven, journal, procs, broker, authority
<1>7. ASSUME NEW p \in Procs, RecoverCutoff(p) PROVE ResultOK'
  BY <1>0, <1>7 DEF RecoverCutoff, Goto, TypeOK, JobOK, ResultOK, Proven, journal, procs, broker, authority
<1>u. ASSUME NEW p \in Procs, Unproven(p), UNCHANGED <<journal, broker, authority, now, proof>>
      PROVE  ResultOK'
  <2>1. /\ seen'[p].result = "UNKNOWN_BROKER_STATE"
        /\ \A q \in Procs : q # p => seen'[q] = seen[q]
    BY <1>0, <1>u, ConcludeFacts DEF Unproven, Conclude, Goto
  <2>2. pc' = [pc EXCEPT ![p] = "verdict"] /\ UNCHANGED job
    BY <1>u DEF Unproven, Conclude, Goto
  <2>3. QED
    BY <1>0, <1>u, <2>1, <2>2 DEF ResultOK, Proven, TypeOK, authority, broker
<1>s. ASSUME NEW p \in Procs, NEW label \in Proven, pc[p] \in Proven, Goto(p, label, seen[p]),
             UNCHANGED <<journal, broker, authority, now, proof>>
      PROVE  ResultOK'
  <2>1. UNCHANGED <<seen, job>> /\ pc' = [pc EXCEPT ![p] = label]
    BY <1>0, <1>s DEF Goto, TypeOK
  <2>2. QED
    BY <1>0, <1>s, <2>1 DEF ResultOK, Proven, TypeOK, authority, broker
<1>8. ASSUME NEW p \in Procs, RecoverLookup(p) PROVE ResultOK'
  <2> DEFINE c == job[p]
             v == [seen[p] EXCEPT !.asked = Len(audit[c]), !.eventVer = event[c].ver,
                                  !.reconVer = recon[Account(c)].ver, !.status = event[c].status]
  <2>1. UNCHANGED <<journal, broker, authority, now, proof>> /\ c \in Clients /\ pc[p] = "cutoff"
    BY <1>0, <1>8 DEF RecoverLookup, JobOK
  <2>2. CASE Unproven(p)
    BY <1>0, <2>1, <2>2, <1>u
  <2>3. CASE event[c].ver > 0 /\ Goto(p, "lookup", v)
    <3>1. seen'[p] = v /\ \A q \in Procs : q # p => seen'[q] = seen[q]
      BY <1>0, <2>3, GotoFacts DEF Goto
    <3>2. v.status = event[c].status
      BY <1>0 DEF TypeOK, Seen
    <3>3. pc' = [pc EXCEPT ![p] = "lookup"] /\ UNCHANGED job
      BY <2>3 DEF Goto
    <3> HIDE DEF v
    <3>4. QED
      BY <1>0, <2>1, <2>3, <3>1, <3>2, <3>3 DEF ResultOK, Proven, TypeOK, authority, broker
  <2>4. QED
    BY <1>8, <2>2, <2>3 DEF RecoverLookup
<1>9. ASSUME NEW p \in Procs, VerifyOrder(p) PROVE ResultOK'
  <2> DEFINE v == [seen[p] EXCEPT !.observed = event[job[p]].observed,
                                  !.oldest = event[job[p]].requested]
  <2>1. UNCHANGED <<journal, broker, authority, now, proof>> /\ job[p] \in Clients /\ pc[p] = "lookup"
    BY <1>0, <1>9 DEF VerifyOrder, JobOK
  <2>2. CASE Unproven(p)
    BY <1>0, <2>1, <2>2, <1>u
  <2>3. CASE Goto(p, "order", v)
    <3>1. seen'[p] = v /\ \A q \in Procs : q # p => seen'[q] = seen[q]
      BY <1>0, <2>3, GotoFacts DEF Goto
    <3>2. v.status = seen[p].status
      BY <1>0 DEF TypeOK, Seen
    <3>3. pc' = [pc EXCEPT ![p] = "order"] /\ UNCHANGED job
      BY <2>3 DEF Goto
    <3> HIDE DEF v
    <3>4. QED
      BY <1>0, <2>1, <3>1, <3>2, <3>3 DEF ResultOK, Proven, TypeOK, authority, broker
  <2>4. QED
    BY <1>9, <2>2, <2>3 DEF VerifyOrder
<1>10. ASSUME NEW p \in Procs, VerifyRun(p) PROVE ResultOK'
  <2> DEFINE snapshotAt == recon[Account(job[p])].snapshotAt
             old == IF snapshotAt < seen[p].oldest THEN snapshotAt ELSE seen[p].oldest
  <2>1. /\ UNCHANGED <<journal, broker, authority, now, proof>>
        /\ job[p] \in Clients /\ pc[p] = "order"
        /\ seen[p].status \in Recovered /\ job[p] \in delivered
    BY <1>0, <1>10 DEF VerifyRun, JobOK, ResultOK
  <2>2. CASE Unproven(p)
    BY <1>0, <2>1, <2>2, <1>u
  <2>3. CASE Conclude(p, "run", seen[p].status, seen[p].asked, old)
    <3>1. /\ seen'[p].result = seen[p].status
          /\ \A q \in Procs : q # p => seen'[q] = seen[q]
      BY <1>0, <2>3, ConcludeFacts DEF Conclude, Goto
    <3>2. pc' = [pc EXCEPT ![p] = "run"] /\ UNCHANGED job
      BY <2>3 DEF Conclude, Goto
    <3>3. QED
      BY <1>0, <2>1, <3>1, <3>2 DEF ResultOK, Proven, TypeOK, authority, broker
  <2>4. QED
    BY <1>10, <2>2, <2>3 DEF VerifyRun
<1>v. ASSUME NEW p \in Procs, VerifyIssues(p) PROVE ResultOK'
  <2> DEFINE label == IF seen[p].result \in FillStates THEN "issues" ELSE "verdict"
  <2>1. UNCHANGED <<journal, broker, authority, now, proof>> /\ pc[p] = "run"
    BY <1>v DEF VerifyIssues
  <2>2. CASE Unproven(p)
    BY <1>0, <2>1, <2>2, <1>u
  <2>3. CASE Goto(p, label, seen[p])
    <3>1. label \in Proven
      BY DEF Proven
    <3> HIDE DEF label
    <3>2. QED
      BY <1>0, <2>1, <2>3, <3>1, <1>s DEF Proven
  <2>4. QED
    BY <1>v, <2>2, <2>3 DEF VerifyIssues
<1>w. ASSUME NEW p \in Procs, VerifyPosting(p) PROVE ResultOK'
  <2>1. UNCHANGED <<journal, broker, authority, now, proof>> /\ pc[p] = "issues"
    BY <1>w DEF VerifyPosting
  <2>2. CASE Unproven(p)
    BY <1>0, <2>1, <2>2, <1>u
  <2>3. CASE Goto(p, "verdict", seen[p])
    BY <1>0, <2>1, <2>3, <1>s DEF Proven
  <2>4. QED
    BY <1>w, <2>2, <2>3 DEF VerifyPosting
<1>11. ASSUME NEW p \in Procs, RecoverCommit(p) PROVE ResultOK'
  BY <1>0, <1>11 DEF RecoverCommit, Return, TypeOK, JobOK, ResultOK, Proven, journal, procs, broker, authority
<1>12. ASSUME NEW p \in Procs, RecoverRequery(p) PROVE ResultOK'
  BY <1>0, <1>12 DEF RecoverRequery, Return, TypeOK, JobOK, ResultOK, Proven, journal, procs, broker, authority
<1>13. ASSUME NEW p \in Procs, Crash(p) PROVE ResultOK'
  BY <1>0, <1>13 DEF Crash, Return, TypeOK, JobOK, ResultOK, Proven, journal, procs, broker, authority
<1>14. ASSUME NEW c \in Clients, Deliver(c) PROVE ResultOK'
  BY <1>0, <1>14 DEF Deliver, TypeOK, JobOK, ResultOK, Proven, journal, procs, broker, authority
<1>15. ASSUME NEW c \in Clients, PostFill(c) PROVE ResultOK'
  BY <1>0, <1>15 DEF PostFill, TypeOK, JobOK, ResultOK, Proven, journal, procs, broker, authority
<1>16. ASSUME NEW c \in Clients, NEW s \in Recovered, NEW t \in Time, NEW u \in Time, SyncOrder(c, s, t, u) PROVE ResultOK'
  BY <1>0, <1>16 DEF SyncOrder, TypeOK, JobOK, ResultOK, Proven, journal, procs, broker, authority
<1>17. ASSUME NEW a \in Accounts, NEW clean \in BOOLEAN, NEW t \in Time, ReconcileAccount(a, clean, t) PROVE ResultOK'
  BY <1>0, <1>17 DEF ReconcileAccount, TypeOK, JobOK, ResultOK, Proven, journal, procs, broker, authority
<1>18. ASSUME NEW a \in Accounts, ResolveIssue(a) PROVE ResultOK'
  BY <1>0, <1>18 DEF ResolveIssue, TypeOK, JobOK, ResultOK, Proven, journal, procs, broker, authority
<1>19. ASSUME Tick PROVE ResultOK'
  BY <1>0, <1>19 DEF Tick, TypeOK, JobOK, ResultOK, Proven, journal, procs, broker, authority
<1>20. CASE UNCHANGED vars
  BY <1>0, <1>20 DEF vars, TypeOK, JobOK, ResultOK, Proven, journal, procs, broker, authority
<1>21. QED
  BY <1>1, <1>2, <1>3, <1>4, <1>5, <1>6, <1>7, <1>8, <1>9, <1>10, <1>v, <1>w, <1>11, <1>12, <1>13, <1>14,
     <1>15, <1>16, <1>17, <1>18, <1>19, <1>20
     DEF Next, SubmitOnce, Recover, World

-----------------------------------------------------------------------------
(* At most one transmission                                                *)

\* One row per economic order; an order is transmitted at most once, delivered
\* only if transmitted and reconciled only if delivered; a claimed order is not
\* yet transmitted, so nothing can reconcile it and its account stays blocked.
SendInv ==
  /\ \A c, d \in Clients :
       (row[c] # NoRequest /\ row[d] # NoRequest /\ EconOf[row[c]] = EconOf[row[d]]) => c = d
  /\ \A c \in Clients : /\ sends[c] \in {0, 1}
                        /\ c \in delivered => sends[c] = 1
                        /\ state[c] \in Recovered => c \in delivered
  /\ \A p \in Procs : pc[p] = "claimed" => sends[job[p]] = 0
  /\ \A p, q \in Procs :
       (p # q /\ pc[p] = "claimed" /\ pc[q] = "claimed") => Account(job[p]) # Account(job[q])

LEMMA SendStep == TypeInv /\ ResultOK /\ SendInv /\ [Next]_vars => SendInv'
<1> SUFFICES ASSUME TypeInv, ResultOK, SendInv, [Next]_vars PROVE SendInv'
  OBVIOUS
<1>0. TypeOK /\ RowOK /\ JobOK /\ ResultOK /\ SendInv
  BY DEF TypeInv
<1>g. \A q \in Procs : pc[q] = "claimed" => state[job[q]] \in Unresolved
  <2> SUFFICES ASSUME NEW q \in Procs, pc[q] = "claimed" PROVE state[job[q]] \in Unresolved
    OBVIOUS
  <2>1. job[q] \in Clients /\ row[job[q]] # NoRequest
    BY <1>0 DEF JobOK
  <2>2. job[q] \notin delivered
    BY <1>0, <2>1 DEF SendInv
  <2>3. state[job[q]] \notin Recovered /\ state[job[q]] # "NONE" /\ state[job[q]] \in States
    BY <1>0, <2>1, <2>2 DEF SendInv, RowOK, TypeOK
  <2>4. QED
    BY <2>3 DEF States
<1>f. ASSUME UNCHANGED <<journal, broker>>,
             \A q \in Procs : pc'[q] = "claimed" => pc[q] = "claimed" /\ job'[q] = job[q]
      PROVE  SendInv'
  BY <1>0, <1>f DEF SendInv, Account, journal, broker
<1>1. ASSUME NEW p \in Procs, NEW r \in Requests, NEW at \in Time, Claim(p, r, at) PROVE SendInv'
  <2> DEFINE c == ClientOf[r]
  <2>1. c \in Clients /\ r # NoRequest /\ EconOf[r] \in EconKeys
    BY RequestAssumption
  <2>2. /\ \A d \in Clients : row[d] # NoRequest => d # c /\ EconOf[row[d]] # EconOf[r]
        /\ \A d \in Clients : (row[d] # NoRequest /\ Account(d) = KeyAccount[EconOf[r]])
             => state[d] \notin Unresolved
    BY <1>1 DEF Claim, Existing, UnresolvedOn
  <2>3. /\ row' = [row EXCEPT ![c] = r] /\ pc' = [pc EXCEPT ![p] = "claimed"]
        /\ job' = [job EXCEPT ![p] = c] /\ state' = [state EXCEPT ![c] = "SUBMITTING"]
        /\ UNCHANGED <<sends, delivered>> /\ pc[p] = "idle"
    BY <1>1 DEF Claim, Record, broker
  <2> HIDE DEF c
  <2>4. row[c] = NoRequest /\ sends[c] = 0
    BY <1>0, <2>1, <2>2 DEF RowOK
  <2>5. /\ \A d \in Clients : row'[d] = IF d = c THEN r ELSE row[d]
        /\ \A d \in Clients : state'[d] = IF d = c THEN "SUBMITTING" ELSE state[d]
        /\ \A q \in Procs : pc'[q] = IF q = p THEN "claimed" ELSE pc[q]
        /\ \A q \in Procs : job'[q] = IF q = p THEN c ELSE job[q]
    BY <1>0, <2>1, <2>3 DEF TypeOK
  <2>6. \A q \in Procs : pc[q] = "claimed" =>
          /\ job[q] \in Clients /\ row[job[q]] # NoRequest /\ job[q] # c
          /\ state[job[q]] \in Unresolved /\ Account(job[q]) # KeyAccount[EconOf[r]]
    BY <1>0, <1>g, <2>2, <2>4 DEF JobOK
  <2>7. \A d, e \in Clients : (row'[d] # NoRequest /\ row'[e] # NoRequest
                                /\ EconOf[row'[d]] = EconOf[row'[e]]) => d = e
    BY <1>0, <2>2, <2>5 DEF SendInv
  <2>8. \A d \in Clients : /\ sends'[d] \in {0, 1}
                           /\ d \in delivered' => sends'[d] = 1
                           /\ state'[d] \in Recovered => d \in delivered'
    BY <1>0, <2>3, <2>5, StateAssumption DEF SendInv
  <2>9. \A q \in Procs : pc'[q] = "claimed" => sends'[job'[q]] = 0
    BY <1>0, <2>3, <2>4, <2>5 DEF SendInv
  <2>10. \A q, u \in Procs : (q # u /\ pc'[q] = "claimed" /\ pc'[u] = "claimed")
           => KeyAccount[EconOf[row'[job'[q]]]] # KeyAccount[EconOf[row'[job'[u]]]]
    BY <1>0, <2>1, <2>5, <2>6 DEF SendInv, Account
  <2>11. QED
    BY <2>7, <2>8, <2>9, <2>10 DEF SendInv, Account
<1>2. ASSUME NEW p \in Procs, Transport(p) PROVE SendInv'
  <2>1. job[p] \in Clients /\ sends[job[p]] = 0
    BY <1>0, <1>2 DEF Transport, JobOK, SendInv
  <2>2. /\ \A d \in Clients : sends'[d] = IF d = job[p] THEN 1 ELSE sends[d]
        /\ \A q \in Procs : pc'[q] = IF q = p THEN "sent" ELSE pc[q]
        /\ UNCHANGED <<job, row, state, delivered>>
    BY <1>0, <1>2, <2>1 DEF Transport, Goto, TypeOK, journal
  <2>3. \A q \in Procs : (q # p /\ pc[q] = "claimed") => job[q] # job[p] /\ job[q] \in Clients
    BY <1>0, <1>2 DEF SendInv, Transport, JobOK
  <2>4. \A q \in Procs : pc'[q] = "claimed" => pc[q] = "claimed" /\ sends'[job'[q]] = 0
    BY <1>0, <2>2, <2>3 DEF SendInv
  <2>5. \A d \in Clients : /\ sends'[d] \in {0, 1}
                           /\ d \in delivered' => sends'[d] = 1
                           /\ state'[d] \in Recovered => d \in delivered'
    BY <1>0, <2>1, <2>2 DEF SendInv
  <2>6. QED
    BY <1>0, <2>2, <2>4, <2>5 DEF SendInv, Account
<1>3. ASSUME NEW p \in Procs, RecordAmbiguous(p) PROVE SendInv'
  <2>1. job[p] \in Clients
    BY <1>0, <1>3 DEF RecordAmbiguous, JobOK
  <2>2. /\ \A d \in Clients : state'[d] = IF d = job[p] THEN "UNKNOWN_BROKER_STATE" ELSE state[d]
        /\ \A q \in Procs : pc'[q] = "claimed" => pc[q] = "claimed" /\ job'[q] = job[q]
        /\ UNCHANGED <<row, sends, delivered>>
    BY <1>0, <1>3, <2>1 DEF RecordAmbiguous, Record, Return, TypeOK, broker, procs
  <2>3. QED
    BY <1>0, <2>1, <2>2, StateAssumption DEF SendInv, Account
<1>4. ASSUME NEW c \in Clients, NEW at \in Time, MarkAmbiguous(c, at) PROVE SendInv'
  <2>1. c \in Clients
    BY <1>0, <1>4 DEF RecordAmbiguous, JobOK
  <2>2. /\ \A d \in Clients : state'[d] = IF d = c THEN "UNKNOWN_BROKER_STATE" ELSE state[d]
        /\ \A q \in Procs : pc'[q] = "claimed" => pc[q] = "claimed" /\ job'[q] = job[q]
        /\ UNCHANGED <<row, sends, delivered>>
    BY <1>0, <1>4, <2>1 DEF MarkAmbiguous, Record, TypeOK, broker, procs
  <2>3. QED
    BY <1>0, <2>1, <2>2, StateAssumption DEF SendInv, Account
<1>5. ASSUME NEW p \in Procs, NEW c \in Clients, RecoverRow(p, c) PROVE SendInv'
  <2>1. /\ UNCHANGED <<journal, broker>>
        /\ \A q \in Procs : pc'[q] = "claimed" => pc[q] = "claimed" /\ job'[q] = job[q]
    BY <1>0, <1>5 DEF RecoverRow, TypeOK
  <2>2. QED
    BY <2>1, <1>f
<1>6. ASSUME NEW p \in Procs, RecoverSequence(p) PROVE SendInv'
  <2>1. /\ UNCHANGED <<journal, broker>>
        /\ \A q \in Procs : pc'[q] = "claimed" => pc[q] = "claimed" /\ job'[q] = job[q]
    BY <1>0, <1>6 DEF RecoverSequence, Goto, TypeOK
  <2>2. QED
    BY <2>1, <1>f
<1>7. ASSUME NEW p \in Procs, RecoverCutoff(p) PROVE SendInv'
  <2>1. /\ UNCHANGED <<journal, broker>>
        /\ \A q \in Procs : pc'[q] = "claimed" => pc[q] = "claimed" /\ job'[q] = job[q]
    BY <1>0, <1>7 DEF RecoverCutoff, Goto, TypeOK
  <2>2. QED
    BY <2>1, <1>f
<1>8. ASSUME NEW p \in Procs, RecoverLookup(p) PROVE SendInv'
  <2>1. /\ UNCHANGED <<journal, broker>>
        /\ \A q \in Procs : pc'[q] = "claimed" => pc[q] = "claimed" /\ job'[q] = job[q]
    BY <1>0, <1>8 DEF RecoverLookup, Goto, Unproven, Conclude, TypeOK
  <2>2. QED
    BY <2>1, <1>f
<1>9. ASSUME NEW p \in Procs, VerifyOrder(p) PROVE SendInv'
  <2>1. /\ UNCHANGED <<journal, broker>>
        /\ \A q \in Procs : pc'[q] = "claimed" => pc[q] = "claimed" /\ job'[q] = job[q]
    BY <1>0, <1>9 DEF VerifyOrder, Goto, Unproven, Conclude, TypeOK
  <2>2. QED
    BY <2>1, <1>f
<1>10. ASSUME NEW p \in Procs, VerifyRun(p) PROVE SendInv'
  <2>1. /\ UNCHANGED <<journal, broker>>
        /\ \A q \in Procs : pc'[q] = "claimed" => pc[q] = "claimed" /\ job'[q] = job[q]
    BY <1>0, <1>10 DEF VerifyRun, Goto, Unproven, Conclude, TypeOK
  <2>2. QED
    BY <2>1, <1>f
<1>v. ASSUME NEW p \in Procs, VerifyIssues(p) PROVE SendInv'
  <2>1. /\ UNCHANGED <<journal, broker>>
        /\ \A q \in Procs : pc'[q] = "claimed" => pc[q] = "claimed" /\ job'[q] = job[q]
    BY <1>0, <1>v DEF VerifyIssues, Goto, Unproven, Conclude, TypeOK
  <2>2. QED
    BY <2>1, <1>f
<1>w. ASSUME NEW p \in Procs, VerifyPosting(p) PROVE SendInv'
  <2>1. /\ UNCHANGED <<journal, broker>>
        /\ \A q \in Procs : pc'[q] = "claimed" => pc[q] = "claimed" /\ job'[q] = job[q]
    BY <1>0, <1>w DEF VerifyPosting, Goto, Unproven, Conclude, TypeOK
  <2>2. QED
    BY <2>1, <1>f
<1>11. ASSUME NEW p \in Procs, RecoverCommit(p) PROVE SendInv'
  <2>1. job[p] \in Clients
    BY <1>0, <1>11 DEF RecoverCommit, JobOK
  <2>2. /\ \A d \in Clients : state'[d] = IF d = job[p] THEN seen[p].result ELSE state[d]
        /\ \A q \in Procs : pc'[q] = "claimed" => pc[q] = "claimed" /\ job'[q] = job[q]
        /\ UNCHANGED <<row, sends, delivered>>
    BY <1>0, <1>11, <2>1 DEF RecoverCommit, Record, Return, TypeOK, broker
  <2>3. seen[p].result \in Recovered => job[p] \in delivered
    BY <1>0, <1>11, StateAssumption DEF ResultOK, Proven, RecoverCommit
  <2>4. QED
    BY <1>0, <2>1, <2>2, <2>3 DEF SendInv, Account
<1>12. ASSUME NEW p \in Procs, RecoverRequery(p) PROVE SendInv'
  <2>1. /\ UNCHANGED <<journal, broker>>
        /\ \A q \in Procs : pc'[q] = "claimed" => pc[q] = "claimed" /\ job'[q] = job[q]
    BY <1>0, <1>12 DEF RecoverRequery, Return, TypeOK
  <2>2. QED
    BY <2>1, <1>f
<1>13. ASSUME NEW p \in Procs, Crash(p) PROVE SendInv'
  <2>1. /\ UNCHANGED <<journal, broker>>
        /\ \A q \in Procs : pc'[q] = "claimed" => pc[q] = "claimed" /\ job'[q] = job[q]
    BY <1>0, <1>13 DEF Crash, Return, TypeOK
  <2>2. QED
    BY <2>1, <1>f
<1>14. ASSUME NEW c \in Clients, Deliver(c) PROVE SendInv'
  <2>1. sends[c] = 1
    BY <1>0, <1>14 DEF Deliver, SendInv
  <2>2. /\ delivered' = delivered \cup {c}
        /\ UNCHANGED <<row, state, sends, pc, job>>
    BY <1>14 DEF Deliver, journal, procs
  <2>3. QED
    BY <1>0, <2>1, <2>2 DEF SendInv, Account
<1>15. ASSUME NEW c \in Clients, PostFill(c) PROVE SendInv'
  BY <1>15, <1>f DEF PostFill, procs, broker
<1>16. ASSUME NEW c \in Clients, NEW s \in Recovered, NEW t \in Time, NEW u \in Time, SyncOrder(c, s, t, u) PROVE SendInv'
  BY <1>16, <1>f DEF SyncOrder, procs, broker
<1>17. ASSUME NEW a \in Accounts, NEW clean \in BOOLEAN, NEW t \in Time, ReconcileAccount(a, clean, t) PROVE SendInv'
  BY <1>17, <1>f DEF ReconcileAccount, procs, broker, journal
<1>18. ASSUME NEW a \in Accounts, ResolveIssue(a) PROVE SendInv'
  BY <1>18, <1>f DEF ResolveIssue, procs, broker
<1>19. ASSUME Tick PROVE SendInv'
  BY <1>19, <1>f DEF Tick, procs, broker
<1>20. CASE UNCHANGED vars
  BY <1>20, <1>f DEF vars, procs
<1>21. QED
  BY <1>1, <1>2, <1>3, <1>4, <1>5, <1>6, <1>7, <1>8, <1>9, <1>10, <1>v, <1>w, <1>11, <1>12, <1>13, <1>14,
     <1>15, <1>16, <1>17, <1>18, <1>19, <1>20
     DEF Next, SubmitOnce, Recover, World
-----------------------------------------------------------------------------
(* Evidence is newer than every ambiguity                                   *)

Reading == {"sequence", "cutoff", "lookup", "order"} \cup Proven

Bounds(start, trail) == {start} \cup Markers(trail)

\* What a recovery knows at a label, given the audit length and the boundaries
\* its client has now: if no audit row was added since it read the sequence, its
\* cutoff, and later its evidence, is past every boundary.
Fresh(label, s, len, bounds) ==
  /\ label \in Reading => s.sequence <= len
  /\ (label \in {"cutoff", "lookup", "order"} /\ len = s.sequence) => \A b \in bounds : b <= s.cutoff
  /\ label \in {"lookup", "order"} => s.sequence <= s.asked
  /\ label = "order" => s.cutoff <= s.oldest
  /\ (label \in Proven /\ s.result \in Recovered) =>
       /\ s.sequence <= s.asked
       /\ len = s.sequence => \A b \in bounds : b <= s.oldest

\* What a reconciled row's evidence satisfies.
Settled(evidence, trail, bounds) ==
  /\ \A b \in bounds : b <= evidence.oldest
  /\ \A i \in DOMAIN trail : i > evidence.asked => trail[i].marker = NoMarker

FreshInv ==
  /\ \A p \in Procs : pc[p] \in Reading =>
       Fresh(pc[p], seen[p], Len(audit[job[p]]), Bounds(started[job[p]], audit[job[p]]))
  /\ \A c \in Clients : state[c] \in Recovered =>
       Settled(proof[c], audit[c], Bounds(started[c], audit[c]))

LEMMA FreshStep == TypeInv /\ ResultOK /\ FreshInv /\ [Next]_vars => FreshInv'
<1> SUFFICES ASSUME TypeInv, ResultOK, FreshInv, [Next]_vars PROVE FreshInv'
  OBVIOUS
<1>0. TypeOK /\ RowOK /\ JobOK /\ CutoffOK /\ ResultOK /\ FreshInv
  BY DEF TypeInv
<1>a. /\ {"SUBMITTING", "UNKNOWN_BROKER_STATE"} \subseteq States
      /\ Recovered \subseteq States
      /\ NoMarker \in Time \cup {NoMarker}
  BY DEF States, Unresolved
<1>f. ASSUME UNCHANGED <<started, state, audit, proof, pc, job, seen>> PROVE FreshInv'
  BY <1>0, <1>f DEF FreshInv
<1>h. ASSUME NEW p \in Procs, UNCHANGED <<started, state, audit, proof>>, pc'[p] \notin Reading,
             \A q \in Procs : q # p => pc'[q] = pc[q] /\ job'[q] = job[q] /\ seen'[q] = seen[q]
      PROVE  FreshInv'
  BY <1>0, <1>h DEF FreshInv
<1>i. ASSUME NEW p \in Procs, UNCHANGED <<started, state, audit, proof, job>>,
             \A q \in Procs : q # p => pc'[q] = pc[q] /\ seen'[q] = seen[q],
             Fresh(pc'[p], seen'[p], Len(audit[job[p]]), Bounds(started[job[p]], audit[job[p]]))
      PROVE  FreshInv'
  BY <1>0, <1>i DEF FreshInv
<1>1. ASSUME NEW p \in Procs, NEW r \in Requests, NEW at \in Time, Claim(p, r, at) PROVE FreshInv'
  <2> DEFINE c == ClientOf[r]
  <2>1. c \in Clients /\ row[c] = NoRequest
    BY <1>1, RequestAssumption DEF Claim, Existing
  <2>2. /\ state' = [state EXCEPT ![c] = "SUBMITTING"]
        /\ audit' = [audit EXCEPT ![c] = Append(@, [state |-> "SUBMITTING", marker |-> NoMarker])]
        /\ started' = [started EXCEPT ![c] = at] /\ UNCHANGED <<seen, proof>>
        /\ pc' = [pc EXCEPT ![p] = "claimed"] /\ job' = [job EXCEPT ![p] = c]
    BY <1>1 DEF Claim, Record
  <2> HIDE DEF c
  <2>3. /\ state'[c] = "SUBMITTING" /\ Len(audit'[c]) = Len(audit[c]) + 1
        /\ \A d \in Clients : d # c => state'[d] = state[d] /\ audit'[d] = audit[d]
    BY <1>0, <1>a, <2>1, <2>2, RecordFacts
  <2>4. \A q \in Procs : pc[q] # "idle" => job[q] # c
    BY <1>0, <2>1 DEF JobOK
  <2>5. \A q \in Procs : pc'[q] \in Reading =>
          /\ pc'[q] = pc[q] /\ job'[q] = job[q] /\ seen'[q] = seen[q]
          /\ job[q] \in Clients /\ job[q] # c
    BY <1>0, <2>2, <2>4 DEF TypeOK, Reading, Proven, JobOK
  <2>6. \A d \in Clients : d # c => started'[d] = started[d]
    BY <1>0, <2>2 DEF TypeOK
  <2>7. \A q \in Procs : pc'[q] \in Reading =>
          Fresh(pc'[q], seen'[q], Len(audit'[job'[q]]), Bounds(started'[job'[q]], audit'[job'[q]]))
    BY <1>0, <2>3, <2>5, <2>6 DEF FreshInv
  <2>8. \A d \in Clients : state'[d] \in Recovered =>
          Settled(proof'[d], audit'[d], Bounds(started'[d], audit'[d]))
    BY <1>0, <2>2, <2>3, <2>6, StateAssumption DEF FreshInv
  <2>9. QED
    BY <2>7, <2>8 DEF FreshInv
<1>2. ASSUME NEW p \in Procs, Transport(p) PROVE FreshInv'
  <2>1. /\ UNCHANGED <<started, state, audit, proof>>
        /\ pc'[p] \notin Reading
        /\ \A q \in Procs : q # p => pc'[q] = pc[q] /\ job'[q] = job[q] /\ seen'[q] = seen[q]
    BY <1>0, <1>2 DEF Transport, Goto, TypeOK, journal, Reading, Proven
  <2>2. QED
    BY <2>1, <1>h
<1>3. ASSUME NEW p \in Procs, RecordAmbiguous(p) PROVE FreshInv'
  <2>s. "UNKNOWN_BROKER_STATE" \in States
    BY <1>a
  <2>1. job[p] \in Clients /\ row[job[p]] # NoRequest
    BY <1>0, <1>3 DEF RecordAmbiguous, JobOK
  <2>2. /\ state' = [state EXCEPT ![job[p]] = "UNKNOWN_BROKER_STATE"]
        /\ audit' = [audit EXCEPT ![job[p]] = Append(@, [state |-> "UNKNOWN_BROKER_STATE", marker |-> NoMarker])]
        /\ UNCHANGED started
    BY <1>3 DEF RecordAmbiguous, Record
  <2>r. \A q \in Procs : pc'[q] \in Reading =>
             /\ pc'[q] = pc[q] /\ job'[q] = job[q] /\ seen'[q] = seen[q] /\ job[q] \in Clients
    BY <1>0, <1>3 DEF RecordAmbiguous, Record, Return, TypeOK, Reading, Proven, procs, JobOK
  <2>3. /\ state'[job[p]] = "UNKNOWN_BROKER_STATE" /\ Len(audit'[job[p]]) = Len(audit[job[p]]) + 1
        /\ Len(audit[job[p]]) \in Nat
        /\ Markers(audit'[job[p]]) = Markers(audit[job[p]]) \cup {NoMarker}
        /\ \A d \in Clients : d # job[p] => state'[d] = state[d] /\ audit'[d] = audit[d]
    BY <1>0, <1>a, <2>1, <2>2, <2>s, RecordFacts
  <2>4. \A q \in Procs : pc'[q] \in Reading =>
          Fresh(pc'[q], seen'[q], Len(audit'[job'[q]]), Bounds(started'[job'[q]], audit'[job'[q]]))
    <3> SUFFICES ASSUME NEW q \in Procs, pc'[q] \in Reading
                 PROVE Fresh(pc'[q], seen'[q], Len(audit'[job'[q]]),
                             Bounds(started'[job'[q]], audit'[job'[q]]))
      OBVIOUS
    <3>1. /\ pc'[q] = pc[q] /\ job'[q] = job[q] /\ seen'[q] = seen[q] /\ job[q] \in Clients
          /\ seen[q].sequence \in Nat
          /\ Fresh(pc[q], seen[q], Len(audit[job[q]]), Bounds(started[job[q]], audit[job[q]]))
      BY <1>0, <2>r DEF FreshInv, TypeOK, Seen
    <3>2. CASE job[q] = job[p]
      BY <2>3, <3>1, <3>2 DEF Fresh, Reading, Proven
    <3>3. CASE job[q] # job[p]
      BY <2>2, <2>3, <3>1, <3>3
    <3>4. QED
      BY <3>2, <3>3
  <2>5. \A d \in Clients : state'[d] \in Recovered =>
          Settled(proof'[d], audit'[d], Bounds(started'[d], audit'[d]))
    BY <1>0, <1>3, <2>2, <2>3, StateAssumption DEF FreshInv, RecordAmbiguous
  <2>6. QED
    BY <2>4, <2>5 DEF FreshInv
<1>4. ASSUME NEW c \in Clients, NEW at \in Time, MarkAmbiguous(c, at) PROVE FreshInv'
  <2>s. "UNKNOWN_BROKER_STATE" \in States
    BY <1>a
  <2>1. c \in Clients /\ row[c] # NoRequest
    BY <1>0, <1>4 DEF MarkAmbiguous, JobOK
  <2>2. /\ state' = [state EXCEPT ![c] = "UNKNOWN_BROKER_STATE"]
        /\ audit' = [audit EXCEPT ![c] = Append(@, [state |-> "UNKNOWN_BROKER_STATE", marker |-> at])]
        /\ UNCHANGED started
    BY <1>4 DEF MarkAmbiguous, Record
  <2>r. \A q \in Procs : pc'[q] \in Reading =>
             /\ pc'[q] = pc[q] /\ job'[q] = job[q] /\ seen'[q] = seen[q] /\ job[q] \in Clients
    BY <1>0, <1>4 DEF MarkAmbiguous, Record, Return, TypeOK, Reading, Proven, procs, JobOK
  <2>3. /\ state'[c] = "UNKNOWN_BROKER_STATE" /\ Len(audit'[c]) = Len(audit[c]) + 1
        /\ Len(audit[c]) \in Nat
        /\ Markers(audit'[c]) = Markers(audit[c]) \cup {at}
        /\ \A d \in Clients : d # c => state'[d] = state[d] /\ audit'[d] = audit[d]
    BY <1>0, <1>a, <2>1, <2>2, <2>s, RecordFacts
  <2>4. \A q \in Procs : pc'[q] \in Reading =>
          Fresh(pc'[q], seen'[q], Len(audit'[job'[q]]), Bounds(started'[job'[q]], audit'[job'[q]]))
    <3> SUFFICES ASSUME NEW q \in Procs, pc'[q] \in Reading
                 PROVE Fresh(pc'[q], seen'[q], Len(audit'[job'[q]]),
                             Bounds(started'[job'[q]], audit'[job'[q]]))
      OBVIOUS
    <3>1. /\ pc'[q] = pc[q] /\ job'[q] = job[q] /\ seen'[q] = seen[q] /\ job[q] \in Clients
          /\ seen[q].sequence \in Nat
          /\ Fresh(pc[q], seen[q], Len(audit[job[q]]), Bounds(started[job[q]], audit[job[q]]))
      BY <1>0, <2>r DEF FreshInv, TypeOK, Seen
    <3>2. CASE job[q] = c
      BY <2>3, <3>1, <3>2 DEF Fresh, Reading, Proven
    <3>3. CASE job[q] # c
      BY <2>2, <2>3, <3>1, <3>3
    <3>4. QED
      BY <3>2, <3>3
  <2>5. \A d \in Clients : state'[d] \in Recovered =>
          Settled(proof'[d], audit'[d], Bounds(started'[d], audit'[d]))
    BY <1>0, <1>4, <2>2, <2>3, StateAssumption DEF FreshInv, MarkAmbiguous
  <2>6. QED
    BY <2>4, <2>5 DEF FreshInv
<1>5. ASSUME NEW p \in Procs, NEW c \in Clients, RecoverRow(p, c) PROVE FreshInv'
  <2>1. /\ UNCHANGED <<started, state, audit, proof>>
        /\ pc'[p] \notin Reading
        /\ \A q \in Procs : q # p => pc'[q] = pc[q] /\ job'[q] = job[q] /\ seen'[q] = seen[q]
    BY <1>0, <1>5 DEF RecoverRow, TypeOK, journal, Reading, Proven
  <2>2. QED
    BY <2>1, <1>h
<1>6. ASSUME NEW p \in Procs, RecoverSequence(p) PROVE FreshInv'
  <2>1. /\ UNCHANGED <<started, state, audit, proof, job>>
        /\ pc'[p] = "sequence" /\ job[p] \in Clients /\ pc[p] = "row"
        /\ \A q \in Procs : q # p => pc'[q] = pc[q] /\ seen'[q] = seen[q]
    BY <1>0, <1>6 DEF RecoverSequence, Goto, TypeOK, JobOK, journal
  <2>t. seen[p] \in Seen /\ Len(audit[job[p]]) \in Nat
    BY <1>0, <2>1 DEF TypeOK
  <2>2. seen'[p].sequence = Len(audit[job[p]])
    BY <1>0, <1>6, <2>t DEF RecoverSequence, Goto, TypeOK, Seen
  <2>3. Fresh("sequence", seen'[p], Len(audit[job[p]]), Bounds(started[job[p]], audit[job[p]]))
    BY <2>t, <2>2 DEF Fresh, Proven
  <2>4. QED
    BY <2>1, <2>3, <1>i
<1>7. ASSUME NEW p \in Procs, RecoverCutoff(p) PROVE FreshInv'
  <2>1. /\ UNCHANGED <<started, state, audit, proof, job>>
        /\ pc'[p] = "cutoff" /\ job[p] \in Clients /\ pc[p] = "sequence"
        /\ \A q \in Procs : q # p => pc'[q] = pc[q] /\ seen'[q] = seen[q]
    BY <1>0, <1>7 DEF RecoverCutoff, Goto, TypeOK, JobOK, journal
  <2>t. seen[p] \in Seen /\ Len(audit[job[p]]) \in Nat
    BY <1>0, <2>1 DEF TypeOK
  <2>2. seen'[p].cutoff = RecoveryCutoff(job[p]) /\ seen'[p].sequence = seen[p].sequence
    BY <1>0, <1>7, <2>t DEF RecoverCutoff, Goto, TypeOK, Seen
  <2>3. \A b \in Bounds(started[job[p]], audit[job[p]]) : b <= RecoveryCutoff(job[p])
    BY <1>0, <2>1, CutoffIsMax DEF CutoffOK, Boundaries, Bounds
  <2>4. seen[p].sequence <= Len(audit[job[p]])
    BY <1>0, <2>1 DEF FreshInv, Fresh, Reading, Proven
  <2>5. Fresh("cutoff", seen'[p], Len(audit[job[p]]), Bounds(started[job[p]], audit[job[p]]))
    BY <2>2, <2>3, <2>4 DEF Fresh, Proven
  <2>6. QED
    BY <2>1, <2>5, <1>i
<1>8. ASSUME NEW p \in Procs, RecoverLookup(p) PROVE FreshInv'
  <2>1. /\ UNCHANGED <<started, state, audit, proof>>
        /\ job[p] \in Clients /\ pc[p] = "cutoff" /\ seen[p] \in Seen /\ Len(audit[job[p]]) \in Nat
    BY <1>0, <1>8 DEF RecoverLookup, JobOK, journal, TypeOK
  <2>2. Fresh("cutoff", seen[p], Len(audit[job[p]]), Bounds(started[job[p]], audit[job[p]]))
        /\ seen[p].sequence <= Len(audit[job[p]])
    BY <1>0, <2>1 DEF FreshInv, Fresh, Reading, Proven
  <2>3. CASE Unproven(p)
    <3>1. /\ seen'[p].result = "UNKNOWN_BROKER_STATE" /\ seen'[p].sequence = seen[p].sequence
          /\ \A q \in Procs : q # p => seen'[q] = seen[q]
      BY <1>0, <2>3, ConcludeFacts DEF Unproven, Conclude, Goto
    <3>2. /\ pc'[p] = "verdict" /\ UNCHANGED job
          /\ \A q \in Procs : q # p => pc'[q] = pc[q]
      BY <1>0, <2>3 DEF Unproven, Conclude, Goto, TypeOK
    <3>3. Fresh("verdict", seen'[p], Len(audit[job[p]]), Bounds(started[job[p]], audit[job[p]]))
      BY <2>2, <3>1, StateAssumption DEF Fresh, Proven
    <3>4. QED
      BY <2>1, <3>1, <3>2, <3>3, <1>i
  <2> DEFINE c == job[p]
             v == [seen[p] EXCEPT !.asked = Len(audit[c]), !.eventVer = event[c].ver,
                                  !.reconVer = recon[Account(c)].ver, !.status = event[c].status]
  <2>4. CASE Goto(p, "lookup", v)
    <3>1. /\ seen'[p] = v
          /\ pc'[p] = "lookup" /\ UNCHANGED job
          /\ \A q \in Procs : q # p => seen'[q] = seen[q] /\ pc'[q] = pc[q]
      BY <1>0, <2>4 DEF Goto, TypeOK
    <3>2. v.asked = Len(audit[c]) /\ v.cutoff = seen[p].cutoff /\ v.sequence = seen[p].sequence
      BY <2>1 DEF Seen
    <3> HIDE DEF v
    <3>3. Fresh("lookup", seen'[p], Len(audit[job[p]]), Bounds(started[job[p]], audit[job[p]]))
      BY <2>2, <3>1, <3>2 DEF Fresh, Proven
    <3>4. QED
      BY <2>1, <3>1, <3>3, <1>i
  <2>5. QED
    BY <1>8, <2>3, <2>4 DEF RecoverLookup
<1>9. ASSUME NEW p \in Procs, VerifyOrder(p) PROVE FreshInv'
  <2>1. /\ UNCHANGED <<started, state, audit, proof>>
        /\ job[p] \in Clients /\ pc[p] = "lookup" /\ seen[p] \in Seen /\ Len(audit[job[p]]) \in Nat
    BY <1>0, <1>9 DEF VerifyOrder, JobOK, journal, TypeOK
  <2>2. Fresh("lookup", seen[p], Len(audit[job[p]]), Bounds(started[job[p]], audit[job[p]]))
        /\ seen[p].sequence <= Len(audit[job[p]])
    BY <1>0, <2>1 DEF FreshInv, Fresh, Reading, Proven
  <2>3. CASE Unproven(p)
    <3>1. /\ seen'[p].result = "UNKNOWN_BROKER_STATE" /\ seen'[p].sequence = seen[p].sequence
          /\ \A q \in Procs : q # p => seen'[q] = seen[q]
      BY <1>0, <2>3, ConcludeFacts DEF Unproven, Conclude, Goto
    <3>2. /\ pc'[p] = "verdict" /\ UNCHANGED job
          /\ \A q \in Procs : q # p => pc'[q] = pc[q]
      BY <1>0, <2>3 DEF Unproven, Conclude, Goto, TypeOK
    <3>3. Fresh("verdict", seen'[p], Len(audit[job[p]]), Bounds(started[job[p]], audit[job[p]]))
      BY <2>2, <3>1, StateAssumption DEF Fresh, Proven
    <3>4. QED
      BY <2>1, <3>1, <3>2, <3>3, <1>i
  <2> DEFINE v == [seen[p] EXCEPT !.observed = event[job[p]].observed,
                                  !.oldest = event[job[p]].requested]
  <2>4. CASE CurrentEvent(p) /\ Goto(p, "order", v)
    <3>1. /\ seen'[p] = v
          /\ pc'[p] = "order" /\ UNCHANGED job
          /\ \A q \in Procs : q # p => seen'[q] = seen[q] /\ pc'[q] = pc[q]
      BY <1>0, <2>4 DEF Goto, TypeOK
    <3>2. /\ v.asked = seen[p].asked /\ v.cutoff = seen[p].cutoff /\ v.sequence = seen[p].sequence
          /\ v.oldest = event[job[p]].requested
      BY <2>1 DEF Seen
    <3>3. seen[p].cutoff <= v.oldest
      <4>1. event[job[p]].requested \in Int /\ seen[p].cutoff \in Int
        BY <1>0, <2>1, BoundAssumption DEF TypeOK, Event, Seen, Time
      <4>2. event[job[p]].requested >= seen[p].cutoff
        BY <2>4 DEF CurrentEvent
      <4>3. QED
        BY <3>2, <4>1, <4>2
    <3> HIDE DEF v
    <3>4. Fresh("order", seen'[p], Len(audit[job[p]]), Bounds(started[job[p]], audit[job[p]]))
      BY <2>2, <3>1, <3>2, <3>3 DEF Fresh, Proven
    <3>5. QED
      BY <2>1, <3>1, <3>4, <1>i
  <2>5. QED
    BY <1>9, <2>3, <2>4 DEF VerifyOrder
<1>10. ASSUME NEW p \in Procs, VerifyRun(p) PROVE FreshInv'
  <2>1. /\ UNCHANGED <<started, state, audit, proof>>
        /\ job[p] \in Clients /\ pc[p] = "order" /\ seen[p] \in Seen /\ Len(audit[job[p]]) \in Nat
    BY <1>0, <1>10 DEF VerifyRun, JobOK, journal, TypeOK
  <2>2. Fresh("order", seen[p], Len(audit[job[p]]), Bounds(started[job[p]], audit[job[p]]))
        /\ seen[p].sequence <= Len(audit[job[p]])
    BY <1>0, <2>1 DEF FreshInv, Fresh, Reading, Proven
  <2>3. CASE Unproven(p)
    <3>1. /\ seen'[p].result = "UNKNOWN_BROKER_STATE" /\ seen'[p].sequence = seen[p].sequence
          /\ \A q \in Procs : q # p => seen'[q] = seen[q]
      BY <1>0, <2>3, ConcludeFacts DEF Unproven, Conclude, Goto
    <3>2. /\ pc'[p] = "verdict" /\ UNCHANGED job
          /\ \A q \in Procs : q # p => pc'[q] = pc[q]
      BY <1>0, <2>3 DEF Unproven, Conclude, Goto, TypeOK
    <3>3. Fresh("verdict", seen'[p], Len(audit[job[p]]), Bounds(started[job[p]], audit[job[p]]))
      BY <2>2, <3>1, StateAssumption DEF Fresh, Proven
    <3>4. QED
      BY <2>1, <3>1, <3>2, <3>3, <1>i
  <2> DEFINE snapshotAt == recon[Account(job[p])].snapshotAt
             old == IF snapshotAt < seen[p].oldest THEN snapshotAt ELSE seen[p].oldest
  <2>4. CASE CurrentRun(p) /\ Conclude(p, "run", seen[p].status, seen[p].asked, old)
    <3> HIDE DEF old
    <3>0. seen' = [seen EXCEPT ![p] =
                     Verdict(seen[p].state, seen[p].sequence, seen[p].status, seen[p].asked, old)]
      BY <2>4 DEF Conclude, Goto
    <3>1. /\ seen'[p].result = seen[p].status /\ seen'[p].sequence = seen[p].sequence
          /\ seen'[p].asked = seen[p].asked /\ seen'[p].oldest = old
          /\ \A q \in Procs : q # p => seen'[q] = seen[q]
      <4>1. /\ seen'[p] = Verdict(seen[p].state, seen[p].sequence, seen[p].status, seen[p].asked, old)
            /\ \A q \in Procs : q # p => seen'[q] = seen[q]
        BY <1>0, <3>0, GotoFacts
      <4>2. QED
        BY <4>1 DEF Verdict
    <3>2. /\ pc'[p] = "run" /\ UNCHANGED job
          /\ \A q \in Procs : q # p => pc'[q] = pc[q]
      BY <1>0, <2>4 DEF Conclude, Goto, TypeOK
    <3>3. seen[p].cutoff <= snapshotAt
      <4>1. Account(job[p]) \in Accounts
        BY <1>0, <1>10, RequestAssumption DEF Account, TypeOK, JobOK, VerifyRun
      <4>2. snapshotAt \in Int /\ seen[p].cutoff \in Int
        BY <1>0, <2>1, <4>1, BoundAssumption DEF TypeOK, Recon, Seen, Time
      <4>3. QED
        BY <2>4, <4>2 DEF CurrentRun
    <3>4. seen[p].cutoff <= old
      BY <2>2, <3>3 DEF Fresh, old
    <3>5. \A b \in Bounds(started[job[p]], audit[job[p]]) : b \in Int
      BY <1>0, <2>1, BoundariesInt DEF Boundaries, Bounds
    <3>6. old \in Int /\ seen[p].cutoff \in Int
      <4>1. Account(job[p]) \in Accounts
        BY <1>0, <1>10, RequestAssumption DEF Account, TypeOK, JobOK, VerifyRun
      <4>2. QED
        BY <1>0, <2>1, <4>1, BoundAssumption DEF TypeOK, Recon, Seen, Time, old
    <3>7. Fresh("run", seen'[p], Len(audit[job[p]]), Bounds(started[job[p]], audit[job[p]]))
      BY <2>2, <3>1, <3>4, <3>5, <3>6 DEF Fresh, Proven
    <3>8. QED
      BY <2>1, <3>1, <3>2, <3>7, <1>i
  <2>5. QED
    BY <1>10, <2>3, <2>4 DEF VerifyRun
<1>v. ASSUME NEW p \in Procs, VerifyIssues(p) PROVE FreshInv'
  <2>1. /\ UNCHANGED <<started, state, audit, proof>>
        /\ job[p] \in Clients /\ pc[p] = "run" /\ seen[p] \in Seen /\ Len(audit[job[p]]) \in Nat
    BY <1>0, <1>v DEF VerifyIssues, JobOK, journal, TypeOK
  <2>2. Fresh("run", seen[p], Len(audit[job[p]]), Bounds(started[job[p]], audit[job[p]]))
        /\ seen[p].sequence <= Len(audit[job[p]])
    BY <1>0, <2>1 DEF FreshInv, Fresh, Reading, Proven
  <2>3. CASE Unproven(p)
    <3>1. /\ seen'[p].result = "UNKNOWN_BROKER_STATE" /\ seen'[p].sequence = seen[p].sequence
          /\ \A q \in Procs : q # p => seen'[q] = seen[q]
      BY <1>0, <2>3, ConcludeFacts DEF Unproven, Conclude, Goto
    <3>2. /\ pc'[p] = "verdict" /\ UNCHANGED job
          /\ \A q \in Procs : q # p => pc'[q] = pc[q]
      BY <1>0, <2>3 DEF Unproven, Conclude, Goto, TypeOK
    <3>3. Fresh("verdict", seen'[p], Len(audit[job[p]]), Bounds(started[job[p]], audit[job[p]]))
      BY <2>2, <3>1, StateAssumption DEF Fresh, Proven
    <3>4. QED
      BY <2>1, <3>1, <3>2, <3>3, <1>i
  <2> DEFINE label == IF seen[p].result \in FillStates THEN "issues" ELSE "verdict"
  <2>l. label \in {"issues", "verdict"}
    OBVIOUS
  <2> HIDE DEF label
  <2>4. CASE Goto(p, label, seen[p])
    <3>1. /\ pc'[p] = label /\ UNCHANGED <<seen, job>>
          /\ \A q \in Procs : q # p => pc'[q] = pc[q]
      BY <1>0, <2>4 DEF Goto, TypeOK
    <3>2. Fresh(label, seen'[p], Len(audit[job[p]]), Bounds(started[job[p]], audit[job[p]]))
      BY <2>2, <3>1, <2>l DEF Fresh, Proven
    <3>3. QED
      BY <2>1, <3>1, <3>2, <1>i
  <2>5. QED
    BY <1>v, <2>3, <2>4 DEF VerifyIssues, label
<1>w. ASSUME NEW p \in Procs, VerifyPosting(p) PROVE FreshInv'
  <2>1. /\ UNCHANGED <<started, state, audit, proof>>
        /\ job[p] \in Clients /\ pc[p] = "issues" /\ seen[p] \in Seen /\ Len(audit[job[p]]) \in Nat
    BY <1>0, <1>w DEF VerifyPosting, JobOK, journal, TypeOK
  <2>2. Fresh("issues", seen[p], Len(audit[job[p]]), Bounds(started[job[p]], audit[job[p]]))
        /\ seen[p].sequence <= Len(audit[job[p]])
    BY <1>0, <2>1 DEF FreshInv, Fresh, Reading, Proven
  <2>3. CASE Unproven(p)
    <3>1. /\ seen'[p].result = "UNKNOWN_BROKER_STATE" /\ seen'[p].sequence = seen[p].sequence
          /\ \A q \in Procs : q # p => seen'[q] = seen[q]
      BY <1>0, <2>3, ConcludeFacts DEF Unproven, Conclude, Goto
    <3>2. /\ pc'[p] = "verdict" /\ UNCHANGED job
          /\ \A q \in Procs : q # p => pc'[q] = pc[q]
      BY <1>0, <2>3 DEF Unproven, Conclude, Goto, TypeOK
    <3>3. Fresh("verdict", seen'[p], Len(audit[job[p]]), Bounds(started[job[p]], audit[job[p]]))
      BY <2>2, <3>1, StateAssumption DEF Fresh, Proven
    <3>4. QED
      BY <2>1, <3>1, <3>2, <3>3, <1>i
  <2>4. CASE Goto(p, "verdict", seen[p])
    <3>1. /\ pc'[p] = "verdict" /\ UNCHANGED <<seen, job>>
          /\ \A q \in Procs : q # p => pc'[q] = pc[q]
      BY <1>0, <2>4 DEF Goto, TypeOK
    <3>2. Fresh("verdict", seen'[p], Len(audit[job[p]]), Bounds(started[job[p]], audit[job[p]]))
      BY <2>2, <3>1 DEF Fresh, Proven
    <3>3. QED
      BY <2>1, <3>1, <3>2, <1>i
  <2>5. QED
    BY <1>w, <2>3, <2>4 DEF VerifyPosting
<1>11. ASSUME NEW p \in Procs, RecoverCommit(p) PROVE FreshInv'
  <2> DEFINE c == job[p]
             res == seen[p].result
  <2>s. res \in States
    BY <1>0, <1>a, <1>11 DEF ResultOK, Proven, RecoverCommit
  <2>1. c \in Clients /\ row[c] # NoRequest
    BY <1>0, <1>11 DEF RecoverCommit, JobOK
  <2>2. /\ state' = [state EXCEPT ![c] = res]
        /\ audit' = [audit EXCEPT ![c] = Append(@, [state |-> res, marker |-> NoMarker])]
        /\ UNCHANGED started
    BY <1>11 DEF RecoverCommit, Record
  <2>r. \A q \in Procs : pc'[q] \in Reading =>
             /\ pc'[q] = pc[q] /\ job'[q] = job[q] /\ seen'[q] = seen[q] /\ job[q] \in Clients
    BY <1>0, <1>11 DEF RecoverCommit, Record, Return, TypeOK, Reading, Proven, procs, JobOK
  <2>3. /\ state'[c] = res /\ Len(audit'[c]) = Len(audit[c]) + 1
        /\ Len(audit[c]) \in Nat
        /\ Markers(audit'[c]) = Markers(audit[c]) \cup {NoMarker}
        /\ \A d \in Clients : d # c => state'[d] = state[d] /\ audit'[d] = audit[d]
    BY <1>0, <1>a, <2>1, <2>2, <2>s, RecordFacts
  <2>4. \A q \in Procs : pc'[q] \in Reading =>
          Fresh(pc'[q], seen'[q], Len(audit'[job'[q]]), Bounds(started'[job'[q]], audit'[job'[q]]))
    <3> SUFFICES ASSUME NEW q \in Procs, pc'[q] \in Reading
                 PROVE Fresh(pc'[q], seen'[q], Len(audit'[job'[q]]),
                             Bounds(started'[job'[q]], audit'[job'[q]]))
      OBVIOUS
    <3>1. /\ pc'[q] = pc[q] /\ job'[q] = job[q] /\ seen'[q] = seen[q] /\ job[q] \in Clients
          /\ seen[q].sequence \in Nat
          /\ Fresh(pc[q], seen[q], Len(audit[job[q]]), Bounds(started[job[q]], audit[job[q]]))
      BY <1>0, <2>r DEF FreshInv, TypeOK, Seen
    <3>2. CASE job[q] = c
      BY <2>3, <3>1, <3>2 DEF Fresh, Reading, Proven
    <3>3. CASE job[q] # c
      BY <2>2, <2>3, <3>1, <3>3
    <3>4. QED
      BY <3>2, <3>3
  <2>5. ASSUME NEW d \in Clients, state'[d] \in Recovered
        PROVE  Settled(proof'[d], audit'[d], Bounds(started'[d], audit'[d]))
    <3>1. CASE d = c
      <4>1. res \in Recovered /\ pc[p] = "verdict" /\ Len(audit[c]) = seen[p].sequence
        BY <1>11, <2>3, <2>5, <3>1 DEF RecoverCommit, Unchanged
      <4>2. proof'[c] = [asked |-> seen[p].asked, oldest |-> seen[p].oldest]
        BY <1>0, <1>11, <2>1, <4>1 DEF RecoverCommit, TypeOK
      <4>3. Fresh("verdict", seen[p], Len(audit[c]), Bounds(started[c], audit[c]))
        BY <1>0, <4>1 DEF FreshInv, Reading, Proven
      <4>4. /\ seen[p].sequence <= seen[p].asked
            /\ \A b \in Bounds(started[c], audit[c]) : b <= seen[p].oldest
        BY <4>1, <4>3 DEF Fresh, Proven
      <4>5. seen[p].asked \in Nat /\ seen[p].oldest \in Time /\ seen[p].sequence \in Nat
        BY <1>0 DEF TypeOK, Seen
      <4>6. Bounds(started'[c], audit'[c]) = Bounds(started[c], audit[c]) \cup {NoMarker}
        BY <2>2, <2>3 DEF Bounds
      <4>7. \A b \in Bounds(started'[c], audit'[c]) : b <= seen[p].oldest
        BY <4>4, <4>5, <4>6, BoundAssumption DEF Time, NoMarker
      <4>8. \A i \in DOMAIN audit'[c] : i > seen[p].asked => audit'[c][i].marker = NoMarker
        <5>1. audit'[c][Len(audit[c]) + 1].marker = NoMarker
          <6> DEFINE e == [state |-> res, marker |-> NoMarker]
          <6>1. audit[c] \in Seq(AuditRow) /\ e \in AuditRow
            BY <1>0, <1>a, <2>1, <2>s DEF TypeOK, AuditRow
          <6>2. audit'[c] = Append(audit[c], e)
            BY <1>0, <2>1, <2>2 DEF TypeOK
          <6>3. e.marker = NoMarker
            OBVIOUS
          <6> HIDE DEF e
          <6>4. QED
            BY <6>1, <6>2, <6>3, AppendFacts
        <5>4. DOMAIN audit'[c] = 1..(Len(audit[c]) + 1)
          BY <1>0, <1>a, <2>1, <2>2, <2>s, RecordFacts
        <5>2. \A i \in 1..(Len(audit[c]) + 1) : i > seen[p].asked => i = Len(audit[c]) + 1
          BY <2>3, <4>1, <4>4, <4>5
        <5>3. QED
          BY <5>1, <5>2, <5>4
      <4>9. QED
        BY <3>1, <4>2, <4>7, <4>8 DEF Settled
    <3>2. CASE d # c
      <4>1. /\ state'[d] = state[d] /\ audit'[d] = audit[d] /\ proof'[d] = proof[d]
            /\ started'[d] = started[d]
        BY <1>0, <1>11, <2>1, <2>2, <2>3, <3>2 DEF RecoverCommit, TypeOK
      <4>2. QED
        BY <1>0, <2>5, <4>1 DEF FreshInv
    <3>3. QED
      BY <3>1, <3>2
  <2>6. QED
    BY <2>4, <2>5 DEF FreshInv
<1>12. ASSUME NEW p \in Procs, RecoverRequery(p) PROVE FreshInv'
  <2>1. /\ UNCHANGED <<started, state, audit, proof>>
        /\ pc'[p] \notin Reading
        /\ \A q \in Procs : q # p => pc'[q] = pc[q] /\ job'[q] = job[q] /\ seen'[q] = seen[q]
    BY <1>0, <1>12 DEF RecoverRequery, Return, TypeOK, journal, Reading, Proven
  <2>2. QED
    BY <2>1, <1>h
<1>13. ASSUME NEW p \in Procs, Crash(p) PROVE FreshInv'
  <2>1. /\ UNCHANGED <<started, state, audit, proof>>
        /\ pc'[p] \notin Reading
        /\ \A q \in Procs : q # p => pc'[q] = pc[q] /\ job'[q] = job[q] /\ seen'[q] = seen[q]
    BY <1>0, <1>13 DEF Crash, Return, TypeOK, journal, Reading, Proven
  <2>2. QED
    BY <2>1, <1>h
<1>14. ASSUME NEW c \in Clients, Deliver(c) PROVE FreshInv'
  BY <1>14, <1>f DEF Deliver, journal, procs
<1>15. ASSUME NEW c \in Clients, PostFill(c) PROVE FreshInv'
  BY <1>15, <1>f DEF PostFill, journal, procs
<1>16. ASSUME NEW c \in Clients, NEW s \in Recovered, NEW t \in Time, NEW u \in Time, SyncOrder(c, s, t, u) PROVE FreshInv'
  BY <1>16, <1>f DEF SyncOrder, journal, procs
<1>17. ASSUME NEW a \in Accounts, NEW clean \in BOOLEAN, NEW t \in Time, ReconcileAccount(a, clean, t) PROVE FreshInv'
  BY <1>17, <1>f DEF ReconcileAccount, journal, procs
<1>18. ASSUME NEW a \in Accounts, ResolveIssue(a) PROVE FreshInv'
  BY <1>18, <1>f DEF ResolveIssue, journal, procs
<1>19. ASSUME Tick PROVE FreshInv'
  BY <1>19, <1>f DEF Tick, journal, procs
<1>20. CASE UNCHANGED vars
  BY <1>20, <1>f DEF vars, procs, journal
<1>21. QED
  BY <1>1, <1>2, <1>3, <1>4, <1>5, <1>6, <1>7, <1>8, <1>9, <1>10, <1>v, <1>w, <1>11, <1>12, <1>13, <1>14,
     <1>15, <1>16, <1>17, <1>18, <1>19, <1>20
     DEF Next, SubmitOnce, Recover, World
-----------------------------------------------------------------------------
(* The theorems                                                            *)

SubmissionInv == TypeInv /\ ResultOK /\ SendInv /\ FreshInv

\* The whole inductive invariant holds of every behaviour of the journal.
THEOREM SubmissionInvariant == Spec => []SubmissionInv
<1>1. Init => SubmissionInv
  <2> SUFFICES ASSUME Init PROVE SubmissionInv
    OBVIOUS
  <2>1. TypeInv
    BY InitType
  <2>2. ResultOK /\ SendInv
    BY StateAssumption DEF Init, ResultOK, Proven, SendInv
  <2>3. FreshInv
    BY StateAssumption DEF Init, FreshInv, Reading, Proven
  <2>4. QED
    BY <2>1, <2>2, <2>3 DEF SubmissionInv
<1>2. SubmissionInv /\ [Next]_vars => SubmissionInv'
  BY TypeStep, ResultStep, SendStep, FreshStep DEF SubmissionInv
<1>3. QED
  BY <1>1, <1>2, PTL DEF Spec

\* The journal, its processes and the authority stay within their types.
THEOREM TypeCorrect == Spec => []TypeOK
<1>1. SubmissionInv => TypeOK
  BY DEF SubmissionInv, TypeInv
<1>2. QED
  BY <1>1, SubmissionInvariant, PTL

\* However processes crash, retry and interleave, an economic order is handed to
\* the transport at most once (submit_once).
THEOREM SendsAtMostOnce == Spec => []AtMostOneSend
<1>1. SubmissionInv => AtMostOneSend
  <2> SUFFICES ASSUME SubmissionInv, NEW c \in Clients, NEW d \in Clients
               PROVE /\ sends[c] <= 1
                     /\ (row[c] # NoRequest /\ row[d] # NoRequest /\ c # d
                           /\ EconOf[row[c]] = EconOf[row[d]]) => sends[c] + sends[d] <= 1
    BY DEF AtMostOneSend
  <2>1. sends[c] \in {0, 1}
    BY DEF SubmissionInv, SendInv
  <2>2. QED
    BY <2>1 DEF SubmissionInv, SendInv
<1>2. QED
  BY <1>1, SubmissionInvariant, PTL

\* No order is transmitted without a durable claim.
THEOREM ClaimPrecedesSend == Spec => []SendIsClaimed
<1>1. SubmissionInv => SendIsClaimed
  BY DEF SubmissionInv, TypeInv, RowOK, SendIsClaimed
<1>2. QED
  BY <1>1, SubmissionInvariant, PTL

\* Two orders of one account are never both on their way to the transport.
THEOREM AccountsSubmitSerially == Spec => []SerialPerAccount
<1>1. SubmissionInv => SerialPerAccount
  BY DEF SubmissionInv, SendInv, SerialPerAccount
<1>2. QED
  BY <1>1, SubmissionInvariant, PTL

\* A reconciled order rests on evidence newer than its start and every marker.
THEOREM RecoveryEvidenceIsFresh == Spec => []ResolvedIsFresh
<1>1. SubmissionInv => ResolvedIsFresh
  BY DEF SubmissionInv, FreshInv, Settled, Bounds, Boundaries, ResolvedIsFresh
<1>2. QED
  BY <1>1, SubmissionInvariant, PTL

\* No marker was committed between the lookup of a recovery and its commit.
THEOREM RecoveryLookupIsCurrent == Spec => []LookupAfterMarkers
<1>1. SubmissionInv => LookupAfterMarkers
  BY DEF SubmissionInv, FreshInv, Settled, LookupAfterMarkers
<1>2. QED
  BY <1>1, SubmissionInvariant, PTL

\* Only an order that reached the broker is ever settled as reconciled.
THEOREM OnlyDeliveredIsResolved == Spec => []ResolvedWasDelivered
<1>1. SubmissionInv => ResolvedWasDelivered
  BY DEF SubmissionInv, SendInv, ResolvedWasDelivered
<1>2. QED
  BY <1>1, SubmissionInvariant, PTL

-----------------------------------------------------------------------------
(* Refinement of OnceOnly                                                  *)

LEMMA UniqueOwner ==
  ASSUME SubmissionInv, NEW c \in Clients, row[c] # NoRequest
  PROVE  EconOf[row[c]] \in EconKeys /\ Owners(EconOf[row[c]]) = {c}
<1>1. EconOf[row[c]] \in EconKeys
  BY RequestAssumption DEF SubmissionInv, TypeInv, TypeOK
<1>2. Owners(EconOf[row[c]]) = {c}
  BY DEF SubmissionInv, SendInv, Owners, OwnersIn
<1>3. QED
  BY <1>1, <1>2

\* The phase and the transmissions of the order a client owns.
LEMMA OwnerFacts ==
  ASSUME SubmissionInv, NEW c \in Clients, row[c] # NoRequest
  PROVE  /\ Phase[EconOf[row[c]]] = IF state[c] \in Unresolved THEN "open" ELSE "settled"
         /\ Sent[EconOf[row[c]]] = sends[c]
<1>1. EconOf[row[c]] \in EconKeys /\ Owners(EconOf[row[c]]) = {c}
  BY UniqueOwner
<1>2. AnyOf(Owners(EconOf[row[c]])) = c
  BY <1>1 DEF AnyOf
<1>3. QED
  BY <1>1, <1>2 DEF Phase, Sent

\* A step that only rewrites the state of one existing row.
LEMMA StateStepRefines ==
  ASSUME SubmissionInv, NEW c \in Clients, row[c] # NoRequest, NEW s \in States \ {"NONE"},
         UNCHANGED <<row, sends>>, state' = [state EXCEPT ![c] = s],
         s \in Recovered => sends[c] = 1
  PROVE  [Abstract!Next]_<<Phase, Sent>>
<1> DEFINE e == EconOf[row[c]]
<1>1. e \in EconKeys /\ Owners(e) = {c}
  BY UniqueOwner
<1>2. \A f \in EconKeys : Owners(f)' = Owners(f)
  BY DEF Owners
<1>3. Sent' = Sent
  BY DEF Sent, Owners
<1>4. \A d \in Clients : state'[d] = IF d = c THEN s ELSE state[d]
  BY DEF SubmissionInv, TypeInv, TypeOK
<1>5. \A f \in EconKeys : f # e => c \notin Owners(f) /\ Owners(f) \subseteq Clients
  BY DEF Owners, OwnersIn
<1>6. \A f \in EconKeys : f # e => Phase'[f] = Phase[f]
  <2> SUFFICES ASSUME NEW f \in EconKeys, f # e PROVE Phase'[f] = Phase[f]
    OBVIOUS
  <2>1. \A d \in Owners(f) : state'[d] = state[d]
    BY <1>4, <1>5
  <2>2. Owners(f)' = Owners(f)
    BY <1>2
  <2>3. QED
    BY <2>1, <2>2 DEF Phase
<1>7. Phase'[e] = IF s \in Unresolved THEN "open" ELSE "settled"
  <2>1. Owners(e)' = {c}
    BY <1>1, <1>2
  <2>2. QED
    BY <1>1, <1>4, <2>1 DEF Phase
<1>8. Phase[e] = (IF state[c] \in Unresolved THEN "open" ELSE "settled") /\ Sent[e] = sends[c]
  BY OwnerFacts
<1>9. Phase' = [Phase EXCEPT ![e] = Phase'[e]]
  BY <1>1, <1>6 DEF Phase
<1>10. CASE Phase'[e] = Phase[e]
  <2>1. Phase' = Phase
    BY <1>1, <1>6, <1>10 DEF Phase
  <2>2. QED
    BY <1>3, <2>1
<1>11. CASE Phase[e] = "settled" /\ Phase'[e] = "open"
  <2>1. Abstract!Reopen(e)
    BY <1>3, <1>9, <1>11 DEF Abstract!Reopen
  <2>2. QED
    BY <1>1, <2>1 DEF Abstract!Next
<1>12. CASE Phase[e] = "open" /\ Phase'[e] = "settled"
  <2>1. s \in Recovered
    BY <1>7, <1>12 DEF States
  <2>2. Abstract!Settle(e)
    BY <1>3, <1>8, <1>9, <1>12, <2>1 DEF Abstract!Settle
  <2>3. QED
    BY <1>1, <2>2 DEF Abstract!Next
<1>13. QED
  BY <1>7, <1>8, <1>10, <1>11, <1>12

LEMMA FrameRefines ==
  ASSUME UNCHANGED <<row, state, sends>>
  PROVE  [Abstract!Next]_<<Phase, Sent>>
<1>1. \A f \in EconKeys : Owners(f)' = Owners(f)
  BY DEF Owners
<1>2. Phase' = Phase
  BY <1>1 DEF Phase
<1>3. Sent' = Sent
  BY DEF Sent, Owners
<1>4. QED
  BY <1>2, <1>3

LEMMA RefinementStep == SubmissionInv /\ [Next]_vars => [Abstract!Next]_<<Phase, Sent>>
<1> SUFFICES ASSUME SubmissionInv, [Next]_vars PROVE [Abstract!Next]_<<Phase, Sent>>
  OBVIOUS
<1>0. TypeOK /\ RowOK /\ JobOK /\ ResultOK /\ SendInv
  BY DEF SubmissionInv, TypeInv
<1>a. {"SUBMITTING", "UNKNOWN_BROKER_STATE"} \subseteq States \ {"NONE"}
  BY DEF States, Unresolved
<1>b. "UNKNOWN_BROKER_STATE" \notin Recovered
  BY StateAssumption
<1>1. ASSUME NEW p \in Procs, NEW r \in Requests, NEW at \in Time, Claim(p, r, at)
      PROVE  [Abstract!Next]_<<Phase, Sent>>
  <2> DEFINE c == ClientOf[r]
             e == EconOf[r]
  <2>1. c \in Clients /\ e \in EconKeys /\ r # NoRequest
    BY RequestAssumption
  <2>2. /\ \A d \in Clients : row[d] # NoRequest => d # c /\ EconOf[row[d]] # e
        /\ \A d \in Clients : (row[d] # NoRequest /\ Account(d) = KeyAccount[e])
             => state[d] \notin Unresolved
    BY <1>1 DEF Claim, Existing, UnresolvedOn
  <2>3. row' = [row EXCEPT ![c] = r] /\ state' = [state EXCEPT ![c] = "SUBMITTING"] /\ sends' = sends
    BY <1>1 DEF Claim, Record, broker
  <2> HIDE DEF c, e
  <2>4. row[c] = NoRequest /\ sends[c] = 0
    BY <1>0, <2>1, <2>2 DEF RowOK
  <2>5. /\ \A d \in Clients : row'[d] = IF d = c THEN r ELSE row[d]
        /\ \A d \in Clients : state'[d] = IF d = c THEN "SUBMITTING" ELSE state[d]
    BY <1>0, <2>1, <2>3 DEF TypeOK
  <2>6. Owners(e) = {} /\ Owners(e)' = {c}
    BY <2>1, <2>2, <2>5 DEF Owners, OwnersIn, e
  <2>7. \A f \in EconKeys : f # e => Owners(f)' = Owners(f) /\ c \notin Owners(f)
    BY <2>1, <2>4, <2>5 DEF Owners, OwnersIn, e
  <2>8. Phase[e] = "new" /\ Phase'[e] = "open" /\ Sent[e] = 0
    BY <2>1, <2>5, <2>6 DEF Phase, Sent, Unresolved
  <2>9. Sent'[e] = 0
    <3>1. OwnersIn(row', e) = {c} /\ AnyOf({c}) = c
      BY <2>6 DEF Owners, AnyOf
    <3>2. Sent' = [f \in EconKeys |-> IF OwnersIn(row', f) = {} THEN 0
                                      ELSE sends'[AnyOf(OwnersIn(row', f))]]
      BY DEF Sent, Owners
    <3>3. QED
      BY <2>1, <2>3, <2>4, <3>1, <3>2
  <2>10. \A f \in EconKeys : f # e => Phase'[f] = Phase[f] /\ Sent'[f] = Sent[f]
    <3> SUFFICES ASSUME NEW f \in EconKeys, f # e PROVE Phase'[f] = Phase[f] /\ Sent'[f] = Sent[f]
      OBVIOUS
    <3>1. Owners(f)' = Owners(f) /\ \A d \in Owners(f) : state'[d] = state[d]
      BY <2>5, <2>7 DEF Owners, OwnersIn
    <3>2. QED
      BY <2>3, <3>1 DEF Phase, Sent
  <2>11. Phase' = [Phase EXCEPT ![e] = "open"] /\ Sent' = Sent
    <3>1. /\ Phase = [f \in EconKeys |-> Phase[f]] /\ Phase' = [f \in EconKeys |-> Phase'[f]]
          /\ Sent = [f \in EconKeys |-> Sent[f]] /\ Sent' = [f \in EconKeys |-> Sent'[f]]
      BY DEF Phase, Sent
    <3>2. QED
      BY <2>1, <2>8, <2>9, <2>10, <3>1
  <2>12. \A f \in EconKeys : KeyAccount[f] = KeyAccount[e] => Phase[f] # "open"
    <3> SUFFICES ASSUME NEW f \in EconKeys, KeyAccount[f] = KeyAccount[e], Phase[f] = "open"
                 PROVE FALSE
      OBVIOUS
    <3>1. PICK d \in Owners(f) : state[d] \in Unresolved
      BY DEF Phase
    <3>2. d \in Clients /\ row[d] # NoRequest /\ Account(d) = KeyAccount[e]
      BY <3>1 DEF Owners, OwnersIn, Account
    <3>3. QED
      BY <2>2, <3>1, <3>2
  <2>13. Abstract!Claim(e)
    BY <2>8, <2>11, <2>12 DEF Abstract!Claim
  <2>14. QED
    BY <2>1, <2>13 DEF Abstract!Next
<1>2. ASSUME NEW p \in Procs, Transport(p) PROVE [Abstract!Next]_<<Phase, Sent>>
  <2> DEFINE c == job[p]
             e == EconOf[row[c]]
  <2>1. c \in Clients /\ row[c] # NoRequest /\ sends[c] = 0
    BY <1>0, <1>2 DEF Transport, JobOK, SendInv
  <2>2. /\ row' = row /\ state' = state
        /\ \A d \in Clients : sends'[d] = IF d = c THEN 1 ELSE sends[d]
    BY <1>0, <1>2, <2>1 DEF Transport, TypeOK, journal
  <2>3. e \in EconKeys /\ Owners(e) = {c}
    BY <2>1, UniqueOwner
  <2>4. state[c] \in Unresolved
    BY <1>0, <2>1 DEF SendInv, RowOK, TypeOK, States
  <2>5. Phase[e] = "open" /\ Sent[e] = 0
    BY <2>1, <2>4, OwnerFacts
  <2>6. \A f \in EconKeys : Owners(f)' = Owners(f)
    BY <2>2 DEF Owners
  <2>7. Phase' = Phase
    BY <2>2, <2>6 DEF Phase
  <2>8. Sent'[e] = 1
    <3>1. OwnersIn(row, e) = {c} /\ OwnersIn(row', e) = {c} /\ AnyOf({c}) = c
      BY <2>2, <2>3 DEF Owners, AnyOf
    <3>2. Sent' = [f \in EconKeys |-> IF OwnersIn(row', f) = {} THEN 0
                                      ELSE sends'[AnyOf(OwnersIn(row', f))]]
      BY DEF Sent, Owners
    <3> HIDE DEF e, c
    <3>3. QED
      BY <2>1, <2>2, <2>3, <3>1, <3>2
  <2>9. \A f \in EconKeys : f # e => Sent'[f] = Sent[f]
    <3> SUFFICES ASSUME NEW f \in EconKeys, f # e PROVE Sent'[f] = Sent[f]
      OBVIOUS
    <3>1. \A d \in Owners(f) : d \in Clients /\ d # c
      BY DEF Owners, OwnersIn
    <3>2. Owners(f) # {} => AnyOf(Owners(f)) \in Owners(f)
      BY DEF AnyOf
    <3>3. Owners(f)' = Owners(f)
      BY <2>6
    <3>4. QED
      BY <2>2, <3>1, <3>2, <3>3 DEF Sent
  <2>10. Sent' = [Sent EXCEPT ![e] = 1]
    BY <2>3, <2>8, <2>9 DEF Sent
  <2>11. Abstract!Transmit(e)
    BY <2>5, <2>7, <2>10 DEF Abstract!Transmit
  <2>12. QED
    BY <2>3, <2>11 DEF Abstract!Next
<1>3. ASSUME NEW p \in Procs, RecordAmbiguous(p) PROVE [Abstract!Next]_<<Phase, Sent>>
  <2>1. job[p] \in Clients /\ row[job[p]] # NoRequest
    BY <1>0, <1>3 DEF RecordAmbiguous, JobOK
  <2>2. UNCHANGED <<row, sends>> /\ state' = [state EXCEPT ![job[p]] = "UNKNOWN_BROKER_STATE"]
    BY <1>3 DEF RecordAmbiguous, Record, broker
  <2>3. QED
    BY <1>a, <1>b, <2>1, <2>2, StateStepRefines
<1>4. ASSUME NEW c \in Clients, NEW at \in Time, MarkAmbiguous(c, at)
      PROVE  [Abstract!Next]_<<Phase, Sent>>
  <2>1. /\ UNCHANGED <<row, sends>> /\ state' = [state EXCEPT ![c] = "UNKNOWN_BROKER_STATE"]
        /\ row[c] # NoRequest
    BY <1>4 DEF MarkAmbiguous, Record, broker
  <2>2. QED
    BY <1>a, <1>b, <2>1, StateStepRefines
<1>5. ASSUME NEW p \in Procs, RecoverCommit(p) PROVE [Abstract!Next]_<<Phase, Sent>>
  <2>1. job[p] \in Clients /\ row[job[p]] # NoRequest
    BY <1>0, <1>5 DEF RecoverCommit, JobOK
  <2>2. UNCHANGED <<row, sends>> /\ state' = [state EXCEPT ![job[p]] = seen[p].result]
    BY <1>5 DEF RecoverCommit, Record, broker
  <2>3. seen[p].result \in States \ {"NONE"} /\ (seen[p].result \in Recovered => job[p] \in delivered)
    BY <1>0, <1>5, <1>a, StateAssumption DEF ResultOK, Proven, RecoverCommit, States
  <2>4. seen[p].result \in Recovered => sends[job[p]] = 1
    BY <1>0, <2>1, <2>3 DEF SendInv
  <2>5. QED
    BY <2>1, <2>2, <2>3, <2>4, StateStepRefines
<1>6. ASSUME NEW p \in Procs,
             Recover(p) \/ Crash(p), ~ RecoverCommit(p)
      PROVE  [Abstract!Next]_<<Phase, Sent>>
  <2>1. UNCHANGED <<row, state, sends>>
    BY <1>6 DEF Recover, Crash, RecoverRow, RecoverSequence, RecoverCutoff, RecoverLookup,
       VerifyOrder, VerifyRun, VerifyIssues, VerifyPosting, RecoverRequery, journal, broker
  <2>2. QED
    BY <2>1, FrameRefines
<1>7. ASSUME World PROVE [Abstract!Next]_<<Phase, Sent>>
  <2>1. UNCHANGED <<row, state, sends>>
    BY <1>7 DEF World, Deliver, PostFill, SyncOrder, ReconcileAccount, ResolveIssue, Tick,
       journal, broker
  <2>2. QED
    BY <2>1, FrameRefines
<1>8. CASE UNCHANGED vars
  <2>1. UNCHANGED <<row, state, sends>>
    BY <1>8 DEF vars, journal, broker
  <2>2. QED
    BY <2>1, FrameRefines
<1>9. QED
  BY <1>1, <1>2, <1>3, <1>4, <1>5, <1>6, <1>7, <1>8 DEF Next, SubmitOnce

\* The durable journal with its crashes, races and recovery implements OnceOnly:
\* transmit at most once, settle only what was transmitted, one open order at a
\* time per account.
THEOREM JournalImplementsOnceOnly == Spec => ImplementsOnceOnly
<1>1. Init => Abstract!Init
  <2> SUFFICES ASSUME Init PROVE Abstract!Init
    OBVIOUS
  <2>1. \A f \in EconKeys : Owners(f) = {}
    BY DEF Init, Owners, OwnersIn
  <2>2. Phase = [f \in EconKeys |-> "new"] /\ Sent = [f \in EconKeys |-> 0]
    BY <2>1 DEF Phase, Sent
  <2>3. QED
    BY <2>2 DEF Abstract!Init
<1>2. SubmissionInv /\ [Next]_vars => [Abstract!Next]_<<Phase, Sent>>
  BY RefinementStep
<1>3. QED
  BY <1>1, <1>2, SubmissionInvariant, PTL DEF Spec, ImplementsOnceOnly, Abstract!Spec
=============================================================================

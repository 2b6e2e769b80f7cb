---------------------------- MODULE EvidenceProofs ---------------------------
(***************************************************************************)
(* Theorems about what the system keeps as evidence: the schema of the     *)
(* ledger file that several processes migrate (LedgerSchema), the          *)
(* observations and the queries about the past (Vintages), the hypotheses, *)
(* verdicts and reports of the research runs (ResearchRun), the files of   *)
(* the data lake (DataLake), the datasets (DatasetStore), and what the     *)
(* backtests say of the past (Backtest).                                   *)
(***************************************************************************)
EXTENDS LedgerSchema, Vintages, ResearchRun, DataLake, DatasetStore, Backtest,
        SequenceTheorems, SumTheorems, TLAPS

-----------------------------------------------------------------------------
(* The schema of the ledger file                                           *)

Migrating == {"look", "columns", "rows", "objects", "version"}
OpenerType == [at : Migrating \cup {"closed", "read", "open"}, v : 0 .. LastVersion,
               missing : BOOLEAN]
TransactionType == [open : BOOLEAN, by : Openers \cup {"nobody"}, file : Files]

TrueFile(f) == f.version > 0 => \A x \in Structure : x[1] <= f.version => x \in f.parts

\* What the place of a process says of the parts it sees: every earlier version
\* is complete, and what the process added itself is there.
Fits(q, parts) ==
  /\ q.at # "closed" => <<0, "tables">> \in parts
  /\ q.at \in Migrating =>
        q.v \in 1 .. LastVersion /\ \A x \in Structure : x[1] < q.v => x \in parts
  /\ q.at \in {"rows", "objects", "version"} => <<q.v, "columns">> \in parts
  /\ q.at = "objects" => q.v # LastVersion
  /\ q.at = "rows" => q.v = 2
  /\ q.at = "version" /\ q.v # LastVersion => <<q.v, "objects">> \in parts
  /\ q.at = "open" => Structure \subseteq parts

\* Where a process has a transaction open.
MidTransaction(q) ==
  \/ q.v = 2 /\ q.at \in {"objects", "version"}
  \/ q.v = 3 /\ q.at \in {"look", "columns", "objects"}

\* The version that a process will write is true of what it sees, however much
\* another process lowers or raises user_version meanwhile; and what one sees in
\* its transaction is all that is committed, and more.
SchemaInv ==
  /\ file \in Files /\ TrueFile(file)
  /\ tx \in TransactionType
  /\ tx.open => TrueFile(tx.file) /\ file.parts \subseteq tx.file.parts
  /\ opener \in [Openers -> OpenerType]
  /\ \A p \in Openers : /\ Fits(opener[p], Seen(p).parts)
                        /\ InTransaction(p) => MidTransaction(opener[p])

LEMMA VersionParts ==
  /\ LastVersion = 5
  /\ \A x \in Structure : x[1] \in 0 .. 5 /\ x \in Parts
  /\ <<0, "tables">> \in Structure
  /\ \A v \in 1 .. 5 : <<v, "columns">> \in Structure
  /\ \A v \in 1 .. 5 : v # 5 => <<v, "objects">> \in Structure
  /\ \A x \in Structure : \A v \in 1 .. 5 :
        x[1] = v => x = <<v, "columns">> \/ (v # 5 /\ x = <<v, "objects">>)
  /\ \A x \in Structure : x[1] = 0 => x = <<0, "tables">>
BY DEF LastVersion, Structure, Parts

LEMMA FitsGrows ==
  ASSUME NEW q, NEW few, NEW more, few \subseteq more, Fits(q, few)
  PROVE  Fits(q, more)
BY DEF Fits

\* What a statement of p may do to the file and to the transaction.
Keeps(p) ==
  /\ file' \in Files /\ TrueFile(file') /\ file.parts \subseteq file'.parts
  /\ \/ tx' = tx /\ (tx.open => file' = file)
     \/ /\ ~tx.open \/ tx.by = p
        /\ tx' \in TransactionType
        /\ tx'.open => /\ tx'.by = p /\ TrueFile(tx'.file)
                       /\ file'.parts \subseteq tx'.file.parts

LEMMA OthersSeeMore ==
  ASSUME SchemaInv, NEW p \in Openers, NEW q \in Openers, q # p, Keeps(p)
  PROVE  Seen(q).parts \subseteq Seen(q)'.parts /\ (InTransaction(q)' => InTransaction(q))
<1>1. CASE tx' = tx /\ (tx.open => file' = file)
  <2>1. CASE InTransaction(q)
    BY <1>1, <2>1 DEF Seen, InTransaction
  <2>2. CASE ~InTransaction(q)
    BY <1>1, <2>2 DEF Seen, InTransaction, Keeps
  <2> QED
    BY <2>1, <2>2
<1>2. CASE /\ ~tx.open \/ tx.by = p
           /\ tx'.open => tx'.by = p
  <2>1. ~InTransaction(q) /\ ~InTransaction(q)'
    BY <1>2 DEF InTransaction
  <2> QED
    BY <2>1 DEF Seen, Keeps
<1> QED
  BY <1>1, <1>2 DEF Keeps

\* One statement of one process keeps the invariant.
LEMMA StatementKeeps ==
  ASSUME SchemaInv, NEW p \in Openers, NEW new \in OpenerType, Keeps(p),
         opener' = [opener EXCEPT ![p] = new],
         Fits(new, Seen(p)'.parts), InTransaction(p)' => MidTransaction(new)
  PROVE  SchemaInv'
<1>1. /\ opener' \in [Openers -> OpenerType] /\ opener'[p] = new
      /\ \A q \in Openers : q # p => opener'[q] = opener[q]
  BY DEF SchemaInv
<1>2. /\ file' \in Files /\ TrueFile(file') /\ tx' \in TransactionType
      /\ tx'.open => TrueFile(tx'.file) /\ file'.parts \subseteq tx'.file.parts
  BY DEF Keeps, SchemaInv
<1>3. ASSUME NEW q \in Openers
      PROVE  Fits(opener'[q], Seen(q)'.parts) /\ (InTransaction(q)' => MidTransaction(opener'[q]))
  <2>1. CASE q = p
    BY <1>1, <2>1
  <2>2. CASE q # p
    <3>1. Fits(opener[q], Seen(q).parts) /\ (InTransaction(q) => MidTransaction(opener[q]))
      BY DEF SchemaInv
    <3>2. Seen(q).parts \subseteq Seen(q)'.parts /\ (InTransaction(q)' => InTransaction(q))
      BY <2>2, OthersSeeMore
    <3> QED
      BY <1>1, <2>2, <3>1, <3>2, FitsGrows
  <2> QED
    BY <2>1, <2>2
<1>4. (file \in Files)' /\ TrueFile(file)' /\ (tx \in TransactionType)'
      /\ (tx.open => TrueFile(tx.file) /\ file.parts \subseteq tx.file.parts)'
  BY <1>2 DEF TrueFile
<1>5. \A q \in Openers : Fits(opener[q], Seen(q).parts)' /\ (InTransaction(q) => MidTransaction(opener[q]))'
  BY <1>3 DEF Fits, MidTransaction
<1> QED
  BY <1>1, <1>4, <1>5 DEF SchemaInv

LEMMA SeenType ==
  ASSUME SchemaInv, NEW p \in Openers
  PROVE  /\ Seen(p) \in Files /\ TrueFile(Seen(p)) /\ file.parts \subseteq Seen(p).parts
         /\ opener[p] \in OpenerType /\ Fits(opener[p], Seen(p).parts)
         /\ InTransaction(p) => MidTransaction(opener[p])
BY DEF SchemaInv, Seen, InTransaction, TransactionType

LEMMA WriteKeeps ==
  ASSUME SchemaInv, NEW p \in Openers, NEW f \in Files, TrueFile(f),
         Seen(p).parts \subseteq f.parts, WriteFile(p, f)
  PROVE  Keeps(p) /\ Seen(p)' = f /\ (InTransaction(p)' <=> InTransaction(p))
<1>1. CASE InTransaction(p)
  <2>1. /\ tx' = [tx EXCEPT !.file = f] /\ file' = file
        /\ tx.open /\ tx.by = p /\ tx \in TransactionType /\ file.parts \subseteq tx.file.parts
    BY <1>1 DEF WriteFile, InTransaction, SchemaInv
  <2>2. tx' \in TransactionType /\ tx'.open /\ tx'.by = p /\ tx'.file = f
    BY <2>1 DEF TransactionType
  <2>3. tx.file.parts \subseteq f.parts
    BY <1>1 DEF Seen
  <2> QED
    BY <1>1, <2>1, <2>2, <2>3 DEF Keeps, Seen, InTransaction, SchemaInv
<1>2. CASE ~InTransaction(p)
  <2>1. ~tx.open /\ file' = f /\ tx' = tx
    BY <1>2 DEF WriteFile
  <2> QED
    BY <1>2, <2>1 DEF Keeps, Seen, InTransaction
<1> QED
  BY <1>1, <1>2

LEMMA NothingKeeps ==
  ASSUME SchemaInv, NEW p \in Openers, UNCHANGED <<file, tx>>
  PROVE  Keeps(p) /\ Seen(p)' = Seen(p) /\ (InTransaction(p)' <=> InTransaction(p))
BY DEF Keeps, Seen, InTransaction, SchemaInv

LEMMA RollBackKeeps ==
  ASSUME SchemaInv, NEW p \in Openers, file' = file, RollBack(p)
  PROVE  Keeps(p) /\ ~InTransaction(p)'
<1>1. NoTransaction \in TransactionType /\ ~NoTransaction.open
  BY VersionParts DEF NoTransaction, TransactionType, NobodysFile, Files
<1> QED
  BY <1>1 DEF RollBack, Keeps, InTransaction, SchemaInv

LEMMA EnsureKeeps ==
  ASSUME SchemaInv, NEW p \in Openers, NEW xs \in SUBSET Parts, Ensure(p, xs)
  PROVE  /\ Keeps(p) /\ (InTransaction(p)' <=> InTransaction(p))
         /\ Seen(p)'.parts = Seen(p).parts \cup xs
<1>1. Seen(p) \in Files /\ TrueFile(Seen(p))
  BY SeenType
<1>2. CASE xs \subseteq Seen(p).parts
  <2>1. UNCHANGED <<file, tx>>
    BY <1>2 DEF Ensure
  <2>2. Seen(p)' = Seen(p) /\ Keeps(p) /\ (InTransaction(p)' <=> InTransaction(p))
    BY <2>1, NothingKeeps
  <2> QED
    BY <1>2, <2>2
<1>3. CASE ~(xs \subseteq Seen(p).parts)
  <2> DEFINE f == [Seen(p) EXCEPT !.parts = @ \cup xs]
  <2>1. WriteFile(p, f)
    BY <1>3 DEF Ensure
  <2>2. f \in Files /\ f.parts = Seen(p).parts \cup xs /\ f.version = Seen(p).version
    BY <1>1 DEF Files
  <2> HIDE DEF f
  <2>3. TrueFile(f) /\ Seen(p).parts \subseteq f.parts
    BY <1>1, <2>2 DEF TrueFile
  <2> QED
    BY <2>1, <2>2, <2>3, WriteKeeps
<1> QED
  BY <1>2, <1>3

LEMMA SchemaInvInit == SchemaInit => SchemaInv
<1> SUFFICES ASSUME SchemaInit PROVE SchemaInv
  OBVIOUS
<1>1. Closed \in OpenerType /\ Closed.at = "closed" /\ \A p \in Openers : opener[p] = Closed
  BY VersionParts DEF SchemaInit, Closed, OpenerType
<1>2. NobodysFile \in Files /\ TrueFile(NobodysFile)
  BY VersionParts DEF NobodysFile, Files, TrueFile
<1>3. ASSUME NEW v \in 0 .. LastVersion,
             file = [version |-> v, parts |-> {x \in Parts : x[1] <= v}]
      PROVE  file \in Files /\ TrueFile(file)
  BY <1>3, VersionParts DEF Files, TrueFile
<1>4. file \in Files /\ TrueFile(file)
  BY <1>2, <1>3 DEF SchemaInit
<1>5. tx \in TransactionType /\ ~tx.open
  BY <1>2 DEF SchemaInit, NoTransaction, TransactionType
<1>6. \A p \in Openers : Fits(opener[p], Seen(p).parts) /\ ~InTransaction(p)
  BY <1>1, <1>5 DEF Fits, Migrating, InTransaction
<1> QED
  BY <1>1, <1>4, <1>5, <1>6 DEF SchemaInv, SchemaInit

\* Where a process is that goes on to the next version.
LEMMA LookFits ==
  ASSUME NEW v \in 1 .. LastVersion + 1, NEW parts,
         \A x \in Structure : x[1] < v => x \in parts
  PROVE  /\ Look(v) \in OpenerType /\ Fits(Look(v), parts)
         /\ v = 3 => MidTransaction(Look(v))
<1>1. CASE v > LastVersion
  <2>1. /\ Look(v) = [at |-> "open", v |-> 0, missing |-> FALSE]
    BY <1>1 DEF Look, Opened, Closed
  <2>2. Structure \subseteq parts
    BY <1>1, VersionParts
  <2> QED
    BY <1>1, <2>1, <2>2, VersionParts DEF OpenerType, Fits, Migrating
<1>2. CASE ~(v > LastVersion)
  <2>1. Look(v) = [at |-> "look", v |-> v, missing |-> FALSE]
    BY <1>2 DEF Look
  <2>2. v \in 1 .. LastVersion /\ <<0, "tables">> \in parts
    BY <1>2, VersionParts
  <2> QED
    BY <2>1, <2>2, VersionParts DEF OpenerType, Fits, Migrating, MidTransaction
<1> QED
  BY <1>1, <1>2

LEMMA SchemaInvStep == SchemaInv /\ [SchemaNext]_schemaVars => SchemaInv'
<1> SUFFICES ASSUME SchemaInv, [SchemaNext]_schemaVars PROVE SchemaInv'
  OBVIOUS
<1>1. CASE UNCHANGED schemaVars
  BY <1>1 DEF SchemaInv, schemaVars, Seen, InTransaction, Fits, MidTransaction, TrueFile
<1>2. SUFFICES ASSUME NEW p \in Openers,
                      \/ CreateTables(p) \/ ReadVersion(p) \/ LookForColumns(p) \/ AddColumns(p)
                      \/ ColumnsAdded(p) \/ FillRows(p) \/ CommitFirst(p) \/ AddObjects(p)
                      \/ SetVersion(p) \/ Interrupted(p)
               PROVE  SchemaInv'
  BY <1>1 DEF SchemaNext
<1> DEFINE q == opener[p]
<1>3. /\ Seen(p) \in Files /\ TrueFile(Seen(p)) /\ file.parts \subseteq Seen(p).parts
      /\ q \in OpenerType /\ Fits(q, Seen(p).parts)
      /\ InTransaction(p) => MidTransaction(q)
  BY SeenType
<1>4. Closed \in OpenerType /\ \A parts : Fits(Closed, parts)
  BY VersionParts DEF Closed, OpenerType, Fits, Migrating
<1>5. CASE CreateTables(p)
  <2> DEFINE xs == IF <<0, "tables">> \in file.parts THEN {} ELSE Created
             new == [q EXCEPT !.at = "read"]
  <2>1. xs \in SUBSET Parts
    BY VersionParts DEF Created, Parts, Structure, FilledRows
  <2>2. Ensure(p, xs) /\ opener' = [opener EXCEPT ![p] = new] /\ q.at = "closed"
    BY <1>5 DEF CreateTables, SchemaInv
  <2>3. <<0, "tables">> \in Seen(p).parts \cup xs
    BY <1>3 DEF Created
  <2> HIDE DEF xs
  <2>4. /\ Keeps(p) /\ (InTransaction(p)' <=> InTransaction(p))
        /\ Seen(p)'.parts = Seen(p).parts \cup xs
    BY <2>1, <2>2, EnsureKeeps
  <2>5. new \in OpenerType /\ Fits(new, Seen(p)'.parts)
    BY <1>3, <2>3, <2>4 DEF OpenerType, Fits, Migrating
  <2>6. ~InTransaction(p)
    BY <1>3, <2>2 DEF MidTransaction
  <2> HIDE DEF new
  <2> QED
    BY <2>2, <2>4, <2>5, <2>6, StatementKeeps
<1>6. CASE ReadVersion(p)
  <2>1. /\ UNCHANGED <<file, tx>> /\ opener' = [opener EXCEPT ![p] = Look(file.version + 1)]
        /\ q.at = "read"
    BY <1>6 DEF ReadVersion
  <2>2. file \in Files /\ TrueFile(file)
    BY DEF SchemaInv
  <2>3. file.version \in 0 .. LastVersion /\ file.version + 1 \in 1 .. LastVersion + 1
    BY <2>2, VersionParts DEF Files
  <2>4. \A x \in Structure : x[1] < file.version + 1 => x \in Seen(p).parts
    <3>1. <<0, "tables">> \in Seen(p).parts
      BY <1>3, <2>1 DEF Fits
    <3> SUFFICES ASSUME NEW x \in Structure, x[1] < file.version + 1 PROVE x \in Seen(p).parts
      OBVIOUS
    <3>2. CASE file.version = 0
      BY <2>3, <3>1, <3>2, VersionParts
    <3>3. CASE file.version > 0
      BY <1>3, <2>2, <2>3, <3>3, VersionParts DEF TrueFile
    <3> QED
      BY <2>3, <3>2, <3>3
  <2>5. Look(file.version + 1) \in OpenerType /\ Fits(Look(file.version + 1), Seen(p).parts)
    BY <2>3, <2>4, LookFits
  <2>6. ~InTransaction(p)
    BY <1>3, <2>1 DEF MidTransaction
  <2>7. Keeps(p) /\ Seen(p)' = Seen(p) /\ (InTransaction(p)' <=> InTransaction(p))
    BY <2>1, NothingKeeps
  <2> QED
    BY <2>1, <2>5, <2>6, <2>7, StatementKeeps
<1>7. CASE LookForColumns(p)
  <2> DEFINE new == [q EXCEPT !.at = "columns",
                              !.missing = <<q.v, "columns">> \notin Seen(p).parts]
  <2>1. /\ UNCHANGED <<file, tx>> /\ opener' = [opener EXCEPT ![p] = new] /\ q.at = "look"
    BY <1>7 DEF LookForColumns, SchemaInv, OpenerType
  <2>2. Keeps(p) /\ Seen(p)' = Seen(p) /\ (InTransaction(p)' <=> InTransaction(p))
    BY <2>1, NothingKeeps
  <2>3. new \in OpenerType /\ new.at = "columns" /\ new.v = q.v
    BY <1>3 DEF OpenerType, Migrating
  <2> HIDE DEF new
  <2>4. Fits(new, Seen(p).parts) /\ (MidTransaction(q) => MidTransaction(new))
    BY <1>3, <2>1, <2>3 DEF Fits, Migrating, MidTransaction
  <2> QED
    BY <1>3, <2>1, <2>2, <2>3, <2>4, StatementKeeps
<1>8. CASE AddColumns(p)
  <2> DEFINE there == CASE q.v = 2 /\ q.missing -> "rows"
                        [] q.v = LastVersion -> "version"
                        [] OTHER -> "objects"
             new == [q EXCEPT !.at = there]
  <2>1. /\ Ensure(p, {<<q.v, "columns">>}) /\ opener' = [opener EXCEPT ![p] = new]
        /\ q.at = "columns" /\ (q.missing => <<q.v, "columns">> \notin Seen(p).parts \/ q.v = LastVersion)
    BY <1>8 DEF AddColumns, SchemaInv
  <2>2. q.v \in 1 .. LastVersion
    BY <1>3, <2>1 DEF Fits, Migrating
  <2>3. {<<q.v, "columns">>} \in SUBSET Parts
    BY <2>2, VersionParts
  <2>4. /\ Keeps(p) /\ (InTransaction(p)' <=> InTransaction(p))
        /\ Seen(p)'.parts = Seen(p).parts \cup {<<q.v, "columns">>}
    BY <2>1, <2>3, EnsureKeeps
  <2>5. /\ there \in {"rows", "objects", "version"}
        /\ there = "objects" => q.v # LastVersion
        /\ there = "version" => q.v = LastVersion
        /\ there = "rows" => q.v = 2
        /\ q.v = 3 => there = "objects"
    BY VersionParts
  <2> HIDE DEF there
  <2>6. new \in OpenerType /\ new.at = there /\ new.v = q.v
    BY <1>3, <2>5 DEF OpenerType, Migrating
  <2> HIDE DEF new
  <2>7. Fits(new, Seen(p)'.parts)
    BY <1>3, <2>1, <2>4, <2>5, <2>6 DEF Fits, Migrating
  <2>8. InTransaction(p) => MidTransaction(new)
    BY <1>3, <2>1, <2>5, <2>6 DEF MidTransaction
  <2> QED
    BY <2>1, <2>4, <2>6, <2>7, <2>8, StatementKeeps
<1>9. CASE ColumnsAdded(p)
  <2>1. opener' = [opener EXCEPT ![p] = Closed] /\ file' = file /\ RollBack(p)
    BY <1>9 DEF ColumnsAdded
  <2>2. Keeps(p) /\ ~InTransaction(p)'
    BY <2>1, RollBackKeeps
  <2> QED
    BY <1>4, <2>1, <2>2, StatementKeeps
<1>10. CASE FillRows(p)
  <2> DEFINE f == [file EXCEPT !.parts = @ \cup {FilledRows}]
             new == [q EXCEPT !.at = "objects"]
  <2>1. /\ tx' = [open |-> TRUE, by |-> p, file |-> f] /\ file' = file /\ ~tx.open
        /\ opener' = [opener EXCEPT ![p] = new] /\ q.at = "rows"
    BY <1>10 DEF FillRows, SchemaInv
  <2>2. file \in Files /\ TrueFile(file)
    BY DEF SchemaInv
  <2>3. f \in Files /\ f.version = file.version /\ f.parts = file.parts \cup {FilledRows}
    BY <2>2 DEF Files, Parts
  <2> HIDE DEF f
  <2>4. TrueFile(f)
    BY <2>2, <2>3 DEF TrueFile
  <2>5. tx' \in TransactionType /\ tx'.open /\ tx'.by = p /\ tx'.file = f
    BY <2>1, <2>3 DEF TransactionType
  <2>6. Keeps(p)
    BY <2>1, <2>2, <2>3, <2>4, <2>5 DEF Keeps
  <2>7. Seen(p)'.parts = Seen(p).parts \cup {FilledRows}
    BY <2>1, <2>3, <2>5 DEF Seen, InTransaction
  <2>8. new \in OpenerType /\ new.at = "objects" /\ new.v = q.v
    BY <1>3 DEF OpenerType, Migrating
  <2> HIDE DEF new
  <2>9. q.v = 2
    BY <1>3, <2>1 DEF Fits
  <2>10. Fits(new, Seen(p)'.parts) /\ MidTransaction(new)
    BY <1>3, <2>1, <2>7, <2>8, <2>9, VersionParts DEF Fits, Migrating, MidTransaction
  <2> QED
    BY <2>1, <2>6, <2>8, <2>10, StatementKeeps
<1>11. CASE CommitFirst(p)
  <2>1. /\ file' = tx.file /\ tx' = NoTransaction /\ opener' = opener
        /\ tx.open /\ tx.by = p /\ Seen(p) = tx.file
    BY <1>11 DEF CommitFirst, InTransaction, Seen
  <2>2. tx' \in TransactionType /\ ~tx'.open
    BY <2>1, VersionParts DEF NoTransaction, TransactionType, NobodysFile, Files
  <2>3. Keeps(p)
    BY <1>3, <2>1, <2>2 DEF Keeps
  <2>4. Seen(p)' = Seen(p) /\ ~InTransaction(p)'
    BY <2>1, <2>2 DEF Seen, InTransaction
  <2>5. opener' = [opener EXCEPT ![p] = q]
    BY <2>1 DEF SchemaInv
  <2> HIDE DEF q
  <2> QED
    BY <1>3, <2>3, <2>4, <2>5, StatementKeeps
<1>12. CASE AddObjects(p)
  <2> DEFINE new == [q EXCEPT !.at = "version"]
  <2>1. /\ Ensure(p, {<<q.v, "objects">>}) /\ opener' = [opener EXCEPT ![p] = new]
        /\ q.at = "objects" /\ (q.v = 3 => ~InTransaction(p))
    BY <1>12 DEF AddObjects, SchemaInv
  <2>2. q.v \in 1 .. LastVersion /\ q.v # LastVersion
    BY <1>3, <2>1 DEF Fits, Migrating
  <2>3. {<<q.v, "objects">>} \in SUBSET Parts
    BY <2>2, VersionParts
  <2>4. /\ Keeps(p) /\ (InTransaction(p)' <=> InTransaction(p))
        /\ Seen(p)'.parts = Seen(p).parts \cup {<<q.v, "objects">>}
    BY <2>1, <2>3, EnsureKeeps
  <2>5. new \in OpenerType /\ new.at = "version" /\ new.v = q.v
    BY <1>3 DEF OpenerType, Migrating
  <2> HIDE DEF new
  <2>6. Fits(new, Seen(p)'.parts) /\ (InTransaction(p) => MidTransaction(new))
    BY <1>3, <2>1, <2>4, <2>5 DEF Fits, Migrating, MidTransaction
  <2> QED
    BY <2>1, <2>4, <2>5, <2>6, StatementKeeps
<1>13. CASE SetVersion(p)
  <2> DEFINE f == [Seen(p) EXCEPT !.version = q.v]
  <2>1. WriteFile(p, f) /\ opener' = [opener EXCEPT ![p] = Look(q.v + 1)] /\ q.at = "version"
    BY <1>13 DEF SetVersion, SchemaInv
  <2>2. q.v \in 1 .. LastVersion
    BY <1>3, <2>1 DEF Fits, Migrating
  <2>3. f \in Files /\ f.parts = Seen(p).parts /\ f.version = q.v
    BY <1>3, <2>2, VersionParts DEF Files
  <2>4. \A x \in Structure : x[1] < q.v + 1 => x \in Seen(p).parts
    <3> SUFFICES ASSUME NEW x \in Structure, x[1] < q.v + 1 PROVE x \in Seen(p).parts
      OBVIOUS
    <3>1. x[1] < q.v \/ x = <<q.v, "columns">> \/ (q.v # LastVersion /\ x = <<q.v, "objects">>)
      BY <2>2, VersionParts
    <3> QED
      BY <1>3, <2>1, <3>1 DEF Fits, Migrating
  <2> HIDE DEF f
  <2>5. TrueFile(f)
    BY <2>2, <2>3, <2>4, VersionParts DEF TrueFile
  <2>6. Keeps(p) /\ Seen(p)' = f /\ (InTransaction(p)' <=> InTransaction(p))
    BY <2>1, <2>3, <2>5, WriteKeeps
  <2>7. q.v + 1 \in 1 .. LastVersion + 1
    BY <2>2, VersionParts
  <2>8. /\ Look(q.v + 1) \in OpenerType /\ Fits(Look(q.v + 1), Seen(p).parts)
        /\ q.v + 1 = 3 => MidTransaction(Look(q.v + 1))
    BY <2>4, <2>7, LookFits
  <2>9. InTransaction(p) => q.v + 1 = 3
    BY <1>3, <2>1 DEF MidTransaction
  <2> QED
    BY <2>1, <2>3, <2>6, <2>8, <2>9, StatementKeeps
<1>14. CASE Interrupted(p)
  <2>1. opener' = [opener EXCEPT ![p] = Closed] /\ file' = file /\ RollBack(p)
    BY <1>14 DEF Interrupted
  <2>2. Keeps(p) /\ ~InTransaction(p)'
    BY <2>1, RollBackKeeps
  <2> QED
    BY <1>4, <2>1, <2>2, StatementKeeps
<1> QED
  BY <1>2, <1>5, <1>6, <1>7, <1>8, <1>9, <1>10, <1>11, <1>12, <1>13, <1>14

\* What becomes of the rows of version 2: a transaction has them filled, and
\* while nobody died, whoever added the column has filled them or is about to.
\* A process finds a column missing at its ALTER as it did at its table_info,
\* unless it looked outside a transaction.
Looked(q, inside, parts) ==
  q.at = "columns" => /\ ~q.missing => <<q.v, "columns">> \in parts
                      /\ q.missing /\ inside => <<q.v, "columns">> \notin parts

RowsInv ==
  /\ restarts \in Nat
  /\ tx.open => tx.by \in Openers /\ FilledRows \in tx.file.parts
  /\ \A p \in Openers : Looked(opener[p], InTransaction(p), Seen(p).parts)
  /\ restarts = 0 /\ <<2, "columns">> \in file.parts =>
        FilledRows \in file.parts \/ tx.open \/ \E p \in Openers : opener[p].at = "rows"

LEMMA RowsStatement ==
  ASSUME SchemaInv, RowsInv, NEW p \in Openers, NEW new \in OpenerType, Keeps(p),
         opener' = [opener EXCEPT ![p] = new],
         restarts' \in Nat, restarts' = 0 => restarts = 0,
         tx'.open => tx'.by \in Openers /\ FilledRows \in tx'.file.parts,
         Looked(new, InTransaction(p)', Seen(p)'.parts),
         restarts' = 0 /\ <<2, "columns">> \in file'.parts =>
            \/ FilledRows \in file'.parts \/ tx'.open \/ new.at = "rows"
            \/ /\ <<2, "columns">> \in file.parts /\ opener[p].at # "rows"
               /\ tx.open => tx'.open
  PROVE  RowsInv'
<1>1. /\ opener'[p] = new
      /\ \A q \in Openers : q # p => opener'[q] = opener[q]
  BY DEF SchemaInv
<1>2. ASSUME NEW q \in Openers
      PROVE  Looked(opener'[q], InTransaction(q)', Seen(q)'.parts)
  <2>1. CASE q = p
    BY <1>1, <2>1
  <2>2. CASE q # p
    <3>1. Looked(opener[q], InTransaction(q), Seen(q).parts)
      BY DEF RowsInv
    <3>2. Seen(q).parts \subseteq Seen(q)'.parts /\ (InTransaction(q)' => InTransaction(q))
      BY <2>2, OthersSeeMore
    <3>3. InTransaction(q) => tx' = tx /\ Seen(q)' = Seen(q)
      BY <2>2 DEF Keeps, InTransaction, Seen
    <3> QED
      BY <1>1, <2>2, <3>1, <3>2, <3>3 DEF Looked
  <2> QED
    BY <2>1, <2>2
<1>3. ASSUME restarts' = 0, <<2, "columns">> \in file'.parts
      PROVE  FilledRows \in file'.parts \/ tx'.open \/ \E q \in Openers : opener'[q].at = "rows"
  <2>1. file.parts \subseteq file'.parts
    BY DEF Keeps
  <2>2. CASE /\ <<2, "columns">> \in file.parts /\ opener[p].at # "rows"
             /\ tx.open => tx'.open
    BY <1>1, <1>3, <2>1, <2>2 DEF RowsInv
  <2> QED
    BY <1>1, <1>3, <2>2
<1>4. \A q \in Openers : Looked(opener[q], InTransaction(q), Seen(q).parts)'
  BY <1>2 DEF Looked
<1> QED
  BY <1>3, <1>4 DEF RowsInv

LEMMA RowsInvInit == SchemaInit => RowsInv
<1> SUFFICES ASSUME SchemaInit PROVE RowsInv
  OBVIOUS
<1>1. restarts = 0 /\ ~tx.open /\ \A p \in Openers : opener[p].at = "closed"
  BY DEF SchemaInit, NoTransaction, Closed
<1>2. <<2, "columns">> \in file.parts => FilledRows \in file.parts
  BY DEF SchemaInit, NobodysFile, Parts, FilledRows
<1> QED
  BY <1>1, <1>2 DEF RowsInv, Looked

LEMMA LookType ==
  ASSUME NEW v \in 1 .. LastVersion + 1
  PROVE  Look(v) \in OpenerType /\ Look(v).at # "columns"
<1>1. CASE v > LastVersion
  <2>1. Look(v) = [at |-> "open", v |-> 0, missing |-> FALSE]
    BY <1>1 DEF Look, Opened, Closed
  <2> QED
    BY <2>1, VersionParts DEF OpenerType, Migrating
<1>2. CASE ~(v > LastVersion)
  <2>1. Look(v) = [at |-> "look", v |-> v, missing |-> FALSE] /\ v \in 0 .. LastVersion
    BY <1>2, VersionParts DEF Look
  <2> QED
    BY <2>1 DEF OpenerType, Migrating
<1> QED
  BY <1>1, <1>2

LEMMA RowsInvStep == SchemaInv /\ RowsInv /\ [SchemaNext]_schemaVars => RowsInv'
<1> SUFFICES ASSUME SchemaInv, RowsInv, [SchemaNext]_schemaVars PROVE RowsInv'
  OBVIOUS
<1>1. CASE UNCHANGED schemaVars
  BY <1>1 DEF RowsInv, schemaVars, Seen, InTransaction, Looked
<1>2. SUFFICES ASSUME NEW p \in Openers,
                      \/ CreateTables(p) \/ ReadVersion(p) \/ LookForColumns(p) \/ AddColumns(p)
                      \/ ColumnsAdded(p) \/ FillRows(p) \/ CommitFirst(p) \/ AddObjects(p)
                      \/ SetVersion(p) \/ Interrupted(p)
               PROVE  RowsInv'
  BY <1>1 DEF SchemaNext
<1> DEFINE q == opener[p]
<1>3. /\ Seen(p) \in Files /\ TrueFile(Seen(p)) /\ file.parts \subseteq Seen(p).parts
      /\ q \in OpenerType /\ Fits(q, Seen(p).parts)
      /\ InTransaction(p) => MidTransaction(q)
  BY SeenType
<1>4. /\ restarts \in Nat
      /\ tx.open => tx.by \in Openers /\ FilledRows \in tx.file.parts
      /\ Looked(q, InTransaction(p), Seen(p).parts)
  BY DEF RowsInv
<1>5. Closed \in OpenerType /\ \A inside, parts : Looked(Closed, inside, parts)
  BY VersionParts DEF Closed, OpenerType, Looked
<1>6. ASSUME NEW xs \in SUBSET Parts, Ensure(p, xs)
      PROVE  /\ Keeps(p) /\ Seen(p)'.parts = Seen(p).parts \cup xs
             /\ tx'.open = tx.open /\ (tx'.open => tx'.by \in Openers /\ FilledRows \in tx'.file.parts)
             /\ \/ InTransaction(p) /\ file' = file
                \/ ~InTransaction(p) /\ file'.parts = file.parts \cup xs
  <2>1. /\ Keeps(p) /\ Seen(p)'.parts = Seen(p).parts \cup xs
        /\ (InTransaction(p)' <=> InTransaction(p))
    BY <1>6, EnsureKeeps
  <2>2. CASE InTransaction(p)
    <3>1. tx.open /\ tx.by = p /\ tx \in TransactionType
      BY <2>2 DEF InTransaction, SchemaInv
    <3>2. file' = file /\ tx'.open /\ tx'.by = p
      BY <2>2, <3>1, <1>6 DEF Ensure, WriteFile, InTransaction, TransactionType
    <3>3. Seen(p) = tx.file /\ Seen(p)' = tx'.file
      BY <2>2, <3>2 DEF Seen, InTransaction
    <3> QED
      BY <1>4, <2>1, <2>2, <3>1, <3>2, <3>3
  <2>3. CASE ~InTransaction(p)
    <3>1. tx' = tx
      BY <1>6, <2>3 DEF Ensure, WriteFile
    <3>2. Seen(p) = file /\ Seen(p)' = file'
      BY <2>3, <3>1 DEF Seen, InTransaction
    <3> QED
      BY <1>4, <2>1, <2>3, <3>1, <3>2
  <2> QED
    BY <2>2, <2>3
<1>7. CASE CreateTables(p)
  <2> DEFINE xs == IF <<0, "tables">> \in file.parts THEN {} ELSE Created
             new == [q EXCEPT !.at = "read"]
  <2>1. xs \in SUBSET Parts /\ (xs = {} \/ FilledRows \in xs)
    BY VersionParts DEF Created, Parts, Structure, FilledRows
  <2>2. Ensure(p, xs) /\ opener' = [opener EXCEPT ![p] = new] /\ q.at = "closed" /\ restarts' = restarts
    BY <1>7 DEF CreateTables, SchemaInv
  <2> HIDE DEF xs
  <2>3. new \in OpenerType /\ new.at = "read"
    BY <1>3 DEF OpenerType
  <2>4. ~InTransaction(p)
    BY <1>3, <2>2 DEF MidTransaction
  <2> HIDE DEF new
  <2>5. Looked(new, InTransaction(p)', Seen(p)'.parts)
    BY <2>3 DEF Looked
  <2>6. /\ Keeps(p) /\ tx'.open = tx.open
        /\ tx'.open => tx'.by \in Openers /\ FilledRows \in tx'.file.parts
        /\ file'.parts = file.parts \cup xs
    BY <1>6, <2>1, <2>2, <2>4
  <2> QED
    BY <1>4, <2>1, <2>2, <2>3, <2>5, <2>6, RowsStatement
<1>8. CASE ReadVersion(p)
  <2> DEFINE new == Look(file.version + 1)
  <2>1. /\ UNCHANGED <<file, tx>> /\ opener' = [opener EXCEPT ![p] = new]
        /\ q.at = "read" /\ restarts' = restarts
    BY <1>8 DEF ReadVersion
  <2>2. file.version \in 0 .. LastVersion
    BY DEF SchemaInv, Files
  <2>3. new \in OpenerType /\ new.at # "columns"
    <3>1. file.version + 1 \in 1 .. LastVersion + 1
      BY <2>2, VersionParts
    <3> QED
      BY <3>1, LookType
  <2> HIDE DEF new
  <2>4. Keeps(p) /\ Looked(new, InTransaction(p)', Seen(p)'.parts)
    BY <2>1, <2>3, NothingKeeps DEF Looked
  <2> QED
    BY <1>4, <2>1, <2>3, <2>4, RowsStatement
<1>9. CASE LookForColumns(p)
  <2> DEFINE new == [q EXCEPT !.at = "columns",
                              !.missing = <<q.v, "columns">> \notin Seen(p).parts]
  <2>1. /\ UNCHANGED <<file, tx>> /\ opener' = [opener EXCEPT ![p] = new]
        /\ q.at = "look" /\ restarts' = restarts
    BY <1>9 DEF LookForColumns, SchemaInv, OpenerType
  <2>2. /\ new \in OpenerType /\ new.at = "columns" /\ new.v = q.v
        /\ new.missing = (<<q.v, "columns">> \notin Seen(p).parts)
    BY <1>3 DEF OpenerType, Migrating
  <2> HIDE DEF new
  <2>3. Keeps(p) /\ Seen(p)' = Seen(p)
    BY <2>1, NothingKeeps
  <2>4. Looked(new, InTransaction(p)', Seen(p)'.parts)
    BY <2>2, <2>3 DEF Looked
  <2> QED
    BY <1>4, <2>1, <2>2, <2>3, <2>4, RowsStatement
<1>10. CASE AddColumns(p)
  <2> DEFINE there == CASE q.v = 2 /\ q.missing -> "rows"
                        [] q.v = LastVersion -> "version"
                        [] OTHER -> "objects"
             new == [q EXCEPT !.at = there]
  <2>1. /\ Ensure(p, {<<q.v, "columns">>}) /\ opener' = [opener EXCEPT ![p] = new]
        /\ q.at = "columns" /\ restarts' = restarts
    BY <1>10 DEF AddColumns, SchemaInv
  <2>2. q.v \in 1 .. LastVersion
    BY <1>3, <2>1 DEF Fits, Migrating
  <2>3. {<<q.v, "columns">>} \in SUBSET Parts
    BY <2>2, VersionParts
  <2>4. /\ Keeps(p) /\ tx'.open = tx.open
        /\ tx'.open => tx'.by \in Openers /\ FilledRows \in tx'.file.parts
        /\ \/ InTransaction(p) /\ file' = file
           \/ ~InTransaction(p) /\ file'.parts = file.parts \cup {<<q.v, "columns">>}
    BY <1>6, <2>1, <2>3
  <2>5. /\ there \in {"rows", "objects", "version"}
        /\ q.v = 2 /\ q.missing => there = "rows"
    BY VersionParts
  <2> HIDE DEF there
  <2>6. new \in OpenerType /\ new.at = there
    BY <1>3, <2>5 DEF OpenerType, Migrating
  <2> HIDE DEF new
  <2>7. Looked(new, InTransaction(p)', Seen(p)'.parts)
    BY <2>5, <2>6 DEF Looked
  <2>8. ASSUME <<2, "columns">> \in file'.parts, new.at # "rows"
        PROVE  <<2, "columns">> \in file.parts
    <3>1. CASE InTransaction(p) /\ file' = file
      BY <2>8, <3>1
    <3>2. CASE ~InTransaction(p) /\ file'.parts = file.parts \cup {<<q.v, "columns">>}
      <4>1. Seen(p) = file
        BY <3>2 DEF Seen
      <4>2. q.missing \in BOOLEAN
        BY <1>3 DEF OpenerType
      <4>3. q.v = 2 => <<q.v, "columns">> \in file.parts
        BY <1>4, <2>1, <2>5, <2>6, <2>8, <4>1, <4>2 DEF Looked
      <4> QED
        BY <2>8, <3>2, <4>3
    <3> QED
      BY <2>4, <3>1, <3>2
  <2> QED
    BY <1>4, <2>1, <2>4, <2>6, <2>7, <2>8, RowsStatement
<1>11. CASE ColumnsAdded(p)
  <2>1. /\ opener' = [opener EXCEPT ![p] = Closed] /\ file' = file /\ RollBack(p)
        /\ q.at = "columns" /\ q.missing /\ <<q.v, "columns">> \in Seen(p).parts
        /\ restarts' = restarts
    BY <1>11 DEF ColumnsAdded
  <2>2. ~InTransaction(p)
    BY <1>4, <2>1 DEF Looked
  <2>3. tx' = tx
    BY <2>1, <2>2 DEF RollBack
  <2>4. Keeps(p)
    BY <2>1, RollBackKeeps
  <2> QED
    BY <1>4, <1>5, <2>1, <2>3, <2>4, RowsStatement
<1>12. CASE FillRows(p)
  <2> DEFINE f == [file EXCEPT !.parts = @ \cup {FilledRows}]
             new == [q EXCEPT !.at = "objects"]
  <2>1. /\ tx' = [open |-> TRUE, by |-> p, file |-> f] /\ file' = file /\ ~tx.open
        /\ opener' = [opener EXCEPT ![p] = new] /\ q.at = "rows" /\ restarts' = restarts
    BY <1>12 DEF FillRows, SchemaInv
  <2>2. file \in Files /\ TrueFile(file)
    BY DEF SchemaInv
  <2>3. f \in Files /\ f.version = file.version /\ f.parts = file.parts \cup {FilledRows}
    BY <2>2 DEF Files, Parts
  <2> HIDE DEF f
  <2>4. TrueFile(f)
    BY <2>2, <2>3 DEF TrueFile
  <2>5. tx' \in TransactionType /\ tx'.open /\ tx'.by = p /\ tx'.file = f
    BY <2>1, <2>3 DEF TransactionType
  <2>6. Keeps(p)
    BY <2>1, <2>2, <2>3, <2>4, <2>5 DEF Keeps
  <2>7. new \in OpenerType /\ new.at = "objects"
    BY <1>3 DEF OpenerType, Migrating
  <2> HIDE DEF new
  <2>8. Looked(new, InTransaction(p)', Seen(p)'.parts)
    BY <2>7 DEF Looked
  <2> QED
    BY <1>4, <2>1, <2>3, <2>5, <2>6, <2>7, <2>8, RowsStatement
<1>13. CASE CommitFirst(p)
  <2>1. /\ file' = tx.file /\ tx' = NoTransaction /\ opener' = opener /\ restarts' = restarts
        /\ tx.open /\ tx.by = p /\ Seen(p) = tx.file /\ q.at = "objects"
    BY <1>13 DEF CommitFirst, InTransaction, Seen
  <2>2. tx' \in TransactionType /\ ~tx'.open
    BY <2>1, VersionParts DEF NoTransaction, TransactionType, NobodysFile, Files
  <2>3. Keeps(p)
    BY <1>3, <2>1, <2>2 DEF Keeps
  <2>4. opener' = [opener EXCEPT ![p] = q]
    BY <2>1 DEF SchemaInv
  <2>5. Looked(q, InTransaction(p)', Seen(p)'.parts)
    BY <2>1 DEF Looked
  <2>6. FilledRows \in file'.parts
    BY <1>4, <2>1
  <2> HIDE DEF q
  <2> QED
    BY <1>3, <1>4, <2>1, <2>2, <2>3, <2>4, <2>5, <2>6, RowsStatement
<1>14. CASE AddObjects(p)
  <2> DEFINE new == [q EXCEPT !.at = "version"]
  <2>1. /\ Ensure(p, {<<q.v, "objects">>}) /\ opener' = [opener EXCEPT ![p] = new]
        /\ q.at = "objects" /\ restarts' = restarts
    BY <1>14 DEF AddObjects, SchemaInv
  <2>2. q.v \in 1 .. LastVersion /\ q.v # LastVersion
    BY <1>3, <2>1 DEF Fits, Migrating
  <2>3. {<<q.v, "objects">>} \in SUBSET Parts
    BY <2>2, VersionParts
  <2>4. /\ Keeps(p) /\ tx'.open = tx.open
        /\ tx'.open => tx'.by \in Openers /\ FilledRows \in tx'.file.parts
        /\ file' = file \/ file'.parts = file.parts \cup {<<q.v, "objects">>}
    BY <1>6, <2>1, <2>3
  <2>5. new \in OpenerType /\ new.at = "version"
    BY <1>3 DEF OpenerType, Migrating
  <2> HIDE DEF new
  <2>6. Looked(new, InTransaction(p)', Seen(p)'.parts)
    BY <2>5 DEF Looked
  <2>7. <<2, "columns">> \in file'.parts => <<2, "columns">> \in file.parts
    BY <2>4
  <2> QED
    BY <1>4, <2>1, <2>4, <2>5, <2>6, <2>7, RowsStatement
<1>15. CASE SetVersion(p)
  <2> DEFINE f == [Seen(p) EXCEPT !.version = q.v]
             new == Look(q.v + 1)
  <2>1. WriteFile(p, f) /\ opener' = [opener EXCEPT ![p] = new] /\ q.at = "version" /\ restarts' = restarts
    BY <1>15 DEF SetVersion, SchemaInv
  <2>2. q.v \in 1 .. LastVersion
    BY <1>3, <2>1 DEF Fits, Migrating
  <2>3. f \in Files /\ f.parts = Seen(p).parts /\ f.version = q.v
    BY <1>3, <2>2, VersionParts DEF Files
  <2>4. \A x \in Structure : x[1] < q.v + 1 => x \in Seen(p).parts
    <3> SUFFICES ASSUME NEW x \in Structure, x[1] < q.v + 1 PROVE x \in Seen(p).parts
      OBVIOUS
    <3>1. x[1] < q.v \/ x = <<q.v, "columns">> \/ (q.v # LastVersion /\ x = <<q.v, "objects">>)
      BY <2>2, VersionParts
    <3> QED
      BY <1>3, <2>1, <3>1 DEF Fits, Migrating
  <2> HIDE DEF f
  <2>5. TrueFile(f)
    BY <2>2, <2>3, <2>4, VersionParts DEF TrueFile
  <2>6. Keeps(p) /\ Seen(p)' = f
    BY <2>1, <2>3, <2>5, WriteKeeps
  <2>7. /\ tx'.open = tx.open
        /\ tx'.open => tx'.by \in Openers /\ FilledRows \in tx'.file.parts
        /\ file'.parts = file.parts
    <3>1. CASE InTransaction(p)
      <4>1. tx.open /\ tx.by = p /\ tx \in TransactionType /\ Seen(p) = tx.file
        BY <3>1 DEF InTransaction, SchemaInv, Seen
      <4>2. file' = file /\ tx'.open /\ tx'.by = p /\ tx'.file = f
        BY <2>1, <3>1, <4>1 DEF WriteFile, TransactionType
      <4> QED
        BY <1>4, <2>3, <4>1, <4>2
    <3>2. CASE ~InTransaction(p)
      <4>1. tx' = tx /\ file' = f /\ Seen(p) = file
        BY <2>1, <3>2 DEF WriteFile, Seen
      <4> QED
        BY <1>4, <2>3, <4>1
    <3> QED
      BY <3>1, <3>2
  <2>8. new \in OpenerType /\ new.at # "columns"
    <3>1. q.v + 1 \in 1 .. LastVersion + 1
      BY <2>2, VersionParts
    <3> QED
      BY <3>1, LookType
  <2> HIDE DEF new
  <2>9. Looked(new, InTransaction(p)', Seen(p)'.parts)
    BY <2>8 DEF Looked
  <2> QED
    BY <1>4, <2>1, <2>6, <2>7, <2>8, <2>9, RowsStatement
<1>16. CASE Interrupted(p)
  <2>1. /\ opener' = [opener EXCEPT ![p] = Closed] /\ file' = file /\ RollBack(p)
        /\ restarts' = restarts + 1
    BY <1>16 DEF Interrupted
  <2>2. Keeps(p)
    BY <2>1, RollBackKeeps
  <2>3. tx'.open => tx' = tx
    BY <2>1 DEF RollBack, NoTransaction
  <2>4. restarts' \in Nat /\ restarts' # 0
    BY <1>4, <2>1
  <2> QED
    BY <1>4, <1>5, <2>1, <2>2, <2>3, <2>4, RowsStatement
<1> QED
  BY <1>2, <1>7, <1>8, <1>9, <1>10, <1>11, <1>12, <1>13, <1>14, <1>15, <1>16

\* init_schema and _migrate_schema, for any number of processes and restarts:
\* whoever set user_version last and wherever a process died, the file has the
\* tables, columns and indexes of the version it claims, and a process that got
\* through sees the whole schema; the rows of version 2 are filled once all are
\* through, if none of them died.
THEOREM VersionStaysTrue == SchemaSpec => []VersionIsTrue
<1>1. SchemaInv /\ RowsInv => VersionIsTrue
  <2> SUFFICES ASSUME SchemaInv, RowsInv PROVE VersionIsTrue
    OBVIOUS
  <2>1. TrueFile(file)
    BY DEF SchemaInv
  <2>2. ASSUME NEW p \in Openers, opener[p].at = "open"
        PROVE  ~InTransaction(p) /\ Structure \subseteq file.parts
    <3>1. Fits(opener[p], Seen(p).parts) /\ (InTransaction(p) => MidTransaction(opener[p]))
      BY DEF SchemaInv
    <3>2. ~InTransaction(p)
      BY <2>2, <3>1 DEF MidTransaction
    <3> QED
      BY <2>2, <3>1, <3>2 DEF Fits, Seen
  <2>3. ASSUME NEW p \in Openers, AllOpen, restarts = 0 PROVE FilledRows \in file.parts
    <3>1. <<2, "columns">> \in file.parts
      BY <2>2, <2>3, VersionParts DEF AllOpen
    <3>2. ~tx.open
      BY <2>2, <2>3 DEF AllOpen, RowsInv, InTransaction
    <3> QED
      BY <2>3, <3>1, <3>2 DEF AllOpen, RowsInv
  <2> QED
    BY <2>1, <2>2, <2>3 DEF VersionIsTrue, TrueFile
<1>2. SchemaInit => SchemaInv /\ RowsInv
  BY SchemaInvInit, RowsInvInit
<1>3. SchemaInv /\ RowsInv /\ [SchemaNext]_schemaVars => (SchemaInv /\ RowsInv)'
  BY SchemaInvStep, RowsInvStep
<1> QED
  BY <1>1, <1>2, <1>3, PTL DEF SchemaSpec

-----------------------------------------------------------------------------
(* Observations and their vintages                                         *)

\* What the queries need of a set of observations: no two vintages of a
\* period became available at once.
ObservationRows(R) ==
  /\ IsFiniteSet(R)
  /\ \A o \in R : o.id \in Ids /\ o.period \in Periods /\ o.available \in Nat /\ o.event = 0
  /\ \A o, p \in R : o.period = p.period /\ o.available = p.available => o = p

\* The table: besides, every vintage but the newest of its period has been
\* superseded.  A revision supersedes what nobody superseded, so it follows
\* the newest vintage and the vintages stay apart.
Chain(R) ==
  /\ ObservationRows(R)
  /\ \A o, p \in R : o.id = p.id => o = p
  /\ \A o, p \in R : o.period = p.period /\ o.available < p.available =>
        \E q \in R : q.supersedes = o.id

VTInv == Chain(observations) /\ clock \in Nat

LEMMA ChainAppend ==
  ASSUME Chain(observations), clock \in Nat, NEW o \in Inputs, AppendObservation(o)
  PROVE  Chain(observations')
<1>1. /\ o.id \in Ids /\ o.period \in Periods /\ o.available \in Nat /\ o.event = 0
  BY VintageAssumption DEF Inputs
<1>2. \A p \in observations : p.id # o.id
  BY DEF AppendObservation
<1>3. observations' = observations \cup {o}
  BY DEF AppendObservation
<1>4. IsFiniteSet(observations')
  BY <1>3, FS_AddElement DEF Chain, ObservationRows
<1>5. \A p \in observations : p.period = o.period =>
        /\ p.available < o.available
        /\ \E q \in observations' : q.supersedes = p.id
  <2>1. CASE o.supersedes = None
    BY <2>1 DEF AppendObservation, InitialVintageGuard
  <2>2. CASE o.supersedes # None
    <3>1. PICK t \in observations : /\ t.id = o.supersedes /\ t.period = o.period
                                    /\ t.available < o.available
      BY <2>2 DEF AppendObservation, RevisionGuard
    <3>2. \A q \in observations : q.supersedes # t.id
      BY <2>2, <3>1 DEF AppendObservation, RevisionGuard
    <3> SUFFICES ASSUME NEW p \in observations, p.period = o.period
                 PROVE  /\ p.available < o.available
                        /\ \E q \in observations' : q.supersedes = p.id
      OBVIOUS
    <3>3. p.available \in Nat /\ t.available \in Nat
      BY DEF Chain, ObservationRows
    <3>4. ~(t.available < p.available)
      BY <3>1, <3>2 DEF Chain
    <3>5. CASE p.available = t.available
      <4>1. p = t
        BY <3>1, <3>5 DEF Chain, ObservationRows
      <4> QED
        BY <1>3, <3>1, <4>1
    <3>6. CASE p.available < t.available
      <4>1. \E q \in observations : q.supersedes = p.id
        BY <3>1, <3>6 DEF Chain
      <4> QED
        BY <1>1, <1>3, <3>1, <3>3, <3>6, <4>1
    <3> QED
      BY <3>3, <3>4, <3>5, <3>6
  <2> QED
    BY <2>1, <2>2
<1>6. \A x \in observations' : /\ x.id \in Ids /\ x.period \in Periods
                               /\ x.available \in Nat /\ x.event = 0
  BY <1>1, <1>3 DEF Chain, ObservationRows
<1>7. ASSUME NEW x \in observations', NEW y \in observations',
             x.period = y.period, x.available = y.available
      PROVE  x = y
  <2>1. x \in observations /\ y \in observations => x = y
    BY <1>7 DEF Chain, ObservationRows
  <2> QED
    BY <1>3, <1>5, <1>6, <1>7, <2>1
<1>8. ASSUME NEW x \in observations', NEW y \in observations', x.id = y.id
      PROVE  x = y
  BY <1>2, <1>3, <1>8 DEF Chain
<1>9. ASSUME NEW x \in observations', NEW y \in observations',
             x.period = y.period, x.available < y.available
      PROVE  \E q \in observations' : q.supersedes = x.id
  <2>1. x \in observations
    <3>1. x = o /\ y \in observations => y.available < x.available
      BY <1>5, <1>9
    <3> QED
      BY <1>3, <1>6, <1>9, <3>1
  <2>2. CASE y = o
    BY <1>5, <1>9, <2>1, <2>2
  <2>3. CASE y \in observations
    BY <1>3, <1>9, <2>1, <2>3 DEF Chain
  <2> QED
    BY <1>3, <2>2, <2>3
<1> QED
  BY <1>4, <1>6, <1>7, <1>8, <1>9 DEF Chain, ObservationRows

LEMMA VTInvInit == VTInit => VTInv
<1> SUFFICES ASSUME VTInit PROVE VTInv
  OBVIOUS
<1>1. observations = {} /\ clock = 0
  BY DEF VTInit
<1> QED
  BY <1>1, FS_EmptySet DEF VTInv, Chain, ObservationRows

LEMMA VTInvStep == VTInv /\ [VTNext]_vtvars => VTInv'
<1> SUFFICES ASSUME VTInv, [VTNext]_vtvars PROVE VTInv'
  OBVIOUS
<1>1. CASE UNCHANGED vtvars
  BY <1>1 DEF VTInv, vtvars
<1>2. ASSUME NEW o \in Inputs, AppendObservation(o) PROVE VTInv'
  BY <1>2, ChainAppend DEF VTInv, AppendObservation
<1>3. ASSUME NEW id \in RawIds, NEW requested \in 0 .. clock, AppendRaw(id, requested)
      PROVE  VTInv'
  BY <1>3 DEF VTInv, AppendRaw
<1>4. CASE Tick
  BY <1>4 DEF VTInv, Tick
<1> QED
  BY <1>1, <1>2, <1>3, <1>4 DEF VTNext

LEMMA RowsSubset ==
  ASSUME NEW R, ObservationRows(R), NEW Q, Q \subseteq R
  PROVE  ObservationRows(Q)
<1>1. IsFiniteSet(Q)
  BY FS_Subset DEF ObservationRows
<1> QED
  BY <1>1 DEF ObservationRows

\* A period that has vintages has one that is later than all the others.
LEMMA LatestVintage ==
  ASSUME NEW R, ObservationRows(R), R # {}, \A o, p \in R : o.period = p.period
  PROVE  \E o \in R : \A p \in R \ {o} : LaterVintage(o, p)
<1> DEFINE before == {x \in R \X R : x[1].available < x[2].available}
<1>1. \A x, y \in R : <<x, y>> \in before <=> x.available < y.available
  OBVIOUS
<1>2. \A x \in R : x.available \in Nat
  BY DEF ObservationRows
<1>3. /\ IsFiniteSet(R)
      /\ \A x \in R : <<x, x>> \notin before
      /\ \A x, y, z \in R : <<x, y>> \in before /\ <<y, z>> \in before => <<x, z>> \in before
  BY <1>1, <1>2 DEF ObservationRows
<1> HIDE DEF before
<1>4. PICK o \in R : \A p \in R : <<o, p>> \notin before
  BY <1>3, TopElement
<1>5. ASSUME NEW p \in R \ {o} PROVE LaterVintage(o, p)
  <2>1. o.available # p.available
    BY <1>5 DEF ObservationRows
  <2>2. ~(o.available < p.available)
    BY <1>1, <1>4, <1>5
  <2> QED
    BY <1>2, <2>1, <2>2 DEF LaterVintage
<1> QED
  BY <1>5

\* A set of observations that is not empty has a latest one.
LEMMA LatestRow ==
  ASSUME NEW R, ObservationRows(R), R # {}
  PROVE  \E o \in R : \A p \in R \ {o} : Later(o, p)
<1> DEFINE before == {x \in R \X R : Later(x[2], x[1])}
<1>1. \A x, y \in R : <<x, y>> \in before <=> Later(y, x)
  OBVIOUS
<1>2. \A x \in R : /\ x.available \in Nat /\ x.period \in Int
                   /\ x.event = 0 /\ x.id \in Nat
  BY VintageAssumption DEF ObservationRows
<1>3. /\ IsFiniteSet(R)
      /\ \A x \in R : <<x, x>> \notin before
      /\ \A x, y, z \in R : <<x, y>> \in before /\ <<y, z>> \in before => <<x, z>> \in before
  <2> HIDE DEF before
  <2>1. \A x \in R : ~Later(x, x)
    BY <1>2 DEF Later
  <2>2. \A x, y, z \in R : Later(y, x) /\ Later(z, y) => Later(z, x)
    BY <1>2 DEF Later
  <2> QED
    BY <1>1, <2>1, <2>2 DEF ObservationRows
<1> HIDE DEF before
<1>4. PICK o \in R : \A p \in R : <<o, p>> \notin before
  BY <1>3, TopElement
<1>5. ASSUME NEW p \in R \ {o} PROVE Later(o, p)
  <2>1. o.available = p.available => o.period # p.period
    BY <1>5 DEF ObservationRows
  <2>2. ~Later(p, o)
    BY <1>1, <1>4, <1>5
  <2> QED
    BY <1>2, <2>1, <2>2 DEF Later
<1> QED
  BY <1>5

\* series never meets a conflict: it answers with the latest vintage of every
\* period.
LEMMA SeriesAnswers ==
  ASSUME VTInv, NEW c \in Nat, NEW f
  PROVE  Series(c, f) = {o \in Known(c, f) :
                           \A p \in OfPeriod(Known(c, f), o.period) \ {o} : LaterVintage(o, p)}
<1> DEFINE K == Known(c, f)
           newest == UNION {FirstOf(OfPeriod(K, q), LaterVintage) : q \in Periods}
<1>1. ObservationRows(K)
  BY RowsSubset DEF VTInv, Chain, Known
<1> HIDE DEF K
<1>2. newest = {o \in K : \A p \in OfPeriod(K, o.period) \ {o} : LaterVintage(o, p)}
  <2>1. ASSUME NEW o \in newest
        PROVE  o \in K /\ \A p \in OfPeriod(K, o.period) \ {o} : LaterVintage(o, p)
    <3>1. PICK q \in Periods : o \in FirstOf(OfPeriod(K, q), LaterVintage)
      OBVIOUS
    <3>2. /\ o \in OfPeriod(K, q)
          /\ \A p \in OfPeriod(K, q) \ {o} : LaterVintage(o, p)
      BY <3>1 DEF FirstOf
    <3>3. o \in K /\ o.period = q
      BY <3>2 DEF OfPeriod
    <3> QED
      BY <3>2, <3>3
  <2>2. ASSUME NEW o \in K, \A p \in OfPeriod(K, o.period) \ {o} : LaterVintage(o, p)
        PROVE  o \in newest
    <3>1. o.period \in Periods /\ o \in OfPeriod(K, o.period)
      BY <1>1 DEF ObservationRows, OfPeriod
    <3>2. o \in FirstOf(OfPeriod(K, o.period), LaterVintage)
      BY <2>2, <3>1 DEF FirstOf
    <3> QED
      BY <3>1, <3>2
  <2> HIDE DEF newest
  <2> QED
    BY <2>1, <2>2
<1>3. \A o \in newest : \A p \in OfPeriod(K, o.period) : p.available = o.available => p = o
  <2> HIDE DEF newest
  <2> QED
    BY <1>1, <1>2 DEF ObservationRows, OfPeriod
<1>4. Series(c, f) = newest
  BY <1>3 DEF Series, K
<1> QED
  BY <1>2, <1>4 DEF K

\* get_vintage answers with the latest vintage of its period,
LEMMA VintageAnswers ==
  ASSUME VTInv, NEW c \in Nat, NEW q
  PROVE  GetVintage(q, c) = {o \in History(q, c) :
                               \A p \in History(q, c) \ {o} : LaterVintage(o, p)}
<1> DEFINE H == History(q, c)
           first == FirstOf(H, LaterVintage)
           second == FirstOf(H \ first, LaterVintage)
<1>1. ObservationRows(H) /\ \A o, p \in H : o.period = p.period
  BY RowsSubset DEF VTInv, Chain, Known, History, OfPeriod
<1>2. H = OfPeriod(Known(c, None), q)
  BY DEF History
<1> HIDE DEF H
<1>3. first = {o \in H : \A p \in H \ {o} : LaterVintage(o, p)}
  BY DEF FirstOf
<1>4. second \subseteq H \ first
  BY DEF FirstOf
<1>5. ~\E o \in first, p \in second : o.available = p.available
  <2> SUFFICES ASSUME NEW o \in first, NEW p \in second, o.available = p.available
               PROVE  FALSE
    OBVIOUS
  <2>1. o \in H /\ p \in H /\ p \notin first
    BY <1>3, <1>4
  <2>2. o = p
    BY <1>1, <2>1 DEF ObservationRows
  <2> QED
    BY <2>1, <2>2
<1>6. GetVintage(q, c) = first
  BY <1>2, <1>5 DEF GetVintage
<1> QED
  BY <1>3, <1>6 DEF H

\* and get_latest with the latest observation.
LEMMA LatestAnswers ==
  ASSUME VTInv, NEW c \in Nat, NEW f
  PROVE  GetLatest(c, f) = {o \in Known(c, f) : \A p \in Known(c, f) \ {o} : Later(o, p)}
<1> DEFINE K == Known(c, f)
           first == FirstOf(K, Later)
           second == FirstOf(K \ first, Later)
<1>1. ObservationRows(K)
  BY RowsSubset DEF VTInv, Chain, Known
<1> HIDE DEF K
<1>2. first = {o \in K : \A p \in K \ {o} : Later(o, p)}
  BY DEF FirstOf
<1>3. second \subseteq K \ first
  BY DEF FirstOf
<1>4. ASSUME NEW o \in first, NEW p \in second,
             <<o.available, o.event, o.period>> = <<p.available, p.event, p.period>>
      PROVE  FALSE
  <2>1. o \in K /\ p \in K /\ p \notin first
    BY <1>2, <1>3
  <2>2. o.available = p.available /\ o.period = p.period
    BY <1>4
  <2>3. o = p
    BY <1>1, <2>1, <2>2 DEF ObservationRows
  <2> QED
    BY <2>1, <2>3
<1>5. GetLatest(c, f) = first
  <2>1. ~\E o \in first, p \in second :
            /\ <<o.available, o.event, o.period>> = <<p.available, p.event, p.period>>
            /\ ContentHash(o) # ContentHash(p)
    BY <1>4
  <2> QED
    BY <2>1 DEF GetLatest, K
<1> QED
  BY <1>2, <1>5 DEF K

LEMMA VTInvAnswers == VTInv => NeverAmbiguous
<1> SUFFICES ASSUME VTInv, NEW c \in Cutoffs
             PROVE  /\ \A f \in Filters :
                          /\ Known(c, f) # {} => Series(c, f) # {} /\ GetLatest(c, f) # {}
                          /\ GetLatest(c, f) \subseteq Series(c, f)
                    /\ \A q \in Periods :
                          /\ History(q, c) # {} => GetVintage(q, c) # {}
                          /\ GetVintage(q, c) = OfPeriod(Series(c, None), q)
  BY DEF NeverAmbiguous
<1>1. c \in Nat
  BY VintageAssumption DEF Cutoffs
<1>2. ASSUME NEW f \in Filters
      PROVE  /\ Known(c, f) # {} => Series(c, f) # {} /\ GetLatest(c, f) # {}
             /\ GetLatest(c, f) \subseteq Series(c, f)
  <2> DEFINE K == Known(c, f)
  <2>1. ObservationRows(K)
    BY RowsSubset DEF VTInv, Chain, Known
  <2>2. Series(c, f) = {o \in K : \A p \in OfPeriod(K, o.period) \ {o} : LaterVintage(o, p)}
    BY <1>1, SeriesAnswers
  <2>3. GetLatest(c, f) = {o \in K : \A p \in K \ {o} : Later(o, p)}
    BY <1>1, LatestAnswers
  <2> HIDE DEF K
  <2>4. GetLatest(c, f) \subseteq Series(c, f)
    <3> SUFFICES ASSUME NEW o \in K, \A p \in K \ {o} : Later(o, p),
                        NEW p \in OfPeriod(K, o.period) \ {o}
                 PROVE  LaterVintage(o, p)
      BY <2>2, <2>3
    <3>1. p \in K \ {o} /\ p.period = o.period
      BY DEF OfPeriod
    <3>2. o.available # p.available
      BY <2>1, <3>1 DEF ObservationRows
    <3> QED
      BY <3>1, <3>2 DEF Later, LaterVintage
  <2>5. K # {} => GetLatest(c, f) # {}
    BY <2>1, <2>3, LatestRow
  <2> QED
    BY <2>4, <2>5 DEF K
<1>3. ASSUME NEW q \in Periods
      PROVE  /\ History(q, c) # {} => GetVintage(q, c) # {}
             /\ GetVintage(q, c) = OfPeriod(Series(c, None), q)
  <2> DEFINE H == History(q, c)
             K == Known(c, None)
  <2>1. ObservationRows(H) /\ \A o, p \in H : o.period = p.period
    BY RowsSubset DEF VTInv, Chain, Known, History, OfPeriod
  <2>2. GetVintage(q, c) = {o \in H : \A p \in H \ {o} : LaterVintage(o, p)}
    BY <1>1, VintageAnswers
  <2>3. Series(c, None) = {o \in K : \A p \in OfPeriod(K, o.period) \ {o} : LaterVintage(o, p)}
    BY <1>1, SeriesAnswers
  <2>4. H = OfPeriod(K, q)
    BY DEF History
  <2> HIDE DEF H, K
  <2>5. H # {} => GetVintage(q, c) # {}
    BY <2>1, <2>2, LatestVintage
  <2>6. GetVintage(q, c) = OfPeriod(Series(c, None), q)
    BY <2>2, <2>3, <2>4 DEF OfPeriod
  <2> QED
    BY <2>5, <2>6 DEF H
<1> QED
  BY <1>2, <1>3

\* The triggers of migration 0008 and append (repositories.py), for any number
\* of observations, periods and instants: no query at a cutoff ever meets two
\* latest vintages; each answers whenever something was known, and the answers
\* agree with one another.
THEOREM QueriesAgree == VTSpec => []NeverAmbiguous
BY VTInvInit, VTInvStep, VTInvAnswers, PTL DEF VTSpec

\* What was known at a cutoff in the past is settled: an appended observation
\* is available no earlier than now.
LEMMA KnownStands ==
  ASSUME VTInv, [VTNext]_vtvars, NEW c \in 0 .. clock - 1, NEW f
  PROVE  Known(c, f)' = Known(c, f)
<1>1. CASE observations' = observations
  BY <1>1 DEF Known
<1>2. ASSUME NEW o \in Inputs, AppendObservation(o) PROVE Known(c, f)' = Known(c, f)
  <2>1. o.available >= clock /\ o.available \in Nat /\ clock \in Nat
    <3>1. o.ingested = clock /\ o.available \in Nat
      BY VintageAssumption DEF Inputs
    <3> QED
      BY <1>2, <3>1 DEF AppendObservation, ObservationOk, LowerBounds, VTInv
  <2>2. ~(o.available <= c)
    BY <2>1
  <2> QED
    BY <1>2, <2>2 DEF AppendObservation, Known
<1> QED
  BY <1>1, <1>2 DEF VTNext, vtvars, AppendRaw, Tick

\* No query is ever ambiguous, and once the clock is past a cutoff no append
\* alters what series or get_latest answers at that cutoff.
THEOREM AnswersLast == VTSpec => OneLastingAnswer
<1>1. ASSUME VTInv, [VTNext]_vtvars
      PROVE  [/\ NeverAmbiguous'
              /\ \A c \in 0 .. clock - 1 : \A f \in Filters :
                    /\ Series(c, f)' = Series(c, f)
                    /\ GetLatest(c, f)' = GetLatest(c, f)]_vtvars
  <2>1. ASSUME NEW c \in 0 .. clock - 1, NEW f \in Filters
        PROVE  /\ Series(c, f)' = Series(c, f)
               /\ GetLatest(c, f)' = GetLatest(c, f)
    <3>1. Known(c, f)' = Known(c, f)
      BY <1>1, KnownStands
    <3>2. Series(c, f)' = Series(c, f)
      BY <3>1 DEF Series
    <3>3. GetLatest(c, f)' = GetLatest(c, f)
      BY <3>1 DEF GetLatest
    <3> QED
      BY <3>2, <3>3
  <2>2. NeverAmbiguous'
    BY <1>1, VTInvStep, VTInvAnswers, PTL
  <2> QED
    BY <2>1, <2>2
<1> QED
  BY <1>1, VTInvInit, VTInvStep, PTL DEF VTSpec, OneLastingAnswer

-----------------------------------------------------------------------------
(* Windows of dates                                                        *)

LEMMA MinOfNumbers ==
  ASSUME NEW T, T \subseteq Nat, T # {}
  PROVE  Min(T) \in T /\ \A y \in T : Min(T) <= y
<1>1. \E n \in T : \A m \in T : n <= m
  BY SmallestNumber
<1> QED
  BY <1>1 DEF Min

LEMMA MaxOfInterval ==
  ASSUME NEW n \in Nat, n >= 2
  PROVE  Max(2 .. n) = n
<1>1. n \in 2 .. n /\ \A y \in 2 .. n : n >= y
  OBVIOUS
<1>2. \A x \in 2 .. n : (\A y \in 2 .. n : x >= y) => x = n
  BY <1>1
<1> QED
  BY <1>1, <1>2 DEF Max

LEMMA MaxWithOne ==
  ASSUME NEW n \in Nat
  PROVE  Max({1, n}) = IF n = 0 THEN 1 ELSE n
<1> DEFINE m == IF n = 0 THEN 1 ELSE n
<1>1. m \in {1, n} /\ \A y \in {1, n} : m >= y
  OBVIOUS
<1>2. \A x \in {1, n} : (\A y \in {1, n} : x >= y) => x = m
  OBVIOUS
<1> HIDE DEF m
<1>3. Max({1, n}) = m
  BY <1>1, <1>2 DEF Max
<1> QED
  BY <1>3 DEF m

LEMMA MinOfTwo ==
  ASSUME NEW a \in Nat, NEW b \in Nat
  PROVE  Min({a, b}) \in Nat
BY MinOfNumbers

\* The return dates after a cutoff, up to a date,
After(c, d) == {e \in 2 .. d : e > c}
\* are enough for a verdict,
Enough(c, d) ==
  /\ Cardinality(After(c, d)) >= Policy.minDays
  /\ Cardinality(RebalanceDates(After(c, d))) >= Policy.minRebalances
\* and the first date on which they are decides the window, however much of
\* the future there is to see.
FirstWindow(c, w) ==
  \E m \in Nat : /\ m >= 2 /\ m > c /\ Enough(c, m) /\ w = After(c, m)
                 /\ \A k \in Nat : (2 <= k /\ c < k /\ Enough(c, k)) => m <= k

LEMMA OneFirstWindow ==
  ASSUME NEW c \in Nat, NEW v, NEW w, FirstWindow(c, v), FirstWindow(c, w)
  PROVE  v = w
<1>1. PICK m \in Nat : /\ m >= 2 /\ m > c /\ Enough(c, m) /\ v = After(c, m)
                       /\ \A k \in Nat : (2 <= k /\ c < k /\ Enough(c, k)) => m <= k
  BY DEF FirstWindow
<1>2. PICK n \in Nat : /\ n >= 2 /\ n > c /\ Enough(c, n) /\ w = After(c, n)
                       /\ \A k \in Nat : (2 <= k /\ c < k /\ Enough(c, k)) => n <= k
  BY DEF FirstWindow
<1>3. m <= n /\ n <= m
  BY <1>1, <1>2
<1> QED
  BY <1>1, <1>2, <1>3

LEMMA CompletionIsFirst ==
  ASSUME NEW c \in Nat, NEW n \in Nat
  PROVE  LET windows == CompletionWindow({d \in 2 .. n : d > c}, Policy.minDays, Policy.minRebalances)
         IN  windows = {} \/ \E w : windows = {w} /\ FirstWindow(c, w)
<1> DEFINE future == {d \in 2 .. n : d > c}
           upTo(d) == {e \in future : e <= d}
           complete == {d \in future : /\ Cardinality(upTo(d)) >= Policy.minDays
                                       /\ Cardinality(RebalanceDates(upTo(d))) >= Policy.minRebalances}
           windows == CompletionWindow(future, Policy.minDays, Policy.minRebalances)
<1>1. windows = IF complete = {} THEN {} ELSE {upTo(Min(complete))}
  BY DEF CompletionWindow
<1>2. \A d \in future : upTo(d) = After(c, d)
  BY DEF After
<1>3. complete = {d \in future : Enough(c, d)}
  <2> HIDE DEF upTo, future
  <2> QED
    BY <1>2 DEF Enough
<1>4. ASSUME complete # {} PROVE FirstWindow(c, upTo(Min(complete)))
  <2> DEFINE m == Min(complete)
  <2>1. complete \subseteq Nat
    OBVIOUS
  <2>2. m \in complete /\ \A y \in complete : m <= y
    <3> HIDE DEF complete
    <3> QED
      BY <1>4, <2>1, MinOfNumbers
  <2> HIDE DEF m, complete
  <2>3. m \in Nat /\ m >= 2 /\ m > c /\ m <= n /\ m \in future /\ Enough(c, m)
    BY <1>3, <2>2
  <2>4. upTo(m) = After(c, m)
    BY <1>2, <2>3
  <2>5. ASSUME NEW k \in Nat, 2 <= k, c < k, Enough(c, k) PROVE m <= k
    <3>1. CASE k <= n
      <4>1. k \in future
        BY <2>5, <3>1
      <4>2. k \in complete
        BY <1>3, <2>5, <4>1
      <4> QED
        BY <2>2, <4>2
    <3>2. CASE ~(k <= n)
      BY <2>3, <3>2
    <3> QED
      BY <3>1, <3>2
  <2>6. FirstWindow(c, After(c, m))
    BY <2>3, <2>5 DEF FirstWindow
  <2> QED
    BY <2>4, <2>6 DEF m
<1> HIDE DEF complete, upTo
<1>5. windows = {} \/ \E w : windows = {w} /\ FirstWindow(c, w)
  BY <1>1, <1>4
<1> QED
  BY <1>5

\* The headline's window: it is the first MinimumDays of the holdout or it is
\* not there.
HeadlineDates == HoldoutStart .. HoldoutStart + MinimumDays - 1

LEMMA HeadlineIsFirst ==
  ASSUME NEW obs, NEW n \in Nat,
         NEW verified, verified = Continuity(obs, HoldoutStart .. n).verified,
         Cardinality(verified) >= MinimumDays
  PROVE  /\ HeadlineWindow(verified) = HeadlineDates
         /\ \A d \in HeadlineDates : Captured(obs, d)
<1> USE RunAssumption
<1> DEFINE dates == HoldoutStart .. n
           missed == {d \in dates : ~Captured(obs, d)}
<1>1. verified = {d \in dates : \A e \in missed : d < e}
  BY DEF Continuity
<1>2. \E t \in Nat : verified = HoldoutStart .. t /\ t <= n /\ HoldoutStart .. t \cap missed = {}
  <2>1. CASE missed = {}
    <3>1. verified = HoldoutStart .. n
      BY <1>1, <2>1
    <3>2. HoldoutStart .. n \cap missed = {}
      BY <2>1
    <3> HIDE DEF missed
    <3> QED
      BY <3>1, <3>2
  <2>2. CASE missed # {}
    <3>1. missed \subseteq Nat
      OBVIOUS
    <3> HIDE DEF missed
    <3>2. PICK m \in missed : \A e \in missed : m <= e
      BY <2>2, <3>1, SmallestNumber
    <3>3. m \in HoldoutStart .. n /\ m - 1 \in Nat
      BY <3>2 DEF missed
    <3>4. verified = HoldoutStart .. (m - 1)
      <4>1. \A d \in dates : (\A e \in missed : d < e) <=> d < m
        BY <3>1, <3>2, <3>3
      <4>2. verified = {d \in dates : d < m}
        BY <1>1, <4>1
      <4>3. ASSUME NEW a \in Int, NEW b \in Int, NEW k \in a .. b
            PROVE  {d \in a .. b : d < k} = a .. (k - 1)
        OBVIOUS
      <4>4. HoldoutStart \in Int /\ n \in Int
        OBVIOUS
      <4>5. {d \in HoldoutStart .. n : d < m} = HoldoutStart .. (m - 1)
        BY <3>3, <4>3, <4>4
      <4> QED
        BY <4>2, <4>5
    <3>5. HoldoutStart .. (m - 1) \cap missed = {}
      BY <3>1, <3>2, <3>3
    <3> QED
      BY <3>3, <3>4, <3>5
  <2> QED
    BY <2>1, <2>2
<1>3. PICK t \in Nat : verified = HoldoutStart .. t /\ t <= n /\ HoldoutStart .. t \cap missed = {}
  BY <1>2
<1>4. HoldoutStart + MinimumDays - 1 <= t
  <2>1. Cardinality(verified) = IF HoldoutStart > t THEN 0 ELSE t - HoldoutStart + 1
    BY <1>3, FS_Interval
  <2> QED
    BY <2>1
<1>5. \A d \in verified : Cardinality({e \in verified : e < d}) = d - HoldoutStart
  <2> SUFFICES ASSUME NEW d \in HoldoutStart .. t
               PROVE  Cardinality({e \in HoldoutStart .. t : e < d}) = d - HoldoutStart
    BY <1>3
  <2>1. {e \in HoldoutStart .. t : e < d} = HoldoutStart .. (d - 1)
    OBVIOUS
  <2>2. d - 1 \in Int /\ HoldoutStart \in Int
    OBVIOUS
  <2>3. Cardinality(HoldoutStart .. (d - 1)) =
          IF HoldoutStart > d - 1 THEN 0 ELSE (d - 1) - HoldoutStart + 1
    BY <2>2, FS_Interval
  <2>4. Cardinality(HoldoutStart .. (d - 1)) = d - HoldoutStart
    BY <2>3
  <2> QED
    BY <2>1, <2>4
<1>6. HeadlineWindow(verified) = HeadlineDates
  <2>1. HeadlineWindow(verified) = {d \in verified : d - HoldoutStart < MinimumDays}
    BY <1>5 DEF HeadlineWindow, FirstDates
  <2>2. \A d : d \in verified /\ d - HoldoutStart < MinimumDays <=> d \in HeadlineDates
    BY <1>3, <1>4 DEF HeadlineDates
  <2> QED
    BY <2>1, <2>2
<1>7. \A d \in HeadlineDates : Captured(obs, d)
  BY <1>3, <1>4 DEF HeadlineDates
<1> QED
  BY <1>6, <1>7

-----------------------------------------------------------------------------
(* Planning                                                                *)

EvalStates == {"awaiting_prospective_observation", "historical_not_qualified",
               "prospective_collecting", "prospective_complete_awaiting_paper_infrastructure",
               "prospective_not_qualified", "evaluation_failed"}
EvalType == [run : Nat, passed : BOOLEAN, window : SUBSET Nat, revealed : BOOLEAN,
             seen : SUBSET Nat, costs : Nat, state : EvalStates]

\* What a registered hypothesis has to be for an evaluation to look at it.
Sensible(h) == h.symbols \subseteq Policy.symbols /\ h.long \in Nat

LedgerShape(led) ==
  /\ led = [weeks |-> led.weeks, cutoffs |-> led.cutoffs, evaluations |-> led.evaluations]
  /\ IsFiniteSet(Registered(led))
  /\ led.weeks \in [Registered(led) -> Nat]
  /\ led.cutoffs \in [DOMAIN led.cutoffs -> Nat]
  /\ led.evaluations \in [Registered(led) -> Seq(EvalType)]
  /\ \A h \in Registered(led) : Sensible(h)

\* Planning in a week has added n hypotheses to a ledger and left the rest of
\* it alone.
Grown(old, led, week, n) ==
  /\ LedgerShape(led)
  /\ led.cutoffs = old.cutoffs
  /\ Registered(old) \subseteq Registered(led)
  /\ \A h \in Registered(old) :
        led.weeks[h] = old.weeks[h] /\ led.evaluations[h] = old.evaluations[h]
  /\ \A h \in Registered(led) \ Registered(old) :
        led.weeks[h] = week /\ led.evaluations[h] = <<>>
  /\ Cardinality(Registered(led) \ Registered(old)) = n
  /\ Cardinality(Registered(led)) <= Policy.maxRegistered

LEMMA PolicyNumbers ==
  /\ Policy.maxWeek \in Nat \ {0} /\ Policy.maxRegistered \in Nat \ {0}
  /\ Policy.minDays \in Nat \ {0} /\ Policy.minRebalances \in Nat \ {0}
  /\ Policy.alpha \in Nat \ {0}
  /\ Policy.long \subseteq Nat
BY PolicyAssumption DEF ValidPolicy

\* HypothesisLedger.register adds one file and an empty directory.
LEMMA RegisterAdds ==
  ASSUME NEW led, LedgerShape(led), NEW h, h \notin Registered(led), Sensible(h), NEW week \in Nat
  PROVE  LET new == Register(led, h, week)
         IN  /\ LedgerShape(new)
             /\ new.cutoffs = led.cutoffs
             /\ Registered(new) = Registered(led) \cup {h}
             /\ new.weeks[h] = week /\ new.evaluations[h] = <<>>
             /\ \A g \in Registered(led) :
                   new.weeks[g] = led.weeks[g] /\ new.evaluations[g] = led.evaluations[g]
<1> DEFINE W == AddFile(led.weeks, h, week)
           E == AddFile(led.evaluations, h, <<>>)
           new == Register(led, h, week)
<1>1. new = [weeks |-> W, cutoffs |-> led.cutoffs, evaluations |-> E]
  <2>1. new = [led EXCEPT !.weeks = W, !.evaluations = E]
    BY DEF Register
  <2> HIDE DEF W, E, new
  <2> QED
    BY <2>1 DEF LedgerShape
<1>2. DOMAIN led.weeks = Registered(led) /\ DOMAIN led.evaluations = Registered(led)
  BY DEF LedgerShape, Registered
<1>3. W = [x \in Registered(led) \cup {h} |-> IF x = h THEN week ELSE led.weeks[x]]
  BY <1>2 DEF AddFile
<1>4. E = [x \in Registered(led) \cup {h} |-> IF x = h THEN <<>> ELSE led.evaluations[x]]
  BY <1>2 DEF AddFile
<1> HIDE DEF W, E, new
<1>5. new.weeks = W /\ new.cutoffs = led.cutoffs /\ new.evaluations = E
  BY <1>1
<1>6. Registered(new) = Registered(led) \cup {h}
  BY <1>3, <1>5 DEF Registered
<1>7. IsFiniteSet(Registered(new))
  BY <1>6, FS_AddElement DEF LedgerShape
<1>8. <<>> \in Seq(EvalType)
  OBVIOUS
<1>9. new.weeks \in [Registered(new) -> Nat]
  <2>1. \A x \in Registered(led) : led.weeks[x] \in Nat
    BY DEF LedgerShape
  <2> QED
    BY <1>3, <1>5, <1>6, <2>1
<1>10. new.evaluations \in [Registered(new) -> Seq(EvalType)]
  <2>1. \A x \in Registered(led) : led.evaluations[x] \in Seq(EvalType)
    BY DEF LedgerShape
  <2> HIDE DEF EvalType
  <2> QED
    BY <1>4, <1>5, <1>6, <1>8, <2>1
<1>11. LedgerShape(new)
  <2>1. new = [weeks |-> new.weeks, cutoffs |-> new.cutoffs, evaluations |-> new.evaluations]
    BY <1>1, <1>5
  <2>2. new.cutoffs \in [DOMAIN new.cutoffs -> Nat]
    BY <1>5 DEF LedgerShape
  <2>3. \A g \in Registered(new) : Sensible(g)
    BY <1>6 DEF LedgerShape
  <2> QED
    BY <1>7, <1>9, <1>10, <2>1, <2>2, <2>3 DEF LedgerShape
<1>12. /\ new.weeks[h] = week /\ new.evaluations[h] = <<>>
       /\ \A g \in Registered(led) :
             new.weeks[g] = led.weeks[g] /\ new.evaluations[g] = led.evaluations[g]
  BY <1>3, <1>4, <1>5
<1> QED
  BY <1>5, <1>6, <1>11, <1>12 DEF new

LEMMA RegisterGrows ==
  ASSUME NEW old, NEW led, NEW week \in Nat, NEW n \in Nat, Grown(old, led, week, n),
         Cardinality(Registered(led)) < Policy.maxRegistered,
         NEW h, h \notin Registered(led), Sensible(h)
  PROVE  Grown(old, Register(led, h, week), week, n + 1)
<1> DEFINE new == Register(led, h, week)
           R == Registered(led)
           O == Registered(old)
<1>1. /\ LedgerShape(new)
      /\ new.cutoffs = led.cutoffs
      /\ Registered(new) = R \cup {h}
      /\ new.weeks[h] = week /\ new.evaluations[h] = <<>>
      /\ \A g \in R : new.weeks[g] = led.weeks[g] /\ new.evaluations[g] = led.evaluations[g]
  BY RegisterAdds DEF Grown
<1>2. IsFiniteSet(R) /\ O \subseteq R /\ h \notin R
  BY DEF Grown, LedgerShape
<1> HIDE DEF new, R, O
<1>3. Cardinality(Registered(new)) = Cardinality(R) + 1 /\ Cardinality(R) \in Nat
  BY <1>1, <1>2, FS_AddElement, FS_CardinalityType
<1>4. Registered(new) \ O = (R \ O) \cup {h}
  BY <1>1, <1>2
<1>5. IsFiniteSet(R \ O)
  BY <1>2, FS_Difference
<1>6. Cardinality(Registered(new) \ O) = n + 1
  <2>1. Cardinality((R \ O) \cup {h}) = Cardinality(R \ O) + 1
    BY <1>2, <1>5, FS_AddElement
  <2>2. Cardinality(R \ O) = n
    BY DEF Grown, R, O
  <2> QED
    BY <1>4, <2>1, <2>2
<1>7. \A g \in O : new.weeks[g] = old.weeks[g] /\ new.evaluations[g] = old.evaluations[g]
  BY <1>1, <1>2 DEF Grown, R, O
<1>8. \A g \in Registered(new) \ O : new.weeks[g] = week /\ new.evaluations[g] = <<>>
  BY <1>1, <1>4 DEF Grown, R, O
<1>9. new.cutoffs = old.cutoffs /\ O \subseteq Registered(new)
  BY <1>1, <1>2 DEF Grown
<1>10. Cardinality(Registered(new)) <= Policy.maxRegistered
  BY <1>3, PolicyNumbers DEF R
<1> QED
  BY <1>1, <1>6, <1>7, <1>8, <1>9, <1>10 DEF Grown, new, O

\* Where the loop of plan_hypotheses is.
PlanState(old, week, remaining, acc) ==
  /\ acc = [led |-> acc.led, created |-> acc.created, stop |-> acc.stop]
  /\ acc.stop \in BOOLEAN /\ acc.created \in Nat /\ acc.created <= remaining
  /\ ~acc.stop => acc.created < remaining
  /\ Grown(old, acc.led, week, acc.created)

LEMMA PlanOneKeeps ==
  ASSUME NEW old, NEW week \in Nat, NEW remaining \in Nat, NEW acc,
         PlanState(old, week, remaining, acc), NEW p, NEW targets
  PROVE  PlanState(old, week, remaining, PlanOne(acc, p, week, remaining, targets))
<1> DEFINE h == HypothesisOf(p)
           skipped == \/ acc.stop \/ ~ProposalOK(p) \/ h \in Registered(acc.led)
                      \/ (h.family # Legacy /\ h.family \notin targets)
                      \/ StructuralNovelty(h, Registered(acc.led)) < Policy.novelty
           full == Cardinality(Registered(acc.led)) + acc.created >= Policy.maxRegistered
           next == PlanOne(acc, p, week, remaining, targets)
<1>1. next = IF skipped THEN acc
             ELSE IF full THEN [acc EXCEPT !.stop = TRUE]
             ELSE [led |-> Register(acc.led, h, week), created |-> acc.created + 1,
                   stop |-> acc.created + 1 >= remaining]
  BY DEF PlanOne
<1>2. CASE skipped
  BY <1>1, <1>2
<1>3. CASE ~skipped /\ full
  <2>1. next = [acc EXCEPT !.stop = TRUE]
    BY <1>1, <1>3
  <2>2. acc = [led |-> acc.led, created |-> acc.created, stop |-> acc.stop]
    BY DEF PlanState
  <2> HIDE DEF next, skipped, full
  <2>3. next = [led |-> acc.led, created |-> acc.created, stop |-> TRUE]
    BY <2>1, <2>2
  <2>4. next.led = acc.led /\ next.created = acc.created /\ next.stop = TRUE
    BY <2>3
  <2>5. PlanState(old, week, remaining, next)
    BY <2>3, <2>4 DEF PlanState
  <2> QED
    BY <2>5 DEF next
<1>4. CASE ~skipped /\ ~full
  <2>1. ~acc.stop /\ ProposalOK(p) /\ h \notin Registered(acc.led)
    BY <1>4
  <2>2. Sensible(h)
    <3>1. p.symbols \subseteq Policy.symbols /\ p.long \in Policy.long
      BY <2>1 DEF ProposalOK, LegacyConfigOK, FactorConfigOK, CommonConfigOK
    <3>2. h.symbols = p.symbols /\ h.long = p.long
      BY DEF HypothesisOf
    <3> QED
      BY <3>1, <3>2, PolicyNumbers DEF Sensible
  <2>3. acc.created \in Nat /\ acc.created < remaining /\ Grown(old, acc.led, week, acc.created)
    BY <2>1 DEF PlanState
  <2>4. Cardinality(Registered(acc.led)) < Policy.maxRegistered
    <3>1. Cardinality(Registered(acc.led)) \in Nat
      BY <2>3, FS_CardinalityType DEF Grown, LedgerShape
    <3> QED
      BY <1>4, <2>3, <3>1, PolicyNumbers
  <2> HIDE DEF h
  <2>5. Grown(old, Register(acc.led, h, week), week, acc.created + 1)
    BY <2>1, <2>2, <2>3, <2>4, RegisterGrows
  <2>6. next = [led |-> Register(acc.led, h, week), created |-> acc.created + 1,
                stop |-> acc.created + 1 >= remaining]
    BY <1>1, <1>4 DEF h
  <2> HIDE DEF next, skipped, full
  <2>7. /\ next.led = Register(acc.led, h, week) /\ next.created = acc.created + 1
        /\ next.stop = (acc.created + 1 >= remaining)
    BY <2>6
  <2>8. PlanState(old, week, remaining, next)
    <3>1. next = [led |-> next.led, created |-> next.created, stop |-> next.stop]
      BY <2>6, <2>7
    <3>2. /\ next.stop \in BOOLEAN /\ next.created \in Nat /\ next.created <= remaining
          /\ ~next.stop => next.created < remaining
      <4>1. next.created \in Nat /\ next.created <= remaining
        BY <2>3, <2>7
      <4>2. CASE acc.created + 1 >= remaining
        <5>1. next.stop = TRUE
          BY <2>7, <4>2
        <5> QED
          BY <4>1, <5>1
      <4>3. CASE ~(acc.created + 1 >= remaining)
        <5>1. next.stop = FALSE
          <6>1. (acc.created + 1 >= remaining) = FALSE
            BY <4>3
          <6> QED
            BY <2>7, <6>1, Zenon
        <5>2. next.created < remaining
          BY <2>3, <2>7, <4>3
        <5> QED
          BY <4>1, <5>1, <5>2
      <4> QED
        BY <4>2, <4>3
    <3>3. Grown(old, next.led, week, next.created)
      BY <2>5, <2>7
    <3> QED
      BY <3>1, <3>2, <3>3 DEF PlanState
  <2> QED
    BY <2>8 DEF next
<1> QED
  BY <1>2, <1>3, <1>4

\* The function that the fold of plan_hypotheses iterates: what the loop has
\* done after the proposals of a set of places.
IsPlan(g, led, week, remaining, proposals) ==
  g = [s \in SUBSET DOMAIN proposals |->
         IF s = {} THEN [led |-> led, created |-> 0, stop |-> FALSE]
         ELSE PlanOne(g[s \ {Max(s)}], proposals[Max(s)], week, remaining,
                      TargetFamilies(led, remaining))]

LEMMA PlanIsFold ==
  ASSUME NEW led, NEW week, NEW maxNew, NEW proposals
  PROVE  LET remaining == WeeklyRemaining(led, week, maxNew)
         IN  PlanHypotheses(led, week, maxNew, proposals) =
               IF \/ remaining = 0 \/ Cardinality(Registered(led)) >= Policy.maxRegistered
                  \/ Len(proposals) > PoolCount(remaining) THEN led
               ELSE (CHOOSE g : IsPlan(g, led, week, remaining, proposals))[DOMAIN proposals].led
BY DEF PlanHypotheses, FoldLeft, MapThenFoldSet, IsPlan

LEMMA MaxOfNumbers ==
  ASSUME NEW n \in Nat, NEW s \in SUBSET (1 .. n), s # {}
  PROVE  Max(s) \in s /\ \A y \in s : Max(s) >= y
<1> DEFINE T == {n - x : x \in s}
<1>1. T \subseteq Nat /\ T # {}
  <2>1. \A x \in s : x \in 1 .. n /\ n - x \in Nat
    OBVIOUS
  <2> QED
    BY <2>1
<1> HIDE DEF T
<1>2. PICK t \in T : \A u \in T : t <= u
  BY <1>1, SmallestNumber
<1>3. PICK x \in s : t = n - x
  BY <1>2 DEF T
<1>4. \A y \in s : n - y \in T
  BY DEF T
<1>5. \A y \in s : x >= y
  BY <1>2, <1>3, <1>4
<1> QED
  BY <1>5 DEF Max

\* There is such a function: it is built for ever larger sets of places.
LEMMA PlanExists ==
  ASSUME NEW led, NEW week, NEW remaining, NEW proposals, NEW len \in Nat,
         DOMAIN proposals = 1 .. len
  PROVE  \E g : IsPlan(g, led, week, remaining, proposals)
<1> DEFINE S == 1 .. len
           Small(n) == {s \in SUBSET S : Cardinality(s) <= n}
           Step(g, s) == IF s = {} THEN [led |-> led, created |-> 0, stop |-> FALSE]
                         ELSE PlanOne(g[s \ {Max(s)}], proposals[Max(s)], week, remaining,
                                      TargetFamilies(led, remaining))
           Good(n) == \E g : g = [s \in Small(n) |-> Step(g, s)]
           Bad == {n \in Nat : ~Good(n)}
<1>0. IsFiniteSet(S)
  BY FS_Interval
<1>1. \A s \in SUBSET S : /\ IsFiniteSet(s) /\ Cardinality(s) \in Nat
                          /\ Cardinality(s) = 0 <=> s = {}
                          /\ Cardinality(s) <= Cardinality(S)
  BY <1>0, FS_Subset, FS_CardinalityType, FS_EmptySet
<1>2. \A s \in SUBSET S : s # {} => Cardinality(s \ {Max(s)}) = Cardinality(s) - 1
  <2> TAKE s \in SUBSET S
  <2> HAVE s # {}
  <2>1. Max(s) \in s
    BY MaxOfNumbers
  <2> QED
    BY <1>1, <2>1, FS_RemoveElement
<1>3. Good(0)
  <2> DEFINE g == [s \in {{}} |-> [led |-> led, created |-> 0, stop |-> FALSE]]
  <2>1. Small(0) = {{}}
    BY <1>1
  <2>2. g = [s \in Small(0) |-> Step(g, s)]
    BY <2>1
  <2> QED
    BY <2>2
<1>4. ASSUME NEW n \in Nat, Good(n) PROVE Good(n + 1)
  <2>1. PICK g : g = [s \in Small(n) |-> Step(g, s)]
    BY <1>4
  <2> DEFINE h == [s \in Small(n + 1) |-> Step(g, s)]
  <2>2. \A s \in Small(n + 1) : s # {} => s \ {Max(s)} \in Small(n)
    <3> TAKE s \in Small(n + 1)
    <3> HAVE s # {}
    <3>1. Cardinality(s) \in Nat /\ Cardinality(s) <= n + 1
      BY <1>1
    <3>2. Cardinality(s \ {Max(s)}) = Cardinality(s) - 1
      BY <1>2
    <3>3. s \ {Max(s)} \in SUBSET S
      OBVIOUS
    <3> QED
      BY <3>1, <3>2, <3>3
  <2>3. Small(n) \subseteq Small(n + 1)
    BY <1>1
  <2>4. \A s \in Small(n) : h[s] = g[s]
    <3> HIDE DEF Step
    <3> QED
      BY <2>1, <2>3
  <2>5. \A s \in Small(n + 1) : Step(g, s) = Step(h, s)
    <3> TAKE s \in Small(n + 1)
    <3> DEFINE t == s \ {Max(s)}
    <3>1. s # {} => h[t] = g[t]
      BY <2>2, <2>4
    <3> HIDE DEF h, Small
    <3> QED
      BY <3>1
  <2>6. h = [s \in Small(n + 1) |-> Step(h, s)]
    BY <2>5
  <2> QED
    BY <2>6
<1>5. Bad = {}
  <2> SUFFICES ASSUME Bad # {} PROVE FALSE
    OBVIOUS
  <2>1. Bad \subseteq Nat /\ \A n \in Nat : n \in Bad <=> ~Good(n)
    OBVIOUS
  <2> HIDE DEF Bad, Good
  <2>2. PICK n \in Bad : \A m \in Bad : n <= m
    BY <2>1, SmallestNumber
  <2>3. n # 0
    BY <1>3, <2>1, <2>2
  <2>4. n - 1 \in Nat /\ n - 1 \notin Bad
    BY <2>1, <2>2, <2>3
  <2>5. Good(n - 1)
    BY <2>1, <2>4
  <2>6. Good((n - 1) + 1)
    BY <1>4, <2>4, <2>5
  <2>7. (n - 1) + 1 = n
    BY <2>1, <2>2
  <2> QED
    BY <2>1, <2>2, <2>6, <2>7
<1>6. Good(Cardinality(S))
  <2>1. Cardinality(S) \in Nat
    BY <1>1
  <2>2. \A n \in Nat : n \notin Bad => Good(n)
    OBVIOUS
  <2> HIDE DEF Bad, Good
  <2> QED
    BY <1>5, <2>1, <2>2
<1>7. Small(Cardinality(S)) = SUBSET S
  BY <1>1
<1>8. PICK g : g = [s \in Small(Cardinality(S)) |-> Step(g, s)]
  BY <1>6
<1>9. g = [s \in SUBSET S |-> Step(g, s)]
  BY <1>7, <1>8
<1>10. IsPlan(g, led, week, remaining, proposals)
  BY <1>9 DEF IsPlan
<1> QED
  BY <1>10

\* The loop keeps its state after every proposal.
LEMMA PlanLoop ==
  ASSUME NEW led, NEW week \in Nat, NEW remaining \in Nat \ {0}, NEW proposals, NEW len \in Nat,
         DOMAIN proposals = 1 .. len, Grown(led, led, week, 0),
         NEW g, IsPlan(g, led, week, remaining, proposals)
  PROVE  PlanState(led, week, remaining, g[1 .. len])
<1> DEFINE Good(k) == PlanState(led, week, remaining, g[1 .. k])
           Bad == {k \in 0 .. len : ~Good(k)}
<1>1. Good(0)
  <2>1. 1 .. 0 = {} /\ {} \in SUBSET DOMAIN proposals
    OBVIOUS
  <2>2. g[{}] = [led |-> led, created |-> 0, stop |-> FALSE]
    BY <2>1 DEF IsPlan
  <2>3. PlanState(led, week, remaining, [led |-> led, created |-> 0, stop |-> FALSE])
    BY DEF PlanState
  <2> QED
    BY <2>1, <2>2, <2>3
<1>2. ASSUME NEW k \in 1 .. len, Good(k - 1) PROVE Good(k)
  <2> DEFINE s == 1 .. k
  <2>1. s \in SUBSET DOMAIN proposals /\ s # {}
    <3>1. 1 .. k \subseteq 1 .. len /\ k \in 1 .. k
      OBVIOUS
    <3> QED
      BY <3>1
  <2>2. Max(s) = k
    <3>1. k \in s /\ \A y \in s : k >= y
      OBVIOUS
    <3>2. \A x \in s : (\A y \in s : x >= y) => x = k
      BY <3>1
    <3> QED
      BY <3>1, <3>2 DEF Max
  <2>3. s \ {k} = 1 .. (k - 1)
    OBVIOUS
  <2> HIDE DEF s
  <2>4. g[s] = PlanOne(g[s \ {Max(s)}], proposals[Max(s)], week, remaining,
                       TargetFamilies(led, remaining))
    BY <2>1 DEF IsPlan
  <2>5. g[s] = PlanOne(g[1 .. (k - 1)], proposals[k], week, remaining,
                       TargetFamilies(led, remaining))
    BY <2>2, <2>3, <2>4
  <2>6. PlanState(led, week, remaining, g[s])
    BY <1>2, <2>5, PlanOneKeeps
  <2> QED
    BY <2>6 DEF s
<1>3. Bad = {}
  <2> SUFFICES ASSUME Bad # {} PROVE FALSE
    OBVIOUS
  <2>1. Bad \subseteq Nat /\ Bad \subseteq 0 .. len /\ \A k \in 0 .. len : k \in Bad <=> ~Good(k)
    OBVIOUS
  <2> HIDE DEF Bad, Good
  <2>2. PICK k \in Bad : \A m \in Bad : k <= m
    BY <2>1, SmallestNumber
  <2>3. k # 0
    BY <1>1, <2>1, <2>2
  <2>4. k \in 1 .. len /\ k - 1 \in 0 .. len /\ k - 1 \notin Bad
    BY <2>1, <2>2, <2>3
  <2> QED
    BY <1>2, <2>1, <2>2, <2>4
<1> QED
  <2>1. len \in 0 .. len
    OBVIOUS
  <2> QED
    BY <1>3, <2>1

\* Planning adds no more than the week has left.
LEMMA PlanGrows ==
  ASSUME NEW led, LedgerShape(led), Cardinality(Registered(led)) <= Policy.maxRegistered,
         NEW week \in Nat, Cardinality(RegisteredThisWeek(led, week)) <= Policy.maxWeek,
         NEW maxNew \in Nat, NEW proposals, Len(proposals) \in Nat,
         DOMAIN proposals = 1 .. Len(proposals)
  PROVE  \E n \in Nat : /\ n <= Policy.maxWeek - Cardinality(RegisteredThisWeek(led, week))
                        /\ Grown(led, PlanHypotheses(led, week, maxNew, proposals), week, n)
<1> DEFINE c == Cardinality(RegisteredThisWeek(led, week))
           remaining == WeeklyRemaining(led, week, maxNew)
           new == PlanHypotheses(led, week, maxNew, proposals)
<1>1. c \in Nat
  <2>1. IsFiniteSet(RegisteredThisWeek(led, week))
    BY FS_Subset DEF LedgerShape, RegisteredThisWeek
  <2> QED
    BY <2>1, FS_CardinalityType
<1>2. remaining \in Nat /\ remaining <= Policy.maxWeek - c
  <2> DEFINE left == Policy.maxWeek - c
  <2>1. left \in Nat
    BY <1>1, PolicyNumbers
  <2>2. Max({0, left}) = left
    <3> HIDE DEF left
    <3>1. left \in {0, left} /\ \A y \in {0, left} : left >= y
      BY <2>1
    <3>2. \A x \in {0, left} : (\A y \in {0, left} : x >= y) => x = left
      BY <2>1
    <3> QED
      BY <3>1, <3>2 DEF Max
  <2>3. remaining = Min({left, maxNew})
    BY <2>2 DEF WeeklyRemaining
  <2> HIDE DEF left, remaining
  <2>4. remaining \in {left, maxNew} /\ \A y \in {left, maxNew} : remaining <= y
    BY <2>1, <2>3, MinOfNumbers
  <2>5. remaining \in Nat /\ remaining <= left
    BY <2>1, <2>4
  <2> QED
    BY <2>5 DEF left
<1>3. Grown(led, led, week, 0)
  <2>1. Registered(led) \ Registered(led) = {} /\ Cardinality({}) = 0
    BY FS_EmptySet
  <2> QED
    BY <2>1 DEF Grown
<1>4. CASE new = led
  <2>1. 0 <= Policy.maxWeek - c
    BY <1>1, PolicyNumbers
  <2> HIDE DEF c, new
  <2> QED
    BY <1>3, <1>4, <2>1 DEF c, new
<1>5. CASE new # led
  <2> DEFINE g == CHOOSE g : IsPlan(g, led, week, remaining, proposals)
  <2>1. remaining # 0 /\ new = g[DOMAIN proposals].led
    BY <1>5, PlanIsFold
  <2>2. IsPlan(g, led, week, remaining, proposals)
    <3>1. \E f : IsPlan(f, led, week, remaining, proposals)
      BY PlanExists
    <3> QED
      BY <3>1
  <2> HIDE DEF g, remaining, c, new
  <2>3. PlanState(led, week, remaining, g[1 .. Len(proposals)])
    BY <1>2, <1>3, <2>1, <2>2, PlanLoop
  <2> DEFINE n == g[1 .. Len(proposals)].created
  <2>4. n \in Nat /\ n <= remaining /\ Grown(led, new, week, n)
    BY <2>1, <2>3 DEF PlanState
  <2>5. n <= Policy.maxWeek - c
    BY <1>1, <1>2, <2>4, PolicyNumbers
  <2> HIDE DEF n
  <2> QED
    BY <2>4, <2>5 DEF c, new
<1> QED
  BY <1>4, <1>5

-----------------------------------------------------------------------------
(* Evaluations                                                             *)

\* An evaluation that passed a screen saw nothing after the cutoff of its
\* protocol; one that reveals evidence is about the first window after it.
Sealed(h, e, cutoffs) ==
  /\ e.passed => h \in DOMAIN cutoffs /\ \A d \in e.seen : d <= cutoffs[h]
  /\ e.window # {} => e.revealed
  /\ e.revealed => h \in DOMAIN cutoffs /\ FirstWindow(cutoffs[h], e.window)

\* A verdict, and what it says of the gates against a family of n hypotheses
\* and under its own costs.
Rejected(e) == e.revealed /\ e.state = "prospective_not_qualified"
Judged(h, e, n) == Rejected(e) => ~Qualifies(h, e.window, n, e.costs)
Cleared(h, e, n) == e.revealed /\ ~Rejected(e) => Qualifies(h, e.window, n, e.costs)

FamilySize(led) == Max({1, Cardinality(Registered(led))})

\* The ledger.  A rejection stands against the hypotheses of today: the family
\* only grows, so no later evaluation of the same window can pass under the
\* same costs.
LedgerInv(led) ==
  /\ LedgerShape(led)
  /\ \A h \in Registered(led) : \A k \in DOMAIN led.evaluations[h] :
        /\ Sealed(h, led.evaluations[h][k], led.cutoffs)
        /\ Judged(h, led.evaluations[h][k], FamilySize(led))
  /\ \A h \in Registered(led) : \A j, k \in DOMAIN led.evaluations[h] :
        (/\ j < k /\ Rejected(led.evaluations[h][j]) /\ led.evaluations[h][k].revealed
         /\ led.evaluations[h][j].costs = led.evaluations[h][k].costs) =>
           Rejected(led.evaluations[h][k])
  /\ Cardinality(Registered(led)) <= Policy.maxRegistered
  /\ \A w \in Nat : Cardinality(RegisteredThisWeek(led, w)) <= Policy.maxWeek

LEMMA LedgerInvInit == LedgerInv(EmptyLedger)
<1> DEFINE led == EmptyLedger
<1>1. /\ led.weeks = [h \in {} |-> 0] /\ led.cutoffs = [h \in {} |-> 0]
      /\ led.evaluations = [h \in {} |-> <<>>]
      /\ led = [weeks |-> led.weeks, cutoffs |-> led.cutoffs, evaluations |-> led.evaluations]
  BY DEF EmptyLedger
<1> HIDE DEF led
<1>2. Registered(led) = {}
  BY <1>1 DEF Registered
<1>3. \A w : RegisteredThisWeek(led, w) = {}
  BY <1>2 DEF RegisteredThisWeek
<1>4. IsFiniteSet({}) /\ Cardinality({}) = 0
  BY FS_EmptySet
<1>5. LedgerShape(led)
  BY <1>1, <1>2, <1>4 DEF LedgerShape
<1>6. /\ Cardinality(Registered(led)) <= Policy.maxRegistered
      /\ \A w \in Nat : Cardinality(RegisteredThisWeek(led, w)) <= Policy.maxWeek
  BY <1>2, <1>3, <1>4, PolicyNumbers
<1> QED
  BY <1>2, <1>5, <1>6 DEF LedgerInv, led

LEMMA FamilyIsNumber ==
  ASSUME NEW led, LedgerShape(led)
  PROVE  /\ FamilySize(led) \in Nat \ {0} /\ Cardinality(Registered(led)) \in Nat
         /\ FamilySize(led) = IF Cardinality(Registered(led)) = 0 THEN 1
                              ELSE Cardinality(Registered(led))
<1>1. Cardinality(Registered(led)) \in Nat
  BY FS_CardinalityType DEF LedgerShape
<1> QED
  BY <1>1, MaxWithOne DEF FamilySize

\* The p-value of a window that was revealed is a number.
LEMMA RawIsNumber ==
  ASSUME NEW h, NEW c \in Nat, NEW w, FirstWindow(c, w), NEW costs
  PROVE  RawP(h, w, costs) \in Nat
<1> DEFINE losing == {d \in w : Excess(h, d, costs) < 0}
<1>1. PICK m \in Nat : w = After(c, m)
  BY DEF FirstWindow
<1>2. IsFiniteSet(2 .. m)
  BY FS_Interval
<1>3. IsFiniteSet(losing)
  <2>1. losing \subseteq 2 .. m
    BY <1>1 DEF After
  <2> QED
    BY <1>2, <2>1, FS_Subset
<1> QED
  BY <1>3, FS_CardinalityType DEF RawP

\* What was rejected stays so against a larger family.
LEMMA JudgedStands ==
  ASSUME NEW h, NEW e, NEW cutoffs, cutoffs \in [DOMAIN cutoffs -> Nat], Sealed(h, e, cutoffs),
         NEW m \in Nat, NEW n \in Nat, m <= n, Judged(h, e, m)
  PROVE  Judged(h, e, n)
<1> DEFINE r == RawP(h, e.window, e.costs)
<1> SUFFICES ASSUME Rejected(e), PassesAdjustedTest(r, n) PROVE PassesAdjustedTest(r, m)
  BY DEF Judged, Qualifies
<1>1. h \in DOMAIN cutoffs /\ FirstWindow(cutoffs[h], e.window)
  BY DEF Rejected, Sealed
<1>2. cutoffs[h] \in Nat
  BY <1>1
<1>3. r \in Nat
  BY <1>1, <1>2, RawIsNumber
<1> HIDE DEF r
<1>4. r * n <= Policy.alpha
  BY DEF PassesAdjustedTest
<1>5. r * m <= r * n /\ r * m \in Nat /\ r * n \in Nat
  <2>1. r * n = r * m + r * (n - m) /\ n - m \in Nat
    BY <1>3
  <2>2. \A x, y \in Nat : x * y \in Nat
    OBVIOUS
  <2>3. r * m \in Nat /\ r * n \in Nat /\ r * (n - m) \in Nat
    BY <1>3, <2>1, <2>2
  <2> QED
    BY <2>1, <2>3
<1>6. r * m <= Policy.alpha
  BY <1>4, <1>5, PolicyNumbers
<1> QED
  BY <1>6 DEF PassesAdjustedTest

\* plan_hypotheses leaves the evidence alone and the allowance is kept.
LEMMA PlanKeeps ==
  ASSUME NEW led, LedgerInv(led), NEW week \in Nat, NEW maxNew \in Nat, NEW proposals,
         Len(proposals) \in Nat, DOMAIN proposals = 1 .. Len(proposals)
  PROVE  LET new == PlanHypotheses(led, week, maxNew, proposals)
         IN  LedgerInv(new) /\ Registered(led) \subseteq Registered(new)
<1> DEFINE new == PlanHypotheses(led, week, maxNew, proposals)
<1>1. PICK n \in Nat : /\ n <= Policy.maxWeek - Cardinality(RegisteredThisWeek(led, week))
                       /\ Grown(led, new, week, n)
  BY PlanGrows DEF LedgerInv
<1> HIDE DEF new
<1>2. /\ LedgerShape(led) /\ LedgerShape(new) /\ new.cutoffs = led.cutoffs
      /\ Registered(led) \subseteq Registered(new)
      /\ Cardinality(Registered(new)) <= Policy.maxRegistered
  BY <1>1 DEF Grown, LedgerInv
<1>3. FamilySize(led) \in Nat /\ FamilySize(new) \in Nat /\ FamilySize(led) <= FamilySize(new)
  <2>1. Cardinality(Registered(led)) <= Cardinality(Registered(new))
    BY <1>2, FS_Subset DEF LedgerShape
  <2>2. /\ FamilySize(led) \in Nat /\ Cardinality(Registered(led)) \in Nat
        /\ FamilySize(led) = IF Cardinality(Registered(led)) = 0 THEN 1
                             ELSE Cardinality(Registered(led))
    BY <1>2, FamilyIsNumber
  <2>3. /\ FamilySize(new) \in Nat /\ Cardinality(Registered(new)) \in Nat
        /\ FamilySize(new) = IF Cardinality(Registered(new)) = 0 THEN 1
                             ELSE Cardinality(Registered(new))
    BY <1>2, FamilyIsNumber
  <2> QED
    BY <2>1, <2>2, <2>3
<1>4. \A h \in Registered(new) :
        IF h \in Registered(led) THEN new.evaluations[h] = led.evaluations[h]
        ELSE new.evaluations[h] = <<>>
  BY <1>1 DEF Grown
<1>5. ASSUME NEW h \in Registered(new), NEW k \in DOMAIN new.evaluations[h]
      PROVE  h \in Registered(led) /\ new.evaluations[h] = led.evaluations[h]
  <2>1. DOMAIN << >> = {}
    OBVIOUS
  <2> QED
    BY <1>4, <1>5, <2>1
<1>6. ASSUME NEW h \in Registered(new), NEW k \in DOMAIN new.evaluations[h]
      PROVE  /\ Sealed(h, new.evaluations[h][k], new.cutoffs)
             /\ Judged(h, new.evaluations[h][k], FamilySize(new))
  <2>1. h \in Registered(led) /\ new.evaluations[h] = led.evaluations[h]
    BY <1>6, <1>5
  <2>2. /\ Sealed(h, new.evaluations[h][k], led.cutoffs)
        /\ Judged(h, new.evaluations[h][k], FamilySize(led))
    BY <1>6, <2>1 DEF LedgerInv
  <2>3. led.cutoffs \in [DOMAIN led.cutoffs -> Nat]
    BY <1>2 DEF LedgerShape
  <2> QED
    BY <1>2, <1>3, <2>2, <2>3, JudgedStands
<1>7. \A h \in Registered(new) : \A j, k \in DOMAIN new.evaluations[h] :
        (/\ j < k /\ Rejected(new.evaluations[h][j]) /\ new.evaluations[h][k].revealed
         /\ new.evaluations[h][j].costs = new.evaluations[h][k].costs) =>
           Rejected(new.evaluations[h][k])
  <2> SUFFICES ASSUME NEW h \in Registered(new), NEW j \in DOMAIN new.evaluations[h],
                      NEW k \in DOMAIN new.evaluations[h], j < k,
                      Rejected(new.evaluations[h][j]), new.evaluations[h][k].revealed,
                      new.evaluations[h][j].costs = new.evaluations[h][k].costs
               PROVE  Rejected(new.evaluations[h][k])
    OBVIOUS
  <2>1. h \in Registered(led) /\ new.evaluations[h] = led.evaluations[h]
    BY <1>5
  <2> QED
    BY <2>1 DEF LedgerInv
<1>8. ASSUME NEW w \in Nat PROVE Cardinality(RegisteredThisWeek(new, w)) <= Policy.maxWeek
  <2> DEFINE added == Registered(new) \ Registered(led)
             before == RegisteredThisWeek(led, w)
  <2>1. \A h \in Registered(led) : new.weeks[h] = led.weeks[h]
    BY <1>1 DEF Grown
  <2>2. \A h \in added : new.weeks[h] = week
    BY <1>1 DEF Grown
  <2>3. IsFiniteSet(added) /\ IsFiniteSet(before)
    BY <1>2, FS_Subset DEF LedgerShape, RegisteredThisWeek
  <2>4. Cardinality(before) \in Nat /\ Cardinality(before) <= Policy.maxWeek
    BY <2>3, FS_CardinalityType DEF LedgerInv
  <2>5. CASE w # week
    <3>1. RegisteredThisWeek(new, w) = before
      BY <1>2, <2>1, <2>2, <2>5 DEF RegisteredThisWeek
    <3> QED
      BY <2>4, <3>1
  <2>6. CASE w = week
    <3>1. RegisteredThisWeek(new, w) = before \cup added
      BY <1>2, <2>1, <2>2, <2>6 DEF RegisteredThisWeek
    <3>2. before \cap added = {}
      BY DEF RegisteredThisWeek
    <3>3. Cardinality(added) = n
      BY <1>1 DEF Grown
    <3> HIDE DEF added, before
    <3>4. Cardinality(before \cup added) = Cardinality(before) + Cardinality(added)
                                            - Cardinality(before \cap added)
      BY <2>3, FS_Union
    <3>5. Cardinality({}) = 0
      BY FS_EmptySet
    <3>6. n <= Policy.maxWeek - Cardinality(before)
      BY <1>1, <2>6 DEF before
    <3>7. Cardinality(RegisteredThisWeek(new, w)) = Cardinality(before) + (n - 0)
      <4>1. Cardinality(before \cap added) = 0
        BY <3>2, <3>5
      <4>2. Cardinality(RegisteredThisWeek(new, w)) = Cardinality(before \cup added)
        BY <3>1
      <4> QED
        BY <3>3, <3>4, <4>1, <4>2
    <3>8. \A a, b, m \in Nat : b <= m - a => a + (b - 0) <= m
      OBVIOUS
    <3>9. Policy.maxWeek \in Nat
      BY PolicyNumbers
    <3> QED
      BY <2>4, <3>6, <3>7, <3>8, <3>9
  <2> QED
    BY <2>5, <2>6
<1>9. LedgerInv(new)
  BY <1>2, <1>6, <1>7, <1>8 DEF LedgerInv
<1> QED
  BY <1>2, <1>9 DEF new

\* A protocol is registered before any evaluation of the hypothesis passed.
LEMMA ProtocolKeeps ==
  ASSUME NEW led, LedgerInv(led), NEW h \in Registered(led), h \notin DOMAIN led.cutoffs,
         NEW c \in Nat
  PROVE  LET new == RegisterProtocol(led, h, c)
         IN  /\ LedgerInv(new) /\ Registered(new) = Registered(led)
             /\ new.cutoffs = AddFile(led.cutoffs, h, c)
<1> DEFINE new == RegisterProtocol(led, h, c)
           C == AddFile(led.cutoffs, h, c)
<1>1. LedgerShape(led)
  BY DEF LedgerInv
<1>2. new = [led EXCEPT !.cutoffs = C]
  BY DEF RegisterProtocol
<1>3. C = [x \in DOMAIN led.cutoffs \cup {h} |-> IF x = h THEN c ELSE led.cutoffs[x]]
  BY DEF AddFile
<1> HIDE DEF new, C
<1>4. /\ new = [weeks |-> led.weeks, cutoffs |-> C, evaluations |-> led.evaluations]
      /\ new.weeks = led.weeks /\ new.cutoffs = C /\ new.evaluations = led.evaluations
  BY <1>1, <1>2 DEF LedgerShape
<1>5. /\ Registered(new) = Registered(led) /\ FamilySize(new) = FamilySize(led)
      /\ \A w : RegisteredThisWeek(new, w) = RegisteredThisWeek(led, w)
  BY <1>4 DEF Registered, FamilySize, RegisteredThisWeek
<1>6. C \in [DOMAIN C -> Nat]
  <2>1. \A x \in DOMAIN led.cutoffs : led.cutoffs[x] \in Nat
    BY <1>1 DEF LedgerShape
  <2> QED
    BY <1>3, <2>1
<1>7. LedgerShape(new)
  BY <1>1, <1>4, <1>5, <1>6 DEF LedgerShape
<1>8. ASSUME NEW g \in Registered(new), NEW k \in DOMAIN new.evaluations[g]
      PROVE  /\ Sealed(g, new.evaluations[g][k], C)
             /\ Judged(g, new.evaluations[g][k], FamilySize(new))
  <2> DEFINE e == led.evaluations[g][k]
  <2>1. Sealed(g, e, led.cutoffs) /\ Judged(g, e, FamilySize(led)) /\ e = new.evaluations[g][k]
    BY <1>4, <1>5, <1>8 DEF LedgerInv
  <2> HIDE DEF e
  <2>2. \A x \in DOMAIN led.cutoffs : x \in DOMAIN C /\ C[x] = led.cutoffs[x]
    BY <1>3
  <2>3. Sealed(g, e, C)
    BY <2>1, <2>2 DEF Sealed
  <2> QED
    BY <1>5, <2>1, <2>3
<1>9. LedgerInv(new)
  BY <1>4, <1>5, <1>7, <1>8 DEF LedgerInv
<1> QED
  BY <1>4, <1>5, <1>9 DEF new, C

\* An evaluation that is sound may be recorded: it comes after the others, and
\* where one of them rejected the hypothesis under the same costs it does so too.
LEMMA RecordKeeps ==
  ASSUME NEW led, LedgerInv(led), NEW h \in Registered(led), NEW e \in EvalType,
         Sealed(h, e, led.cutoffs), Judged(h, e, FamilySize(led)), Cleared(h, e, FamilySize(led))
  PROVE  LET new == RecordEvaluation(led, h, e)
         IN  /\ LedgerInv(new) /\ Registered(new) = Registered(led)
             /\ new.cutoffs = led.cutoffs
<1> DEFINE new == RecordEvaluation(led, h, e)
           E == led.evaluations
           F == [E EXCEPT ![h] = Append(E[h], e)]
<1>1. LedgerShape(led)
  BY DEF LedgerInv
<1>2. led = [weeks |-> led.weeks, cutoffs |-> led.cutoffs, evaluations |-> E]
  BY <1>1 DEF LedgerShape
<1>3. E \in [Registered(led) -> Seq(EvalType)]
  BY <1>1 DEF LedgerShape
<1>4. new = [led EXCEPT !.evaluations = F]
  BY <1>2, <1>3 DEF RecordEvaluation
<1> HIDE DEF new, F, E
<1>5. /\ new = [weeks |-> led.weeks, cutoffs |-> led.cutoffs, evaluations |-> F]
      /\ new.weeks = led.weeks /\ new.cutoffs = led.cutoffs /\ new.evaluations = F
  BY <1>2, <1>4
<1>6. /\ Registered(new) = Registered(led) /\ FamilySize(new) = FamilySize(led)
      /\ \A w : RegisteredThisWeek(new, w) = RegisteredThisWeek(led, w)
  BY <1>5 DEF Registered, FamilySize, RegisteredThisWeek
<1> DEFINE s == E[h]
           t == Append(s, e)
<1>7. s \in Seq(EvalType)
  BY <1>3
<1>8. F \in [Registered(led) -> Seq(EvalType)] /\ F[h] = t
      /\ \A g \in Registered(led) \ {h} : F[g] = E[g]
  <2> HIDE DEF EvalType
  <2>1. t \in Seq(EvalType)
    BY <1>7
  <2> QED
    BY <1>3, <2>1 DEF F
<1>9. /\ Len(s) \in Nat /\ DOMAIN s = 1 .. Len(s) /\ DOMAIN t = 1 .. (Len(s) + 1)
      /\ t[Len(s) + 1] = e /\ \A k \in 1 .. Len(s) : t[k] = s[k]
  <2> HIDE DEF EvalType, s
  <2> QED
    BY <1>7
<1>10. LedgerShape(new)
  BY <1>1, <1>5, <1>6, <1>8 DEF LedgerShape
<1> HIDE DEF s, t
<1>11. \A k \in DOMAIN s : Sealed(h, s[k], led.cutoffs) /\ Judged(h, s[k], FamilySize(led))
  BY DEF LedgerInv, s, E
<1>12. \A k \in DOMAIN t : Sealed(h, t[k], led.cutoffs) /\ Judged(h, t[k], FamilySize(led))
  BY <1>9, <1>11
<1>13. ASSUME NEW g \in Registered(new), NEW k \in DOMAIN F[g]
       PROVE  Sealed(g, F[g][k], led.cutoffs) /\ Judged(g, F[g][k], FamilySize(led))
  <2>1. CASE g = h
    BY <1>8, <1>12, <1>13, <2>1
  <2>2. CASE g # h
    <3>1. g \in Registered(led) /\ F[g] = E[g]
      BY <1>6, <1>8, <1>13, <2>2
    <3> QED
      BY <1>13, <3>1 DEF LedgerInv, E
  <2> QED
    BY <2>1, <2>2
<1>14. \A k \in DOMAIN s :
         Rejected(s[k]) /\ e.revealed /\ s[k].costs = e.costs => Rejected(e)
  <2> SUFFICES ASSUME NEW k \in DOMAIN s, Rejected(s[k]), e.revealed, s[k].costs = e.costs,
                      ~Rejected(e)
               PROVE  FALSE
    OBVIOUS
  <2>1. /\ Sealed(h, s[k], led.cutoffs)
        /\ ~Qualifies(h, s[k].window, FamilySize(led), s[k].costs)
    BY <1>11 DEF Judged
  <2>2. Qualifies(h, e.window, FamilySize(led), e.costs)
    BY DEF Cleared
  <2>3. /\ h \in DOMAIN led.cutoffs /\ FirstWindow(led.cutoffs[h], e.window)
        /\ FirstWindow(led.cutoffs[h], s[k].window)
    BY <2>1 DEF Sealed, Rejected
  <2>4. led.cutoffs[h] \in Nat
    BY <1>1, <2>3 DEF LedgerShape
  <2>5. e.window = s[k].window
    BY <2>3, <2>4, OneFirstWindow
  <2> QED
    BY <2>1, <2>2, <2>5
<1>15. ASSUME NEW g \in Registered(new), NEW j \in DOMAIN F[g], NEW k \in DOMAIN F[g], j < k,
              Rejected(F[g][j]), F[g][k].revealed, F[g][j].costs = F[g][k].costs
       PROVE  Rejected(F[g][k])
  <2>1. CASE g # h
    <3>1. g \in Registered(led) /\ F[g] = E[g]
      BY <1>6, <1>8, <1>15, <2>1
    <3> QED
      BY <1>15, <3>1 DEF LedgerInv, E
  <2>2. CASE g = h
    <3>1. /\ j \in 1 .. (Len(s) + 1) /\ k \in 1 .. (Len(s) + 1)
          /\ Rejected(t[j]) /\ t[k].revealed /\ t[j].costs = t[k].costs /\ F[g][k] = t[k]
      BY <1>8, <1>9, <1>15, <2>2
    <3>2. j \in 1 .. Len(s)
      BY <1>9, <1>15, <3>1
    <3>3. CASE k = Len(s) + 1
      BY <1>9, <1>14, <3>1, <3>2, <3>3
    <3>4. CASE k # Len(s) + 1
      <4>1. k \in 1 .. Len(s)
        BY <1>9, <3>1, <3>4
      <4>2. Rejected(s[k])
        BY <1>9, <1>15, <3>1, <3>2, <4>1 DEF LedgerInv, s, E
      <4> QED
        BY <1>9, <3>1, <4>1, <4>2
    <3> QED
      BY <3>3, <3>4
  <2> QED
    BY <2>1, <2>2
<1>16. LedgerInv(new)
  BY <1>5, <1>6, <1>10, <1>13, <1>15 DEF LedgerInv
<1> QED
  BY <1>5, <1>6, <1>16 DEF new

\* The last date that all the symbols of a hypothesis have is a number.
LEMMA CommonIsNumber ==
  ASSUME NEW points \in [Universe -> Nat], NEW h, Sensible(h)
  PROVE  LastCommon(points, h) \in Nat
<1> DEFINE T == {points[s] : s \in Required(h)}
<1>1. Required(h) \subseteq Universe /\ CashSymbol \in Required(h)
  BY RunAssumption DEF Required, Sensible
<1>2. T \subseteq Nat /\ T # {}
  BY <1>1
<1> HIDE DEF T
<1>3. Min(T) \in Nat
  BY <1>2, MinOfNumbers
<1> QED
  BY <1>3 DEF LastCommon, T

LEMMA VisiblePoints ==
  ASSUME NEW points \in [Universe -> Nat], NEW cutoff \in Nat
  PROVE  PointsThrough(points, cutoff) \in [Universe -> Nat]
<1>1. \A s \in Universe : (IF cutoff = 0 THEN points[s] ELSE Min({points[s], cutoff})) \in Nat
  BY MinOfTwo
<1>2. DOMAIN points = Universe
  OBVIOUS
<1> QED
  BY <1>1, <1>2 DEF PointsThrough

\* evaluate_hypothesis and evaluate_prospective_hypothesis: what Evaluate and
\* Record do with their results keeps the future sealed.
LEMMA EvaluationSound ==
  ASSUME NEW led, LedgerInv(led), NEW h \in Registered(led),
         NEW points \in [Universe -> Nat], NEW cutoff \in Nat, NEW family, NEW id \in Nat,
         NEW costs \in Nat, NEW luck
  PROVE  LET e == Evaluation(led, h, points, cutoff, family, costs, id, luck)
             new == IF e.passed /\ h \notin DOMAIN led.cutoffs
                    THEN RegisterProtocol(led, h, CutoffOf(e)) ELSE led
         IN  /\ e \in EvalType
             /\ LedgerInv(new) /\ Registered(new) = Registered(led)
             /\ Sealed(h, e, new.cutoffs) /\ Judged(h, e, family) /\ Cleared(h, e, family)
<1> DEFINE e == Evaluation(led, h, points, cutoff, family, costs, id, luck)
           new == IF e.passed /\ h \notin DOMAIN led.cutoffs
                  THEN RegisterProtocol(led, h, CutoffOf(e)) ELSE led
           visible == IF h \in DOMAIN led.cutoffs THEN PointsThrough(points, cutoff) ELSE points
           n == LastCommon(visible, h)
<1>1. LedgerShape(led) /\ Sensible(h)
  BY DEF LedgerInv, LedgerShape
<1>2. visible \in [Universe -> Nat]
  BY VisiblePoints
<1>3. n \in Nat
  <2> HIDE DEF visible
  <2> QED
    BY <1>1, <1>2, CommonIsNumber
<1>4. e = IF Raises(visible, h) THEN EvaluationFailed(id, costs)
          ELSE IF h \in DOMAIN led.cutoffs
          THEN EvaluateProspective(h, led.cutoffs[h], visible, family, costs, id)
          ELSE EvaluateHypothesis(h, visible, family, costs, id, luck)
  BY DEF Evaluation
<1> HIDE DEF e, visible
<1>5. CASE Raises(visible, h)
  <2>1. e = [run |-> id, passed |-> FALSE, window |-> {}, revealed |-> FALSE, seen |-> {},
             costs |-> costs, state |-> "evaluation_failed"]
    BY <1>4, <1>5 DEF EvaluationFailed
  <2>2. e \in EvalType /\ ~e.passed /\ ~e.revealed /\ e.window = {}
    BY <2>1 DEF EvalType, EvalStates
  <2>3. new = led
    BY <2>2
  <2> QED
    BY <2>2, <2>3 DEF Sealed, Judged, Cleared, Rejected, e
<1>6. CASE ~Raises(visible, h) /\ h \in DOMAIN led.cutoffs
  <2> DEFINE c == led.cutoffs[h]
             windows == CompletionWindow(FutureDates(visible, h, c), Policy.minDays,
                                         Policy.minRebalances)
             window == UNION windows
             verdict == IF windows = {} THEN "prospective_collecting"
                        ELSE IF Qualifies(h, window, family, costs)
                        THEN "prospective_complete_awaiting_paper_infrastructure"
                        ELSE "prospective_not_qualified"
  <2>1. e = [run |-> id, passed |-> TRUE, window |-> window, revealed |-> windows # {},
             seen |-> {}, costs |-> costs, state |-> verdict]
    BY <1>4, <1>6 DEF EvaluateProspective
  <2>2. c \in Nat
    BY <1>1, <1>6 DEF LedgerShape
  <2>3. FutureDates(visible, h, c) = {d \in 2 .. n : d > c}
    BY DEF FutureDates, ReturnDates
  <2> HIDE DEF n, c
  <2>4. windows = {} \/ \E w : windows = {w} /\ FirstWindow(c, w)
    BY <1>3, <2>2, <2>3, CompletionIsFirst
  <2> HIDE DEF windows
  <2>5. windows # {} => FirstWindow(c, window)
    BY <2>4
  <2>6. window \subseteq Nat /\ (window # {} => windows # {})
    <3>1. \A w : FirstWindow(c, w) => w \subseteq Nat
      BY DEF FirstWindow, After
    <3> QED
      BY <2>5, <3>1
  <2> HIDE DEF window
  <2>7. verdict \in EvalStates
    BY DEF EvalStates
  <2>8. /\ windows = {} => verdict = "prospective_collecting"
        /\ windows # {} => (verdict = "prospective_not_qualified"
                              <=> ~Qualifies(h, window, family, costs))
    OBVIOUS
  <2> HIDE DEF verdict
  <2>9. e \in EvalType
    <3>1. (windows # {}) \in BOOLEAN
      OBVIOUS
    <3> QED
      BY <2>1, <2>6, <2>7, <3>1 DEF EvalType
  <2>10. /\ e.seen = {} /\ e.window = window /\ e.state = verdict /\ e.costs = costs
         /\ e.revealed <=> windows # {}
    BY <2>1
  <2>11. new = led
    BY <1>6
  <2>12. Sealed(h, e, led.cutoffs)
    BY <1>6, <2>5, <2>6, <2>10 DEF Sealed, c
  <2>13. Judged(h, e, family) /\ Cleared(h, e, family)
    BY <2>8, <2>10 DEF Judged, Cleared, Rejected
  <2> QED
    BY <2>9, <2>11, <2>12, <2>13 DEF e
<1>7. CASE ~Raises(visible, h) /\ h \notin DOMAIN led.cutoffs
  <2>1. n >= 2
    BY <1>1, <1>3, <1>7 DEF Raises, Sensible
  <2>2. ReturnDates(visible, h) = 2 .. n
    BY DEF ReturnDates
  <2> HIDE DEF n
  <2>3. PICK p \in BOOLEAN, q \in EvalStates :
          e = [run |-> id, passed |-> p, window |-> {}, revealed |-> FALSE,
               seen |-> 2 .. n, costs |-> costs, state |-> q]
    <3> DEFINE folds == (Cardinality(2 .. n) - Policy.train) \div Policy.test
               passed == /\ folds >= Policy.minFolds
                         /\ EnoughFoldsOutperform(h, folds, costs)
                         /\ PassesAdjustedTest(RawP(h, 2 .. n, costs) + luck, family)
                         /\ SurvivesStress(h, 2 .. n, costs)
               outcome == IF passed THEN "awaiting_prospective_observation"
                          ELSE "historical_not_qualified"
    <3>1. e = [run |-> id, passed |-> passed, window |-> {}, revealed |-> FALSE,
               seen |-> 2 .. n, costs |-> costs, state |-> outcome]
      BY <1>4, <1>7, <2>2 DEF EvaluateHypothesis
    <3>2. passed \in BOOLEAN
      OBVIOUS
    <3>3. outcome \in EvalStates
      BY DEF EvalStates
    <3> HIDE DEF passed, outcome
    <3> QED
      BY <3>1, <3>2, <3>3
  <2>4. /\ e \in EvalType /\ e.seen = 2 .. n /\ e.window = {} /\ ~e.revealed
    <3>1. 2 .. n \subseteq Nat
      BY <1>3
    <3> QED
      BY <2>3, <3>1 DEF EvalType
  <2>5. CutoffOf(e) = n
    BY <1>3, <2>1, <2>4, MaxOfInterval DEF CutoffOf
  <2>6. CASE ~e.passed
    <3>1. new = led
      BY <2>6
    <3> QED
      BY <2>4, <2>6, <3>1 DEF Sealed, Judged, Cleared, Rejected, e
  <2>7. CASE e.passed
    <3>1. new = RegisterProtocol(led, h, n)
      BY <1>7, <2>5, <2>7
    <3>2. /\ LedgerInv(new) /\ Registered(new) = Registered(led)
          /\ new.cutoffs = AddFile(led.cutoffs, h, n)
      BY <1>3, <1>7, <3>1, ProtocolKeeps
    <3> HIDE DEF new
    <3>3. h \in DOMAIN new.cutoffs /\ new.cutoffs[h] = n
      BY <3>2 DEF AddFile
    <3>4. Sealed(h, e, new.cutoffs)
      BY <1>3, <2>4, <3>3 DEF Sealed
    <3> QED
      BY <2>4, <3>2, <3>4 DEF Judged, Cleared, Rejected, e, new
  <2> QED
    BY <2>6, <2>7
<1> QED
  BY <1>5, <1>6, <1>7

-----------------------------------------------------------------------------
(* The runs                                                                *)

\* A record that reveals the headline is about the first window of the
\* holdout, and each date of it was collected in time by a completed run.
RecordSound(record, obs) ==
  record.revealed => /\ record.window = HeadlineDates
                     /\ \A d \in HeadlineDates : Captured(obs, d)

\* The evaluation between its protocol and its file.
PendingSound(pending, led) ==
  \E h \in Registered(led), e \in EvalType :
     /\ pending = <<h, e>>
     /\ Sealed(h, e, led.cutoffs)
     /\ Judged(h, e, FamilySize(led)) /\ Cleared(h, e, FamilySize(led))

RunFields == {"id", "mode", "pc", "through", "previous", "advanced", "family", "costs",
              "todo", "pending", "record", "accepted"}
RunShape(r) == r = [f \in RunFields |-> r[f]]

\* The run in progress.  The hypotheses are planned before they are loaded, so
\* that the family of the correction is all of them until the run ends.
RunInv(r, led, obs) ==
  /\ RunShape(r)
  /\ r.id \in Nat /\ r.previous \in Nat /\ r.through \in Nat /\ r.mode \in {"daily", "weekly"}
  /\ r.todo \subseteq Registered(led)
  /\ r.costs \in Nat
  /\ r.pc = "evaluate" /\ r.todo # {} => r.family = FamilySize(led)
  /\ r.pending # <<>> => r.pc = "evaluate" /\ PendingSound(r.pending, led)
  /\ RecordSound(r.record, obs)

RRInv ==
  /\ day \in Nat \ {0} /\ vendor \in [Universe -> Nat] /\ runs \in Nat
  /\ LedgerInv(ledger)
  /\ \A o \in collections : o.state = "collected" => o.through \in Nat /\ o.at \in Nat
  /\ \A m \in {"daily", "weekly"} : latest[m].through \in Nat
  /\ latest = [m \in {"daily", "weekly"} |-> latest[m]]
  /\ run # NoRun => RunInv(run, ledger, collections)
  /\ \A p \in published : RecordSound(p.record, collections)

\* Evidence of a collection stays.
LEMMA CapturedStays ==
  ASSUME NEW obs, NEW more, obs \subseteq more, NEW record, RecordSound(record, obs)
  PROVE  RecordSound(record, more)
<1>1. Eligible(obs) \subseteq Eligible(more)
  BY DEF Eligible
<1>2. \A d : Captured(obs, d) => Captured(more, d)
  BY <1>1 DEF Captured
<1> QED
  BY <1>2 DEF RecordSound

LEMMA RecordIsSound ==
  ASSUME NEW obs, NEW points \in [Universe -> Nat], NEW asOf \in Nat
  PROVE  RecordSound(ExperimentRecord(obs, points, asOf), obs)
<1> DEFINE T == {PointsThrough(points, asOf)[s] : s \in Universe}
           common == Min(T)
           verified == Continuity(obs, HoldoutStart .. common).verified
           complete == Cardinality(verified) >= MinimumDays
           record == ExperimentRecord(obs, points, asOf)
<1>1. record.revealed = complete
      /\ record.window = IF complete THEN HeadlineWindow(verified) ELSE {}
  BY DEF ExperimentRecord
<1>2. common \in Nat
  <2>1. PointsThrough(points, asOf) \in [Universe -> Nat]
    BY VisiblePoints
  <2>2. CashSymbol \in Universe
    BY RunAssumption
  <2>3. T \subseteq Nat /\ T # {}
    BY <2>1, <2>2
  <2> HIDE DEF T
  <2> QED
    BY <2>3, MinOfNumbers
<1> HIDE DEF common
<1>3. complete => /\ HeadlineWindow(verified) = HeadlineDates
                  /\ \A d \in HeadlineDates : Captured(obs, d)
  BY <1>2, HeadlineIsFirst
<1> HIDE DEF verified, complete, record
<1>4. RecordSound(record, obs)
  BY <1>1, <1>3 DEF RecordSound
<1> QED
  BY <1>4 DEF record

LEMMA RRInvInit == RRInit => RRInv
<1> SUFFICES ASSUME RRInit PROVE RRInv
  OBVIOUS
<1>1. LedgerInv(ledger)
  BY LedgerInvInit DEF RRInit
<1>2. day \in Nat \ {0} /\ vendor \in [Universe -> Nat] /\ runs \in Nat
  BY RunAssumption DEF RRInit
<1>3. /\ \A m \in {"daily", "weekly"} : latest[m].through \in Nat
      /\ latest = [m \in {"daily", "weekly"} |-> latest[m]]
  BY DEF RRInit, NoRun
<1> QED
  BY <1>1, <1>2, <1>3 DEF RRInit, RRInv

\* Every action of a run, of the market and of the calendar keeps the invariant.
LEMMA RRInvStep == RRInv /\ [RRNext]_rrvars => RRInv'
<1> SUFFICES ASSUME RRInv, [RRNext]_rrvars PROVE RRInv'
  OBVIOUS
<1>0. /\ day \in Nat \ {0} /\ vendor \in [Universe -> Nat] /\ runs \in Nat
      /\ LedgerInv(ledger)
      /\ run # NoRun => RunInv(run, ledger, collections)
  BY DEF RRInv
\* A step of the run that leaves the ledger, the collections and the reports.
<1>a. ASSUME RunInv(run', ledger, collections),
             UNCHANGED <<day, vendor, ledger, collections, latest, runs, published>>
      PROVE  RRInv'
  BY <1>a DEF RRInv
<1>1. CASE UNCHANGED rrvars
  BY <1>1 DEF RRInv, rrvars
<1>2. CASE Tomorrow
  BY <1>2 DEF Tomorrow, RRInv
<1>3. ASSUME NEW ss \in Deliveries, VendorDelivers(ss) PROVE RRInv'
  <2>1. vendor' \in [Universe -> Nat]
    <3>1. day - 1 \in Nat
      BY <1>0
    <3> QED
      BY <1>0, <1>3, <3>1 DEF VendorDelivers
  <2> QED
    BY <1>3, <2>1 DEF VendorDelivers, RRInv
<1>4. ASSUME NEW mode \in {"daily", "weekly"}, StartRun(mode) PROVE RRInv'
  <2> DEFINE r == [id |-> runs + 1, mode |-> mode, pc |-> "collect", through |-> 0,
                   previous |-> 0, advanced |-> FALSE, family |-> 0, costs |-> 0, todo |-> {},
                   pending |-> <<>>, record |-> NoRecord, accepted |-> FALSE]
  <2>1. /\ RunShape(r) /\ r.id = runs + 1 /\ r.mode = mode /\ r.pc = "collect"
        /\ r.through = 0 /\ r.previous = 0 /\ r.costs = 0 /\ r.todo = {} /\ r.pending = <<>>
        /\ r.record = NoRecord
    BY DEF RunShape, RunFields
  <2>2. run' = r /\ runs' = runs + 1
        /\ UNCHANGED <<day, vendor, ledger, collections, latest, published>>
    BY <1>4 DEF StartRun
  <2> HIDE DEF r
  <2>3. RunInv(r, ledger, collections)
    BY <1>0, <2>1 DEF RunInv, RecordSound, NoRecord
  <2> QED
    BY <1>0, <2>2, <2>3 DEF RRInv
<1>5. CASE CollectTiingo
  <2> DEFINE T == {vendor[s] : s \in Universe}
             through == Min(T)
             previous == latest["daily"].through
  <2>1. through \in Nat
    <3>1. CashSymbol \in Universe
      BY RunAssumption
    <3>2. T \subseteq Nat /\ T # {}
      BY <1>0, <3>1
    <3> HIDE DEF T
    <3> QED
      BY <3>2, MinOfNumbers
  <2>2. previous \in Nat
    BY DEF RRInv
  <2>3. RunInv(run, ledger, collections) /\ RunShape(run) /\ run.pc = "collect"
    BY <1>0, <1>5 DEF CollectTiingo, At, RunInv
  <2>4. PICK x : run' = [run EXCEPT !.through = through, !.previous = previous,
                                    !.advanced = x, !.pc = "plan"]
    BY <1>5 DEF CollectTiingo
  <2> DEFINE o == [state |-> "collected", run |-> run.id, through |-> through, at |-> day]
  <2>5. /\ collections' = collections \cup {o}
        /\ UNCHANGED <<day, vendor, ledger, latest, runs, published>>
    BY <1>5 DEF CollectTiingo, AppendCollection
  <2>6. \A p \in collections' : p.state = "collected" => p.through \in Nat /\ p.at \in Nat
    <3>1. o.through \in Nat /\ o.at \in Nat
      BY <1>0, <2>1
    <3> HIDE DEF o
    <3> QED
      BY <2>5, <3>1 DEF RRInv
  <2> HIDE DEF through, previous, o
  <2>7. /\ RunShape(run') /\ run'.pc = "plan" /\ run'.id = run.id /\ run'.mode = run.mode
        /\ run'.previous = previous /\ run'.through = through /\ run'.costs = run.costs
        /\ run'.todo = run.todo /\ run'.pending = run.pending /\ run'.record = run.record
    BY <2>3, <2>4 DEF RunShape, RunFields
  <2>8. RunInv(run', ledger, collections')
    <3>1. RecordSound(run.record, collections')
      BY <2>3, <2>5, CapturedStays DEF RunInv
    <3> QED
      BY <2>1, <2>2, <2>3, <2>7, <3>1 DEF RunInv
  <2>9. \A p \in published : RecordSound(p.record, collections')
    BY <2>5, CapturedStays DEF RRInv
  <2> QED
    BY <2>5, <2>6, <2>8, <2>9 DEF RRInv
<1>6. CASE SkipTiingo
  <2>1. RunInv(run, ledger, collections) /\ run' = [run EXCEPT !.pc = "verify"]
        /\ run.pc = "collect"
    BY <1>0, <1>6 DEF SkipTiingo, At
  <2>2. RunInv(run', ledger, collections)
    BY <2>1 DEF RunInv, RunShape, RunFields
  <2> QED
    BY <1>6, <1>a, <2>2 DEF SkipTiingo
<1>7. ASSUME NEW proposals \in Answers, NEW maxNew \in {0, 1} \cup Overrides,
             Plan(proposals, maxNew)
      PROVE  RRInv'
  <2> DEFINE week == day \div DaysPerWeek
             pc == IF run.mode = "weekly" \/ run.advanced THEN "load" ELSE "verify"
  <2>1. week \in Nat
    BY <1>0, RunAssumption
  <2>2. maxNew \in Nat
    BY RunAssumption
  <2>3. Len(proposals) \in Nat /\ DOMAIN proposals = 1 .. Len(proposals)
    BY RunAssumption
  <2>4. /\ ledger' = PlanHypotheses(ledger, week, maxNew, proposals)
        /\ run' = [run EXCEPT !.pc = pc]
        /\ UNCHANGED <<day, vendor, collections, latest, runs, published>>
    BY <1>7 DEF Plan
  <2>5. RunInv(run, ledger, collections) /\ RunShape(run) /\ run.pc = "plan"
    BY <1>0, <1>7 DEF Plan, At, RunInv
  <2>6. pc # "evaluate"
    OBVIOUS
  <2> HIDE DEF week, pc
  <2>7. LedgerInv(ledger') /\ Registered(ledger) \subseteq Registered(ledger')
    BY <1>0, <2>1, <2>2, <2>3, <2>4, PlanKeeps
  <2>8. /\ RunShape(run') /\ run'.pc = pc /\ run'.id = run.id /\ run'.mode = run.mode
        /\ run'.previous = run.previous /\ run'.through = run.through /\ run'.costs = run.costs
        /\ run'.todo = run.todo /\ run'.pending = run.pending /\ run'.record = run.record
    BY <2>4, <2>5 DEF RunShape, RunFields
  <2>9. RunInv(run', ledger', collections)
    BY <2>5, <2>6, <2>7, <2>8 DEF RunInv
  <2> QED
    BY <2>4, <2>7, <2>9 DEF RRInv
<1>8. ASSUME NEW costs \in Costs, LoadHypotheses(costs) PROVE RRInv'
  <2> DEFINE todo == {h \in Registered(ledger) : /\ ~EvaluatedIn(ledger, h, run.id)
                                                /\ ~CarriedForward(ledger, h, run.mode)}
  <2>1. RunInv(run, ledger, collections) /\ RunShape(run) /\ run.pc = "load"
    BY <1>0, <1>8 DEF LoadHypotheses, At, RunInv
  <2>2. run' = [run EXCEPT !.todo = todo, !.family = FamilySize(ledger), !.costs = costs,
                            !.pc = "evaluate"]
    BY <1>8 DEF LoadHypotheses, FamilySize
  <2>3. todo \subseteq Registered(ledger) /\ costs \in Nat
    BY PolicyAssumption
  <2> HIDE DEF todo
  <2>4. /\ RunShape(run') /\ run'.pc = "evaluate" /\ run'.id = run.id /\ run'.mode = run.mode
        /\ run'.previous = run.previous /\ run'.through = run.through /\ run'.costs = costs
        /\ run'.family = FamilySize(ledger)
        /\ run'.todo = todo /\ run'.pending = run.pending /\ run'.record = run.record
    BY <2>1, <2>2 DEF RunShape, RunFields
  <2>5. RunInv(run', ledger, collections)
    BY <2>1, <2>3, <2>4 DEF RunInv
  <2> QED
    BY <1>8, <1>a, <2>5 DEF LoadHypotheses
<1>8a. CASE EvaluationFails
  <2>1. RunInv(run, ledger, collections) /\ RunShape(run)
    BY <1>0, <1>8a DEF EvaluationFails, At, RunInv
  <2>2. run' = [run EXCEPT !.todo = {}, !.pending = <<>>, !.family = 0, !.pc = "evaluate"]
    BY <1>8a DEF EvaluationFails
  <2>3. /\ RunShape(run') /\ run'.pc = "evaluate" /\ run'.id = run.id /\ run'.mode = run.mode
        /\ run'.previous = run.previous /\ run'.through = run.through /\ run'.costs = run.costs
        /\ run'.todo = {} /\ run'.pending = <<>> /\ run'.record = run.record
    BY <2>1, <2>2 DEF RunShape, RunFields
  <2>4. RunInv(run', ledger, collections)
    BY <2>1, <2>3 DEF RunInv
  <2> QED
    BY <1>8a, <1>a, <2>4 DEF EvaluationFails
<1>9. ASSUME run # NoRun, NEW h \in run.todo, NEW luck \in {0, 1}, Evaluate(h, luck)
      PROVE  RRInv'
  <2> DEFINE e == Evaluation(ledger, h, vendor, run.previous, run.family, run.costs, run.id, luck)
             new == IF e.passed /\ h \notin DOMAIN ledger.cutoffs
                    THEN RegisterProtocol(ledger, h, CutoffOf(e)) ELSE ledger
  <2>1. /\ RunInv(run, ledger, collections) /\ RunShape(run) /\ run.pc = "evaluate"
        /\ run.family = FamilySize(ledger) /\ run.previous \in Nat /\ run.id \in Nat
        /\ run.costs \in Nat /\ h \in Registered(ledger)
    BY <1>0, <1>9 DEF Evaluate, At, RunInv
  <2>2. /\ ledger' = new /\ run' = [run EXCEPT !.pending = <<h, e>>]
        /\ UNCHANGED <<day, vendor, collections, latest, runs, published>>
    BY <1>9 DEF Evaluate
  <2>3. /\ e \in EvalType
        /\ LedgerInv(new) /\ Registered(new) = Registered(ledger)
        /\ Sealed(h, e, new.cutoffs) /\ Judged(h, e, run.family) /\ Cleared(h, e, run.family)
    BY <1>0, <2>1, EvaluationSound
  <2> HIDE DEF e, new
  <2>4. FamilySize(new) = FamilySize(ledger)
    BY <2>3 DEF FamilySize
  <2>5. PendingSound(<<h, e>>, new)
    BY <2>1, <2>3, <2>4 DEF PendingSound
  <2>6. /\ RunShape(run') /\ run'.pc = run.pc /\ run'.id = run.id /\ run'.mode = run.mode
        /\ run'.previous = run.previous /\ run'.through = run.through /\ run'.costs = run.costs
        /\ run'.family = run.family
        /\ run'.todo = run.todo /\ run'.pending = <<h, e>> /\ run'.record = run.record
    BY <2>1, <2>2 DEF RunShape, RunFields
  <2>7. RunInv(run', new, collections)
    BY <2>1, <2>3, <2>4, <2>5, <2>6 DEF RunInv
  <2> QED
    BY <2>2, <2>3, <2>7 DEF RRInv
<1>10. CASE Record
  <2>1. /\ RunInv(run, ledger, collections) /\ RunShape(run) /\ run.pc = "evaluate"
        /\ run.todo # {} => run.family = FamilySize(ledger)
        /\ PendingSound(run.pending, ledger)
    BY <1>0, <1>10 DEF Record, At, RunInv
  <2>2. PICK h \in Registered(ledger), e \in EvalType :
          /\ run.pending = <<h, e>>
          /\ Sealed(h, e, ledger.cutoffs)
          /\ Judged(h, e, FamilySize(ledger)) /\ Cleared(h, e, FamilySize(ledger))
    BY <2>1 DEF PendingSound
  <2>3. run.pending[1] = h /\ run.pending[2] = e
    BY <2>2
  <2>4. /\ ledger' = IF EvaluatedIn(ledger, h, run.id) THEN ledger
                     ELSE RecordEvaluation(ledger, h, e)
        /\ run' = [run EXCEPT !.todo = run.todo \ {h}, !.pending = <<>>]
        /\ UNCHANGED <<day, vendor, collections, latest, runs, published>>
    BY <1>10, <2>3 DEF Record
  <2>5. LedgerInv(ledger') /\ Registered(ledger') = Registered(ledger)
    BY <1>0, <2>2, <2>4, RecordKeeps
  <2>6. FamilySize(ledger') = FamilySize(ledger)
    BY <2>5 DEF FamilySize
  <2>7. /\ RunShape(run') /\ run'.pc = run.pc /\ run'.id = run.id /\ run'.mode = run.mode
        /\ run'.previous = run.previous /\ run'.through = run.through /\ run'.costs = run.costs
        /\ run'.family = run.family
        /\ run'.todo = run.todo \ {h} /\ run'.pending = <<>> /\ run'.record = run.record
    BY <2>1, <2>4 DEF RunShape, RunFields
  <2>8. RunInv(run', ledger', collections)
    BY <2>1, <2>5, <2>6, <2>7 DEF RunInv
  <2> QED
    BY <2>4, <2>5, <2>8 DEF RRInv
<1>11. CASE RunStrategy
  <2> DEFINE record == ExperimentRecord(collections, vendor, run.previous)
  <2>1. /\ RunInv(run, ledger, collections) /\ RunShape(run) /\ run.pending = <<>>
        /\ run.previous \in Nat
    BY <1>0, <1>11 DEF RunStrategy, At, RunInv
  <2>2. run' = [run EXCEPT !.record = record, !.pc = "verify"]
    BY <1>11 DEF RunStrategy
  <2>3. RecordSound(record, collections)
    BY <1>0, <2>1, RecordIsSound
  <2> HIDE DEF record
  <2>4. /\ RunShape(run') /\ run'.pc = "verify" /\ run'.id = run.id /\ run'.mode = run.mode
        /\ run'.previous = run.previous /\ run'.through = run.through /\ run'.costs = run.costs
        /\ run'.todo = run.todo /\ run'.pending = run.pending /\ run'.record = record
    BY <2>1, <2>2 DEF RunShape, RunFields
  <2>5. RunInv(run', ledger, collections)
    BY <2>1, <2>3, <2>4 DEF RunInv
  <2> QED
    BY <1>11, <1>a, <2>5 DEF RunStrategy
\* The steps after the evaluation only move on.
<1>b. ASSUME NEW pc, pc # "evaluate", run # NoRun, run.pc # "evaluate",
             run' = [run EXCEPT !.pc = pc]
      PROVE  /\ RunInv(run', ledger, collections) /\ RunInv(run, ledger, collections)
             /\ run'.record = run.record
  <2>1. RunInv(run, ledger, collections) /\ RunShape(run) /\ run.pending = <<>>
    BY <1>0, <1>b DEF RunInv
  <2>2. /\ RunShape(run') /\ run'.pc = pc /\ run'.id = run.id /\ run'.mode = run.mode
        /\ run'.previous = run.previous /\ run'.through = run.through /\ run'.costs = run.costs
        /\ run'.todo = run.todo /\ run'.pending = run.pending /\ run'.record = run.record
    BY <1>b, <2>1 DEF RunShape, RunFields
  <2> QED
    BY <1>b, <2>1, <2>2 DEF RunInv
<1>12. CASE Verify
  <2> DEFINE pc == IF SnapshotAccepts(run.record) THEN "upload" ELSE "failed"
  <2>1. RunInv(run, ledger, collections) /\ RunShape(run) /\ run.pending = <<>>
    BY <1>0, <1>12 DEF Verify, At, RunInv
  <2>2. run' = [run EXCEPT !.accepted = SnapshotAccepts(run.record), !.pc = pc]
    BY <1>12 DEF Verify
  <2>3. pc # "evaluate"
    OBVIOUS
  <2> HIDE DEF pc
  <2>4. /\ RunShape(run') /\ run'.pc = pc /\ run'.id = run.id /\ run'.mode = run.mode
        /\ run'.previous = run.previous /\ run'.through = run.through /\ run'.costs = run.costs
        /\ run'.todo = run.todo /\ run'.pending = run.pending /\ run'.record = run.record
    BY <2>1, <2>2 DEF RunShape, RunFields
  <2>5. RunInv(run', ledger, collections)
    BY <2>1, <2>3, <2>4 DEF RunInv
  <2> QED
    BY <1>12, <1>a, <2>5 DEF Verify
<1>13. CASE Upload
  <2> DEFINE pc == IF run.mode = "daily" /\ ~run.advanced THEN "complete" ELSE "interpret"
  <2>1. /\ run' = [run EXCEPT !.pc = pc] /\ pc # "evaluate" /\ run # NoRun
        /\ run.pc # "evaluate"
        /\ published' = published \cup {[run |-> run.id, what |-> "report", record |-> run.record]}
        /\ UNCHANGED <<day, vendor, ledger, collections, latest, runs>>
    BY <1>13 DEF Upload, At
  <2> HIDE DEF pc
  <2>2. RunInv(run', ledger, collections) /\ RecordSound(run.record, collections)
    BY <1>b, <2>1 DEF RunInv
  <2> QED
    BY <2>1, <2>2 DEF RRInv
<1>14. ASSUME NEW answered \in BOOLEAN, Interpret(answered) PROVE RRInv'
  <2> DEFINE pc == IF answered \/ FallbackPoints <= MaxPoints THEN "mail" ELSE "failed"
  <2>1. /\ run' = [run EXCEPT !.pc = pc] /\ pc # "evaluate" /\ run # NoRun
        /\ run.pc # "evaluate"
    BY <1>14 DEF Interpret, At
  <2> HIDE DEF pc
  <2>2. RunInv(run', ledger, collections)
    BY <1>b, <2>1
  <2> QED
    BY <1>14, <1>a, <2>2 DEF Interpret
<1>15. CASE SendMail
  <2>1. /\ run' = [run EXCEPT !.pc = "record_mail"] /\ run # NoRun /\ run.pc # "evaluate"
        /\ \/ published' = published
           \/ published' = published \cup
                             {[run |-> run.id, what |-> "mail", record |-> run.record]}
        /\ UNCHANGED <<day, vendor, ledger, collections, latest, runs>>
    BY <1>15 DEF SendMail, At
  <2>2. RunInv(run', ledger, collections) /\ RecordSound(run.record, collections)
    BY <1>b, <2>1 DEF RunInv
  <2> QED
    BY <2>1, <2>2 DEF RRInv
<1>16. CASE RecordMail
  <2>1. run' = [run EXCEPT !.pc = "complete"] /\ run # NoRun /\ run.pc # "evaluate"
    BY <1>16 DEF RecordMail, At
  <2>2. RunInv(run', ledger, collections)
    BY <1>b, <2>1
  <2> QED
    BY <1>16, <1>a, <2>2 DEF RecordMail
<1>17. CASE CompleteRun
  <2> DEFINE o == [state |-> "run_completed", run |-> run.id, through |-> 0, at |-> 0]
  <2>1. /\ run' = [run EXCEPT !.pc = "link"] /\ run # NoRun /\ run.pc # "evaluate"
        /\ collections' = collections \cup {o}
        /\ UNCHANGED <<day, vendor, ledger, latest, runs, published>>
    BY <1>17 DEF CompleteRun, At, AppendCompletion
  <2>2. o.state # "collected"
    OBVIOUS
  <2> HIDE DEF o
  <2>3. RunInv(run', ledger, collections)
    BY <1>b, <2>1
  <2>4. RunInv(run', ledger, collections')
    BY <2>1, <2>3, CapturedStays DEF RunInv
  <2>5. \A p \in published : RecordSound(p.record, collections')
    BY <2>1, CapturedStays DEF RRInv
  <2> QED
    BY <2>1, <2>2, <2>4, <2>5 DEF RRInv
<1>18. CASE LinkLatest
  <2> DEFINE l == [id |-> run.id, through |-> run.through, accepted |-> run.accepted]
  <2>1. /\ latest' = [latest EXCEPT ![run.mode] = l] /\ run' = NoRun
        /\ UNCHANGED <<day, vendor, ledger, collections, runs, published>>
        /\ RunInv(run, ledger, collections)
    BY <1>0, <1>18 DEF LinkLatest, At
  <2>2. l.through \in Nat /\ run.mode \in {"daily", "weekly"}
    BY <2>1 DEF RunInv
  <2> HIDE DEF l
  <2>3. /\ \A m \in {"daily", "weekly"} : latest'[m].through \in Nat
        /\ latest' = [m \in {"daily", "weekly"} |-> latest'[m]]
    BY <2>1, <2>2 DEF RRInv
  <2> QED
    BY <2>1, <2>3 DEF RRInv
<1>19. CASE Abandon
  BY <1>19 DEF Abandon, RRInv
<1> QED
  BY <1>1, <1>2, <1>3, <1>4, <1>5, <1>6, <1>7, <1>8, <1>8a, <1>9, <1>10, <1>11, <1>12, <1>13,
     <1>14, <1>15, <1>16, <1>17, <1>18, <1>19 DEF RRNext

\* The theorems of the research runs.
LEMMA RRAlways == RRSpec => []RRInv
<1> QED
  BY RRInvInit, RRInvStep, PTL DEF RRSpec

LEMMA RRInvSealed == RRInv => FutureStaysSealed
<1> SUFFICES ASSUME RRInv PROVE FutureStaysSealed
  OBVIOUS
<1>1. LedgerInv(ledger) /\ LedgerShape(ledger)
  BY DEF RRInv, LedgerInv
<1>2. ASSUME NEW h \in Registered(ledger), NEW e \in EvaluationsOf(h)
      PROVE  e \in EvalType /\ Sealed(h, e, ledger.cutoffs)
  <2>1. PICK k \in DOMAIN ledger.evaluations[h] : e = ledger.evaluations[h][k]
    BY <1>2 DEF EvaluationsOf, ToSet
  <2>2. ledger.evaluations[h] \in Seq(EvalType)
    BY <1>1 DEF LedgerShape
  <2>3. e \in EvalType
    BY <2>1, <2>2, ElementOfSeq, DOMAIN ledger.evaluations[h] = 1 .. Len(ledger.evaluations[h])
  <2> QED
    BY <1>1, <2>1, <2>3 DEF LedgerInv
<1>3. PassedHasProtocol
  BY <1>2 DEF PassedHasProtocol, Sealed
<1>4. ASSUME NEW h \in Registered(ledger), NEW e \in EvaluationsOf(h), NEW f \in EvaluationsOf(h),
             e.passed
      PROVE  e.seen \cap f.window = {}
  <2>1. SUFFICES ASSUME NEW d \in e.seen, d \in f.window PROVE FALSE
    OBVIOUS
  <2>2. /\ h \in DOMAIN ledger.cutoffs /\ d <= ledger.cutoffs[h] /\ d \in Nat
    BY <1>2, <1>4, <2>1 DEF Sealed, EvalType
  <2>3. f.revealed /\ FirstWindow(ledger.cutoffs[h], f.window)
    BY <1>2, <2>1 DEF Sealed
  <2>4. d > ledger.cutoffs[h]
    BY <2>1, <2>3 DEF FirstWindow, After
  <2>5. ledger.cutoffs[h] \in Nat
    BY <1>1, <2>2 DEF LedgerShape
  <2> QED
    BY <2>2, <2>4, <2>5
<1>5. SealedWindow
  BY <1>4 DEF SealedWindow
<1> QED
  BY <1>3, <1>5 DEF FutureStaysSealed

LEMMA RRInvOnce == RRInv => RevealedOnce
<1> SUFFICES ASSUME RRInv PROVE RevealedOnce
  OBVIOUS
<1>1. LedgerInv(ledger) /\ LedgerShape(ledger)
  BY DEF RRInv, LedgerInv
<1>2. ASSUME NEW h \in Registered(ledger), NEW j \in DOMAIN ledger.evaluations[h],
             NEW k \in DOMAIN ledger.evaluations[h], j < k,
             ledger.evaluations[h][j].revealed, ledger.evaluations[h][k].revealed
      PROVE  /\ ledger.evaluations[h][j].window = ledger.evaluations[h][k].window
             /\ (/\ ledger.evaluations[h][j].state = "prospective_not_qualified"
                 /\ ledger.evaluations[h][j].costs = ledger.evaluations[h][k].costs) =>
                   ledger.evaluations[h][k].state = "prospective_not_qualified"
  <2> DEFINE e == ledger.evaluations[h][j]
             f == ledger.evaluations[h][k]
  <2>1. Sealed(h, e, ledger.cutoffs) /\ Sealed(h, f, ledger.cutoffs)
    BY <1>1 DEF LedgerInv
  <2>2. Rejected(e) /\ e.costs = f.costs => Rejected(f)
    BY <1>1, <1>2 DEF LedgerInv
  <2> HIDE DEF e, f
  <2>3. e.revealed /\ f.revealed
    BY <1>2 DEF e, f
  <2>4. /\ h \in DOMAIN ledger.cutoffs
        /\ FirstWindow(ledger.cutoffs[h], e.window) /\ FirstWindow(ledger.cutoffs[h], f.window)
    BY <2>1, <2>3 DEF Sealed
  <2>5. ledger.cutoffs[h] \in Nat
    BY <1>1, <2>4 DEF LedgerShape
  <2>6. e.window = f.window
    BY <2>4, <2>5, OneFirstWindow
  <2>7. e.state = "prospective_not_qualified" /\ e.costs = f.costs =>
           f.state = "prospective_not_qualified"
    BY <2>2, <2>3 DEF Rejected
  <2> QED
    BY <2>6, <2>7 DEF e, f
<1>3. NoSecondChance
  BY <1>2 DEF NoSecondChance
<1>4. ASSUME NEW d \in HeadlineDates, Captured(collections, d)
      PROVE  \E o \in collections :
                /\ o.state = "collected" /\ d <= o.through /\ o.at <= d + MaxLag
                /\ \E c \in collections : c.state = "run_completed" /\ c.run = o.run
  <2>1. PICK o \in Eligible(collections) : o.through >= d /\ o.at >= d /\ o.at - d <= MaxLag
    BY <1>4 DEF Captured
  <2>2. /\ o \in collections /\ o.state = "collected"
        /\ \E c \in collections : c.state = "run_completed" /\ c.run = o.run
    BY <2>1 DEF Eligible
  <2>3. o.through \in Nat /\ o.at \in Nat
    BY <2>2 DEF RRInv
  <2>4. d \in Int /\ MaxLag \in Nat
    BY RunAssumption DEF HeadlineDates
  <2>5. d <= o.through /\ o.at <= d + MaxLag
    BY <2>1, <2>3, <2>4
  <2> QED
    BY <2>2, <2>5
<1>5. HeadlineOnce
  <2>1. \A p \in published : p.record.revealed =>
           /\ p.record.window = HeadlineDates
           /\ \A d \in HeadlineDates : Captured(collections, d)
    BY DEF RRInv, RecordSound
  <2> QED
    BY <1>4, <2>1 DEF HeadlineOnce
<1> QED
  BY <1>3, <1>5 DEF RevealedOnce

LEMMA RRInvAllowance == RRInv => WithinAllowance
<1> SUFFICES ASSUME RRInv PROVE WithinAllowance
  OBVIOUS
<1>1. LedgerInv(ledger)
  BY DEF RRInv
<1>2. 0 .. (LastDay \div DaysPerWeek) \subseteq Nat
  BY RunAssumption
<1> QED
  BY <1>1, <1>2 DEF LedgerInv, WithinAllowance

\* Whatever is collected, planned, evaluated, abandoned and started again: a
\* screen that passed has its protocol on file, and no date a screen has seen
\* is in the window a later verdict is based on (register_prospective_protocol
\* before record_evaluation, and the strict cutoff of
\* evaluate_prospective_hypothesis).
THEOREM TheFutureStaysSealed == RRSpec => []FutureStaysSealed
<1> QED
  BY RRAlways, RRInvSealed, PTL

\* The verdicts on a hypothesis are about one window, one that was rejected
\* stays rejected under the same costs, and every published headline is about
\* the first window of the holdout, each date of it collected in time by a run
\* that completed.
THEOREM EvidenceIsRevealedOnce == RRSpec => []RevealedOnce
<1> QED
  BY RRAlways, RRInvOnce, PTL

\* However many runs of one week plan, and however many are abandoned, neither
\* the weekly limit nor the limit of registered hypotheses is exceeded
\* (plan_hypotheses).
THEOREM PlanningStaysWithinAllowance == RRSpec => []WithinAllowance
<1> QED
  BY RRAlways, RRInvAllowance, PTL

-----------------------------------------------------------------------------
(* The data lake                                                           *)

\* What a bundle is.
LEMMA BundleShape ==
  ASSUME NEW b \in Bundles
  PROVE  /\ b.pages \in Seq(SUBSET Nat) /\ Len(b.pages) \in Nat \ {0}
         /\ DOMAIN b.pages = 1 .. Len(b.pages)
         /\ BundleDates(b) \subseteq Nat /\ IsFiniteSet(BundleDates(b))
         /\ IsFiniteSet(b.adjustments) /\ b.adjustments # {}
<1>1. /\ b.pages \in Seq(SUBSET Nat) /\ b.pages # <<>>
      /\ \A k \in DOMAIN b.pages : IsFiniteSet(b.pages[k])
      /\ b.adjustments # {} /\ IsFiniteSet(b.adjustments)
  BY LakeAssumption
<1> DEFINE s == b.pages
<1>2. s \in Seq(SUBSET Nat) /\ s # <<>> /\ \A k \in DOMAIN s : IsFiniteSet(s[k])
  BY <1>1
<1> HIDE DEF s
<1>3. Len(s) \in Nat \ {0} /\ DOMAIN s = 1 .. Len(s) /\ \A k \in DOMAIN s : s[k] \in SUBSET Nat
  BY <1>2, EmptySeq
<1>4. Range(s) \subseteq SUBSET Nat /\ \A T \in Range(s) : IsFiniteSet(T)
  BY <1>2, <1>3 DEF Range
<1>5. s \in Surjection(DOMAIN s, Range(s))
  BY <1>2, <1>3 DEF Surjection, Range
<1>6. IsFiniteSet(DOMAIN s)
  <2>1. ASSUME NEW n \in Nat PROVE IsFiniteSet(1 .. n)
    <3>1. 1 \in Int /\ n \in Int
      OBVIOUS
    <3> QED
      BY <3>1, FS_Interval
  <2> QED
    BY <1>3, <2>1
<1>7. IsFiniteSet(Range(s))
  BY <1>5, <1>6, FS_Surjection
<1>8. IsFiniteSet(UNION Range(s))
  BY <1>4, <1>7, FS_UNION
<1>9. UNION Range(s) \subseteq Nat
  BY <1>4
<1> QED
  BY <1>1, <1>3, <1>8, <1>9 DEF s, BundleDates

\* A bar comes from one of the pages of its bundle.
LEMMA BarShape ==
  ASSUME NEW b \in Bundles, NEW fetch, NEW a \in b.adjustments, NEW d \in BundleDates(b)
  PROVE  /\ Bar(b, fetch, a, d).adjustment = a
         /\ Bar(b, fetch, a, d).date = d
         /\ \E k \in DOMAIN b.pages : Bar(b, fetch, a, d).raw = RawManifest(b, k, fetch)
<1> DEFINE s == {k \in DOMAIN b.pages : d \in b.pages[k]}
<1>1. DOMAIN b.pages = 1 .. Len(b.pages) /\ Len(b.pages) \in Nat
  BY BundleShape
<1>2. s # {} /\ s \in SUBSET (1 .. Len(b.pages))
  BY <1>1 DEF BundleDates, Range
<1> HIDE DEF s
<1>3. Max(s) \in s
  BY <1>1, <1>2, MaxOfNumbers
<1>4. Max(s) \in DOMAIN b.pages
  BY <1>3 DEF s
<1>5. Bar(b, fetch, a, d) = [adjustment |-> a, date |-> d, raw |-> RawManifest(b, Max(s), fetch)]
  BY DEF Bar, s
<1> QED
  BY <1>4, <1>5

LEMMA BarsShape ==
  ASSUME NEW b \in Bundles, NEW fetch, NEW r \in Bars(b, fetch)
  PROVE  /\ r.adjustment \in b.adjustments /\ r.date \in BundleDates(b)
         /\ r = Bar(b, fetch, r.adjustment, r.date)
         /\ \E k \in DOMAIN b.pages : r.raw = RawManifest(b, k, fetch)
<1>1. PICK a \in b.adjustments, d \in BundleDates(b) : r = Bar(b, fetch, a, d)
  BY DEF Bars
<1>2. r.adjustment = a /\ r.date = d /\ \E k \in DOMAIN b.pages : r.raw = RawManifest(b, k, fetch)
  BY <1>1, BarShape
<1> QED
  BY <1>1, <1>2

\* Every bar of the bundle is in the part of its adjustment and year.
LEMMA PartOfBar ==
  ASSUME NEW b \in Bundles, NEW fetch, NEW a \in b.adjustments, NEW d \in BundleDates(b)
  PROVE  /\ Part(b, fetch, a, d \div YearLength) \in BarParts(b, fetch)
         /\ Bar(b, fetch, a, d) \in Part(b, fetch, a, d \div YearLength).rows
<1>1. Bar(b, fetch, a, d) \in Bars(b, fetch)
  BY DEF Bars
<1>2. Bar(b, fetch, a, d).adjustment = a /\ Bar(b, fetch, a, d).date = d
  BY BarShape
<1>3. Bar(b, fetch, a, d) \in Part(b, fetch, a, d \div YearLength).rows
  BY <1>1, <1>2 DEF Part
<1>4. d \div YearLength \in Years(b)
  BY DEF Years
<1> QED
  BY <1>3, <1>4 DEF BarParts

\* A part: a group of bars that is not empty.
LEMMA PartShape ==
  ASSUME NEW b \in Bundles, NEW fetch, NEW p \in BarParts(b, fetch)
  PROVE  /\ p.layer = "silver" /\ p.source = b.source
         /\ \E a \in b.adjustments, y \in Years(b) : p = Part(b, fetch, a, y)
         /\ p.rows # {}
<1>1. PICK a \in b.adjustments, y \in Years(b) : p = Part(b, fetch, a, y)
  BY DEF BarParts
<1>2. PICK d \in BundleDates(b) : y = d \div YearLength
  BY DEF Years
<1>3. Bar(b, fetch, a, d) \in p.rows
  BY <1>1, <1>2, PartOfBar
<1>4. p.layer = "silver" /\ p.source = b.source
  BY <1>1 DEF Part
<1> QED
  BY <1>1, <1>3, <1>4

LEMMA PartsAreFinite ==
  ASSUME NEW b \in Bundles, NEW fetch
  PROVE  IsFiniteSet(BarParts(b, fetch))
<1>1. IsFiniteSet(BundleDates(b)) /\ IsFiniteSet(b.adjustments)
  BY BundleShape
<1> DEFINE g == [d \in BundleDates(b) |-> d \div YearLength]
<1>2. g \in Surjection(BundleDates(b), Years(b))
  BY DEF Surjection, Years
<1>3. IsFiniteSet(Years(b))
  BY <1>1, <1>2, FS_Surjection
<1> DEFINE h == [x \in b.adjustments \X Years(b) |-> Part(b, fetch, x[1], x[2])]
<1>4. IsFiniteSet(b.adjustments \X Years(b))
  BY <1>1, <1>3, FS_Product
<1>5. h \in [b.adjustments \X Years(b) -> BarParts(b, fetch)]
  BY DEF BarParts
<1>6. ASSUME NEW p \in BarParts(b, fetch)
      PROVE  \E x \in b.adjustments \X Years(b) : h[x] = p
  <2>1. PICK a \in b.adjustments, y \in Years(b) : p = Part(b, fetch, a, y)
    BY DEF BarParts
  <2>2. <<a, y>> \in b.adjustments \X Years(b) /\ h[<<a, y>>] = p
    BY <2>1
  <2> QED
    BY <2>2
<1>7. h \in Surjection(b.adjustments \X Years(b), BarParts(b, fetch))
  BY <1>5, <1>6 DEF Surjection
<1> QED
  BY <1>4, <1>7, FS_Surjection

\* The order of the parts has every part.
LEMMA OrderOfParts ==
  ASSUME NEW b \in Bundles, NEW fetch
  PROVE  /\ PartOrder(b, fetch) \in Seq(BarParts(b, fetch))
         /\ \A p \in BarParts(b, fetch) :
              \E k \in 1 .. Len(PartOrder(b, fetch)) : PartOrder(b, fetch)[k] = p
<1> DEFINE P == BarParts(b, fetch)
           n == Cardinality(P)
           o == PartOrder(b, fetch)
<1>1. n \in Nat /\ Bijection(1 .. n, P) # {}
  BY PartsAreFinite, FS_CardinalityType DEF ExistsBijection
<1>2. o \in Bijection(1 .. n, P)
  BY <1>1 DEF PartOrder
<1> HIDE DEF P, n, o
<1>3. o \in [1 .. n -> P] /\ \A p \in P : \E k \in 1 .. n : o[k] = p
  BY <1>2 DEF Bijection, Surjection
<1>4. o \in Seq(P) /\ Len(o) = n
  BY <1>1, <1>3
<1> QED
  BY <1>3, <1>4 DEF P, o

\* The manifests of an ingest: first the pages, with no parents, then the
\* parts, whose parents are pages of the same ingest.
IsPage(b, fetch, m) == \E j \in DOMAIN b.pages : m = RawManifest(b, j, fetch)
IsPart(b, fetch, m) == \E p \in BarParts(b, fetch) : m = PartManifest(p)

LEMMA RawShape ==
  ASSUME NEW b, NEW k, NEW fetch
  PROVE  /\ RawManifest(b, k, fetch).layer = "bronze"
         /\ RawManifest(b, k, fetch).object.layer = "bronze"
         /\ RawManifest(b, k, fetch).parents = {}
BY DEF RawManifest, RawObject

LEMMA PartManifestShape ==
  ASSUME NEW b \in Bundles, NEW fetch, NEW p \in BarParts(b, fetch)
  PROVE  /\ PartManifest(p).layer = "silver" /\ PartManifest(p).object = p
         /\ PartManifest(p).parents # {}
         /\ \A x \in PartManifest(p).parents : IsPage(b, fetch, x)
<1>1. p.rows # {}
  BY PartShape
<1>2. \A r \in p.rows : r \in Bars(b, fetch)
  <2>1. PICK a \in b.adjustments, y \in Years(b) : p = Part(b, fetch, a, y)
    BY PartShape
  <2> QED
    BY <2>1 DEF Part
<1>3. \A r \in p.rows : IsPage(b, fetch, r.raw)
  BY <1>2, BarsShape DEF IsPage
<1>4. PartManifest(p).parents = {r.raw : r \in p.rows}
  BY DEF PartManifest
<1>5. PartManifest(p).layer = "silver" /\ PartManifest(p).object = p
  BY DEF PartManifest
<1> QED
  BY <1>1, <1>3, <1>4, <1>5

LEMMA ManifestsShape ==
  ASSUME NEW b \in Bundles, NEW fetch
  PROVE  LET all == Manifests(b, fetch)
         IN  /\ Len(all) \in Nat /\ Len(all) >= Len(b.pages)
             /\ \A k \in 1 .. Len(b.pages) : all[k] = RawManifest(b, k, fetch)
             /\ \A k \in 1 .. Len(all) : k > Len(b.pages) => IsPart(b, fetch, all[k])
             /\ \A p \in BarParts(b, fetch) : \E k \in 1 .. Len(all) : all[k] = PartManifest(p)
<1> DEFINE o == PartOrder(b, fetch)
           n == Len(b.pages)
           s == [k \in DOMAIN b.pages |-> RawManifest(b, k, fetch)]
           t == [k \in DOMAIN o |-> PartManifest(o[k])]
<1>1. n \in Nat /\ DOMAIN b.pages = 1 .. n
  BY BundleShape
<1>2. o \in Seq(BarParts(b, fetch))
      /\ \A p \in BarParts(b, fetch) : \E k \in 1 .. Len(o) : o[k] = p
  BY OrderOfParts
<1> HIDE DEF o, n
<1>3. Len(o) \in Nat /\ DOMAIN o = 1 .. Len(o) /\ \A k \in 1 .. Len(o) : o[k] \in BarParts(b, fetch)
  BY <1>2
<1> DEFINE R == {RawManifest(b, k, fetch) : k \in 1 .. n}
           Q == {PartManifest(p) : p \in BarParts(b, fetch)}
<1>4. s \in Seq(R) /\ Len(s) = n /\ \A k \in 1 .. n : s[k] = RawManifest(b, k, fetch)
  <2>1. s \in [1 .. n -> R] /\ \A k \in 1 .. n : s[k] = RawManifest(b, k, fetch)
    BY <1>1
  <2> HIDE DEF s, R
  <2> QED
    BY <1>1, <2>1
<1>5. t \in Seq(Q) /\ Len(t) = Len(o) /\ \A k \in 1 .. Len(o) : t[k] = PartManifest(o[k])
  BY <1>3
<1>6. Manifests(b, fetch) = s \o t
  BY DEF Manifests, o
<1> DEFINE all == s \o t
<1> HIDE DEF s, t, R, Q
<1>7. s \in Seq(R \cup Q) /\ t \in Seq(R \cup Q)
  BY <1>4, <1>5
<1>8. /\ Len(all) = n + Len(o)
      /\ \A k \in 1 .. n + Len(o) : all[k] = IF k <= n THEN s[k] ELSE t[k - n]
  BY <1>4, <1>5, <1>7, ConcatProperties
<1> HIDE DEF all
<1>9. Len(all) \in Nat /\ Len(all) >= n
  BY <1>1, <1>3, <1>8
<1>10. \A k \in 1 .. n : all[k] = RawManifest(b, k, fetch)
  BY <1>1, <1>3, <1>4, <1>8
<1>11. ASSUME NEW k \in 1 .. Len(all), k > n
       PROVE  IsPart(b, fetch, all[k])
  <2>1. k - n \in 1 .. Len(o) /\ all[k] = t[k - n]
    BY <1>1, <1>3, <1>8, <1>11
  <2>2. all[k] = PartManifest(o[k - n]) /\ o[k - n] \in BarParts(b, fetch)
    BY <2>1, <1>3, <1>5
  <2> QED
    BY <2>2 DEF IsPart
<1>12. ASSUME NEW p \in BarParts(b, fetch)
       PROVE  \E k \in 1 .. Len(all) : all[k] = PartManifest(p)
  <2>1. PICK k \in 1 .. Len(o) : o[k] = p
    BY <1>2
  <2>2. n + k \in 1 .. Len(all) /\ all[n + k] = t[(n + k) - n] /\ (n + k) - n = k
    BY <1>1, <1>3, <1>8
  <2>3. all[n + k] = PartManifest(p)
    BY <2>1, <2>2, <1>5
  <2> QED
    BY <2>2, <2>3
<1>13. Manifests(b, fetch) = all
  BY <1>6 DEF all
<1> QED
  BY <1>9, <1>10, <1>11, <1>12, <1>13 DEF n

-----------------------------------------------------------------------------
\* The manifest is one that the ingest of a fetched response writes.
OfIngest(b, fetch, m) == \E k \in 1 .. Len(Manifests(b, fetch)) : m = Manifests(b, fetch)[k]
Came(m) == \E b \in Bundles : \E f \in 1 .. fetches[b] : OfIngest(b, f, m)

LakeType ==
  /\ fetches \in [Bundles -> Nat]
  /\ ingesting \subseteq Bundles /\ ingested \subseteq Bundles
  /\ \A b, c \in ingesting : b = c
  /\ written \in Nat

\* Every file is one of an ingest that took place.
Provenance ==
  /\ \A m \in manifests : Came(m)
  /\ \A x \in objects : \E b \in Bundles : \E f \in 1 .. fetches[b] :
        \E k \in 1 .. Len(Manifests(b, f)) : x = Manifests(b, f)[k].object

\* What an ingest has written so far is there, an object before its manifest.
Progress ==
  \A b \in ingesting :
    LET all == Manifests(b, fetches[b])
    IN  /\ fetches[b] >= 1 /\ written <= 2 * Len(all)
        /\ \A k \in 1 .. Len(all) : 2 * k - 1 <= written => all[k].object \in objects
        /\ \A k \in 1 .. Len(all) : 2 * k <= written => all[k] \in manifests

\* What an ingest that ran to its end wrote is still there.
Complete ==
  \A b \in ingested :
    LET all == Manifests(b, fetches[b])
    IN  \A k \in 1 .. Len(all) : all[k].object \in objects /\ all[k] \in manifests

LakeInv == LakeType /\ Provenance /\ Progress /\ Complete /\ LineageClosed

LEMMA LakeInvInit == LakeInit => LakeInv
<1> SUFFICES ASSUME LakeInit PROVE LakeInv
  OBVIOUS
<1>1. LakeType
  BY DEF LakeInit, LakeType
<1>2. Provenance
  BY DEF LakeInit, Provenance
<1>3. Progress
  BY DEF LakeInit, Progress
<1>4. Complete
  BY DEF LakeInit, Complete
<1>5. LineageClosed
  BY DEF LakeInit, LineageClosed
<1> QED
  BY <1>1, <1>2, <1>3, <1>4, <1>5 DEF LakeInv

\* A response that is fetched again adds to the ingests that took place.
LEMMA BeginKeepsLake ==
  ASSUME LakeInv, NEW b \in Bundles, BeginIngest(b)
  PROVE  LakeInv'
<1>1. /\ fetches' \in [Bundles -> Nat] /\ fetches'[b] >= 1
      /\ \A c \in Bundles : fetches'[c] >= fetches[c]
      /\ \A c \in Bundles : c # b => fetches'[c] = fetches[c]
  <2>1. fetches \in [Bundles -> Nat]
    BY DEF LakeInv, LakeType
  <2>2. fetches' = [fetches EXCEPT ![b] = fetches'[b]] /\ fetches'[b] \in {fetches[b], fetches[b] + 1}
        /\ fetches'[b] # 0
    BY <2>1 DEF BeginIngest
  <2>3. fetches[b] \in Nat /\ fetches'[b] \in Nat
    BY <2>1, <2>2
  <2>4. \A c \in Bundles : fetches[c] \in Nat /\ (c # b => fetches'[c] = fetches[c])
    BY <2>1, <2>2
  <2> QED
    BY <2>1, <2>2, <2>3, <2>4
<1>2. /\ ingesting' = {b} /\ written' = 0 /\ ingested' = ingested \ {b}
      /\ objects' = objects /\ manifests' = manifests
  BY DEF BeginIngest
<1>3. LakeType'
  BY <1>1, <1>2 DEF LakeInv, LakeType
<1>4. \A c \in Bundles : 1 .. fetches[c] \subseteq 1 .. fetches'[c]
  BY <1>1 DEF LakeInv, LakeType
<1>5. Provenance'
  <2>1. \A m : Came(m) => Came(m)'
    BY <1>4 DEF Came, OfIngest
  <2>2. \A m \in manifests' : Came(m)'
    BY <1>2, <2>1 DEF LakeInv, Provenance
  <2>3. \A x \in objects' : \E c \in Bundles : \E f \in 1 .. fetches'[c] :
           \E k \in 1 .. Len(Manifests(c, f)) : x = Manifests(c, f)[k].object
    BY <1>2, <1>4 DEF LakeInv, Provenance
  <2> QED
    BY <2>2, <2>3 DEF Provenance
<1>6. Progress'
  <2>1. Len(Manifests(b, fetches'[b])) \in Nat
    BY ManifestsShape
  <2> QED
    BY <1>1, <1>2, <2>1 DEF Progress
<1>7. Complete'
  BY <1>1, <1>2 DEF LakeInv, LakeType, Complete
<1>8. LineageClosed'
  BY <1>2 DEF LakeInv, LineageClosed
<1> QED
  BY <1>3, <1>5, <1>6, <1>7, <1>8 DEF LakeInv

\* The manifest an ingest is at, and what it needs is written.
LEMMA NextManifest ==
  ASSUME LakeInv, NEW b \in ingesting, written < 2 * Len(Manifests(b, fetches[b]))
  PROVE  LET all == Manifests(b, fetches[b])
             n == written \div 2 + 1
         IN  /\ n \in 1 .. Len(all)
             /\ OfIngest(b, fetches[b], all[n])
             /\ \A k \in 1 .. Len(all) : 2 * k - 1 <= written + 1 => k = n \/ 2 * k - 1 <= written
             /\ \A k \in 1 .. Len(all) :
                  2 * k <= written + 1 => (k = n /\ written % 2 = 1) \/ 2 * k <= written
             /\ written % 2 = 1 =>
                  all[n].object \in objects /\ all[n].parents \subseteq manifests
<1> DEFINE all == Manifests(b, fetches[b])
           n == written \div 2 + 1
<1>1. b \in Bundles /\ written \in Nat /\ Len(all) \in Nat /\ written < 2 * Len(all)
  BY ManifestsShape DEF LakeInv, LakeType
<1>2. /\ \A k \in 1 .. Len(all) : 2 * k - 1 <= written => all[k].object \in objects
      /\ \A k \in 1 .. Len(all) : 2 * k <= written => all[k] \in manifests
  BY DEF LakeInv, Progress
<1>3. n \in 1 .. Len(all) /\ (written % 2 = 1 => written = 2 * n - 1) /\ (written % 2 = 0 => written = 2 * n - 2)
      /\ written % 2 \in 0 .. 1
  BY <1>1
<1>4. OfIngest(b, fetches[b], all[n])
  BY <1>3 DEF OfIngest
<1> HIDE DEF n
<1>5. ASSUME written % 2 = 1
      PROVE  all[n].object \in objects /\ all[n].parents \subseteq manifests
  <2>1. written = 2 * n - 1 /\ n \in 1 .. Len(all)
    BY <1>3, <1>5
  <2>2. all[n].object \in objects
    BY <2>1, <1>2
  <2>3. Len(b.pages) \in Nat /\ DOMAIN b.pages = 1 .. Len(b.pages)
    BY <1>1, BundleShape
  <2>4. /\ Len(all) >= Len(b.pages)
        /\ \A k \in 1 .. Len(b.pages) : all[k] = RawManifest(b, k, fetches[b])
        /\ n > Len(b.pages) => IsPart(b, fetches[b], all[n])
    BY <1>1, <2>1, ManifestsShape
  <2> HIDE DEF all
  <2>5. CASE n <= Len(b.pages)
    <3>1. all[n] = RawManifest(b, n, fetches[b])
      BY <2>1, <2>3, <2>4, <2>5
    <3> QED
      BY <2>2, <3>1, RawShape
  <2>6. CASE n > Len(b.pages)
    <3>1. PICK p \in BarParts(b, fetches[b]) : all[n] = PartManifest(p)
      BY <2>4, <2>6 DEF IsPart
    <3>2. ASSUME NEW x \in all[n].parents
          PROVE  x \in manifests
      <4>1. PICK j \in 1 .. Len(b.pages) : x = RawManifest(b, j, fetches[b])
        BY <3>1, <1>1, <2>3, PartManifestShape DEF IsPage
      <4>2. all[j] = x /\ j \in 1 .. Len(all) /\ 2 * j <= written
        BY <4>1, <2>1, <2>3, <2>4, <2>6, <1>1
      <4> QED
        BY <4>2, <1>2
    <3> QED
      BY <2>2, <3>2
  <2> QED
    BY <2>1, <2>3, <2>5, <2>6
<1>6. /\ \A k \in 1 .. Len(all) : 2 * k - 1 <= written + 1 => k = n \/ 2 * k - 1 <= written
      /\ \A k \in 1 .. Len(all) : 2 * k <= written + 1 => (k = n /\ written % 2 = 1) \/ 2 * k <= written
  BY <1>1, <1>3
<1> QED
  BY <1>3, <1>4, <1>5, <1>6 DEF n

LEMMA WriteKeepsLake ==
  ASSUME LakeInv, Write
  PROVE  LakeInv'
<1>1. PICK b \in ingesting :
        LET all == Manifests(b, fetches[b])
            m == all[written \div 2 + 1]
        IN  /\ written < 2 * Len(all)
            /\ \/ written % 2 = 0 /\ objects' = objects \cup {m.object} /\ UNCHANGED manifests
               \/ written % 2 = 1 /\ manifests' = manifests \cup {m} /\ UNCHANGED objects
            /\ written' = written + 1
            /\ UNCHANGED <<fetches, ingesting, ingested>>
  BY DEF Write
<1> DEFINE all == Manifests(b, fetches[b])
           n == written \div 2 + 1
<1>2. /\ n \in 1 .. Len(all)
      /\ OfIngest(b, fetches[b], all[n])
      /\ \A k \in 1 .. Len(all) : 2 * k - 1 <= written + 1 => k = n \/ 2 * k - 1 <= written
      /\ \A k \in 1 .. Len(all) :
           2 * k <= written + 1 => (k = n /\ written % 2 = 1) \/ 2 * k <= written
      /\ written % 2 = 1 => all[n].object \in objects /\ all[n].parents \subseteq manifests
  BY <1>1, NextManifest
<1>3. /\ \/ written % 2 = 0 /\ objects' = objects \cup {all[n].object} /\ manifests' = manifests
         \/ written % 2 = 1 /\ manifests' = manifests \cup {all[n]} /\ objects' = objects
      /\ written' = written + 1
      /\ fetches' = fetches /\ ingesting' = ingesting /\ ingested' = ingested
  BY <1>1
<1>4. b \in Bundles /\ written \in Nat /\ Len(all) \in Nat /\ written < 2 * Len(all)
      /\ fetches[b] \in Nat /\ fetches[b] >= 1 /\ \A c \in ingesting : c = b
  BY <1>1, ManifestsShape DEF LakeInv, LakeType, Progress
<1>5. /\ \A k \in 1 .. Len(all) : 2 * k - 1 <= written => all[k].object \in objects
      /\ \A k \in 1 .. Len(all) : 2 * k <= written => all[k] \in manifests
  BY DEF LakeInv, Progress
<1> HIDE DEF n, all
<1>6. LakeType'
  BY <1>3, <1>4 DEF LakeInv, LakeType
<1>7. objects \subseteq objects' /\ manifests \subseteq manifests'
  BY <1>3
<1>8. Provenance'
  <2>1. \A m : Came(m) => Came(m)'
    BY <1>3 DEF Came, OfIngest
  <2>2. \A m : m = all[n] => Came(m)'
    BY <1>2, <1>3, <1>4 DEF Came, OfIngest
  <2>3. \A m \in manifests' : Came(m)'
    BY <1>3, <2>1, <2>2 DEF LakeInv, Provenance
  <2>4. \E f \in 1 .. fetches'[b] :
           \E k \in 1 .. Len(Manifests(b, f)) : all[n].object = Manifests(b, f)[k].object
    BY <1>2, <1>3, <1>4 DEF all
  <2>5. \A x \in objects' : \E c \in Bundles : \E f \in 1 .. fetches'[c] :
           \E k \in 1 .. Len(Manifests(c, f)) : x = Manifests(c, f)[k].object
    <3>1. \A x \in objects : \E c \in Bundles : \E f \in 1 .. fetches'[c] :
             \E k \in 1 .. Len(Manifests(c, f)) : x = Manifests(c, f)[k].object
      BY <1>3 DEF LakeInv, Provenance
    <3>2. \A x \in objects' : x \in objects \/ x = all[n].object
      BY <1>3
    <3>3. \E c \in Bundles : \E f \in 1 .. fetches'[c] :
             \E k \in 1 .. Len(Manifests(c, f)) : all[n].object = Manifests(c, f)[k].object
      BY <1>4, <2>4
    <3> QED
      BY <3>1, <3>2, <3>3
  <2> QED
    BY <2>3, <2>5 DEF Provenance
<1>9. Progress'
  <2>1. \A k \in 1 .. Len(all) : 2 * k - 1 <= written + 1 => all[k].object \in objects'
    <3> SUFFICES ASSUME NEW k \in 1 .. Len(all), 2 * k - 1 <= written + 1
                 PROVE  all[k].object \in objects'
      OBVIOUS
    <3>1. CASE 2 * k - 1 <= written
      BY <3>1, <1>5, <1>7
    <3>2. CASE k = n
      BY <3>2, <1>2, <1>3, <1>7
    <3> QED
      BY <1>2, <3>1, <3>2
  <2>2. \A k \in 1 .. Len(all) : 2 * k <= written + 1 => all[k] \in manifests'
    <3> SUFFICES ASSUME NEW k \in 1 .. Len(all), 2 * k <= written + 1
                 PROVE  all[k] \in manifests'
      OBVIOUS
    <3>1. CASE 2 * k <= written
      BY <3>1, <1>5, <1>7
    <3>2. CASE k = n /\ written % 2 = 1
      BY <3>2, <1>3
    <3> QED
      BY <1>2, <3>1, <3>2
  <2>3. written' <= 2 * Len(all)
    BY <1>3, <1>4
  <2>4. \A c \in ingesting' : c = b
    BY <1>3, <1>4
  <2>5. Manifests(b, fetches'[b]) = all
    BY <1>3 DEF all
  <2> QED
    BY <1>3, <1>4, <2>1, <2>2, <2>3, <2>4, <2>5 DEF Progress
<1>10. Complete'
  <2> SUFFICES ASSUME NEW c \in ingested, NEW k \in 1 .. Len(Manifests(c, fetches[c]))
               PROVE  /\ Manifests(c, fetches[c])[k].object \in objects'
                      /\ Manifests(c, fetches[c])[k] \in manifests'
    BY <1>3 DEF Complete
  <2> QED
    BY <1>7 DEF LakeInv, Complete
<1>11. LineageClosed'
  <2>1. \A m \in manifests : m.object \in objects' /\ \A p \in m.parents : p \in manifests'
    BY <1>7 DEF LakeInv, LineageClosed
  <2>2. written % 2 = 1 => all[n].object \in objects' /\ \A p \in all[n].parents : p \in manifests'
    BY <1>2, <1>7
  <2> QED
    BY <1>3, <2>1, <2>2 DEF LineageClosed
<1> QED
  BY <1>6, <1>8, <1>9, <1>10, <1>11 DEF LakeInv

LEMMA EndKeepsLake ==
  ASSUME LakeInv, EndIngest
  PROVE  LakeInv'
<1>1. PICK b \in ingesting :
        /\ written = 2 * Len(Manifests(b, fetches[b]))
        /\ ingested' = ingested \cup {b}
        /\ ingesting' = {} /\ written' = 0
        /\ UNCHANGED <<objects, manifests, fetches>>
  BY DEF EndIngest
<1>2. b \in Bundles /\ Len(Manifests(b, fetches[b])) \in Nat
  BY ManifestsShape DEF LakeInv, LakeType
<1>3. LakeType'
  BY <1>1, <1>2 DEF LakeInv, LakeType
<1>4. Provenance'
  <2>1. \A m : Came(m) => Came(m)'
    BY <1>1 DEF Came, OfIngest
  <2> QED
    BY <1>1, <2>1 DEF LakeInv, Provenance
<1>5. Progress'
  BY <1>1 DEF Progress
<1>6. \A k \in 1 .. Len(Manifests(b, fetches[b])) :
        /\ Manifests(b, fetches[b])[k].object \in objects
        /\ Manifests(b, fetches[b])[k] \in manifests
  BY <1>1, <1>2 DEF LakeInv, Progress
<1>7. Complete'
  BY <1>1, <1>6 DEF LakeInv, Complete
<1>8. LineageClosed'
  BY <1>1 DEF LakeInv, LineageClosed
<1> QED
  BY <1>3, <1>4, <1>5, <1>7, <1>8 DEF LakeInv

\* An ingest that dies, and a step that changes nothing.
LEMMA DyingKeepsLake ==
  ASSUME LakeInv, IngestDies \/ UNCHANGED lakevars
  PROVE  LakeInv'
<1>1. /\ objects' = objects /\ manifests' = manifests /\ fetches' = fetches /\ ingested' = ingested
      /\ \/ ingesting' = {} /\ written' = 0
         \/ ingesting' = ingesting /\ written' = written
  BY DEF IngestDies, lakevars
<1>2. LakeType'
  BY <1>1 DEF LakeInv, LakeType
<1>3. Provenance'
  <2>1. \A m : Came(m) => Came(m)'
    BY <1>1 DEF Came, OfIngest
  <2> QED
    BY <1>1, <2>1 DEF LakeInv, Provenance
<1>4. Progress'
  BY <1>1 DEF LakeInv, Progress
<1>5. Complete'
  BY <1>1 DEF LakeInv, Complete
<1>6. LineageClosed'
  BY <1>1 DEF LakeInv, LineageClosed
<1> QED
  BY <1>2, <1>3, <1>4, <1>5, <1>6 DEF LakeInv

\* The invariant of the lake, for any responses and ingests that die anywhere.
THEOREM LakeInvariant == LakeSpec => []LakeInv
<1>1. LakeInit => LakeInv
  BY LakeInvInit
<1>2. LakeInv /\ [LakeNext]_lakevars => LakeInv'
  BY BeginKeepsLake, WriteKeepsLake, EndKeepsLake, DyingKeepsLake DEF LakeNext
<1> QED
  BY <1>1, <1>2, PTL DEF LakeSpec

-----------------------------------------------------------------------------
\* Every bundle was ingested to its end, from the one response it was fetched as.
AllIngested == ingested = Bundles /\ \A b \in Bundles : fetches[b] = 1

\* What an ingest writes: pages, and parts.
LEMMA KindOfManifest ==
  ASSUME NEW b \in Bundles, NEW f, NEW k \in 1 .. Len(Manifests(b, f))
  PROVE  \/ /\ Manifests(b, f)[k].layer = "bronze"
            /\ Manifests(b, f)[k].object.layer = "bronze"
         \/ \E p \in BarParts(b, f) : Manifests(b, f)[k] = PartManifest(p)
<1> DEFINE all == Manifests(b, f)
<1>1. Len(b.pages) \in Nat
  BY BundleShape
<1>2. /\ Len(all) \in Nat
      /\ \A j \in 1 .. Len(b.pages) : all[j] = RawManifest(b, j, f)
      /\ k > Len(b.pages) => IsPart(b, f, all[k])
  BY ManifestsShape
<1> HIDE DEF all
<1>3. CASE k <= Len(b.pages)
  <2>1. all[k] = RawManifest(b, k, f)
    BY <1>1, <1>2, <1>3 DEF all
  <2> QED
    BY <2>1, RawShape DEF all
<1>4. CASE k > Len(b.pages)
  BY <1>2, <1>4 DEF IsPart, all
<1> QED
  BY <1>1, <1>3, <1>4 DEF all

\* The parts of the lake are those of the bundles, each with its manifest.
LEMMA PartsOfLake ==
  ASSUME LakeInv, AllIngested
  PROVE  /\ \A x \in StoredParts : \E b \in Bundles : x \in BarParts(b, 1)
         /\ \A b \in Bundles : \A p \in BarParts(b, 1) :
              p \in StoredParts /\ PartManifest(p) \in manifests
         /\ \A m \in manifests : m.layer = "silver" =>
              \E b \in Bundles : \E p \in BarParts(b, 1) : m = PartManifest(p)
<1>1. \A b \in Bundles : fetches[b] = 1
  BY DEF AllIngested
<1>2. \A b \in Bundles : \A f \in 1 .. fetches[b] : f = 1
  BY <1>1
<1>3. ASSUME NEW x \in StoredParts
      PROVE  \E b \in Bundles : x \in BarParts(b, 1)
  <2>1. x \in objects /\ x.layer = "silver"
    BY DEF StoredParts
  <2>2. PICK b \in Bundles : \E k \in 1 .. Len(Manifests(b, 1)) : x = Manifests(b, 1)[k].object
    BY <1>2, <2>1 DEF LakeInv, Provenance
  <2>3. PICK k \in 1 .. Len(Manifests(b, 1)) : x = Manifests(b, 1)[k].object
    BY <2>2
  <2>4. PICK p \in BarParts(b, 1) : Manifests(b, 1)[k] = PartManifest(p)
    BY <2>1, <2>3, KindOfManifest
  <2>5. x = p
    BY <2>3, <2>4, PartManifestShape
  <2> QED
    BY <2>5
<1>4. ASSUME NEW b \in Bundles, NEW p \in BarParts(b, 1)
      PROVE  p \in StoredParts /\ PartManifest(p) \in manifests
  <2>1. PICK k \in 1 .. Len(Manifests(b, 1)) : Manifests(b, 1)[k] = PartManifest(p)
    BY ManifestsShape
  <2>2. Manifests(b, 1)[k].object \in objects /\ Manifests(b, 1)[k] \in manifests
    BY <1>1 DEF LakeInv, Complete, AllIngested
  <2>3. p \in objects
    BY <2>1, <2>2, PartManifestShape
  <2>4. p.layer = "silver"
    BY PartShape
  <2> QED
    BY <2>1, <2>2, <2>3, <2>4 DEF StoredParts
<1>5. ASSUME NEW m \in manifests, m.layer = "silver"
      PROVE  \E b \in Bundles : \E p \in BarParts(b, 1) : m = PartManifest(p)
  <2>1. PICK b \in Bundles : OfIngest(b, 1, m)
    BY <1>2 DEF LakeInv, Provenance, Came
  <2>2. PICK k \in 1 .. Len(Manifests(b, 1)) : m = Manifests(b, 1)[k]
    BY <2>1 DEF OfIngest
  <2> QED
    BY <2>2, <1>5, KindOfManifest
<1> QED
  BY <1>3, <1>4, <1>5

LEMMA LakeIsVerified ==
  ASSUME LakeInv, AllIngested, ResponsesAgree
  PROVE  VerifiedManifests
<1>1. \A m \in manifests : m.object \in objects /\ m.parents \subseteq manifests
  BY DEF LakeInv, LineageClosed
<1>2. \A m \in manifests : m.layer = "silver" => m.parents # {}
  BY PartsOfLake, PartManifestShape
<1> DEFINE silver == {n \in manifests : n.layer = "silver"}
<1>3. ASSUME NEW x \in StoredParts
      PROVE  x \in {m.object : m \in silver}
  <2>1. PICK b \in Bundles : x \in BarParts(b, 1)
    BY PartsOfLake
  <2>2. PartManifest(x) \in manifests /\ PartManifest(x).layer = "silver" /\ PartManifest(x).object = x
    BY <2>1, PartsOfLake, PartManifestShape
  <2> QED
    BY <2>2
<1>4. ASSUME NEW m \in silver
      PROVE  m.object \in StoredParts
  <2>1. PICK b \in Bundles : \E p \in BarParts(b, 1) : m = PartManifest(p)
    BY PartsOfLake
  <2>2. PICK p \in BarParts(b, 1) : m = PartManifest(p)
    BY <2>1
  <2> QED
    BY <2>2, PartsOfLake, PartManifestShape
<1>5. StoredParts = {m.object : m \in silver}
  BY <1>3, <1>4
<1>6. StoredParts # {}
  <2>1. PICK b \in Bundles : "raw" \in b.adjustments /\ BundleDates(b) # {}
    BY DEF ResponsesAgree
  <2>2. PICK d \in BundleDates(b) : TRUE
    BY <2>1
  <2>3. Part(b, 1, "raw", d \div YearLength) \in BarParts(b, 1)
    BY <2>1, PartOfBar
  <2> QED
    BY <2>3, PartsOfLake
<1> QED
  BY <1>1, <1>2, <1>5, <1>6 DEF VerifiedManifests

\* A series has one bundle.
LEMMA OneBundle ==
  ASSUME ResponsesAgree, NEW b \in Bundles, NEW c \in Bundles, b.source = c.source,
         NEW a \in b.adjustments, a \in c.adjustments
  PROVE  b = c
BY DEF ResponsesAgree

LEMMA BarsAreOnce ==
  ASSUME LakeInv, AllIngested, ResponsesAgree
  PROVE  NoDuplicateBars
<1> SUFFICES ASSUME NEW p \in StoredParts, NEW q \in StoredParts, p.source = q.source,
                    NEW r \in p.rows, NEW s \in q.rows, r.adjustment = s.adjustment, r.date = s.date
             PROVE  p = q
  BY DEF NoDuplicateBars
<1>1. PICK b \in Bundles : p \in BarParts(b, 1)
  BY PartsOfLake
<1>2. PICK c \in Bundles : q \in BarParts(c, 1)
  BY PartsOfLake
<1>3. PICK a \in b.adjustments, y \in Years(b) : p = Part(b, 1, a, y)
  BY <1>1, PartShape
<1>4. PICK e \in c.adjustments, z \in Years(c) : q = Part(c, 1, e, z)
  BY <1>2, PartShape
<1>5. r.adjustment = a /\ r.date \div YearLength = y
  BY <1>3 DEF Part
<1>6. s.adjustment = e /\ s.date \div YearLength = z
  BY <1>4 DEF Part
<1>7. b.source = c.source
  BY <1>1, <1>2, PartShape
<1>8. b = c
  BY <1>5, <1>6, <1>7, OneBundle
<1> QED
  BY <1>3, <1>4, <1>5, <1>6, <1>8

\* The dates of an adjustment are those of the bundle that brought it.
LEMMA DatesOfBundle ==
  ASSUME LakeInv, AllIngested, ResponsesAgree, NEW b \in Bundles, NEW a \in b.adjustments
  PROVE  DatesOf(b.source, a) = BundleDates(b)
<1> DEFINE Row(p, r) == [source |-> p.source, adjustment |-> r.adjustment, date |-> r.date]
<1>1. ASSUME NEW d \in DatesOf(b.source, a)
      PROVE  d \in BundleDates(b)
  <2>1. PICK x \in AllRows : x.source = b.source /\ x.adjustment = a /\ x.date = d
    BY DEF DatesOf
  <2>2. PICK p \in StoredParts : x \in {Row(p, r) : r \in p.rows}
    BY DEF AllRows
  <2>3. PICK r \in p.rows : x = Row(p, r)
    BY <2>2
  <2>4. p.source = b.source /\ r.adjustment = a /\ r.date = d
    BY <2>1, <2>3
  <2>5. PICK c \in Bundles : p \in BarParts(c, 1)
    BY PartsOfLake
  <2>6. PICK e \in c.adjustments, z \in Years(c) : p = Part(c, 1, e, z)
    BY <2>5, PartShape
  <2>7. r.adjustment = e /\ r.date \in BundleDates(c) /\ p.source = c.source
    <3>1. r.adjustment = e /\ r \in Bars(c, 1) /\ p.source = c.source
      BY <2>6 DEF Part
    <3> QED
      BY <3>1, BarsShape
  <2>8. c = b
    BY <2>4, <2>7, OneBundle
  <2> QED
    BY <2>4, <2>7, <2>8
<1>2. ASSUME NEW d \in BundleDates(b)
      PROVE  d \in DatesOf(b.source, a)
  <2> DEFINE p == Part(b, 1, a, d \div YearLength)
             r == Bar(b, 1, a, d)
  <2>1. p \in BarParts(b, 1) /\ r \in p.rows /\ r.adjustment = a /\ r.date = d
    BY PartOfBar, BarShape
  <2>2. p \in StoredParts /\ p.source = b.source
    BY <2>1, PartsOfLake, PartShape
  <2> HIDE DEF p, r
  <2>3. Row(p, r) \in AllRows
    BY <2>1, <2>2 DEF AllRows
  <2>4. Row(p, r).source = b.source /\ Row(p, r).adjustment = a /\ Row(p, r).date = d
    BY <2>1, <2>2
  <2> HIDE DEF Row
  <2> QED
    BY <2>3, <2>4 DEF DatesOf
<1> QED
  BY <1>1, <1>2

LEMMA RowsAreOfBundles ==
  ASSUME LakeInv, AllIngested, NEW x \in AllRows
  PROVE  \E b \in Bundles : x.source = b.source /\ x.adjustment \in b.adjustments
<1> DEFINE Row(p, r) == [source |-> p.source, adjustment |-> r.adjustment, date |-> r.date]
<1>1. PICK p \in StoredParts : x \in {Row(p, r) : r \in p.rows}
  BY DEF AllRows
<1>2. PICK r \in p.rows : x = Row(p, r)
  BY <1>1
<1>3. PICK b \in Bundles : p \in BarParts(b, 1)
  BY PartsOfLake
<1>4. PICK a \in b.adjustments, y \in Years(b) : p = Part(b, 1, a, y)
  BY <1>3, PartShape
<1>5. r.adjustment = a /\ p.source = b.source
  BY <1>4 DEF Part
<1> QED
  BY <1>2, <1>5

LEMMA LakeIsValid ==
  ASSUME LakeInv, AllIngested, ResponsesAgree
  PROVE  ValidateParquet
<1>1. AdjustedCoverage
  <2> SUFFICES ASSUME NEW x \in AllRows
               PROVE  DatesOf(x.source, "raw") = DatesOf(x.source, x.adjustment)
    BY DEF AdjustedCoverage
  <2>1. PICK b \in Bundles : x.source = b.source /\ x.adjustment \in b.adjustments
    BY RowsAreOfBundles
  <2>2. PICK c \in Bundles : /\ c.source = b.source /\ "raw" \in c.adjustments
                             /\ BundleDates(c) = BundleDates(b)
    BY DEF ResponsesAgree
  <2>3. DatesOf(b.source, x.adjustment) = BundleDates(b)
    BY <2>1, DatesOfBundle
  <2>4. DatesOf(c.source, "raw") = BundleDates(c)
    BY <2>2, DatesOfBundle
  <2> QED
    BY <2>1, <2>2, <2>3, <2>4
<1>2. CrossProviderOverlap
  <2>1. PICK b \in Bundles, c \in Bundles :
          /\ b.source = "toss" /\ c.source = "tiingo"
          /\ "raw" \in b.adjustments \cap c.adjustments
          /\ BundleDates(b) \cap BundleDates(c) # {}
    BY DEF ResponsesAgree
  <2>2. DatesOf(b.source, "raw") = BundleDates(b)
    BY <2>1, DatesOfBundle
  <2>3. DatesOf(c.source, "raw") = BundleDates(c)
    BY <2>1, DatesOfBundle
  <2> QED
    BY <2>1, <2>2, <2>3 DEF CrossProviderOverlap
<1> QED
  BY <1>1, <1>2, BarsAreOnce DEF ValidateParquet

\* A crash anywhere in an ingest is harmless, for any responses, any number of
\* ingests and files: no manifest names what the lake does not hold
\* (store_raw, write_market_bars write the object first), and once every
\* bundle was ingested to its end from one response, and the responses agree,
\* the lake passes _verified_manifests and validate_parquet.
THEOREM CrashesAreHarmless == LakeSpec => []CrashIsHarmless
<1>1. LakeInv => CrashIsHarmless
  BY LakeIsVerified, LakeIsValid DEF CrashIsHarmless, RepetitionHeals, AllIngested, LakeInv
<1> QED
  BY <1>1, LakeInvariant, PTL

-----------------------------------------------------------------------------
(* The dataset store                                                       *)

Alfred == "series-observation-revisions"

\* The receipt a captured dataset was made of, and what it was checked for.
ReceiptGood(c) ==
  /\ c \in Captures /\ c.status = 200 /\ c.provider <= c.received /\ QueryEchoOk(c)
  /\ TimesTyped(c) /\ PageTyped(c.page)

\* A batch that the provider boundary works on.
GoodBatch(b) ==
  /\ TimesTyped(b) /\ b.available \in Int
  /\ IF b.dataset = Alfred THEN PageTyped(b.body[1])
     ELSE \A r \in Rows(b.body) : "available" \in DOMAIN r /\ r.available \in Int
  /\ \A c \in b.captured : ReceiptGood(c) /\ b = CapturedBatch(c)

\* What a dataset shows of itself, whatever is on the disk.
VintagesWell(m) ==
  m.retrieved \in Int /\
  \E p : /\ m.parents = {p} /\ p.request = m.request
         /\ PageTyped(RowOf(p)) /\ PageOk(RowOf(p))
         /\ RowOf(m).rows = NormalizeVintages(RowOf(p)) /\ RowOf(m).rows # {}
         /\ \A r \in Rows(m.body) : DOMAIN r = {"rows"}
RowsInTime(m) == \A r \in Rows(m.body) : r.available \in Int /\ r.available <= m.available
CapturedWell(m) ==
  \A c \in m.captured :
    /\ ReceiptGood(c)
    /\ m.retrieved = c.received /\ m.available = c.received /\ m.provider = c.provider
    /\ m.layer = "bronze" => RowOf(m) = c.page
    /\ m.layer = "silver" => CapturedOk(c.page) /\ RowOf(m).rows = NormalizeVintages(c.page)
WellMade(m) ==
  /\ m.layer \in Layers /\ m.license \in Licences /\ m.available \in Int
  /\ m.quality = "VALID" \/ m.layer = "bronze"
  /\ m.available >= m.retrieved /\ m.provider <= m.retrieved
  /\ (m.layer = "bronze") <=> (m.parents = {})
  /\ \A p \in m.parents : EdgeOk(p, m)
  /\ Len(m.body) = m.count
  /\ m.layer = "silver" =>
        m.quality = "VALID" /\ IF m.dataset = Alfred THEN VintagesWell(m) ELSE RowsInTime(m)
  /\ CapturedWell(m) /\ (m.layer = "gold" => m.captured = {})

\* What a dataset rests on was there before it.
Placed(m) ==
  /\ m.parents \subseteq disk.manifest
  /\ m.layer # "gold" => m.request \in disk.request

\* What a worker has in hand.
DraftOk(w, j) ==
  /\ DOMAIN j = {"stage", "next", "batch", "draft", "bronze"}
  /\ WellMade(j.draft) /\ Placed(j.draft)
  /\ j.next \in {1, 2}
  /\ j.next = 2 => j.draft.body \in disk.blob[j.draft.layer]
  /\ w = "collector" => GoodBatch(j.batch) /\ j.draft.layer # "gold"
  /\ w = "assembler" => j.draft.layer = "gold"
  /\ j.draft.layer = "bronze" => j.draft = Bronze(j.batch)
JobOk(w, j) ==
  /\ j.stage \in {"idle", "request", "publish", "normalize", "report"}
  /\ j.stage = "request" => GoodBatch(j.batch)
  /\ j.stage = "publish" => DraftOk(w, j)
  /\ j.stage = "normalize" =>
        GoodBatch(j.batch) /\ j.bronze = {Bronze(j.batch)} /\ Bronze(j.batch) \in disk.manifest
  /\ j.stage = "report" => GoodBatch(j.batch)
  /\ w = "assembler" => j.stage \in {"idle", "publish"}

DiskShape(d) ==
  /\ DOMAIN d = {"blob", "manifest", "request", "capture"}
  /\ DOMAIN d.blob = Layers

DiskOk == DiskShape(disk) /\ disk.capture = Captures
CatalogOk == \A m \in disk.manifest : WellMade(m) /\ Placed(m) /\ m.body \in disk.blob[m.layer]
JobsOk == DOMAIN job = Workers /\ \A w \in Workers : JobOk(w, job[w])
HealthOk == \A h \in health : h.retrieved \in Int

StoreInv == DiskOk /\ CatalogOk /\ JobsOk /\ HealthOk

LEMMA StoreInvInit == DSInit => StoreInv
<1> SUFFICES ASSUME DSInit PROVE StoreInv
  OBVIOUS
<1>1. DiskOk /\ disk.manifest = {}
  BY DEF DSInit, NoFiles, DiskOk, DiskShape
<1>2. JobsOk
  BY DEF DSInit, JobsOk, JobOk, Idle
<1> QED
  BY <1>1, <1>2 DEF DSInit, StoreInv, CatalogOk, HealthOk

\* The disk only grows: what was placed stays placed.
Grows == /\ disk.manifest \subseteq disk'.manifest /\ disk.request \subseteq disk'.request
         /\ \A l \in Layers : disk.blob[l] \subseteq disk'.blob[l]

LEMMA PlacedStays ==
  ASSUME Grows, NEW m, Placed(m)
  PROVE  Placed(m)'
BY DEF Grows, Placed

LEMMA WellMadeStays ==
  ASSUME NEW m, WellMade(m)
  PROVE  WellMade(m)'
BY DEF WellMade

LEMMA JobStays ==
  ASSUME Grows, NEW w, NEW j, JobOk(w, j)
  PROVE  JobOk(w, j)'
<1>1. DraftOk(w, j) => DraftOk(w, j)'
  <2> SUFFICES ASSUME DraftOk(w, j) PROVE DraftOk(w, j)'
    OBVIOUS
  <2>1. Placed(j.draft)'
    BY PlacedStays DEF DraftOk
  <2>2. j.draft.layer \in Layers
    BY DEF DraftOk, WellMade
  <2>3. j.next = 2 => j.draft.body \in disk'.blob[j.draft.layer]
    BY <2>2 DEF DraftOk, Grows
  <2> QED
    BY <2>1, <2>3 DEF DraftOk
<1> QED
  BY <1>1 DEF JobOk, Grows

LEMMA ReadableIsStored ==
  ASSUME NEW m, Readable(m)
  PROVE  m \in disk.manifest /\ Verified(m)
<1>1. Verified(m)
  BY DEF Readable, Lineage
<1> QED
  BY <1>1 DEF Verified, ManifestOk, Intact

\* What write checks of the parents is what read demands of them.
LEMMA WritableEdges ==
  ASSUME NEW m, NEW mixed, NEW allowEmpty, Writable(m, mixed, allowEmpty)
  PROVE  /\ \A p \in m.parents : EdgeOk(p, m)
         /\ m.parents \subseteq disk.manifest
<1>1. ASSUME NEW p \in m.parents
      PROVE  EdgeOk(p, m) /\ p \in disk.manifest
  <2>1. /\ Readable(p) /\ Level[p.layer] < Level[m.layer] /\ p.available <= m.available
        /\ ContractOk(m, mixed)
    BY DEF Writable
  <2>2. m.layer # "gold" => p.source = m.source /\ p.license = m.license
    BY <2>1 DEF ContractOk
  <2>3. ~(m.license = "permitted" /\ p.license = "forbidden")
    BY <2>1 DEF ContractOk
  <2> QED
    BY <2>1, <2>2, <2>3, ReadableIsStored DEF EdgeOk
<1> QED
  BY <1>1

\* The fields of a raw dataset.
LEMMA BronzeFields ==
  ASSUME NEW b
  PROVE  LET m == Bronze(b)
         IN  /\ m.layer = "bronze" /\ m.source = b.source /\ m.dataset = b.dataset
             /\ m.retrieved = b.received /\ m.available = b.available /\ m.provider = b.provider
             /\ m.body = b.body /\ m.count = Len(b.body) /\ m.license = b.license
             /\ m.parents = {} /\ m.quality = "RAW" /\ m.request = Request(b)
             /\ m.captured = b.captured
BY DEF Bronze

LEMMA SilverFields ==
  ASSUME NEW b, NEW raw
  PROVE  LET m == Silver(b, raw)
         IN  /\ m.layer = "silver" /\ m.source = b.source /\ m.dataset = b.dataset
             /\ m.retrieved = b.received /\ m.available = b.available /\ m.provider = b.provider
             /\ m.body = SilverBody(b) /\ m.count = Len(SilverBody(b)) /\ m.license = b.license
             /\ m.parents = {raw} /\ m.quality = "VALID" /\ m.request = Request(b)
             /\ m.captured = b.captured
BY DEF Silver, Bronze

LEMMA CapturedFields ==
  ASSUME NEW c
  PROVE  LET b == CapturedBatch(c)
         IN  /\ b.dataset = Alfred /\ b.received = c.received /\ b.available = c.received
             /\ b.provider = c.provider /\ b.body[1] = c.page /\ b.license = c.license
             /\ b.captured = {c}
BY DEF CapturedBatch, Alfred

LEMMA BronzeIsWellMade ==
  ASSUME NEW b, GoodBatch(b), Writable(Bronze(b), FALSE, TRUE)
  PROVE  WellMade(Bronze(b))
<1> DEFINE m == Bronze(b)
<1>1. /\ m.layer = "bronze" /\ m.retrieved = b.received /\ m.available = b.available
      /\ m.provider = b.provider /\ m.body = b.body /\ m.count = Len(b.body)
      /\ m.license = b.license /\ m.parents = {} /\ m.captured = b.captured
  BY BronzeFields
<1>2. m.available >= m.retrieved /\ m.provider <= m.retrieved /\ Writable(m, FALSE, TRUE)
  BY DEF Writable
<1> HIDE DEF m
<1>3. CapturedWell(m)
  <2> SUFFICES ASSUME NEW c \in b.captured
               PROVE  /\ ReceiptGood(c)
                      /\ m.retrieved = c.received /\ m.available = c.received
                      /\ m.provider = c.provider /\ RowOf(m) = c.page
    BY <1>1 DEF CapturedWell
  <2>1. ReceiptGood(c) /\ b = CapturedBatch(c)
    BY DEF GoodBatch
  <2>2. /\ b.received = c.received /\ b.available = c.received
        /\ b.provider = c.provider /\ b.body[1] = c.page
    BY <2>1, CapturedFields
  <2> QED
    BY <1>1, <2>1, <2>2 DEF RowOf
<1>4. m.license \in Licences /\ m.available \in Int
  BY <1>1 DEF GoodBatch, TimesTyped
<1>5. m.layer \in Layers /\ m.layer # "silver"
  BY <1>1 DEF Layers
<1>6. WellMade(m)
  BY <1>1, <1>2, <1>3, <1>4, <1>5 DEF WellMade
<1> QED
  BY <1>6 DEF m

\* The rows of a normalized dataset were available when the batch was.
LEMMA MappedInTime ==
  ASSUME NEW b, GoodBatch(b), b.dataset # Alfred, Accepts(b), NEW r \in Rows(Mapped(b.body))
  PROVE  r.available \in Int /\ r.available <= b.available
<1>1. /\ \A x \in Rows(b.body) : "available" \in DOMAIN x /\ x.available \in Int
      /\ \A x \in Rows(b.body) : x.available <= b.available
  BY DEF GoodBatch, Accepts, Collected, IsAlfred, Alfred
<1> DEFINE rows == b.body
<1>2. PICK i \in 1 .. Len(Mapped(rows)) : r = Mapped(rows)[i]
  BY DEF Rows
<1>3. i \in 1 .. Len(rows) /\ r = WithCanonical(rows[i])
  BY <1>2 DEF Mapped
<1>4. rows[i] \in Rows(rows)
  BY <1>3 DEF Rows
<1>5. r.available = rows[i].available
  <2>1. "available" \in DOMAIN rows[i] /\ "available" # "canonical"
    BY <1>1, <1>4
  <2>2. r["available"] = rows[i]["available"]
    BY <1>3, <2>1 DEF WithCanonical
  <2> QED
    BY <2>2
<1> QED
  BY <1>1, <1>4, <1>5

LEMMA SilverIsWellMade ==
  ASSUME NEW b, GoodBatch(b), Accepts(b), NonEmpty(b), NEW allowEmpty,
         Writable(Silver(b, Bronze(b)), FALSE, allowEmpty)
  PROVE  WellMade(Silver(b, Bronze(b)))
<1> DEFINE raw == Bronze(b)
           m == Silver(b, raw)
           page == b.body[1]
<1>1. /\ m.layer = "silver" /\ m.dataset = b.dataset /\ m.retrieved = b.received
      /\ m.available = b.available /\ m.provider = b.provider
      /\ m.body = SilverBody(b) /\ m.count = Len(SilverBody(b))
      /\ m.license = b.license /\ m.parents = {raw} /\ m.captured = b.captured
      /\ m.quality = "VALID" /\ m.request = Request(b)
  BY SilverFields
<1>2. raw.body = b.body /\ raw.request = Request(b)
  BY BronzeFields
<1>3. m.available >= m.retrieved /\ m.provider <= m.retrieved
  BY DEF Writable
<1>4. \A p \in m.parents : EdgeOk(p, m)
  BY WritableEdges
<1>5. m.license \in Licences /\ m.available \in Int
  BY <1>1 DEF GoodBatch, TimesTyped
<1> HIDE DEF m, raw
<1>6. ASSUME b.dataset = Alfred
      PROVE  RowOf(m).rows = NormalizeVintages(page)
  <2>1. SilverBody(b) = <<[rows |-> NormalizeVintages(page)]>>
    BY <1>6 DEF SilverBody, IsAlfred, Alfred
  <2> QED
    BY <2>1, <1>1 DEF RowOf
<1>7. ASSUME b.dataset = Alfred
      PROVE  VintagesWell(m)
  <2>1. SilverBody(b) = <<[rows |-> NormalizeVintages(page)]>>
    BY <1>7 DEF SilverBody, IsAlfred, Alfred
  <2>2. PageTyped(page) /\ PageOk(page) /\ NormalizeVintages(page) # {}
    BY <1>7 DEF GoodBatch, Accepts, CapturedOk, NonEmpty, IsAlfred, Alfred
  <2>3. RowOf(raw) = page
    BY <1>2 DEF RowOf
  <2>4. \A r \in Rows(m.body) : DOMAIN r = {"rows"}
    BY <2>1, <1>1 DEF Rows
  <2>5. m.retrieved \in Int
    BY <1>1 DEF GoodBatch, TimesTyped
  <2> HIDE DEF page
  <2> QED
    BY <1>1, <1>2, <1>6, <1>7, <2>2, <2>3, <2>4, <2>5 DEF VintagesWell
<1>8. ASSUME b.dataset # Alfred
      PROVE  RowsInTime(m)
  <2>1. m.body = Mapped(b.body)
    BY <1>1, <1>8 DEF SilverBody, IsAlfred, Alfred
  <2> QED
    BY <1>1, <1>8, <2>1, MappedInTime DEF RowsInTime
<1>9. CapturedWell(m)
  <2> SUFFICES ASSUME NEW c \in b.captured
               PROVE  /\ ReceiptGood(c)
                      /\ m.retrieved = c.received /\ m.available = c.received
                      /\ m.provider = c.provider
                      /\ CapturedOk(c.page) /\ RowOf(m).rows = NormalizeVintages(c.page)
    BY <1>1 DEF CapturedWell
  <2>1. ReceiptGood(c) /\ b = CapturedBatch(c)
    BY DEF GoodBatch
  <2>2. /\ b.received = c.received /\ b.available = c.received
        /\ b.provider = c.provider /\ b.body[1] = c.page /\ b.dataset = Alfred
    BY <2>1, CapturedFields
  <2>3. CapturedOk(page)
    BY <2>2 DEF Accepts, IsAlfred, Alfred
  <2> QED
    BY <1>1, <1>6, <2>1, <2>2, <2>3
<1>10. m.layer \in Layers /\ (m.layer = "bronze" <=> m.parents = {})
  BY <1>1 DEF Layers
<1>11. WellMade(m)
  BY <1>1, <1>3, <1>4, <1>5, <1>7, <1>8, <1>9, <1>10 DEF WellMade
<1> QED
  BY <1>11 DEF m, raw

LEMMA GoldFields ==
  ASSUME NEW p, NEW s, NEW a, NEW contract
  PROVE  LET m == Gold(p, s, a, contract)
         IN  /\ m.layer = "gold" /\ m.available = Max({x.available : x \in {p, s, a}})
             /\ Len(m.body) = 1 /\ m.count = 1 /\ m.license = contract.license
             /\ m.parents = {p, s, a} /\ m.quality = "VALID" /\ m.captured = {}
BY DEF Gold

LEMMA GoldIsWellMade ==
  ASSUME CatalogOk, NEW p, NEW s, NEW a, NEW contract, NEW mixed,
         contract.license \in Licences,
         Writable(Gold(p, s, a, contract), mixed, FALSE)
  PROVE  WellMade(Gold(p, s, a, contract))
<1> DEFINE m == Gold(p, s, a, contract)
<1>1. /\ m.layer = "gold" /\ m.available = Max({x.available : x \in {p, s, a}})
      /\ Len(m.body) = 1 /\ m.count = 1 /\ m.license = contract.license
      /\ m.parents = {p, s, a} /\ m.quality = "VALID" /\ m.captured = {}
  BY GoldFields
<1>2. m.available >= m.retrieved /\ m.provider <= m.retrieved
  BY DEF Writable
<1>3. (\A x \in m.parents : EdgeOk(x, m)) /\ m.parents \subseteq disk.manifest
  BY WritableEdges
<1> HIDE DEF m
<1>4. p.available \in Int /\ s.available \in Int /\ a.available \in Int
  BY <1>1, <1>3 DEF CatalogOk, WellMade
<1>5. m.available \in Int
  <2> DEFINE i == p.available
             j == s.available
             k == a.available
             T == {x.available : x \in {p, s, a}}
  <2>1. T = {i, j, k} /\ i \in Int /\ j \in Int /\ k \in Int
    BY <1>4
  <2> HIDE DEF i, j, k, T
  <2>2. \E x \in T : \A y \in T : x >= y
    BY <2>1
  <2>3. Max(T) \in T
    BY <2>2 DEF Max
  <2> QED
    BY <1>1, <2>1, <2>3 DEF T
<1>6. m.layer \in Layers /\ m.layer # "bronze" /\ m.layer # "silver" /\ m.parents # {}
  BY <1>1 DEF Layers
<1>7. CapturedWell(m)
  BY <1>1 DEF CapturedWell
<1>8. WellMade(m)
  BY <1>1, <1>2, <1>3, <1>5, <1>6, <1>7 DEF WellMade
<1> QED
  BY <1>8 DEF m

\* A step of one worker, and what it leaves of the other.
LEMMA JobUpdate ==
  ASSUME JobsOk, Grows, NEW w \in Workers, NEW j, job' = [job EXCEPT ![w] = j], JobOk(w, j)'
  PROVE  JobsOk'
<1>1. DOMAIN job' = Workers /\ job'[w] = j /\ \A v \in Workers : v # w => job'[v] = job[v]
  BY DEF JobsOk
<1>2. \A v \in Workers : \A i : JobOk(v, i) => JobOk(v, i)'
  BY JobStays
<1>3. \A v \in Workers : v # w => \A i : i = job[v] => JobOk(v, i)'
  BY <1>2 DEF JobsOk
<1>4. ASSUME NEW v \in Workers
      PROVE  JobOk(v, job[v])'
  <2>1. CASE v = w
    BY <2>1, <1>1
  <2>2. CASE v # w
    <3>1. PICK i : i = job[v]
      OBVIOUS
    <3>2. JobOk(v, i)' /\ job'[v] = i
      BY <1>1, <1>3, <2>2, <3>1
    <3> QED
      BY <3>2
  <2> QED
    BY <2>1, <2>2
<1> QED
  BY <1>1, <1>4 DEF JobsOk

LEMMA SameDisk ==
  ASSUME StoreInv, disk' = disk
  PROVE  DiskOk' /\ CatalogOk' /\ Grows
<1>1. Grows
  BY DEF Grows
<1>2. DiskOk'
  BY DEF StoreInv, DiskOk
<1>3. CatalogOk'
  BY <1>1, PlacedStays DEF StoreInv, CatalogOk
<1> QED
  BY <1>1, <1>2, <1>3

\* The jobs that hold no draft.
LEMMA PlainJobs ==
  ASSUME NEW w \in Workers
  PROVE  /\ JobOk(w, Idle)
         /\ \A b, bronze, silver : w = "collector" /\ GoodBatch(b) => JobOk(w, Reporting(b, bronze, silver))
         /\ \A b : w = "collector" /\ GoodBatch(b) => JobOk(w, [stage |-> "request", batch |-> b])
<1>1. JobOk(w, Idle)
  BY DEF JobOk, Idle
<1>2. ASSUME NEW b, NEW bronze, NEW silver, w = "collector", GoodBatch(b)
      PROVE  JobOk(w, Reporting(b, bronze, silver))
  BY <1>2 DEF JobOk, Reporting
<1>3. ASSUME NEW b, w = "collector", GoodBatch(b)
      PROVE  JobOk(w, [stage |-> "request", batch |-> b])
  BY <1>3 DEF JobOk
<1> QED
  BY <1>1, <1>2, <1>3

\* A step that only gives a worker a job that holds no draft, or stops it.
LEMMA PlainStep ==
  ASSUME StoreInv, disk' = disk, HealthOk', NEW w \in Workers, NEW j, JobOk(w, j),
         job' = [job EXCEPT ![w] = j]
  PROVE  StoreInv'
<1>1. DiskOk' /\ CatalogOk' /\ Grows
  BY SameDisk
<1>2. JobOk(w, j)'
  BY <1>1, JobStays
<1>3. JobsOk'
  BY <1>1, <1>2, JobUpdate DEF StoreInv
<1> QED
  BY <1>1, <1>3 DEF StoreInv

LEMMA QuietStep ==
  ASSUME StoreInv, disk' = disk, job' = job, health' = health
  PROVE  StoreInv'
<1>1. DiskOk' /\ CatalogOk' /\ Grows
  BY SameDisk
<1>2. \A v \in Workers : \A i : JobOk(v, i) => JobOk(v, i)'
  BY <1>1, JobStays
<1>3. JobsOk'
  <2>1. ASSUME NEW v \in Workers PROVE JobOk(v, job[v])'
    <3>1. PICK i : i = job[v]
      OBVIOUS
    <3>2. JobOk(v, i)'
      BY <1>2, <3>1 DEF StoreInv, JobsOk
    <3> QED
      BY <3>1, <3>2
  <2> QED
    BY <2>1 DEF StoreInv, JobsOk
<1> QED
  BY <1>1, <1>3 DEF StoreInv, HealthOk

\* Batches come from the providers.
LEMMA OfferedIsGood ==
  ASSUME NEW b, b \in Pages \/ \E d \in DOMAIN Offers : b \in Offers[d]
  PROVE  GoodBatch(b)
<1>1. BatchTyped(b)
  BY DatasetAssumption
<1> QED
  BY <1>1 DEF BatchTyped, GoodBatch, Alfred

LEMMA CapturedIsGood ==
  ASSUME NEW c \in Captures, CaptureOk(c)
  PROVE  GoodBatch(CapturedBatch(c))
<1> DEFINE b == CapturedBatch(c)
<1>1. TimesTyped(c) /\ PageTyped(c.page)
  BY DatasetAssumption
<1>2. ReceiptGood(c)
  BY <1>1 DEF CaptureOk, ReceiptGood
<1>3. /\ b.dataset = Alfred /\ b.received = c.received /\ b.available = c.received
      /\ b.provider = c.provider /\ b.body[1] = c.page /\ b.license = c.license
      /\ b.captured = {c}
  BY CapturedFields
<1>4. \A x \in b.captured : ReceiptGood(x) /\ b = CapturedBatch(x)
  BY <1>2, <1>3
<1> HIDE DEF b
<1>5. GoodBatch(b)
  BY <1>1, <1>3, <1>4 DEF GoodBatch, TimesTyped
<1> QED
  BY <1>5 DEF b

LEMMA StartKeeps ==
  ASSUME StoreInv, NEW b, GoodBatch(b), disk' = disk, health' = health,
         job' = [job EXCEPT !["collector"] = Started(b)]
  PROVE  StoreInv'
<1>1. "collector" \in Workers
  BY DEF Workers
<1>2. JobOk("collector", Started(b))
  BY <1>1, PlainJobs DEF Started
<1> DEFINE j == Started(b)
<1>3. JobOk("collector", j) /\ job' = [job EXCEPT !["collector"] = j]
  BY <1>2
<1>4. HealthOk'
  BY DEF StoreInv, HealthOk
<1>5. \A i : JobOk("collector", i) /\ job' = [job EXCEPT !["collector"] = i] => StoreInv'
  BY <1>1, <1>4, PlainStep
<1> QED
  BY <1>3, <1>5

LEMMA CollectorStarts ==
  ASSUME StoreInv,
         \/ StartPlan
         \/ \E b \in UNION {Offers[d] : d \in DOMAIN Offers} : CollectStage(b)
         \/ \E b \in Pages : IngestAlfred(b)
         \/ \E c \in Captures : IngestCaptured(c)
  PROVE  StoreInv'
<1>1. CASE StartPlan
  BY <1>1, QuietStep DEF StartPlan
<1>2. ASSUME NEW b \in UNION {Offers[d] : d \in DOMAIN Offers}, CollectStage(b)
      PROVE  StoreInv'
  <2>1. GoodBatch(b)
    BY OfferedIsGood
  <2>2. /\ disk' = disk /\ health' = health
        /\ job' = job \/ job' = [job EXCEPT !["collector"] = Started(b)]
    BY <1>2 DEF CollectStage
  <2> QED
    BY <2>1, <2>2, QuietStep, StartKeeps
<1>3. ASSUME NEW b \in Pages, IngestAlfred(b)
      PROVE  StoreInv'
  <2>1. GoodBatch(b)
    BY OfferedIsGood
  <2> QED
    BY <2>1, <1>3, StartKeeps DEF IngestAlfred, Ingest
<1>4. ASSUME NEW c \in Captures, IngestCaptured(c)
      PROVE  StoreInv'
  <2>1. GoodBatch(CapturedBatch(c))
    BY <1>4, CapturedIsGood DEF IngestCaptured
  <2>2. /\ disk' = disk /\ health' = health
        /\ job' = [job EXCEPT !["collector"] = Started(CapturedBatch(c))]
    BY <1>4 DEF IngestCaptured, Ingest
  <2> QED
    BY <2>1, <2>2, StartKeeps
<1> QED
  BY <1>1, <1>2, <1>3, <1>4

\* A job that is about to write a dataset.
LEMMA DraftingJob ==
  ASSUME NEW w \in Workers, NEW b, NEW m, NEW bronze, WellMade(m), Placed(m),
         w = "collector" => GoodBatch(b) /\ m.layer # "gold",
         w = "assembler" => m.layer = "gold",
         m.layer = "bronze" => m = Bronze(b)
  PROVE  JobOk(w, Drafting(b, m, bronze))
<1> DEFINE j == Drafting(b, m, bronze)
<1>1. /\ j.stage = "publish" /\ j.next = 1 /\ j.batch = b /\ j.draft = m
      /\ DOMAIN j = {"stage", "next", "batch", "draft", "bronze"}
  BY DEF Drafting
<1> HIDE DEF j
<1>2. DraftOk(w, j)
  BY <1>1 DEF DraftOk
<1>3. JobOk(w, j)
  BY <1>1, <1>2 DEF JobOk
<1> QED
  BY <1>3 DEF j

LEMMA RequestKeeps ==
  ASSUME StoreInv, CatalogRequest
  PROVE  StoreInv'
<1>1. "collector" \in Workers /\ HealthOk'
  BY DEF Workers, CatalogRequest, StoreInv, HealthOk
<1>2. PICK b : b = job["collector"].batch
  OBVIOUS
<1>3. GoodBatch(b)
  BY <1>1, <1>2 DEF CatalogRequest, StoreInv, JobsOk, JobOk
<1>4. CASE Request(b) \in bad.request \/ ~Writable(Bronze(b), FALSE, TRUE)
  <2>1. disk' = disk /\ job' = [job EXCEPT !["collector"] = Reporting(b, {}, {})]
    BY <1>2, <1>4 DEF CatalogRequest
  <2>2. JobOk("collector", Reporting(b, {}, {}))
    BY <1>1, <1>3, PlainJobs
  <2>3. PICK j : j = Reporting(b, {}, {})
    OBVIOUS
  <2> QED
    BY <1>1, <2>1, <2>2, <2>3, PlainStep
<1>5. CASE ~(Request(b) \in bad.request \/ ~Writable(Bronze(b), FALSE, TRUE))
  <2>1. /\ disk' = [disk EXCEPT !.request = disk.request \cup {Request(b)}]
        /\ job' = [job EXCEPT !["collector"] = Drafting(b, Bronze(b), {})]
    BY <1>2, <1>5 DEF CatalogRequest
  <2>2. DiskShape(disk) /\ disk.capture = Captures
    BY DEF StoreInv, DiskOk
  <2>3. /\ disk'.blob = disk.blob /\ disk'.manifest = disk.manifest
        /\ disk'.request = disk.request \cup {Request(b)} /\ disk'.capture = disk.capture
        /\ DOMAIN disk' = DOMAIN disk
    BY <2>1, <2>2 DEF DiskShape
  <2>4. Grows
    BY <2>3 DEF Grows
  <2>5. DiskOk'
    BY <2>2, <2>3 DEF DiskOk, DiskShape
  <2>6. CatalogOk'
    <3>1. \A m \in disk.manifest : WellMade(m) /\ Placed(m)' /\ m.body \in disk'.blob[m.layer]
      BY <2>3, <2>4, PlacedStays DEF StoreInv, CatalogOk
    <3> QED
      BY <2>3, <3>1 DEF CatalogOk
  <2>7. PICK m : m = Bronze(b)
    OBVIOUS
  <2>8. WellMade(m) /\ m.layer = "bronze" /\ m.parents = {} /\ m.request = Request(b)
    BY <1>3, <1>5, <2>7, BronzeIsWellMade, BronzeFields
  <2>9. Placed(m)'
    BY <2>3, <2>8 DEF Placed
  <2>10. PICK j : j = Drafting(b, m, {})
    OBVIOUS
  <2>11. /\ j.stage = "publish" /\ j.next = 1 /\ j.batch = b /\ j.draft = m
         /\ DOMAIN j = {"stage", "next", "batch", "draft", "bronze"}
    BY <2>10 DEF Drafting
  <2>12. DraftOk("collector", j)'
    BY <1>3, <2>7, <2>8, <2>9, <2>11 DEF DraftOk
  <2>13. JobOk("collector", j)'
    BY <2>11, <2>12 DEF JobOk
  <2>14. JobsOk'
    BY <1>1, <2>1, <2>4, <2>7, <2>10, <2>13, JobUpdate DEF StoreInv
  <2> QED
    BY <1>1, <2>5, <2>6, <2>14 DEF StoreInv
<1> QED
  BY <1>4, <1>5

LEMMA NormalizeKeeps ==
  ASSUME StoreInv, NormalizeRaw
  PROVE  StoreInv'
<1>1. "collector" \in Workers /\ HealthOk' /\ disk' = disk
  BY DEF Workers, NormalizeRaw, StoreInv, HealthOk
<1>2. PICK b : b = job["collector"].batch
  OBVIOUS
<1>3. /\ GoodBatch(b) /\ job["collector"].bronze = {Bronze(b)} /\ Bronze(b) \in disk.manifest
  BY <1>1, <1>2 DEF NormalizeRaw, StoreInv, JobsOk, JobOk
<1> DEFINE raw == CHOOSE m \in job["collector"].bronze : TRUE
<1>4. raw = Bronze(b)
  BY <1>3
<1> DEFINE ok == /\ b.status \in 200 .. 299 /\ Readable(raw)
                 /\ Accepts(b) /\ EntitiesKnown(b) /\ NonEmpty(b)
                 /\ Writable(Silver(b, raw), FALSE, AllowVerifiedEmpty(b.dataset))
<1>5. job' = [job EXCEPT !["collector"] =
                IF ok THEN Drafting(b, Silver(b, raw), job["collector"].bronze)
                ELSE Reporting(b, job["collector"].bronze, {})]
  BY <1>2 DEF NormalizeRaw
<1> HIDE DEF raw, ok
<1>6. PICK j : j = (IF ok THEN Drafting(b, Silver(b, raw), job["collector"].bronze)
                    ELSE Reporting(b, job["collector"].bronze, {}))
  OBVIOUS
<1>7. ASSUME ok PROVE JobOk("collector", j)
  <2> DEFINE m == Silver(b, raw)
  <2>1. WellMade(m)
    BY <1>3, <1>4, <1>7, SilverIsWellMade DEF ok
  <2>2. m.layer = "silver" /\ m.parents = {raw} /\ m.request = Request(b)
    BY SilverFields
  <2>3. Bronze(b).request = Request(b) /\ Bronze(b).layer = "bronze"
    BY BronzeFields
  <2>4. Bronze(b).request \in disk.request
    BY <1>3, <2>3 DEF StoreInv, CatalogOk, Placed
  <2> HIDE DEF m
  <2>5. Placed(m)
    BY <1>3, <1>4, <2>2, <2>3, <2>4 DEF Placed
  <2>6. j = Drafting(b, m, job["collector"].bronze)
    BY <1>6, <1>7 DEF m
  <2> QED
    BY <1>1, <1>3, <2>1, <2>2, <2>5, <2>6, DraftingJob
<1>8. ASSUME ~ok PROVE JobOk("collector", j)
  BY <1>1, <1>3, <1>6, <1>8, PlainJobs
<1>9. JobOk("collector", j) /\ job' = [job EXCEPT !["collector"] = j]
  BY <1>5, <1>6, <1>7, <1>8
<1> QED
  BY <1>1, <1>9, PlainStep

LEMMA HealthKeeps ==
  ASSUME StoreInv, ReportHealth
  PROVE  StoreInv'
<1>1. "collector" \in Workers /\ disk' = disk /\ job' = [job EXCEPT !["collector"] = Idle]
  BY DEF Workers, ReportHealth
<1>2. PICK b : b = job["collector"].batch
  OBVIOUS
<1>3. GoodBatch(b)
  BY <1>1, <1>2 DEF ReportHealth, StoreInv, JobsOk, JobOk
<1> DEFINE h == [source |-> b.source, dataset |-> b.dataset, retrieved |-> b.received,
                 ready |-> job["collector"].silver # {}, bronze |-> job["collector"].bronze,
                 silver |-> job["collector"].silver]
<1>4. health' = health \cup {h}
  BY <1>2 DEF ReportHealth
<1>5. HealthOk'
  <2>1. h.retrieved = b.received
    OBVIOUS
  <2> HIDE DEF h
  <2> QED
    BY <1>3, <1>4, <2>1 DEF StoreInv, HealthOk, GoodBatch, TimesTyped
<1>6. JobOk("collector", Idle)
  BY <1>1, PlainJobs
<1> QED
  BY <1>1, <1>5, <1>6, PlainStep

LEMMA AttachKeeps ==
  ASSUME StoreInv, Attach
  PROVE  StoreInv'
<1>1. "assembler" \in Workers
  BY DEF Workers
<1>2. PICK p, s, a, given : given \in {{}} \cup {{c} : c \in Contracts} /\ AttachPriceContext(p, s, a, given)
  BY DEF Attach
<1>3. disk' = disk /\ health' = health /\ ContextOk(p, s, a)
  BY <1>2 DEF AttachPriceContext
<1>4. PICK contract \in (IF given = {} THEN {OwnContract(p)} ELSE given) :
        /\ Writable(Gold(p, s, a, contract), Mixed(p, s, a), FALSE)
        /\ job' = [job EXCEPT !["assembler"] = Drafting(p, Gold(p, s, a, contract), {})]
  BY <1>2 DEF AttachPriceContext
<1>5. p \in disk.manifest
  BY <1>3, ReadableIsStored DEF ContextOk
<1>6. contract.license \in Licences
  <2>1. CASE given = {}
    BY <1>4, <1>5, <2>1 DEF OwnContract, StoreInv, CatalogOk, WellMade
  <2>2. CASE given # {}
    BY <1>2, <1>4, <2>2, DatasetAssumption
  <2> QED
    BY <2>1, <2>2
<1>7. PICK m : m = Gold(p, s, a, contract)
  OBVIOUS
<1>8. WellMade(m)
  BY <1>4, <1>6, <1>7, GoldIsWellMade DEF StoreInv
<1>9. m.layer = "gold"
  BY <1>7 DEF Gold
<1>10. Placed(m)
  BY <1>4, <1>7, <1>9, WritableEdges DEF Placed
<1>11. PICK j : j = Drafting(p, m, {})
  OBVIOUS
<1>12. JobOk("assembler", j)
  BY <1>1, <1>8, <1>9, <1>10, <1>11, DraftingJob
<1>13. HealthOk'
  BY <1>3 DEF StoreInv, HealthOk
<1> QED
  BY <1>1, <1>3, <1>4, <1>7, <1>11, <1>12, <1>13, PlainStep

LEMMA FaultsKeep ==
  ASSUME StoreInv, Damage \/ (\E w \in Workers : Crash(w)) \/ UNCHANGED dsvars
  PROVE  StoreInv'
<1>1. ASSUME NEW w \in Workers, Crash(w)
      PROVE  StoreInv'
  <2>1. disk' = disk /\ job' = [job EXCEPT ![w] = Idle] /\ health' = health
    BY <1>1 DEF Crash
  <2>2. HealthOk'
    BY <2>1 DEF StoreInv, HealthOk
  <2>3. JobOk(w, Idle)
    BY PlainJobs
  <2> QED
    BY <2>1, <2>2, <2>3, PlainStep
<1>2. CASE Damage \/ UNCHANGED dsvars
  BY <1>2, QuietStep DEF Damage, dsvars
<1> QED
  BY <1>1, <1>2

\* The blob, then the manifest: what each does to the disk.
LEMMA PublishedBlob ==
  ASSUME DiskOk, NEW m, m.layer \in Layers, disk' = Published("blob", m)
  PROVE  /\ DiskOk' /\ Grows
         /\ disk'.manifest = disk.manifest /\ m.body \in disk'.blob[m.layer]
<1>1. disk' = [disk EXCEPT !.blob[m.layer] = disk.blob[m.layer] \cup {m.body}]
  BY DEF Published
<1>2. DOMAIN disk = {"blob", "manifest", "request", "capture"} /\ DOMAIN disk.blob = Layers
  BY DEF DiskOk, DiskShape
<1>3. /\ disk'.manifest = disk.manifest /\ disk'.request = disk.request
      /\ disk'.capture = disk.capture /\ DOMAIN disk' = DOMAIN disk
      /\ disk'.blob = [disk.blob EXCEPT ![m.layer] = disk.blob[m.layer] \cup {m.body}]
  BY <1>1, <1>2
<1>4. /\ DOMAIN disk'.blob = Layers /\ m.body \in disk'.blob[m.layer]
      /\ \A l \in Layers : disk.blob[l] \subseteq disk'.blob[l]
  BY <1>2, <1>3
<1> QED
  BY <1>2, <1>3, <1>4 DEF DiskOk, DiskShape, Grows

LEMMA PublishedManifest ==
  ASSUME DiskOk, NEW m, disk' = Published("manifest", m)
  PROVE  /\ DiskOk' /\ Grows
         /\ disk'.manifest = disk.manifest \cup {m} /\ disk'.blob = disk.blob
<1>1. disk' = [disk EXCEPT !.manifest = disk.manifest \cup {m}]
  BY DEF Published
<1>2. DOMAIN disk = {"blob", "manifest", "request", "capture"} /\ DOMAIN disk.blob = Layers
  BY DEF DiskOk, DiskShape
<1>3. /\ disk'.manifest = disk.manifest \cup {m} /\ disk'.request = disk.request
      /\ disk'.capture = disk.capture /\ DOMAIN disk' = DOMAIN disk
      /\ disk'.blob = disk.blob
  BY <1>1, <1>2
<1> QED
  BY <1>2, <1>3 DEF DiskOk, DiskShape, Grows

LEMMA PublishKeeps ==
  ASSUME StoreInv, NEW w \in Workers, Publish(w)
  PROVE  StoreInv'
<1>1. HealthOk'
  BY DEF Publish, StoreInv, HealthOk
<1>2. PICK j : j = job[w]
  OBVIOUS
<1>3. DraftOk(w, j) /\ j.stage = "publish" /\ (w = "collector" \/ w = "assembler")
  BY <1>2 DEF Publish, StoreInv, JobsOk, JobOk, Workers
<1>4. PICK m : m = j.draft
  OBVIOUS
<1>5. /\ WellMade(m) /\ Placed(m) /\ m.layer \in Layers
      /\ j.next \in {1, 2} /\ (j.next = 2 => m.body \in disk.blob[m.layer])
      /\ w = "collector" => GoodBatch(j.batch) /\ m.layer # "gold"
      /\ w = "assembler" => m.layer = "gold"
      /\ m.layer = "bronze" => m = Bronze(j.batch)
  BY <1>3, <1>4 DEF DraftOk, WellMade
<1>6. PublishOrder[1] = "blob" /\ PublishOrder[2] = "manifest"
  BY DEF PublishOrder
<1>7. CASE ~CanPublish(PublishOrder[j.next], m)
  <2>1. PICK i : i = IF w = "collector" THEN Reporting(j.batch, j.bronze, {}) ELSE Idle
    OBVIOUS
  <2>2. disk' = disk /\ job' = [job EXCEPT ![w] = i]
    BY <1>2, <1>4, <1>7, <2>1 DEF Publish
  <2>3. JobOk(w, i)
    BY <1>5, <2>1, PlainJobs
  <2> QED
    BY <1>1, <2>2, <2>3, PlainStep
<1>8. CASE CanPublish(PublishOrder[j.next], m) /\ j.next = 1
  <2>1. PICK i : i = [j EXCEPT !.next = 2]
    OBVIOUS
  <2>2. disk' = Published("blob", m) /\ job' = [job EXCEPT ![w] = i]
    BY <1>2, <1>4, <1>6, <1>8, <2>1 DEF Publish
  <2>3. /\ DiskOk' /\ Grows
        /\ disk'.manifest = disk.manifest /\ m.body \in disk'.blob[m.layer]
    BY <1>5, <2>2, PublishedBlob DEF StoreInv
  <2>4. CatalogOk'
    <3>1. \A x \in disk.manifest : WellMade(x) /\ Placed(x)' /\ x.body \in disk'.blob[x.layer]
      BY <2>3, PlacedStays DEF StoreInv, CatalogOk, Grows, WellMade
    <3> QED
      BY <2>3, <3>1 DEF CatalogOk
  <2>5. /\ i.stage = "publish" /\ i.draft = m /\ i.batch = j.batch /\ i.next = 2
        /\ DOMAIN i = {"stage", "next", "batch", "draft", "bronze"}
    <3>1. DOMAIN j = {"stage", "next", "batch", "draft", "bronze"}
      BY <1>3 DEF DraftOk
    <3> QED
      BY <1>3, <1>4, <2>1, <3>1
  <2>6. Placed(m)'
    BY <1>5, <2>3, PlacedStays
  <2>7. DraftOk(w, i)'
    BY <1>5, <2>3, <2>5, <2>6 DEF DraftOk
  <2>8. JobOk(w, i)'
    BY <1>3, <2>5, <2>7 DEF JobOk
  <2>9. JobsOk'
    BY <2>2, <2>3, <2>8, JobUpdate DEF StoreInv
  <2> QED
    BY <1>1, <2>3, <2>4, <2>9 DEF StoreInv
<1>9. CASE CanPublish(PublishOrder[j.next], m) /\ j.next = 2
  <2>1. PICK i : i = IF m.layer = "gold" THEN Idle
                     ELSE IF m.layer = "silver" THEN Reporting(j.batch, j.bronze, {m})
                     ELSE [stage |-> "normalize", batch |-> j.batch, bronze |-> {m}]
    OBVIOUS
  <2>2. disk' = Published("manifest", m) /\ job' = [job EXCEPT ![w] = i]
    BY <1>2, <1>4, <1>6, <1>9, <2>1 DEF Publish
  <2>3. /\ DiskOk' /\ Grows
        /\ disk'.manifest = disk.manifest \cup {m} /\ disk'.blob = disk.blob
    BY <2>2, PublishedManifest DEF StoreInv
  <2>4. CatalogOk'
    <3>1. \A x \in disk.manifest : WellMade(x) /\ Placed(x)' /\ x.body \in disk'.blob[x.layer]
      BY <2>3, PlacedStays DEF StoreInv, CatalogOk
    <3>2. WellMade(m) /\ Placed(m)' /\ m.body \in disk'.blob[m.layer]
      BY <1>5, <1>9, <2>3, PlacedStays
    <3> QED
      BY <2>3, <3>1, <3>2 DEF CatalogOk
  <2>5. JobOk(w, i)'
    <3>1. CASE m.layer = "gold"
      <4>1. JobOk(w, i)
        BY <2>1, <3>1, PlainJobs
      <4> QED
        BY <2>3, <4>1, JobStays
    <3>2. CASE m.layer = "silver"
      <4>1. JobOk(w, i)
        BY <1>3, <1>5, <2>1, <3>2, PlainJobs
      <4> QED
        BY <2>3, <4>1, JobStays
    <3>3. CASE m.layer = "bronze"
      <4>1. i.stage = "normalize" /\ i.batch = j.batch /\ i.bronze = {m}
        BY <2>1, <3>3
      <4>2. w = "collector" /\ GoodBatch(j.batch) /\ m = Bronze(j.batch) /\ m \in disk'.manifest
        BY <1>3, <1>5, <2>3, <3>3
      <4> QED
        BY <4>1, <4>2 DEF JobOk
    <3> QED
      BY <1>5, <3>1, <3>2, <3>3 DEF Layers
  <2>6. JobsOk'
    BY <2>2, <2>3, <2>5, JobUpdate DEF StoreInv
  <2> QED
    BY <1>1, <2>3, <2>4, <2>6 DEF StoreInv
<1> QED
  BY <1>5, <1>7, <1>8, <1>9

\* The invariant of the dataset store, for any providers' answers, and
\* workers that stop and files that are damaged anywhere.
THEOREM StoreInvariant == DSSpec => []StoreInv
<1>1. DSInit => StoreInv
  BY StoreInvInit
<1>2. StoreInv /\ [DSNext]_dsvars => StoreInv'
  BY CollectorStarts, RequestKeeps, NormalizeKeeps, HealthKeeps, AttachKeeps, FaultsKeep,
     PublishKeeps DEF DSNext
<1> QED
  BY <1>1, <1>2, PTL DEF DSSpec

-----------------------------------------------------------------------------
LEMMA LineageStored ==
  ASSUME StoreInv, NEW m \in disk.manifest, NEW a \in Lineage(m)
  PROVE  /\ a \in disk.manifest /\ WellMade(a) /\ Placed(a) /\ a.body \in disk.blob[a.layer]
         /\ a = m \/ a \in m.parents \/ \E p \in m.parents : a \in p.parents
<1>1. a = m \/ a \in m.parents \/ \E p \in m.parents : a \in p.parents
  BY DEF Lineage, Ancestors
<1>2. \A x \in disk.manifest : x.parents \subseteq disk.manifest
  BY DEF StoreInv, CatalogOk, Placed
<1>3. a \in disk.manifest
  BY <1>1, <1>2
<1> QED
  BY <1>1, <1>3 DEF StoreInv, CatalogOk

\* A dataset is available no earlier than what it is made of.
LEMMA LineageInTime ==
  ASSUME StoreInv, NEW m \in disk.manifest, NEW a \in Lineage(m)
  PROVE  a.available <= m.available /\ a.available \in Int /\ m.available \in Int
<1>1. \A x \in disk.manifest : /\ x.available \in Int /\ x.parents \subseteq disk.manifest
                               /\ \A p \in x.parents : p.available <= x.available
  BY DEF StoreInv, CatalogOk, WellMade, Placed, EdgeOk
<1>2. CASE a = m
  BY <1>1, <1>2
<1>3. CASE a \in m.parents
  BY <1>1, <1>3
<1>4. ASSUME NEW p \in m.parents, a \in p.parents
      PROVE  a.available <= m.available /\ a.available \in Int /\ m.available \in Int
  <2>1. p \in disk.manifest /\ a \in disk.manifest
    BY <1>1, <1>4
  <2>2. a.available <= p.available /\ p.available <= m.available
    BY <1>1, <1>4, <2>1
  <2> QED
    BY <1>1, <2>1, <2>2
<1> QED
  BY <1>2, <1>3, <1>4, LineageStored

LEMMA NoLookAhead ==
  ASSUME StoreInv
  PROVE  NothingFromTheFuture
<1>1. ASSUME NEW m \in disk.manifest, NEW a \in Lineage(m)
      PROVE  /\ a.available <= m.available
             /\ a.layer = "silver" =>
                  \A r \in Rows(a.body) : "available" \in DOMAIN r => r.available <= m.available
  <2>1. a.available <= m.available /\ a.available \in Int /\ m.available \in Int
    BY LineageInTime
  <2>2. WellMade(a)
    BY LineageStored
  <2>3. ASSUME a.layer = "silver", NEW r \in Rows(a.body), "available" \in DOMAIN r
        PROVE  r.available <= m.available
    <3>1. CASE a.dataset = Alfred
      <4>1. DOMAIN r = {"rows"}
        BY <2>2, <2>3, <3>1 DEF WellMade, VintagesWell
      <4> QED
        BY <4>1, <2>3
    <3>2. CASE a.dataset # Alfred
      <4>1. r.available \in Int /\ r.available <= a.available
        BY <2>2, <2>3, <3>2 DEF WellMade, RowsInTime
      <4> QED
        BY <2>1, <4>1
    <3> QED
      BY <3>1, <3>2
  <2> QED
    BY <2>1, <2>3
<1>2. ASSUME NEW h \in health, NEW m \in Latest(h.source, "daily-prices", h.retrieved)
      PROVE  m.available <= h.retrieved /\ \A r \in Rows(m.body) : r.available <= h.retrieved
  <2>1. /\ m \in disk.manifest /\ m.dataset = "daily-prices" /\ m.layer = "silver"
        /\ m.available <= h.retrieved
    BY DEF Latest
  <2>2. h.retrieved \in Int /\ m.available \in Int
    BY <2>1 DEF StoreInv, HealthOk, CatalogOk, WellMade
  <2>3. RowsInTime(m)
    BY <2>1 DEF StoreInv, CatalogOk, WellMade, Alfred
  <2>4. \A r \in Rows(m.body) : r.available <= h.retrieved
    BY <2>1, <2>2, <2>3 DEF RowsInTime
  <2> QED
    BY <2>1, <2>4
<1> QED
  BY <1>1, <1>2 DEF NothingFromTheFuture

LEMMA LicenceKept ==
  ASSUME StoreInv
  PROVE  LicenceIsKept
<1>1. ASSUME NEW m \in disk.manifest, m.license = "permitted", NEW p \in m.parents
      PROVE  p.license = "permitted" /\ p \in disk.manifest
  <2>1. p \in disk.manifest /\ EdgeOk(p, m)
    BY DEF StoreInv, CatalogOk, WellMade, Placed
  <2>2. p.license \in Licences
    BY <2>1 DEF StoreInv, CatalogOk, WellMade
  <2> QED
    BY <1>1, <2>1, <2>2 DEF EdgeOk, Licences
<1> SUFFICES ASSUME NEW m \in disk.manifest, m.license = "permitted", NEW a \in Ancestors(m)
             PROVE  a.license = "permitted"
  BY DEF LicenceIsKept
<1>2. a \in m.parents \/ \E p \in m.parents : a \in p.parents
  BY DEF Ancestors
<1> QED
  BY <1>1, <1>2

\* What a dataset claims of itself holds for everything it is made of, for any
\* providers, batches and price contexts: nothing in it became available later
\* than it says, and what may be redistributed is made only of what may
\* (ImmutableDatasetStore.write and read each check one step).
THEOREM ClaimsHold == DSSpec => []ClaimsHoldForLineage
<1>1. StoreInv => ClaimsHoldForLineage
  BY NoLookAhead, LicenceKept DEF ClaimsHoldForLineage
<1> QED
  BY <1>1, StoreInvariant, PTL

-----------------------------------------------------------------------------
LEMMA UntouchedIsVerified ==
  ASSUME StoreInv, NEW m \in disk.manifest, ~Touched(m)
  PROVE  Verified(m)
<1>1. WellMade(m) /\ Placed(m) /\ m.body \in disk.blob[m.layer] /\ disk.capture = Captures
  BY DEF StoreInv, CatalogOk, DiskOk
<1>2. /\ m \notin bad.manifest /\ m.body \notin bad.blob[m.layer]
      /\ m.request \notin bad.request /\ m.captured \cap bad.capture = {}
  BY DEF Touched
<1>3. ManifestOk(m) /\ BlobIntact(m)
  BY <1>1, <1>2 DEF ManifestOk, BlobIntact, Intact, WellMade
<1>4. ASSUME IsCaptured(m) PROVE CapturedLineageOk(m)
  <2> SUFFICES ASSUME NEW c \in m.captured
               PROVE  /\ CaptureOk(c)
                      /\ Intact("request", m.request)
                      /\ m.retrieved = c.received /\ m.available = c.received
                      /\ m.provider = c.provider
                      /\ m.layer = "bronze" => RowOf(m) = c.page
                      /\ m.layer = "silver" => /\ CapturedOk(c.page)
                                               /\ RowOf(m).rows = NormalizeVintages(c.page)
    BY DEF CapturedLineageOk
  <2>1. CapturedWell(m)
    BY <1>1 DEF WellMade
  <2>2. ReceiptGood(c)
    BY <2>1 DEF CapturedWell
  <2>3. CaptureOk(c)
    BY <1>1, <1>2, <2>2 DEF CaptureOk, Intact, ReceiptGood
  <2>4. m.layer # "gold"
    BY <1>1 DEF WellMade
  <2>5. Intact("request", m.request)
    BY <1>1, <1>2, <2>4 DEF Intact, Placed
  <2> QED
    BY <2>1, <2>3, <2>5 DEF CapturedWell
<1> QED
  BY <1>1, <1>3, <1>4 DEF Verified, WellMade

LEMMA PublishedWhole ==
  ASSUME StoreInv, NEW m \in disk.manifest, \A a \in Lineage(m) : ~Touched(a)
  PROVE  Readable(m)
BY UntouchedIsVerified, LineageStored DEF Readable

LEMMA AuditIsComplete ==
  ASSUME StoreInv
  PROVE  AuditFindsAll
<1> SUFFICES ASSUME NEW m \in disk.manifest, m \notin Blocked
             PROVE  /\ Readable(m)
                    /\ \A a \in Lineage(m) : a.layer = "bronze" => ReceiptOk(a)
  BY DEF AuditFindsAll
<1> DEFINE one == Invalid \cup Affected(Invalid)
<1>1. m \notin Invalid /\ m \notin Affected(Invalid) /\ m \notin Affected(one)
  BY DEF Blocked
<1>2. Readable(m)
  BY <1>1 DEF Invalid
<1>3. \A a \in Lineage(m) : ManifestOk(a) /\ a \in disk.manifest
  BY <1>2, LineageStored DEF Readable, Verified
<1>4. ASSUME NEW a \in Lineage(m), a.layer = "bronze", ~ReceiptOk(a)
      PROVE  FALSE
  <2>1. a \in Invalid
    BY <1>3, <1>4 DEF Invalid
  <2>2. m \in Lineage(m) /\ \A p \in m.parents : p \in Lineage(m)
    BY DEF Lineage, Ancestors
  <2>3. CASE a = m
    BY <1>1, <2>1, <2>3
  <2>4. CASE a \in m.parents
    BY <1>1, <1>3, <2>1, <2>2, <2>4 DEF Affected
  <2>5. ASSUME NEW p \in m.parents, a \in p.parents
        PROVE  FALSE
    <3>1. p \in Affected(Invalid)
      BY <1>3, <2>1, <2>2, <2>5 DEF Affected
    <3>2. m \in Affected(one)
      BY <1>3, <2>2, <2>5, <3>1 DEF Affected
    <3> QED
      BY <1>1, <3>2
  <2> QED
    BY <2>3, <2>4, <2>5, LineageStored
<1> QED
  BY <1>2, <1>4

\* A dataset that cannot be read, or whose origin can no longer be shown, was
\* damaged from outside and is found by audit_receipts, wherever writers stop.
THEOREM DamageIsAlwaysFound == DSSpec => []DamageIsFound
<1>1. StoreInv => DamageIsFound
  BY PublishedWhole, AuditIsComplete DEF DamageIsFound, PublishedIsWhole
<1> QED
  BY <1>1, StoreInvariant, PTL

-----------------------------------------------------------------------------
\* The versions a page states begin on a day.
LEMMA VersionsTyped ==
  ASSUME NEW page, PageTyped(page), NEW v \in Versions(page)
  PROVE  v.from \in Nat /\ v.to \in Nat /\ DOMAIN v = {"period", "from", "to", "value"}
<1>1. CASE page.outputType = 1
  <2>1. PICK o \in Rows(page.observations) : \E x \in o.columns :
             v = [period |-> o.period, from |-> x.from, to |-> x.to, value |-> x.value]
    BY <1>1 DEF Versions
  <2>2. \A x \in o.columns : x.from \in Nat /\ x.to \in Nat
    BY <2>1 DEF PageTyped
  <2> QED
    BY <2>1, <2>2
<1>2. CASE page.outputType # 1
  <2>1. PICK o \in Rows(page.observations) : \E x \in o.columns :
             v = [period |-> o.period, from |-> x.from, to |-> Forever, value |-> x.value]
    BY <1>2 DEF Versions
  <2>2. Forever \in Nat /\ \A x \in o.columns : x.from \in Nat
    BY <2>1 DEF PageTyped, Forever
  <2> QED
    BY <2>1, <2>2
<1> QED
  BY <1>1, <1>2

\* The day on which a version is replaced, when it is.
ClosedOn(v, versions) ==
  IF Following(v, versions) = {} THEN Forever
  ELSE Min({w.from : w \in Following(v, versions)}) - 1

\* A version of type 3 ends before the next one of its period begins.
LEMMA ClosedBeforeNext ==
  ASSUME NEW page, PageTyped(page), NEW v \in Versions(page), NEW w \in Versions(page),
         v.period = w.period, v.from < w.from
  PROVE  ClosedOn(v, Versions(page)) < w.from
<1> DEFINE later == Following(v, Versions(page))
           T == {x.from : x \in later}
<1>1. w \in later
  BY DEF Following
<1>2. \A x \in later : x \in Versions(page)
  BY DEF Following
<1>3. T \subseteq Nat
  BY <1>2, VersionsTyped
<1>4. w.from \in T
  BY <1>1
<1> HIDE DEF T
<1>5. Min(T) \in Nat /\ Min(T) <= w.from
  BY <1>3, <1>4, MinOfNumbers
<1>6. ClosedOn(v, Versions(page)) = Min(T) - 1
  BY <1>1 DEF ClosedOn, T
<1>7. w.from \in Nat
  BY VersionsTyped
<1> QED
  BY <1>5, <1>6, <1>7

\* It ends on a day.
LEMMA ClosedIsDay ==
  ASSUME NEW page, PageTyped(page), NEW v \in Versions(page)
  PROVE  ClosedOn(v, Versions(page)) \in Int
<1> DEFINE later == Following(v, Versions(page))
           T == {x.from : x \in later}
<1>1. CASE later = {}
  BY <1>1 DEF ClosedOn, Forever
<1>2. CASE later # {}
  <2>1. T \subseteq Nat /\ T # {}
    BY <1>2, VersionsTyped DEF Following
  <2> HIDE DEF T
  <2>2. Min(T) \in Nat
    BY <2>1, MinOfNumbers
  <2>3. ClosedOn(v, Versions(page)) = Min(T) - 1
    BY <1>2 DEF ClosedOn, T
  <2> QED
    BY <2>2, <2>3
<1> QED
  BY <1>1, <1>2

\* Of the vintages of one page no two of a period are in force on a day.
LEMMA OneInForce ==
  ASSUME NEW page, PageTyped(page), PageOk(page), NEW date \in Int,
         NEW v \in NormalizeVintages(page), NEW w \in NormalizeVintages(page),
         v.period = w.period, v.from <= date, date <= v.to, w.from <= date, date <= w.to
  PROVE  v = w
<1> DEFINE all == Versions(page)
<1>1. \A x, y \in all : x.period = y.period /\ x.from = y.from => x = y
  BY DEF PageOk
<1>2. CASE page.outputType = 1
  <2>1. v \in all /\ w \in all
    BY <1>2 DEF NormalizeVintages
  <2>2. /\ v.from \in Nat /\ v.to \in Nat
        /\ w.from \in Nat /\ w.to \in Nat
    BY <2>1, VersionsTyped
  <2>3. /\ v.from < w.from => v.to < w.from
        /\ w.from < v.from => w.to < v.from
    BY <1>2, <2>1, <2>2 DEF PageOk, Following
  <2>4. v.from = w.from
    BY <2>2, <2>3
  <2> QED
    BY <1>1, <2>1, <2>4
<1>3. CASE page.outputType # 1
  <2>1. NormalizeVintages(page) = {[x EXCEPT !.to = ClosedOn(x, all)] : x \in all}
    BY <1>3 DEF NormalizeVintages, ClosedOn
  <2>2. PICK x \in all : v = [x EXCEPT !.to = ClosedOn(x, all)]
    BY <2>1
  <2>3. PICK y \in all : w = [y EXCEPT !.to = ClosedOn(y, all)]
    BY <2>1
  <2>4. /\ x.from \in Nat /\ DOMAIN x = {"period", "from", "to", "value"}
        /\ y.from \in Nat /\ DOMAIN y = {"period", "from", "to", "value"}
    BY VersionsTyped
  <2>5. /\ v.from = x.from /\ v.period = x.period /\ v.to = ClosedOn(x, all)
        /\ w.from = y.from /\ w.period = y.period /\ w.to = ClosedOn(y, all)
    BY <2>2, <2>3, <2>4
  <2>6. ASSUME x.from < y.from PROVE FALSE
    <3>1. v.to < y.from
      BY <2>5, <2>6, ClosedBeforeNext
    <3>2. v.to \in Int
      BY <2>5, <2>4, ClosedIsDay
    <3> QED
      BY <2>4, <2>5, <3>1, <3>2
  <2>7. ASSUME y.from < x.from PROVE FALSE
    <3>1. w.to < x.from
      BY <2>5, <2>7, ClosedBeforeNext
    <3>2. w.to \in Int
      BY <2>5, <2>4, ClosedIsDay
    <3> QED
      BY <2>4, <2>5, <3>1, <3>2
  <2>8. x.from = y.from
    BY <2>4, <2>6, <2>7
  <2>9. x = y
    BY <1>1, <2>5, <2>8
  <2> QED
    BY <2>2, <2>3, <2>9
<1> QED
  BY <1>2, <1>3

\* What a dataset of vintages is, once it is in the catalogue.
LEMMA VintagesStored ==
  ASSUME StoreInv, NEW m \in Of("series-observation-revisions")
  PROVE  /\ m \in disk.manifest /\ WellMade(m) /\ Placed(m) /\ VintagesWell(m)
         /\ m.layer = "silver" /\ m.quality = "VALID" /\ m.available \in Int
<1>1. m \in disk.manifest /\ m.layer = "silver" /\ m.dataset = Alfred
  BY DEF Of, Alfred
<1>2. WellMade(m) /\ Placed(m)
  BY <1>1 DEF StoreInv, CatalogOk
<1> QED
  BY <1>1, <1>2 DEF WellMade

LEMMA VintagesInForce ==
  ASSUME StoreInv
  PROVE  OneValueInForce
<1> SUFFICES ASSUME NEW m \in Of("series-observation-revisions"), NEW date \in 0 .. m.retrieved,
                    NEW rows, rows = ReadVintageRows(m, m.available, date)
             PROVE  /\ \A v, w \in {x \in rows : x.from <= date /\ date <= x.to} :
                          v.period = w.period => v = w
                    /\ (\A a \in Lineage(m) : ~Touched(a)) =>
                          (rows = {} <=> (\/ date \notin RawPage(m).from .. RawPage(m).to
                                          \/ date = m.retrieved))
  BY DEF OneValueInForce
<1>1. /\ m \in disk.manifest /\ Placed(m)
      /\ m.layer = "silver" /\ m.quality = "VALID" /\ m.available \in Int
  BY VintagesStored
<1>2. VintagesWell(m)
  BY VintagesStored
<1>3. m.retrieved \in Int
  BY <1>2 DEF VintagesWell
<1>4. PICK p : /\ m.parents = {p} /\ p.request = m.request
               /\ PageTyped(RowOf(p)) /\ PageOk(RowOf(p))
               /\ RowOf(m).rows = NormalizeVintages(RowOf(p)) /\ RowOf(m).rows # {}
  BY <1>2 DEF VintagesWell
<1>5. RawPage(m) = RowOf(p)
  BY <1>4 DEF RawPage
<1>6. date \in Int /\ date <= m.retrieved
  BY <1>3
<1>7. rows = {} \/ rows = NormalizeVintages(RowOf(p))
  BY <1>4 DEF ReadVintageRows
<1>8. \A v, w \in {x \in rows : x.from <= date /\ date <= x.to} : v.period = w.period => v = w
  BY <1>4, <1>6, <1>7, OneInForce
<1>9. ASSUME \A a \in Lineage(m) : ~Touched(a)
      PROVE  rows = {} <=> (date \notin RawPage(m).from .. RawPage(m).to \/ date = m.retrieved)
  <2>1. Readable(m)
    BY <1>1, <1>9, PublishedWhole
  <2>2. Cardinality(m.parents) = 1
    BY <1>4, FS_Singleton
  <2>3. ~Touched(m)
    BY <1>9 DEF Lineage
  <2>4. Intact("request", m.request)
    BY <1>1, <2>3 DEF Placed, Touched, Intact
  <2>5. \A q \in m.parents : q.request = m.request
    BY <1>4
  <2>6. RowOf(m).rows = NormalizeVintages(RawPage(m))
    BY <1>4, <1>5
  <2>7. rows = IF date \in RawPage(m).from .. RawPage(m).to /\ date < m.retrieved
               THEN RowOf(m).rows ELSE {}
    BY <1>1, <2>1, <2>2, <2>4, <2>5, <2>6 DEF ReadVintageRows
  <2>8. date < m.retrieved <=> date # m.retrieved
    BY <1>3, <1>6
  <2> QED
    BY <1>4, <2>7, <2>8
<1> QED
  BY <1>8, <1>9

\* Of the vintages a consumer is given for a day no two of a period are in
\* force, and no dataset whose files are intact is refused on a day its page
\* covers, for any page the provider states (normalize_vintages,
\* read_vintage_rows).
THEOREM OneVintageInForce == DSSpec => []OneValueInForce
<1>1. StoreInv => OneValueInForce
  BY VintagesInForce
<1> QED
  BY <1>1, StoreInvariant, PTL

-----------------------------------------------------------------------------
(* The backtest                                                            *)

\* The stored bars: one table per released date, each bar available a fixed
\* number of dates after its session.
BarsOk(bs, n, lag) ==
  /\ n \in Nat /\ lag \in Nat /\ DOMAIN bs = 1 .. n
  /\ \A d \in 1 .. n : \A s \in DOMAIN bs[d] : bs[d][s].avail = d + lag

\* The dates of the panel grow and have a bar of every symbol.
PanelUpTo(bs, n, dates) ==
  /\ dates \in Seq(Nat)
  /\ \A i \in DOMAIN dates : dates[i] \in 1 .. n /\ Symbols \subseteq DOMAIN bs[dates[i]]
  /\ \A i, j \in DOMAIN dates : i < j => dates[i] < dates[j]

NextHistory(bs, before, n) ==
  IF Symbols \subseteq DOMAIN bs[n] THEN Append(before, n) ELSE before
IsHistory(f, bs, n) ==
  f = [k \in 0 .. n |-> IF k = 0 THEN <<>>
                        ELSE IF Symbols \subseteq DOMAIN bs[k] THEN Append(f[k - 1], k)
                        ELSE f[k - 1]]

LEMMA HistoryIs ==
  ASSUME NEW bs, NEW n, n = Cardinality(DOMAIN bs)
  PROVE  CommonHistory(bs) = (CHOOSE f : IsHistory(f, bs, n))[n]
BY DEF CommonHistory, IsHistory

LEMMA HistoryExists ==
  ASSUME NEW bs, NEW n \in Nat
  PROVE  \E f : IsHistory(f, bs, n)
<1> DEFINE G == {k \in 0 .. n : \E f : IsHistory(f, bs, k)}
<1>1. 0 \in G
  <2> DEFINE f == [k \in 0 .. 0 |-> <<>>]
  <2>1. IsHistory(f, bs, 0)
    BY DEF IsHistory
  <2> QED
    BY <2>1
<1>2. ASSUME NEW k \in 0 .. n, k \in G, k < n PROVE k + 1 \in G
  <2>1. PICK f : IsHistory(f, bs, k)
    BY <1>2
  <2> DEFINE g == [m \in 0 .. (k + 1) |-> IF m = 0 THEN <<>> ELSE NextHistory(bs, f[m - 1], m)]
  <2>2. \A m \in 0 .. k : f[m] = IF m = 0 THEN <<>> ELSE NextHistory(bs, f[m - 1], m)
    BY <2>1 DEF IsHistory, NextHistory
  <2>3. \A m \in 0 .. k : g[m] = f[m]
    BY <2>2
  <2>4. \A m \in 0 .. (k + 1) : m # 0 => g[m - 1] = f[m - 1]
    <3>1. \A m \in 0 .. (k + 1) : m # 0 => m - 1 \in 0 .. k
      OBVIOUS
    <3> HIDE DEF g
    <3> QED
      BY <2>3, <3>1
  <2>5. g = [m \in 0 .. (k + 1) |-> IF m = 0 THEN <<>> ELSE NextHistory(bs, g[m - 1], m)]
    BY <2>4
  <2>6. IsHistory(g, bs, k + 1)
    BY <2>5 DEF IsHistory, NextHistory
  <2> QED
    BY <1>2, <2>6
<1> HIDE DEF G
<1>3. \A k \in 0 .. n : k \in G
  BY <1>1, <1>2, CountUp
<1>4. n \in G
  BY <1>3
<1> QED
  BY <1>4 DEF G

LEMMA PanelGrows ==
  ASSUME NEW bs, NEW n \in Nat, NEW dates, PanelUpTo(bs, n, dates)
  PROVE  PanelUpTo(bs, n + 1, NextHistory(bs, dates, n + 1))
<1> DEFINE next == Append(dates, n + 1)
<1>1. dates \in Seq(Nat) /\ n + 1 \in Nat /\ Len(dates) \in Nat /\ DOMAIN dates = 1 .. Len(dates)
  BY DEF PanelUpTo
<1>2. CASE Symbols \subseteq DOMAIN bs[n + 1]
  <2>1. /\ next \in Seq(Nat) /\ Len(next) = Len(dates) + 1
        /\ \A i \in 1 .. Len(dates) : next[i] = dates[i]
        /\ next[Len(dates) + 1] = n + 1
    BY <1>1, AppendProperties
  <2>2. DOMAIN next = 1 .. (Len(dates) + 1)
    BY <2>1
  <2> HIDE DEF next
  <2>3. \A i \in DOMAIN next : i \in DOMAIN dates \/ i = Len(dates) + 1
    BY <1>1, <2>2
  <2>4. \A i \in DOMAIN next : next[i] \in 1 .. (n + 1) /\ Symbols \subseteq DOMAIN bs[next[i]]
    BY <1>1, <1>2, <2>1, <2>3 DEF PanelUpTo
  <2>5. ASSUME NEW i \in DOMAIN next, NEW j \in DOMAIN next, i < j
        PROVE  next[i] < next[j]
    <3>1. i \in DOMAIN dates
      BY <1>1, <2>2, <2>5
    <3>2. CASE j \in DOMAIN dates
      BY <1>1, <2>1, <2>5, <3>1, <3>2 DEF PanelUpTo
    <3>3. CASE j = Len(dates) + 1
      BY <1>1, <2>1, <3>1, <3>3 DEF PanelUpTo
    <3> QED
      BY <2>3, <3>2, <3>3
  <2>6. PanelUpTo(bs, n + 1, next)
    BY <2>1, <2>4, <2>5 DEF PanelUpTo
  <2> QED
    BY <1>2, <2>6 DEF NextHistory, next
<1>3. CASE ~(Symbols \subseteq DOMAIN bs[n + 1])
  <2>1. NextHistory(bs, dates, n + 1) = dates
    BY <1>3 DEF NextHistory
  <2>2. \A i \in DOMAIN dates : dates[i] \in 1 .. (n + 1)
    BY DEF PanelUpTo
  <2>3. PanelUpTo(bs, n + 1, dates)
    BY <2>2 DEF PanelUpTo
  <2> QED
    BY <2>1, <2>3
<1> QED
  BY <1>2, <1>3

LEMMA PanelOk ==
  ASSUME NEW bs, NEW n, NEW lag, BarsOk(bs, n, lag)
  PROVE  PanelUpTo(bs, n, CommonHistory(bs))
<1>1. n \in Nat /\ Cardinality(DOMAIN bs) = n
  <2>1. n \in Nat /\ DOMAIN bs = 1 .. n
    BY DEF BarsOk
  <2>2. Cardinality(1 .. n) = n
    BY <2>1, FS_Interval
  <2> QED
    BY <2>1, <2>2
<1>2. PICK f : IsHistory(f, bs, n) /\ CommonHistory(bs) = f[n]
  BY <1>1, HistoryIs, HistoryExists
<1>3. \A k \in 0 .. n : f[k] = IF k = 0 THEN <<>> ELSE NextHistory(bs, f[k - 1], k)
  BY <1>2 DEF IsHistory, NextHistory
<1> DEFINE G == {k \in 0 .. n : PanelUpTo(bs, k, f[k])}
<1>4. 0 \in G
  <2>1. 0 \in 0 .. n /\ f[0] = <<>>
    BY <1>1, <1>3
  <2>2. PanelUpTo(bs, 0, <<>>)
    <3>1. <<>> \in Seq(Nat) /\ DOMAIN <<>> = {}
      OBVIOUS
    <3> QED
      BY <3>1 DEF PanelUpTo
  <2> QED
    BY <2>1, <2>2
<1>5. ASSUME NEW k \in 0 .. n, k \in G, k < n PROVE k + 1 \in G
  <2>1. k + 1 \in 0 .. n /\ k + 1 # 0 /\ (k + 1) - 1 = k /\ k \in Nat
    BY <1>1, <1>5
  <2>2. f[k + 1] = NextHistory(bs, f[k], k + 1)
    BY <1>3, <2>1
  <2> QED
    BY <1>5, <2>1, <2>2, PanelGrows
<1> HIDE DEF G
<1>6. n \in G
  BY <1>1, <1>4, <1>5, CountUp
<1> QED
  BY <1>2, <1>6 DEF G

\* What a decision of a date may rest on.
Warranted(bs, date, read, used) ==
  /\ \A d \in read : \A s \in Candidates : bs[d][s].avail <= date
  /\ \A v \in used : v.start < date

\* A trade of the loop after n dates: signalled on one date, effective on a
\* later one, and held from the date after that.
TradeOk(bs, dates, n, weights, returns, r) ==
  \E i, e \in 1 .. n :
    /\ i < e /\ r.signal = dates[i] /\ r.effective = dates[e]
    /\ Warranted(bs, r.signal, r.read, r.used)
    /\ IF e = n THEN weights = r.target ELSE returns[e].held = r.target

PendingOk(bs, dates, n, pending) ==
  pending # NoTarget =>
    /\ \E i \in 1 .. n : pending.date = dates[i]
    /\ Warranted(bs, pending.date, pending.read, pending.used)

LoopState(bs, dates, n, acc) ==
  /\ DOMAIN acc = {"weights", "pending", "returns", "rebalances", "failed"}
  /\ IsList(acc.returns) /\ Len(acc.returns) = n - 1
  /\ \A j \in 1 .. (n - 1) : acc.returns[j].date = dates[j + 1]
  /\ PendingOk(bs, dates, n, acc.pending)
  /\ IsList(acc.rebalances)
  /\ \A k \in DOMAIN acc.rebalances :
        TradeOk(bs, dates, n, acc.weights, acc.returns, acc.rebalances[k])

\* The parts of the state after a date was taken up.
LEMMA TakeUpFields ==
  ASSUME NEW acc, NEW date,
         DOMAIN acc = {"weights", "pending", "returns", "rebalances", "failed"}
  PROVE  LET next == TakeUp(acc, date)
             p == acc.pending
         IN  /\ DOMAIN next = {"weights", "pending", "returns", "rebalances", "failed"}
             /\ next.pending = NoTarget
             /\ \E cost : next.returns = Append(acc.returns, [date |-> date, held |-> acc.weights,
                                                              cost |-> cost])
             /\ p = NoTarget => next.weights = acc.weights /\ next.rebalances = acc.rebalances
             /\ p # NoTarget =>
                  /\ next.weights = p.target
                  /\ next.rebalances =
                       Append(acc.rebalances, [signal |-> p.date, effective |-> date, read |-> p.read,
                                               used |-> p.used, target |-> p.target])
<1>1. CASE acc.pending = NoTarget
  BY <1>1 DEF TakeUp
<1>2. CASE acc.pending # NoTarget
  BY <1>2 DEF TakeUp
<1> QED
  BY <1>1, <1>2

\* Trades of earlier dates are as they were, and held from the next date on.
LEMMA TradesStay ==
  ASSUME NEW bs, NEW dates, NEW n \in Nat \ {0}, NEW weights, NEW returns, NEW r,
         TradeOk(bs, dates, n, weights, returns, r),
         NEW w, NEW rs,
         \A j \in 1 .. (n - 1) : rs[j] = returns[j],
         rs[n].held = weights
  PROVE  TradeOk(bs, dates, n + 1, w, rs, r)
<1>1. PICK i \in 1 .. n, e \in 1 .. n :
        /\ i < e /\ r.signal = dates[i] /\ r.effective = dates[e]
        /\ Warranted(bs, r.signal, r.read, r.used)
        /\ IF e = n THEN weights = r.target ELSE returns[e].held = r.target
  BY DEF TradeOk
<1>2. i \in 1 .. (n + 1) /\ e \in 1 .. (n + 1) /\ e # n + 1
  OBVIOUS
<1>3. rs[e].held = r.target
  <2>1. CASE e = n
    BY <1>1, <2>1
  <2>2. CASE e # n
    <3>1. e \in 1 .. (n - 1)
      BY <2>2
    <3> QED
      BY <1>1, <2>2, <3>1
  <2> QED
    BY <2>1, <2>2
<1> QED
  BY <1>1, <1>2, <1>3 DEF TradeOk

LEMMA TakeUpKeeps ==
  ASSUME NEW bs, NEW dates, NEW n \in Nat \ {0}, NEW acc, LoopState(bs, dates, n, acc)
  PROVE  LoopState(bs, dates, n + 1, TakeUp(acc, dates[n + 1]))
<1> DEFINE date == dates[n + 1]
           next == TakeUp(acc, date)
           p == acc.pending
<1>1. /\ DOMAIN acc = {"weights", "pending", "returns", "rebalances", "failed"}
      /\ IsList(acc.returns) /\ Len(acc.returns) = n - 1 /\ IsList(acc.rebalances)
  BY DEF LoopState
<1>2. /\ DOMAIN next = {"weights", "pending", "returns", "rebalances", "failed"}
      /\ next.pending = NoTarget
      /\ \E cost : next.returns = Append(acc.returns, [date |-> date, held |-> acc.weights,
                                                       cost |-> cost])
      /\ p = NoTarget => next.weights = acc.weights /\ next.rebalances = acc.rebalances
      /\ p # NoTarget =>
           /\ next.weights = p.target
           /\ next.rebalances =
                Append(acc.rebalances, [signal |-> p.date, effective |-> date, read |-> p.read,
                                        used |-> p.used, target |-> p.target])
  BY <1>1, TakeUpFields
<1> HIDE DEF next, date, p
<1>3. PICK cost : next.returns = Append(acc.returns, [date |-> date, held |-> acc.weights,
                                                     cost |-> cost])
  BY <1>2
<1> DEFINE rs == next.returns
<1>4. /\ IsList(rs) /\ Len(rs) = n
      /\ \A j \in 1 .. (n - 1) : rs[j] = acc.returns[j]
      /\ rs[n].date = date /\ rs[n].held = acc.weights
  <2> DEFINE new == [date |-> date, held |-> acc.weights, cost |-> cost]
  <2>1. rs = Append(acc.returns, new) /\ new.date = date /\ new.held = acc.weights
    BY <1>3
  <2> HIDE DEF new
  <2>2. /\ IsList(rs) /\ Len(rs) = (n - 1) + 1
        /\ \A j \in 1 .. (n - 1) : rs[j] = acc.returns[j]
        /\ rs[(n - 1) + 1] = new
    BY <1>1, <2>1, AppendAny
  <2>3. (n - 1) + 1 = n
    OBVIOUS
  <2> QED
    BY <2>1, <2>2, <2>3
<1> HIDE DEF rs
<1>5. \A j \in 1 .. n : rs[j].date = dates[j + 1]
  <2>1. \A j \in 1 .. n : j \in 1 .. (n - 1) \/ j = n
    OBVIOUS
  <2> QED
    BY <1>4, <2>1 DEF LoopState, date
<1>6. \A k \in DOMAIN acc.rebalances :
        TradeOk(bs, dates, n + 1, next.weights, rs, acc.rebalances[k])
  BY <1>4, TradesStay DEF LoopState
<1>7. IsList(next.rebalances) /\ \A k \in DOMAIN next.rebalances :
        TradeOk(bs, dates, n + 1, next.weights, rs, next.rebalances[k])
  <2>1. CASE p = NoTarget
    BY <1>1, <1>2, <1>6, <2>1
  <2>2. CASE p # NoTarget
    <3> DEFINE new == [signal |-> p.date, effective |-> date, read |-> p.read,
                       used |-> p.used, target |-> p.target]
    <3>1. TradeOk(bs, dates, n + 1, next.weights, rs, new)
      <4>1. PICK i \in 1 .. n : p.date = dates[i]
        BY <2>2 DEF LoopState, PendingOk, p
      <4>2. Warranted(bs, p.date, p.read, p.used)
        BY <2>2 DEF LoopState, PendingOk, p
      <4>3. i \in 1 .. (n + 1) /\ n + 1 \in 1 .. (n + 1) /\ i < n + 1
        OBVIOUS
      <4>4. next.weights = new.target
        BY <1>2, <2>2
      <4> QED
        BY <4>1, <4>2, <4>3, <4>4 DEF TradeOk, date
    <3>2. next.rebalances = Append(acc.rebalances, new)
      BY <1>2, <2>2
    <3> HIDE DEF new
    <3> DEFINE len == Len(acc.rebalances)
    <3>3. /\ IsList(next.rebalances) /\ len \in Nat /\ DOMAIN acc.rebalances = 1 .. len
          /\ DOMAIN next.rebalances = 1 .. (len + 1)
          /\ \A k \in 1 .. len : next.rebalances[k] = acc.rebalances[k]
          /\ next.rebalances[len + 1] = new
      BY <1>1, <3>2, AppendAny
    <3> HIDE DEF len
    <3>4. \A k \in 1 .. (len + 1) : k \in 1 .. len \/ k = len + 1
      BY <3>3
    <3> QED
      BY <1>6, <3>1, <3>3, <3>4
  <2> QED
    BY <2>1, <2>2
<1>8. (n + 1) - 1 = n
  OBVIOUS
<1>9. LoopState(bs, dates, n + 1, next)
  BY <1>2, <1>4, <1>5, <1>7, <1>8 DEF LoopState, PendingOk, rs
<1> QED
  BY <1>9 DEF next, date

\* What a signal of the i-th date must show.
SignalOk(bs, dates, i, sig) == sig.ok => Warranted(bs, dates[i], sig.read, sig.used)

LEMMA TakeSignalKeeps ==
  ASSUME NEW bs, NEW dates, NEW n \in Nat \ {0}, NEW acc, LoopState(bs, dates, n, acc), NEW sig,
         SignalOk(bs, dates, n, sig)
  PROVE  LET next == TakeSignal(acc, dates[n], sig)
         IN  next.failed \/ LoopState(bs, dates, n, next)
<1> DEFINE next == TakeSignal(acc, dates[n], sig)
<1>0. DOMAIN acc = {"weights", "pending", "returns", "rebalances", "failed"}
  BY DEF LoopState
<1>1. CASE ~sig.ok
  <2>1. next = [acc EXCEPT !.failed = TRUE]
    BY <1>1 DEF TakeSignal
  <2>2. next.failed = TRUE
    BY <1>0, <2>1
  <2> QED
    BY <2>2
<1>2. CASE sig.ok /\ ~sig.known
  <2>1. next = acc
    BY <1>2 DEF TakeSignal
  <2> QED
    BY <2>1
<1>3. CASE sig.ok /\ sig.known
  <2> DEFINE p == [date |-> dates[n], target |-> sig.target, read |-> sig.read, used |-> sig.used]
  <2>1. next = [acc EXCEPT !.pending = p]
    BY <1>3 DEF TakeSignal
  <2>2. PendingOk(bs, dates, n, p)
    <3>1. Warranted(bs, dates[n], sig.read, sig.used) /\ n \in 1 .. n
      BY <1>3 DEF SignalOk
    <3> QED
      BY <3>1 DEF PendingOk
  <2> HIDE DEF p
  <2>3. /\ DOMAIN next = {"weights", "pending", "returns", "rebalances", "failed"}
        /\ next.pending = p /\ next.weights = acc.weights /\ next.returns = acc.returns
        /\ next.rebalances = acc.rebalances
    BY <1>0, <2>1
  <2> HIDE DEF next
  <2>4. LoopState(bs, dates, n, next)
    BY <2>2, <2>3 DEF LoopState
  <2> QED
    BY <2>4 DEF next
<1> QED
  BY <1>1, <1>2, <1>3

\* The function that the loop iterates: its state after each date.
IsLoop(f, dates, signals, n) ==
  f = [k \in 1 .. n |-> IF k = 1 THEN Start ELSE DayStep(dates, signals, f[k - 1], k)]

LEMMA LoopIs ==
  ASSUME NEW dates, NEW signals
  PROVE  Loop(dates, signals) =
           (CHOOSE f : IsLoop(f, dates, signals, Len(dates)))[Len(dates)]
BY DEF Loop, IsLoop

LEMMA LoopExists ==
  ASSUME NEW dates, NEW signals, NEW n \in Nat \ {0}
  PROVE  \E f : IsLoop(f, dates, signals, n)
<1> DEFINE G == {k \in 1 .. n : \E f : IsLoop(f, dates, signals, k)}
<1>1. 1 \in G
  <2> DEFINE f == [k \in 1 .. 1 |-> Start]
  <2>1. IsLoop(f, dates, signals, 1)
    BY DEF IsLoop
  <2> QED
    BY <2>1
<1>2. ASSUME NEW k \in 1 .. n, k \in G, k < n PROVE k + 1 \in G
  <2>1. PICK f : IsLoop(f, dates, signals, k)
    BY <1>2
  <2> DEFINE g == [m \in 1 .. (k + 1) |-> IF m = 1 THEN Start
                                           ELSE DayStep(dates, signals, f[m - 1], m)]
  <2>2. \A m \in 1 .. k : f[m] = IF m = 1 THEN Start ELSE DayStep(dates, signals, f[m - 1], m)
    BY <2>1 DEF IsLoop
  <2>3. \A m \in 1 .. k : g[m] = f[m]
    BY <2>2
  <2>4. \A m \in 1 .. (k + 1) : m # 1 => g[m - 1] = f[m - 1]
    <3>1. \A m \in 1 .. (k + 1) : m # 1 => m - 1 \in 1 .. k
      OBVIOUS
    <3> HIDE DEF g
    <3> QED
      BY <2>3, <3>1
  <2>5. g = [m \in 1 .. (k + 1) |-> IF m = 1 THEN Start ELSE DayStep(dates, signals, g[m - 1], m)]
    BY <2>4
  <2>6. IsLoop(g, dates, signals, k + 1)
    BY <2>5 DEF IsLoop
  <2> QED
    BY <1>2, <2>6
<1> HIDE DEF G
<1>3. \A k \in 1 .. n : k \in G
  BY <1>1, <1>2, CountUp
<1>4. n \in G
  BY <1>3
<1> QED
  BY <1>4 DEF G

LEMMA StartState ==
  ASSUME NEW bs, NEW dates
  PROVE  LoopState(bs, dates, 1, Start)
<1>1. /\ DOMAIN Start = {"weights", "pending", "returns", "rebalances", "failed"}
      /\ Start.pending = NoTarget /\ Start.returns = <<>> /\ Start.rebalances = <<>>
  BY DEF Start
<1>2. <<>> \in Seq({}) /\ Len(<<>>) = 0 /\ DOMAIN <<>> = {}
  OBVIOUS
<1>3. IsList(<<>>)
  BY <1>2 DEF IsList
<1> QED
  BY <1>1, <1>2, <1>3 DEF LoopState, PendingOk

\* The loop keeps its state after every date, or has raised.
LEMMA LoopKeeps ==
  ASSUME NEW bs, NEW dates, NEW signals, Len(dates) \in Nat \ {0},
         \A i \in DOMAIN signals : i \in Nat \ {0} => SignalOk(bs, dates, i, signals[i])
  PROVE  LET final == Loop(dates, signals)
         IN  final.failed \/ LoopState(bs, dates, Len(dates), final)
<1> DEFINE n == Len(dates)
           Good(k, acc) == acc.failed \/ LoopState(bs, dates, k, acc)
<1>1. PICK f : IsLoop(f, dates, signals, n) /\ Loop(dates, signals) = f[n]
  BY LoopIs, LoopExists
<1>2. \A k \in 1 .. n : f[k] = IF k = 1 THEN Start ELSE DayStep(dates, signals, f[k - 1], k)
  BY <1>1 DEF IsLoop
<1> DEFINE G == {k \in 1 .. n : Good(k, f[k])}
<1>3. 1 \in G
  BY <1>2, StartState
<1>4. ASSUME NEW k \in 1 .. n, k \in G, k < n PROVE k + 1 \in G
  <2>1. k + 1 \in 1 .. n /\ k + 1 # 1 /\ (k + 1) - 1 = k /\ k \in Nat \ {0} /\ k + 1 \in Nat \ {0}
    BY <1>4
  <2> DEFINE acc == f[k]
             up == TakeUp(acc, dates[k + 1])
             next == DayStep(dates, signals, acc, k + 1)
  <2>2. f[k + 1] = next
    BY <1>2, <2>1
  <2>3. Good(k, acc)
    BY <1>4
  <2>4. Good(k + 1, next)
    <3>1. CASE acc.failed
      BY <3>1 DEF DayStep
    <3>2. CASE ~acc.failed
      <4>1. LoopState(bs, dates, k + 1, up)
        BY <2>1, <2>3, <3>2, TakeUpKeeps
      <4> HIDE DEF up
      <4>2. CASE k + 1 \in DOMAIN signals
        <5>1. SignalOk(bs, dates, k + 1, signals[k + 1])
          BY <2>1, <4>2
        <5>2. next = TakeSignal(up, dates[k + 1], signals[k + 1])
          BY <3>2, <4>2 DEF DayStep, up
        <5> QED
          BY <2>1, <4>1, <5>1, <5>2, TakeSignalKeeps
      <4>3. CASE k + 1 \notin DOMAIN signals
        <5>1. next = up
          BY <3>2, <4>3 DEF DayStep, up
        <5> QED
          BY <4>1, <5>1
      <4> QED
        BY <4>2, <4>3
    <3> QED
      BY <3>1, <3>2
  <2> HIDE DEF next, Good
  <2> QED
    BY <2>1, <2>2, <2>4
<1> HIDE DEF G
<1>5. \A k \in 1 .. n : k \in G
  <2> HIDE DEF n
  <2>1. n \in Nat /\ 1 <= n
    BY DEF n
  <2> QED
    BY <1>3, <1>4, <2>1, CountUp
<1>6. n \in G
  BY <1>5
<1> QED
  BY <1>1, <1>6 DEF G

\* What KnownAtDecision says, of any bars and any result.
KnownThen(bs, res) ==
  \A k \in DOMAIN res.rebalances :
      LET r == res.rebalances[k]
          earns == {j \in DOMAIN res.returns : res.returns[j].date > r.effective}
      IN  /\ \A d \in r.read, s \in Candidates : bs[d][s].avail <= r.signal
          /\ \A v \in r.used : v.start < r.signal
          /\ r.signal < r.effective
          /\ earns # {} =>
               res.returns[CHOOSE j \in earns : \A m \in earns : j <= m].held = r.target

LEMMA NothingKnown ==
  ASSUME NEW bs, NEW res, res.rebalances = <<>>
  PROVE  KnownThen(bs, res)
BY DEF KnownThen

\* The first return after a trade is that of the next date.
LEMMA TradeIsKnown ==
  ASSUME NEW bs, NEW dates, NEW n \in Nat, PanelUpTo(bs, n, dates),
         NEW returns, IsList(returns), Len(returns) = Len(dates) - 1,
         \A j \in 1 .. (Len(dates) - 1) : returns[j].date = dates[j + 1],
         NEW w, NEW r, TradeOk(bs, dates, Len(dates), w, returns, r)
  PROVE  LET earns == {j \in DOMAIN returns : returns[j].date > r.effective}
         IN  /\ Warranted(bs, r.signal, r.read, r.used) /\ r.signal < r.effective
             /\ earns # {} =>
                  returns[CHOOSE j \in earns : \A m \in earns : j <= m].held = r.target
<1> DEFINE len == Len(dates)
           earns == {j \in DOMAIN returns : returns[j].date > r.effective}
<1>1. /\ len \in Nat /\ DOMAIN dates = 1 .. len
      /\ \A i \in 1 .. len : dates[i] \in Nat
      /\ \A i, j \in 1 .. len : i < j => dates[i] < dates[j]
  <2>1. dates \in Seq(Nat)
    BY DEF PanelUpTo
  <2>2. len \in Nat /\ DOMAIN dates = 1 .. len /\ \A i \in 1 .. len : dates[i] \in Nat
    BY <2>1
  <2> HIDE DEF len
  <2>3. \A i, j \in DOMAIN dates : i < j => dates[i] < dates[j]
    BY DEF PanelUpTo
  <2> QED
    BY <2>2, <2>3
<1>2. PICK i \in 1 .. len, e \in 1 .. len :
        /\ i < e /\ r.signal = dates[i] /\ r.effective = dates[e]
        /\ Warranted(bs, r.signal, r.read, r.used)
        /\ IF e = len THEN w = r.target ELSE returns[e].held = r.target
  BY DEF TradeOk
<1>3. r.signal < r.effective
  BY <1>1, <1>2
<1>4. DOMAIN returns = 1 .. (len - 1)
  BY DEF IsList
<1>5. \A j \in 1 .. (len - 1) : returns[j].date > r.effective <=> j >= e
  <2> TAKE j \in 1 .. (len - 1)
  <2>1. returns[j].date = dates[j + 1] /\ j + 1 \in 1 .. len
    BY <1>1
  <2>2. dates[j + 1] \in Nat /\ dates[e] \in Nat
    BY <1>1, <2>1
  <2>3. CASE j >= e
    <3>1. e < j + 1
      BY <1>1, <2>3
    <3>2. dates[e] < dates[j + 1]
      BY <1>1, <2>1, <3>1
    <3> QED
      BY <1>2, <2>1, <2>2, <2>3, <3>2
  <2>4. CASE j < e
    <3>1. j + 1 = e \/ j + 1 < e
      BY <1>1, <2>4
    <3>2. dates[j + 1] <= dates[e]
      BY <1>1, <2>1, <2>2, <3>1
    <3> QED
      BY <1>1, <1>2, <2>1, <2>2, <2>4, <3>2
  <2> QED
    BY <1>1, <2>3, <2>4
<1>6. earns = {j \in 1 .. (len - 1) : j >= e}
  BY <1>4, <1>5
<1> HIDE DEF earns
<1>7. ASSUME earns # {}
      PROVE  returns[CHOOSE j \in earns : \A m \in earns : j <= m].held = r.target
  <2>1. e \in 1 .. (len - 1)
    BY <1>1, <1>6, <1>7
  <2>2. e \in earns /\ \A m \in earns : e <= m
    BY <1>1, <1>6, <2>1
  <2> DEFINE first == CHOOSE j \in earns : \A m \in earns : j <= m
  <2>3. first \in earns /\ \A m \in earns : first <= m
    BY <2>2
  <2> HIDE DEF first
  <2>4. first = e
    BY <1>1, <1>6, <2>2, <2>3
  <2>5. returns[e].held = r.target
    BY <1>1, <1>2, <2>1
  <2> QED
    BY <2>4, <2>5 DEF first
<1> QED
  BY <1>2, <1>3, <1>7 DEF earns

LEMMA LoopIsKnown ==
  ASSUME NEW bs, NEW dates, NEW n \in Nat, PanelUpTo(bs, n, dates), Len(dates) \in Nat \ {0},
         NEW signals, NEW c,
         \A i \in DOMAIN signals : i \in Nat \ {0} => SignalOk(bs, dates, i, signals[i])
  PROVE  KnownThen(bs, BacktestResult(c, Loop(dates, signals)))
<1> DEFINE final == Loop(dates, signals)
           res == BacktestResult(c, final)
<1>1. final.failed \/ LoopState(bs, dates, Len(dates), final)
  BY LoopKeeps
<1> HIDE DEF final
<1>2. CASE final.failed
  <2>1. res.rebalances = <<>>
    BY <1>2 DEF BacktestResult, NoResult
  <2> QED
    BY <2>1, NothingKnown DEF final
<1>3. CASE ~final.failed
  <2>1. res.returns = final.returns /\ res.rebalances = final.rebalances
    BY <1>3 DEF BacktestResult
  <2>2. LoopState(bs, dates, Len(dates), final)
    BY <1>1, <1>3
  <2> HIDE DEF res
  <2> SUFFICES ASSUME NEW k \in DOMAIN res.rebalances
               PROVE  LET r == res.rebalances[k]
                          earns == {j \in DOMAIN res.returns : res.returns[j].date > r.effective}
                      IN  /\ Warranted(bs, r.signal, r.read, r.used)
                          /\ r.signal < r.effective
                          /\ earns # {} =>
                               res.returns[CHOOSE j \in earns : \A m \in earns : j <= m].held = r.target
    BY DEF KnownThen, Warranted, res, final
  <2>3. TradeOk(bs, dates, Len(dates), final.weights, final.returns, final.rebalances[k])
    BY <2>1, <2>2 DEF LoopState
  <2>4. /\ IsList(final.returns) /\ Len(final.returns) = Len(dates) - 1
        /\ \A j \in 1 .. (Len(dates) - 1) : final.returns[j].date = dates[j + 1]
    BY <2>2 DEF LoopState
  <2>5. LET r == final.rebalances[k]
            earns == {j \in DOMAIN final.returns : final.returns[j].date > r.effective}
        IN  /\ Warranted(bs, r.signal, r.read, r.used)
            /\ r.signal < r.effective
            /\ earns # {} =>
                 final.returns[CHOOSE j \in earns : \A m \in earns : j <= m].held = r.target
    <3> DEFINE rs == final.returns
               x == final.rebalances[k]
    <3>1. TradeOk(bs, dates, Len(dates), final.weights, rs, x)
      BY <2>3
    <3>2. /\ IsList(rs) /\ Len(rs) = Len(dates) - 1
          /\ \A j \in 1 .. (Len(dates) - 1) : rs[j].date = dates[j + 1]
      BY <2>4
    <3> HIDE DEF rs, x
    <3>3. LET earns == {j \in DOMAIN rs : rs[j].date > x.effective}
          IN  /\ Warranted(bs, x.signal, x.read, x.used)
              /\ x.signal < x.effective
              /\ earns # {} =>
                   rs[CHOOSE j \in earns : \A m \in earns : j <= m].held = x.target
      BY <3>1, <3>2, TradeIsKnown
    <3> QED
      BY <3>3 DEF rs, x
  <2> QED
    BY <2>1, <2>5
<1> QED
  BY <1>2, <1>3

LEMMA MomentumOk ==
  ASSUME NEW bs, NEW dates, NEW i, NEW c
  PROVE  SignalOk(bs, dates, i, MomentumSignal(bs, dates, i, c))
<1> DEFINE sig == MomentumSignal(bs, dates, i, c)
           read == {dates[i - c.skip], dates[i - c.long]}
<1>1. /\ sig.read = read /\ sig.used = {}
      /\ sig.ok <=> \A s \in Candidates, d \in read : AvailableOnOrBefore(bs, d, s, dates[i])
  BY DEF MomentumSignal
<1> HIDE DEF sig, read
<1>2. SignalOk(bs, dates, i, sig)
  BY <1>1 DEF SignalOk, Warranted, AvailableOnOrBefore
<1> QED
  BY <1>2 DEF sig

\* Only the ends of the volatility window are checked: the dates between them
\* are earlier than its last one, and so are their bars.
LEMMA FactorOk ==
  ASSUME NEW bs, NEW dates, NEW n, NEW lag, BarsOk(bs, n, lag), PanelUpTo(bs, n, dates), NEW c,
         {c.long, c.vol, c.skip} \subseteq Int, c.skip >= 0,
         NEW i \in DOMAIN dates, i > c.skip + (IF c.long > c.vol THEN c.long ELSE c.vol)
  PROVE  SignalOk(bs, dates, i, FactorSignal(bs, dates, i, c))
<1> DEFINE sig == FactorSignal(bs, dates, i, c)
           recent == i - c.skip
           checked == {dates[recent - m] : m \in {0, c.long, c.short, c.vol}}
           window == {dates[k] : k \in (recent - c.vol) .. recent}
<1>1. /\ sig.read = window \cup checked /\ sig.used = {}
      /\ sig.ok <=> \A s \in Symbols, d \in checked : AvailableOnOrBefore(bs, d, s, dates[i])
  BY DEF FactorSignal
<1> HIDE DEF sig, window, checked
<1>2. /\ Len(dates) \in Nat /\ DOMAIN dates = 1 .. Len(dates)
      /\ \A k \in DOMAIN dates : dates[k] \in 1 .. n /\ Symbols \subseteq DOMAIN bs[dates[k]]
      /\ \A j, k \in DOMAIN dates : j < k => dates[j] < dates[k]
      /\ n \in Nat /\ lag \in Nat
  BY DEF PanelUpTo, BarsOk
<1>3. /\ i \in Int /\ recent \in Int /\ c.vol \in Int /\ recent > c.vol /\ recent <= i
  BY <1>2
<1> SUFFICES ASSUME sig.ok PROVE Warranted(bs, dates[i], sig.read, sig.used)
  BY DEF SignalOk, sig
<1>4. \A s \in Candidates, d \in checked : bs[d][s].avail <= dates[i]
  BY <1>1 DEF AvailableOnOrBefore, Symbols
<1>5. ASSUME NEW k \in (recent - c.vol) .. recent, NEW s \in Candidates
      PROVE  bs[dates[k]][s].avail <= dates[i]
  <2>1. k \in Int /\ k >= 1 /\ k <= i /\ k <= recent /\ recent >= 1
    BY <1>3
  <2>2. k \in DOMAIN dates /\ recent \in DOMAIN dates
    BY <1>2, <1>3, <2>1
  <2>3. recent - 0 = recent
    BY <1>3
  <2>4. dates[recent] \in checked
    BY <2>3 DEF checked
  <2>5. \A m \in DOMAIN dates : bs[dates[m]][s].avail = dates[m] + lag
    BY <1>2 DEF BarsOk, Symbols
  <2>6. dates[k] <= dates[recent]
    <3>1. k = recent \/ k < recent
      BY <1>3, <2>1
    <3> QED
      BY <1>2, <2>2, <3>1
  <2>7. dates[recent] + lag <= dates[i]
    BY <1>4, <2>2, <2>4, <2>5
  <2>8. dates[k] \in Nat /\ dates[recent] \in Nat /\ dates[i] \in Nat
    BY <1>2, <2>2
  <2>9. dates[k] + lag <= dates[i]
    BY <1>2, <2>6, <2>7, <2>8
  <2>10. bs[dates[k]][s].avail = dates[k] + lag
    BY <2>2, <2>5
  <2> QED
    BY <2>9, <2>10
<1>6. \A d \in window : \A s \in Candidates : bs[d][s].avail <= dates[i]
  BY <1>5 DEF window
<1> QED
  BY <1>1, <1>4, <1>6 DEF Warranted

\* The stored vintages.
VintagesOk(vs) ==
  /\ IsFiniteSet(vs)
  /\ \A v \in vs : v.obs \in Nat /\ v.obs <= LastDate /\ v.start \in Nat

\* Of some vintages one is about the latest observation.
LEMMA LatestExists ==
  ASSUME NEW vs, vs # {}, \A v \in vs : v.obs \in Nat /\ v.obs <= LastDate
  PROVE  \E v \in vs : \A w \in vs : w.obs <= v.obs
<1> DEFINE T == {LastDate - v.obs : v \in vs}
<1>0. LastDate \in Nat
  BY BacktestAssumption
<1>1. T \subseteq Nat /\ T # {}
  BY <1>0
<1> HIDE DEF T
<1>2. PICK t \in T : \A u \in T : t <= u
  BY <1>1, SmallestNumber
<1>3. PICK v \in vs : t = LastDate - v.obs
  BY <1>2 DEF T
<1>4. \A w \in vs : LastDate - w.obs \in T
  BY DEF T
<1> QED
  BY <1>0, <1>2, <1>3, <1>4

LEMMA MacroOk ==
  ASSUME NEW bs, NEW vs, VintagesOk(vs), NEW dates, NEW i, dates[i] \in Nat, NEW c,
         c.publicationLag \in 1 .. 7
  PROVE  SignalOk(bs, dates, i, MacroSignal(bs, vs, dates, i, c))
<1> DEFINE sig == MacroSignal(bs, vs, dates, i, c)
           snap == Snapshot(vs, dates[i], c.publicationLag)
           last == LastVintage(snap)
           prior == LastVintage(snap \ {last})
<1>1. /\ sig.read = {dates[i]} /\ sig.used = LastTwo(snap)
      /\ sig.ok <=> \A s \in Symbols : AvailableOnOrBefore(bs, dates[i], s, dates[i])
  BY DEF MacroSignal
<1>2. /\ snap \subseteq vs
      /\ \A v \in snap : v.start <= dates[i] - c.publicationLag
  BY DEF Snapshot
<1>3. /\ \A v \in snap : v.obs \in Nat /\ v.obs <= LastDate /\ v.start \in Nat
      /\ IsFiniteSet(snap)
  BY <1>2, FS_Subset DEF VintagesOk
<1> HIDE DEF sig, snap
<1>4. \A v \in snap : v.start < dates[i]
  BY <1>2, <1>3
<1>5. ASSUME Cardinality(snap) >= 2 PROVE last \in snap /\ prior \in snap
  <2>1. snap # {}
    BY <1>5, FS_EmptySet
  <2>2. last \in snap
    BY <1>3, <2>1, LatestExists DEF LastVintage
  <2> HIDE DEF last
  <2>3. snap \ {last} # {}
    <3> SUFFICES ASSUME snap \ {last} = {} PROVE FALSE
      OBVIOUS
    <3>1. snap = {last}
      BY <2>2
    <3>2. Cardinality({last}) = 1
      BY FS_Singleton
    <3> QED
      BY <1>5, <3>1, <3>2
  <2> DEFINE others == snap \ {last}
  <2>4. others # {} /\ \A v \in others : v.obs \in Nat /\ v.obs <= LastDate
    BY <1>3, <2>3
  <2> HIDE DEF others
  <2>5. \E v \in others : \A w \in others : w.obs <= v.obs
    BY <2>4, LatestExists
  <2>6. prior \in others
    BY <2>5 DEF others, LastVintage
  <2> QED
    BY <2>2, <2>6 DEF others
<1>6. \A v \in sig.used : v.start < dates[i]
  BY <1>1, <1>4, <1>5 DEF LastTwo
<1>7. SignalOk(bs, dates, i, sig)
  BY <1>1, <1>6 DEF SignalOk, Warranted, AvailableOnOrBefore, Symbols
<1> QED
  BY <1>7 DEF sig

\* Whatever the strategy, a backtest over the stored bars and vintages uses
\* nothing that was not known at its decisions.
LEMMA BacktestIsKnown ==
  ASSUME NEW bs, NEW n, NEW c \in Configs, BarsOk(bs, n, c.availLag), NEW vs, VintagesOk(vs),
         c.kind \in {"momentum", "factor", "macro"}
  PROVE  KnownThen(bs, RunBacktest(bs, vs, c))
<1> DEFINE dates == CommonHistory(bs)
<1>1. PanelUpTo(bs, n, dates) /\ n \in Nat
  BY PanelOk DEF BarsOk
<1> HIDE DEF dates
<1>2. /\ Len(dates) \in Nat /\ DOMAIN dates = 1 .. Len(dates)
      /\ \A i \in DOMAIN dates : dates[i] \in Nat
  BY <1>1 DEF PanelUpTo
<1>3. {c.long, c.short, c.vol, c.skip, c.train, c.test, c.publicationLag} \subseteq Int
  BY BacktestAssumption
<1>4. \A warmup, frequency : \A i \in Due(dates, warmup, frequency) :
        i \in DOMAIN dates /\ i > warmup
  BY <1>2 DEF Due
<1>5. KnownThen(bs, NoResult)
  BY NothingKnown DEF NoResult
<1>6. CASE c.kind = "momentum"
  <2> DEFINE signals == [i \in Due(dates, c.long, "monthly") |-> MomentumSignal(bs, dates, i, c)]
  <2>1. RunBacktest(bs, vs, c) =
          IF ~ValidMomentumConfig(c) \/ Len(dates) <= c.long + 1 THEN NoResult
          ELSE BacktestResult(c, Loop(dates, signals))
    BY <1>6 DEF RunBacktest, RunDualMomentum, dates
  <2>2. \A i \in DOMAIN signals : i \in Nat \ {0} => SignalOk(bs, dates, i, signals[i])
    BY MomentumOk
  <2> HIDE DEF signals
  <2>3. ASSUME ValidMomentumConfig(c), ~(Len(dates) <= c.long + 1)
        PROVE  KnownThen(bs, BacktestResult(c, Loop(dates, signals)))
    <3>1. Len(dates) \in Nat \ {0}
      BY <1>2, <1>3, <2>3 DEF ValidMomentumConfig
    <3> QED
      BY <1>1, <2>2, <3>1, LoopIsKnown
  <2> QED
    BY <1>5, <2>1, <2>3
<1>7. CASE c.kind = "factor"
  <2> DEFINE warmup == c.skip + (IF c.long > c.vol THEN c.long ELSE c.vol)
             signals == [i \in Due(dates, warmup, c.frequency) |-> FactorSignal(bs, dates, i, c)]
  <2>1. RunBacktest(bs, vs, c) =
          IF ~ValidFactorConfig(c) \/ Len(dates) <= warmup + 1 THEN NoResult
          ELSE BacktestResult(c, Loop(dates, signals))
    BY <1>7 DEF RunBacktest, RunQuantFactor, dates
  <2>2. ASSUME ValidFactorConfig(c), ~(Len(dates) <= warmup + 1)
        PROVE  KnownThen(bs, BacktestResult(c, Loop(dates, signals)))
    <3>1. c.skip >= 0 /\ c.vol >= 2
      BY <2>2 DEF ValidFactorConfig
    <3>2. \A i \in Due(dates, warmup, c.frequency) : i \in DOMAIN dates /\ i > warmup
      BY <1>4
    <3>3. \A i \in Due(dates, warmup, c.frequency) :
             SignalOk(bs, dates, i, FactorSignal(bs, dates, i, c))
      BY <1>1, <1>3, <3>1, <3>2, FactorOk
    <3>4. \A i \in DOMAIN signals : i \in Nat \ {0} => SignalOk(bs, dates, i, signals[i])
      BY <3>3
    <3>5. Len(dates) \in Nat \ {0}
      BY <1>2, <1>3, <2>2, <3>1
    <3> HIDE DEF signals
    <3> QED
      BY <1>1, <3>4, <3>5, LoopIsKnown
  <2> QED
    BY <1>5, <2>1, <2>2
<1>8. CASE c.kind = "macro"
  <2> DEFINE signals == [i \in Due(dates, 0, "monthly") |-> MacroSignal(bs, vs, dates, i, c)]
             done == BacktestResult(c, Loop(dates, signals))
  <2>1. RunBacktest(bs, vs, c) =
          IF ~ValidMacroConfig(c) \/ Len(dates) <= c.train + 1 THEN NoResult
          ELSE IF done.state = "ran" /\ done.rebalances = <<>> THEN NoResult
          ELSE done
    BY <1>8 DEF RunBacktest, RunMacroRegime, dates
  <2>2. ASSUME ValidMacroConfig(c), ~(Len(dates) <= c.train + 1)
        PROVE  KnownThen(bs, done)
    <3>1. c.publicationLag \in 1 .. 7 /\ c.train > 0
      BY <2>2 DEF ValidMacroConfig
    <3>2. \A i \in Due(dates, 0, "monthly") :
             SignalOk(bs, dates, i, MacroSignal(bs, vs, dates, i, c))
      BY <1>2, <1>4, <3>1, MacroOk
    <3>3. \A i \in DOMAIN signals : i \in Nat \ {0} => SignalOk(bs, dates, i, signals[i])
      BY <3>2
    <3>4. Len(dates) \in Nat \ {0}
      BY <1>2, <1>3, <2>2, <3>1
    <3> HIDE DEF signals
    <3> QED
      BY <1>1, <3>3, <3>4, LoopIsKnown
  <2> HIDE DEF done
  <2> QED
    BY <1>5, <2>1, <2>2
<1> QED
  BY <1>6, <1>7, <1>8

BacktestInv ==
  /\ config \in Configs /\ BarsOk(bars, today, config.availLag) /\ VintagesOk(vintages)
  /\ KnownThen(bars, result)

LEMMA BacktestInvInit == BTInit => BacktestInv
<1> SUFFICES ASSUME BTInit PROVE BacktestInv
  OBVIOUS
<1>1. config \in Configs /\ BarsOk(bars, today, config.availLag)
  BY BacktestAssumption DEF BTInit, BarsOk
<1>2. VintagesOk(vintages)
  BY FS_EmptySet DEF BTInit, VintagesOk
<1>3. KnownThen(bars, result)
  BY NothingKnown DEF BTInit, NoResult
<1> QED
  BY <1>1, <1>2, <1>3 DEF BacktestInv

LEMMA CollectKeeps ==
  ASSUME BacktestInv, NEW up, NEW missing, Collect(up, missing)
  PROVE  BacktestInv'
<1> DEFINE before(s) == LET seen == {d \in DOMAIN bars : s \in DOMAIN bars[d]}
                        IN  IF seen = {} THEN 2
                            ELSE Px(bars, CHOOSE d \in seen : \A e \in seen : e <= d, s)
           new == [s \in Symbols \ missing |->
                     [px |-> before(s) + (IF s \in up THEN 1 ELSE 0),
                      avail |-> EstimatedAvailable(today + 1, config.availLag)]]
<1>1. /\ bars' = [d \in 1 .. (today + 1) |-> IF d = today + 1 THEN new ELSE bars[d]]
      /\ today' = today + 1 /\ config' = config /\ vintages' = vintages
      /\ result' = RunBacktest(bars', vintages, config)
  BY DEF Collect
<1>2. \A s \in DOMAIN new : new[s].avail = (today + 1) + config.availLag
  BY DEF EstimatedAvailable
<1> HIDE DEF new
<1>3. BarsOk(bars', today + 1, config.availLag)
  <2>1. today \in Nat /\ config.availLag \in Nat
    BY DEF BacktestInv, BarsOk
  <2>2. \A d \in 1 .. (today + 1) : d # today + 1 => d \in 1 .. today
    BY <2>1
  <2>3. \A d \in 1 .. (today + 1) : \A s \in DOMAIN bars'[d] :
           bars'[d][s].avail = d + config.availLag
    BY <1>1, <1>2, <2>2 DEF BacktestInv, BarsOk
  <2> QED
    BY <1>1, <2>1, <2>3 DEF BarsOk
<1>4. KnownThen(bars', result')
  BY <1>1, <1>3, BacktestIsKnown, BacktestAssumption DEF BacktestInv
<1> QED
  BY <1>1, <1>3, <1>4 DEF BacktestInv

LEMMA ReleaseKeeps ==
  ASSUME BacktestInv, NEW obs \in 1 .. LastDate, NEW value, Release(obs, value)
  PROVE  BacktestInv'
<1> DEFINE v == [obs |-> obs, start |-> today, value |-> value]
<1>1. /\ bars' = bars /\ today' = today /\ config' = config
      /\ vintages' = vintages \cup {v}
      /\ result' = RunBacktest(bars, vintages', config)
  BY DEF Release
<1>2. v.obs \in Nat /\ v.obs <= LastDate /\ v.start \in Nat
  BY BacktestAssumption DEF BacktestInv, BarsOk
<1> HIDE DEF v
<1>3. VintagesOk(vintages')
  <2>1. IsFiniteSet(vintages')
    BY <1>1, FS_AddElement DEF BacktestInv, VintagesOk
  <2> QED
    BY <1>1, <1>2, <2>1 DEF BacktestInv, VintagesOk
<1>4. KnownThen(bars', result')
  BY <1>1, <1>3, BacktestIsKnown, BacktestAssumption DEF BacktestInv
<1> QED
  BY <1>1, <1>3, <1>4 DEF BacktestInv

\* For any configuration, universe, prices, gaps and macro releases: every bar
\* and vintage a trade is based on was available by the date of its signal, the
\* trade takes place later, and its weights earn nothing on that day
\* (run_dual_momentum_backtest, run_quant_factor_backtest,
\* run_macro_regime_backtest).
THEOREM DecisionsAreKnown == BTSpec => []KnownAtDecision
<1>1. BTInit => BacktestInv
  BY BacktestInvInit
<1>2. BacktestInv /\ [BTNext]_btvars => BacktestInv'
  <2> SUFFICES ASSUME BacktestInv, [BTNext]_btvars PROVE BacktestInv'
    OBVIOUS
  <2>1. CASE UNCHANGED btvars
    BY <2>1 DEF btvars, BacktestInv
  <2>2. CASE BTNext
    BY <2>2, CollectKeeps, ReleaseKeeps DEF BTNext
  <2> QED
    BY <2>1, <2>2
<1>3. BacktestInv => KnownAtDecision
  BY DEF BacktestInv, KnownThen, KnownAtDecision
<1> QED
  BY <1>1, <1>2, <1>3, PTL DEF BTSpec

-----------------------------------------------------------------------------
\* One list continues another.
Longer(s, t) ==
  IsList(s) /\ IsList(t) /\ Len(s) <= Len(t) /\ \A i \in 1 .. Len(s) : t[i] = s[i]

LEMMA ListLength ==
  ASSUME NEW s, IsList(s)
  PROVE  Len(s) \in Nat /\ DOMAIN s = 1 .. Len(s)
BY DEF IsList

LEMMA LongerTransitive ==
  ASSUME NEW s, NEW t, NEW u, Longer(s, t), Longer(t, u)
  PROVE  Longer(s, u)
<1>1. Len(s) \in Nat /\ Len(t) \in Nat /\ Len(u) \in Nat
  BY ListLength DEF Longer
<1>2. \A i \in 1 .. Len(s) : i \in 1 .. Len(t)
  BY <1>1 DEF Longer
<1> QED
  BY <1>1, <1>2 DEF Longer

LEMMA LongerItself ==
  ASSUME NEW s, IsList(s)
  PROVE  Longer(s, s)
BY ListLength DEF Longer

LEMMA LongerAppend ==
  ASSUME NEW s, IsList(s), NEW e
  PROVE  Longer(s, Append(s, e))
BY AppendAny DEF Longer

LEMMA LongerIsPrefix ==
  ASSUME NEW s, NEW t, Longer(s, t)
  PROVE  IsPrefix(s, t)
<1>1. PICK S : s \in Seq(S)
  BY DEF Longer, IsList
<1>2. PICK T : t \in Seq(T)
  BY DEF Longer, IsList
<1> DEFINE U == S \cup T
           n == Len(s)
<1>3. s \in Seq(U) /\ t \in Seq(U) /\ n \in Nat /\ Len(t) \in Nat /\ n <= Len(t)
  BY <1>1, <1>2 DEF Longer
<1> HIDE DEF U
<1>4. /\ SubSeq(s, 1, n) \in Seq(U) /\ Len(SubSeq(s, 1, n)) = n
      /\ \A i \in 1 .. n : SubSeq(s, 1, n)[i] = s[i]
  BY <1>3
<1>5. /\ SubSeq(t, 1, n) \in Seq(U) /\ Len(SubSeq(t, 1, n)) = n
      /\ \A i \in 1 .. n : SubSeq(t, 1, n)[i] = t[i]
  BY <1>3
<1>6. SubSeq(s, 1, n) = SubSeq(t, 1, n)
  <2> DEFINE a == SubSeq(s, 1, n)
             b == SubSeq(t, 1, n)
  <2>1. a \in Seq(U) /\ b \in Seq(U) /\ Len(a) = Len(b) /\ \A i \in 1 .. Len(a) : a[i] = b[i]
    BY <1>4, <1>5 DEF Longer
  <2> HIDE DEF a, b
  <2>2. a = b
    BY <2>1, SeqEqual
  <2> QED
    BY <2>2 DEF a, b
<1> QED
  BY <1>3, <1>6 DEF IsPrefix

\* A function over the first numbers is a list.
LEMMA FunctionIsList ==
  ASSUME NEW n \in Nat, NEW f, f = [k \in 1 .. n |-> f[k]]
  PROVE  IsList(f) /\ Len(f) = n
<1> DEFINE S == {f[k] : k \in 1 .. n}
<1>1. f \in [1 .. n -> S]
  OBVIOUS
<1> HIDE DEF S
<1>2. f \in Seq(S) /\ Len(f) = n
  BY <1>1
<1> QED
  BY <1>2 DEF IsList

\* Lists that agree have the same parts.
LEMMA SubSeqAgrees ==
  ASSUME NEW s, IsList(s), NEW t, IsList(t), NEW a \in Nat \ {0}, NEW z \in Nat, a <= z,
         z <= Len(s), z <= Len(t), \A j \in 1 .. Len(s) : t[j] = s[j]
  PROVE  SubSeq(t, a, z) = SubSeq(s, a, z)
<1>1. PICK S : s \in Seq(S)
  BY DEF IsList
<1>2. PICK T : t \in Seq(T)
  BY DEF IsList
<1> DEFINE U == S \cup T
           x == SubSeq(s, a, z)
           y == SubSeq(t, a, z)
           len == z - a + 1
<1>3. s \in Seq(U) /\ t \in Seq(U) /\ len \in Nat /\ Len(s) \in Nat
  BY <1>1, <1>2
<1> HIDE DEF U
<1>4. /\ x \in Seq(U) /\ Len(x) = len /\ \A i \in 1 .. len : x[i] = s[a + i - 1]
  BY <1>3
<1>5. /\ y \in Seq(U) /\ Len(y) = len /\ \A i \in 1 .. len : y[i] = t[a + i - 1]
  BY <1>3
<1>6. \A i \in 1 .. len : a + i - 1 \in 1 .. Len(s)
  BY <1>3
<1> HIDE DEF x, y, len
<1>7. x = y
  BY <1>4, <1>5, <1>6, SeqEqual
<1> QED
  BY <1>7 DEF x, y

\* The folds of a longer list of returns continue those of a shorter one.
FoldCount(returns, c) ==
  IF Len(returns) < c.train THEN 0 ELSE (Len(returns) - c.train) \div c.test
FoldAt(returns, c, k) ==
  LET start == c.train + (k - 1) * c.test
  IN  [train |-> {returns[j].date : j \in (start - c.train + 1) .. start},
       test  |-> SubSeq(returns, start + 1, start + c.test)]

LEMMA FoldsAre ==
  ASSUME NEW returns, NEW c
  PROVE  Folds(returns, c) = [k \in 1 .. FoldCount(returns, c) |-> FoldAt(returns, c, k)]
BY DEF Folds, FoldCount, FoldAt

LEMMA Quotients ==
  ASSUME NEW a \in Nat, NEW b \in Nat, NEW t \in Nat \ {0}, a <= b
  PROVE  a \div t \in Nat /\ a \div t <= b \div t /\ (a \div t) * t <= a
<1>1. a \div t \in Nat
  OBVIOUS
<1>2. a \div t <= b \div t
  OBVIOUS
<1>3. (a \div t) * t <= a
  OBVIOUS
<1> QED
  BY <1>1, <1>2, <1>3

LEMMA FoldsContinue ==
  ASSUME NEW r, NEW q, Longer(r, q), NEW c, c.train \in Nat, c.test \in Nat \ {0}
  PROVE  Longer(Folds(r, c), Folds(q, c))
<1> DEFINE m == FoldCount(r, c)
           n == FoldCount(q, c)
<1>1. Len(r) \in Nat /\ Len(q) \in Nat /\ Len(r) <= Len(q)
  BY ListLength DEF Longer
<1>2. /\ m \in Nat /\ n \in Nat /\ m <= n
      /\ m # 0 => c.train + m * c.test <= Len(r)
  <2>1. CASE Len(r) < c.train
    <3>1. m = 0
      BY <2>1 DEF FoldCount
    <3>2. n \in Nat
      <4>1. CASE Len(q) < c.train
        BY <4>1 DEF FoldCount
      <4>2. CASE ~(Len(q) < c.train)
        <5>1. Len(q) - c.train \in Nat
          BY <1>1, <4>2
        <5>2. (Len(q) - c.train) \div c.test \in Nat
          BY <5>1, Quotients
        <5> QED
          BY <4>2, <5>2 DEF FoldCount
      <4> QED
        BY <4>1, <4>2
    <3> HIDE DEF m, n
    <3> QED
      BY <3>1, <3>2
  <2>2. CASE ~(Len(r) < c.train)
    <3> DEFINE a == Len(r) - c.train
               b == Len(q) - c.train
    <3>1. a \in Nat /\ b \in Nat /\ a <= b
      BY <1>1, <2>2
    <3>2. m = a \div c.test /\ n = b \div c.test
      BY <1>1, <2>2 DEF FoldCount
    <3> HIDE DEF m, n, a, b
    <3>3. /\ m \in Nat /\ m <= n /\ m * c.test <= a
      BY <3>1, <3>2, Quotients
    <3>4. n \in Nat
      BY <3>1, <3>2, Quotients
    <3>5. a = Len(r) - c.train
      BY DEF a
    <3>6. m * c.test \in Nat
      BY <3>3
    <3> QED
      BY <1>1, <3>1, <3>3, <3>4, <3>5, <3>6
  <2> QED
    BY <2>1, <2>2
<1> HIDE DEF m, n
<1>3. ASSUME NEW k \in 1 .. m
      PROVE  FoldAt(q, c, k) = FoldAt(r, c, k)
  <2> DEFINE start == c.train + (k - 1) * c.test
  <2>1. (k - 1) * c.test \in Nat /\ (k - 1) * c.test + c.test <= m * c.test
    BY <1>2
  <2>2. start \in Nat /\ start - c.train + 1 >= 1 /\ start + c.test <= Len(r)
    <3> DEFINE x == (k - 1) * c.test
               y == m * c.test
    <3>1. x \in Nat /\ x + c.test <= y /\ y \in Nat /\ c.train + y <= Len(r) /\ start = c.train + x
      BY <1>2, <2>1
    <3> HIDE DEF x, y, start
    <3>2. PICK tr \in Nat, te \in Nat : tr = c.train /\ te = c.test
      OBVIOUS
    <3>3. PICK len \in Nat : len = Len(r)
      BY <1>1
    <3>4. x \in Nat /\ y \in Nat /\ start = tr + x /\ x + te <= y /\ tr + y <= len
      BY <3>1, <3>2, <3>3
    <3>5. start \in Nat /\ start - tr + 1 >= 1 /\ start + te <= len
      BY <3>4
    <3> QED
      BY <3>2, <3>3, <3>5
  <2>3. FoldAt(r, c, k) = [train |-> {r[j].date : j \in (start - c.train + 1) .. start},
                           test |-> SubSeq(r, start + 1, start + c.test)]
    BY DEF FoldAt
  <2>4. FoldAt(q, c, k) = [train |-> {q[j].date : j \in (start - c.train + 1) .. start},
                           test |-> SubSeq(q, start + 1, start + c.test)]
    BY DEF FoldAt
  <2> HIDE DEF start
  <2>5. \A j \in 1 .. Len(r) : q[j] = r[j]
    BY DEF Longer
  <2>6. {q[j].date : j \in (start - c.train + 1) .. start} =
        {r[j].date : j \in (start - c.train + 1) .. start}
    <3>1. \A j \in (start - c.train + 1) .. start : j \in 1 .. Len(r)
      BY <1>1, <2>2
    <3> QED
      BY <2>5, <3>1
  <2>7. SubSeq(q, start + 1, start + c.test) = SubSeq(r, start + 1, start + c.test)
    <3> DEFINE a == start + 1
               z == start + c.test
    <3>1. a \in Nat \ {0} /\ z \in Nat /\ a <= z /\ z <= Len(r) /\ z <= Len(q)
      BY <1>1, <2>2
    <3> HIDE DEF a, z
    <3>2. SubSeq(q, a, z) = SubSeq(r, a, z)
      BY <1>1, <2>5, <3>1, SubSeqAgrees DEF Longer
    <3> QED
      BY <3>2 DEF a, z
  <2> QED
    BY <2>3, <2>4, <2>6, <2>7
<1> DEFINE F == Folds(r, c)
           H == Folds(q, c)
<1>4. F = [k \in 1 .. m |-> FoldAt(r, c, k)] /\ H = [k \in 1 .. n |-> FoldAt(q, c, k)]
  BY FoldsAre DEF m, n
<1> HIDE DEF F, H
<1>5. IsList(F) /\ Len(F) = m
  BY <1>2, <1>4, FunctionIsList
<1>6. IsList(H) /\ Len(H) = n
  BY <1>2, <1>4, FunctionIsList
<1>7. \A k \in 1 .. m : k \in 1 .. n
  BY <1>2
<1>8. \A k \in 1 .. m : H[k] = F[k]
  BY <1>3, <1>4, <1>7
<1>9. Longer(F, H)
  BY <1>2, <1>5, <1>6, <1>8 DEF Longer
<1> QED
  BY <1>9 DEF F, H

\* Two signals that the loop cannot tell apart.
SameSignal(x, y) ==
  /\ (x.ok <=> y.ok) /\ (x.known <=> y.known)
  /\ x.target = y.target /\ x.read = y.read /\ x.used = y.used

\* The dates and signals of a longer run agree with those of a shorter one up
\* to the last date of the shorter one, which has no signal there.
Agree(dates, signals, more, others) ==
  /\ Len(dates) \in Nat /\ Len(dates) >= 2 /\ Len(more) \in Nat /\ Len(dates) <= Len(more)
  /\ \A i \in 1 .. Len(dates) : more[i] = dates[i]
  /\ \A i \in 1 .. (Len(dates) - 1) : i \in DOMAIN signals <=> i \in DOMAIN others
  /\ \A i \in 1 .. (Len(dates) - 1) :
        i \in DOMAIN signals => SameSignal(signals[i], others[i])
  /\ Len(dates) \notin DOMAIN signals

LEMMA TakeSameSignal ==
  ASSUME NEW acc, NEW date, NEW x, NEW y, SameSignal(x, y)
  PROVE  TakeSignal(acc, date, x) = TakeSignal(acc, date, y)
<1>1. CASE ~x.ok
  BY <1>1 DEF SameSignal, TakeSignal
<1>2. CASE x.ok /\ ~x.known
  BY <1>2 DEF SameSignal, TakeSignal
<1>3. CASE x.ok /\ x.known
  BY <1>3 DEF SameSignal, TakeSignal
<1> QED
  BY <1>1, <1>2, <1>3

\* Both loops do the same before the last date of the shorter one.
LEMMA SameBefore ==
  ASSUME NEW dates, NEW signals, NEW more, NEW others, Agree(dates, signals, more, others),
         NEW f, IsLoop(f, dates, signals, Len(dates)),
         NEW g, IsLoop(g, more, others, Len(more))
  PROVE  \A k \in 1 .. (Len(dates) - 1) : g[k] = f[k]
<1> DEFINE n == Len(dates) - 1
           G == {k \in 1 .. n : g[k] = f[k]}
<1>1. /\ n \in Nat /\ 1 <= n /\ n + 1 = Len(dates)
      /\ \A k \in 1 .. n : k \in 1 .. Len(dates) /\ k \in 1 .. Len(more)
  BY DEF Agree
<1>2. /\ \A k \in 1 .. n : f[k] = IF k = 1 THEN Start ELSE DayStep(dates, signals, f[k - 1], k)
      /\ \A k \in 1 .. n : g[k] = IF k = 1 THEN Start ELSE DayStep(more, others, g[k - 1], k)
  BY <1>1 DEF IsLoop
<1> HIDE DEF n
<1>3. 1 \in G
  BY <1>1, <1>2
<1>4. ASSUME NEW k \in 1 .. n, k \in G, k < n PROVE k + 1 \in G
  <2>1. k + 1 \in 1 .. n /\ k + 1 # 1 /\ (k + 1) - 1 = k
    BY <1>1, <1>4
  <2>2. g[k] = f[k]
    BY <1>4
  <2>3. /\ f[k + 1] = DayStep(dates, signals, f[k], k + 1)
        /\ g[k + 1] = DayStep(more, others, f[k], k + 1)
    BY <1>2, <2>1, <2>2
  <2>4. /\ more[k + 1] = dates[k + 1]
        /\ k + 1 \in DOMAIN signals <=> k + 1 \in DOMAIN others
        /\ k + 1 \in DOMAIN signals => SameSignal(signals[k + 1], others[k + 1])
    BY <1>1, <2>1 DEF Agree, n
  <2>5. DayStep(dates, signals, f[k], k + 1) = DayStep(more, others, f[k], k + 1)
    BY <2>4, TakeSameSignal DEF DayStep
  <2> QED
    BY <2>1, <2>3, <2>5
<1> HIDE DEF G
<1>5. \A k \in 1 .. n : k \in G
  BY <1>1, <1>3, <1>4, CountUp
<1> QED
  BY <1>5 DEF G, n

\* The lists of the loop.
Shape(acc) ==
  /\ DOMAIN acc = {"weights", "pending", "returns", "rebalances", "failed"}
  /\ IsList(acc.returns) /\ IsList(acc.rebalances)
Continues(acc, next) ==
  Longer(acc.returns, next.returns) /\ Longer(acc.rebalances, next.rebalances)

LEMMA TakeUpContinues ==
  ASSUME NEW acc, NEW date, Shape(acc)
  PROVE  Shape(TakeUp(acc, date)) /\ Continues(acc, TakeUp(acc, date))
<1> DEFINE next == TakeUp(acc, date)
<1>1. /\ DOMAIN next = {"weights", "pending", "returns", "rebalances", "failed"}
      /\ \E e : next.returns = Append(acc.returns, e)
      /\ next.rebalances = acc.rebalances \/ \E e : next.rebalances = Append(acc.rebalances, e)
  BY TakeUpFields DEF Shape
<1> HIDE DEF next
<1>2. Longer(acc.returns, next.returns) /\ IsList(next.returns)
  BY <1>1, LongerAppend DEF Shape, Longer
<1>3. Longer(acc.rebalances, next.rebalances) /\ IsList(next.rebalances)
  <2>1. CASE next.rebalances = acc.rebalances
    BY <2>1, LongerItself DEF Shape
  <2>2. CASE \E e : next.rebalances = Append(acc.rebalances, e)
    BY <2>2, LongerAppend DEF Shape, Longer
  <2> QED
    BY <1>1, <2>1, <2>2
<1>4. Shape(next) /\ Continues(acc, next)
  BY <1>1, <1>2, <1>3 DEF Shape, Continues
<1> QED
  BY <1>4 DEF next

LEMMA TakeSignalContinues ==
  ASSUME NEW acc, NEW date, NEW sig, Shape(acc)
  PROVE  LET next == TakeSignal(acc, date, sig)
         IN  next.failed \/ (Shape(next) /\ Continues(acc, next))
<1> DEFINE next == TakeSignal(acc, date, sig)
<1>0. DOMAIN acc = {"weights", "pending", "returns", "rebalances", "failed"}
  BY DEF Shape
<1>1. CASE ~sig.ok
  <2>1. next = [acc EXCEPT !.failed = TRUE]
    BY <1>1 DEF TakeSignal
  <2>2. next.failed = TRUE
    BY <1>0, <2>1
  <2> QED
    BY <2>2
<1>2. CASE sig.ok
  <2>1. \/ next = acc
        \/ \E p : next = [acc EXCEPT !.pending = p]
    BY <1>2 DEF TakeSignal
  <2> HIDE DEF next
  <2>2. /\ DOMAIN next = {"weights", "pending", "returns", "rebalances", "failed"}
        /\ next.returns = acc.returns /\ next.rebalances = acc.rebalances
    BY <1>0, <2>1
  <2>3. Shape(next) /\ Continues(acc, next)
    BY <2>2, LongerItself DEF Shape, Continues
  <2> QED
    BY <2>3 DEF next
<1> QED
  BY <1>1, <1>2

LEMMA StepContinues ==
  ASSUME NEW dates, NEW signals, NEW acc, NEW i, Shape(acc) \/ acc.failed
  PROVE  LET next == DayStep(dates, signals, acc, i)
         IN  next.failed \/ (Shape(next) /\ Continues(acc, next))
<1> DEFINE up == TakeUp(acc, dates[i])
           next == DayStep(dates, signals, acc, i)
<1>1. CASE acc.failed
  BY <1>1 DEF DayStep
<1>2. CASE ~acc.failed
  <2>1. Shape(up) /\ Continues(acc, up)
    BY <1>2, TakeUpContinues
  <2>2. CASE i \notin DOMAIN signals
    <3>1. next = up
      BY <1>2, <2>2 DEF DayStep
    <3> QED
      BY <2>1, <3>1
  <2>3. CASE i \in DOMAIN signals
    <3>1. next = TakeSignal(up, dates[i], signals[i])
      BY <1>2, <2>3 DEF DayStep
    <3> HIDE DEF up, next
    <3>2. next.failed \/ (Shape(next) /\ Continues(up, next))
      BY <2>1, <3>1, TakeSignalContinues
    <3>3. Continues(up, next) => Continues(acc, next)
      BY <2>1, LongerTransitive DEF Continues
    <3> QED
      BY <3>2, <3>3 DEF next
  <2> QED
    BY <2>2, <2>3
<1> QED
  BY <1>1, <1>2

\* The longer loop continues what the shorter one ended with, or raises.
LEMMA LoopContinues ==
  ASSUME NEW bs, NEW dates, NEW signals, NEW more, NEW others,
         Agree(dates, signals, more, others),
         LoopState(bs, dates, Len(dates), Loop(dates, signals)),
         ~Loop(dates, signals).failed
  PROVE  Loop(more, others).failed \/ Continues(Loop(dates, signals), Loop(more, others))
<1> DEFINE n == Len(dates)
           m == Len(more)
           final == Loop(dates, signals)
<1>1. n \in Nat /\ n >= 2 /\ m \in Nat /\ n <= m
  BY DEF Agree
<1>2. PICK f : IsLoop(f, dates, signals, n) /\ final = f[n]
  <2>1. n \in Nat \ {0}
    BY <1>1
  <2> QED
    BY <2>1, LoopIs, LoopExists
<1>3. PICK g : IsLoop(g, more, others, m) /\ Loop(more, others) = g[m]
  <2>1. m \in Nat \ {0}
    BY <1>1
  <2> QED
    BY <2>1, LoopIs, LoopExists
<1>4. g[n - 1] = f[n - 1]
  <2>1. n - 1 \in 1 .. (n - 1)
    BY <1>1
  <2> QED
    BY <1>2, <1>3, <2>1, SameBefore
<1> HIDE DEF n, m, final
<1>5. /\ f[n] = DayStep(dates, signals, f[n - 1], n)
      /\ \A k \in 1 .. m : k # 1 => g[k] = DayStep(more, others, g[k - 1], k)
  BY <1>1, <1>2, <1>3 DEF IsLoop
<1>6. n \notin DOMAIN signals /\ more[n] = dates[n]
  BY <1>1 DEF Agree, n
<1>7. Shape(final) /\ ~final.failed
  BY DEF LoopState, Shape, final
<1> DEFINE acc == f[n - 1]
<1>8. ~acc.failed /\ final = TakeUp(acc, dates[n])
  BY <1>2, <1>5, <1>6, <1>7 DEF DayStep
<1>9. g[n] = DayStep(more, others, acc, n)
  <2>1. n \in 1 .. m /\ n # 1
    BY <1>1
  <2> QED
    BY <1>4, <1>5, <2>1
<1> DEFINE Good(x) == x.failed \/ (Shape(x) /\ Continues(final, x))
           G == {k \in n .. m : Good(g[k])}
<1>10. n \in G
  <2>1. CASE n \in DOMAIN others
    <3>1. g[n] = TakeSignal(final, dates[n], others[n])
      BY <1>6, <1>8, <1>9, <2>1 DEF DayStep
    <3> QED
      BY <1>1, <1>7, <3>1, TakeSignalContinues
  <2>2. CASE n \notin DOMAIN others
    <3>1. g[n] = final
      BY <1>6, <1>8, <1>9, <2>2 DEF DayStep
    <3>2. Continues(final, final)
      BY <1>7, LongerItself DEF Shape, Continues
    <3> QED
      BY <1>1, <1>7, <3>1, <3>2
  <2> QED
    BY <2>1, <2>2
<1>11. ASSUME NEW k \in n .. m, k \in G, k < m PROVE k + 1 \in G
  <2>1. k + 1 \in n .. m /\ k + 1 \in 1 .. m /\ k + 1 # 1 /\ (k + 1) - 1 = k
    BY <1>1, <1>11
  <2>2. g[k + 1] = DayStep(more, others, g[k], k + 1)
    BY <1>5, <2>1
  <2> DEFINE x == g[k]
             y == g[k + 1]
  <2>3. Good(x) /\ y = DayStep(more, others, x, k + 1)
    BY <1>11, <2>2
  <2> HIDE DEF x, y
  <2>4. y.failed \/ (Shape(y) /\ Continues(x, y))
    BY <2>3, StepContinues
  <2>5. Good(y)
    <3>1. CASE x.failed
      BY <2>3, <3>1 DEF DayStep
    <3>2. CASE ~x.failed
      BY <2>3, <2>4, <3>2, LongerTransitive DEF Continues
    <3> QED
      BY <3>1, <3>2
  <2> HIDE DEF Good
  <2> QED
    BY <2>1, <2>5 DEF y
<1> HIDE DEF G
<1>12. \A k \in n .. m : k \in G
  BY <1>1, <1>10, <1>11, CountUp
<1>13. m \in G
  BY <1>1, <1>12
<1> QED
  BY <1>3, <1>13 DEF G, final

\* The signals of a run of a configuration that is valid.
SignalsOf(bs, vs, c, dates, signals) ==
  \/ /\ c.kind = "momentum" /\ ValidMomentumConfig(c)
     /\ signals = [i \in Due(dates, c.long, "monthly") |-> MomentumSignal(bs, dates, i, c)]
  \/ /\ c.kind = "factor" /\ ValidFactorConfig(c)
     /\ signals = [i \in Due(dates, c.skip + (IF c.long > c.vol THEN c.long ELSE c.vol), c.frequency)
                     |-> FactorSignal(bs, dates, i, c)]
  \/ /\ c.kind = "macro" /\ ValidMacroConfig(c)
     /\ signals = [i \in Due(dates, 0, "monthly") |-> MacroSignal(bs, vs, dates, i, c)]

\* A backtest that ran went through the loop and did not raise.
RanWith(bs, vs, c, res, dates, signals) ==
  /\ dates = CommonHistory(bs) /\ SignalsOf(bs, vs, c, dates, signals)
  /\ Len(dates) >= 2 /\ c.train \in Nat /\ c.test \in Nat \ {0}
  /\ ~Loop(dates, signals).failed
  /\ res.returns = Loop(dates, signals).returns
  /\ res.rebalances = Loop(dates, signals).rebalances
  /\ res.folds = Folds(res.returns, c)

LEMMA ResultRan ==
  ASSUME NEW c, NEW final, BacktestResult(c, final).state = "ran"
  PROVE  LET res == BacktestResult(c, final)
         IN  /\ ~final.failed /\ res.returns = final.returns
             /\ res.rebalances = final.rebalances /\ res.folds = Folds(res.returns, c)
<1>1. CASE final.failed
  BY <1>1 DEF BacktestResult, NoResult
<1>2. CASE ~final.failed
  BY <1>2 DEF BacktestResult
<1> QED
  BY <1>1, <1>2

LEMMA HowItRan ==
  ASSUME NEW bs, NEW n, NEW c \in Configs, BarsOk(bs, n, c.availLag), NEW vs,
         RunBacktest(bs, vs, c).state = "ran"
  PROVE  \E dates, signals : RanWith(bs, vs, c, RunBacktest(bs, vs, c), dates, signals)
<1> DEFINE dates == CommonHistory(bs)
           res == RunBacktest(bs, vs, c)
<1>0. Len(dates) \in Nat
  BY PanelOk DEF PanelUpTo
<1> HIDE DEF dates
<1>1. /\ {c.long, c.short, c.vol, c.skip, c.train, c.test, c.publicationLag} \subseteq Int
      /\ c.kind \in {"momentum", "factor", "macro"}
  BY BacktestAssumption
<1>2. NoResult.state # "ran"
  BY DEF NoResult
<1>3. CASE c.kind = "momentum"
  <2> DEFINE signals == [i \in Due(dates, c.long, "monthly") |-> MomentumSignal(bs, dates, i, c)]
             done == BacktestResult(c, Loop(dates, signals))
  <2>1. res = IF ~ValidMomentumConfig(c) \/ Len(dates) <= c.long + 1 THEN NoResult ELSE done
    BY <1>3 DEF RunBacktest, RunDualMomentum, dates
  <2>2. ValidMomentumConfig(c) /\ ~(Len(dates) <= c.long + 1) /\ res = done /\ done.state = "ran"
    BY <1>2, <2>1
  <2>3. Len(dates) >= 2 /\ c.train \in Nat /\ c.test \in Nat \ {0}
    BY <1>0, <1>1, <2>2 DEF ValidMomentumConfig
  <2>4. SignalsOf(bs, vs, c, dates, signals)
    BY <1>3, <2>2 DEF SignalsOf
  <2> HIDE DEF signals, res
  <2>5. RanWith(bs, vs, c, res, dates, signals)
    BY <2>2, <2>3, <2>4, ResultRan DEF RanWith, dates
  <2> QED
    BY <2>5 DEF res
<1>4. CASE c.kind = "factor"
  <2> DEFINE warmup == c.skip + (IF c.long > c.vol THEN c.long ELSE c.vol)
             signals == [i \in Due(dates, warmup, c.frequency) |-> FactorSignal(bs, dates, i, c)]
             done == BacktestResult(c, Loop(dates, signals))
  <2>1. res = IF ~ValidFactorConfig(c) \/ Len(dates) <= warmup + 1 THEN NoResult ELSE done
    BY <1>4 DEF RunBacktest, RunQuantFactor, dates
  <2>2. ValidFactorConfig(c) /\ ~(Len(dates) <= warmup + 1) /\ res = done /\ done.state = "ran"
    BY <1>2, <2>1
  <2>3. Len(dates) >= 2 /\ c.train \in Nat /\ c.test \in Nat \ {0}
    BY <1>0, <1>1, <2>2 DEF ValidFactorConfig
  <2>4. SignalsOf(bs, vs, c, dates, signals)
    BY <1>4, <2>2 DEF SignalsOf
  <2> HIDE DEF signals, res
  <2>5. RanWith(bs, vs, c, res, dates, signals)
    BY <2>2, <2>3, <2>4, ResultRan DEF RanWith, dates
  <2> QED
    BY <2>5 DEF res
<1>5. CASE c.kind = "macro"
  <2> DEFINE signals == [i \in Due(dates, 0, "monthly") |-> MacroSignal(bs, vs, dates, i, c)]
             done == BacktestResult(c, Loop(dates, signals))
  <2>1. res = IF ~ValidMacroConfig(c) \/ Len(dates) <= c.train + 1 THEN NoResult
              ELSE IF done.state = "ran" /\ done.rebalances = <<>> THEN NoResult
              ELSE done
    BY <1>5 DEF RunBacktest, RunMacroRegime, dates
  <2>2. ValidMacroConfig(c) /\ ~(Len(dates) <= c.train + 1) /\ res = done /\ done.state = "ran"
    BY <1>2, <2>1
  <2>3. Len(dates) >= 2 /\ c.train \in Nat /\ c.test \in Nat \ {0}
    BY <1>0, <1>1, <2>2 DEF ValidMacroConfig
  <2>4. SignalsOf(bs, vs, c, dates, signals)
    BY <1>5, <2>2 DEF SignalsOf
  <2> HIDE DEF signals, res
  <2>5. RanWith(bs, vs, c, res, dates, signals)
    BY <2>2, <2>3, <2>4, ResultRan DEF RanWith, dates
  <2> QED
    BY <2>5 DEF res
<1> QED
  BY <1>1, <1>3, <1>4, <1>5

\* All signals are warranted.
LEMMA SignalsWarranted ==
  ASSUME NEW bs, NEW n, NEW c \in Configs, BarsOk(bs, n, c.availLag), NEW vs, VintagesOk(vs),
         NEW dates, PanelUpTo(bs, n, dates), NEW signals, SignalsOf(bs, vs, c, dates, signals)
  PROVE  \A i \in DOMAIN signals : i \in Nat \ {0} => SignalOk(bs, dates, i, signals[i])
<1>1. {c.long, c.short, c.vol, c.skip, c.train, c.test, c.publicationLag} \subseteq Int
  BY BacktestAssumption
<1>2. /\ Len(dates) \in Nat /\ DOMAIN dates = 1 .. Len(dates)
      /\ \A i \in DOMAIN dates : dates[i] \in Nat
  BY DEF PanelUpTo
<1>3. \A warmup, frequency : \A i \in Due(dates, warmup, frequency) :
        i \in DOMAIN dates /\ i > warmup
  BY <1>2 DEF Due
<1>4. CASE /\ c.kind = "momentum"
           /\ signals = [i \in Due(dates, c.long, "monthly") |-> MomentumSignal(bs, dates, i, c)]
  BY <1>4, MomentumOk
<1>5. ASSUME c.kind = "factor", ValidFactorConfig(c),
             signals = [i \in Due(dates, c.skip + (IF c.long > c.vol THEN c.long ELSE c.vol),
                                  c.frequency) |-> FactorSignal(bs, dates, i, c)]
      PROVE  \A i \in DOMAIN signals : SignalOk(bs, dates, i, signals[i])
  <2>1. c.skip >= 0
    BY <1>5 DEF ValidFactorConfig
  <2> TAKE i \in DOMAIN signals
  <2>2. /\ i \in DOMAIN dates /\ i > c.skip + (IF c.long > c.vol THEN c.long ELSE c.vol)
        /\ signals[i] = FactorSignal(bs, dates, i, c)
    BY <1>3, <1>5
  <2> QED
    BY <1>1, <2>1, <2>2, FactorOk
<1>6. ASSUME c.kind = "macro", ValidMacroConfig(c),
             signals = [i \in Due(dates, 0, "monthly") |-> MacroSignal(bs, vs, dates, i, c)]
      PROVE  \A i \in DOMAIN signals : SignalOk(bs, dates, i, signals[i])
  <2>1. c.publicationLag \in 1 .. 7
    BY <1>6 DEF ValidMacroConfig
  <2> TAKE i \in DOMAIN signals
  <2>2. dates[i] \in Nat /\ signals[i] = MacroSignal(bs, vs, dates, i, c)
    BY <1>2, <1>3, <1>6
  <2> QED
    BY <2>1, <2>2, MacroOk
<1> QED
  BY <1>4, <1>5, <1>6 DEF SignalsOf

\* A run that continues another, signal by signal, rewrites nothing it said.
LEMMA RunContinues ==
  ASSUME NEW bs, NEW n, NEW c \in Configs, BarsOk(bs, n, c.availLag), NEW vs, VintagesOk(vs),
         NEW res, NEW dates, NEW signals, RanWith(bs, vs, c, res, dates, signals),
         NEW bs2, NEW vs2, NEW res2, NEW more, NEW others,
         RanWith(bs2, vs2, c, res2, more, others),
         Agree(dates, signals, more, others)
  PROVE  /\ IsPrefix(res.returns, res2.returns)
         /\ IsPrefix(res.rebalances, res2.rebalances)
         /\ IsPrefix(res.folds, res2.folds)
<1> DEFINE one == Loop(dates, signals)
           two == Loop(more, others)
<1>1. PanelUpTo(bs, n, dates) /\ Len(dates) \in Nat \ {0}
  BY PanelOk DEF RanWith, PanelUpTo
<1>2. \A i \in DOMAIN signals : i \in Nat \ {0} => SignalOk(bs, dates, i, signals[i])
  BY <1>1, SignalsWarranted DEF RanWith
<1>3. ~one.failed /\ ~two.failed
  BY DEF RanWith
<1>4. LoopState(bs, dates, Len(dates), one)
  BY <1>1, <1>2, <1>3, LoopKeeps
<1>5. Continues(one, two)
  BY <1>3, <1>4, LoopContinues
<1> HIDE DEF one, two
<1>6. Longer(res.returns, res2.returns) /\ Longer(res.rebalances, res2.rebalances)
  BY <1>5 DEF Continues, RanWith, one, two
<1>7. Longer(res.folds, res2.folds)
  BY <1>6, FoldsContinue DEF RanWith
<1> QED
  BY <1>6, <1>7, LongerIsPrefix

\* More data: the panel goes on, the bars of its dates stay, and at every date
\* but the last the same macro vintages are public.
MoreData(bs, vs, dates, bs2, vs2, more, lag) ==
  /\ Len(dates) \in Nat /\ DOMAIN dates = 1 .. Len(dates)
  /\ Len(more) \in Nat /\ Len(dates) <= Len(more)
  /\ \A i \in 1 .. Len(dates) : more[i] = dates[i] /\ bs2[dates[i]] = bs[dates[i]]
  /\ \A i \in 1 .. (Len(dates) - 1) : Snapshot(vs2, dates[i], lag) = Snapshot(vs, dates[i], lag)

LEMMA DueAgrees ==
  ASSUME NEW dates, NEW more, Len(dates) \in Nat, Len(more) \in Nat, Len(dates) <= Len(more),
         \A i \in 1 .. Len(dates) : more[i] = dates[i], NEW warmup, NEW frequency
  PROVE  /\ \A i \in 1 .. (Len(dates) - 1) :
               i \in Due(dates, warmup, frequency) <=> i \in Due(more, warmup, frequency)
         /\ Len(dates) \notin Due(dates, warmup, frequency)
<1>1. ASSUME NEW i \in 1 .. (Len(dates) - 1)
      PROVE  i \in Due(dates, warmup, frequency) <=> i \in Due(more, warmup, frequency)
  <2>1. /\ i \in 1 .. Len(dates) /\ i + 1 \in 1 .. Len(dates) /\ i # Len(dates) /\ i # Len(more)
        /\ i \in 1 .. (Len(more) - 1)
    OBVIOUS
  <2>2. more[i] = dates[i] /\ more[i + 1] = dates[i + 1]
    BY <2>1
  <2>3. IsMonthEnd(dates, i) <=> IsMonthEnd(more, i)
    BY <2>1, <2>2 DEF IsMonthEnd
  <2>4. IsWeekEnd(dates, i) <=> IsWeekEnd(more, i)
    BY <2>1, <2>2 DEF IsWeekEnd
  <2>5. i \in Due(dates, warmup, frequency) <=>
          i > warmup /\ IF frequency = "monthly" THEN IsMonthEnd(dates, i) ELSE IsWeekEnd(dates, i)
    BY DEF Due
  <2>6. i \in Due(more, warmup, frequency) <=>
          i > warmup /\ IF frequency = "monthly" THEN IsMonthEnd(more, i) ELSE IsWeekEnd(more, i)
    BY <2>1 DEF Due
  <2> QED
    BY <2>3, <2>4, <2>5, <2>6
<1>2. Len(dates) \notin 1 .. (Len(dates) - 1)
  OBVIOUS
<1>3. Due(dates, warmup, frequency) \subseteq 1 .. (Len(dates) - 1)
  BY DEF Due
<1> QED
  BY <1>1, <1>2, <1>3

LEMMA MomentumSame ==
  ASSUME NEW bs, NEW vs, NEW dates, NEW bs2, NEW vs2, NEW more, NEW c,
         MoreData(bs, vs, dates, bs2, vs2, more, c.publicationLag), c.long \in Int, c.skip \in Int,
         ValidMomentumConfig(c), NEW i \in 1 .. (Len(dates) - 1), i > c.long
  PROVE  SameSignal(MomentumSignal(bs, dates, i, c), MomentumSignal(bs2, more, i, c))
<1> DEFINE a == i - c.skip
           b == i - c.long
           x == MomentumSignal(bs, dates, i, c)
           y == MomentumSignal(bs2, more, i, c)
<1>1. a \in 1 .. Len(dates) /\ b \in 1 .. Len(dates) /\ i \in 1 .. Len(dates)
  <2>1. Len(dates) \in Nat /\ c.long > c.skip /\ c.skip >= 0
    BY DEF MoreData, ValidMomentumConfig
  <2>2. PICK long \in Int, skip \in Int, len \in Nat :
          long = c.long /\ skip = c.skip /\ len = Len(dates)
    BY <2>1
  <2>3. i \in 1 .. (len - 1) /\ i > long /\ long > skip /\ skip >= 0
    BY <2>1, <2>2
  <2>4. i - skip \in 1 .. len /\ i - long \in 1 .. len /\ i \in 1 .. len
    BY <2>3
  <2> QED
    BY <2>2, <2>4
<1>2. /\ x.read = {dates[a], dates[b]} /\ x.used = {} /\ x.known
      /\ x.ok <=> \A s \in Candidates, d \in {dates[a], dates[b]} : bs[d][s].avail <= dates[i]
      /\ x.target = MomentumTarget(bs[dates[b]], bs[dates[a]], c.top)
  BY DEF MomentumSignal, AvailableOnOrBefore
<1>3. /\ y.read = {more[a], more[b]} /\ y.used = {} /\ y.known
      /\ y.ok <=> \A s \in Candidates, d \in {more[a], more[b]} : bs2[d][s].avail <= more[i]
      /\ y.target = MomentumTarget(bs2[more[b]], bs2[more[a]], c.top)
  BY DEF MomentumSignal, AvailableOnOrBefore
<1> HIDE DEF a, b, x, y
<1>4. /\ more[a] = dates[a] /\ more[b] = dates[b] /\ more[i] = dates[i]
      /\ bs2[dates[a]] = bs[dates[a]] /\ bs2[dates[b]] = bs[dates[b]]
  BY <1>1 DEF MoreData
<1>5. SameSignal(x, y)
  <2>1. x.read = y.read /\ x.used = y.used /\ (x.known <=> y.known)
    BY <1>2, <1>3, <1>4
  <2>2. x.target = y.target
    BY <1>2, <1>3, <1>4
  <2>3. x.ok <=> y.ok
    BY <1>2, <1>3, <1>4
  <2> QED
    BY <2>1, <2>2, <2>3 DEF SameSignal
<1> QED
  BY <1>5 DEF x, y

LEMMA MacroSame ==
  ASSUME NEW bs, NEW vs, NEW dates, NEW bs2, NEW vs2, NEW more, NEW c,
         MoreData(bs, vs, dates, bs2, vs2, more, c.publicationLag),
         NEW i \in 1 .. (Len(dates) - 1)
  PROVE  SameSignal(MacroSignal(bs, vs, dates, i, c), MacroSignal(bs2, vs2, more, i, c))
<1> DEFINE x == MacroSignal(bs, vs, dates, i, c)
           y == MacroSignal(bs2, vs2, more, i, c)
           p == Snapshot(vs, dates[i], c.publicationLag)
           q == Snapshot(vs2, more[i], c.publicationLag)
<1>1. i \in 1 .. Len(dates)
  BY DEF MoreData
<1>2. /\ x.read = {dates[i]} /\ x.used = LastTwo(p) /\ (x.known <=> LastTwo(p) # {})
      /\ x.ok <=> \A s \in Symbols : bs[dates[i]][s].avail <= dates[i]
      /\ x.target = EqualWeights(IF Rising(p) THEN Candidates ELSE {})
  BY DEF MacroSignal, AvailableOnOrBefore
<1>3. /\ y.read = {more[i]} /\ y.used = LastTwo(q) /\ (y.known <=> LastTwo(q) # {})
      /\ y.ok <=> \A s \in Symbols : bs2[more[i]][s].avail <= more[i]
      /\ y.target = EqualWeights(IF Rising(q) THEN Candidates ELSE {})
  BY DEF MacroSignal, AvailableOnOrBefore
<1>4. more[i] = dates[i] /\ bs2[dates[i]] = bs[dates[i]] /\ p = q
  BY <1>1 DEF MoreData
<1> HIDE DEF x, y, p, q
<1>5. SameSignal(x, y)
  BY <1>2, <1>3, <1>4 DEF SameSignal
<1> QED
  BY <1>5 DEF x, y

LEMMA FactorSame ==
  ASSUME NEW bs, NEW vs, NEW dates, NEW bs2, NEW vs2, NEW more, NEW c,
         MoreData(bs, vs, dates, bs2, vs2, more, c.publicationLag),
         {c.long, c.short, c.vol, c.skip} \subseteq Int, ValidFactorConfig(c),
         NEW i \in 1 .. (Len(dates) - 1),
         i > c.skip + (IF c.long > c.vol THEN c.long ELSE c.vol)
  PROVE  SameSignal(FactorSignal(bs, dates, i, c), FactorSignal(bs2, more, i, c))
<1> DEFINE recent == i - c.skip
           lo == recent - c.vol
           old == recent - c.long
           mid == recent - c.short
           x == FactorSignal(bs, dates, i, c)
           y == FactorSignal(bs2, more, i, c)
           ends == {dates[recent - m] : m \in {0, c.long, c.short, c.vol}}
           ends2 == {more[recent - m] : m \in {0, c.long, c.short, c.vol}}
           read == {dates[k] : k \in lo .. recent}
           read2 == {more[k] : k \in lo .. recent}
           window == [k \in lo .. recent |-> bs[dates[k]]]
           window2 == [k \in lo .. recent |-> bs2[more[k]]]
<1>1. /\ recent \in 1 .. Len(dates) /\ lo \in 1 .. Len(dates) /\ old \in 1 .. Len(dates)
      /\ mid \in 1 .. Len(dates) /\ i \in 1 .. Len(dates) /\ recent = recent - 0
      /\ \A k \in lo .. recent : k \in 1 .. Len(dates)
  <2>1. /\ Len(dates) \in Nat /\ c.long > c.short /\ c.short >= 2 /\ c.vol >= 2 /\ c.skip >= 0
    BY DEF MoreData, ValidFactorConfig
  <2>2. PICK long \in Int, short \in Int, vol \in Int, skip \in Int :
          long = c.long /\ short = c.short /\ vol = c.vol /\ skip = c.skip
    OBVIOUS
  <2>3. PICK len \in Nat : len = Len(dates)
    BY <2>1
  <2>4. /\ i \in 1 .. (len - 1) /\ i > skip + (IF long > vol THEN long ELSE vol)
        /\ long > short /\ short >= 2 /\ vol >= 2 /\ skip >= 0
    BY <2>1, <2>2, <2>3
  <2>5. i > skip + long /\ i > skip + vol
    BY <2>4
  <2>6. /\ i - skip \in 1 .. len /\ (i - skip) - vol \in 1 .. len /\ (i - skip) - long \in 1 .. len
        /\ (i - skip) - short \in 1 .. len /\ i \in 1 .. len /\ i - skip = (i - skip) - 0
    BY <2>4, <2>5
  <2>7. \A k \in ((i - skip) - vol) .. (i - skip) : k \in 1 .. len
    BY <2>6
  <2> QED
    BY <2>2, <2>3, <2>6, <2>7
<1>2. /\ x.read = read \cup ends /\ x.used = {} /\ x.known
      /\ x.ok <=> \A s \in Symbols, d \in ends : bs[d][s].avail <= dates[i]
      /\ x.target = FactorDecision(c, bs[dates[recent]], bs[dates[old]], bs[dates[mid]], window)
  BY DEF FactorSignal, AvailableOnOrBefore
<1>3. /\ y.read = read2 \cup ends2 /\ y.used = {} /\ y.known
      /\ y.ok <=> \A s \in Symbols, d \in ends2 : bs2[d][s].avail <= more[i]
      /\ y.target = FactorDecision(c, bs2[more[recent]], bs2[more[old]], bs2[more[mid]], window2)
  BY DEF FactorSignal, AvailableOnOrBefore
<1>4. ends = {dates[recent], dates[old], dates[mid], dates[lo]}
  BY <1>1
<1>5. ends2 = {more[recent], more[old], more[mid], more[lo]}
  BY <1>1
<1> HIDE DEF x, y, ends, ends2, recent, lo, old, mid
<1>6. \A k \in 1 .. Len(dates) : more[k] = dates[k] /\ bs2[dates[k]] = bs[dates[k]]
  BY DEF MoreData
<1>7. ends2 = ends /\ \A d \in ends : bs2[d] = bs[d]
  BY <1>1, <1>4, <1>5, <1>6
<1>8. read2 = read /\ window2 = window
  <2> DEFINE R == lo .. recent
  <2>1. \A k \in R : more[k] = dates[k] /\ bs2[more[k]] = bs[dates[k]]
    BY <1>1, <1>6
  <2> HIDE DEF R
  <2>2. {more[k] : k \in R} = {dates[k] : k \in R}
    BY <2>1
  <2>3. [k \in R |-> bs2[more[k]]] = [k \in R |-> bs[dates[k]]]
    BY <2>1
  <2> QED
    BY <2>2, <2>3 DEF R
<1> HIDE DEF read, read2, window, window2
<1>9. SameSignal(x, y)
  <2>1. x.read = y.read /\ x.used = y.used /\ (x.known <=> y.known)
    BY <1>2, <1>3, <1>7, <1>8
  <2>2. x.target = y.target
    BY <1>1, <1>2, <1>3, <1>6, <1>8
  <2>3. x.ok <=> y.ok
    BY <1>1, <1>2, <1>3, <1>6, <1>7
  <2> QED
    BY <2>1, <2>2, <2>3 DEF SameSignal
<1> QED
  BY <1>9 DEF x, y

\* With more data the signals of the earlier dates are the same.
LEMMA SignalsAgree ==
  ASSUME NEW bs, NEW vs, NEW dates, NEW bs2, NEW vs2, NEW more, NEW c \in Configs,
         MoreData(bs, vs, dates, bs2, vs2, more, c.publicationLag), Len(dates) >= 2,
         NEW signals, SignalsOf(bs, vs, c, dates, signals),
         NEW others, SignalsOf(bs2, vs2, c, more, others)
  PROVE  Agree(dates, signals, more, others)
<1>1. {c.long, c.short, c.vol, c.skip, c.train, c.test, c.publicationLag} \subseteq Int
  BY BacktestAssumption
<1>2. /\ Len(dates) \in Nat /\ Len(more) \in Nat /\ Len(dates) <= Len(more)
      /\ \A i \in 1 .. Len(dates) : more[i] = dates[i]
  BY DEF MoreData
<1>3. \A warmup, frequency : \A i \in Due(dates, warmup, frequency) : i > warmup
  BY DEF Due
<1> SUFFICES /\ \A i \in 1 .. (Len(dates) - 1) : i \in DOMAIN signals <=> i \in DOMAIN others
             /\ \A i \in 1 .. (Len(dates) - 1) :
                   i \in DOMAIN signals => SameSignal(signals[i], others[i])
             /\ Len(dates) \notin DOMAIN signals
  BY <1>2 DEF Agree
<1>4. CASE c.kind = "momentum"
  <2>1. /\ ValidMomentumConfig(c)
        /\ signals = [i \in Due(dates, c.long, "monthly") |-> MomentumSignal(bs, dates, i, c)]
        /\ others = [i \in Due(more, c.long, "monthly") |-> MomentumSignal(bs2, more, i, c)]
    BY <1>4 DEF SignalsOf
  <2>2. DOMAIN signals = Due(dates, c.long, "monthly") /\ DOMAIN others = Due(more, c.long, "monthly")
    BY <2>1
  <2>3. /\ \A i \in 1 .. (Len(dates) - 1) : i \in DOMAIN signals <=> i \in DOMAIN others
        /\ Len(dates) \notin DOMAIN signals
    BY <1>2, <2>2, DueAgrees
  <2>4. ASSUME NEW i \in 1 .. (Len(dates) - 1), i \in DOMAIN signals
        PROVE  SameSignal(signals[i], others[i])
    <3>1. /\ signals[i] = MomentumSignal(bs, dates, i, c) /\ i > c.long
          /\ others[i] = MomentumSignal(bs2, more, i, c)
      BY <1>3, <2>1, <2>2, <2>3, <2>4
    <3>2. SameSignal(MomentumSignal(bs, dates, i, c), MomentumSignal(bs2, more, i, c))
      BY <1>1, <2>1, <3>1, MomentumSame
    <3> QED
      BY <3>1, <3>2
  <2> QED
    BY <2>3, <2>4
<1>5. CASE c.kind = "factor"
  <2> DEFINE warmup == c.skip + (IF c.long > c.vol THEN c.long ELSE c.vol)
  <2>1. /\ ValidFactorConfig(c)
        /\ signals = [i \in Due(dates, warmup, c.frequency) |-> FactorSignal(bs, dates, i, c)]
        /\ others = [i \in Due(more, warmup, c.frequency) |-> FactorSignal(bs2, more, i, c)]
    BY <1>5 DEF SignalsOf
  <2> HIDE DEF warmup
  <2>2. DOMAIN signals = Due(dates, warmup, c.frequency) /\ DOMAIN others = Due(more, warmup, c.frequency)
    BY <2>1
  <2>3. /\ \A i \in 1 .. (Len(dates) - 1) : i \in DOMAIN signals <=> i \in DOMAIN others
        /\ Len(dates) \notin DOMAIN signals
    BY <1>2, <2>2, DueAgrees
  <2>4. ASSUME NEW i \in 1 .. (Len(dates) - 1), i \in DOMAIN signals
        PROVE  SameSignal(signals[i], others[i])
    <3>1. /\ signals[i] = FactorSignal(bs, dates, i, c) /\ i > warmup
          /\ others[i] = FactorSignal(bs2, more, i, c)
      BY <1>3, <2>1, <2>2, <2>3, <2>4
    <3>2. SameSignal(FactorSignal(bs, dates, i, c), FactorSignal(bs2, more, i, c))
      BY <1>1, <2>1, <3>1, FactorSame DEF warmup
    <3> QED
      BY <3>1, <3>2
  <2> QED
    BY <2>3, <2>4
<1>6. CASE c.kind = "macro"
  <2>1. /\ signals = [i \in Due(dates, 0, "monthly") |-> MacroSignal(bs, vs, dates, i, c)]
        /\ others = [i \in Due(more, 0, "monthly") |-> MacroSignal(bs2, vs2, more, i, c)]
    BY <1>6 DEF SignalsOf
  <2>2. DOMAIN signals = Due(dates, 0, "monthly") /\ DOMAIN others = Due(more, 0, "monthly")
    BY <2>1
  <2>3. /\ \A i \in 1 .. (Len(dates) - 1) : i \in DOMAIN signals <=> i \in DOMAIN others
        /\ Len(dates) \notin DOMAIN signals
    BY <1>2, <2>2, DueAgrees
  <2>4. ASSUME NEW i \in 1 .. (Len(dates) - 1), i \in DOMAIN signals
        PROVE  SameSignal(signals[i], others[i])
    <3>1. /\ signals[i] = MacroSignal(bs, vs, dates, i, c)
          /\ others[i] = MacroSignal(bs2, vs2, more, i, c)
      BY <2>1, <2>2, <2>3, <2>4
    <3>2. SameSignal(MacroSignal(bs, vs, dates, i, c), MacroSignal(bs2, vs2, more, i, c))
      BY MacroSame
    <3> QED
      BY <3>1, <3>2
  <2> QED
    BY <2>3, <2>4
<1> QED
  BY <1>4, <1>5, <1>6 DEF SignalsOf

\* Histories over the same tables are the same.
LEMMA SameHistory ==
  ASSUME NEW bs, NEW bs2, NEW n \in Nat, \A d \in 1 .. n : bs2[d] = bs[d],
         NEW m \in Nat, n <= m, NEW f, IsHistory(f, bs, n), NEW g, IsHistory(g, bs2, m)
  PROVE  \A k \in 0 .. n : g[k] = f[k]
<1> DEFINE G == {k \in 0 .. n : g[k] = f[k]}
<1>1. /\ \A k \in 0 .. n : f[k] = IF k = 0 THEN <<>> ELSE NextHistory(bs, f[k - 1], k)
      /\ \A k \in 0 .. m : g[k] = IF k = 0 THEN <<>> ELSE NextHistory(bs2, g[k - 1], k)
  BY DEF IsHistory, NextHistory
<1>2. 0 \in G
  BY <1>1
<1>3. ASSUME NEW k \in 0 .. n, k \in G, k < n PROVE k + 1 \in G
  <2>1. k + 1 \in 0 .. n /\ k + 1 \in 0 .. m /\ k + 1 # 0 /\ (k + 1) - 1 = k /\ k + 1 \in 1 .. n
    BY <1>3
  <2>2. f[k + 1] = NextHistory(bs, f[k], k + 1) /\ g[k + 1] = NextHistory(bs2, f[k], k + 1)
    BY <1>1, <1>3, <2>1
  <2>3. bs2[k + 1] = bs[k + 1]
    BY <2>1
  <2> QED
    BY <2>1, <2>2, <2>3 DEF NextHistory
<1> HIDE DEF G
<1>4. \A k \in 0 .. n : k \in G
  BY <1>2, <1>3, CountUp
<1> QED
  BY <1>4 DEF G

\* A session more leaves the panel alone or adds its date.
LEMMA HistoryGrows ==
  ASSUME NEW bs, NEW n, NEW lag, BarsOk(bs, n, lag), NEW bs2, BarsOk(bs2, n + 1, lag),
         \A d \in 1 .. n : bs2[d] = bs[d]
  PROVE  CommonHistory(bs2) = NextHistory(bs2, CommonHistory(bs), n + 1)
<1>1. n \in Nat /\ n + 1 \in Nat /\ DOMAIN bs = 1 .. n /\ DOMAIN bs2 = 1 .. (n + 1)
  BY DEF BarsOk
<1>2. Cardinality(DOMAIN bs) = n /\ Cardinality(DOMAIN bs2) = n + 1
  <2>1. \A k \in Nat : Cardinality(1 .. k) = k
    <3> TAKE k \in Nat
    <3>1. 1 \in Int /\ k \in Int /\ k - 1 + 1 = k
      OBVIOUS
    <3>2. Cardinality(1 .. k) = IF 1 > k THEN 0 ELSE k - 1 + 1
      BY <3>1, FS_Interval
    <3> QED
      BY <3>2
  <2> QED
    BY <1>1, <2>1
<1>3. PICK f : IsHistory(f, bs, n) /\ CommonHistory(bs) = f[n]
  BY <1>1, <1>2, HistoryIs, HistoryExists
<1>4. PICK g : IsHistory(g, bs2, n + 1) /\ CommonHistory(bs2) = g[n + 1]
  BY <1>1, <1>2, HistoryIs, HistoryExists
<1>5. g[n] = f[n]
  <2>1. n \in 0 .. n /\ n <= n + 1
    BY <1>1
  <2> QED
    BY <1>1, <1>3, <1>4, <2>1, SameHistory
<1>6. g[n + 1] = NextHistory(bs2, g[n], n + 1)
  <2>1. n + 1 \in 0 .. (n + 1) /\ n + 1 # 0 /\ (n + 1) - 1 = n
    BY <1>1
  <2> QED
    BY <1>4, <2>1 DEF IsHistory, NextHistory
<1> QED
  BY <1>3, <1>4, <1>5, <1>6

SaysMore(r, q) ==
  /\ IsPrefix(r.returns, q.returns)
  /\ IsPrefix(r.rebalances, q.rebalances)
  /\ IsPrefix(r.folds, q.folds)

\* The result is that of the stored data.
UpToDate ==
  BacktestInv /\ (result = NoResult \/ result = RunBacktest(bars, vintages, config))

LEMMA HowTheResultRan ==
  ASSUME UpToDate, result.state = "ran"
  PROVE  \E dates, signals : RanWith(bars, vintages, config, result, dates, signals)
<1>1. result = RunBacktest(bars, vintages, config)
  BY DEF UpToDate, NoResult
<1>2. config \in Configs /\ BarsOk(bars, today, config.availLag)
  BY DEF UpToDate, BacktestInv
<1>3. \E dates, signals :
        RanWith(bars, vintages, config, RunBacktest(bars, vintages, config), dates, signals)
  BY <1>1, <1>2, HowItRan
<1> QED
  BY <1>1, <1>3

LEMMA CollectSaysMore ==
  ASSUME UpToDate, BacktestInv', NEW up, NEW missing, Collect(up, missing),
         result.state = "ran", result'.state = "ran"
  PROVE  SaysMore(result, result')
<1>1. /\ today' = today + 1 /\ config' = config /\ vintages' = vintages
      /\ result' = RunBacktest(bars', vintages, config)
      /\ \A d \in 1 .. (today + 1) : d # today + 1 => bars'[d] = bars[d]
  BY DEF Collect
<1>2. /\ config \in Configs /\ BarsOk(bars, today, config.availLag) /\ VintagesOk(vintages)
      /\ BarsOk(bars', today + 1, config.availLag)
  BY <1>1 DEF UpToDate, BacktestInv
<1>3. today \in Nat /\ \A d \in 1 .. today : bars'[d] = bars[d]
  <2>1. today \in Nat
    BY <1>2 DEF BarsOk
  <2>2. \A d \in 1 .. today : d \in 1 .. (today + 1) /\ d # today + 1
    BY <2>1
  <2> QED
    BY <1>1, <2>1, <2>2
<1> DEFINE dates == CommonHistory(bars)
           more == CommonHistory(bars')
<1>4. PICK signals : RanWith(bars, vintages, config, result, dates, signals)
  BY HowTheResultRan DEF RanWith
<1>5. PICK others : RanWith(bars', vintages, config, result', more, others)
  <2>1. \E ds, sg : RanWith(bars', vintages, config, result', ds, sg)
    BY <1>1, <1>2, HowItRan
  <2> QED
    BY <2>1 DEF RanWith
<1>6. PanelUpTo(bars, today, dates)
  BY <1>2, PanelOk
<1>7. more = NextHistory(bars', dates, today + 1)
  BY <1>2, <1>3, HistoryGrows
<1> HIDE DEF dates, more
<1>8. /\ dates \in Seq(Nat) /\ Len(dates) \in Nat /\ DOMAIN dates = 1 .. Len(dates)
      /\ \A i \in DOMAIN dates : dates[i] \in 1 .. today
  BY <1>6 DEF PanelUpTo
<1>9. /\ Len(more) \in Nat /\ Len(dates) <= Len(more)
      /\ \A i \in 1 .. Len(dates) : more[i] = dates[i]
  <2>1. CASE more = dates
    BY <1>8, <2>1
  <2>2. CASE more = Append(dates, today + 1)
    BY <1>3, <1>8, <2>2, AppendProperties
  <2> QED
    BY <1>7, <2>1, <2>2 DEF NextHistory
<1>10. MoreData(bars, vintages, dates, bars', vintages, more, config.publicationLag)
  BY <1>3, <1>8, <1>9 DEF MoreData
<1>11. Agree(dates, signals, more, others)
  BY <1>2, <1>4, <1>5, <1>10, SignalsAgree DEF RanWith
<1> QED
  BY <1>2, <1>4, <1>5, <1>11, RunContinues DEF SaysMore

\* A vintage that becomes public today is unknown to every earlier decision.
LEMMA ReleaseIsLater ==
  ASSUME NEW vs, NEW v, NEW date \in Nat, NEW now \in Nat, date < now, v.start = now,
         NEW lag \in Nat \ {0}
  PROVE  Snapshot(vs \cup {v}, date, lag) = Snapshot(vs, date, lag)
<1> DEFINE public(ws) == {w \in ws : w.obs <= date /\ w.start <= date - lag}
<1>1. ~(v.start <= date - lag)
  OBVIOUS
<1>2. public(vs \cup {v}) = public(vs)
  BY <1>1
<1>3. /\ Snapshot(vs \cup {v}, date, lag) =
           {w \in public(vs \cup {v}) : \A u \in public(vs \cup {v}) : u.obs = w.obs => u.start <= w.start}
      /\ Snapshot(vs, date, lag) =
           {w \in public(vs) : \A u \in public(vs) : u.obs = w.obs => u.start <= w.start}
  BY DEF Snapshot
<1> HIDE DEF public
<1> QED
  BY <1>2, <1>3

LEMMA ReleaseSaysMore ==
  ASSUME UpToDate, BacktestInv', NEW obs, NEW value, Release(obs, value),
         result.state = "ran", result'.state = "ran"
  PROVE  SaysMore(result, result')
<1> DEFINE v == [obs |-> obs, start |-> today, value |-> value]
           dates == CommonHistory(bars)
<1>1. /\ bars' = bars /\ today' = today /\ config' = config /\ config.kind = "macro"
      /\ vintages' = vintages \cup {v} /\ v.start = today
      /\ result' = RunBacktest(bars, vintages', config)
  BY DEF Release
<1> HIDE DEF v
<1>2. /\ config \in Configs /\ BarsOk(bars, today, config.availLag) /\ VintagesOk(vintages)
      /\ today \in Nat
  BY DEF UpToDate, BacktestInv, BarsOk
<1>3. PICK signals : RanWith(bars, vintages, config, result, dates, signals)
  BY HowTheResultRan DEF RanWith
<1>4. PICK others : RanWith(bars, vintages', config, result', dates, others)
  <2>1. \E ds, sg : RanWith(bars, vintages', config, result', ds, sg)
    BY <1>1, <1>2, HowItRan
  <2> QED
    BY <2>1 DEF RanWith
<1>5. PanelUpTo(bars, today, dates)
  BY <1>2, PanelOk
<1> HIDE DEF dates
<1>6. /\ Len(dates) \in Nat /\ DOMAIN dates = 1 .. Len(dates)
      /\ \A i \in DOMAIN dates : dates[i] \in 1 .. today
      /\ \A i, j \in DOMAIN dates : i < j => dates[i] < dates[j]
  BY <1>5 DEF PanelUpTo
<1>7. config.publicationLag \in Nat \ {0}
  BY <1>1, <1>3 DEF RanWith, SignalsOf, ValidMacroConfig
<1>8. ASSUME NEW i \in 1 .. (Len(dates) - 1)
      PROVE  Snapshot(vintages', dates[i], config.publicationLag) =
             Snapshot(vintages, dates[i], config.publicationLag)
  <2>1. i \in DOMAIN dates /\ Len(dates) \in DOMAIN dates /\ i < Len(dates)
    BY <1>6
  <2>2. dates[i] < dates[Len(dates)] /\ dates[i] \in 1 .. today /\ dates[Len(dates)] \in 1 .. today
    BY <1>6, <2>1
  <2>3. dates[i] \in Nat /\ dates[i] < today
    BY <1>2, <2>2
  <2> QED
    BY <1>1, <1>2, <1>7, <2>3, ReleaseIsLater
<1>9. MoreData(bars, vintages, dates, bars, vintages', dates, config.publicationLag)
  BY <1>6, <1>8 DEF MoreData
<1>10. Agree(dates, signals, dates, others)
  BY <1>2, <1>3, <1>4, <1>9, SignalsAgree DEF RanWith
<1> QED
  BY <1>2, <1>3, <1>4, <1>10, RunContinues DEF SaysMore

\* A further session or macro release never rewrites what a backtest said of the
\* past: its returns, its trades and its walk-forward folds are continued, for any
\* configuration, universe, prices, gaps and releases (the loops of
\* run_dual_momentum_backtest, run_quant_factor_backtest and
\* run_macro_regime_backtest, and _walk_forward_folds).
THEOREM PastStaysFixed == BTSpec => PastIsFixed
<1>1. BTInit => UpToDate
  BY BacktestInvInit DEF BTInit, UpToDate
<1>2. UpToDate /\ [BTNext]_btvars => BacktestInv'
  <2> SUFFICES ASSUME UpToDate, [BTNext]_btvars PROVE BacktestInv'
    OBVIOUS
  <2>1. CASE UNCHANGED btvars
    BY <2>1 DEF btvars, BacktestInv, UpToDate
  <2>2. CASE BTNext
    BY <2>2, CollectKeeps, ReleaseKeeps DEF BTNext, UpToDate
  <2> QED
    BY <2>1, <2>2
<1>3. UpToDate /\ [BTNext]_btvars => UpToDate'
  <2> SUFFICES ASSUME UpToDate, [BTNext]_btvars PROVE UpToDate'
    OBVIOUS
  <2>1. BacktestInv'
    BY <1>2
  <2>2. CASE UNCHANGED btvars
    BY <2>1, <2>2 DEF btvars, UpToDate
  <2>3. ASSUME NEW up, NEW missing, Collect(up, missing) PROVE UpToDate'
    BY <2>1, <2>3 DEF Collect, UpToDate
  <2>4. ASSUME NEW obs, NEW value, Release(obs, value) PROVE UpToDate'
    BY <2>1, <2>4 DEF Release, UpToDate
  <2> QED
    BY <2>2, <2>3, <2>4 DEF BTNext
<1>4. UpToDate /\ [BTNext]_btvars =>
        [(result.state = "ran" /\ result'.state = "ran") =>
           /\ IsPrefix(result.returns, result'.returns)
           /\ IsPrefix(result.rebalances, result'.rebalances)
           /\ IsPrefix(result.folds, result'.folds)]_btvars
  <2> SUFFICES ASSUME UpToDate, BTNext, result.state = "ran", result'.state = "ran"
               PROVE  SaysMore(result, result')
    BY DEF SaysMore
  <2>1. BacktestInv'
    BY <1>2
  <2> QED
    BY <2>1, CollectSaysMore, ReleaseSaysMore DEF BTNext
<1> QED
  BY <1>1, <1>3, <1>4, PTL DEF BTSpec, PastIsFixed
=============================================================================

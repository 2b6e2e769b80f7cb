----------------------------- MODULE LedgerSchema -----------------------------
(* The schema migrations that every process runs when it opens the account    *)
(* ledger (AccountLedger.init_schema and _migrate_schema).  The script with   *)
(* the current tables comes first.  Then each version adds columns after it   *)
(* looked for them, then indexes and tables IF NOT EXISTS, and then sets      *)
(* PRAGMA user_version; version 2 also fills the rows of a column it has      *)
(* added, and version 5 rebuilds market_bars in one transaction when its      *)
(* primary key is not the new one.                                            *)
(*                                                                            *)
(* Outside a transaction every statement commits on its own.  Python opens a  *)
(* transaction for the UPDATE of version 2 alone; the statements after it are *)
(* part of it until the script of version 3, which commits first.  Meanwhile  *)
(* others read the file as it was and wait to write.                          *)
(*                                                                            *)
(* The columns of a version, and its indexes and tables, are one part each: a *)
(* process that died among them left the last of them to be added.            *)
EXTENDS Integers

CONSTANTS Openers, MaxRestarts

ASSUME SchemaAssumption == MaxRestarts \in Nat

VARIABLES
    file,        \* what is committed: [version, parts]
    tx,          \* the file as the process `by` will commit it, or NoTransaction
    opener,      \* where each process is in init_schema
    restarts

schemaVars == <<file, tx, opener, restarts>>

LastVersion == 5
Structure ==
    {<<0, "tables">>} \cup (1..LastVersion) \X {"columns"} \cup (1..4) \X {"objects"}
FilledRows == <<2, "rows">>
Parts == Structure \cup {FilledRows}

(* What trading_ledger.sql creates in a new file; there are no rows to fill.  *)
Created == {<<0, "tables">>, FilledRows} \cup (2..LastVersion) \X {"columns"}

Files == [version : 0..LastVersion, parts : SUBSET Parts]
NobodysFile == [version |-> 0, parts |-> {}]
NoTransaction == [open |-> FALSE, by |-> "nobody", file |-> NobodysFile]
Closed == [at |-> "closed", v |-> 0, missing |-> FALSE]
Opened == [Closed EXCEPT !.at = "open"]

(* A new file, or one that an older version of the code has left. *)
SchemaInit ==
    /\ \/ file = NobodysFile
       \/ \E v \in 0..LastVersion :
             file = [version |-> v, parts |-> {x \in Parts : x[1] <= v}]
    /\ tx = NoTransaction
    /\ opener = [p \in Openers |-> Closed]
    /\ restarts = 0

InTransaction(p) == tx.open /\ tx.by = p

(* What a process reads, *)
Seen(p) == IF InTransaction(p) THEN tx.file ELSE file

(* and what a statement that changes it leaves. *)
WriteFile(p, f) ==
    IF InTransaction(p)
    THEN tx' = [tx EXCEPT !.file = f] /\ UNCHANGED file
    ELSE ~tx.open /\ file' = f /\ UNCHANGED tx

(* A statement that may have nothing to do and then waits for nobody. *)
Ensure(p, xs) ==
    IF xs \subseteq Seen(p).parts
    THEN UNCHANGED <<file, tx>>
    ELSE WriteFile(p, [Seen(p) EXCEPT !.parts = @ \cup xs])

CreateTables(p) ==
    /\ opener[p].at = "closed"
    /\ Ensure(p, IF <<0, "tables">> \in file.parts THEN {} ELSE Created)
    /\ opener' = [opener EXCEPT ![p].at = "read"]
    /\ UNCHANGED restarts

(* The version is read once; the process works from there to the last. *)
Look(v) == IF v > LastVersion THEN Opened ELSE [at |-> "look", v |-> v, missing |-> FALSE]

ReadVersion(p) ==
    /\ opener[p].at = "read"
    /\ opener' = [opener EXCEPT ![p] = Look(file.version + 1)]
    /\ UNCHANGED <<file, tx, restarts>>

(* PRAGMA table_info *)
LookForColumns(p) ==
    /\ opener[p].at = "look"
    /\ opener' = [opener EXCEPT ![p].at = "columns",
                                ![p].missing = <<opener[p].v, "columns">> \notin Seen(p).parts]
    /\ UNCHANGED <<file, tx, restarts>>

(* ALTER TABLE ADD COLUMN; the rebuild of the last version.  Only a process   *)
(* that added the column of version 2 goes on to fill it.                     *)
AddColumns(p) ==
    /\ opener[p].at = "columns"
    /\ opener[p].missing =>
          \/ <<opener[p].v, "columns">> \notin Seen(p).parts
          \/ opener[p].v = LastVersion
    /\ Ensure(p, {<<opener[p].v, "columns">>})
    /\ opener' = [opener EXCEPT ![p].at =
                     CASE opener[p].v = 2 /\ opener[p].missing -> "rows"
                       [] opener[p].v = LastVersion -> "version"
                       [] OTHER -> "objects"]
    /\ UNCHANGED restarts

(* A connection that is closed loses what it had not committed. *)
RollBack(p) == tx' = IF InTransaction(p) THEN NoTransaction ELSE tx

(* It fails when another process added the column meanwhile. *)
ColumnsAdded(p) ==
    /\ opener[p].at = "columns" /\ opener[p].missing /\ opener[p].v # LastVersion
    /\ <<opener[p].v, "columns">> \in Seen(p).parts
    /\ opener' = [opener EXCEPT ![p] = Closed]
    /\ RollBack(p)
    /\ UNCHANGED <<file, restarts>>

(* UPDATE cash_ledger, which opens the transaction. *)
FillRows(p) ==
    /\ opener[p].at = "rows"
    /\ ~tx.open
    /\ tx' = [open |-> TRUE, by |-> p, file |-> [file EXCEPT !.parts = @ \cup {FilledRows}]]
    /\ opener' = [opener EXCEPT ![p].at = "objects"]
    /\ UNCHANGED <<file, restarts>>

(* executescript commits before it runs its script. *)
CommitFirst(p) ==
    /\ opener[p].at = "objects" /\ opener[p].v = 3 /\ InTransaction(p)
    /\ file' = tx.file
    /\ tx' = NoTransaction
    /\ UNCHANGED <<opener, restarts>>

AddObjects(p) ==
    /\ opener[p].at = "objects"
    /\ opener[p].v = 3 => ~InTransaction(p)
    /\ Ensure(p, {<<opener[p].v, "objects">>})
    /\ opener' = [opener EXCEPT ![p].at = "version"]
    /\ UNCHANGED restarts

(* Bug: the version is set before the objects of the version exist. *)
SetVersionEarly(p) ==
    /\ opener[p].at \in {"objects", "version"}
    /\ WriteFile(p, [Seen(p) EXCEPT !.version = opener[p].v])
    /\ opener' = [opener EXCEPT ![p] = Look(@.v + 1)]
    /\ UNCHANGED restarts

SetVersion(p) ==
    /\ opener[p].at = "version"
    /\ WriteFile(p, [Seen(p) EXCEPT !.version = opener[p].v])
    /\ opener' = [opener EXCEPT ![p] = Look(@.v + 1)]
    /\ UNCHANGED restarts

(* A process dies while it migrates, or waits too long for another one, and   *)
(* opens the file again.                                                      *)
Interrupted(p) ==
    /\ opener[p].at \notin {"closed", "open"} /\ restarts < MaxRestarts
    /\ restarts' = restarts + 1
    /\ opener' = [opener EXCEPT ![p] = Closed]
    /\ RollBack(p)
    /\ UNCHANGED file

SchemaNext ==
    \E p \in Openers :
        \/ CreateTables(p) \/ ReadVersion(p) \/ LookForColumns(p) \/ AddColumns(p)
        \/ ColumnsAdded(p) \/ FillRows(p) \/ CommitFirst(p) \/ AddObjects(p)
        \/ SetVersion(p) \/ Interrupted(p)

SchemaSpec == SchemaInit /\ [][SchemaNext]_schemaVars

AllOpen == \A p \in Openers : opener[p].at = "open"

(* Whatever process set it last, and wherever another one stopped, the file   *)
(* has the tables, columns and indexes of the version it claims, and a        *)
(* process that got through sees the whole schema (_migrate_schema).  The     *)
(* rows of version 2 are no part of what a version promises: only the process *)
(* that added the column fills them.  While none of them dies or gives up,    *)
(* they are filled when the last one is through.                              *)
VersionIsTrue ==
    /\ file.version > 0 => \A x \in Structure : x[1] <= file.version => x \in file.parts
    /\ \A p \in Openers : opener[p].at = "open" =>
          /\ Structure \subseteq file.parts
          /\ AllOpen /\ restarts = 0 => FilledRows \in file.parts
===============================================================================

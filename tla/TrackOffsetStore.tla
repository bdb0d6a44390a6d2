---------------------------- MODULE TrackOffsetStore ----------------------------
(***************************************************************************)
(* The database of timing corrections                                      *)
(* (src/kotonoha/state/track_offset_store.py): opening it, creating its    *)
(* schema, migrating the first schema, and the two operations, with an     *)
(* error or the end of the process after any durable step.                 *)
(*                                                                         *)
(* SQLite's Python module opens a transaction at the first row inserted    *)
(* and not for a change of the schema: renaming and creating a table are   *)
(* durable at once, and what follows the first insertion is durable        *)
(* together, when the connection's block is left.                          *)
(***************************************************************************)
EXTENDS Integers

CONSTANTS
    Keys,           \* identities of lyric timelines
    NoKey,          \* what a row without a valid identity has
    LegacyRows,     \* rows of the first schema: key, at (updated_at), offset
    Offsets         \* the offsets an upsert may write, 0 standing for no row

VARIABLES
    version,        \* PRAGMA user_version
    table,          \* what the table track_offsets is: none, v1 or v2
    old,            \* the table track_offsets_v1 exists
    legacy,         \* the rows of the table of the first schema
    rows,           \* the rows of the table of the second schema
    conn,           \* the next durable step of the open connection
    op,             \* the operation it was opened for
    kept            \* history: the correction of every key

databaseVars == <<version, table, old, legacy, rows>>
vars == <<databaseVars, conn, op, kept>>

NoRows == [k \in Keys |-> 0]
Load == [key |-> NoKey, offset |-> 0]
Upserts == [key : Keys, offset : Offsets]

\* The rows are copied in the order of their last update, and a row replaces
\* an earlier one of its key; a row without a valid identity is skipped.
Migrated(source) ==
    [k \in Keys |->
        LET mine == {r \in source : r.key = k}
        IN  IF mine = {} THEN 0
            ELSE (CHOOSE r \in mine : \A s \in mine : s.at <= r.at).offset]

\* The correction of a key is that of its latest row.
IsCorrection(k, offset) ==
    \/ offset = 0 /\ ~\E r \in legacy : r.key = k
    \/ \E r \in legacy : /\ r.key = k /\ r.offset = offset
                         /\ ~\E s \in legacy : s.key = k /\ s.at > r.at

\* No database yet, or one of the first schema.
Init ==
    /\ conn = "closed" /\ op = Load
    /\ old = FALSE
    /\ \/ version = 0 /\ table = "none" /\ legacy = {} /\ rows = NoRows /\ kept = NoRows
       \/ /\ version = 1 /\ table = "v1" /\ rows = NoRows
          /\ legacy \in SUBSET LegacyRows
          /\ kept \in [Keys -> {0} \cup {r.offset : r \in LegacyRows}]
          /\ \A k \in Keys : IsCorrection(k, kept[k])

-------------------------------------------------------------------------------
(* One connection: one worker thread runs one operation at a time.         *)

Close == conn' = "closed" /\ op' = Load

\* The migration first reads the columns of the first schema; when the table
\* does not have them the operation fails.
Open(operation) ==
    /\ conn = "closed"
    /\ IF version = 1 /\ table # "v1"
       THEN Close
       ELSE /\ op' = operation
            /\ conn' = CASE version = 0 -> "creating"
                         [] version = 1 -> "renaming"
                         [] version = 2 -> "operating"
    /\ UNCHANGED <<databaseVars, kept>>

\* The schema of an empty database, and its version: two durable steps.
CreateSchema ==
    /\ conn = "creating"
    /\ table' = "v2"
    /\ conn' = "marking"
    /\ UNCHANGED <<version, old, legacy, rows, op, kept>>

MarkVersion ==
    /\ conn = "marking"
    /\ version' = 2
    /\ conn' = "operating"
    /\ UNCHANGED <<table, old, legacy, rows, op, kept>>

RenameTable ==
    /\ conn = "renaming"
    /\ table' = "none" /\ old' = TRUE
    /\ conn' = "recreating"
    /\ UNCHANGED <<version, legacy, rows, op, kept>>

\* With no row to copy there is no transaction, and dropping is durable too.
CreateTable ==
    /\ conn = "recreating"
    /\ table' = "v2"
    /\ conn' = IF \E r \in legacy : r.key # NoKey THEN "copying" ELSE "dropping"
    /\ UNCHANGED <<version, old, legacy, rows, op, kept>>

DropTable ==
    /\ conn = "dropping"
    /\ old' = FALSE /\ legacy' = {}
    /\ conn' = "marking"
    /\ UNCHANGED <<version, table, rows, op, kept>>

\* The rows after the operation itself.
Operated(current) == IF op = Load THEN current ELSE [current EXCEPT ![op.key] = op.offset]

\* Copying the rows, dropping the old table, marking the version and the
\* operation itself are one transaction.
CommitMigration ==
    /\ conn = "copying"
    /\ rows' = Operated(Migrated(legacy)) /\ kept' = Operated(kept)
    /\ old' = FALSE /\ legacy' = {} /\ version' = 2
    /\ Close
    /\ UNCHANGED table

CommitOperation ==
    /\ conn = "operating"
    /\ rows' = Operated(rows) /\ kept' = Operated(kept)
    /\ Close
    /\ UNCHANGED <<version, table, old, legacy>>

\* A statement fails, or the process ends: the transaction is rolled back.
Interrupted ==
    /\ conn # "closed"
    /\ Close
    /\ UNCHANGED <<databaseVars, kept>>

Next ==
    \/ \E operation \in {Load} \cup Upserts : Open(operation)
    \/ CreateSchema \/ MarkVersion
    \/ RenameTable \/ CreateTable \/ DropTable
    \/ CommitMigration \/ CommitOperation
    \/ Interrupted

Spec == Init /\ [][Next]_vars

-------------------------------------------------------------------------------
(* Properties.                                                             *)

\* The migration loses no correction: whatever interrupts it, the database can
\* be opened again and its corrections loaded.
CorrectionsStayReadable == conn = "closed" /\ version = 1 => table = "v1"
===============================================================================

------------------------------- MODULE InvDb -------------------------------
(***************************************************************************)
(* The reading store: class inv_db over class db_base over one SQLite      *)
(* connection.  The connection handle is a bare pointer that close() frees *)
(* and never clears, dc_map lives in the process, the tables live in the   *)
(* file and survive it.  A table is known by its number of columns and by  *)
(* the primary keys of its rows; the other columns hold data no control    *)
(* depends on.                                                             *)
(***************************************************************************)
EXTENDS Integers

CONSTANTS
    MAX_INV_NUM,   \* capacity of Configs::invConfigs
    Serials,       \* serial numbers of inverters
    DcNum          \* values of mppt, the number of DC inputs

ASSUME InvDbAssumption ==
    /\ MAX_INV_NUM \in Nat \ {0}
    /\ DcNum \subseteq Nat

VARIABLES
    handle,    \* m_dbHandle: "null", "open", or "freed" (closed, never nulled)
    dcMap,     \* dc_map: table index -> dc_number
    dcAlive,   \* FALSE once exit() has run the destructor of db
    schema,    \* number of columns of table data_<index>, None if it does not exist
    rows       \* primary keys of the rows of table data_<index>

ramVars == <<handle, dcMap, dcAlive>>
fileVars == <<schema, rows>>
dbVars == <<handle, dcMap, dcAlive, schema, rows>>

None == -1
Index == 0 .. MAX_INV_NUM - 1
Key == [ts : Nat, serial : Serials]

DbTypeOK ==
    /\ handle \in {"null", "open", "freed"}
    /\ dcMap \in [Index -> DcNum \union {None}]
    /\ dcAlive \in BOOLEAN
    /\ schema \in [Index -> Nat \union {None}]
    /\ rows \in [Index -> SUBSET Key]

\* A new process: static storage is zero, dc_map is empty.
DbFresh ==
    /\ handle' = "null"
    /\ dcMap' = [i \in Index |-> None]
    /\ dcAlive' = TRUE

----------------------------------------------------------------------------

\* Columns of CREATE TABLE: Serial .. HTotal, three per DC input, R/S/T, R_Frequency, Error.
CreateColumns(dc) == 9 + 3 * dc + 11

\* Seeded fault: the loop over the DC inputs starts at 1.
InsertValuesFrom1(dc) == 9 + 3 * (IF dc = 0 THEN 0 ELSE dc - 1) + 11

\* Values of INSERT, in the same order.
InsertValues(dc) == 9 + 3 * dc + 11

DbOpen ==
    /\ handle' = "open"
    /\ UNCHANGED <<dcMap, dcAlive, schema, rows>>

\* sqlite3_close frees the connection, m_dbHandle keeps the address.
DbClose ==
    /\ handle' = "freed"
    /\ UNCHANGED <<dcMap, dcAlive, schema, rows>>

\* Seeded fault: the table is dropped and made anew.
DbCreateAfresh(i, dc) ==
    /\ schema' = [schema EXCEPT ![i] = CreateColumns(dc)]
    /\ rows' = [rows EXCEPT ![i] = {}]
    /\ dcMap' = [dcMap EXCEPT ![i] = dc]
    /\ UNCHANGED <<handle, dcAlive>>

\* CREATE TABLE IF NOT EXISTS leaves an existing table as it is, and
\* map::insert an existing entry.
DbCreate(i, dc) ==
    /\ schema' = [schema EXCEPT ![i] = IF @ = None THEN CreateColumns(dc) ELSE @]
    /\ dcMap' = [dcMap EXCEPT ![i] = IF @ = None THEN dc ELSE @]
    /\ UNCHANGED <<handle, dcAlive, rows>>

\* The statement has one value per column of the table.
Fits(i) == schema[i] = InsertValues(dcMap[i])

DbInsert(i, key) ==
    /\ Fits(i)
    /\ key \notin rows[i]
    /\ rows' = [rows EXCEPT ![i] = @ \union {key}]
    /\ UNCHANGED <<handle, dcMap, dcAlive, schema>>

\* What exit() does to db: db_base has no destructor, dc_map has one.
DbDestroy ==
    /\ dcAlive' = FALSE
    /\ UNCHANGED <<handle, dcMap, schema, rows>>
============================================================================

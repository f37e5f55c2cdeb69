--------------------------- MODULE ResearchStore ---------------------------
(***************************************************************************)
(* FeatureStoreV1 and FutureLabelStoreV1 over one database file, opened by *)
(* processes that may mean different stores: the file takes the role of    *)
(* the store that initializes it, and the other store must refuse it.      *)
(*                                                                         *)
(* The connection is opened with isolation_level="DEFERRED".  A SELECT is  *)
(* a transaction of its own; the first INSERT begins the transaction that  *)
(* the CREATE TABLE after it joins and that the end of the block commits.  *)
(* Rows are content-addressed and only build makes them: a row is its id.  *)
(***************************************************************************)

CONSTANTS
    StoreProcesses,
    Rows            \* feature rows or labels, by their content

Roles == {"FEATURES", "LABELS"}
NoRole == "NONE"

VARIABLES
    role,         \* research_store_metadata: the value of store_role
    roleTables,   \* the roles whose table is in the file
    storedRows,   \* rows of the tables: pairs <<role, row>>
    payload,      \* payload[row]: what payload_json of a stored row is of: a
                  \* row, or none if it does not agree with its own digest
    storeStep,    \* storeStep[p]: the next operation of process p
    storeHandle,  \* storeHandle[p]: the store p opened or is opening
    storeSaving,  \* storeSaving[p]: the rows p is saving, one or none
    savedRows     \* history: pairs <<role, row>> whose save returned

storeFile == <<role, roleTables, storedRows, payload>>
storeVars == <<storeFile, storeStep, storeHandle, storeSaving, savedRows>>
-----------------------------------------------------------------------------
Payloads == {{}} \cup {{x} : x \in Rows}

StoreSteps == {"closed", "initialize", "open", "insert", "stored"}

\* Types; a store that is open has its table, so a save cannot miss it.
StoreTypeOK ==
    /\ role \in Roles \cup {NoRole} /\ roleTables \subseteq Roles
    /\ storedRows \subseteq roleTables \X Rows
    /\ payload \in [Roles \X Rows -> Payloads]
    /\ storeStep \in [StoreProcesses -> StoreSteps]
    /\ storeHandle \in [StoreProcesses -> Roles \cup {NoRole}]
    /\ storeSaving \in [StoreProcesses -> SUBSET Rows]
    /\ savedRows \subseteq Roles \X Rows
    /\ \A p \in StoreProcesses :
        storeStep[p] \in {"open", "insert", "stored"} => storeHandle[p] \in roleTables

StoreInit ==
    /\ role = NoRole /\ roleTables = {} /\ storedRows = {}
    /\ payload = [row \in Roles \X Rows |-> {}]
    /\ storeStep = [p \in StoreProcesses |-> "closed"]
    /\ storeHandle = [p \in StoreProcesses |-> NoRole]
    /\ storeSaving = [p \in StoreProcesses |-> {}]
    /\ savedRows = {}

GotoStore(p, step, store, rows) ==
    /\ storeStep' = [storeStep EXCEPT ![p] = step]
    /\ storeHandle' = [storeHandle EXCEPT ![p] = store]
    /\ storeSaving' = [storeSaving EXCEPT ![p] = rows]
-----------------------------------------------------------------------------
(* _initialize *)

\* CREATE TABLE of the metadata and SELECT; another role raises ValueError.
ReadRole(p, r) ==
    /\ storeStep[p] = "closed"
    /\ role \in {NoRole, r}
    /\ GotoStore(p, "initialize", r, {})
    /\ UNCHANGED <<storeFile, savedRows>>

\* INSERT ... ON CONFLICT(key) DO UPDATE: the role is not read again.
InitializeRole(p) ==
    /\ storeStep[p] = "initialize"
    /\ role' = storeHandle[p]
    /\ roleTables' = roleTables \cup {storeHandle[p]}
    /\ GotoStore(p, "open", storeHandle[p], {})
    /\ UNCHANGED <<storedRows, payload, savedRows>>

(* save *)

SaveRow(p, x) ==
    /\ storeStep[p] = "open"
    /\ LET row == <<storeHandle[p], x>>
       IN  \/ row \notin storedRows /\ GotoStore(p, "insert", storeHandle[p], {x})
           \/ /\ row \in storedRows /\ payload[row] = {x}
              /\ GotoStore(p, "stored", storeHandle[p], {x})
    /\ UNCHANGED <<storeFile, savedRows>>

\* Mutant of InsertRow: the transaction is not committed.
InsertRowUncommitted(p) ==
    /\ storeStep[p] = "insert"
    /\ GotoStore(p, "stored", storeHandle[p], storeSaving[p])
    /\ UNCHANGED <<storeFile, savedRows>>

\* INSERT and commit, or IntegrityError when another process was faster.
InsertRow(p) ==
    /\ storeStep[p] = "insert"
    /\ LET rows == {storeHandle[p]} \X storeSaving[p]
       IN  \/ /\ rows \cap storedRows = {}
              /\ storedRows' = storedRows \cup rows
              /\ payload' = [row \in Roles \X Rows |->
                                IF row \in rows THEN {row[2]} ELSE payload[row]]
              /\ GotoStore(p, "stored", storeHandle[p], storeSaving[p])
              /\ UNCHANGED <<role, roleTables, savedRows>>
           \/ /\ rows \cap storedRows # {}
              /\ GotoStore(p, "open", storeHandle[p], {})
              /\ UNCHANGED <<storeFile, savedRows>>

ReturnRow(p) ==
    /\ storeStep[p] = "stored"
    /\ savedRows' = savedRows \cup ({storeHandle[p]} \X storeSaving[p])
    /\ GotoStore(p, "open", storeHandle[p], {})
    /\ UNCHANGED storeFile

\* An error rolls the transaction back and leaves the object usable.
FailRow(p) ==
    /\ storeStep[p] = "insert"
    /\ GotoStore(p, "open", storeHandle[p], {})
    /\ UNCHANGED <<storeFile, savedRows>>

\* The process ends, or the constructor raised.
CloseStore(p) ==
    /\ storeStep[p] # "closed"
    /\ GotoStore(p, "closed", NoRole, {})
    /\ UNCHANGED <<storeFile, savedRows>>

\* The file, not the program: a stored payload_json changes, into one that is
\* of no row or into that of another one, digest and all.
DamageRow ==
    /\ \E row \in storedRows, c \in Payloads :
        c # payload[row] /\ payload' = [payload EXCEPT ![row] = c]
    /\ UNCHANGED <<role, roleTables, storedRows, storeStep, storeHandle, storeSaving, savedRows>>

StoreNext ==
    \/ \E p \in StoreProcesses :
        \/ \E r \in Roles : ReadRole(p, r)
        \/ InitializeRole(p)
        \/ \E x \in Rows : SaveRow(p, x)
        \/ InsertRow(p) \/ ReturnRow(p) \/ FailRow(p) \/ CloseStore(p)
    \/ DamageRow

StoreSpec == StoreInit /\ [][StoreNext]_storeVars
-----------------------------------------------------------------------------
(* load: nothing, a row, or a raised digest error; that the payload is of   *)
(* the row that was asked for is not looked at.                            *)

Loaded(r, x) ==
    {y \in Rows : <<r, x>> \in storedRows /\ payload[<<r, x>>] = {y}}

LoadRaises(r, x) == <<r, x>> \in storedRows /\ payload[<<r, x>>] = {}

\* A row whose save returned is never silently missing, and it is loaded again
\* unless its payload in the file is another than was written: then the load
\* raises, or returns the row that the payload now is of (save, load).
SavedReadable ==
    \A row \in savedRows :
        \/ Loaded(row[1], row[2]) = {row[2]}
        \/ LoadRaises(row[1], row[2])
        \/ /\ payload[row] \notin {{}, {row[2]}}
           /\ Loaded(row[1], row[2]) = payload[row]

\* Role and table are committed together: a crash leaves a file with both or
\* with neither (_initialize).
RoleHasTable == (role = NoRole /\ roleTables = {}) \/ role \in roleTables

\* Features and labels are never in the same file: the stores have distinct
\* roles and refuse each other's file (_initialize).
SeparateStores == \A r, q \in roleTables : r = q
=============================================================================

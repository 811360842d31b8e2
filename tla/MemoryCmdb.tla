------------------------------ MODULE MemoryCmdb ------------------------------
(***************************************************************************)
(* memory-cmdb/src/store.ts: configuration items held in memory and copied *)
(* to SQLite, row by row and without a transaction.                        *)
(*                                                                         *)
(* The operations are synchronous.  Each loads the database if it is the   *)
(* first to need it, changes the memory, then writes rows; it returns,     *)
(* throws because SQLite does, or dies with the process, with any of the   *)
(* rows written.  An item is the set of its fields.                        *)
(***************************************************************************)
EXTENDS Naturals

CONSTANTS
  CIs,           \* ci_key values
  Fields,        \* fields of an item
  None,          \* no item
  Unknown,       \* no promise about an item
  AutoSave,      \* MEMORY_AUTO_SAVE
  MaxFaults,     \* bound: SQLite errors
  MaxCrashes     \* bound: ends of the process

ASSUME CmdbAssumption ==
  /\ \A v \in SUBSET Fields : None # v /\ Unknown # v
  /\ None # Unknown
  /\ AutoSave \in BOOLEAN
  /\ MaxFaults \in Nat /\ MaxCrashes \in Nat

VARIABLES
  mem,     \* state.ciMemory
  rows,    \* the table memory_store
  opened,  \* state.memoryDb # null
  timer,   \* state.autoSaveTimer # null
  acked,   \* what the last call that returned left of each item, Unknown if
           \* a later one, or the load, failed on it
  faults, crashes

vars == <<mem, rows, opened, timer, acked, faults, crashes>>

Values  == SUBSET Fields
Items   == [CIs -> Values \union {None}]
Nothing == [k \in CIs |-> None]

TypeOK ==
  /\ mem \in Items /\ rows \in Items
  /\ opened \in BOOLEAN /\ timer \in BOOLEAN
  /\ acked \in [CIs -> Values \union {None, Unknown}]
  /\ faults \in 0 .. MaxFaults /\ crashes \in 0 .. MaxCrashes

Init ==
  /\ mem = Nothing /\ rows = Nothing
  /\ opened = FALSE /\ timer = FALSE
  /\ acked = Nothing
  /\ faults = 0 /\ crashes = 0

-----------------------------------------------------------------------------
(***************************************************************************)
(* ensureInitialized().                                                    *)
(***************************************************************************)

\* The items a call finds: those in memory, or those it loads.
Loaded_Mutant == mem
Loaded == IF opened THEN mem ELSE rows

\* The load succeeded or was done before.
Open ==
  /\ opened' = TRUE
  /\ timer' = IF opened THEN timer ELSE AutoSave

Fault == faults < MaxFaults /\ faults' = faults + 1

\* The table cannot be read: the call throws.  memoryDb is set already, so
\* nothing loads it again and no autosave starts.
OpenFails ==
  /\ ~opened
  /\ Fault
  /\ opened' = TRUE
  /\ acked' = [k \in CIs |-> Unknown]
  /\ UNCHANGED <<mem, rows, timer, crashes>>

-----------------------------------------------------------------------------
(***************************************************************************)
(* How a call ends.  `items' is the memory it leaves, T the items it is    *)
(* about.                                                                  *)
(***************************************************************************)

In(items) == {k \in CIs : items[k] # None}

\* storeMemoryData() for the items in S: inserted or overwritten.
Store_Mutant(items, S) == [k \in CIs |-> IF k \in S /\ rows[k] = None THEN items[k] ELSE rows[k]]
Store(items, S) == [k \in CIs |-> IF k \in S THEN items[k] ELSE rows[k]]

Returns(items, table, known) ==
  /\ mem' = items /\ rows' = table
  /\ acked' = known
  /\ Open
  /\ UNCHANGED <<faults, crashes>>

Forget(T) == [k \in CIs |-> IF k \in T THEN Unknown ELSE acked[k]]

Throws(items, table, T) ==
  /\ Fault
  /\ mem' = items /\ rows' = table
  /\ acked' = Forget(T)
  /\ Open
  /\ UNCHANGED crashes

Dies(table, T) ==
  /\ crashes < MaxCrashes /\ crashes' = crashes + 1
  /\ mem' = Nothing /\ opened' = FALSE /\ timer' = FALSE
  /\ rows' = table
  /\ acked' = Forget(T)
  /\ UNCHANGED faults

\* triggerSave(): every item in memory is stored, none is deleted.
TriggerSave(items, T) ==
  \/ Returns(items, Store(items, In(items)),
             [k \in CIs |-> IF k \in In(items) THEN items[k] ELSE acked[k]])
  \/ \E S \in SUBSET In(items) :
       \/ S # In(items) /\ Throws(items, Store(items, S), T)
       \/ Dies(Store(items, S), T)

-----------------------------------------------------------------------------
(***************************************************************************)
(* The operations.                                                         *)
(***************************************************************************)

\* getMemoryValue(), queryMemory() and getMemoryStats() load the database.
Get == ~opened /\ Returns(Loaded, rows, acked)

SetValue(k, v) == TriggerSave([Loaded EXCEPT ![k] = v], {k})

Merged(old, v) == (IF old = None THEN {} ELSE old) \union v
Merge(k, v) == TriggerSave([Loaded EXCEPT ![k] = Merged(@, v)], {k})

Save == TriggerSave(Loaded, {})

\* clearMemory(): the memory first.
ClearedRows == Nothing
Clear ==
  \/ Returns(Nothing, ClearedRows, Nothing)
  \/ Throws(Nothing, rows, CIs)
  \/ \E table \in {rows, ClearedRows} : Dies(table, CIs)

\* migrateMemoryFromFilesystem(): item by item from a file, to memory and table.
\* When it fails on k those before it, in M, are in both and k is in memory.
Overwrite(items, F, S) == [k \in CIs |-> IF k \in S THEN F[k] ELSE items[k]]
Migrate(F) ==
  LET K == In(F)
  IN  \/ Returns(Overwrite(Loaded, F, K), Overwrite(rows, F, K), Overwrite(acked, F, K))
      \/ \E k \in K : \E M \in SUBSET (K \ {k}) :
           \/ Throws(Overwrite(Loaded, F, M \union {k}), Overwrite(rows, F, M), M \union {k})
           \/ Dies(Overwrite(rows, F, M), M \union {k})

\* The autosave interval; it swallows errors.
AutoSaves == timer /\ TriggerSave(mem, {})

\* The process ends between two calls.
Crash == Dies(rows, {})

Next ==
  \/ OpenFails \/ Get \/ Save \/ Clear \/ AutoSaves \/ Crash
  \/ \E k \in CIs, v \in Values : SetValue(k, v) \/ Merge(k, v)
  \/ \E F \in Items : Migrate(F)

Spec == Init /\ [][Next]_vars

\* The interval fires.  Calls need not come.
FairSpec == Spec /\ WF_vars(AutoSaves)

-----------------------------------------------------------------------------
(***************************************************************************)
(* Properties.                                                             *)
(***************************************************************************)

\* What a call that returned left of an item is what memory and table hold,
\* across restarts, until another call changes the item or fails on it: a save
\* writes all that differs, a merge starts from the stored item, what a clear
\* removed does not come back.
Durable ==
  \A k \in CIs : acked[k] # Unknown =>
    /\ rows[k] = acked[k]
    /\ opened => mem[k] = acked[k]

\* An item whose write failed is in the table in the end, once the autosave runs.
AutosaveCatchesUp ==
  []<>(~timer \/ \A k \in In(mem) : rows[k] = mem[k])
=============================================================================

--------------------------- MODULE MemoryCmdb_proofs ---------------------------
(***************************************************************************)
(* Durable of MemoryCmdb for any items, fields and number of faults.       *)
(*                                                                         *)
(* An operation differs from the others only in the memory it leaves: the  *)
(* items it loaded, with those it is about replaced.  One lemma about a    *)
(* save of such a memory therefore serves all that end in triggerSave().   *)
(***************************************************************************)
EXTENDS MemoryCmdb, TLAPS

\* None is the absence of an item, Unknown the absence of a promise.
LEMMA NoneIsNoValue == None \notin Values /\ Unknown \notin Values /\ None # Unknown
  BY CmdbAssumption DEF Values

Slots   == Values \union {None}
Flags   == opened \in BOOLEAN /\ timer \in BOOLEAN
Tables  == mem \in Items /\ rows \in Items /\ acked \in [CIs -> Slots \union {Unknown}]
Bounds  == faults \in 0 .. MaxFaults /\ crashes \in 0 .. MaxCrashes

\* The type invariant in the parts the prover takes one by one.
LEMMA TypeParts == TypeOK <=> Tables /\ Flags /\ Bounds
  BY Zenon DEF TypeOK, Tables, Flags, Bounds, Slots

-----------------------------------------------------------------------------
(***************************************************************************)
(* How a call ends.                                                        *)
(***************************************************************************)

\* A call that returns, throws or dies leaves flags and counters in range.
LEMMA EndsInType ==
  ASSUME Flags, Bounds, NEW items, NEW table, NEW T, NEW known,
         Returns(items, table, known) \/ Throws(items, table, T) \/ Dies(table, T)
  PROVE  Flags' /\ Bounds'
<1>1. Flags'
  BY CmdbAssumption, Zenon DEF Flags, Returns, Throws, Dies, Open
<1>2. Bounds'
  BY CmdbAssumption DEF Bounds, Returns, Throws, Dies, Fault
<1>. QED  BY <1>1, <1>2
-----------------------------------------------------------------------------
(***************************************************************************)
(* What a call may leave.  For every item it names it either forgets the   *)
(* promise or keeps it true in both copies.                                *)
(***************************************************************************)

\* The autosave runs only once the database was opened.
TimerImpliesOpen == timer => opened

Inv == TypeOK /\ TimerImpliesOpen /\ Durable

\* What a call finds in memory, and the table, are what was promised.
LEMMA LoadedAsPromised ==
  ASSUME TypeOK, Durable
  PROVE  /\ Loaded \in Items
         /\ \A k \in CIs : acked[k] # Unknown => Loaded[k] = acked[k] /\ rows[k] = acked[k]
  BY TypeParts DEF Tables, Durable, Loaded

\* A call that returns with the promises `known' true in both copies.
LEMMA ReturnsDurably ==
  ASSUME Inv, NEW items \in Items, NEW table \in Items,
         NEW known \in [CIs -> Slots \union {Unknown}],
         \A k \in CIs : known[k] # Unknown => items[k] = known[k] /\ table[k] = known[k],
         Returns(items, table, known)
  PROVE  Inv'
<1>1. Tables'
  BY DEF Tables, Returns
<1>2. Flags' /\ Bounds'
  BY EndsInType, TypeParts DEF Inv
<1>3. TypeOK'
  BY <1>1, <1>2 DEF TypeOK, Tables, Flags, Bounds, Slots
<1>4. TimerImpliesOpen'
  BY DEF TimerImpliesOpen, Returns, Open
<1>5. Durable'
  BY DEF Durable, Returns, Open
<1>. QED  BY <1>3, <1>4, <1>5 DEF Inv

\* A call that fails on the items in T may leave these as it likes, but the
\* others as they were promised.
LEMMA FailsDurably ==
  ASSUME Inv, NEW items \in Items, NEW table \in Items, NEW T,
         \A k \in CIs \ T : acked[k] # Unknown => items[k] = acked[k] /\ table[k] = acked[k],
         Throws(items, table, T) \/ Dies(table, T)
  PROVE  Inv'
<1>1. Forget(T) \in [CIs -> Slots \union {Unknown}]
  BY TypeParts DEF Inv, Forget, Tables
<1>2. Tables'
  BY <1>1, TypeParts DEF Tables, Throws, Dies, Inv, Nothing, Items, Slots
<1>3. Flags' /\ Bounds'
  BY EndsInType, TypeParts DEF Inv
<1>4. TypeOK'
  BY <1>2, <1>3 DEF TypeOK, Tables, Flags, Bounds, Slots
<1>5. TimerImpliesOpen'
  BY DEF TimerImpliesOpen, Throws, Dies, Open
<1>6. Durable'
  BY DEF Durable, Throws, Dies, Open, Forget
<1>. QED  BY <1>4, <1>5, <1>6 DEF Inv

\* A save of the loaded items, those in T replaced by others.
LEMMA SavesDurably ==
  ASSUME Inv, NEW items \in Items, NEW T \in SUBSET CIs,
         \A k \in CIs \ T : items[k] = Loaded[k],
         \A k \in T : items[k] # None,
         TriggerSave(items, T)
  PROVE  Inv'
<1>. DEFINE known == [k \in CIs |-> IF k \in In(items) THEN items[k] ELSE acked[k]]
<1>1. \A S : Store(items, S) \in Items
  BY TypeParts DEF Inv, Tables, Store, Items
<1>2. \A k \in CIs \ T : acked[k] # Unknown => items[k] = acked[k] /\ rows[k] = acked[k]
  BY LoadedAsPromised DEF Inv
<1>3. CASE Returns(items, Store(items, In(items)), known)
  <2>1. known \in [CIs -> Slots \union {Unknown}]
    BY TypeParts DEF Inv, Tables, Items, Slots
  <2>2. \A k \in CIs : known[k] # Unknown =>
                          items[k] = known[k] /\ Store(items, In(items))[k] = known[k]
    BY <1>2 DEF Store, In
  <2>. QED  BY <1>1, <1>3, <2>1, <2>2, ReturnsDurably
<1>4. ASSUME NEW S \in SUBSET In(items),
             Throws(items, Store(items, S), T) \/ Dies(Store(items, S), T)
      PROVE  Inv'
  <2>1. \A k \in CIs \ T : acked[k] # Unknown =>
                             items[k] = acked[k] /\ Store(items, S)[k] = acked[k]
    BY <1>2 DEF Store
  <2>. QED  BY <1>1, <1>4, <2>1, FailsDurably
<1>. QED  BY <1>3, <1>4 DEF TriggerSave

-----------------------------------------------------------------------------
(***************************************************************************)
(* The operations.                                                         *)
(***************************************************************************)

LEMMA LoadKeepsInv == ASSUME Inv, OpenFails \/ Get PROVE Inv'
<1>1. CASE OpenFails
  <2>1. TypeOK'
    BY <1>1, CmdbAssumption DEF Inv, TypeOK, OpenFails, Fault
  <2>2. TimerImpliesOpen' /\ Durable'
    BY <1>1 DEF OpenFails, TimerImpliesOpen, Durable
  <2>. QED  BY <2>1, <2>2 DEF Inv
<1>2. CASE Get
  BY <1>2, ReturnsDurably, LoadedAsPromised, TypeParts DEF Get, Inv, Tables
<1>. QED  BY <1>1, <1>2

LEMMA SetKeepsInv ==
  ASSUME Inv, NEW k \in CIs, NEW v \in Values, SetValue(k, v) \/ Merge(k, v)
  PROVE  Inv'
<1>1. ASSUME NEW w \in Values, TriggerSave([Loaded EXCEPT ![k] = w], {k})
      PROVE  Inv'
  <2>. DEFINE items == [Loaded EXCEPT ![k] = w]
  <2>1. items \in Items /\ items[k] = w /\ \A j \in CIs \ {k} : items[j] = Loaded[j]
    BY LoadedAsPromised DEF Inv, Items
  <2>2. \A j \in {k} : items[j] # None
    BY <2>1, NoneIsNoValue
  <2>. QED  BY <1>1, <2>1, <2>2, SavesDurably
<1>2. CASE SetValue(k, v)
  BY <1>1, <1>2 DEF SetValue
<1>3. CASE Merge(k, v)
  <2>1. Merged(Loaded[k], v) \in Values
    BY LoadedAsPromised DEF Inv, Merged, Items, Values
  <2>2. [Loaded EXCEPT ![k] = Merged(@, v)] = [Loaded EXCEPT ![k] = Merged(Loaded[k], v)]
    OBVIOUS
  <2>. QED  BY <1>1, <1>3, <2>1, <2>2 DEF Merge
<1>. QED  BY <1>2, <1>3

LEMMA SaveKeepsInv == ASSUME Inv, Save \/ AutoSaves PROVE Inv'
<1>1. CASE Save
  BY <1>1, SavesDurably, LoadedAsPromised DEF Save, Inv
<1>2. CASE AutoSaves
  BY <1>2, SavesDurably, LoadedAsPromised DEF AutoSaves, Inv, TimerImpliesOpen, Loaded
<1>. QED  BY <1>1, <1>2

LEMMA ClearKeepsInv == ASSUME Inv, Clear \/ Crash PROVE Inv'
<1>1. Nothing \in Items /\ rows \in Items
  BY TypeParts DEF Inv, Tables, Nothing, Items
<1>2. CASE Returns(Nothing, Nothing, Nothing)
  <2>1. Nothing \in [CIs -> Slots \union {Unknown}]
    BY DEF Nothing, Slots
  <2>. QED  BY <1>1, <1>2, <2>1, ReturnsDurably
<1>3. ASSUME NEW table \in Items, Throws(Nothing, table, CIs) \/ Dies(table, CIs)
      PROVE  Inv'
  BY <1>1, <1>3, FailsDurably
<1>4. CASE Dies(rows, {})
  <2>1. Loaded \in Items /\ \A k \in CIs : acked[k] # Unknown => Loaded[k] = acked[k] /\ rows[k] = acked[k]
    BY LoadedAsPromised DEF Inv
  <2>. QED  BY <1>1, <1>4, <2>1, FailsDurably
<1>. QED  BY <1>1, <1>2, <1>3, <1>4 DEF Clear, Crash, ClearedRows

LEMMA MigrateKeepsInv == ASSUME Inv, NEW F \in Items, Migrate(F) PROVE Inv'
<1>. DEFINE K == In(F)
<1>1. /\ Loaded \in Items /\ rows \in Items
      /\ acked \in [CIs -> Slots \union {Unknown}]
      /\ \A k \in CIs : acked[k] # Unknown => Loaded[k] = acked[k] /\ rows[k] = acked[k]
  BY LoadedAsPromised, TypeParts DEF Inv, Tables
<1>2. \A items \in Items : \A S : Overwrite(items, F, S) \in Items
  BY DEF Overwrite, Items
<1>3. CASE Returns(Overwrite(Loaded, F, K), Overwrite(rows, F, K), Overwrite(acked, F, K))
  <2>1. Overwrite(acked, F, K) \in [CIs -> Slots \union {Unknown}]
    BY <1>1 DEF Overwrite, Items, Slots
  <2>2. \A k \in CIs : Overwrite(acked, F, K)[k] # Unknown =>
           /\ Overwrite(Loaded, F, K)[k] = Overwrite(acked, F, K)[k]
           /\ Overwrite(rows, F, K)[k] = Overwrite(acked, F, K)[k]
    BY <1>1 DEF Overwrite
  <2>. QED  BY <1>1, <1>2, <1>3, <2>1, <2>2, ReturnsDurably
<1>4. ASSUME NEW k \in K, NEW M \in SUBSET (K \ {k}),
             \/ Throws(Overwrite(Loaded, F, M \union {k}), Overwrite(rows, F, M), M \union {k})
             \/ Dies(Overwrite(rows, F, M), M \union {k})
      PROVE  Inv'
  <2>. DEFINE T == M \union {k}
              items == Overwrite(Loaded, F, T)
              table == Overwrite(rows, F, M)
  <2>1. Throws(items, table, T) \/ Dies(table, T)
    BY <1>4
  <2>2. items \in Items /\ table \in Items
    BY <1>1, <1>2
  <2>3. \A j \in CIs \ T : acked[j] # Unknown => items[j] = acked[j] /\ table[j] = acked[j]
    BY <1>1 DEF Overwrite
  <2>. HIDE DEF T, items, table
  <2>. QED  BY <2>1, <2>2, <2>3, FailsDurably
<1>. QED  BY <1>3, <1>4 DEF Migrate

-----------------------------------------------------------------------------
(***************************************************************************)
(* The theorems.                                                           *)
(***************************************************************************)

\* No items is a memory, a table and a promise.
LEMMA NothingTyped == Nothing \in Items /\ Nothing \in [CIs -> Slots \union {Unknown}]
  BY DEF Nothing, Items, Slots

LEMMA InitInv == Init => Inv
<1>1. Init => Tables /\ Flags
  BY Zenon, NothingTyped DEF Init, Tables, Flags, Slots
<1>2. Init => Bounds
  BY CmdbAssumption DEF Init, Bounds
<1>3. Init => TimerImpliesOpen /\ Durable
  BY Zenon DEF Init, TimerImpliesOpen, Durable
<1>. QED  BY <1>1, <1>2, <1>3, TypeParts DEF Inv

LEMMA NextInv == Inv /\ [Next]_vars => Inv'
<1>. SUFFICES ASSUME Inv, [Next]_vars PROVE Inv'
  OBVIOUS
<1>1. CASE Next
  BY <1>1, LoadKeepsInv, SetKeepsInv, SaveKeepsInv, ClearKeepsInv, MigrateKeepsInv DEF Next
<1>2. CASE UNCHANGED vars
  BY <1>2 DEF vars, Inv, TypeOK, TimerImpliesOpen, Durable
<1>. QED  BY <1>1, <1>2

\* Memory, table and promises keep their types, for any items and fields
\* (triggerSave, mergeMemoryValue and migrateMemoryFromFilesystem store items).
THEOREM TypeCorrect == Spec => []TypeOK
<1>1. Inv => TypeOK
  BY DEF Inv
<1>. QED  BY <1>1, InitInv, NextInv, PTL DEF Spec

\* Whatever SQLite errors and crashes come between the calls of store.ts, what
\* a call that returned left of an item is what table and memory hold, until
\* another call changes the item or fails on it.
THEOREM DurableHolds == Spec => []Durable
<1>1. Inv => Durable
  BY DEF Inv
<1>. QED  BY <1>1, InitInv, NextInv, PTL DEF Spec
=============================================================================

--------------------------- MODULE MetadataStore ---------------------------
(***************************************************************************)
(* internal/metadata/cache.go: the immutable snapshots that Store swaps    *)
(* atomically, the definition versions they carry, and the diff that is    *)
(* returned to the refresh loop.                                           *)
(*                                                                         *)
(* A definition is everything itemDefinitionsEqual compares.  The model    *)
(* keeps the two fields other components branch on, delay and enabled; the *)
(* remaining fields (key, name, labels, raw delay, ...) are one tag, rev,  *)
(* whose change makes a definition different and nothing more.             *)
(***************************************************************************)
EXTENDS Integers

CONSTANTS
    Items,        \* the item IDs
    Definitions,  \* the definitions Zabbix may report for an item
    Absent        \* not an entry of a snapshot or of the cache

ASSUME DefinitionAssumption ==
    /\ Definitions # {}
    /\ \A d \in Definitions : /\ d.delay \in Nat \ {0}
                              /\ d.enabled \in BOOLEAN
    /\ Absent \notin Definitions

ItemMetadata == [version : Nat, def : Definitions]

ASSUME AbsentAssumption == Absent \notin ItemMetadata

MetadataSnapshot == [version : Nat, items : [Items -> ItemMetadata \cup {Absent}]]

\* NewStore: an empty snapshot of version 0.
EmptySnapshot == [version |-> 0, items |-> [i \in Items |-> Absent]]

itemDefinitionsEqual(a, b) == a.def = b.def

\* cloneSnapshot: a new or changed item takes the new snapshot's version, an
\* unchanged one keeps the version of its definition.
cloneItem(next, previous, snapshotVersion) ==
    IF next = Absent THEN Absent
    ELSE [version |-> IF previous # Absent /\ previous.def = next
                      THEN previous.version
                      ELSE snapshotVersion,
          def |-> next]

cloneSnapshot(next, current) ==
    [version |-> current.version + 1,
     items |-> [i \in Items |->
                  cloneItem(next[i], current.items[i], current.version + 1)]]

\* diffMap on items.
RemovedItems(old, new) ==
    {i \in Items : old.items[i] # Absent /\ new.items[i] = Absent}

ChangedItems(old, new) ==
    {i \in Items : /\ old.items[i] # Absent
                   /\ new.items[i] # Absent
                   /\ ~itemDefinitionsEqual(old.items[i], new.items[i])}
=============================================================================

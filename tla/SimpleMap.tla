----------------------------- MODULE SimpleMap -----------------------------
(***************************************************************************)
(* SimpleMap<K, V, CAPACITY> of simple_map.rs: a fixed array of optional   *)
(* items, looked up linearly.  A map is a function from 1..CAPACITY to     *)
(* items [key, value] or None (Rust's Option::None); the array index of an *)
(* item is part of the model because the hypervisor keeps pointers into    *)
(* the array.                                                              *)
(***************************************************************************)
EXTENDS Integers

CONSTANT None      \* the value of an empty slot

Item(K, V) == [key : K, value : V]

\* The arrays of `capacity` slots.
SimpleMaps(K, V, capacity) == [1..capacity -> Item(K, V) \cup {None}]

\* SimpleMap::new(): every slot is empty.
New(capacity) == [i \in 1..capacity |-> None]

\* The first index of a non-empty set, where a linear scan stops.
First(S) == CHOOSE i \in S : \A j \in S : i <= j

\* The slots whose item has this key, and the empty slots.
Holding(items, key) == {i \in DOMAIN items : items[i] # None /\ items[i].key = key}

Free(items) == {i \in DOMAIN items : items[i] = None}

Contains(items, key) == Holding(items, key) # {}

\* A get_mut() that forgets to compare the keys.
GetMutAnyKey(items, key) == First(DOMAIN items \ Free(items))

\* get_mut(): the slot the returned reference points into.
GetMut(items, key) == First(Holding(items, key))

\* remove(): empties the first slot with this key; the value it returns is
\* items[GetMut(items, key)].value when the key is present.
Remove(items, key) ==
    IF Contains(items, key)
      THEN [items EXCEPT ![GetMut(items, key)] = None]
      ELSE items

\* An insert() whose loop stops one slot early.
HasRoomShort(items, key) ==
    \E i, j \in Free(Remove(items, key)) : i # j

\* insert() panics ("maximum capacity exceeded") unless this holds.
HasRoom(items, key) == Free(Remove(items, key)) # {}

\* An insert() that takes the first slot, empty or not.
InsertSlotOccupied(items, key) == First(DOMAIN items)

\* The slot insert() uses: the first one free once the old item is removed.
InsertSlot(items, key) == First(Free(Remove(items, key)))

Insert(items, key, value) ==
    [Remove(items, key) EXCEPT
        ![InsertSlot(items, key)] = [key |-> key, value |-> value]]

\* No key is stored twice: what makes the first match the only match.
UniqueKeys(items) ==
    \A i, j \in DOMAIN items :
        (items[i] # None /\ items[j] # None /\ items[i].key = items[j].key) => i = j

=============================================================================

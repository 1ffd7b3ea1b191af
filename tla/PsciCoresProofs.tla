-------------------------- MODULE PsciCoresProofs --------------------------
(***************************************************************************)
(* Proofs that the properties of PsciCores hold for every number of cores, *)
(* every set of entry points and every capacity of the maps.               *)
(*                                                                         *)
(* IInv is inductive: one lemma per action.  Each of them first shows what *)
(* the action does to the two maps, then handles the cores the action does *)
(* not concern with OtherCores, and the core that acts last.               *)
(***************************************************************************)
EXTENDS PsciCoresInv, WellFoundedInduction, TLAPS

-----------------------------------------------------------------------------
(* What the operations of simple_map.rs do, for every key and value type and *)
(* every capacity                                                            *)

\* A non-empty set of naturals has a first element.
LEMMA FirstIn ==
    ASSUME NEW S \in SUBSET Nat, S # {}
    PROVE  First(S) \in S /\ \A j \in S : First(S) <= j
<1>1. PICK i \in S : \A j \in S : ~(<<j, i>> \in OpToRel(<, Nat))
  BY WFMin, NatLessThanWellFounded, Zenon
<1>2. \A j \in S : ~(j < i)
  BY <1>1, Zenon DEF OpToRel
<1>3. \A j \in S : i <= j
  BY <1>2
<1>4. QED
  BY <1>3, Zenon DEF First

\* get_mut() returns the slot of an item with the key it is given.
LEMMA GetMutFinds ==
    ASSUME NEW n \in Nat, NEW items, DOMAIN items = 1..n, NEW key,
           Contains(items, key)
    PROVE  /\ GetMut(items, key) \in 1..n
           /\ items[GetMut(items, key)] # None
           /\ items[GetMut(items, key)].key = key
<1>1. Holding(items, key) \in SUBSET Nat /\ Holding(items, key) # {}
  BY DEF Contains, Holding
<1>2. GetMut(items, key) \in Holding(items, key)
  BY <1>1, FirstIn, Zenon DEF GetMut
<1>3. QED
  BY <1>2, Zenon DEF Holding

\* remove() empties the slot of the key and touches nothing else.
LEMMA RemoveEffect ==
    ASSUME NEW n \in Nat, NEW K, NEW V, NEW items \in SimpleMaps(K, V, n),
           UniqueKeys(items), NEW key
    PROVE  /\ Remove(items, key) \in SimpleMaps(K, V, n)
           /\ \A i \in 1..n : Remove(items, key)[i] =
                 IF items[i] # None /\ items[i].key = key THEN None ELSE items[i]
<1>1. DOMAIN items = 1..n
  BY Zenon DEF SimpleMaps
<1>2. CASE Contains(items, key)
  <2> DEFINE g == GetMut(items, key)
  <2>1. g \in 1..n /\ items[g] # None /\ items[g].key = key
    BY <1>1, <1>2, GetMutFinds
  <2>2. Remove(items, key) = [items EXCEPT ![g] = None]
    BY <1>2, Zenon DEF Remove
  <2>3. \A i \in 1..n : (items[i] # None /\ items[i].key = key) => i = g
    BY <1>1, <2>1, Zenon DEF UniqueKeys
  <2> HIDE DEF g
  <2>4. QED
    BY <1>1, <2>1, <2>2, <2>3, Zenon DEF SimpleMaps
<1>3. CASE ~Contains(items, key)
  BY <1>1, <1>3, Zenon DEF Remove, Contains, Holding
<1>4. QED
  BY <1>2, <1>3, Zenon

\* insert() puts the item in one slot, which was empty or held the same key,
\* leaves every item with another key where it is, and keeps keys unique.
LEMMA InsertEffect ==
    ASSUME NEW n \in Nat, NEW K, NEW V, NEW items \in SimpleMaps(K, V, n),
           UniqueKeys(items), None \notin Item(K, V),
           NEW key \in K, NEW value \in V, HasRoom(items, key)
    PROVE  LET s == InsertSlot(items, key)
               r == Insert(items, key, value)
           IN  /\ s \in 1..n
               /\ items[s] # None => items[s].key = key
               /\ r \in SimpleMaps(K, V, n)
               /\ r[s] = [key |-> key, value |-> value]
               /\ \A i \in 1..n : i # s =>
                     r[i] = IF items[i] # None /\ items[i].key = key THEN None ELSE items[i]
               /\ UniqueKeys(r)
<1> DEFINE s == InsertSlot(items, key)
           r == Insert(items, key, value)
           m == Remove(items, key)
<1>1. /\ m \in SimpleMaps(K, V, n)
      /\ \A i \in 1..n : m[i] =
            IF items[i] # None /\ items[i].key = key THEN None ELSE items[i]
  BY RemoveEffect
<1>2. Free(m) \in SUBSET Nat /\ Free(m) # {}
  BY <1>1 DEF Free, HasRoom, SimpleMaps
<1>3. s \in Free(m)
  BY <1>2, FirstIn, Zenon DEF InsertSlot
<1>4. s \in 1..n /\ m[s] = None
  BY <1>1, <1>3, Zenon DEF Free, SimpleMaps
<1>5. r = [m EXCEPT ![s] = [key |-> key, value |-> value]]
  BY Zenon DEF Insert
<1>6. [key |-> key, value |-> value] \in Item(K, V)
  BY Zenon DEF Item
<1> HIDE DEF s, r, m
<1>7. r \in SimpleMaps(K, V, n) /\ r[s] = [key |-> key, value |-> value]
  BY <1>1, <1>4, <1>5, <1>6, Zenon DEF SimpleMaps
<1>8. \A i \in 1..n : i # s =>
          r[i] = IF items[i] # None /\ items[i].key = key THEN None ELSE items[i]
  BY <1>1, <1>4, <1>5, Zenon DEF SimpleMaps
<1>9. items[s] # None => items[s].key = key
  BY <1>1, <1>4, Zenon
<1>10. UniqueKeys(r)
  <2>1. DOMAIN r = 1..n /\ DOMAIN items = 1..n
    BY <1>7, Zenon DEF SimpleMaps
  <2>2. \A i \in 1..n : (i # s /\ r[i] # None) =>
            r[i] = items[i] /\ items[i] # None /\ items[i].key # key
    BY <1>8, Zenon
  <2>3. r[s].key = key
    BY <1>7
  <2>4. QED
    BY <2>1, <2>2, <2>3 DEF UniqueKeys
<1>11. QED
  BY <1>4, <1>7, <1>8, <1>9, <1>10, Zenon DEF s, r

\* After remove() the key is gone, every other key is as before, and keys are
\* still unique.
LEMMA RemoveKeys ==
    ASSUME NEW n \in Nat, NEW K, NEW V, NEW items \in SimpleMaps(K, V, n),
           UniqueKeys(items), NEW key
    PROVE  /\ UniqueKeys(Remove(items, key))
           /\ \A k : Contains(Remove(items, key), k) <=> (k # key /\ Contains(items, k))
<1> DEFINE r == Remove(items, key)
<1>1. /\ r \in SimpleMaps(K, V, n)
      /\ \A i \in 1..n : r[i] =
            IF items[i] # None /\ items[i].key = key THEN None ELSE items[i]
  BY RemoveEffect
<1> HIDE DEF r
<1>2. DOMAIN r = 1..n /\ DOMAIN items = 1..n
  BY <1>1, Zenon DEF SimpleMaps
<1>3. UniqueKeys(r)
  BY <1>1, <1>2, Zenon DEF UniqueKeys
<1>4. ASSUME NEW k
      PROVE  Contains(r, k) <=> (k # key /\ Contains(items, k))
  BY <1>1, <1>2, Zenon DEF Contains, Holding
<1>5. QED
  BY <1>3, <1>4, Zenon DEF r

\* After insert() the key is there and every other key is as before.
LEMMA InsertKeys ==
    ASSUME NEW n \in Nat, NEW K, NEW V, NEW items \in SimpleMaps(K, V, n),
           UniqueKeys(items), None \notin Item(K, V),
           NEW key \in K, NEW value \in V, HasRoom(items, key)
    PROVE  \A k : Contains(Insert(items, key, value), k) <=> (k = key \/ Contains(items, k))
<1> DEFINE s == InsertSlot(items, key)
           r == Insert(items, key, value)
<1>1. /\ s \in 1..n
      /\ items[s] # None => items[s].key = key
      /\ r \in SimpleMaps(K, V, n)
      /\ r[s] = [key |-> key, value |-> value]
      /\ \A i \in 1..n : i # s =>
            r[i] = IF items[i] # None /\ items[i].key = key THEN None ELSE items[i]
  BY InsertEffect
<1>2. r[s] # None /\ r[s].key = key
  BY <1>1 DEF Item
<1> HIDE DEF s, r
<1>3. DOMAIN r = 1..n /\ DOMAIN items = 1..n
  BY <1>1, Zenon DEF SimpleMaps
<1>4. ASSUME NEW k
      PROVE  Contains(r, k) <=> (k = key \/ Contains(items, k))
  BY <1>1, <1>2, <1>3 DEF Contains, Holding
<1>5. QED
  BY <1>4, Zenon DEF r

\* What a map means, whatever slots its items are in: the pairs it holds.
Pairs(items) ==
    {<<items[i].key, items[i].value>> : i \in {j \in DOMAIN items : items[j] # None}}

\* SimpleMap is a map, for every key and value type and every capacity: while
\* keys are unique, which every operation keeps, get_mut() finds the value of
\* the key and no other, remove() deletes the pair of its key, insert() adds
\* or replaces one, and it has room unless every slot holds another key.
THEOREM MapExact ==
    ASSUME NEW n \in Nat, NEW K, NEW V, NEW items \in SimpleMaps(K, V, n),
           UniqueKeys(items), None \notin Item(K, V), NEW key \in K
    PROVE  LET E == Pairs(items)
               r == Remove(items, key)
               others == {p \in E : p[1] # key}
           IN  /\ Contains(items, key) <=> \E p \in E : p[1] = key
               /\ Contains(items, key) =>
                      \A v : <<key, v>> \in E <=> v = items[GetMut(items, key)].value
               /\ UniqueKeys(r) /\ Pairs(r) = others
               /\ HasRoom(items, key) <=>
                      \E i \in 1..n : items[i] = None \/ items[i].key = key
               /\ HasRoom(items, key) => \A value \in V :
                      /\ UniqueKeys(Insert(items, key, value))
                      /\ Pairs(Insert(items, key, value)) = others \cup {<<key, value>>}
               /\ Pairs(New(n)) = {} /\ UniqueKeys(New(n))
<1> DEFINE E == Pairs(items)
           r == Remove(items, key)
           others == {p \in E : p[1] # key}
<1>1. DOMAIN items = 1..n
  BY Zenon DEF SimpleMaps
<1>2. \A i \in 1..n : items[i] # None => items[i].key \in K /\ items[i].value \in V
  BY Zenon DEF SimpleMaps, Item
<1>3. \A k, v : <<k, v>> \in E <=>
          \E i \in 1..n : items[i] # None /\ items[i].key = k /\ items[i].value = v
  BY <1>1, Zenon DEF Pairs
<1>4. \A p \in E : p = <<p[1], p[2]>>
  BY DEF Pairs
<1>5. Contains(items, key) <=> \E p \in E : p[1] = key
  <2>1. Contains(items, key) <=> \E i \in 1..n : items[i] # None /\ items[i].key = key
    BY <1>1, Zenon DEF Contains, Holding
  <2>2. ASSUME NEW i \in 1..n, items[i] # None, items[i].key = key
        PROVE  \E p \in E : p[1] = key
    <3>1. <<key, items[i].value>> \in E
      BY <1>3, <2>2, Zenon
    <3>2. QED
      BY <3>1, Zenon
  <2>3. ASSUME NEW p \in E, p[1] = key
        PROVE  \E i \in 1..n : items[i] # None /\ items[i].key = key
    BY <1>3, <1>4, <2>3
  <2>4. QED
    BY <2>1, <2>2, <2>3, Zenon
<1>6. ASSUME Contains(items, key), NEW v
      PROVE  <<key, v>> \in E <=> v = items[GetMut(items, key)].value
  <2> DEFINE g == GetMut(items, key)
  <2>1. g \in 1..n /\ items[g] # None /\ items[g].key = key
    BY <1>1, <1>6, GetMutFinds
  <2>2. \A i \in 1..n : (items[i] # None /\ items[i].key = key) => i = g
    BY <1>1, <2>1, Zenon DEF UniqueKeys
  <2> HIDE DEF g, E
  <2>3. items[g].value = v => <<key, v>> \in E
    BY <1>3, <2>1, Zenon
  <2>4. <<key, v>> \in E => items[g].value = v
    BY <1>3, <2>2
  <2>5. QED
    BY <2>3, <2>4, Zenon DEF g
<1>7. /\ r \in SimpleMaps(K, V, n) /\ DOMAIN r = 1..n /\ UniqueKeys(r)
      /\ \A i \in 1..n : r[i] =
            IF items[i] # None /\ items[i].key = key THEN None ELSE items[i]
  BY RemoveEffect, RemoveKeys DEF SimpleMaps
<1> HIDE DEF r
<1>8. \A k, v : <<k, v>> \in Pairs(r) <=> (k # key /\ <<k, v>> \in E)
  <2>1. \A k, v : <<k, v>> \in Pairs(r) <=>
            \E i \in 1..n : r[i] # None /\ r[i].key = k /\ r[i].value = v
    BY <1>7, Zenon DEF Pairs
  <2> HIDE DEF E
  <2>2. ASSUME NEW k, NEW v, <<k, v>> \in Pairs(r)
        PROVE  k # key /\ <<k, v>> \in E
    <3>1. PICK i \in 1..n : r[i] # None /\ r[i].key = k /\ r[i].value = v
      BY <2>1, <2>2
    <3>2. r[i] = items[i] /\ items[i].key # key
      BY <1>7, <3>1, Zenon
    <3>3. QED
      BY <1>3, <3>1, <3>2, Zenon
  <2>3. ASSUME NEW k, NEW v, k # key, <<k, v>> \in E
        PROVE  <<k, v>> \in Pairs(r)
    <3>1. PICK i \in 1..n : items[i] # None /\ items[i].key = k /\ items[i].value = v
      BY <1>3, <2>3
    <3>2. r[i] = items[i]
      BY <1>7, <2>3, <3>1, Zenon
    <3>3. QED
      BY <2>1, <3>1, <3>2, Zenon
  <2>4. QED
    BY <2>2, <2>3, Zenon
<1>9. \A p \in Pairs(r) : p = <<p[1], p[2]>>
  BY DEF Pairs
<1>10. Pairs(r) = others
  <2> HIDE DEF E
  <2>1. ASSUME NEW p \in Pairs(r) PROVE p \in E /\ p[1] # key
    BY <1>8, <1>9
  <2>2. ASSUME NEW p \in E, p[1] # key PROVE p \in Pairs(r)
    BY <1>4, <1>8, <2>2
  <2>3. QED
    BY <2>1, <2>2, Zenon
<1>11. HasRoom(items, key) <=> \E i \in 1..n : items[i] = None \/ items[i].key = key
  <2>1. HasRoom(items, key) <=> \E i \in 1..n : r[i] = None
    BY <1>7, Zenon DEF HasRoom, Free, r
  <2>2. \A i \in 1..n : r[i] = None <=> (items[i] = None \/ items[i].key = key)
    BY <1>7, Zenon
  <2>3. QED
    BY <2>1, <2>2, Zenon
<1>12. ASSUME HasRoom(items, key), NEW value \in V
       PROVE  /\ UniqueKeys(Insert(items, key, value))
              /\ Pairs(Insert(items, key, value)) = others \cup {<<key, value>>}
  <2> DEFINE s == InsertSlot(items, key)
             q == Insert(items, key, value)
             e == [key |-> key, value |-> value]
  <2>1. /\ s \in 1..n /\ q \in SimpleMaps(K, V, n) /\ q[s] = e /\ UniqueKeys(q)
        /\ items[s] # None => items[s].key = key
        /\ \A i \in 1..n : i # s =>
              q[i] = IF items[i] # None /\ items[i].key = key THEN None ELSE items[i]
    BY <1>12, InsertEffect
  <2>2. e # None /\ e.key = key /\ e.value = value
    BY <1>12 DEF Item
  <2>3. DOMAIN q = 1..n
    BY <2>1, Zenon DEF SimpleMaps
  <2> HIDE DEF s, q, e, E
  <2>4. \A i \in 1..n : i # s => q[i] = r[i]
    BY <1>7, <2>1, Zenon
  <2>5. r[s] = None
    BY <1>7, <2>1, Zenon
  <2>6. \A k, v : <<k, v>> \in Pairs(q) <=>
            \E i \in 1..n : q[i] # None /\ q[i].key = k /\ q[i].value = v
    BY <2>3, Zenon DEF Pairs
  <2>7. \A k, v : <<k, v>> \in Pairs(r) <=>
            \E i \in 1..n : r[i] # None /\ r[i].key = k /\ r[i].value = v
    BY <1>7, Zenon DEF Pairs
  <2>8. ASSUME NEW k, NEW v
        PROVE  <<k, v>> \in Pairs(q) <=> (<<k, v>> \in Pairs(r) \/ (k = key /\ v = value))
    <3>1. ASSUME <<k, v>> \in Pairs(q)
          PROVE  <<k, v>> \in Pairs(r) \/ (k = key /\ v = value)
      <4>1. PICK i \in 1..n : q[i] # None /\ q[i].key = k /\ q[i].value = v
        BY <2>6, <3>1
      <4>2. CASE i = s
        BY <2>1, <2>2, <4>1, <4>2, Zenon
      <4>3. CASE i # s
        BY <2>4, <2>7, <4>1, <4>3, Zenon
      <4>4. QED
        BY <4>2, <4>3, Zenon
    <3>2. ASSUME <<k, v>> \in Pairs(r)
          PROVE  <<k, v>> \in Pairs(q)
      <4>1. PICK i \in 1..n : r[i] # None /\ r[i].key = k /\ r[i].value = v
        BY <2>7, <3>2
      <4>2. i # s
        BY <2>5, <4>1, Zenon
      <4>3. QED
        BY <2>4, <2>6, <4>1, <4>2, Zenon
    <3>3. <<key, value>> \in Pairs(q)
      BY <2>1, <2>2, <2>6, Zenon
    <3>4. QED
      BY <3>1, <3>2, <3>3, Zenon
  <2>9. \A p \in Pairs(q) : p = <<p[1], p[2]>>
    BY DEF Pairs
  <2>10. Pairs(q) = Pairs(r) \cup {<<key, value>>}
    <3>1. ASSUME NEW p \in Pairs(q) PROVE p \in Pairs(r) \cup {<<key, value>>}
      BY <2>8, <2>9
    <3>2. ASSUME NEW p \in Pairs(r) PROVE p \in Pairs(q)
      BY <1>9, <2>8
    <3>3. <<key, value>> \in Pairs(q)
      BY <2>8, Zenon
    <3>4. QED
      BY <3>1, <3>2, <3>3, Zenon
  <2>11. QED
    BY <1>10, <2>1, <2>10, Zenon DEF q
<1>13. Pairs(New(n)) = {} /\ UniqueKeys(New(n))
  BY Zenon DEF Pairs, New, UniqueKeys
<1>14. QED
  BY <1>5, <1>6, <1>7, <1>10, <1>11, <1>12, <1>13, Zenon DEF r

-----------------------------------------------------------------------------
(* The cores *)

\* No stack is removed, renamed or loses its start record.
StacksKept ==
    \A i \in 1..MAX_CORES : stacks[i] # None =>
        /\ stacks'[i] # None
        /\ stacks'[i].key = stacks[i].key
        /\ stacks[i].value \in EntryPoint => stacks'[i].value \in EntryPoint
        /\ stacks[i].value = Resume => stacks'[i].value = Resume

\* The context of core d stays as it is.
ContextKept(d) ==
    /\ Contains(contexts, read_mpidr_el1(d))' <=> Contains(contexts, read_mpidr_el1(d))
    /\ \A i \in 1..MAX_CORES :
           (contexts'[i] # None /\ contexts'[i].key = read_mpidr_el1(d))
               => contexts'[i] = contexts[i]

CoreKept(d) ==
    pc'[d] = pc[d] /\ call'[d] = call[d] /\ sp'[d] = sp[d] /\ asked'[d] = asked[d]

\* Slots hold items and slot numbers are naturals.
LEMMA SlotTypes ==
    ASSUME TypeOK, NEW i \in 1..MAX_CORES
    PROVE  /\ stacks[i] # None => /\ stacks[i].key \in Mpidr /\ stacks[i].value \in StackTop
                                  /\ stacks[i] = [key |-> stacks[i].key, value |-> stacks[i].value]
           /\ contexts[i] # None => contexts[i].key \in Mpidr /\ contexts[i].value \in EntryPoint
BY Zenon DEF TypeOK, SimpleMaps, Item

\* A step that leaves core d alone keeps what the invariant says of it.
LEMMA OtherCores ==
    ASSUME IInv, StacksInv', StacksKept, NEW d \in Cores, CoreKept(d), ContextKept(d)
    PROVE  LocalsInv(d)' /\ StartInv(d)' /\ ContextsInv(d)'
<1>1. LocalsInv(d) /\ StartInv(d) /\ ContextsInv(d) /\ TypeOK
  BY Zenon DEF IInv
<1>2. ASSUME NEW i, NEW m, Owned(i, m, EntryPoint)
      PROVE  Owned(i, m, EntryPoint)'
  BY <1>2, Zenon DEF Owned, StacksKept
<1>3. ASSUME NEW i, NEW m, Owned(i, m, {Resume})
      PROVE  Owned(i, m, {Resume})'
  BY <1>3, Zenon DEF Owned, StacksKept
<1>4. ASSUME NEW i, NEW t, Owned(i, MpidrArgument(t), EntryPoint \cup {None})
      PROVE  Owned(i, MpidrArgument(t), EntryPoint \cup {None})'
  BY <1>4 DEF Owned, StacksKept, StacksInv, MpidrArgument
<1>5. ASSUME NEW i, NEW t, Owned(i, read_mpidr_el1(t), {Resume, None})
      PROVE  Owned(i, read_mpidr_el1(t), {Resume, None})'
  BY <1>5 DEF Owned, StacksKept, StacksInv, read_mpidr_el1
<1>6. LocalsInv(d)'
  BY <1>1, <1>2, <1>3, <1>4, <1>5, Zenon DEF LocalsInv, CoreKept
<1>7. StartInv(d)'
  <2>1. sp[d] \in 0..MAX_CORES /\ MAX_CORES \in Nat
    BY <1>1, ConstantsAssumption, Zenon DEF TypeOK
  <2>2. sp[d] # 0 => stacks'[sp[d]] # None /\ stacks'[sp[d]].key.aff = d
    BY <1>1, <2>1 DEF StartInv, StacksKept
  <2>3. sp'[d] = sp[d] /\ asked'[d] = asked[d] /\ pc'[d] = pc[d]
    BY Zenon DEF CoreKept
  <2>4. Owned(sp[d], MpidrArgument(d), EntryPoint) => Owned(sp[d], MpidrArgument(d), EntryPoint)'
    BY <1>2, <2>3 DEF Owned
  <2>5. Owned(sp[d], read_mpidr_el1(d), {Resume}) => Owned(sp[d], read_mpidr_el1(d), {Resume})'
    BY <1>3, <2>3 DEF Owned
  <2>6. QED
    BY <1>1, <2>2, <2>3, <2>4, <2>5, Zenon DEF StartInv
<1>8. ContextsInv(d)'
  BY <1>1, Zenon DEF ContextsInv, ContextKept, CoreKept, Suspending
<1>9. QED
  BY <1>6, <1>7, <1>8, Zenon

\* So it is enough to look at the core that acts.
LEMMA OneCore ==
    ASSUME IInv, NEW c \in Cores, TypeOK', StacksInv', ContextKeysInv', StacksKept,
           \A d \in Cores \ {c} : CoreKept(d) /\ ContextKept(d),
           LocalsInv(c)', StartInv(c)', ContextsInv(c)'
    PROVE  IInv'
<1>1. ASSUME NEW d \in Cores
      PROVE  LocalsInv(d)' /\ StartInv(d)' /\ ContextsInv(d)'
  <2>1. CASE d = c
    BY <2>1, Zenon
  <2>2. CASE d # c
    BY <2>2, OtherCores, Zenon
  <2>3. QED
    BY <2>1, <2>2, Zenon
<1>2. QED
  BY <1>1, Zenon DEF IInv

\* A step that touches neither map keeps what the invariant says of them.
LEMMA MapsUnchanged ==
    ASSUME IInv, UNCHANGED <<stacks, contexts>>
    PROVE  /\ StacksInv' /\ ContextKeysInv' /\ StacksKept
           /\ \A d \in Cores : ContextKept(d)
<1>1. StacksInv /\ ContextKeysInv
  BY Zenon DEF IInv
<1>2. StacksInv'
  BY <1>1 DEF StacksInv, UniqueKeys
<1>3. ContextKeysInv'
  BY <1>1 DEF ContextKeysInv, UniqueKeys
<1>4. StacksKept
  BY Zenon DEF StacksKept
<1>5. \A d \in Cores : ContextKept(d)
  BY Zenon DEF ContextKept, Contains, Holding
<1>6. QED
  BY <1>2, <1>3, <1>4, <1>5, Zenon

\* get_secondary_stack() returns a stack of the key it is given and moves no
\* other, or it panics.
LEMMA GetSecondaryStackEffect ==
    ASSUME IInv, NEW c \in Cores, NEW m \in Mpidr, m.res1 => m.aff \in Cores,
           NEW next, GetSecondaryStack(c, m, next)
    PROVE  /\ stacks' \in SimpleMaps(Mpidr, StackTop, MAX_CORES)
           /\ StacksInv' /\ StacksKept
           /\ \A i \in 1..MAX_CORES : stacks[i] # None => stacks'[i] = stacks[i]
           /\ \/ /\ pc' = [pc EXCEPT ![c] = next]
                 /\ \E p \in 1..MAX_CORES :
                       /\ call' = [call EXCEPT ![c].ptr = p]
                       /\ stacks'[p] # None /\ stacks'[p].key = m
              \/ pc' = [pc EXCEPT ![c] = "panic_in_stacks"] /\ UNCHANGED call
<1>1. /\ MAX_CORES \in Nat /\ None \in StackTop
      /\ stacks \in SimpleMaps(Mpidr, StackTop, MAX_CORES) /\ StacksInv
      /\ UniqueKeys(stacks) /\ None \notin Item(Mpidr, StackTop)
  BY ConstantsAssumption, Zenon DEF IInv, TypeOK, StacksInv, StackTop
<1>2. DOMAIN stacks = 1..MAX_CORES
  BY <1>1, Zenon DEF SimpleMaps
<1>3. CASE /\ Contains(stacks, m)
           /\ call' = [call EXCEPT ![c].ptr = GetMut(stacks, m)]
           /\ pc' = [pc EXCEPT ![c] = next]
           /\ UNCHANGED stacks
  <2>1. /\ GetMut(stacks, m) \in 1..MAX_CORES
        /\ stacks[GetMut(stacks, m)] # None /\ stacks[GetMut(stacks, m)].key = m
    BY <1>1, <1>2, <1>3, GetMutFinds
  <2>2. StacksInv' /\ StacksKept
    BY <1>1, <1>3 DEF StacksInv, UniqueKeys, StacksKept
  <2>3. QED
    BY <1>1, <1>3, <2>1, <2>2, Zenon
<1>4. CASE /\ ~Contains(stacks, m) /\ HasRoom(stacks, m)
           /\ call' = [call EXCEPT ![c].ptr = InsertSlot(stacks, m)]
           /\ stacks' = Insert(stacks, m, None)
           /\ pc' = [pc EXCEPT ![c] = next]
  <2> DEFINE s == InsertSlot(stacks, m)
  <2>1. /\ s \in 1..MAX_CORES
        /\ stacks[s] # None => stacks[s].key = m
        /\ stacks' \in SimpleMaps(Mpidr, StackTop, MAX_CORES)
        /\ stacks'[s] = [key |-> m, value |-> None]
        /\ \A i \in 1..MAX_CORES : i # s =>
              stacks'[i] = IF stacks[i] # None /\ stacks[i].key = m THEN None ELSE stacks[i]
        /\ UniqueKeys(stacks')
    BY <1>1, <1>4, InsertEffect
  <2> HIDE DEF s
  <2>2. \A i \in 1..MAX_CORES : stacks[i] # None => stacks[i].key # m
    BY <1>2, <1>4, Zenon DEF Contains, Holding
  <2>3. stacks[s] = None /\ \A i \in 1..MAX_CORES : i # s => stacks'[i] = stacks[i]
    BY <2>1, <2>2, Zenon
  <2>4. stacks'[s] # None /\ stacks'[s].key = m /\ stacks'[s].value = None
    BY <1>1, <2>1 DEF Item
  <2>5. StacksKept
    BY <2>3, Zenon DEF StacksKept
  <2>6. StacksInv'
    <3>1. UniqueKeys(stacks)'
      BY <2>1, Zenon DEF UniqueKeys
    <3>2. QED
      BY <1>1, <2>3, <2>4, <3>1, Zenon DEF StacksInv
  <2>7. QED
    BY <1>4, <2>1, <2>3, <2>4, <2>5, <2>6, Zenon DEF s
<1>5. CASE pc' = [pc EXCEPT ![c] = "panic_in_stacks"] /\ UNCHANGED <<stacks, call>>
  <2>1. StacksInv' /\ StacksKept
    BY <1>1, <1>5 DEF StacksInv, UniqueKeys, StacksKept
  <2>2. QED
    BY <1>1, <1>5, <2>1, Zenon
<1>6. QED
  BY <1>3, <1>4, <1>5, Zenon DEF GetSecondaryStack, Goto

\* Writing the start record its key stands for at the top of a stack keeps
\* every stack in place.
LEMMA StackWriteEffect ==
    ASSUME IInv, NEW p \in 1..MAX_CORES, stacks[p] # None, NEW v,
           v \in IF stacks[p].key.res1 THEN {Resume} ELSE EntryPoint,
           stacks' = [stacks EXCEPT ![p].value = v]
    PROVE  /\ stacks' \in SimpleMaps(Mpidr, StackTop, MAX_CORES) /\ StacksInv' /\ StacksKept
           /\ stacks'[p] # None /\ stacks'[p].value = v /\ stacks'[p].key = stacks[p].key
           /\ \A i \in 1..MAX_CORES \ {p} : stacks'[i] = stacks[i]
<1>1. TypeOK /\ StacksInv
  BY Zenon DEF IInv
<1>2. v \in StackTop /\ stacks[p].key \in Mpidr
  BY <1>1, SlotTypes, Zenon DEF StackTop
<1>3. /\ stacks'[p] = [key |-> stacks[p].key, value |-> v]
      /\ \A i \in 1..MAX_CORES \ {p} : stacks'[i] = stacks[i]
  BY <1>1, SlotTypes DEF TypeOK, SimpleMaps
<1>4. stacks'[p] \in Item(Mpidr, StackTop) /\ stacks'[p] # None
  BY <1>2, <1>3, ConstantsAssumption DEF Item
<1>5. stacks' \in SimpleMaps(Mpidr, StackTop, MAX_CORES)
  BY <1>1, <1>4, Zenon DEF TypeOK, SimpleMaps
<1>6. StacksKept
  <2>1. stacks[p].value \in IF stacks[p].key.res1 THEN {Resume, None}
                                                   ELSE EntryPoint \cup {None}
    BY <1>1, Zenon DEF StacksInv
  <2>2. QED
    BY <1>3, <1>4, <2>1, ConstantsAssumption DEF StacksKept
<1>7. StacksInv'
  <2>1. DOMAIN stacks = 1..MAX_CORES /\ DOMAIN stacks' = 1..MAX_CORES
    BY <1>1, <1>5, Zenon DEF TypeOK, SimpleMaps
  <2>2. \A i \in 1..MAX_CORES : stacks'[i] # None =>
            stacks[i] # None /\ stacks'[i].key = stacks[i].key
    BY <1>3
  <2>3. UniqueKeys(stacks)'
    BY <1>1, <2>1, <2>2 DEF StacksInv, UniqueKeys
  <2>4. QED
    BY <1>1, <1>3, <2>3 DEF StacksInv
<1>8. QED
  BY <1>3, <1>4, <1>5, <1>6, <1>7

\* A step that leaves SUSPEND_CONTEXTS alone keeps what is said of it.
LEMMA ContextsUnchanged ==
    ASSUME IInv, UNCHANGED contexts
    PROVE  ContextKeysInv' /\ \A d \in Cores : ContextKept(d)
BY DEF IInv, ContextKeysInv, UniqueKeys, ContextKept, Contains, Holding

-----------------------------------------------------------------------------
(* CPU_ON *)

\* The trap of a CPU_ON sets up the handler's locals.
LEMMA CpuOnCallInv ==
    ASSUME IInv, NEW c \in Cores, NEW t \in Targets, NEW e \in EntryPoints,
           CpuOnCall(c, t, e)
    PROVE  IInv'
<1> DEFINE k == [target |-> t, entry |-> e, ptr |-> 0]
<1>1. /\ TypeOK /\ StartInv(c) /\ ContextsInv(c) /\ pc[c] = "guest"
      /\ pc' = [pc EXCEPT ![c] = "on_stack"] /\ call' = [call EXCEPT ![c] = k]
      /\ UNCHANGED <<stacks, contexts, sp, stage2, asked>>
  BY Zenon DEF IInv, CpuOnCall, Goto
<1>2. k \in Call
  BY ConstantsAssumption DEF Call
<1> HIDE DEF k
<1>3. TypeOK'
  BY <1>1, <1>2, Zenon DEF TypeOK, Pc, OnSteps
<1>4. /\ pc'[c] = "on_stack" /\ call'[c] = k
      /\ \A d \in Cores \ {c} : CoreKept(d)
  BY <1>1, Zenon DEF TypeOK, CoreKept
<1>5. LocalsInv(c)'
  BY <1>2, <1>4 DEF LocalsInv, OnSteps, SuspendSteps, k
<1>6. StartInv(c)'
  BY <1>1, <1>4, Zenon DEF StartInv, StartSteps
<1>7. ContextsInv(c)'
  BY <1>1, <1>4, Zenon DEF ContextsInv, Suspending, SuspendSteps, Contains, Holding
<1>8. QED
  BY <1>1, <1>3, <1>4, <1>5, <1>6, <1>7, MapsUnchanged, OneCore, Zenon

\* get_secondary_stack() for CPU_ON hands out a slot with the target's key.
LEMMA CpuOnStackInv ==
    ASSUME IInv, NEW c \in Cores, CpuOnStack(c)
    PROVE  IInv'
<1> DEFINE m == MpidrArgument(call[c].target)
<1>1. /\ TypeOK /\ LocalsInv(c) /\ StartInv(c) /\ ContextsInv(c)
      /\ pc[c] = "on_stack" /\ GetSecondaryStack(c, m, "on_write")
      /\ UNCHANGED <<contexts, sp, stage2, asked>>
  BY Zenon DEF IInv, CpuOnStack, GetSecondaryStack
<1>2. call[c] \in Call /\ call[c].target \in Targets
  BY <1>1, Zenon DEF LocalsInv, OnSteps
<1>3. m \in Mpidr /\ ~m.res1
  BY <1>2, Zenon DEF Mpidr, MpidrArgument
<1>4. /\ stacks' \in SimpleMaps(Mpidr, StackTop, MAX_CORES)
      /\ StacksInv' /\ StacksKept
      /\ \/ /\ pc' = [pc EXCEPT ![c] = "on_write"]
            /\ \E p \in 1..MAX_CORES :
                  /\ call' = [call EXCEPT ![c].ptr = p]
                  /\ stacks'[p] # None /\ stacks'[p].key = m
         \/ pc' = [pc EXCEPT ![c] = "panic_in_stacks"] /\ UNCHANGED call
  BY <1>1, <1>3, GetSecondaryStackEffect
<1>5. ContextKeysInv' /\ \A d \in Cores : ContextKept(d)
  BY <1>1, ContextsUnchanged, Zenon
<1>6. CASE pc' = [pc EXCEPT ![c] = "panic_in_stacks"] /\ UNCHANGED call
  <2>1. TypeOK'
    BY <1>1, <1>4, <1>6, Zenon DEF TypeOK, Pc, Panics
  <2>2. pc'[c] = "panic_in_stacks" /\ \A d \in Cores \ {c} : CoreKept(d)
    BY <1>1, <1>6, Zenon DEF TypeOK, CoreKept
  <2>3. LocalsInv(c)' /\ ContextsInv(c)'
    BY <1>1, <1>5, <2>2, Zenon DEF LocalsInv, ContextsInv, OnSteps, SuspendSteps
  <2>4. StartInv(c)'
    BY <1>1, <1>4, <2>2 DEF StartInv, StartSteps, StacksKept, TypeOK
  <2>5. QED
    BY <1>4, <1>5, <2>1, <2>2, <2>3, <2>4, OneCore, Zenon
<1>7. ASSUME NEW p \in 1..MAX_CORES, pc' = [pc EXCEPT ![c] = "on_write"],
             call' = [call EXCEPT ![c].ptr = p], stacks'[p] # None, stacks'[p].key = m
      PROVE  IInv'
  <2>1. call'[c] \in Call /\ call'[c].target = call[c].target /\ call'[c].ptr = p
    BY <1>1, <1>2, <1>7 DEF TypeOK, Call
  <2>2. TypeOK'
    BY <1>1, <1>4, <1>7, <2>1, Zenon DEF TypeOK, Pc, OnSteps
  <2>3. pc'[c] = "on_write" /\ \A d \in Cores \ {c} : CoreKept(d)
    BY <1>1, <1>7, Zenon DEF TypeOK, CoreKept
  <2>4. LocalsInv(c)'
    <3>1. Owned(p, MpidrArgument(call[c].target), EntryPoint \cup {None})'
      BY <1>3, <1>4, <1>7 DEF Owned, StacksInv
    <3>2. QED
      BY <1>2, <2>1, <2>3, <3>1, Zenon DEF LocalsInv, OnSteps, SuspendSteps
  <2>5. StartInv(c)'
    BY <1>1, <1>4, <2>3 DEF StartInv, StartSteps, StacksKept, TypeOK
  <2>6. ContextsInv(c)'
    BY <1>1, <1>5, <2>3, Zenon DEF ContextsInv, ContextKept, Suspending, SuspendSteps
  <2>7. QED
    BY <1>4, <1>5, <2>2, <2>3, <2>4, <2>5, <2>6, OneCore, Zenon
<1>8. QED
  BY <1>4, <1>6, <1>7, Zenon

\* start_core() writes an entry point, whole or mixed, to a slot of CPU_ON.
LEMMA CpuOnWriteInv ==
    ASSUME IInv, NEW c \in Cores, CpuOnWrite(c)
    PROVE  IInv'
<1>1. /\ TypeOK /\ StacksInv /\ LocalsInv(c) /\ StartInv(c) /\ ContextsInv(c)
      /\ pc[c] = "on_write" /\ pc' = [pc EXCEPT ![c] = "on_smc"]
      /\ UNCHANGED <<contexts, call, sp, stage2, asked>>
  BY Zenon DEF IInv, CpuOnWrite, Goto
<1>2. PICK e \in EntryPoint : stacks' = [stacks EXCEPT ![call[c].ptr].value = e]
  <2>1. PICK d \in Writing(call[c].ptr) : \E e \in Mixed(call[c].entry, call[d].entry) :
            stacks' = [stacks EXCEPT ![call[c].ptr].value = e]
    BY Zenon DEF CpuOnWrite
  <2>2. call[c] \in Call /\ call[d] \in Call
    BY <1>1, <2>1, Zenon DEF IInv, LocalsInv, OnSteps, Writing
  <2>3. Mixed(call[c].entry, call[d].entry) \subseteq EntryPoint
    BY <2>2, Zenon DEF Mixed, Call, EntryPoint
  <2>4. QED
    BY <2>1, <2>3, Zenon
<1>3. /\ call[c] \in Call /\ call[c].target \in Targets
      /\ Owned(call[c].ptr, MpidrArgument(call[c].target), EntryPoint \cup {None})
  BY <1>1, Zenon DEF LocalsInv, OnSteps
<1>4. ~stacks[call[c].ptr].key.res1
  BY <1>3 DEF Owned, MpidrArgument
<1>5. /\ stacks' \in SimpleMaps(Mpidr, StackTop, MAX_CORES) /\ StacksInv' /\ StacksKept
      /\ stacks'[call[c].ptr] # None /\ stacks'[call[c].ptr].value = e
      /\ stacks'[call[c].ptr].key = stacks[call[c].ptr].key
  BY <1>2, <1>3, <1>4, StackWriteEffect, Zenon DEF Owned
<1>6. TypeOK'
  BY <1>1, <1>5, Zenon DEF TypeOK, Pc, OnSteps
<1>7. ContextKeysInv' /\ \A d \in Cores : ContextKept(d)
  BY <1>1, ContextsUnchanged, Zenon
<1>8. pc'[c] = "on_smc" /\ \A d \in Cores \ {c} : CoreKept(d)
  BY <1>1, Zenon DEF TypeOK, CoreKept
<1>9. LocalsInv(c)'
  <2>1. Owned(call[c].ptr, MpidrArgument(call[c].target), EntryPoint)'
    BY <1>1, <1>2, <1>3, <1>5, Zenon DEF Owned
  <2>2. QED
    BY <1>1, <1>3, <1>8, <2>1, Zenon DEF LocalsInv, OnSteps, SuspendSteps
<1>10. StartInv(c)'
  <2>1. StartInv(c)
    BY Zenon DEF IInv
  <2>2. sp'[c] = sp[c] /\ sp[c] \in 0..MAX_CORES /\ MAX_CORES \in Nat
    BY <1>1, ConstantsAssumption, Zenon DEF TypeOK
  <2>3. sp'[c] # 0 => stacks'[sp'[c]] # None /\ stacks'[sp'[c]].key.aff = c
    <3>1. sp[c] # 0 => stacks[sp[c]] # None /\ stacks[sp[c]].key.aff = c
      BY <2>1, Zenon DEF StartInv
    <3>2. sp[c] # 0 => sp[c] \in 1..MAX_CORES
      BY <2>2
    <3>3. QED
      BY <1>5, <2>2, <3>1, <3>2, Zenon DEF StacksKept
  <2>4. QED
    BY <1>8, <2>3, Zenon DEF StartInv, StartSteps
<1>11. ContextsInv(c)'
  BY <1>1, <1>7, <1>8, Zenon DEF ContextsInv, ContextKept, Suspending, SuspendSteps
<1>12. QED
  BY <1>5, <1>6, <1>7, <1>8, <1>9, <1>10, <1>11, OneCore, Zenon

\* The firmware accepts a CPU_ON: the target is about to start on the stack
\* the caller prepared.
LEMMA CpuOnAcceptedInv ==
    ASSUME IInv, NEW c \in Cores, CpuOnAccepted(c)
    PROVE  IInv'
<1>0. PICK t \in Cores : t = call[c].target
  BY Zenon DEF CpuOnAccepted
<1> DEFINE a == [fn |-> "CPU_ON", entry |-> call[c].entry]
<1>1. /\ TypeOK /\ LocalsInv(c) /\ StartInv(c) /\ ContextsInv(c)
      /\ pc[c] = "on_smc" /\ pc[t] = "OFF"
      /\ pc' = [pc EXCEPT ![c] = "guest", ![t] = "ON_PENDING"]
      /\ sp' = [sp EXCEPT ![t] = call[c].ptr]
      /\ asked' = [asked EXCEPT ![t] = a]
      /\ call' = [call EXCEPT ![c] = None]
      /\ UNCHANGED <<stacks, contexts, stage2>>
  BY <1>0, Zenon DEF IInv, CpuOnAccepted
<1>2. /\ LocalsInv(t) /\ StartInv(t) /\ ContextsInv(t)
  BY <1>1, Zenon DEF IInv
<1>3. call[c] \in Call /\ Owned(call[c].ptr, MpidrArgument(t), EntryPoint)
  BY <1>0, <1>1, Zenon DEF LocalsInv, OnSteps
<1>4. a \in Request
  BY <1>3, Zenon DEF Call, Request
<1> HIDE DEF a
<1>5. /\ c # t /\ pc'[c] = "guest" /\ pc'[t] = "ON_PENDING" /\ sp'[t] = call[c].ptr
      /\ sp'[c] = sp[c] /\ asked'[t] = a /\ asked'[c] = asked[c] /\ call'[t] = call[t]
      /\ \A d \in Cores \ {c, t} : CoreKept(d)
  BY <1>1, Zenon DEF TypeOK, CoreKept
<1>6. TypeOK'
  <2>1. call[c].ptr \in 0..MAX_CORES /\ "guest" \in Pc /\ "ON_PENDING" \in Pc
    BY <1>3, Zenon DEF Call, Pc, Asleep, GuestSteps
  <2>2. pc' \in [Cores -> Pc] /\ sp' \in [Cores -> 0..MAX_CORES]
    BY <1>1, <2>1, Zenon DEF TypeOK
  <2>3. asked' \in [Cores -> Request \cup {None}] /\ call' \in [Cores -> Call \cup {None}]
    BY <1>1, <1>4, Zenon DEF TypeOK
  <2> QED
    BY <1>1, <2>2, <2>3, Zenon DEF TypeOK
<1>7. /\ StacksInv' /\ ContextKeysInv' /\ StacksKept
      /\ \A d \in Cores : ContextKept(d)
  BY <1>1, MapsUnchanged, Zenon
<1>8. LocalsInv(c)' /\ StartInv(c)' /\ ContextsInv(c)'
  <2>1. LocalsInv(c)'
    BY <1>5, Zenon DEF LocalsInv, OnSteps, SuspendSteps
  <2>2. StartInv(c)'
    BY <1>1, <1>5, Zenon DEF StartInv, StartSteps
  <2>3. ContextsInv(c)'
    BY <1>1, <1>5, <1>7, Zenon DEF ContextsInv, ContextKept, Suspending, SuspendSteps
  <2>4. QED
    BY <2>1, <2>2, <2>3, Zenon
<1>9. LocalsInv(t)' /\ StartInv(t)' /\ ContextsInv(t)'
  <2>1. LocalsInv(t)'
    BY <1>5, Zenon DEF LocalsInv, OnSteps, SuspendSteps
  <2>2. Owned(sp[t], MpidrArgument(t), EntryPoint)'
    BY <1>1, <1>3, <1>5, Zenon DEF Owned
  <2>3. asked'[t].fn = "CPU_ON" /\ asked'[t] \in Request
    BY <1>4, <1>5 DEF a
  <2>4. stacks'[sp'[t]] # None /\ stacks'[sp'[t]].key.aff = t
    BY <2>2 DEF Owned, MpidrArgument
  <2>5. StartInv(t)'
    BY <1>5, <2>2, <2>3, <2>4, Zenon DEF StartInv, StartSteps
  <2>6. ~Contains(contexts, read_mpidr_el1(t))
    BY <1>1, <1>2, Zenon DEF ContextsInv, Suspending
  <2>7. \A i \in 1..MAX_CORES :
            ~(contexts'[i] # None /\ contexts'[i].key = read_mpidr_el1(t))
    BY <1>1, <2>6, Zenon DEF Contains, Holding, TypeOK, SimpleMaps
  <2>8. ContextsInv(t)'
    BY <1>5, <1>7, <2>6, <2>7, Zenon DEF ContextsInv, ContextKept, Suspending
  <2>9. QED
    BY <2>1, <2>5, <2>8, Zenon
<1>10. ASSUME NEW d \in Cores
       PROVE  LocalsInv(d)' /\ StartInv(d)' /\ ContextsInv(d)'
  <2>1. CASE d \in {c, t}
    BY <1>8, <1>9, <2>1, Zenon
  <2>2. CASE d \notin {c, t}
    BY <1>5, <1>7, <2>2, OtherCores, Zenon
  <2>3. QED
    BY <2>1, <2>2, Zenon
<1>11. QED
  BY <1>6, <1>7, <1>10, Zenon DEF IInv

\* A core that goes back to the guest, or out of the hypervisor's hands, with
\* no context left behind.
LEMMA LeavesInv ==
    ASSUME IInv, NEW c \in Cores, UNCHANGED <<stacks, contexts>>, TypeOK',
           pc[c] # "panic_in_stacks", ~Suspending(c),
           NEW l \in {"guest", "guest_el2", "OFF", "SUSPENDED_BY_GUEST", "panic"},
           pc' = [pc EXCEPT ![c] = l], sp'[c] = 0 \/ (sp'[c] = sp[c] /\ l # "OFF"),
           \A d \in Cores \ {c} : CoreKept(d)
    PROVE  IInv'
<1>1. TypeOK /\ StartInv(c) /\ ContextsInv(c)
  BY Zenon DEF IInv
<1>2. pc'[c] = l
  BY <1>1, Zenon DEF TypeOK
<1>3. /\ StacksInv' /\ ContextKeysInv' /\ StacksKept
      /\ \A d \in Cores : ContextKept(d)
  BY MapsUnchanged, Zenon
<1>4. LocalsInv(c)'
  BY <1>2, Zenon DEF LocalsInv, OnSteps, SuspendSteps
<1>5. StartInv(c)'
  BY <1>1, <1>2, Zenon DEF StartInv, StartSteps
<1>6. ContextsInv(c)'
  BY <1>1, <1>2, <1>3, Zenon DEF ContextsInv, ContextKept, Suspending, SuspendSteps
<1>7. QED
  BY <1>3, <1>4, <1>5, <1>6, OneCore, Zenon

\* A refused CPU_ON only returns to the guest.
LEMMA CpuOnRefusedInv ==
    ASSUME IInv, NEW c \in Cores, CpuOnRefused(c)
    PROVE  IInv'
<1>1. TypeOK'
  BY Zenon DEF IInv, CpuOnRefused, Goto, TypeOK, Pc, GuestSteps
<1>2. /\ pc[c] = "on_smc" /\ pc' = [pc EXCEPT ![c] = "guest"] /\ sp'[c] = sp[c]
      /\ \A d \in Cores \ {c} : CoreKept(d)
      /\ UNCHANGED <<stacks, contexts>>
  BY Zenon DEF IInv, CpuOnRefused, Goto, TypeOK, CoreKept
<1>3. ~Suspending(c)
  BY <1>2, Zenon DEF Suspending
<1>4. QED
  BY <1>1, <1>2, <1>3, LeavesInv, Zenon

-----------------------------------------------------------------------------
(* The forwarded calls, traps and the entry into the guest *)

\* CPU_OFF gives up the core's stack.
LEMMA CpuOffInv ==
    ASSUME IInv, NEW c \in Cores, CpuOff(c)
    PROVE  IInv'
<1>1. TypeOK'
  BY ConstantsAssumption DEF IInv, CpuOff, Goto, TypeOK, Pc, Asleep
<1>2. /\ pc[c] \in GuestSteps /\ pc' = [pc EXCEPT ![c] = "OFF"] /\ sp'[c] = 0
      /\ \A d \in Cores \ {c} : CoreKept(d)
      /\ UNCHANGED <<stacks, contexts>>
  BY Zenon DEF IInv, CpuOff, Goto, TypeOK, CoreKept
<1>3. ~Suspending(c) /\ pc[c] # "panic_in_stacks"
  BY <1>2, Zenon DEF Suspending, GuestSteps
<1>4. QED
  BY <1>1, <1>2, <1>3, LeavesInv, Zenon

\* A forwarded suspend leaves the maps alone.
LEMMA ForwardSuspendInv ==
    ASSUME IInv, NEW c \in Cores, NEW fn, ForwardSuspend(c, fn)
    PROVE  IInv'
<1>1. TypeOK'
  BY ConstantsAssumption DEF IInv, ForwardSuspend, Goto, TypeOK, Pc, Asleep
<1>2. /\ pc[c] = "guest" /\ pc' = [pc EXCEPT ![c] = "SUSPENDED_BY_GUEST"] /\ sp'[c] = 0
      /\ \A d \in Cores \ {c} : CoreKept(d)
      /\ UNCHANGED <<stacks, contexts>>
  BY Zenon DEF IInv, ForwardSuspend, Goto, TypeOK, CoreKept
<1>3. ~Suspending(c)
  BY <1>2, Zenon DEF Suspending
<1>4. QED
  BY <1>1, <1>2, <1>3, LeavesInv, Zenon

\* So does the resume from it.
LEMMA FirmwareResumesGuestInv ==
    ASSUME IInv, NEW c \in Cores, FirmwareResumesGuest(c)
    PROVE  IInv'
<1>1. TypeOK'
  BY Zenon DEF IInv, FirmwareResumesGuest, Goto, TypeOK, Pc, GuestSteps
<1>2. /\ pc[c] = "SUSPENDED_BY_GUEST" /\ pc' = [pc EXCEPT ![c] = "guest_el2"]
      /\ sp'[c] = sp[c] /\ \A d \in Cores \ {c} : CoreKept(d)
      /\ UNCHANGED <<stacks, contexts>>
  BY Zenon DEF IInv, FirmwareResumesGuest, Goto, TypeOK, CoreKept
<1>3. ~Suspending(c)
  BY <1>2, Zenon DEF Suspending
<1>4. QED
  BY <1>1, <1>2, <1>3, LeavesInv, Zenon

\* A panic outside the maps holds no lock and keeps no context.
LEMMA UnhandledTrapInv ==
    ASSUME IInv, NEW c \in Cores, UnhandledTrap(c)
    PROVE  IInv'
<1>1. TypeOK'
  BY Zenon DEF IInv, UnhandledTrap, Goto, TypeOK, Pc, Panics
<1>2. /\ pc[c] = "guest" /\ pc' = [pc EXCEPT ![c] = "panic"] /\ sp'[c] = sp[c]
      /\ \A d \in Cores \ {c} : CoreKept(d)
      /\ UNCHANGED <<stacks, contexts>>
  BY Zenon DEF IInv, UnhandledTrap, Goto, TypeOK, CoreKept
<1>3. ~Suspending(c)
  BY <1>2, Zenon DEF Suspending
<1>4. QED
  BY <1>1, <1>2, <1>3, LeavesInv, Zenon

\* entry_point_el1() ends a start.
LEMMA EntryPointEl1Inv ==
    ASSUME IInv, NEW c \in Cores, EntryPointEl1(c)
    PROVE  IInv'
<1>1. TypeOK'
  BY Zenon DEF IInv, EntryPointEl1, Goto, TypeOK, Pc, GuestSteps
<1>2. /\ pc[c] = "entry_point_el1" /\ pc' = [pc EXCEPT ![c] = "guest"] /\ sp'[c] = sp[c]
      /\ \A d \in Cores \ {c} : CoreKept(d)
      /\ UNCHANGED <<stacks, contexts>>
  BY Zenon DEF IInv, EntryPointEl1, Goto, TypeOK, CoreKept
<1>3. ~Suspending(c)
  BY <1>2, Zenon DEF Suspending
<1>4. QED
  BY <1>1, <1>2, <1>3, LeavesInv, Zenon

-----------------------------------------------------------------------------
(* CPU_SUSPEND *)

\* The trap of a CPU_SUSPEND sets up the handler's locals.
LEMMA CpuSuspendCallInv ==
    ASSUME IInv, NEW c \in Cores, NEW e \in EntryPoints, CpuSuspendCall(c, e)
    PROVE  IInv'
<1> DEFINE k == [target |-> None, entry |-> e, ptr |-> 0]
<1>1. /\ TypeOK /\ StartInv(c) /\ ContextsInv(c) /\ pc[c] = "guest"
      /\ pc' = [pc EXCEPT ![c] = "suspend_insert"] /\ call' = [call EXCEPT ![c] = k]
      /\ UNCHANGED <<stacks, contexts, sp, stage2, asked>>
  BY Zenon DEF IInv, CpuSuspendCall, Goto
<1>2. k \in Call /\ k.target = None
  BY ConstantsAssumption DEF Call
<1> HIDE DEF k
<1>3. TypeOK'
  BY <1>1, <1>2, Zenon DEF TypeOK, Pc, SuspendSteps
<1>4. /\ pc'[c] = "suspend_insert" /\ call'[c] = k
      /\ \A d \in Cores \ {c} : CoreKept(d)
  BY <1>1, Zenon DEF TypeOK, CoreKept
<1>5. LocalsInv(c)'
  BY <1>2, <1>4, Zenon DEF LocalsInv, OnSteps, SuspendSteps
<1>6. StartInv(c)'
  BY <1>1, <1>4, Zenon DEF StartInv, StartSteps
<1>7. ContextsInv(c)'
  <2>1. ~Contains(contexts, read_mpidr_el1(c))
    BY <1>1, Zenon DEF ContextsInv, Suspending
  <2>2. ~Contains(contexts, read_mpidr_el1(c))'
    BY <1>1, <2>1, Zenon DEF Contains, Holding
  <2>3. \A i \in 1..MAX_CORES :
            ~(contexts'[i] # None /\ contexts'[i].key = read_mpidr_el1(c))
    BY <1>1, <2>1, Zenon DEF Contains, Holding, TypeOK, SimpleMaps
  <2>4. QED
    BY <1>4, <2>2, <2>3, Zenon DEF ContextsInv, Suspending
<1>8. QED
  BY <1>1, <1>3, <1>4, <1>5, <1>6, <1>7, MapsUnchanged, OneCore, Zenon

\* A step that leaves SECONDARY_STACKS alone keeps what is said of it.
LEMMA StacksUnchanged ==
    ASSUME IInv, UNCHANGED stacks
    PROVE  StacksInv' /\ StacksKept
BY DEF IInv, StacksInv, UniqueKeys, StacksKept

\* The register values of two cores differ.
LEMMA MpidrInjective ==
    ASSUME NEW c, NEW d, read_mpidr_el1(c) = read_mpidr_el1(d)
    PROVE  c = d
BY Zenon DEF read_mpidr_el1

\* psci_cpu_suspend() files the context of its own core only.
LEMMA SuspendInsertInv ==
    ASSUME IInv, NEW c \in Cores, SuspendInsert(c)
    PROVE  IInv'
<1> DEFINE m == read_mpidr_el1(c)
<1>1. /\ TypeOK /\ ContextKeysInv /\ LocalsInv(c) /\ StartInv(c) /\ ContextsInv(c)
      /\ pc[c] = "suspend_insert" /\ UNCHANGED <<stacks, call, sp, stage2, asked>>
  BY Zenon DEF IInv, SuspendInsert
<1>2. call[c] \in Call /\ call[c].entry \in EntryPoint
  BY <1>1, Zenon DEF LocalsInv, SuspendSteps, Call
<1>3. StacksInv' /\ StacksKept
  BY <1>1, StacksUnchanged, Zenon
<1>4. CASE ~HasRoom(contexts, m)
  <2>1. pc' = [pc EXCEPT ![c] = "panic_in_contexts"] /\ UNCHANGED contexts
    BY <1>4, Zenon DEF SuspendInsert, Goto
  <2>2. ContextKeysInv' /\ \A d \in Cores : ContextKept(d)
    BY <2>1, ContextsUnchanged, Zenon
  <2>3. TypeOK'
    BY <1>1, <2>1, Zenon DEF TypeOK, Pc, Panics
  <2>4. pc'[c] = "panic_in_contexts" /\ \A d \in Cores \ {c} : CoreKept(d)
    BY <1>1, <2>1, Zenon DEF TypeOK, CoreKept
  <2>5. LocalsInv(c)' /\ StartInv(c)'
    BY <1>1, <2>4, Zenon DEF LocalsInv, StartInv, OnSteps, SuspendSteps, StartSteps
  <2>6. ContextsInv(c)'
    BY <1>1, <2>2, <2>4, Zenon DEF ContextsInv, ContextKept, Suspending, SuspendSteps
  <2>7. QED
    BY <1>3, <2>2, <2>3, <2>4, <2>5, <2>6, OneCore, Zenon
<1>5. CASE HasRoom(contexts, m)
  <2> DEFINE s == InsertSlot(contexts, m)
  <2>1. /\ pc' = [pc EXCEPT ![c] = "suspend_stack"]
        /\ contexts' = Insert(contexts, m, call[c].entry)
    BY <1>5, Zenon DEF SuspendInsert, Goto
  <2>2. /\ MAX_CORES \in Nat /\ m \in Mpidr /\ UniqueKeys(contexts)
        /\ contexts \in SimpleMaps(Mpidr, EntryPoint, MAX_CORES)
        /\ None \notin Item(Mpidr, EntryPoint)
    <3>1. Item(Mpidr, EntryPoint) \subseteq Item(Mpidr, StackTop)
      BY Zenon DEF Item, StackTop
    <3>2. QED
      BY <1>1, <3>1, ConstantsAssumption, Zenon DEF Mpidr, read_mpidr_el1, ContextKeysInv,
                                                    TypeOK
  <2>3. /\ s \in 1..MAX_CORES
        /\ contexts' \in SimpleMaps(Mpidr, EntryPoint, MAX_CORES)
        /\ contexts'[s] = [key |-> m, value |-> call[c].entry]
        /\ \A i \in 1..MAX_CORES : i # s =>
              contexts'[i] = IF contexts[i] # None /\ contexts[i].key = m
                               THEN None ELSE contexts[i]
        /\ UniqueKeys(contexts')
    <3> DEFINE t == Insert(contexts, m, call[c].entry)
    <3>1. /\ s \in 1..MAX_CORES
          /\ t \in SimpleMaps(Mpidr, EntryPoint, MAX_CORES)
          /\ t[s] = [key |-> m, value |-> call[c].entry]
          /\ \A i \in 1..MAX_CORES : i # s =>
                t[i] = IF contexts[i] # None /\ contexts[i].key = m
                         THEN None ELSE contexts[i]
          /\ UniqueKeys(t)
      <4> DEFINE v == call[c].entry
      <4>1. v \in EntryPoint /\ HasRoom(contexts, m)
        BY <1>2, <1>5, Zenon
      <4> HIDE DEF m, v
      <4>2. LET i0 == InsertSlot(contexts, m)
                r == Insert(contexts, m, v)
            IN  /\ i0 \in 1..MAX_CORES
                /\ contexts[i0] # None => contexts[i0].key = m
                /\ r \in SimpleMaps(Mpidr, EntryPoint, MAX_CORES)
                /\ r[i0] = [key |-> m, value |-> v]
                /\ \A i \in 1..MAX_CORES : i # i0 =>
                      r[i] = IF contexts[i] # None /\ contexts[i].key = m
                               THEN None ELSE contexts[i]
                /\ UniqueKeys(r)
        BY <2>2, <4>1, InsertEffect, Zenon
      <4>3. QED
        BY <4>2, Zenon DEF v
    <3> HIDE DEF s, t
    <3>2. QED
      BY <2>1, <3>1, Zenon DEF t
  <2>4. \A k : Contains(contexts', k) <=> (k = m \/ Contains(contexts, k))
    BY <1>2, <1>5, <2>1, <2>2, InsertKeys
  <2> HIDE DEF s
  <2>5. ContextKeysInv'
    <3>1. UniqueKeys(contexts)'
      BY <2>3, Zenon DEF UniqueKeys
    <3>2. ASSUME NEW i \in 1..MAX_CORES, contexts'[i] # None
          PROVE  contexts'[i].key \in {read_mpidr_el1(d) : d \in Cores}
      <4>1. CASE i = s
        BY <2>3, <4>1
      <4>2. CASE i # s
        <5>1. contexts'[i] = contexts[i] /\ contexts[i] # None
          BY <2>3, <3>2, <4>2, Zenon
        <5>2. contexts[i].key \in {read_mpidr_el1(d) : d \in Cores}
          BY <1>1, <5>1, Zenon DEF ContextKeysInv
        <5>3. QED
          BY <5>1, <5>2, Zenon
      <4>3. QED
        BY <4>1, <4>2, Zenon
    <3>3. QED
      BY <3>1, <3>2, Zenon DEF ContextKeysInv
  <2>6. ASSUME NEW d \in Cores \ {c}
        PROVE  ContextKept(d)
    <3>1. read_mpidr_el1(d) # m
      BY MpidrInjective, Zenon
    <3>2. Contains(contexts, read_mpidr_el1(d))' <=> Contains(contexts, read_mpidr_el1(d))
      BY <2>4, <3>1, Zenon DEF Contains, Holding
    <3>3. ASSUME NEW i \in 1..MAX_CORES, contexts'[i] # None,
                 contexts'[i].key = read_mpidr_el1(d)
          PROVE  contexts'[i] = contexts[i]
      <4>1. i # s
        BY <2>3, <3>1, <3>3
      <4>2. QED
        BY <2>3, <3>3, <4>1, Zenon
    <3>4. QED
      BY <3>2, <3>3, Zenon DEF ContextKept
  <2>7. TypeOK'
    BY <1>1, <2>1, <2>3, Zenon DEF TypeOK, Pc, SuspendSteps
  <2>8. pc'[c] = "suspend_stack" /\ \A d \in Cores \ {c} : CoreKept(d)
    BY <1>1, <2>1, Zenon DEF TypeOK, CoreKept
  <2>9. LocalsInv(c)' /\ StartInv(c)'
    BY <1>1, <2>8, Zenon DEF LocalsInv, StartInv, OnSteps, SuspendSteps, StartSteps
  <2>10. ContextsInv(c)'
    <3>1. Contains(contexts, m)'
      BY <2>4, Zenon DEF Contains, Holding
    <3>2. \A i \in 1..MAX_CORES : (contexts'[i] # None /\ contexts'[i].key = m) => i = s
      BY <2>3, Zenon
    <3>3. QED
      <4>1. pc'[c] = "suspend_stack" /\ Suspending(c)'
        BY <2>8, Zenon DEF Suspending
      <4>2. \A i \in 1..MAX_CORES : (contexts'[i] # None /\ contexts'[i].key = m) =>
                contexts'[i].value = call'[c].entry
        <5>1. contexts'[s].value = call[c].entry /\ call'[c] = call[c]
          BY <1>1, <2>3
        <5>2. QED
          BY <3>2, <5>1, Zenon
      <4>3. QED
        BY <3>1, <4>1, <4>2, Zenon DEF ContextsInv
  <2>11. QED
    BY <1>3, <2>5, <2>6, <2>7, <2>8, <2>9, <2>10, OneCore, Zenon
<1>6. QED
  BY <1>4, <1>5, Zenon

\* get_secondary_stack() for CPU_SUSPEND hands out a slot with the core's register.
LEMMA SuspendStackInv ==
    ASSUME IInv, NEW c \in Cores, SuspendStack(c)
    PROVE  IInv'
<1> DEFINE m == read_mpidr_el1(c)
<1>1. /\ TypeOK /\ LocalsInv(c) /\ StartInv(c) /\ ContextsInv(c)
      /\ pc[c] = "suspend_stack" /\ GetSecondaryStack(c, m, "suspend_write")
      /\ UNCHANGED <<contexts, sp, stage2, asked>>
  BY Zenon DEF IInv, SuspendStack, GetSecondaryStack
<1>2. call[c] \in Call /\ call[c].target = None
  BY <1>1, Zenon DEF LocalsInv, SuspendSteps
<1>3. m \in Mpidr /\ m.aff \in Cores /\ m.res1
  BY ConstantsAssumption, Zenon DEF Mpidr, read_mpidr_el1
<1>4. /\ stacks' \in SimpleMaps(Mpidr, StackTop, MAX_CORES)
      /\ StacksInv' /\ StacksKept
      /\ \/ /\ pc' = [pc EXCEPT ![c] = "suspend_write"]
            /\ \E p \in 1..MAX_CORES :
                  /\ call' = [call EXCEPT ![c].ptr = p]
                  /\ stacks'[p] # None /\ stacks'[p].key = m
         \/ pc' = [pc EXCEPT ![c] = "panic_in_stacks"] /\ UNCHANGED call
  BY <1>1, <1>3, GetSecondaryStackEffect
<1>5. ContextKeysInv' /\ \A d \in Cores : ContextKept(d)
  BY <1>1, ContextsUnchanged, Zenon
<1>6. CASE pc' = [pc EXCEPT ![c] = "panic_in_stacks"] /\ UNCHANGED call
  <2>1. TypeOK'
    BY <1>1, <1>4, <1>6, Zenon DEF TypeOK, Pc, Panics
  <2>2. pc'[c] = "panic_in_stacks" /\ \A d \in Cores \ {c} : CoreKept(d)
    BY <1>1, <1>6, Zenon DEF TypeOK, CoreKept
  <2>3. LocalsInv(c)' /\ ContextsInv(c)'
    BY <1>1, <1>5, <2>2, Zenon DEF LocalsInv, ContextsInv, OnSteps, SuspendSteps
  <2>4. StartInv(c)'
    BY <1>1, <1>4, <2>2 DEF StartInv, StartSteps, StacksKept, TypeOK
  <2>5. QED
    BY <1>4, <1>5, <2>1, <2>2, <2>3, <2>4, OneCore, Zenon
<1>7. ASSUME NEW p \in 1..MAX_CORES, pc' = [pc EXCEPT ![c] = "suspend_write"],
             call' = [call EXCEPT ![c].ptr = p], stacks'[p] # None, stacks'[p].key = m
      PROVE  IInv'
  <2>1. /\ call'[c] \in Call /\ call'[c].target = None /\ call'[c].ptr = p
        /\ call'[c].entry = call[c].entry
    BY <1>1, <1>2, <1>7 DEF TypeOK, Call
  <2>2. TypeOK'
    BY <1>1, <1>4, <1>7, <2>1, Zenon DEF TypeOK, Pc, SuspendSteps
  <2>3. pc'[c] = "suspend_write" /\ \A d \in Cores \ {c} : CoreKept(d)
    BY <1>1, <1>7, Zenon DEF TypeOK, CoreKept
  <2>4. LocalsInv(c)'
    <3>1. Owned(p, m, {Resume, None})'
      BY <1>3, <1>4, <1>7, Zenon DEF Owned, StacksInv
    <3>2. QED
      BY <2>1, <2>3, <3>1, Zenon DEF LocalsInv, OnSteps, SuspendSteps
  <2>5. StartInv(c)'
    BY <1>1, <1>4, <2>3 DEF StartInv, StartSteps, StacksKept, TypeOK
  <2>6. ContextsInv(c)'
    BY <1>1, <1>5, <2>1, <2>3, Zenon DEF ContextsInv, ContextKept, Suspending, SuspendSteps
  <2>7. QED
    BY <1>4, <1>5, <2>2, <2>3, <2>4, <2>5, <2>6, OneCore, Zenon
<1>8. QED
  BY <1>4, <1>6, <1>7, Zenon

\* suspend_core() writes restore_from_suspend to a slot of CPU_SUSPEND.
LEMMA SuspendWriteInv ==
    ASSUME IInv, NEW c \in Cores, SuspendWrite(c)
    PROVE  IInv'
<1>1. /\ TypeOK /\ StacksInv /\ LocalsInv(c) /\ StartInv(c) /\ ContextsInv(c)
      /\ pc[c] = "suspend_write" /\ pc' = [pc EXCEPT ![c] = "suspend_smc"]
      /\ stacks' = [stacks EXCEPT ![call[c].ptr].value = Resume]
      /\ UNCHANGED <<contexts, call, sp, stage2, asked>>
  BY Zenon DEF IInv, SuspendWrite, Goto
<1>2. /\ call[c] \in Call /\ call[c].target = None
      /\ Owned(call[c].ptr, read_mpidr_el1(c), {Resume, None})
  BY <1>1, Zenon DEF LocalsInv, SuspendSteps
<1>3. stacks[call[c].ptr].key.res1
  <2>1. stacks[call[c].ptr].key = read_mpidr_el1(c)
    BY <1>2, Zenon DEF Owned
  <2>2. QED
    BY <2>1 DEF read_mpidr_el1
<1>4. /\ stacks' \in SimpleMaps(Mpidr, StackTop, MAX_CORES) /\ StacksInv' /\ StacksKept
      /\ stacks'[call[c].ptr] # None /\ stacks'[call[c].ptr].value = Resume
      /\ stacks'[call[c].ptr].key = stacks[call[c].ptr].key
  BY <1>1, <1>2, <1>3, StackWriteEffect DEF Owned
<1>5. TypeOK'
  BY <1>1, <1>4, Zenon DEF TypeOK, Pc, SuspendSteps
<1>6. ContextKeysInv' /\ \A d \in Cores : ContextKept(d)
  BY <1>1, ContextsUnchanged, Zenon
<1>7. pc'[c] = "suspend_smc" /\ \A d \in Cores \ {c} : CoreKept(d)
  BY <1>1, Zenon DEF TypeOK, CoreKept
<1>8. LocalsInv(c)'
  <2>1. Owned(call[c].ptr, read_mpidr_el1(c), {Resume})'
    BY <1>1, <1>2, <1>4, Zenon DEF Owned
  <2>2. QED
    BY <1>1, <1>2, <1>7, <2>1, Zenon DEF LocalsInv, OnSteps, SuspendSteps
<1>9. StartInv(c)'
  BY <1>1, <1>4, <1>7 DEF StartInv, StartSteps, StacksKept, TypeOK
<1>10. ContextsInv(c)'
  BY <1>1, <1>6, <1>7, Zenon DEF ContextsInv, ContextKept, Suspending, SuspendSteps
<1>11. QED
  BY <1>4, <1>5, <1>6, <1>7, <1>8, <1>9, <1>10, OneCore, Zenon

\* A core that powers down has its context filed and its stack prepared.
LEMMA SuspendAcceptedInv ==
    ASSUME IInv, NEW c \in Cores, SuspendAccepted(c)
    PROVE  IInv'
<1> DEFINE a == [fn |-> "CPU_SUSPEND", entry |-> call[c].entry]
<1>1. /\ TypeOK /\ LocalsInv(c) /\ ContextsInv(c) /\ pc[c] = "suspend_smc"
      /\ pc' = [pc EXCEPT ![c] = "SUSPENDED"] /\ sp' = [sp EXCEPT ![c] = call[c].ptr]
      /\ asked' = [asked EXCEPT ![c] = a] /\ call' = [call EXCEPT ![c] = None]
      /\ stage2' = [stage2 EXCEPT ![c] = FALSE] /\ UNCHANGED <<stacks, contexts>>
  BY Zenon DEF IInv, SuspendAccepted, Goto
<1>2. call[c] \in Call /\ Owned(call[c].ptr, read_mpidr_el1(c), {Resume})
  BY <1>1, Zenon DEF LocalsInv, SuspendSteps
<1>3. a \in Request /\ a.fn = "CPU_SUSPEND" /\ a.entry = call[c].entry
  BY <1>2, Zenon DEF Call, Request
<1> HIDE DEF a
<1>4. /\ pc'[c] = "SUSPENDED" /\ sp'[c] = call[c].ptr /\ asked'[c] = a
      /\ \A d \in Cores \ {c} : CoreKept(d)
  BY <1>1, Zenon DEF TypeOK, CoreKept
<1>5. TypeOK'
  <2>1. pc' \in [Cores -> Pc]
    BY <1>1, Zenon DEF TypeOK, Pc, Asleep
  <2>2. sp' \in [Cores -> 0..MAX_CORES]
    <3>1. call[c].ptr \in 1..MAX_CORES
      BY <1>2, Zenon DEF Owned
    <3>2. call[c].ptr \in 0..MAX_CORES
      BY <3>1, ConstantsAssumption
    <3>3. QED
      BY <1>1, <3>2, Zenon DEF TypeOK
  <2>3. call' \in [Cores -> Call \cup {None}] /\ stage2' \in [Cores -> BOOLEAN]
    BY <1>1, Zenon DEF TypeOK
  <2>4. asked' \in [Cores -> Request \cup {None}]
    BY <1>1, <1>3, Zenon DEF TypeOK
  <2>5. QED
    BY <1>1, <2>1, <2>2, <2>3, <2>4, Zenon DEF TypeOK
<1>6. /\ StacksInv' /\ ContextKeysInv' /\ StacksKept
      /\ \A d \in Cores : ContextKept(d)
  BY <1>1, MapsUnchanged, Zenon
<1>7. LocalsInv(c)'
  BY <1>4, Zenon DEF LocalsInv, OnSteps, SuspendSteps
<1>8. StartInv(c)'
  <2>1. Owned(sp[c], read_mpidr_el1(c), {Resume})'
    BY <1>1, <1>2, <1>4, Zenon DEF Owned
  <2>2. stacks'[sp'[c]] # None /\ stacks'[sp'[c]].key.aff = c
    BY <2>1 DEF Owned, read_mpidr_el1
  <2>3. QED
    BY <1>3, <1>4, <2>1, <2>2, Zenon DEF StartInv, StartSteps
<1>9. ContextsInv(c)'
  BY <1>1, <1>3, <1>4, <1>6, Zenon DEF ContextsInv, ContextKept, Suspending, SuspendSteps
<1>10. QED
  BY <1>4, <1>5, <1>6, <1>7, <1>8, <1>9, OneCore, Zenon

\* The return of the firmware's call keeps the context for the remove.
LEMMA SuspendReturnedInv ==
    ASSUME IInv, NEW c \in Cores, SuspendReturned(c)
    PROVE  IInv'
<1>1. /\ TypeOK /\ LocalsInv(c) /\ StartInv(c) /\ ContextsInv(c)
      /\ pc[c] = "suspend_smc" /\ pc' = [pc EXCEPT ![c] = "suspend_return"]
      /\ UNCHANGED <<stacks, contexts, call, sp, stage2, asked>>
  BY Zenon DEF IInv, SuspendReturned, Goto
<1>2. TypeOK'
  BY <1>1, Zenon DEF TypeOK, Pc, SuspendSteps
<1>3. pc'[c] = "suspend_return" /\ \A d \in Cores \ {c} : CoreKept(d)
  BY <1>1, Zenon DEF TypeOK, CoreKept
<1>4. /\ StacksInv' /\ ContextKeysInv' /\ StacksKept
      /\ \A d \in Cores : ContextKept(d)
  BY <1>1, MapsUnchanged, Zenon
<1>5. LocalsInv(c)' /\ StartInv(c)'
  BY <1>1, <1>3, Zenon DEF LocalsInv, StartInv, OnSteps, SuspendSteps, StartSteps
<1>6. ContextsInv(c)'
  BY <1>1, <1>3, <1>4, Zenon DEF ContextsInv, ContextKept, Suspending, SuspendSteps
<1>7. QED
  BY <1>2, <1>3, <1>4, <1>5, <1>6, OneCore, Zenon

\* What removing the context of core c does.
LEMMA ContextRemoved ==
    ASSUME IInv, NEW c \in Cores, contexts' = Remove(contexts, read_mpidr_el1(c))
    PROVE  /\ contexts' \in SimpleMaps(Mpidr, EntryPoint, MAX_CORES)
           /\ ContextKeysInv' /\ ~Contains(contexts, read_mpidr_el1(c))'
           /\ \A i \in 1..MAX_CORES :
                 ~(contexts'[i] # None /\ contexts'[i].key = read_mpidr_el1(c))
           /\ \A d \in Cores \ {c} : ContextKept(d)
<1> DEFINE m == read_mpidr_el1(c)
<1>1. /\ contexts \in SimpleMaps(Mpidr, EntryPoint, MAX_CORES)
      /\ UniqueKeys(contexts) /\ ContextKeysInv /\ MAX_CORES \in Nat
  BY ConstantsAssumption, Zenon DEF IInv, TypeOK, ContextKeysInv
<1>2. /\ contexts' \in SimpleMaps(Mpidr, EntryPoint, MAX_CORES)
      /\ \A i \in 1..MAX_CORES : contexts'[i] =
            IF contexts[i] # None /\ contexts[i].key = m THEN None ELSE contexts[i]
  BY <1>1, RemoveEffect
<1>3. /\ UniqueKeys(contexts')
      /\ \A k : Contains(contexts', k) <=> (k # m /\ Contains(contexts, k))
  BY <1>1, RemoveKeys, Zenon
<1>4. ContextKeysInv'
  <2>1. UniqueKeys(contexts)'
    BY <1>3, Zenon DEF UniqueKeys
  <2>2. QED
    BY <1>1, <1>2, <2>1, Zenon DEF ContextKeysInv
<1>5. ~Contains(contexts, m)'
  BY <1>3, Zenon DEF Contains, Holding
<1>6. ASSUME NEW d \in Cores \ {c}
      PROVE  ContextKept(d)
  <2>1. read_mpidr_el1(d) # m
    BY MpidrInjective, Zenon
  <2>2. Contains(contexts, read_mpidr_el1(d))' <=> Contains(contexts, read_mpidr_el1(d))
    BY <1>3, <2>1, Zenon DEF Contains, Holding
  <2>3. QED
    BY <1>2, <2>1, <2>2, Zenon DEF ContextKept
<1>7. QED
  BY <1>2, <1>4, <1>5, <1>6, Zenon

\* The remove after a suspend that returned takes the core's own context.
LEMMA SuspendReturnInv ==
    ASSUME IInv, NEW c \in Cores, SuspendReturn(c)
    PROVE  IInv'
<1>1. /\ TypeOK /\ StartInv(c) /\ pc[c] = "suspend_return"
      /\ contexts' = Remove(contexts, read_mpidr_el1(c))
      /\ pc' = [pc EXCEPT ![c] = "guest"] /\ call' = [call EXCEPT ![c] = None]
      /\ UNCHANGED <<stacks, sp, stage2, asked>>
  BY Zenon DEF IInv, SuspendReturn, Goto
<1>2. /\ contexts' \in SimpleMaps(Mpidr, EntryPoint, MAX_CORES)
      /\ ContextKeysInv' /\ ~Contains(contexts, read_mpidr_el1(c))'
      /\ \A i \in 1..MAX_CORES :
            ~(contexts'[i] # None /\ contexts'[i].key = read_mpidr_el1(c))
      /\ \A d \in Cores \ {c} : ContextKept(d)
  BY <1>1, ContextRemoved, Zenon
<1>3. TypeOK'
  BY <1>1, <1>2, Zenon DEF TypeOK, Pc, GuestSteps
<1>4. pc'[c] = "guest" /\ \A d \in Cores \ {c} : CoreKept(d)
  BY <1>1, Zenon DEF TypeOK, CoreKept
<1>5. StacksInv' /\ StacksKept
  BY <1>1, StacksUnchanged, Zenon
<1>6. LocalsInv(c)' /\ StartInv(c)'
  BY <1>1, <1>4, Zenon DEF LocalsInv, StartInv, OnSteps, SuspendSteps, StartSteps
<1>7. ContextsInv(c)'
  BY <1>2, <1>4, Zenon DEF ContextsInv, Suspending
<1>8. QED
  BY <1>2, <1>3, <1>4, <1>5, <1>6, <1>7, OneCore, Zenon

\* restore_from_suspend() takes the core's own context.
LEMMA RestoreFromSuspendInv ==
    ASSUME IInv, NEW c \in Cores, RestoreFromSuspend(c)
    PROVE  IInv'
<1> DEFINE m == read_mpidr_el1(c)
           g == GetMut(contexts, m)
           k == [target |-> None, ptr |-> 0, entry |-> contexts[g].value]
<1>1. /\ TypeOK /\ StartInv(c) /\ ContextsInv(c) /\ pc[c] = "restore_from_suspend"
      /\ UNCHANGED <<stacks, sp, stage2, asked>>
  BY Zenon DEF IInv, RestoreFromSuspend
<1>2. Contains(contexts, m)
  BY <1>1, Zenon DEF ContextsInv, Suspending
<1>3. /\ contexts' = Remove(contexts, m)
      /\ pc' = [pc EXCEPT ![c] = "entry_point_el1"]
      /\ call' = [call EXCEPT ![c] = k]
  BY <1>2, Zenon DEF RestoreFromSuspend, Goto
<1>4. g \in 1..MAX_CORES /\ contexts[g] # None /\ contexts[g].key = m
  BY <1>1, <1>2, GetMutFinds, ConstantsAssumption DEF TypeOK, SimpleMaps
<1>5. /\ contexts[g].value \in EntryPoint /\ contexts[g].value = asked[c].entry
      /\ asked[c] \in Request
  BY <1>1, <1>4, SlotTypes, Zenon DEF ContextsInv, StartInv, StartSteps
<1>6. k \in Call /\ k.target = None /\ k.entry = asked[c].entry
  BY <1>5, ConstantsAssumption DEF Call
<1> HIDE DEF k, g
<1>7. /\ contexts' \in SimpleMaps(Mpidr, EntryPoint, MAX_CORES)
      /\ ContextKeysInv' /\ ~Contains(contexts, m)'
      /\ \A i \in 1..MAX_CORES : ~(contexts'[i] # None /\ contexts'[i].key = m)
      /\ \A d \in Cores \ {c} : ContextKept(d)
  BY <1>3, ContextRemoved, Zenon
<1>8. TypeOK'
  BY <1>1, <1>3, <1>6, <1>7, Zenon DEF TypeOK, Pc, StartSteps
<1>9. /\ pc'[c] = "entry_point_el1" /\ call'[c] = k
      /\ \A d \in Cores \ {c} : CoreKept(d)
  BY <1>1, <1>3, Zenon DEF TypeOK, CoreKept
<1>10. StacksInv' /\ StacksKept
  BY <1>1, StacksUnchanged, Zenon
<1>11. LocalsInv(c)'
  BY <1>6, <1>9, Zenon DEF LocalsInv, OnSteps, SuspendSteps
<1>12. StartInv(c)'
  BY <1>1, <1>5, <1>9, Zenon DEF StartInv, StartSteps
<1>13. ContextsInv(c)'
  BY <1>1, <1>6, <1>7, <1>9, Zenon DEF ContextsInv, Suspending
<1>14. QED
  BY <1>7, <1>8, <1>9, <1>10, <1>11, <1>12, <1>13, OneCore, Zenon

-----------------------------------------------------------------------------
(* Starting a core *)

\* The firmware starts a core on the stack CPU_ON prepared.
LEMMA FirmwareStartsInv ==
    ASSUME IInv, NEW c \in Cores, FirmwareStarts(c) \/ FirmwareWakes(c)
    PROVE  IInv'
<1>1. /\ TypeOK /\ StartInv(c) /\ ContextsInv(c) /\ pc[c] \in {"ON_PENDING", "SUSPENDED"}
      /\ pc' = [pc EXCEPT ![c] = "secondary_entry"]
      /\ UNCHANGED <<stacks, contexts, call, sp, stage2, asked>>
  BY Zenon DEF IInv, FirmwareStarts, FirmwareWakes, Goto
<1>2. TypeOK'
  BY <1>1, Zenon DEF TypeOK, Pc, StartSteps
<1>3. pc'[c] = "secondary_entry" /\ \A d \in Cores \ {c} : CoreKept(d)
  BY <1>1, Zenon DEF TypeOK, CoreKept
<1>4. /\ StacksInv' /\ ContextKeysInv' /\ StacksKept
      /\ \A d \in Cores : ContextKept(d)
  BY <1>1, MapsUnchanged, Zenon
<1>5. LocalsInv(c)'
  BY <1>3, Zenon DEF LocalsInv, OnSteps, SuspendSteps
<1>6. StartInv(c)'
  <2>1. \A i, m, V : Owned(i, m, V)' <=> Owned(i, m, V)
    BY <1>1, Zenon DEF Owned
  <2>2. QED
    BY <1>1, <1>3, <2>1, Zenon DEF StartInv, StartSteps
<1>7. ContextsInv(c)'
  <2>1. asked[c].fn = "CPU_SUSPEND" <=> pc[c] = "SUSPENDED"
    BY <1>1, Zenon DEF StartInv
  <2>2. Suspending(c)' <=> Suspending(c)
    BY <1>1, <1>3, <2>1, Zenon DEF Suspending
  <2>3. Contains(contexts, read_mpidr_el1(c)) => pc[c] = "SUSPENDED"
    BY <1>1, Zenon DEF ContextsInv, Suspending
  <2>4. \A i \in 1..MAX_CORES : (contexts[i] # None /\ contexts[i].key = read_mpidr_el1(c))
            => Contains(contexts, read_mpidr_el1(c))
    BY <1>1, Zenon DEF Contains, Holding, TypeOK, SimpleMaps
  <2>5. QED
    BY <1>1, <1>3, <1>4, <2>2, <2>3, <2>4, Zenon DEF ContextsInv, ContextKept, SuspendSteps
<1>8. QED
  BY <1>2, <1>3, <1>4, <1>5, <1>6, <1>7, OneCore, Zenon

\* The secondary entry finds the record of the request that started the core.
LEMMA SecondaryEntryInv ==
    ASSUME IInv, NEW c \in Cores, SecondaryEntry(c)
    PROVE  IInv'
<1>1. /\ TypeOK /\ StartInv(c) /\ ContextsInv(c) /\ pc[c] = "secondary_entry"
      /\ UNCHANGED <<stacks, contexts, sp, stage2, asked>>
  BY Zenon DEF IInv, SecondaryEntry
<1>2. /\ StacksInv' /\ ContextKeysInv' /\ StacksKept
      /\ \A d \in Cores : ContextKept(d)
  BY <1>1, MapsUnchanged, Zenon
<1>3. /\ asked[c] \in Request /\ asked[c].fn \in {"CPU_ON", "CPU_SUSPEND"}
      /\ IF asked[c].fn = "CPU_ON" THEN stacks[sp[c]].value \in EntryPoint
                                   ELSE stacks[sp[c]].value = Resume
  BY <1>1, Zenon DEF StartInv, StartSteps, Owned, Request
<1>4. CASE /\ stacks[sp[c]].value = Resume /\ UNCHANGED call
           /\ pc' = [pc EXCEPT ![c] = "restore_from_suspend"]
  <2>1. asked[c].fn = "CPU_SUSPEND"
    BY <1>3, <1>4, ConstantsAssumption, Zenon
  <2>2. TypeOK'
    BY <1>1, <1>4, Zenon DEF TypeOK, Pc, StartSteps
  <2>3. pc'[c] = "restore_from_suspend" /\ \A d \in Cores \ {c} : CoreKept(d)
    BY <1>1, <1>4, Zenon DEF TypeOK, CoreKept
  <2>4. LocalsInv(c)'
    BY <2>3, Zenon DEF LocalsInv, OnSteps, SuspendSteps
  <2>5. StartInv(c)'
    BY <1>1, <1>3, <2>1, <2>3, Zenon DEF StartInv, StartSteps
  <2>6. ContextsInv(c)'
    BY <1>1, <1>2, <2>1, <2>3, Zenon DEF ContextsInv, ContextKept, Suspending, SuspendSteps
  <2>7. QED
    BY <1>2, <2>2, <2>3, <2>4, <2>5, <2>6, OneCore, Zenon
<1>5. ASSUME NEW e \in Readable(sp[c]) \cap EntryPoint,
             call' = [call EXCEPT ![c] = [target |-> None, entry |-> e, ptr |-> 0]],
             pc' = [pc EXCEPT ![c] = "entry_point_el1"]
      PROVE  IInv'
  <2>1. asked[c].fn = "CPU_ON"
    BY <1>3, <1>5, ConstantsAssumption, Zenon DEF Readable
  <2>2. [target |-> None, entry |-> e, ptr |-> 0] \in Call
    BY <1>5, ConstantsAssumption DEF Call
  <2>3. TypeOK'
    BY <1>1, <1>5, <2>2, Zenon DEF TypeOK, Pc, StartSteps
  <2>4. /\ pc'[c] = "entry_point_el1" /\ call'[c] \in Call /\ call'[c].target = None
        /\ \A d \in Cores \ {c} : CoreKept(d)
    BY <1>1, <1>5, <2>2, Zenon DEF TypeOK, CoreKept
  <2>5. LocalsInv(c)'
    BY <2>4, Zenon DEF LocalsInv, OnSteps, SuspendSteps
  <2>6. StartInv(c)'
    BY <1>1, <1>3, <2>4, Zenon DEF StartInv, StartSteps
  <2>7. ContextsInv(c)'
    BY <1>1, <1>2, <2>1, <2>4, Zenon DEF ContextsInv, ContextKept, Suspending, SuspendSteps
  <2>8. QED
    BY <1>2, <2>3, <2>4, <2>5, <2>6, <2>7, OneCore, Zenon
<1>6. QED
  BY <1>4, <1>5, Zenon DEF SecondaryEntry, Goto

-----------------------------------------------------------------------------
(* Power-on, power-off and the invariant *)

\* Both maps are empty.
LEMMA EmptyMaps ==
    ASSUME stacks = New(MAX_CORES), contexts = New(MAX_CORES)
    PROVE  /\ stacks \in SimpleMaps(Mpidr, StackTop, MAX_CORES)
           /\ contexts \in SimpleMaps(Mpidr, EntryPoint, MAX_CORES)
           /\ StacksInv /\ ContextKeysInv
           /\ \A i \in 1..MAX_CORES : contexts[i] = None
           /\ \A k : ~Contains(contexts, k)
BY Zenon DEF New, SimpleMaps, StacksInv, ContextKeysInv, UniqueKeys, Contains, Holding

\* Power-on satisfies the invariant.
LEMMA InitInv == Init => IInv
<1> SUFFICES ASSUME Init PROVE IInv
  BY Zenon
<1> USE DEF Init
<1> DEFINE k == [target |-> None, entry |-> Payload, ptr |-> 0]
           a == [fn |-> "BOOT", entry |-> Payload]
<1>1. /\ stacks \in SimpleMaps(Mpidr, StackTop, MAX_CORES)
      /\ contexts \in SimpleMaps(Mpidr, EntryPoint, MAX_CORES)
      /\ StacksInv /\ ContextKeysInv
      /\ \A i \in 1..MAX_CORES : contexts[i] = None
      /\ \A m : ~Contains(contexts, m)
  BY EmptyMaps, Zenon
<1>2. k \in Call /\ a \in Request /\ k.target = None /\ k.entry = a.entry
  BY ConstantsAssumption DEF Call, Request
<1> HIDE DEF k, a
<1>3. /\ BootCore \in Cores
      /\ call = [c \in Cores |-> IF c = BootCore THEN k ELSE None]
      /\ asked = [c \in Cores |-> IF c = BootCore THEN a ELSE None]
      /\ pc = [c \in Cores |-> IF c = BootCore THEN "entry_point_el1" ELSE "OFF"]
  BY ConstantsAssumption, Zenon DEF BootCall, BootRequest, BootPc, k, a
<1>4. TypeOK
  <2>1. pc \in [Cores -> Pc]
    BY <1>3, Zenon DEF Pc, StartSteps, Asleep
  <2>2. call \in [Cores -> Call \cup {None}] /\ asked \in [Cores -> Request \cup {None}]
    BY <1>2, <1>3
  <2>3. sp \in [Cores -> 0..MAX_CORES] /\ stage2 \in [Cores -> BOOLEAN]
    BY ConstantsAssumption
  <2>4. QED
    BY <1>1, <2>1, <2>2, <2>3, Zenon DEF TypeOK
<1>5. ASSUME NEW c \in Cores
      PROVE  LocalsInv(c) /\ StartInv(c) /\ ContextsInv(c)
  <2>1. pc[c] = "OFF" \/ (pc[c] = "entry_point_el1" /\ call[c] = k /\ asked[c] = a)
    BY <1>3, Zenon
  <2>2. LocalsInv(c)
    BY <1>2, <2>1, Zenon DEF LocalsInv, OnSteps, SuspendSteps
  <2>3. StartInv(c)
    BY <1>2, <2>1, Zenon DEF StartInv, StartSteps
  <2>4. ContextsInv(c)
    BY <1>1, <1>2, <2>1, Zenon DEF ContextsInv, Suspending
  <2>5. QED
    BY <2>2, <2>3, <2>4, Zenon
<1>6. QED
  BY <1>1, <1>4, <1>5, Zenon DEF IInv

\* The state after SwitchOff.
AllOff ==
    /\ pc = [c \in Cores |-> "SYSTEM_OFF"]
    /\ stacks = New(MAX_CORES)
    /\ contexts = New(MAX_CORES)
    /\ call = [c \in Cores |-> None]
    /\ sp = [c \in Cores |-> 0]
    /\ stage2 = [c \in Cores |-> FALSE]
    /\ asked = [c \in Cores |-> None]

\* So does a machine that is off.
LEMMA AllOffInv == AllOff => IInv
<1> SUFFICES ASSUME AllOff PROVE IInv
  BY Zenon
<1> USE DEF AllOff
<1>1. /\ stacks \in SimpleMaps(Mpidr, StackTop, MAX_CORES)
      /\ contexts \in SimpleMaps(Mpidr, EntryPoint, MAX_CORES)
      /\ StacksInv /\ ContextKeysInv
      /\ \A i \in 1..MAX_CORES : contexts[i] = None
      /\ \A m : ~Contains(contexts, m)
  BY EmptyMaps, Zenon
<1>2. TypeOK
  BY <1>1, ConstantsAssumption DEF TypeOK, Pc, Asleep
<1>3. ASSUME NEW c \in Cores
      PROVE  LocalsInv(c) /\ StartInv(c) /\ ContextsInv(c)
  BY <1>1, Zenon DEF LocalsInv, StartInv, ContextsInv, Suspending, OnSteps, SuspendSteps,
                     StartSteps
<1>4. QED
  BY <1>1, <1>2, <1>3, Zenon DEF IInv

\* Off and reset reach a state like the ones above.
LEMMA SwitchOffInv == SwitchOff => IInv'
<1>1. SwitchOff => AllOff'
  BY Zenon DEF SwitchOff, AllOff
<1>2. QED
  BY <1>1, AllOffInv, PTL

\* SYSTEM_RESET goes back to power-on.
LEMMA SystemResetInv ==
    ASSUME NEW c \in Cores, SystemReset(c)
    PROVE  IInv'
<1>1. Init'
  BY Zenon DEF SystemReset, Init, BootPc, BootCall, BootRequest
<1>2. Init' => IInv'
  BY InitInv, PTL
<1>3. QED
  BY <1>1, <1>2, Zenon

\* A step that changes nothing keeps the invariant.
LEMMA StutterInv ==
    ASSUME IInv, UNCHANGED vars
    PROVE  IInv'
<1>1. /\ StacksInv' /\ ContextKeysInv' /\ StacksKept
      /\ \A d \in Cores : ContextKept(d)
  BY MapsUnchanged, Zenon DEF vars
<1>2. TypeOK'
  BY Zenon DEF IInv, TypeOK, vars
<1>3. \A d \in Cores : CoreKept(d)
  BY Zenon DEF CoreKept, vars
<1>4. QED
  BY <1>1, <1>2, <1>3, OtherCores, Zenon DEF IInv

\* Every step of every core keeps the invariant.
LEMMA NextInv == IInv /\ [Next]_vars => IInv'
<1> SUFFICES ASSUME IInv, [Next]_vars PROVE IInv'
  BY Zenon
<1>1. CASE UNCHANGED vars
  BY <1>1, StutterInv, Zenon
<1>2. CASE Stopped
  BY <1>2, StutterInv, Zenon DEF Stopped
<1>3. ASSUME NEW c \in Cores, Environment(c)
      PROVE  IInv'
  <2>1. CASE \E t \in Targets, e \in EntryPoints : CpuOnCall(c, t, e)
    BY <2>1, CpuOnCallInv, Zenon
  <2>2. CASE \E e \in EntryPoints : CpuSuspendCall(c, e)
    BY <2>2, CpuSuspendCallInv, Zenon
  <2>3. CASE CpuOff(c)
    BY <2>3, CpuOffInv, Zenon
  <2>4. CASE \E fn \in FirmwareSuspends : ForwardSuspend(c, fn)
    BY <2>4, ForwardSuspendInv, Zenon
  <2>5. CASE FirmwareWakes(c)
    BY <2>5, FirmwareStartsInv, Zenon
  <2>6. CASE FirmwareResumesGuest(c)
    BY <2>6, FirmwareResumesGuestInv, Zenon
  <2>7. CASE UnhandledTrap(c)
    BY <2>7, UnhandledTrapInv, Zenon
  <2>8. CASE SystemOff(c)
    BY <2>8, SwitchOffInv, Zenon DEF SystemOff
  <2>9. CASE SystemReset(c)
    BY <2>9, SystemResetInv, Zenon
  <2>10. QED
    BY <1>3, <2>1, <2>2, <2>3, <2>4, <2>5, <2>6, <2>7, <2>8, <2>9 DEF Environment
<1>4. ASSUME NEW c \in Cores, Hypervisor(c)
      PROVE  IInv'
  <2>1. CASE CpuOnStack(c) \/ CpuOnWrite(c) \/ CpuOnAccepted(c) \/ CpuOnRefused(c)
    BY <2>1, CpuOnStackInv, CpuOnWriteInv, CpuOnAcceptedInv, CpuOnRefusedInv, Zenon
  <2>2. CASE SuspendInsert(c) \/ SuspendStack(c) \/ SuspendWrite(c)
    BY <2>2, SuspendInsertInv, SuspendStackInv, SuspendWriteInv, Zenon
  <2>3. CASE SuspendAccepted(c) \/ SuspendReturned(c) \/ SuspendReturn(c)
    BY <2>3, SuspendAcceptedInv, SuspendReturnedInv, SuspendReturnInv, Zenon
  <2>4. CASE FirmwareStarts(c) \/ SecondaryEntry(c) \/ RestoreFromSuspend(c)
    BY <2>4, FirmwareStartsInv, SecondaryEntryInv, RestoreFromSuspendInv, Zenon
  <2>5. CASE EntryPointEl1(c)
    BY <2>5, EntryPointEl1Inv, Zenon
  <2>6. CASE PanicHandler(c)
    BY <2>6, SwitchOffInv, Zenon DEF PanicHandler
  <2>7. QED
    BY <1>4, <2>1, <2>2, <2>3, <2>4, <2>5, <2>6, Zenon DEF Hypervisor
<1>5. QED
  BY <1>1, <1>2, <1>3, <1>4, Zenon DEF Next

\* The inductive invariant holds in every reachable state.
THEOREM Invariance == Spec => []IInv
BY InitInv, NextInv, PTL DEF Spec

-----------------------------------------------------------------------------
(* What holds for any guest *)

\* Slots, pointers and locals stay within their types; in particular every
\* pointer into SECONDARY_STACKS stays within the array.
THEOREM TypeCorrect == Spec => []TypeOK
<1>1. IInv => TypeOK
  BY Zenon DEF IInv
<1>2. QED
  BY <1>1, Invariance, PTL

\* SUSPEND_CONTEXTS has a context for exactly the suspending cores.
THEOREM ContextsExact == Spec => []SuspendContextsExact
<1>1. IInv => SuspendContextsExact
  BY Zenon DEF IInv, ContextsInv, SuspendContextsExact
<1>2. QED
  BY <1>1, Invariance, PTL

\* expect("context not found for resuming CPU") never fires.
THEOREM ResumeNeverPanics == Spec => []ResumeFindsContext
<1>1. IInv => ResumeFindsContext
  BY Zenon DEF IInv, ContextsInv, ResumeFindsContext, Suspending
<1>2. QED
  BY <1>1, Invariance, PTL

\* A suspended core resumes where it asked to, whatever other cores do.
THEOREM ResumeCorrect == Spec => []ResumeAsRequested
<1>1. IInv => ResumeAsRequested
  BY Zenon DEF IInv, ContextsInv, ResumeAsRequested
<1>2. QED
  BY <1>1, Invariance, PTL

\* No two cores run on the same secondary stack.
THEOREM NoSharedStack == Spec => []StacksDisjoint
<1>1. ASSUME IInv, NEW c \in Cores, NEW d \in Cores, c # d, sp[c] # 0
      PROVE  sp[c] # sp[d]
  <2>1. StartInv(c) /\ StartInv(d)
    BY <1>1, Zenon DEF IInv
  <2>2. stacks[sp[c]].key.aff = c /\ (sp[d] # 0 => stacks[sp[d]].key.aff = d)
    BY <1>1, <2>1, Zenon DEF StartInv
  <2>3. QED
    BY <1>1, <2>2, Zenon
<1>2. IInv => StacksDisjoint
  BY <1>1, Zenon DEF StacksDisjoint
<1>3. QED
  BY <1>2, Invariance, PTL

\* A core that starts finds its own start record on its stack.
THEOREM StartCorrect == Spec => []StartFindsRecord
<1>1. ASSUME IInv, NEW c \in Cores, pc[c] = "secondary_entry"
      PROVE  /\ sp[c] # 0 /\ stacks[sp[c]] # None
             /\ stacks[sp[c]].value \in IF asked[c].fn = "CPU_ON" THEN EntryPoint
                                                                  ELSE {Resume}
  <2>1. StartInv(c)
    BY <1>1, Zenon DEF IInv
  <2>2. CASE asked[c].fn = "CPU_ON"
    <3>1. Owned(sp[c], MpidrArgument(c), EntryPoint)
      BY <1>1, <2>1, <2>2, Zenon DEF StartInv
    <3>2. QED
      BY <2>2, <3>1, ConstantsAssumption DEF Owned
  <2>3. CASE asked[c].fn # "CPU_ON"
    <3>1. Owned(sp[c], read_mpidr_el1(c), {Resume})
      BY <1>1, <2>1, <2>3, Zenon DEF StartInv
    <3>2. QED
      BY <2>3, <3>1, ConstantsAssumption DEF Owned
  <2>4. QED
    BY <2>2, <2>3, Zenon
<1>2. IInv => StartFindsRecord
  BY <1>1, Zenon DEF StartFindsRecord
<1>3. QED
  BY <1>2, Invariance, PTL

-----------------------------------------------------------------------------
(* Every call comes nearer to its end *)

\* The rank of every place, in one table.
LEMMA Ranks ==
    /\ Remaining("suspend_insert") = 6
    /\ Remaining("suspend_stack") = 5 /\ Remaining("ON_PENDING") = 5
    /\ Remaining("on_stack") = 4 /\ Remaining("suspend_write") = 4
    /\ Remaining("secondary_entry") = 4
    /\ Remaining("on_write") = 3 /\ Remaining("suspend_smc") = 3
    /\ Remaining("restore_from_suspend") = 3
    /\ Remaining("on_smc") = 2 /\ Remaining("suspend_return") = 2
    /\ \A l \in Panics : Remaining(l) = 2
    /\ Remaining("entry_point_el1") = 1
    /\ \A l \in GuestSteps \cup {"OFF", "SUSPENDED", "SUSPENDED_BY_GUEST", "SYSTEM_OFF"} :
           Remaining(l) = 0
BY Zenon DEF Remaining, Panics, GuestSteps

\* Every place has a rank, and the ones that are in the hypervisor, other than
\* the last, rank above the last.
LEMMA RankBounds ==
    ASSUME NEW l \in Pc
    PROVE  /\ Remaining(l) \in Nat
           /\ (Remaining(l) > 0 /\ l # "entry_point_el1") => Remaining(l) > 1
<1>1. CASE l \in Panics \cup OnSteps
  BY <1>1, Ranks DEF OnSteps, Panics
<1>2. CASE l \in SuspendSteps
  BY <1>2, Ranks DEF SuspendSteps
<1>3. CASE l \in Asleep \cup StartSteps \cup GuestSteps
  BY <1>3, Ranks DEF Asleep, StartSteps, GuestSteps
<1>4. QED
  BY <1>1, <1>2, <1>3, Zenon DEF Pc

\* The part of CallsAdvance that is about one core.
Advances(d) ==
    (Remaining(pc[d]) > 0 /\ pc'[d] # pc[d]) => Remaining(pc'[d]) < Remaining(pc[d])

\* A step that moves one core only, from rank 0 or to a lower rank.
LEMMA MovesOne ==
    ASSUME TypeOK, NEW c \in Cores, NEW l, Goto(c, l),
           \/ Remaining(pc[c]) = 0
           \/ Remaining(l) < Remaining(pc[c])
    PROVE  \A d \in Cores : Advances(d)
<1>1. pc'[c] = l /\ \A d \in Cores \ {c} : pc'[d] = pc[d]
  BY Zenon DEF TypeOK, Goto
<1>2. QED
  BY <1>1 DEF Advances

\* What the guest and the outside world do: they move a core only out of the
\* guest or out of a suspended state, or stop or restart all of them.
LEMMA EnvironmentAdvances ==
    ASSUME TypeOK, NEW c \in Cores, Environment(c)
    PROVE  \A d \in Cores : Advances(d)
<1>1. CASE \E t \in Targets, e \in EntryPoints : CpuOnCall(c, t, e)
  <2>1. pc[c] = "guest" /\ Goto(c, "on_stack")
    BY <1>1, Zenon DEF CpuOnCall
  <2>2. QED
    BY <2>1, Ranks, MovesOne, Zenon DEF GuestSteps
<1>2. CASE \E e \in EntryPoints : CpuSuspendCall(c, e)
  <2>1. pc[c] = "guest" /\ Goto(c, "suspend_insert")
    BY <1>2, Zenon DEF CpuSuspendCall
  <2>2. QED
    BY <2>1, Ranks, MovesOne, Zenon DEF GuestSteps
<1>3. CASE CpuOff(c)
  <2>1. pc[c] \in GuestSteps /\ Goto(c, "OFF")
    BY <1>3, Zenon DEF CpuOff
  <2>2. QED
    BY <2>1, Ranks, MovesOne, Zenon
<1>4. CASE \E fn \in FirmwareSuspends : ForwardSuspend(c, fn)
  <2>1. pc[c] = "guest" /\ Goto(c, "SUSPENDED_BY_GUEST")
    BY <1>4, Zenon DEF ForwardSuspend
  <2>2. QED
    BY <2>1, Ranks, MovesOne, Zenon DEF GuestSteps
<1>5. CASE FirmwareWakes(c)
  <2>1. pc[c] = "SUSPENDED" /\ Goto(c, "secondary_entry")
    BY <1>5, Zenon DEF FirmwareWakes
  <2>2. QED
    BY <2>1, Ranks, MovesOne, Zenon
<1>6. CASE FirmwareResumesGuest(c)
  <2>1. pc[c] = "SUSPENDED_BY_GUEST" /\ Goto(c, "guest_el2")
    BY <1>6, Zenon DEF FirmwareResumesGuest
  <2>2. QED
    BY <2>1, Ranks, MovesOne, Zenon
<1>7. CASE UnhandledTrap(c)
  <2>1. pc[c] = "guest" /\ Goto(c, "panic")
    BY <1>7, Zenon DEF UnhandledTrap
  <2>2. QED
    BY <2>1, Ranks, MovesOne, Zenon DEF GuestSteps
<1>8. CASE SystemOff(c)
  <2>1. \A d \in Cores : pc[d] \in Pc /\ pc'[d] = "SYSTEM_OFF"
    BY <1>8, Zenon DEF SystemOff, SwitchOff, TypeOK
  <2>2. QED
    BY <2>1, Ranks, RankBounds, Zenon DEF Advances
<1>9. CASE SystemReset(c)
  <2>1. \A d \in Cores : pc[d] \in Pc /\ pc'[d] \in {"entry_point_el1", "OFF"}
    BY <1>9, Zenon DEF SystemReset, BootPc, TypeOK
  <2>2. QED
    BY <2>1, Ranks, RankBounds, Zenon DEF Advances
<1>10. QED
  BY <1>1, <1>2, <1>3, <1>4, <1>5, <1>6, <1>7, <1>8, <1>9, Zenon DEF Environment

\* What the hypervisor does: every step lowers the rank of the core it moves.
LEMMA HypervisorAdvances ==
    ASSUME TypeOK, NEW c \in Cores, Hypervisor(c)
    PROVE  \A d \in Cores : Advances(d)
<1>1. CASE CpuOnStack(c)
  <2>1. /\ pc[c] = "on_stack"
        /\ Goto(c, "on_write") \/ Goto(c, "panic_in_stacks")
    BY <1>1, Zenon DEF CpuOnStack, GetSecondaryStack
  <2>2. QED
    BY <2>1, Ranks, MovesOne DEF Panics
<1>2. CASE CpuOnWrite(c)
  <2>1. pc[c] = "on_write" /\ Goto(c, "on_smc")
    BY <1>2, Zenon DEF CpuOnWrite
  <2>2. QED
    BY <2>1, Ranks, MovesOne
<1>3. CASE CpuOnAccepted(c)
  <2> DEFINE t == call[c].target
  <2>1. /\ pc[c] = "on_smc" /\ t \in Cores /\ pc[t] = "OFF"
        /\ pc' = [pc EXCEPT ![c] = "guest", ![t] = "ON_PENDING"]
    BY <1>3, Zenon DEF CpuOnAccepted
  <2>2. /\ t # c /\ pc'[c] = "guest"
        /\ \A d \in Cores \ {c, t} : pc'[d] = pc[d]
    BY <2>1, Zenon DEF TypeOK
  <2>3. Remaining(pc[c]) = 2 /\ Remaining(pc'[c]) = 0 /\ Remaining(pc[t]) = 0
    BY <2>1, <2>2, Ranks, Zenon DEF GuestSteps
  <2>4. Advances(c) /\ Advances(t)
    BY <2>3 DEF Advances
  <2>5. \A d \in Cores \ {c, t} : Advances(d)
    BY <2>2, Zenon DEF Advances
  <2>6. QED
    BY <2>4, <2>5, Zenon
<1>4. CASE CpuOnRefused(c)
  <2>1. pc[c] = "on_smc" /\ Goto(c, "guest")
    BY <1>4, Zenon DEF CpuOnRefused
  <2>2. QED
    BY <2>1, Ranks, MovesOne DEF GuestSteps
<1>5. CASE SuspendInsert(c)
  <2>1. /\ pc[c] = "suspend_insert"
        /\ Goto(c, "suspend_stack") \/ Goto(c, "panic_in_contexts")
    BY <1>5, Zenon DEF SuspendInsert
  <2>2. QED
    BY <2>1, Ranks, MovesOne DEF Panics
<1>6. CASE SuspendStack(c)
  <2>1. /\ pc[c] = "suspend_stack"
        /\ Goto(c, "suspend_write") \/ Goto(c, "panic_in_stacks")
    BY <1>6, Zenon DEF SuspendStack, GetSecondaryStack
  <2>2. QED
    BY <2>1, Ranks, MovesOne DEF Panics
<1>7. CASE SuspendWrite(c)
  <2>1. pc[c] = "suspend_write" /\ Goto(c, "suspend_smc")
    BY <1>7, Zenon DEF SuspendWrite
  <2>2. QED
    BY <2>1, Ranks, MovesOne
<1>8. CASE SuspendAccepted(c)
  <2>1. pc[c] = "suspend_smc" /\ Goto(c, "SUSPENDED")
    BY <1>8, Zenon DEF SuspendAccepted
  <2>2. QED
    BY <2>1, Ranks, MovesOne
<1>9. CASE SuspendReturned(c)
  <2>1. pc[c] = "suspend_smc" /\ Goto(c, "suspend_return")
    BY <1>9, Zenon DEF SuspendReturned
  <2>2. QED
    BY <2>1, Ranks, MovesOne
<1>10. CASE SuspendReturn(c)
  <2>1. pc[c] = "suspend_return" /\ Goto(c, "guest")
    BY <1>10, Zenon DEF SuspendReturn
  <2>2. QED
    BY <2>1, Ranks, MovesOne DEF GuestSteps
<1>11. CASE FirmwareStarts(c)
  <2>1. pc[c] = "ON_PENDING" /\ Goto(c, "secondary_entry")
    BY <1>11, Zenon DEF FirmwareStarts
  <2>2. QED
    BY <2>1, Ranks, MovesOne
<1>12. CASE SecondaryEntry(c)
  <2>1. /\ pc[c] = "secondary_entry"
        /\ Goto(c, "restore_from_suspend") \/ Goto(c, "entry_point_el1")
    BY <1>12, Zenon DEF SecondaryEntry
  <2>2. QED
    BY <2>1, Ranks, MovesOne
<1>13. CASE RestoreFromSuspend(c)
  <2>1. /\ pc[c] = "restore_from_suspend"
        /\ Goto(c, "entry_point_el1") \/ Goto(c, "panic_in_contexts")
    BY <1>13, Zenon DEF RestoreFromSuspend
  <2>2. QED
    BY <2>1, Ranks, MovesOne DEF Panics
<1>14. CASE EntryPointEl1(c)
  <2>1. pc[c] = "entry_point_el1" /\ Goto(c, "guest")
    BY <1>14, Zenon DEF EntryPointEl1
  <2>2. QED
    BY <2>1, Ranks, MovesOne DEF GuestSteps
<1>15. CASE PanicHandler(c)
  <2>1. \A d \in Cores : pc[d] \in Pc /\ pc'[d] = "SYSTEM_OFF"
    BY <1>15, Zenon DEF PanicHandler, SwitchOff, TypeOK
  <2>2. QED
    BY <2>1, Ranks, RankBounds, Zenon DEF Advances
<1>16. QED
  BY <1>1, <1>2, <1>3, <1>4, <1>5, <1>6, <1>7, <1>8,
     <1>9, <1>10, <1>11, <1>12, <1>13, <1>14, <1>15 DEF Hypervisor

\* No step of any core sets a call back: the rank of a core in the hypervisor
\* only falls, so that a call takes at most six steps of its core.
THEOREM CallsNeverSetBack == Spec => CallsAdvance
<1>1. ASSUME TypeOK, [Next]_vars
      PROVE  \A d \in Cores : Advances(d)
  <2>1. CASE UNCHANGED vars \/ Stopped
    BY <2>1, Zenon DEF vars, Stopped, Advances
  <2>2. ASSUME NEW c \in Cores, Environment(c) \/ Hypervisor(c)
        PROVE  \A d \in Cores : Advances(d)
    BY <1>1, <2>2, EnvironmentAdvances, HypervisorAdvances, Zenon
  <2>3. QED
    BY <1>1, <2>1, <2>2, Zenon DEF Next
<1>2. TypeOK /\ [Next]_vars =>
          [\A c \in Cores : (Remaining(pc[c]) > 0 /\ pc'[c] # pc[c]) =>
                                Remaining(pc'[c]) < Remaining(pc[c])]_vars
  BY <1>1, Zenon DEF Advances
<1>3. QED
  BY <1>2, TypeCorrect, PTL DEF Spec, CallsAdvance

=============================================================================

------------------------ MODULE Stage2BuilderProofs ------------------------
(***************************************************************************)
(* Stage2Builder for every page size, address width and table size: the    *)
(* tables stay disjoint and the registry sorted, no free range is refused, *)
(* the bisection loses no region, and the builder implements AccessPolicy. *)
(***************************************************************************)
EXTENDS Stage2Builder, NatLemmas

\* A table entry is a non-empty range that starts at a page.
WellFormed(r) ==
    /\ r.base_ipa \in Pages /\ r.end_ipa \in U64 /\ r.base_ipa < r.end_ipa

Disjoint(r, s) == r.end_ipa <= s.base_ipa \/ s.end_ipa <= r.base_ipa

\* Someone asked for this entry.
Asked(r, G) == \E g \in G : g.base = r.base_ipa /\ g.end = r.end_ipa

AllowedInv ==
    /\ \A i \in DOMAIN allowed : WellFormed(allowed[i]) /\ Asked(allowed[i], granted)
    /\ \A p \in Pages :
           idmap[p] # Unused <=> \E i \in DOMAIN allowed : p \in PagesIn(allowed[i])

\* The registry is sorted and without overlaps: what the binary search needs.
Sorted ==
    /\ \A i \in DOMAIN regions :
           /\ WellFormed(regions[i])
           /\ regions[i].end_ipa = regions[i].base_ipa + regions[i].size
    /\ \A i, j \in DOMAIN regions : i < j => regions[i].end_ipa <= regions[j].base_ipa

RegistryInv == Sorted /\ \A i \in DOMAIN regions : Asked(regions[i], granted)

\* The page table and the registry never meet.
ApartInv ==
    \A i \in DOMAIN allowed, j \in DOMAIN regions : Disjoint(allowed[i], regions[j])

\* A grant is in force: the page table or the registry says what was asked.
InForce(g) ==
    \/ /\ g.use \in Attributes
       /\ \E i \in DOMAIN allowed : allowed[i].base_ipa = g.base /\ allowed[i].end_ipa = g.end
       /\ \A p \in Pages : g.base <= p /\ p < g.end => idmap[p] = g.use
    \/ \E i \in DOMAIN regions : /\ regions[i].base_ipa = g.base /\ regions[i].end_ipa = g.end
                                 /\ regions[i].handler = g.use

\* Every grant is of whole pages and in force, and no two of them meet.
GrantInv ==
    /\ \A g \in granted :
           g.base \in Pages /\ g.end % PAGE_SIZE = 0 /\ g.base < g.end /\ InForce(g)
    /\ \A g, h \in granted : g # h => g.end <= h.base \/ h.end <= g.base

IInv == TypeOK /\ AllowedInv /\ RegistryInv /\ ApartInv /\ GrantInv

-----------------------------------------------------------------------------
\* One round of the binary search, from the searches of fewer regions.
Halving(b, size, ipa) ==
    [low \in 1..Len(regions) |->
        IF size = 1 THEN low
        ELSE LET half == size \div 2
                 middle == low + half
             IN  b[size - half][
                     IF Compare(regions[middle], ipa) = "Greater" THEN low ELSE middle]]

\* The search is well defined: each round looks at fewer regions.
LEMMA BisectDefined ==
    ASSUME Len(regions) \in Nat, NEW ipa
    PROVE  \E b : /\ b = [size \in 1..Len(regions) |-> Halving(b, size, ipa)]
                  /\ Bisect(ipa) = b[Len(regions)][1]
<1> DEFINE n == Len(regions)
           Defined(k) == \E b : b = [size \in 1..k |-> Halving(b, size, ipa)]
           Undefined == {k \in Nat : ~Defined(k)}
<1>1. Defined(n)
  <2> SUFFICES ASSUME Undefined # {}
               PROVE  FALSE
    OBVIOUS
  <2>1. PICK k \in Undefined : \A j \in Undefined : k <= j
    BY LeastOf, Zenon
  <2>2. Defined(0)
    <3>1. [size \in 1..0 |-> Halving(<<>>, size, ipa)] = [size \in 1..0 |-> Halving([i \in 1..0 |-> Halving(<<>>, i, ipa)], size, ipa)]
      OBVIOUS
    <3>2. QED
      BY <3>1
  <2>3. k - 1 \in Nat /\ Defined(k - 1)
    <3> HIDE DEF Defined
    <3>1. k \in Nat \ {0} /\ k - 1 \notin Undefined
      BY <2>1, <2>2
    <3>2. QED
      BY <3>1
  <2>4. PICK b : b = [size \in 1..k - 1 |-> Halving(b, size, ipa)]
    BY <2>3
  <2> DEFINE c == [size \in 1..k |-> IF size < k THEN b[size] ELSE Halving(b, k, ipa)]
  <2>5. ASSUME NEW size \in 1..k
        PROVE  c[size] = Halving(c, size, ipa)
    <3>1. \A i \in 1..k - 1 : c[i] = b[i]
      BY <2>3
    <3>2. Halving(b, size, ipa) = Halving(c, size, ipa)
      <4>1. CASE size = 1
        BY <4>1 DEF Halving
      <4>2. CASE size # 1
        <5>1. size - size \div 2 \in 1..k - 1
          BY <2>3, <4>2
        <5>2. b[size - size \div 2] = c[size - size \div 2]
          BY <3>1, <5>1
        <5> HIDE DEF c
        <5>3. QED
          BY <4>2, <5>2 DEF Halving
      <4>3. QED
        BY <4>1, <4>2
    <3>3. CASE size < k
      <4>1. size \in 1..k - 1
        BY <2>3, <3>3
      <4>2. b[size] = Halving(b, size, ipa)
        BY <2>4, <4>1, Zenon
      <4>3. QED
        BY <3>1, <3>2, <4>1, <4>2, Zenon
    <3>4. CASE size = k
      <4>1. k \in 1..k /\ ~(k < k)
        BY <2>3
      <4>2. c[k] = Halving(b, k, ipa)
        BY <4>1, Zenon
      <4>3. QED
        BY <3>2, <3>4, <4>2, Zenon
    <3>5. QED
      BY <2>3, <3>3, <3>4
  <2>6. c = [size \in 1..k |-> Halving(c, size, ipa)]
    <3>1. c = [size \in 1..k |-> c[size]]
      OBVIOUS
    <3> HIDE DEF c
    <3>2. QED
      BY <2>5, <3>1, Zenon
  <2>7. QED
    BY <2>1, <2>6
<1> DEFINE b == CHOOSE f : f = [size \in 1..n |-> Halving(f, size, ipa)]
<1>2. b = [size \in 1..n |-> Halving(b, size, ipa)]
  BY <1>1
<1>3. Bisect(ipa) = b[n][1]
  BY DEF Bisect, Halving
<1>4. QED
  BY <1>2, <1>3

\* page_ranges_overlap() is exact on non-empty ranges: it is false just when
\* one ends before the other begins.
LEMMA OverlapExact ==
    ASSUME NEW r, NEW s, WellFormed(r), WellFormed(s)
    PROVE  ~page_ranges_overlap(r, s) <=> Disjoint(r, s)
BY Stage2Assumption DEF page_ranges_overlap, Disjoint, WellFormed, Pages, U64

\* The ends of a well-formed range are numbers, in order.
LEMMA WellFormedEnds ==
    ASSUME NEW r, WellFormed(r)
    PROVE  r.base_ipa \in Int /\ r.end_ipa \in Int /\ r.base_ipa < r.end_ipa
BY Stage2Assumption DEF WellFormed, Pages, U64

\* Addresses are numbers.
LEMMA U64Int ==
    ASSUME NEW a \in U64
    PROVE  a \in Int
BY Stage2Assumption DEF U64

\* The comparison of find() is exact on a region whose end is where it says.
LEMMA CompareExact ==
    ASSUME NEW r \in Region, WellFormed(r), r.end_ipa = r.base_ipa + r.size, NEW ipa \in U64
    PROVE  /\ Compare(r, ipa) = "Greater" <=> ipa < r.base_ipa
           /\ Compare(r, ipa) = "Equal" <=> r.base_ipa <= ipa /\ ipa < r.end_ipa
<1>1. end_ipa(r) = r.end_ipa
  BY DEF end_ipa
<1>2. r.base_ipa \in Int /\ r.end_ipa \in Int /\ ipa \in Int
  BY Stage2Assumption DEF WellFormed, Pages, U64
<1>3. QED
  BY <1>1, <1>2 DEF Compare

\* The binary search of a sorted registry stays inside it, and ends at the
\* region of the address if there is one.
LEMMA BisectFinds ==
    ASSUME regions \in Seq(Region), Sorted, Len(regions) # 0, NEW ipa \in U64
    PROVE  /\ Bisect(ipa) \in 1..Len(regions)
           /\ \A i \in 1..Len(regions) : Compare(regions[i], ipa) = "Equal" => Bisect(ipa) = i
<1> DEFINE n == Len(regions)
<1>1. n \in Nat \ {0} /\ DOMAIN regions = 1..n
  OBVIOUS
<1>2. PICK b : /\ b = [size \in 1..n |-> Halving(b, size, ipa)]
               /\ Bisect(ipa) = b[n][1]
  BY <1>1, BisectDefined
<1>3. ASSUME NEW i \in 1..n
      PROVE  /\ regions[i].base_ipa \in Int /\ regions[i].end_ipa \in Int
             /\ regions[i].base_ipa < regions[i].end_ipa
             /\ Compare(regions[i], ipa) = "Greater" <=> ipa < regions[i].base_ipa
             /\ Compare(regions[i], ipa) = "Equal"
                   <=> regions[i].base_ipa <= ipa /\ ipa < regions[i].end_ipa
  <2>1. regions[i] \in Region
    BY <1>1
  <2>2. WellFormed(regions[i]) /\ regions[i].end_ipa = regions[i].base_ipa + regions[i].size
    BY <1>1 DEF Sorted
  <2>3. QED
    BY <2>1, <2>2, WellFormedEnds, CompareExact
<1>4. \A i, j \in 1..n : i < j => regions[i].end_ipa <= regions[j].base_ipa
  BY <1>1 DEF Sorted
<1> DEFINE Finds(size) ==
             \A low \in 1..n : low + size <= n + 1 =>
                 /\ b[size][low] \in low..low + size - 1
                 /\ \A i \in low..low + size - 1 :
                        Compare(regions[i], ipa) = "Equal" => b[size][low] = i
           Fails == {size \in 1..n : ~Finds(size)}
<1>5. Fails = {}
  <2> SUFFICES ASSUME Fails # {}
               PROVE  FALSE
    OBVIOUS
  <2> HIDE DEF Finds
  <2>1. PICK size \in Fails : \A j \in Fails : size <= j
    <3>1. Fails \in SUBSET Nat
      BY <1>1
    <3>2. QED
      BY <3>1, LeastOf, Zenon
  <2>2. size \in 1..n /\ ~Finds(size) /\ \A j \in 1..size - 1 : Finds(j)
    BY <1>1, <2>1
  <2>3. b[size] = Halving(b, size, ipa)
    BY <1>2, <2>2, Zenon
  <2> SUFFICES ASSUME NEW low \in 1..n, low + size <= n + 1
               PROVE  /\ b[size][low] \in low..low + size - 1
                      /\ \A i \in low..low + size - 1 :
                             Compare(regions[i], ipa) = "Equal" => b[size][low] = i
    BY <2>2 DEF Finds
  <2>4. CASE size = 1
    BY <2>3, <2>4 DEF Halving
  <2>5. CASE size # 1
    <3> DEFINE half == size \div 2
               middle == low + half
               next == IF Compare(regions[middle], ipa) = "Greater" THEN low ELSE middle
               rest == size - half
    <3>1. /\ half \in Int /\ rest \in 1..size - 1 /\ half <= rest
          /\ size = half + rest /\ middle \in 1..n /\ middle = low + half
          /\ low <= middle /\ size \in Int
      BY <1>1, <2>2, <2>5
    <3>2. b[size][low] = b[rest][next]
      BY <2>3, <2>5 DEF Halving
    <3> HIDE DEF half, middle, rest
    <3>3. next \in 1..n /\ next + rest <= n + 1 /\ low <= next /\ next + rest <= low + size
      BY <1>1, <3>1
    <3>4. ASSUME NEW i \in low..low + size - 1, Compare(regions[i], ipa) = "Equal"
          PROVE  i \in next..next + rest - 1
      <4>1. i \in 1..n /\ regions[i].base_ipa <= ipa /\ ipa < regions[i].end_ipa
        BY <1>1, <1>3, <3>4
      <4>2. CASE Compare(regions[middle], ipa) = "Greater"
        <5>1. ipa < regions[middle].base_ipa
          BY <1>3, <3>1, <4>2
        <5>2. ~(middle < i) /\ middle # i
          <6>1. /\ regions[middle].base_ipa \in Int /\ regions[middle].end_ipa \in Int
                /\ regions[middle].base_ipa < regions[middle].end_ipa
            BY <1>3, <3>1
          <6>2. regions[i].base_ipa \in Int /\ ipa \in Int
            BY <1>3, <4>1, U64Int
          <6>3. ~(regions[middle].end_ipa <= regions[i].base_ipa)
            BY <4>1, <5>1, <6>1, <6>2
          <6>4. ~(middle < i)
            BY <1>4, <3>1, <4>1, <6>3
          <6>5. middle # i
            BY <4>1, <5>1, <6>2
          <6> QED
            BY <6>4, <6>5
        <5>3. next = low
          BY <4>2
        <5> HIDE DEF n, next
        <5>4. low \in Int /\ i \in Int /\ low <= i /\ i <= low + size - 1
          BY <1>1, <3>1
        <5>5. QED
          BY <3>1, <5>2, <5>3, <5>4
      <4>3. CASE Compare(regions[middle], ipa) # "Greater"
        <5>1. ~(ipa < regions[middle].base_ipa)
          BY <1>3, <3>1, <4>3
        <5>2. ~(i < middle)
          <6>1. regions[middle].base_ipa \in Int /\ regions[i].end_ipa \in Int /\ ipa \in Int
            BY <1>3, <3>1, <4>1, U64Int
          <6>2. ~(regions[i].end_ipa <= regions[middle].base_ipa)
            BY <4>1, <5>1, <6>1
          <6> QED
            BY <1>4, <3>1, <4>1, <6>2
        <5>3. next = middle
          BY <4>3
        <5> HIDE DEF n, next
        <5>4. low \in Int /\ i \in Int /\ low <= i /\ i <= low + size - 1
          BY <1>1, <3>1
        <5>5. QED
          BY <3>1, <5>2, <5>3, <5>4
      <4>4. QED
        BY <4>2, <4>3
    <3>5. /\ b[rest][next] \in next..next + rest - 1
          /\ \A i \in next..next + rest - 1 :
                 Compare(regions[i], ipa) = "Equal" => b[rest][next] = i
      BY <2>2, <3>1, <3>3 DEF Finds
    <3> HIDE DEF next
    <3>6. b[size][low] \in low..low + size - 1
      BY <2>2, <3>1, <3>2, <3>3, <3>5
    <3>7. QED
      BY <3>2, <3>4, <3>5, <3>6
  <2>6. QED
    BY <2>4, <2>5
<1>6. Finds(n)
  <2> HIDE DEF Finds
  <2>1. QED
    BY <1>1, <1>5
<1>7. /\ b[n][1] \in 1..1 + n - 1
      /\ \A i \in 1..1 + n - 1 : Compare(regions[i], ipa) = "Equal" => b[n][1] = i
  <2>1. 1 \in 1..n /\ 1 + n <= n + 1
    BY <1>1
  <2>2. QED
    BY <1>6, <2>1
<1>8. 1..1 + n - 1 = 1..n
  BY <1>1
<1>9. QED
  BY <1>2, <1>7, <1>8

\* Two overlapping ranges share a page: the later of their bases.
LEMMA OverlapPage ==
    ASSUME NEW r, NEW s, WellFormed(r), WellFormed(s), page_ranges_overlap(r, s)
    PROVE  \E p \in Pages : p \in PagesIn(r) /\ p \in PagesIn(s)
<1>1. CASE r.base_ipa <= s.base_ipa
  BY <1>1, Stage2Assumption DEF page_ranges_overlap, WellFormed, Pages, U64, PagesIn
<1>2. CASE ~(r.base_ipa <= s.base_ipa)
  BY <1>2, Stage2Assumption DEF page_ranges_overlap, WellFormed, Pages, U64, PagesIn
<1>3. QED
  BY <1>1, <1>2

\* Disjoint ranges share no page.
LEMMA DisjointPages ==
    ASSUME NEW r, NEW s, WellFormed(r), WellFormed(s), Disjoint(r, s), NEW p \in PagesIn(r)
    PROVE  p \notin PagesIn(s)
BY Stage2Assumption DEF Disjoint, WellFormed, Pages, U64, PagesIn

\* What validate_range() lets through.
LEMMA Validated ==
    ASSUME NEW base \in U64, NEW size \in U64, validate_range(base, size) = "Ok"
    PROVE  /\ WellFormed(Stage2Range(base, size))
           /\ Stage2Range(base, size) \in Range2
<1>1. base % PAGE_SIZE = 0 /\ size # 0 /\ ~checked_range_end_overflows(base, size)
  BY DEF validate_range
<1>2. base + size \in U64 /\ base < base + size
  BY <1>1, Stage2Assumption DEF U64, checked_range_end_overflows
<1>3. QED
  BY <1>1, <1>2 DEF WellFormed, Stage2Range, Range2, Pages

\* The results of the two calls are among those of Stage2ConfigError.
LEMMA ResultTypes ==
    ASSUME NEW base \in U64, NEW size \in U64
    PROVE  /\ AllowResult(base, size) \in Errors \cup {"Ok"}
           /\ HandleResult(base, size) \in Errors \cup {"Ok"}
<1>1. validate_range(base, size) \in Errors \cup {"Ok"}
  BY DEF validate_range, Errors
<1>2. QED
  BY <1>1 DEF AllowResult, HandleResult, Errors

\* A range allow_range() accepts is well-formed and meets nothing.
LEMMA AllowAccepted ==
    ASSUME TypeOK, AllowedInv, RegistryInv, NEW base \in U64, NEW size \in U64,
           AllowResult(base, size) = "Ok"
    PROVE  LET r == Stage2Range(base, size) IN
           /\ WellFormed(r) /\ r \in Range2
           /\ Len(allowed) < MAX_ALLOWED_RANGES
           /\ \A i \in DOMAIN allowed : Disjoint(r, allowed[i])
           /\ \A i \in DOMAIN regions : Disjoint(r, regions[i])
<1> DEFINE r == Stage2Range(base, size)
<1>1. validate_range(base, size) = "Ok"
  BY DEF AllowResult
<1>2. ~(Len(allowed) >= MAX_ALLOWED_RANGES) /\ ~Overlaps(r, allowed) /\ ~Overlaps(r, regions)
  BY <1>1 DEF AllowResult
<1>3. WellFormed(r) /\ r \in Range2
  BY <1>1, Validated
<1>4. Len(allowed) < MAX_ALLOWED_RANGES
  BY <1>2, Stage2Assumption DEF TypeOK
<1>5. QED
  BY <1>2, <1>3, <1>4, OverlapExact DEF Overlaps, AllowedInv, RegistryInv, Sorted

\* The same for handle_range().
LEMMA HandleAccepted ==
    ASSUME TypeOK, AllowedInv, RegistryInv, NEW base \in U64, NEW size \in U64,
           HandleResult(base, size) = "Ok"
    PROVE  LET r == Stage2Range(base, size) IN
           /\ WellFormed(r) /\ r \in Range2
           /\ Len(regions) < MAX_MEMORY_ACCESS_HANDLERS
           /\ \A i \in DOMAIN allowed : Disjoint(r, allowed[i])
           /\ \A i \in DOMAIN regions : Disjoint(r, regions[i])
<1> DEFINE r == Stage2Range(base, size)
<1>1. validate_range(base, size) = "Ok"
  BY DEF HandleResult
<1>2. /\ ~(Len(regions) >= MAX_MEMORY_ACCESS_HANDLERS)
      /\ ~Overlaps(r, allowed) /\ ~Overlaps(r, regions)
  BY <1>1 DEF HandleResult
<1>3. WellFormed(r) /\ r \in Range2
  BY <1>1, Validated
<1>4. Len(regions) < MAX_MEMORY_ACCESS_HANDLERS
  BY <1>2, Stage2Assumption DEF TypeOK
<1>5. QED
  BY <1>2, <1>3, <1>4, OverlapExact DEF Overlaps, AllowedInv, RegistryInv, Sorted

\* What a call of allow_range() changes: an accepted one maps, tracks and
\* records its range, a refused one nothing, map_range()'s refusal included.
LEMMA AllowRangeEffect ==
    ASSUME NEW base \in U64, NEW size \in U64, NEW a, AllowRange(base, size, a)
    PROVE  LET r == Stage2Range(base, size) IN
           /\ phase = "configuring" /\ UNCHANGED <<regions, phase>>
           /\ result' = AllowResult(base, size)
           /\ AllowResult(base, size) = "Ok" =>
                 /\ idmap' = [p \in Pages |-> IF p \in PagesIn(r) THEN a ELSE idmap[p]]
                 /\ allowed' = Append(allowed, r)
                 /\ granted' = granted \cup {[base |-> base, end |-> r.end_ipa, use |-> a]}
           /\ AllowResult(base, size) # "Ok" => UNCHANGED <<idmap, allowed, granted>>
<1> DEFINE r == Stage2Range(base, size)
<1>1. /\ phase = "configuring" /\ UNCHANGED <<regions, phase>>
      /\ result' = AllowResult(base, size)
      /\ idmap' = IF result' \in {"MapRange", "Ok"} THEN map_range(r, a) ELSE idmap
      /\ allowed' = IF result' = "Ok" THEN Append(allowed, r) ELSE allowed
      /\ Answered(base, size, a)
  BY Zenon DEF AllowRange
<1>2. r.end_ipa = base + size
  BY DEF Stage2Range
<1>3. validate_range(base, size) # "MapRange"
  BY DEF validate_range
<1> HIDE DEF r
<1>4. AllowResult(base, size) = "Ok" => ~map_range_fails(r)
  BY DEF AllowResult, r
<1>5. AllowResult(base, size) = "MapRange" => map_range_fails(r)
  BY <1>3 DEF AllowResult, r
<1>6. AllowResult(base, size) = "Ok" =>
         idmap' = [p \in Pages |-> IF p \in PagesIn(r) THEN a ELSE idmap[p]]
  BY <1>1, <1>4, Zenon DEF map_range
<1>7. AllowResult(base, size) # "Ok" => idmap' = idmap
  BY <1>1, <1>5, Zenon DEF map_range
<1>8. QED
  BY <1>1, <1>2, <1>6, <1>7, Zenon DEF Answered, r

\* The same for handle_range().
LEMMA HandleRangeEffect ==
    ASSUME NEW base \in U64, NEW size \in U64, NEW h, HandleRange(base, size, h)
    PROVE  LET r == Stage2Range(base, size) IN
           /\ phase = "configuring" /\ UNCHANGED <<idmap, allowed, phase>>
           /\ result' = HandleResult(base, size)
           /\ HandleResult(base, size) = "Ok" =>
                 /\ regions' = InsertRegion(PartitionPoint(base),
                        [base_ipa |-> base, size |-> size, end_ipa |-> r.end_ipa,
                         handler |-> h])
                 /\ granted' = granted \cup {[base |-> base, end |-> r.end_ipa, use |-> h]}
           /\ HandleResult(base, size) # "Ok" => UNCHANGED <<regions, granted>>
<1>1. Stage2Range(base, size).end_ipa = base + size
  BY DEF Stage2Range
<1>2. QED
  BY <1>1, Zenon DEF HandleRange, Answered

\* The end of an accepted range is a page boundary.
LEMMA AcceptedEnd ==
    ASSUME NEW base \in U64, NEW size \in U64,
           AllowResult(base, size) = "Ok" \/ HandleResult(base, size) = "Ok"
    PROVE  Stage2Range(base, size).end_ipa % PAGE_SIZE = 0
<1>1. validate_range(base, size) = "Ok"
  BY DEF AllowResult, HandleResult
<1>2. base % PAGE_SIZE = 0 /\ size % PAGE_SIZE = 0
  BY <1>1 DEF validate_range
<1>3. PAGE_SIZE \in Nat \ {0} /\ base \in Nat /\ size \in Nat
  BY Stage2Assumption DEF U64
<1>4. (base + size) % PAGE_SIZE = 0
  BY <1>2, <1>3, SumOfMultiples
<1>5. QED
  BY <1>4 DEF Stage2Range

\* In a sorted registry, partition_point() finds the place of a new region:
\* what is before it ends below the region, what is after it starts above.
LEMMA PartitionPointEffect ==
    ASSUME TypeOK, RegistryInv, NEW r, WellFormed(r),
           \A i \in DOMAIN regions : Disjoint(r, regions[i])
    PROVE  LET k == PartitionPoint(r.base_ipa) IN
           /\ k \in 1..Len(regions) + 1
           /\ \A i \in 1..Len(regions) : i < k => regions[i].end_ipa <= r.base_ipa
           /\ \A i \in 1..Len(regions) : i >= k => r.end_ipa <= regions[i].base_ipa
<1> DEFINE n == Len(regions)
           Below(i) == regions[i].base_ipa < r.base_ipa
           Point(k) == \A i \in 1..n : Below(i) <=> i < k
<1>1. n \in Nat /\ DOMAIN regions = 1..n
  BY DEF TypeOK
<1>2. ASSUME NEW i \in 1..n, NEW j \in 1..n, i < j
      PROVE  regions[i].base_ipa < regions[j].base_ipa
  <2>1. WellFormed(regions[i]) /\ WellFormed(regions[j])
    BY <1>1 DEF RegistryInv, Sorted
  <2>2. regions[i].end_ipa <= regions[j].base_ipa
    BY <1>1, <1>2 DEF RegistryInv, Sorted
  <2>3. QED
    BY <2>1, <2>2, WellFormedEnds
<1>3. \E k \in 1..n + 1 : Point(k)
  <2> DEFINE Above == {i \in 1..n : ~Below(i)}
  <2>1. CASE Above = {}
    <3>1. Point(n + 1)
      BY <1>1, <2>1
    <3>2. QED
      BY <1>1, <3>1
  <2>2. CASE Above # {}
    <3>1. PICK k \in Above : \A j \in Above : k <= j
      <4>1. Above \in SUBSET Nat
        BY <1>1
      <4>2. QED
        BY <2>2, <4>1, LeastOf, Zenon
    <3>2. \A i \in 1..n : i < k => Below(i)
      BY <1>1, <3>1
    <3>3. \A i \in 1..n : k <= i => ~Below(i)
      BY <1>1, <1>2, <3>1, Stage2Assumption DEF RegistryInv, Sorted, WellFormed, Pages, U64
    <3>4. Point(k)
      BY <1>1, <3>1, <3>2, <3>3
    <3>5. QED
      BY <1>1, <3>1, <3>4
  <2>3. QED
    BY <2>1, <2>2
<1> DEFINE k == PartitionPoint(r.base_ipa)
<1>4. k \in 1..n + 1 /\ Point(k)
  BY <1>3 DEF PartitionPoint
<1>5. ASSUME NEW i \in 1..n, i < k
      PROVE  regions[i].end_ipa <= r.base_ipa
  <2>1. WellFormed(regions[i]) /\ Disjoint(r, regions[i]) /\ WellFormed(r)
    BY <1>1, <1>5 DEF RegistryInv, Sorted
  <2>2. regions[i].base_ipa < r.base_ipa
    BY <1>4, <1>5
  <2>3. QED
    BY <2>1, <2>2, WellFormedEnds DEF Disjoint
<1>6. ASSUME NEW i \in 1..n, i >= k
      PROVE  r.end_ipa <= regions[i].base_ipa
  <2>1. WellFormed(regions[i]) /\ Disjoint(r, regions[i]) /\ WellFormed(r)
    BY <1>1, <1>6 DEF RegistryInv, Sorted
  <2>2. ~(regions[i].base_ipa < r.base_ipa)
    BY <1>4, <1>6
  <2>3. QED
    BY <2>1, <2>2, WellFormedEnds DEF Disjoint
<1>7. QED
  BY <1>4, <1>5, <1>6

-----------------------------------------------------------------------------
\* Stage2Builder::new() starts from empty tables.
LEMMA InitInv == Init => IInv
<1> SUFFICES ASSUME Init
             PROVE  IInv
  OBVIOUS
<1>1. TypeOK
  BY Stage2Assumption DEF Init, TypeOK
<1>2. DOMAIN allowed = {} /\ DOMAIN regions = {} /\ granted = {}
  BY DEF Init
<1>3. AllowedInv /\ RegistryInv /\ ApartInv /\ GrantInv
  BY <1>2 DEF Init, AllowedInv, RegistryInv, Sorted, ApartInv, GrantInv
<1>4. QED
  BY <1>1, <1>3 DEF IInv

\* A step that leaves the tables and the page table alone keeps the invariant.
LEMMA TablesUnchanged ==
    ASSUME IInv, UNCHANGED <<idmap, regions, allowed, granted>>,
           phase' \in {"configuring", "built", "panic"}, result' \in Errors \cup {"Ok"}
    PROVE  IInv'
<1>1. TypeOK'
  BY DEF IInv, TypeOK
<1>2. AllowedInv' /\ RegistryInv' /\ ApartInv' /\ GrantInv'
  BY DEF IInv, AllowedInv, RegistryInv, Sorted, ApartInv, Asked, GrantInv, InForce
<1>3. QED
  BY <1>1, <1>2 DEF IInv

\* allow_range() keeps the tables apart and maps what it tracks.
LEMMA AllowRangeInv ==
    ASSUME IInv, NEW base \in U64, NEW size \in U64, NEW a \in Attributes,
           AllowRange(base, size, a)
    PROVE  IInv'
<1> DEFINE r == Stage2Range(base, size)
<1>1. CASE AllowResult(base, size) # "Ok"
  <2>1. /\ UNCHANGED <<idmap, regions, allowed, granted, phase>>
        /\ result' \in Errors \cup {"Ok"}
    BY <1>1, AllowRangeEffect, ResultTypes, Zenon
  <2>2. QED
    BY <2>1, TablesUnchanged, Zenon DEF IInv, TypeOK
<1>2. CASE AllowResult(base, size) = "Ok"
  <2>1. /\ WellFormed(r) /\ r \in Range2
        /\ Len(allowed) < MAX_ALLOWED_RANGES
        /\ \A i \in DOMAIN allowed : Disjoint(r, allowed[i])
        /\ \A i \in DOMAIN regions : Disjoint(r, regions[i])
    BY <1>2, AllowAccepted DEF IInv
  <2>2. /\ idmap' = [p \in Pages |-> IF p \in PagesIn(r) THEN a ELSE idmap[p]]
        /\ allowed' = Append(allowed, r)
        /\ granted' = granted \cup {[base |-> base, end |-> r.end_ipa, use |-> a]}
        /\ result' = "Ok" /\ UNCHANGED <<regions, phase>>
    BY <1>2, AllowRangeEffect
  <2>3. r.base_ipa = base
    BY DEF Stage2Range
  <2> HIDE DEF r
  <2>4. /\ Len(allowed) \in Nat /\ DOMAIN allowed = 1..Len(allowed)
        /\ DOMAIN allowed' = 1..Len(allowed) + 1
        /\ allowed'[Len(allowed) + 1] = r
        /\ \A i \in 1..Len(allowed) : allowed'[i] = allowed[i]
    BY <2>1, <2>2 DEF IInv, TypeOK
  <2>5. Asked(r, granted') /\ \A s : Asked(s, granted) => Asked(s, granted')
    <3> DEFINE g == [base |-> base, end |-> r.end_ipa, use |-> a]
    <3>1. g.base = r.base_ipa /\ g.end = r.end_ipa /\ g \in granted'
      BY <2>2, <2>3
    <3> HIDE DEF g
    <3>2. granted \subseteq granted'
      BY <2>2
    <3>3. QED
      BY <3>1, <3>2 DEF Asked
  <2>6. TypeOK'
    <3>1. idmap' \in [Pages -> Attributes \cup {Unused}]
      BY <2>2 DEF IInv, TypeOK
    <3>2. allowed' \in Seq(Range2) /\ Len(allowed') <= MAX_ALLOWED_RANGES
      BY <2>1, <2>2, Stage2Assumption DEF IInv, TypeOK
    <3>3. granted' \subseteq Grants
      BY <2>1, <2>2 DEF IInv, TypeOK, Grants, WellFormed
    <3>4. QED
      BY <2>2, <3>1, <3>2, <3>3 DEF IInv, TypeOK
  <2>7. AllowedInv'
    <3>1. \A i \in DOMAIN allowed' : WellFormed(allowed'[i]) /\ Asked(allowed'[i], granted')
      BY <2>1, <2>4, <2>5 DEF IInv, AllowedInv
    <3>2. ASSUME NEW p \in Pages
          PROVE  idmap'[p] # Unused <=> \E i \in DOMAIN allowed' : p \in PagesIn(allowed'[i])
      <4>1. CASE p \in PagesIn(r)
        BY <2>2, <2>4, <4>1, Stage2Assumption
      <4>2. CASE p \notin PagesIn(r)
        <5>1. idmap'[p] = idmap[p]
          BY <2>2, <4>2
        <5>2. (\E i \in DOMAIN allowed' : p \in PagesIn(allowed'[i]))
                <=> \E i \in DOMAIN allowed : p \in PagesIn(allowed[i])
          BY <2>4, <4>2
        <5>3. QED
          BY <5>1, <5>2 DEF IInv, AllowedInv
      <4>3. QED
        BY <4>1, <4>2
    <3>3. QED
      BY <3>1, <3>2 DEF AllowedInv
  <2>8. RegistryInv'
    BY <2>2, <2>5 DEF IInv, RegistryInv, Sorted
  <2>9. ApartInv'
    BY <2>1, <2>2, <2>4 DEF IInv, ApartInv
  <2>10. GrantInv'
    <3> DEFINE new == [base |-> base, end |-> r.end_ipa, use |-> a]
    <3>1. new.base = r.base_ipa /\ new.end = r.end_ipa /\ new.use = a /\ granted' = granted \cup {new}
      BY <2>2, <2>3
    <3>2. r.end_ipa % PAGE_SIZE = 0
      BY <1>2, AcceptedEnd DEF r
    <3> HIDE DEF new
    <3>3. InForce(new)'
      <4>1. Len(allowed) + 1 \in DOMAIN allowed'
        BY <2>4
      <4>2. \A p \in Pages : new.base <= p /\ p < new.end => idmap'[p] = new.use
        BY <2>2, <3>1 DEF PagesIn
      <4>3. QED
        BY <2>4, <3>1, <4>1, <4>2 DEF InForce
    <3>4. ASSUME NEW g \in granted
          PROVE  InForce(g)' /\ (g.end <= new.base \/ new.end <= g.base)
      <4>1. InForce(g)
        BY DEF IInv, GrantInv
      <4>2. CASE /\ g.use \in Attributes
                 /\ \E i \in DOMAIN allowed :
                       allowed[i].base_ipa = g.base /\ allowed[i].end_ipa = g.end
                 /\ \A p \in Pages : g.base <= p /\ p < g.end => idmap[p] = g.use
        <5>1. PICK i \in DOMAIN allowed :
                 allowed[i].base_ipa = g.base /\ allowed[i].end_ipa = g.end
          BY <4>2
        <5>2. i \in DOMAIN allowed' /\ allowed'[i] = allowed[i]
          BY <2>4
        <5>3. WellFormed(allowed[i]) /\ Disjoint(r, allowed[i])
          BY <2>1 DEF IInv, AllowedInv
        <5>4. ASSUME NEW p \in Pages, g.base <= p, p < g.end
              PROVE  idmap'[p] = g.use
          <6>1. p \in PagesIn(allowed[i])
            BY <5>1, <5>4 DEF PagesIn
          <6>2. p \notin PagesIn(r)
            BY <2>1, <5>3, <6>1, DisjointPages
          <6>3. QED
            BY <2>2, <4>2, <5>4, <6>2
        <5>5. QED
          BY <3>1, <4>2, <5>1, <5>2, <5>3, <5>4 DEF InForce, Disjoint
      <4>3. CASE \E i \in DOMAIN regions :
                   /\ regions[i].base_ipa = g.base /\ regions[i].end_ipa = g.end
                   /\ regions[i].handler = g.use
        BY <2>1, <2>2, <3>1, <4>3 DEF InForce, Disjoint
      <4>4. QED
        BY <4>1, <4>2, <4>3 DEF InForce
    <3>5. QED
      BY <2>1, <3>1, <3>2, <3>3, <3>4 DEF IInv, GrantInv, WellFormed
  <2>11. QED
    BY <2>6, <2>7, <2>8, <2>9, <2>10 DEF IInv
<1>3. QED
  BY <1>1, <1>2

\* regions.insert(k, region): the entries of the new registry.
LEMMA InsertRegionEffect ==
    ASSUME TypeOK, NEW k \in 1..Len(regions) + 1, NEW region \in Region
    PROVE  LET s == InsertRegion(k, region) IN
           /\ s \in Seq(Region) /\ Len(s) = Len(regions) + 1
           /\ DOMAIN s = 1..Len(regions) + 1
           /\ s[k] = region
           /\ \A i \in 1..Len(regions) : i < k => s[i] = regions[i]
           /\ \A i \in 1..Len(regions) : i >= k => s[i + 1] = regions[i]
           /\ \A j \in 1..Len(regions) + 1 :
                 \/ j = k
                 \/ j < k /\ j \in 1..Len(regions)
                 \/ j > k /\ j - 1 \in 1..Len(regions) /\ s[j] = regions[j - 1]
<1> DEFINE n == Len(regions)
           s == InsertRegion(k, region)
<1>1. n \in Nat /\ regions \in [1..n -> Region] /\ k \in 1..n + 1
  BY DEF TypeOK
<1>2. s = [i \in 1..n + 1 |->
              IF i < k THEN regions[i] ELSE IF i = k THEN region ELSE regions[i - 1]]
  BY DEF InsertRegion
<1> HIDE DEF n, s
<1>3. ASSUME NEW j \in 1..n + 1
      PROVE  \/ j = k /\ s[j] = region
             \/ j < k /\ j \in 1..n /\ s[j] = regions[j]
             \/ j > k /\ j - 1 \in 1..n /\ s[j] = regions[j - 1]
  BY <1>1, <1>2
<1>4. \A j \in 1..n + 1 : s[j] \in Region
  BY <1>1, <1>3
<1>5. s \in [1..n + 1 -> Region]
  BY <1>2, <1>4
<1>6. s \in Seq(Region) /\ Len(s) = n + 1 /\ DOMAIN s = 1..n + 1
  BY <1>1, <1>2, <1>5
<1>7. s[k] = region
  BY <1>1, <1>2
<1>8. /\ \A i \in 1..n : i < k => s[i] = regions[i]
      /\ \A i \in 1..n : i >= k => s[i + 1] = regions[i]
  BY <1>1, <1>2
<1>9. QED
  BY <1>3, <1>6, <1>7, <1>8 DEF n, s

\* handle_range() keeps the registry sorted and apart from the page table.
LEMMA HandleRangeInv ==
    ASSUME IInv, NEW base \in U64, NEW size \in U64, NEW h \in Handlers,
           HandleRange(base, size, h)
    PROVE  IInv'
<1> DEFINE r == Stage2Range(base, size)
<1>1. CASE HandleResult(base, size) # "Ok"
  <2>1. /\ UNCHANGED <<idmap, regions, allowed, granted, phase>>
        /\ result' \in Errors \cup {"Ok"}
    BY <1>1, HandleRangeEffect, ResultTypes, Zenon
  <2>2. QED
    BY <2>1, TablesUnchanged, Zenon DEF IInv, TypeOK
<1>2. CASE HandleResult(base, size) = "Ok"
  <2> DEFINE region == [base_ipa |-> base, size |-> size, end_ipa |-> r.end_ipa,
                        handler |-> h]
             n == Len(regions)
  <2>1. /\ WellFormed(r) /\ r \in Range2
        /\ n < MAX_MEMORY_ACCESS_HANDLERS
        /\ \A i \in DOMAIN allowed : Disjoint(r, allowed[i])
        /\ \A i \in DOMAIN regions : Disjoint(r, regions[i])
    BY <1>2, HandleAccepted DEF IInv
  <2>2. r.base_ipa = base
    BY DEF Stage2Range
  <2>3. PICK k \in 1..n + 1 :
          /\ k = PartitionPoint(base)
          /\ \A i \in 1..n : i < k => regions[i].end_ipa <= base
          /\ \A i \in 1..n : i >= k => r.end_ipa <= regions[i].base_ipa
    BY <2>1, <2>2, PartitionPointEffect DEF IInv
  <2>4. /\ regions' = InsertRegion(k, region)
        /\ granted' = granted \cup {[base |-> base, end |-> r.end_ipa, use |-> h]}
        /\ result' = "Ok" /\ UNCHANGED <<idmap, allowed, phase>>
    BY <1>2, <2>3, HandleRangeEffect, Zenon
  <2>5. region \in Region /\ WellFormed(region)
    BY <2>1, <2>2 DEF Region, WellFormed
  <2>6. /\ region.base_ipa = base /\ region.end_ipa = r.end_ipa /\ region.handler = h
        /\ region.end_ipa = region.base_ipa + region.size
    BY DEF Stage2Range
  <2> HIDE DEF r, region
  <2>7. /\ regions' \in Seq(Region) /\ Len(regions') = n + 1
        /\ DOMAIN regions' = 1..n + 1
        /\ regions'[k] = region
        /\ \A i \in 1..n : i < k => regions'[i] = regions[i]
        /\ \A i \in 1..n : i >= k => regions'[i + 1] = regions[i]
        /\ \A j \in 1..n + 1 :
              \/ j = k
              \/ j < k /\ j \in 1..n
              \/ j > k /\ j - 1 \in 1..n /\ regions'[j] = regions[j - 1]
    <3>1. TypeOK /\ k \in 1..Len(regions) + 1
      BY DEF IInv
    <3> DEFINE s == InsertRegion(k, region)
    <3>2. /\ s \in Seq(Region) /\ Len(s) = n + 1
          /\ DOMAIN s = 1..n + 1
          /\ s[k] = region
          /\ \A i \in 1..n : i < k => s[i] = regions[i]
          /\ \A i \in 1..n : i >= k => s[i + 1] = regions[i]
          /\ \A j \in 1..n + 1 :
                \/ j = k
                \/ j < k /\ j \in 1..n
                \/ j > k /\ j - 1 \in 1..n /\ s[j] = regions[j - 1]
      BY <2>5, <3>1, InsertRegionEffect, ZenonT(40)
    <3> HIDE DEF n, s
    <3>3. QED
      BY <2>4, <3>2 DEF s
  <2>8. n \in Nat /\ DOMAIN regions = 1..n
    BY DEF IInv, TypeOK
  <2>9. Asked(region, granted') /\ \A s : Asked(s, granted) => Asked(s, granted')
    <3> DEFINE g == [base |-> base, end |-> r.end_ipa, use |-> h]
    <3>1. g.base = region.base_ipa /\ g.end = region.end_ipa /\ g \in granted'
      BY <2>4, <2>6
    <3> HIDE DEF g
    <3>2. granted \subseteq granted'
      BY <2>4
    <3>3. QED
      BY <3>1, <3>2 DEF Asked
  <2>10. TypeOK'
    <3>1. granted' \subseteq Grants
      BY <2>1, <2>4 DEF IInv, TypeOK, Grants, WellFormed
    <3>2. Len(regions') <= MAX_MEMORY_ACCESS_HANDLERS
      BY <2>1, <2>7, <2>8, Stage2Assumption
    <3>3. QED
      BY <2>4, <2>7, <3>1, <3>2 DEF IInv, TypeOK
  <2>11. AllowedInv'
    BY <2>4, <2>9 DEF IInv, AllowedInv
  <2>12. RegistryInv'
    <3>1. ASSUME NEW j \in DOMAIN regions'
          PROVE  /\ WellFormed(regions'[j]) /\ Asked(regions'[j], granted')
                 /\ regions'[j].end_ipa = regions'[j].base_ipa + regions'[j].size
      <4>1. CASE regions'[j] = region
        BY <2>5, <2>6, <2>9, <4>1
      <4>2. CASE \E i \in DOMAIN regions : regions'[j] = regions[i]
        BY <2>9, <4>2 DEF IInv, RegistryInv, Sorted
      <4>3. QED
        BY <2>7, <2>8, <4>1, <4>2
    <3>2. ASSUME NEW i \in DOMAIN regions', NEW j \in DOMAIN regions', i < j
          PROVE  regions'[i].end_ipa <= regions'[j].base_ipa
      <4>1. i \in 1..n + 1 /\ j \in 1..n + 1
        BY <2>7
      <4> HIDE DEF n
      <4>8. ASSUME NEW x \in 1..n + 1, x > k
            PROVE  regions'[x] = regions[x - 1]
        <5>1. \/ x = k
              \/ x < k /\ x \in 1..n
              \/ x > k /\ x - 1 \in 1..n /\ regions'[x] = regions[x - 1]
          BY <2>7
        <5> QED
          BY <2>8, <4>8, <5>1
      <4>9. regions'[k] = region /\ \A x \in 1..n : x < k => regions'[x] = regions[x]
        BY <2>7
      <4>2. CASE j < k
        <5>1. i \in 1..n /\ j \in 1..n /\ i < k
          BY <2>8, <3>2, <4>1, <4>2
        <5>2. regions'[i] = regions[i] /\ regions'[j] = regions[j]
          BY <2>8, <4>2, <4>9, <5>1
        <5>3. QED
          BY <2>8, <3>2, <5>1, <5>2 DEF IInv, RegistryInv, Sorted
      <4>3. CASE j = k
        <5>1. i \in 1..n /\ i < k
          BY <2>8, <3>2, <4>1, <4>3
        <5>2. regions'[i] = regions[i] /\ regions'[j] = region
          BY <4>3, <4>9, <5>1
        <5>3. QED
          BY <2>3, <2>6, <5>1, <5>2
      <4>4. CASE i < k /\ k < j
        <5>2. i \in 1..n /\ i < j - 1 /\ j - 1 \in 1..n
          BY <2>8, <4>1, <4>4
        <5>3. regions'[i] = regions[i] /\ regions'[j] = regions[j - 1]
          BY <4>1, <4>4, <4>8, <4>9, <5>2
        <5>4. QED
          BY <2>8, <5>2, <5>3 DEF IInv, RegistryInv, Sorted
      <4>5. CASE i = k
        <5>1. j > k /\ j - 1 \in 1..n /\ j - 1 >= k
          BY <2>8, <3>2, <4>1, <4>5
        <5>2. regions'[i] = region /\ regions'[j] = regions[j - 1]
          BY <4>1, <4>5, <4>8, <4>9, <5>1
        <5>3. QED
          BY <2>3, <2>6, <5>1, <5>2
      <4>6. CASE k < i
        <5>1. i - 1 \in 1..n /\ j - 1 \in 1..n /\ i - 1 < j - 1 /\ k < j
          BY <2>8, <3>2, <4>1, <4>6
        <5>2. regions'[i] = regions[i - 1] /\ regions'[j] = regions[j - 1]
          BY <4>1, <4>6, <4>8, <5>1
        <5>3. QED
          BY <2>8, <5>1, <5>2 DEF IInv, RegistryInv, Sorted
      <4>7. QED
        BY <2>3, <2>8, <4>1, <4>2, <4>3, <4>4, <4>5, <4>6
    <3>3. QED
      BY <3>1, <3>2 DEF RegistryInv, Sorted
  <2>13. ApartInv'
    <3>1. \A i \in DOMAIN allowed : Disjoint(allowed[i], region)
      BY <2>1, <2>2, <2>6 DEF Disjoint
    <3>2. ASSUME NEW i \in DOMAIN allowed, NEW j \in DOMAIN regions'
          PROVE  Disjoint(allowed[i], regions'[j])
      BY <2>7, <2>8, <3>1 DEF IInv, ApartInv
    <3>3. QED
      BY <2>4, <3>2 DEF ApartInv
  <2>14. GrantInv'
    <3> DEFINE new == [base |-> base, end |-> r.end_ipa, use |-> h]
    <3>1. /\ new.base = region.base_ipa /\ new.end = region.end_ipa /\ new.use = region.handler
          /\ new.base = r.base_ipa /\ new.end = r.end_ipa
          /\ granted' = granted \cup {new}
      BY <2>2, <2>4, <2>6
    <3>2. r.end_ipa % PAGE_SIZE = 0
      BY <1>2, AcceptedEnd DEF r
    <3> HIDE DEF new
    <3>3. InForce(new)'
      BY <2>3, <2>7, <3>1 DEF InForce
    <3>4. ASSUME NEW g \in granted
          PROVE  InForce(g)' /\ (g.end <= new.base \/ new.end <= g.base)
      <4>1. InForce(g)
        BY DEF IInv, GrantInv
      <4>2. CASE /\ g.use \in Attributes
                 /\ \E i \in DOMAIN allowed :
                       allowed[i].base_ipa = g.base /\ allowed[i].end_ipa = g.end
                 /\ \A p \in Pages : g.base <= p /\ p < g.end => idmap[p] = g.use
        BY <2>1, <2>4, <3>1, <4>2 DEF InForce, Disjoint
      <4>3. CASE \E i \in DOMAIN regions :
                   /\ regions[i].base_ipa = g.base /\ regions[i].end_ipa = g.end
                   /\ regions[i].handler = g.use
        <5>1. PICK i \in 1..n :
                 /\ regions[i].base_ipa = g.base /\ regions[i].end_ipa = g.end
                 /\ regions[i].handler = g.use
          BY <2>8, <4>3
        <5>2. \E j \in DOMAIN regions' : regions'[j] = regions[i]
          <6>1. CASE i < k
            BY <2>7, <2>8, <6>1
          <6>2. CASE i >= k
            <7>1. i + 1 \in 1..n + 1 /\ regions'[i + 1] = regions[i]
              BY <2>3, <2>7, <2>8, <6>2
            <7>2. QED
              BY <2>7, <7>1
          <6>3. QED
            BY <2>3, <2>8, <6>1, <6>2
        <5>3. QED
          BY <2>1, <2>8, <3>1, <5>1, <5>2 DEF InForce, Disjoint
      <4>4. QED
        BY <4>1, <4>2, <4>3 DEF InForce
    <3>5. QED
      BY <2>1, <3>1, <3>2, <3>3, <3>4 DEF IInv, GrantInv, WellFormed
  <2>15. QED
    BY <2>10, <2>11, <2>12, <2>13, <2>14 DEF IInv
<1>3. QED
  BY <1>1, <1>2

\* The tables stay disjoint and sorted whatever the platform asks for.
THEOREM Invariance == Spec => []IInv
<1>1. ASSUME IInv, [Next]_vars
      PROVE  IInv'
  <2>1. CASE UNCHANGED vars
    BY <1>1, <2>1, TablesUnchanged DEF vars, IInv, TypeOK
  <2>2. ASSUME NEW base \in U64, NEW size \in U64, NEW a \in Attributes,
               AllowRange(base, size, a)
        PROVE  IInv'
    BY <1>1, <2>2, AllowRangeInv
  <2>3. ASSUME NEW base \in U64, NEW size \in U64, NEW h \in Handlers,
               HandleRange(base, size, h)
        PROVE  IInv'
    BY <1>1, <2>3, HandleRangeInv
  <2>4. CASE Build \/ ConfigurationFails
    BY <1>1, <2>4, TablesUnchanged DEF Build, ConfigurationFails, IInv, TypeOK
  <2>5. QED
    BY <1>1, <2>1, <2>2, <2>3, <2>4 DEF Next, Configured
<1>2. QED
  BY <1>1, InitInv, PTL DEF Spec

\* Type correctness: no index, range or handler is ever ill-formed and neither
\* ArrayVec overflows (its insert() and push() would panic).
THEOREM TypeCorrect == Spec => []TypeOK
<1>1. IInv => TypeOK
  BY DEF IInv
<1>2. QED
  BY <1>1, Invariance, PTL

\* No spurious refusal: the overlap tests of allow_range() and handle_range()
\* refuse only what shares a page with an accepted range.
THEOREM NoSpuriousRefusal == Spec => []FreeRangesAccepted
<1>1. ASSUME IInv
      PROVE  FreeRangesAccepted
  <2> SUFFICES ASSUME NEW base \in Pages, NEW size \in Pages,
                      size > 0, base + size <= U64_MAX,
                      \A g \in granted, p \in Pages :
                          g.base <= p /\ p < g.end =>
                              p \notin PagesIn(Stage2Range(base, size))
               PROVE  /\ (base + size <= MAP_LIMIT /\ Len(allowed) < MAX_ALLOWED_RANGES)
                             => AllowResult(base, size) = "Ok"
                      /\ Len(regions) < MAX_MEMORY_ACCESS_HANDLERS
                             => HandleResult(base, size) = "Ok"
    BY DEF FreeRangesAccepted
  <2> DEFINE r == Stage2Range(base, size)
  <2>1. base \in U64 /\ size \in U64 /\ base % PAGE_SIZE = 0 /\ size % PAGE_SIZE = 0
    BY DEF Pages
  <2>2. ~checked_range_end_overflows(base, size) /\ size # 0
    BY <2>1, Stage2Assumption DEF checked_range_end_overflows, U64
  <2>3. validate_range(base, size) = "Ok"
    BY <2>1, <2>2 DEF validate_range
  <2>4. WellFormed(r)
    BY <2>1, <2>3, Validated
  <2>5. ASSUME NEW s, WellFormed(s), Asked(s, granted)
        PROVE  ~page_ranges_overlap(r, s)
    <3> SUFFICES ASSUME page_ranges_overlap(r, s)
                 PROVE  FALSE
      OBVIOUS
    <3>1. PICK p \in Pages : p \in PagesIn(r) /\ p \in PagesIn(s)
      BY <2>4, <2>5, OverlapPage
    <3>2. PICK g \in granted : g.base = s.base_ipa /\ g.end = s.end_ipa
      BY <2>5 DEF Asked
    <3>3. QED
      BY <3>1, <3>2 DEF PagesIn
  <2>6. ~Overlaps(r, allowed) /\ ~Overlaps(r, regions)
    BY <1>1, <2>5 DEF Overlaps, IInv, AllowedInv, RegistryInv, Sorted
  <2>7. Len(allowed) \in Nat /\ Len(regions) \in Nat
    BY <1>1 DEF IInv, TypeOK
  <2>8. base + size <= MAP_LIMIT => ~map_range_fails(r)
    BY <2>1, Stage2Assumption DEF map_range_fails, Stage2Range, U64
  <2>9. QED
    BY <2>3, <2>6, <2>7, <2>8, Stage2Assumption DEF AllowResult, HandleResult
<1>2. QED
  BY <1>1, Invariance, PTL

-----------------------------------------------------------------------------
\* The page of an address: a page boundary is not above the one just when it is
\* not above the other.
LEMMA PageOf ==
    ASSUME NEW ipa \in U64
    PROVE  LET page == ipa - (ipa % PAGE_SIZE) IN
           /\ page \in Pages
           /\ \A a \in Nat : a % PAGE_SIZE = 0 => (a <= ipa <=> a <= page)
<1> DEFINE page == ipa - (ipa % PAGE_SIZE)
           down == (ipa \div PAGE_SIZE) * PAGE_SIZE
<1>1. PAGE_SIZE \in Nat \ {0} /\ ipa \in Nat /\ ipa <= U64_MAX /\ U64_MAX \in Nat
  BY Stage2Assumption DEF U64
<1>2. page = down
  BY <1>1
<1>3. down \in Nat /\ down % PAGE_SIZE = 0 /\ down <= ipa
  BY <1>1, RoundedDown
<1>4. \A a \in Nat : a % PAGE_SIZE = 0 /\ a <= ipa => a <= down
  BY <1>1, RoundedDownLeast
<1> HIDE DEF page, down
<1>5. page \in Pages
  BY <1>1, <1>2, <1>3 DEF Pages, U64
<1>6. \A a \in Nat : a % PAGE_SIZE = 0 => (a <= ipa <=> a <= page)
  BY <1>1, <1>2, <1>3, <1>4
<1>7. QED
  BY <1>5, <1>6 DEF page

\* find() is exact on a sorted registry: the handler of the region that holds
\* the address, with the offset in it, or none.
THEOREM FindExact ==
    ASSUME regions \in Seq(Region), Sorted, NEW ipa \in U64
    PROVE  /\ \A i \in DOMAIN regions :
                 regions[i].base_ipa <= ipa /\ ipa < regions[i].end_ipa =>
                     find(ipa) = [use |-> regions[i].handler,
                                  offset |-> ipa - regions[i].base_ipa]
           /\ (\A i \in DOMAIN regions :
                  ~(regions[i].base_ipa <= ipa /\ ipa < regions[i].end_ipa)) =>
                     find(ipa) = [use |-> Unused, offset |-> 0]
<1>1. DOMAIN regions = 1..Len(regions) /\ Len(regions) \in Nat
  OBVIOUS
<1>2. CASE Len(regions) = 0
  BY <1>1, <1>2 DEF find
<1>3. CASE Len(regions) # 0
  <2>1. /\ Bisect(ipa) \in DOMAIN regions
        /\ \A i \in DOMAIN regions : Compare(regions[i], ipa) = "Equal" => Bisect(ipa) = i
    BY <1>1, <1>3, BisectFinds
  <2>2. \A i \in DOMAIN regions :
           Compare(regions[i], ipa) = "Equal"
               <=> regions[i].base_ipa <= ipa /\ ipa < regions[i].end_ipa
    BY CompareExact DEF Sorted
  <2>3. QED
    BY <1>3, <2>1, <2>2 DEF find
<1>4. QED
  BY <1>2, <1>3

\* Every guest access is routed as the platform asked: what the invariant says
\* of grants, page table and registry is enough for the walk and the search.
LEMMA RoutedAsGranted ==
    ASSUME IInv
    PROVE  AccessAsGranted
<1> SUFFICES ASSUME NEW ipa \in U64
             PROVE  LET covering == {g \in granted : g.base <= ipa /\ ipa < g.end} IN
                    \/ covering = {} /\ Access(ipa).use = Unused
                    \/ \E g \in covering :
                          /\ covering = {g}
                          /\ Access(ipa).use = g.use
                          /\ g.use \in Handlers => Access(ipa).offset = ipa - g.base
  BY DEF AccessAsGranted
<1> DEFINE covering == {g \in granted : g.base <= ipa /\ ipa < g.end}
           page == ipa - (ipa % PAGE_SIZE)
<1>1. /\ page \in Pages
      /\ \A a \in Nat : a % PAGE_SIZE = 0 => (a <= ipa <=> a <= page)
  BY PageOf
<1>2. Access(ipa) = IF idmap[page] # Unused THEN [use |-> idmap[page], offset |-> 0]
                                           ELSE find(ipa)
  BY DEF Access
<1> HIDE DEF page
<1>3. ipa \in Int /\ page \in Int
  BY <1>1, U64Int DEF Pages
<1>4. ASSUME NEW g \in granted
      PROVE  /\ g.base \in Nat /\ g.end \in Nat /\ g.base < g.end
             /\ (g.base <= ipa /\ ipa < g.end) <=> (g.base <= page /\ page < g.end)
  <2>1. g.base \in Pages /\ g.end % PAGE_SIZE = 0 /\ g.base < g.end /\ g \in Grants
    BY DEF IInv, GrantInv, TypeOK
  <2>2. g.base \in Nat /\ g.end \in Nat /\ g.base % PAGE_SIZE = 0
    BY <2>1, Stage2Assumption DEF Pages, Grants, U64
  <2>3. QED
    BY <1>1, <1>3, <2>1, <2>2
<1>5. ASSUME idmap[page] # Unused
      PROVE  \E i \in DOMAIN allowed : allowed[i].base_ipa <= page /\ page < allowed[i].end_ipa
  BY <1>1, <1>5 DEF IInv, AllowedInv, PagesIn
<1>6. regions \in Seq(Region) /\ Sorted
  BY DEF IInv, TypeOK, RegistryInv
<1>7. CASE covering = {}
  <2>1. ASSUME NEW r, Asked(r, granted)
        PROVE  /\ ~(r.base_ipa <= ipa /\ ipa < r.end_ipa)
               /\ ~(r.base_ipa <= page /\ page < r.end_ipa)
    BY <1>4, <1>7, <2>1 DEF Asked
  <2>2. idmap[page] = Unused
    BY <1>5, <2>1 DEF IInv, AllowedInv
  <2>3. find(ipa) = [use |-> Unused, offset |-> 0]
    BY <1>6, <2>1, FindExact DEF IInv, RegistryInv
  <2>4. QED
    BY <1>2, <1>7, <2>2, <2>3
<1>8. CASE covering # {}
  <2>1. PICK g \in granted : g.base <= ipa /\ ipa < g.end
    BY <1>8
  <2>2. ASSUME NEW h \in granted, h.base <= ipa, ipa < h.end
        PROVE  h = g
    <3>1. h # g => g.end <= h.base \/ h.end <= g.base
      BY DEF IInv, GrantInv
    <3>2. QED
      BY <1>3, <1>4, <2>1, <2>2, <3>1
  <2>3. covering = {g}
    BY <2>1, <2>2
  <2>4. g.base <= page /\ page < g.end
    BY <1>4, <2>1
  <2>5. CASE g.use \in Attributes /\ idmap[page] = g.use
    <3>1. g.use # Unused /\ g.use \notin Handlers
      BY <2>5, Stage2Assumption
    <3>2. QED
      BY <1>2, <2>1, <2>3, <2>5, <3>1
  <2>6. CASE \E i \in DOMAIN regions : /\ regions[i].base_ipa = g.base
                                       /\ regions[i].end_ipa = g.end
                                       /\ regions[i].handler = g.use
    <3>1. PICK i \in DOMAIN regions : /\ regions[i].base_ipa = g.base
                                      /\ regions[i].end_ipa = g.end
                                      /\ regions[i].handler = g.use
      BY <2>6
    <3>2. idmap[page] = Unused
      <4>1. SUFFICES ASSUME idmap[page] # Unused
                     PROVE  FALSE
        OBVIOUS
      <4>2. PICK j \in DOMAIN allowed : allowed[j].base_ipa <= page /\ page < allowed[j].end_ipa
        BY <1>5, <4>1
      <4>3. Disjoint(allowed[j], regions[i]) /\ WellFormed(allowed[j])
        BY DEF IInv, ApartInv, AllowedInv
      <4>4. QED
        BY <1>3, <1>4, <2>4, <3>1, <4>2, <4>3, WellFormedEnds DEF Disjoint
    <3>3. find(ipa) = [use |-> g.use, offset |-> ipa - g.base]
      BY <1>6, <2>1, <3>1, FindExact
    <3>4. QED
      BY <1>2, <2>1, <2>3, <3>2, <3>3
  <2>7. QED
    BY <1>1, <2>4, <2>5, <2>6 DEF IInv, GrantInv, InForce
<1>9. QED
  BY <1>7, <1>8

\* Every guest access, to any byte, is routed as the platform asked, whatever it
\* asked for and however large the tables are.
THEOREM AccessesRouted == Spec => []AccessAsGranted
<1>1. IInv => AccessAsGranted
  BY RoutedAsGranted
<1>2. QED
  BY <1>1, Invariance, PTL

-----------------------------------------------------------------------------
\* In a sorted registry an address has one region: the one any search finds.
LEMMA UniqueRegion ==
    ASSUME NEW s, NEW n \in Nat, DOMAIN s = 1..n,
           \A i \in 1..n : WellFormed(s[i]),
           \A i, j \in 1..n : i < j => s[i].end_ipa <= s[j].base_ipa,
           NEW i \in 1..n, NEW p \in PagesIn(s[i])
    PROVE  (CHOOSE j \in DOMAIN s : p \in PagesIn(s[j])) = i
<1>1. ASSUME NEW j \in 1..n, j # i, p \in PagesIn(s[j])
      PROVE  FALSE
  <2>1. Disjoint(s[i], s[j])
    <3>1. CASE i < j
      BY <3>1 DEF Disjoint
    <3>2. CASE j < i
      BY <3>2 DEF Disjoint
    <3>3. QED
      BY <1>1, <3>1, <3>2
  <2>2. QED
    BY <1>1, <2>1, DisjointPages
<1>2. QED
  BY <1>1

\* A page has a use that some call named, or none.
LEMMA UseOfType ==
    ASSUME TypeOK, NEW p \in Pages
    PROVE  UseOf(p) \in Attributes \cup Handlers \cup {Unused}
<1>1. CASE idmap[p] # Unused
  BY <1>1 DEF UseOf, TypeOK
<1>2. CASE idmap[p] = Unused /\ \E i \in DOMAIN regions : p \in PagesIn(regions[i])
  <2> DEFINE i == CHOOSE i \in DOMAIN regions : p \in PagesIn(regions[i])
  <2>1. i \in DOMAIN regions
    BY <1>2
  <2>2. regions[i] \in Region
    BY <2>1 DEF TypeOK
  <2>3. regions[i].handler \in Handlers
    BY <2>2 DEF Region
  <2>4. UseOf(p) = regions[i].handler
    BY <1>2 DEF UseOf
  <2>5. QED
    BY <2>3, <2>4
<1>3. CASE idmap[p] = Unused /\ ~\E i \in DOMAIN regions : p \in PagesIn(regions[i])
  BY <1>3 DEF UseOf
<1>4. QED
  BY <1>1, <1>2, <1>3

\* A step that answers Ok, records the request and gives the pages of its
\* range, which had no use, the use it names, and no other page, is a grant.
LEMMA GrantOfPages ==
    ASSUME NEW request \in Grants, NEW r,
           request.base = r.base_ipa, request.end = r.end_ipa,
           phase = "configuring", UNCHANGED phase, result' = "Ok",
           granted' = granted \cup {request},
           \A p \in PagesIn(r) : UseOf(p) = Unused,
           r.base_ipa \in PagesIn(r),
           \A p \in Pages : UseOf(p)' = IF p \in PagesIn(r) THEN request.use ELSE UseOf(p)
    PROVE  Policy!Next
<1>1. Policy!PagesOf(request) = PagesIn(r)
  BY DEF Policy!PagesOf, PagesIn
<1>2. /\ Policy!PagesOf(request) # {}
      /\ \A p \in Policy!PagesOf(request) : [q \in Pages |-> UseOf(q)][p] = Unused
  BY <1>1 DEF PagesIn
<1>3. [p \in Pages |-> UseOf(p)'] =
        [p \in Pages |-> IF p \in Policy!PagesOf(request) THEN request.use
                                                         ELSE [q \in Pages |-> UseOf(q)][p]]
  BY <1>1
<1>4. Policy!Grant(request)
  BY <1>2, <1>3 DEF Policy!Grant
<1>5. QED
  BY <1>4 DEF Policy!Next

\* The request of a call with a well-formed range, and the range's first page.
LEMMA RequestOfCall ==
    ASSUME NEW base \in U64, NEW size \in U64, NEW use \in Attributes \cup Handlers,
           WellFormed(Stage2Range(base, size))
    PROVE  LET r == Stage2Range(base, size)
               request == [base |-> base, end |-> r.end_ipa, use |-> use] IN
           /\ request \in Grants /\ request.use = use
           /\ request.base = r.base_ipa /\ request.end = r.end_ipa
           /\ r.base_ipa \in PagesIn(r)
  BY DEF Stage2Range, Grants, WellFormed, PagesIn, Pages, U64

\* An accepted allow_range() grants the pages of its range.
LEMMA AllowRangeGrants ==
    ASSUME IInv, NEW base \in U64, NEW size \in U64, NEW a \in Attributes,
           AllowRange(base, size, a), AllowResult(base, size) = "Ok"
    PROVE  Policy!Next
<1> DEFINE r == Stage2Range(base, size)
           request == [base |-> base, end |-> r.end_ipa, use |-> a]
<1>1. /\ WellFormed(r)
      /\ \A i \in DOMAIN allowed : Disjoint(r, allowed[i])
      /\ \A i \in DOMAIN regions : Disjoint(r, regions[i])
  BY AllowAccepted DEF IInv
<1>2. /\ phase = "configuring"
      /\ idmap' = [p \in Pages |-> IF p \in PagesIn(r) THEN a ELSE idmap[p]]
      /\ granted' = granted \cup {request} /\ result' = "Ok"
      /\ UNCHANGED <<regions, phase>>
  BY AllowRangeEffect
<1>3. /\ request \in Grants /\ request.use = a
      /\ request.base = r.base_ipa /\ request.end = r.end_ipa
      /\ r.base_ipa \in PagesIn(r)
  BY <1>1, RequestOfCall
<1> HIDE DEF r, request
<1>4. ASSUME NEW p \in PagesIn(r)
      PROVE  p \in Pages /\ UseOf(p) = Unused
  <2>1. p \in Pages
    BY DEF PagesIn
  <2>2. \A i \in DOMAIN allowed : p \notin PagesIn(allowed[i])
    BY <1>1, DisjointPages DEF IInv, AllowedInv
  <2>3. \A i \in DOMAIN regions : p \notin PagesIn(regions[i])
    BY <1>1, DisjointPages DEF IInv, RegistryInv, Sorted
  <2>4. QED
    BY <2>1, <2>2, <2>3 DEF UseOf, IInv, AllowedInv
<1>5. ASSUME NEW p \in Pages
      PROVE  UseOf(p)' = IF p \in PagesIn(r) THEN a ELSE UseOf(p)
  <2>1. CASE p \in PagesIn(r)
    BY <1>2, <2>1, Stage2Assumption DEF UseOf
  <2>2. CASE p \notin PagesIn(r)
    BY <1>2, <2>2 DEF UseOf
  <2>3. QED
    BY <2>1, <2>2
<1>6. QED
  BY <1>2, <1>3, <1>4, <1>5, GrantOfPages

\* An accepted handle_range() grants the pages of its range: the regions that
\* move up in the registry keep their handlers.
LEMMA HandleRangeGrants ==
    ASSUME IInv, IInv', NEW base \in U64, NEW size \in U64, NEW h \in Handlers,
           HandleRange(base, size, h), HandleResult(base, size) = "Ok"
    PROVE  Policy!Next
<1> DEFINE r == Stage2Range(base, size)
           region == [base_ipa |-> base, size |-> size, end_ipa |-> r.end_ipa, handler |-> h]
           request == [base |-> base, end |-> r.end_ipa, use |-> h]
           n == Len(regions)
<1>1. /\ WellFormed(r) /\ r \in Range2
      /\ \A i \in DOMAIN allowed : Disjoint(r, allowed[i])
      /\ \A i \in DOMAIN regions : Disjoint(r, regions[i])
  BY HandleAccepted DEF IInv
<1>2. r.base_ipa = base
  BY DEF Stage2Range
<1>3. PICK k \in 1..n + 1 : k = PartitionPoint(base)
  BY <1>1, <1>2, PartitionPointEffect DEF IInv
<1>4. /\ regions' = InsertRegion(k, region)
      /\ granted' = granted \cup {request} /\ result' = "Ok"
      /\ phase = "configuring" /\ UNCHANGED <<idmap, phase>>
  BY <1>3, HandleRangeEffect
<1>5. region \in Region /\ region.handler = h
  BY <1>1, <1>2 DEF Region, WellFormed
<1>6. PagesIn(region) = PagesIn(r)
  BY <1>2 DEF PagesIn
<1>7. /\ request \in Grants /\ request.use = h
       /\ request.base = r.base_ipa /\ request.end = r.end_ipa
       /\ r.base_ipa \in PagesIn(r)
  BY <1>1, RequestOfCall
<1> HIDE DEF r, region, request
<1>8. n \in Nat /\ DOMAIN regions = 1..n
  BY DEF IInv, TypeOK
<1>9. PICK s : /\ s = regions' /\ DOMAIN s = 1..n + 1
               /\ s[k] = region
               /\ \A i \in 1..n : i < k => s[i] = regions[i]
               /\ \A i \in 1..n : i >= k => s[i + 1] = regions[i]
               /\ \A j \in 1..n + 1 :
                     \/ j = k
                     \/ j < k /\ j \in 1..n
                     \/ j > k /\ j - 1 \in 1..n /\ s[j] = regions[j - 1]
  <2>1. TypeOK /\ k \in 1..Len(regions) + 1
    BY DEF IInv
  <2> DEFINE t == InsertRegion(k, region)
  <2>2. /\ DOMAIN t = 1..n + 1
        /\ t[k] = region
        /\ \A i \in 1..n : i < k => t[i] = regions[i]
        /\ \A i \in 1..n : i >= k => t[i + 1] = regions[i]
        /\ \A j \in 1..n + 1 :
              \/ j = k
              \/ j < k /\ j \in 1..n
              \/ j > k /\ j - 1 \in 1..n /\ t[j] = regions[j - 1]
    BY <1>5, <2>1, InsertRegionEffect, ZenonT(40)
  <2> HIDE DEF n, t
  <2>3. QED
    BY <1>4, <2>2 DEF t
<1> HIDE DEF n
<1>10. /\ \A i \in 1..n : WellFormed(regions[i])
      /\ \A i, j \in 1..n : i < j => regions[i].end_ipa <= regions[j].base_ipa
  BY <1>8 DEF IInv, RegistryInv, Sorted
<1>11. /\ \A i \in 1..n + 1 : WellFormed(s[i])
       /\ \A i, j \in 1..n + 1 : i < j => s[i].end_ipa <= s[j].base_ipa
  BY <1>9 DEF IInv, RegistryInv, Sorted
<1>12. ASSUME NEW p \in PagesIn(r)
       PROVE  p \in Pages /\ idmap[p] = Unused /\ UseOf(p) = Unused
  <2>1. p \in Pages
    BY DEF PagesIn
  <2>2. \A i \in DOMAIN allowed : p \notin PagesIn(allowed[i])
    BY <1>1, DisjointPages DEF IInv, AllowedInv
  <2>3. \A i \in DOMAIN regions : p \notin PagesIn(regions[i])
    BY <1>1, DisjointPages DEF IInv, RegistryInv, Sorted
  <2>4. QED
    BY <2>1, <2>2, <2>3 DEF UseOf, IInv, AllowedInv
<1>13. ASSUME NEW i \in 1..n, NEW p \in PagesIn(regions[i]), idmap[p] = Unused
       PROVE  UseOf(p) = regions[i].handler /\ UseOf(p)' = regions[i].handler
  <2>1. (CHOOSE j \in DOMAIN regions : p \in PagesIn(regions[j])) = i
    BY <1>8, <1>10, UniqueRegion
  <2>2. PICK j \in 1..n + 1 : s[j] = regions[i]
    <3>1. CASE i < k
      BY <1>8, <1>9, <3>1
    <3>2. CASE i >= k
      <4>1. i + 1 \in 1..n + 1 /\ s[i + 1] = regions[i]
        BY <1>8, <1>9, <3>2
      <4>2. QED
        BY <4>1
    <3>3. QED
      BY <1>8, <3>1, <3>2
  <2>3. n + 1 \in Nat /\ DOMAIN s = 1..n + 1 /\ p \in PagesIn(s[j])
    BY <1>8, <1>9, <1>13, <2>2
  <2>4. (CHOOSE l \in DOMAIN s : p \in PagesIn(s[l])) = j
    BY <1>11, <2>3, UniqueRegion
  <2>5. UseOf(p) = regions[i].handler
    BY <1>8, <1>13, <2>1 DEF UseOf
  <2>6. UseOf(p)' = s[j].handler
    BY <1>4, <1>9, <1>13, <2>2, <2>4 DEF UseOf
  <2>7. QED
    BY <2>2, <2>5, <2>6
<1>14. ASSUME NEW p \in Pages
       PROVE  UseOf(p)' = IF p \in PagesIn(r) THEN h ELSE UseOf(p)
  <2>1. CASE idmap[p] # Unused
    BY <1>4, <1>12, <2>1 DEF UseOf
  <2>2. CASE idmap[p] = Unused /\ p \in PagesIn(r)
    <3>1. n + 1 \in Nat /\ DOMAIN s = 1..n + 1 /\ p \in PagesIn(s[k])
      BY <1>6, <1>8, <1>9, <2>2
    <3>2. (CHOOSE l \in DOMAIN s : p \in PagesIn(s[l])) = k
      BY <1>11, <3>1, UniqueRegion
    <3>3. UseOf(p)' = s[k].handler
      BY <1>4, <1>9, <2>2, <3>1, <3>2 DEF UseOf
    <3>4. QED
      BY <1>5, <1>9, <2>2, <3>3
  <2>3. CASE /\ idmap[p] = Unused /\ p \notin PagesIn(r)
             /\ \E i \in 1..n : p \in PagesIn(regions[i])
    BY <1>13, <2>3
  <2>4. CASE /\ idmap[p] = Unused /\ p \notin PagesIn(r)
             /\ ~\E i \in 1..n : p \in PagesIn(regions[i])
    <3>1. UseOf(p) = Unused
      BY <1>8, <2>4 DEF UseOf
    <3>2. \A j \in 1..n + 1 : p \notin PagesIn(s[j])
      BY <1>6, <1>9, <2>4
    <3>3. UseOf(p)' = Unused
      BY <1>4, <1>9, <2>4, <3>2 DEF UseOf
    <3>4. QED
      BY <2>4, <3>1, <3>3
  <2>5. QED
    BY <2>1, <2>2, <2>3, <2>4
<1>15. QED
  BY <1>4, <1>7, <1>12, <1>14, GrantOfPages

\* The builder implements AccessPolicy: the step of a call that returns Ok is
\* the grant of the pages of the range it was called with, that of a call that
\* returns an error is a refusal, which changes no page's use, and build() seals.
THEOREM BuilderImplementsPolicy == Spec => ImplementsPolicy
<1> DEFINE policyvars == <<[p \in Pages |-> UseOf(p)], granted, result, phase # "configuring">>
<1>1. Init => Policy!Init
  <2> SUFFICES ASSUME Init
               PROVE  Policy!Init
    OBVIOUS
  <2>1. \A p \in Pages : UseOf(p) = Unused
    BY DEF Init, UseOf
  <2>2. QED
    BY <2>1 DEF Init, Policy!Init
<1>2. ASSUME IInv, IInv', [Next]_vars
      PROVE  [Policy!Next]_policyvars
  <2>1. ASSUME UNCHANGED <<idmap, regions>>
        PROVE  UNCHANGED [p \in Pages |-> UseOf(p)]
    <3>1. \A p \in Pages : UseOf(p)' = UseOf(p)
      BY <2>1 DEF UseOf
    <3>2. QED
      BY <3>1
  <2>2. ASSUME phase = "configuring", result' \in Errors,
               UNCHANGED <<idmap, regions, granted, phase>>
        PROVE  Policy!Next
    BY <2>1, <2>2 DEF Policy!Next, Policy!Refuse
  <2>3. ASSUME NEW base \in U64, NEW size \in U64, NEW a \in Attributes,
               AllowRange(base, size, a)
        PROVE  Policy!Next
    <3>1. CASE AllowResult(base, size) = "Ok"
      BY <1>2, <2>3, <3>1, AllowRangeGrants
    <3>2. CASE AllowResult(base, size) # "Ok"
      BY <2>2, <2>3, <3>2, AllowRangeEffect, ResultTypes, Zenon
    <3>3. QED
      BY <3>1, <3>2
  <2>4. ASSUME NEW base \in U64, NEW size \in U64, NEW h \in Handlers,
               HandleRange(base, size, h)
        PROVE  Policy!Next
    <3>1. CASE HandleResult(base, size) = "Ok"
      BY <1>2, <2>4, <3>1, HandleRangeGrants
    <3>2. CASE HandleResult(base, size) # "Ok"
      BY <2>2, <2>4, <3>2, HandleRangeEffect, ResultTypes, Zenon
    <3>3. QED
      BY <3>1, <3>2
  <2>5. CASE Build \/ ConfigurationFails
    <3>1. UNCHANGED [p \in Pages |-> UseOf(p)]
      BY <2>1, <2>5 DEF Build, ConfigurationFails
    <3>2. Policy!Seal
      BY <2>5, <3>1 DEF Policy!Seal, Build, ConfigurationFails
    <3>3. QED
      BY <3>2 DEF Policy!Next
  <2>6. CASE UNCHANGED vars
    BY <2>1, <2>6 DEF vars
  <2>7. QED
    BY <1>2, <2>3, <2>4, <2>5, <2>6 DEF Next, Configured
<1>3. QED
  BY <1>1, <1>2, Invariance, PTL DEF Spec, ImplementsPolicy, Policy!Spec

=============================================================================

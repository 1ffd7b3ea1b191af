--------------------------- MODULE Stage2Builder ---------------------------
(***************************************************************************)
(* The stage-2 configuration of stage2.rs: the platform calls allow_range  *)
(* and handle_range on a Stage2Builder, build() freezes the result, and a  *)
(* guest access is then translated by the identity map or looked up in the *)
(* registry of memory access handlers.                                     *)
(***************************************************************************)
EXTENDS Registry

CONSTANTS
    MAP_LIMIT,                      \* the end of what IdMap can map
    MAX_ALLOWED_RANGES,
    MAX_MEMORY_ACCESS_HANDLERS,
    Attributes                      \* stage-2 attributes

ASSUME Stage2Assumption ==
    /\ PAGE_SIZE \in Nat \ {0} /\ U64_MAX \in Nat /\ MAP_LIMIT \in Nat
    /\ MAX_ALLOWED_RANGES \in Nat /\ MAX_MEMORY_ACCESS_HANDLERS \in Nat
    /\ Attributes \cap Handlers = {}
    /\ Unused \notin Attributes \cup Handlers

\* Stage2Range.
Range2 == [base_ipa : U64, size : U64, end_ipa : U64]

VARIABLES
    idmap,      \* the attributes each page is mapped with, or Unused
    allowed,    \* allowed_ranges
    phase,      \* of STAGE2_CONFIG: being configured, built, or panicked
    result,     \* what the last call returned
    granted     \* history: the requests that were answered "Ok"

vars == <<idmap, regions, allowed, phase, result, granted>>

Errors == {"RangeBaseNotPageAligned", "EmptyRange", "RangeSizeNotPageMultiple",
           "RangeEndOverflow", "TooManyAllowedRanges",
           "TooManyMemoryAccessHandlerRegions", "AllowedRangeOverlap",
           "MemoryAccessHandlerRangeOverlap",
           "AllowedRangeOverlapsMemoryAccessHandler", "MapRange"}

Grants == [base : U64, end : U64, use : Attributes \cup Handlers]

\* The type invariant; the two tables never outgrow their ArrayVecs.
TypeOK ==
    /\ idmap \in [Pages -> Attributes \cup {Unused}]
    /\ regions \in Seq(Region) /\ Len(regions) <= MAX_MEMORY_ACCESS_HANDLERS
    /\ allowed \in Seq(Range2) /\ Len(allowed) <= MAX_ALLOWED_RANGES
    /\ phase \in {"configuring", "built", "panic"}
    /\ result \in Errors \cup {"Ok"}
    /\ granted \subseteq Grants

\* Stage2Builder::new()
Init ==
    /\ idmap = [p \in Pages |-> Unused]
    /\ regions = <<>>
    /\ allowed = <<>>
    /\ phase = "configuring"
    /\ result = "Ok"
    /\ granted = {}

-----------------------------------------------------------------------------
(* Ranges *)

\* validate_range(): the first check that fails, or "Ok".
validate_range(base, size) ==
    CASE base % PAGE_SIZE # 0 -> "RangeBaseNotPageAligned"
      [] base % PAGE_SIZE = 0 /\ size = 0 -> "EmptyRange"
      [] base % PAGE_SIZE = 0 /\ size # 0 /\ size % PAGE_SIZE # 0 ->
             "RangeSizeNotPageMultiple"
      [] OTHER -> IF checked_range_end_overflows(base, size)
                    THEN "RangeEndOverflow" ELSE "Ok"

Stage2Range(base, size) ==
    [base_ipa |-> base, size |-> size, end_ipa |-> base + size]

\* An overlap test that takes ranges that only touch for overlapping ones.
ranges_touch(r, s) ==
    IF r.base_ipa <= s.base_ipa THEN s.base_ipa <= r.end_ipa
                                ELSE r.base_ipa <= s.end_ipa

page_ranges_overlap(r, s) ==
    IF r.base_ipa <= s.base_ipa THEN s.base_ipa < r.end_ipa
                                ELSE r.base_ipa < s.end_ipa

Overlaps(r, table) == \E i \in DOMAIN table : page_ranges_overlap(r, table[i])

PagesIn(r) == {p \in Pages : r.base_ipa <= p /\ p < r.end_ipa}

-----------------------------------------------------------------------------
(* allow_range *)

\* map_range() refuses a region that ends outside the address space of the
\* page table.
map_range_fails(r) == r.end_ipa > MAP_LIMIT

\* The map after a map_range() that maps what it can and then fails.
map_range_partly(r, attributes) ==
    [p \in Pages |-> IF p \in PagesIn(r) /\ p < MAP_LIMIT THEN attributes ELSE idmap[p]]

\* The map after map_range(): it checks the region before it maps anything.
map_range(r, attributes) ==
    IF map_range_fails(r) THEN idmap
    ELSE [p \in Pages |-> IF p \in PagesIn(r) THEN attributes ELSE idmap[p]]

\* What allow_range() returns: the checks in the order of the code.
AllowResult(base, size) ==
    LET r == Stage2Range(base, size) IN
    IF validate_range(base, size) # "Ok" THEN validate_range(base, size)
    ELSE IF Len(allowed) >= MAX_ALLOWED_RANGES THEN "TooManyAllowedRanges"
    ELSE IF Overlaps(r, allowed) THEN "AllowedRangeOverlap"
    ELSE IF Overlaps(r, regions) THEN "AllowedRangeOverlapsMemoryAccessHandler"
    ELSE IF map_range_fails(r) THEN "MapRange"
    ELSE "Ok"

\* The history: a request is granted when the call returns Ok.
Answered(base, size, use) ==
    granted' = IF result' = "Ok"
                 THEN granted \cup {[base |-> base, end |-> base + size, use |-> use]}
                 ELSE granted

AllowRange(base, size, attributes) ==
    LET r == Stage2Range(base, size) IN
    /\ phase = "configuring"
    /\ result' = AllowResult(base, size)
    /\ idmap' = IF result' \in {"MapRange", "Ok"} THEN map_range(r, attributes) ELSE idmap
    /\ allowed' = IF result' = "Ok" THEN Append(allowed, r) ELSE allowed
    /\ Answered(base, size, attributes)
    /\ UNCHANGED <<regions, phase>>

-----------------------------------------------------------------------------
(* handle_range *)

\* A register() that lets one region too many in.
HandleResultOneMore(base, size) ==
    LET r == Stage2Range(base, size) IN
    IF validate_range(base, size) # "Ok" THEN validate_range(base, size)
    ELSE IF Overlaps(r, allowed) THEN "AllowedRangeOverlap"
    ELSE IF Len(regions) > MAX_MEMORY_ACCESS_HANDLERS
           THEN "TooManyMemoryAccessHandlerRegions"
    ELSE IF Overlaps(r, regions) THEN "MemoryAccessHandlerRangeOverlap"
    ELSE "Ok"

\* What handle_range() and register() return.
HandleResult(base, size) ==
    LET r == Stage2Range(base, size) IN
    IF validate_range(base, size) # "Ok" THEN validate_range(base, size)
    ELSE IF Overlaps(r, allowed) THEN "AllowedRangeOverlap"
    ELSE IF Len(regions) >= MAX_MEMORY_ACCESS_HANDLERS
           THEN "TooManyMemoryAccessHandlerRegions"
    ELSE IF Overlaps(r, regions) THEN "MemoryAccessHandlerRangeOverlap"
    ELSE "Ok"

\* A registry that keeps its regions in the order of registration.
PartitionPointLast(base) == Len(regions) + 1

\* partition_point(): the index of the first region not below base, in a
\* sequence sorted by base.
PartitionPoint(base) ==
    CHOOSE k \in 1..Len(regions) + 1 :
        \A i \in 1..Len(regions) : regions[i].base_ipa < base <=> i < k

\* regions.insert(): what is at k and above moves up.
InsertRegion(k, region) ==
    [i \in 1..Len(regions) + 1 |->
        IF i < k THEN regions[i] ELSE IF i = k THEN region ELSE regions[i - 1]]

HandleRange(base, size, handler) ==
    /\ phase = "configuring"
    /\ result' = HandleResult(base, size)
    /\ regions' = IF result' = "Ok"
                     THEN InsertRegion(PartitionPoint(base),
                              [base_ipa |-> base, size |-> size, end_ipa |-> base + size,
                               handler |-> handler])
                     ELSE regions
    /\ Answered(base, size, handler)
    /\ UNCHANGED <<idmap, allowed, phase>>

-----------------------------------------------------------------------------
(* stage2_config(): the platform passes the first error on, which panics, or *)
(* deals with it; then the configuration is built once and for all.          *)

Build ==
    /\ phase = "configuring"
    /\ phase' = "built"
    /\ UNCHANGED <<idmap, regions, allowed, result, granted>>

ConfigurationFails ==
    /\ phase = "configuring" /\ result # "Ok"
    /\ phase' = "panic"
    /\ UNCHANGED <<idmap, regions, allowed, result, granted>>

\* STAGE2_CONFIG is never written again.
Configured == phase # "configuring" /\ UNCHANGED vars

Next ==
    \/ \E base, size \in U64, a \in Attributes : AllowRange(base, size, a)
    \/ \E base, size \in U64, h \in Handlers : HandleRange(base, size, h)
    \/ Build
    \/ ConfigurationFails
    \/ Configured

Spec == Init /\ [][Next]_vars

-----------------------------------------------------------------------------
(* A guest access: translated, or looked up by find(). *)

\* The page table walk comes first; only an address it does not map traps.
Access(ipa) ==
    LET page == ipa - (ipa % PAGE_SIZE) IN
    IF idmap[page] # Unused THEN [use |-> idmap[page], offset |-> 0] ELSE find(ipa)

-----------------------------------------------------------------------------
(* Properties *)

\* Every guest access, to any byte, is routed as the platform asked: to the
\* memory it allowed, to the handler it registered with the offset in that
\* handler's range, or to a fault.  The binary search of find() loses none.
AccessAsGranted ==
    \A ipa \in U64 :
        LET covering == {g \in granted : g.base <= ipa /\ ipa < g.end} IN
        \/ covering = {} /\ Access(ipa).use = Unused
        \/ \E g \in covering :
              /\ covering = {g}
              /\ Access(ipa).use = g.use
              /\ g.use \in Handlers => Access(ipa).offset = ipa - g.base

\* A well-formed range that is free, mappable and for which there is room is
\* not refused, however close it is to the others.
FreeRangesAccepted ==
    \A base, size \in Pages :
        (/\ size > 0 /\ base + size <= U64_MAX
         /\ \A g \in granted, p \in Pages :
                g.base <= p /\ p < g.end => p \notin PagesIn(Stage2Range(base, size)))
        => /\ (base + size <= MAP_LIMIT /\ Len(allowed) < MAX_ALLOWED_RANGES)
                  => AllowResult(base, size) = "Ok"
           /\ Len(regions) < MAX_MEMORY_ACCESS_HANDLERS
                  => HandleResult(base, size) = "Ok"

\* The use of a page under the configuration, and the policy it implements.
UseOf(p) ==
    IF idmap[p] # Unused THEN idmap[p]
    ELSE IF \E i \in DOMAIN regions : p \in PagesIn(regions[i])
           THEN regions[CHOOSE i \in DOMAIN regions : p \in PagesIn(regions[i])].handler
           ELSE Unused

Policy == INSTANCE AccessPolicy WITH
    Requests <- Grants,
    Refusals <- Errors,
    policy <- [p \in Pages |-> UseOf(p)],
    accepted <- granted,
    answer <- result,
    sealed <- phase # "configuring"

\* The builder implements the policy: a call of allow_range() or handle_range()
\* that returns Ok gives exactly the pages of the range it was called with, all
\* of them unused before, to the one use; a call that returns an error changes
\* the use of no page, even when the checks passed and map_range() failed; and
\* what is built never changes.
ImplementsPolicy == Policy!Spec

=============================================================================

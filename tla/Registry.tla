------------------------------ MODULE Registry ------------------------------
(***************************************************************************)
(* MemoryAccessHandlerRegistry of stage2.rs as its readers use it: the     *)
(* regions with a memory access handler, sorted by base address, and       *)
(* find().                                                                 *)
(***************************************************************************)
EXTENDS Integers, Sequences

CONSTANTS
    PAGE_SIZE,      \* STAGE2_PAGE_SIZE
    U64_MAX,        \* the largest value of u64 and usize
    Handlers,       \* pairs of callbacks
    Unused          \* no handler

VARIABLE regions    \* the registry, sorted by base address

U64 == 0..U64_MAX

\* Pages are named by their first address.
Pages == {a \in U64 : a % PAGE_SIZE = 0}

\* MemoryAccessRegion with its handler.
Region == [base_ipa : U64, size : U64, end_ipa : U64, handler : Handlers]

checked_range_end_overflows(base, size) == base + size > U64_MAX

\* MemoryAccessRegion::end_ipa().
end_ipa(region) ==
    IF checked_range_end_overflows(region.base_ipa, region.size)
      THEN region.end_ipa
      ELSE region.base_ipa + region.size

\* The ordering find() gives the binary search of a region and an address.
Compare(region, ipa) ==
    IF ipa < region.base_ipa THEN "Greater"
    ELSE IF ipa >= end_ipa(region) THEN "Less" ELSE "Equal"

\* binary_search_by() of a slice: halve [low, low + size) down to one index.
Bisect(ipa) ==
    LET b[size \in 1..Len(regions)] == [low \in 1..Len(regions) |->
            IF size = 1 THEN low
            ELSE LET half == size \div 2
                     middle == low + half
                 IN  b[size - half][
                         IF Compare(regions[middle], ipa) = "Greater" THEN low ELSE middle]]
    IN  b[Len(regions)][1]

\* find(): the handler of an address and the offset of the address in its
\* region, or Unused.
find(ipa) ==
    IF Len(regions) = 0 \/ Compare(regions[Bisect(ipa)], ipa) # "Equal"
      THEN [use |-> Unused, offset |-> 0]
      ELSE [use |-> regions[Bisect(ipa)].handler,
            offset |-> ipa - regions[Bisect(ipa)].base_ipa]

=============================================================================

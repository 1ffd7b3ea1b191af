----------------------------- MODULE BootProofs -----------------------------
(***************************************************************************)
(* Proofs about Boot, for any layout that satisfies LayoutAssumption and   *)
(* any machine.                                                            *)
(***************************************************************************)
EXTENDS Boot, Stage2BuilderProofs

\* The steps of main() after modify_dt().
AfterModifyDt == {"shared_alloc", "boot_mode", "configure", "entry_point_el1",
                  "run_payload_el2", "disable_mmu", "write_sctlr", "restore",
                  "payload_el1", "payload_el2"}

\* The inductive invariant: the tree stays the one that modify_dt() made, and
\* modify_dt() did not panic.
DtInv ==
    /\ machine \in Machines
    /\ pc \in AfterModifyDt => dt = modify_dt(machine.fdt) /\ ~modify_dt_panics(machine.fdt)

\* A number that fits the machine word is not changed by wrapping around.
LEMMA NoWrap ==
    ASSUME NEW x \in Nat, x <= U64_MAX
    PROVE  x % (U64_MAX + 1) = x
<1> DEFINE W == U64_MAX + 1
<1>1. W \in Nat \ {0} /\ x < W
  BY Stage2Assumption
<1> HIDE DEF W
<1>2. x % W = x
  BY <1>1
<1> QED
  BY <1>2, Zenon DEF W

\* Where modify_dt() does not panic, the two ranges it makes are the bank
\* without the image.
LEMMA CutExactly ==
    ASSUME NEW m \in Machines, ~modify_dt_panics(m.fdt)
    PROVE  UNION {Addresses(modify_dt(m.fdt)[i]) : i \in DOMAIN modify_dt(m.fdt)}
           = Addresses(m.fdt.reg[1]) \ (RITM_START..RITM_END - 1)
<1> DEFINE bank == m.fdt.reg[1]
           below == modify_dt(m.fdt)[1]
           above == modify_dt(m.fdt)[2]
<1>1. U64_MAX \in Nat /\ RITM_START \in Nat /\ RITM_END \in Nat /\ RITM_START < RITM_END
  <2>1. RITM_START \in Pages /\ RITM_END \in Pages /\ RITM_START < RITM_END
    BY LayoutAssumption, Zenon
  <2> QED
    BY <2>1, Stage2Assumption DEF Pages, U64
<1>2. bank.address \in Nat /\ bank.size \in Nat
  <2>1. m.fdt.reg \in Seq([address : U64, size : U64]) /\ m.fdt.reg # <<>>
    BY BootAssumption, Zenon DEF Machine, Fdt, modify_dt_panics, dram_range_panics
  <2>2. ASSUME NEW S, NEW reg \in Seq(S), reg # <<>>
        PROVE  reg[1] \in S
    BY <2>2
  <2>3. bank \in [address : U64, size : U64]
    BY <2>1, <2>2, Zenon
  <2> HIDE DEF bank
  <2> QED
    BY <2>3, <1>1 DEF U64
<1>3. /\ bank.address + bank.size <= U64_MAX
      /\ bank.address <= RITM_START /\ RITM_END <= bank.address + bank.size
  <2>1. /\ ~(bank.address + bank.size > U64_MAX)
        /\ ~(RITM_START < dram_range(m.fdt).start) /\ ~(dram_range(m.fdt).end < RITM_END)
    BY Zenon DEF modify_dt_panics, dram_range_panics, Underflows
  <2>2. dram_range(m.fdt).start = bank.address /\ dram_range(m.fdt).end = bank.address + bank.size
    BY Zenon DEF dram_range
  <2> HIDE DEF bank
  <2> QED
    BY <1>1, <1>2, <2>1, <2>2
<1>4. /\ (RITM_START - bank.address) % (U64_MAX + 1) = RITM_START - bank.address
      /\ (bank.address + bank.size - RITM_END) % (U64_MAX + 1)
            = bank.address + bank.size - RITM_END
  <2>1. /\ RITM_START - bank.address \in Nat /\ RITM_START - bank.address <= U64_MAX
        /\ bank.address + bank.size - RITM_END \in Nat
        /\ bank.address + bank.size - RITM_END <= U64_MAX
    BY <1>1, <1>2, <1>3
  <2> HIDE DEF bank
  <2> QED
    BY <2>1, NoWrap, Zenon
<1>5. /\ DOMAIN modify_dt(m.fdt) = {1, 2}
      /\ below.address = bank.address /\ below.size = RITM_START - bank.address
      /\ above.address = RITM_END /\ above.size = bank.address + bank.size - RITM_END
  <2> DEFINE start == dram_range(m.fdt).start
             end == dram_range(m.fdt).end
             s1 == (RITM_START - start) % (U64_MAX + 1)
             s2 == (end - RITM_END) % (U64_MAX + 1)
  <2>1. start = bank.address /\ end = bank.address + bank.size
    BY Zenon DEF dram_range
  <2>2. modify_dt(m.fdt) = <<[address |-> start, size |-> s1], [address |-> RITM_END, size |-> s2]>>
    BY Zenon DEF modify_dt
  <2> HIDE DEF bank, start, end
  <2>3. s1 = RITM_START - bank.address /\ s2 = bank.address + bank.size - RITM_END
    BY <1>1, <1>2, <1>4, <2>1
  <2> HIDE DEF s1, s2
  <2>4. DOMAIN modify_dt(m.fdt) = {1, 2}
    BY <2>2
  <2>5. below.address = start /\ below.size = s1 /\ above.address = RITM_END /\ above.size = s2
    BY <2>2
  <2> QED
    BY <2>1, <2>3, <2>4, <2>5, Zenon
<1>6. UNION {Addresses(modify_dt(m.fdt)[i]) : i \in DOMAIN modify_dt(m.fdt)}
      = Addresses(below) \cup Addresses(above)
  BY <1>5, Zenon
<1>7. ASSUME NEW a \in U64
      PROVE  a \in Addresses(below) \cup Addresses(above)
             <=> a \in Addresses(bank) /\ a \notin RITM_START..RITM_END - 1
  <2> HIDE DEF bank, below, above
  <2> QED
    BY <1>1, <1>2, <1>3, <1>5 DEF Addresses, U64
<1> HIDE DEF bank, below, above
<1>8. Addresses(below) \cup Addresses(above) = Addresses(bank) \ (RITM_START..RITM_END - 1)
  BY <1>7, Zenon DEF Addresses
<1> QED
  BY <1>6, <1>8, Zenon DEF bank

\* Nothing on the way to the payload changes the tree.
LEMMA DtInvariance == BootSpec => []DtInv
<1>1. BootInit => DtInv
  BY Zenon DEF BootInit, DtInv, AfterModifyDt
<1>2. DtInv /\ [BootNext]_allvars => DtInv'
  <2> SUFFICES ASSUME DtInv, [BootNext]_allvars
               PROVE  DtInv'
    BY Zenon
  <2>1. machine' = machine
    BY Zenon DEF BootNext, Main, Ended, allvars, bootvars, Create, AddToHeap, ReadFdt, ModifyDt,
           SharedAlloc, BootMode, Configure, ConfigureDone, EntryPointEl1, SaveArguments,
           DisableMmu, WriteSctlr, RestoreArguments
  <2>2. CASE ModifyDt
    BY <2>1, <2>2, Zenon DEF ModifyDt, DtInv, AfterModifyDt
  <2>3. CASE ~ModifyDt
    <3>1. dt' = dt /\ (pc' \in AfterModifyDt => pc \in AfterModifyDt)
      BY <2>3, Zenon DEF BootNext, Main, Ended, allvars, bootvars, Create, AddToHeap, ReadFdt,
                  SharedAlloc, BootMode, Configure, ConfigureDone, EntryPointEl1,
                  SaveArguments, DisableMmu, WriteSctlr, RestoreArguments, AfterModifyDt
    <3> QED
      BY <2>1, <3>1, Zenon DEF DtInv
  <2> QED
    BY <2>2, <2>3, Zenon
<1> QED
  BY <1>1, <1>2, PTL DEF BootSpec

(***************************************************************************)
(* The memory described to the payload is the machine's bank without the   *)
(* RITM image: no subtraction of modify_dt() wraps around unnoticed, and   *)
(* nothing on the way to the payload changes the tree.                     *)
(***************************************************************************)
THEOREM MemoryDescribed == BootSpec => []DescribedExactly
<1>1. DtInv => DescribedExactly
  BY CutExactly, Zenon DEF DtInv, DescribedExactly, Booted, AfterModifyDt
<1> QED
  BY <1>1, DtInvariance, PTL

-----------------------------------------------------------------------------
(* The calls of configure_memory_access() *)

\* Two calls for ranges without a common address.
Apart(a, b) == a.base + a.size <= b.base \/ b.base + b.size <= a.base

\* What the layout says of its addresses.
LEMMA LayoutPages ==
    /\ PAGE_SIZE \in Nat \ {0} /\ U64_MAX \in Nat /\ MAP_LIMIT \in Nat
    /\ \A p \in {FILTERED_MMIO_BASE, DRAM_START, RITM_START, RITM_END, DRAM_MAPPED_END,
                 ECAM_START, ECAM_END, HIGH_MMIO_START, HIGH_MMIO_END, FILTERED_MMIO_END} :
           p \in Nat /\ p % PAGE_SIZE = 0 /\ p <= U64_MAX
<1>1. PAGE_SIZE \in Nat \ {0} /\ U64_MAX \in Nat /\ MAP_LIMIT \in Nat
  BY Stage2Assumption, Zenon
<1>2. ASSUME NEW p \in {FILTERED_MMIO_BASE, DRAM_START, RITM_START, RITM_END, DRAM_MAPPED_END,
                        ECAM_START, ECAM_END, HIGH_MMIO_START, HIGH_MMIO_END}
      PROVE  p \in Nat /\ p % PAGE_SIZE = 0 /\ p <= U64_MAX
  <2>1. p \in Pages
    BY LayoutAssumption, Zenon
  <2> QED
    BY <1>1, <2>1 DEF Pages, U64
<1>3. FILTERED_MMIO_END \in Nat /\ FILTERED_MMIO_END % PAGE_SIZE = 0
  <2>1. FILTERED_MMIO_BASE \in Nat /\ FILTERED_MMIO_BASE % PAGE_SIZE = 0
    BY <1>2, Zenon
  <2>2. (FILTERED_MMIO_BASE + PAGE_SIZE) % PAGE_SIZE = 0
    BY <1>1, <2>1, NextPage, Zenon
  <2> QED
    BY <1>1, <2>1, <2>2 DEF FILTERED_MMIO_END
<1>4. FILTERED_MMIO_END <= U64_MAX
  BY <1>1, <1>2, <1>3, LayoutAssumption
<1> QED
  BY <1>1, <1>2, <1>3, <1>4, Zenon

\* The layout's constants one by one, and their order.
LEMMA LayoutOrder ==
    /\ FILTERED_MMIO_BASE \in Nat /\ FILTERED_MMIO_END \in Nat /\ DRAM_START \in Nat
    /\ RITM_START \in Nat /\ RITM_END \in Nat /\ DRAM_MAPPED_END \in Nat
    /\ ECAM_START \in Nat /\ ECAM_END \in Nat
    /\ HIGH_MMIO_START \in Nat /\ HIGH_MMIO_END \in Nat
    /\ FILTERED_MMIO_BASE < FILTERED_MMIO_END /\ FILTERED_MMIO_END < DRAM_START
    /\ DRAM_START < RITM_START /\ RITM_START < RITM_END /\ RITM_END < DRAM_MAPPED_END
    /\ DRAM_MAPPED_END <= ECAM_START /\ ECAM_START < ECAM_END
    /\ ECAM_END <= HIGH_MMIO_START /\ HIGH_MMIO_START < HIGH_MMIO_END
<1>1. /\ FILTERED_MMIO_BASE \in Nat /\ FILTERED_MMIO_END \in Nat /\ DRAM_START \in Nat
      /\ RITM_START \in Nat /\ RITM_END \in Nat /\ DRAM_MAPPED_END \in Nat
      /\ ECAM_START \in Nat /\ ECAM_END \in Nat
      /\ HIGH_MMIO_START \in Nat /\ HIGH_MMIO_END \in Nat
  BY LayoutPages, Zenon
<1>2. PAGE_SIZE \in Nat \ {0}
  BY LayoutPages, Zenon
<1>3. FILTERED_MMIO_BASE < FILTERED_MMIO_END
  BY <1>1, <1>2 DEF FILTERED_MMIO_END
<1>4. /\ FILTERED_MMIO_END < DRAM_START
      /\ DRAM_START < RITM_START /\ RITM_START < RITM_END /\ RITM_END < DRAM_MAPPED_END
      /\ DRAM_MAPPED_END <= ECAM_START /\ ECAM_START < ECAM_END
      /\ ECAM_END <= HIGH_MMIO_START /\ HIGH_MMIO_START < HIGH_MMIO_END
  BY LayoutAssumption, Zenon
<1> QED
  BY <1>1, <1>3, <1>4, Zenon

\* The machine's numbers are natural numbers.
LEMMA U64Natural == U64_MAX \in Nat /\ 0 \in U64 /\ \A n \in U64 : n \in Nat
<1>1. U64_MAX \in Nat
  BY LayoutPages, Zenon
<1> QED
  BY <1>1 DEF U64

\* The pages of the shared heap are pages of the image.
LEMMA SharedInImage ==
    ASSUME NEW m \in Machines
    PROVE  LET shared == SharedPages(m.shared_heap) IN
           /\ shared.base \in Nat /\ shared.base % PAGE_SIZE = 0
           /\ shared.end \in Nat /\ shared.end % PAGE_SIZE = 0
           /\ RITM_START <= shared.base /\ shared.base < shared.end /\ shared.end <= RITM_END
<1> DEFINE h == m.shared_heap
           top == h + SHARED_HEAP_SIZE + PAGE_SIZE - 1
           base == (h \div PAGE_SIZE) * PAGE_SIZE
           end == (top \div PAGE_SIZE) * PAGE_SIZE
<1>1. /\ PAGE_SIZE \in Nat \ {0} /\ RITM_START \in Nat /\ RITM_START % PAGE_SIZE = 0
      /\ RITM_END \in Nat /\ RITM_END % PAGE_SIZE = 0
  BY LayoutPages, Zenon
<1>2. h \in Nat
  BY BootAssumption, LayoutPages DEF Machine, U64
<1>3. /\ SHARED_HEAP_SIZE \in Nat \ {0} /\ DATA_OFFSET \in Nat
      /\ RITM_START <= h /\ h + DATA_OFFSET + SHARED_HEAP_SIZE <= RITM_END
  BY LayoutAssumption, BootAssumption
<1> HIDE DEF h
<1>4. top \in Nat /\ top < RITM_END + PAGE_SIZE /\ h + PAGE_SIZE <= top
  BY <1>1, <1>2, <1>3
<1> HIDE DEF top
<1>5. base \in Nat /\ base % PAGE_SIZE = 0 /\ base <= h /\ RITM_START <= base
  BY <1>1, <1>2, <1>3, RoundedDown, RoundedDownLeast, Zenon
<1>6. end \in Nat /\ end % PAGE_SIZE = 0 /\ top < end + PAGE_SIZE /\ end <= RITM_END
  BY <1>1, <1>4, RoundedDown, RoundedDownMost
<1>7. SharedPages(h).base = base /\ SharedPages(h).end = end
  BY Zenon DEF SharedPages, align_down_to_page, align_up_to_page, top
<1> HIDE DEF base, end
<1>8. base < end
  BY <1>1, <1>2, <1>4, <1>5, <1>6
<1> QED
  BY <1>5, <1>6, <1>7, <1>8 DEF h

\* The ranges of the calls, by number.
LEMMA CallsAre ==
    ASSUME NEW h
    PROVE  LET c == configure_memory_access(h)
               Is(k, lo, hi, use) == /\ c[k].base = lo /\ c[k].size = hi - lo
                                     /\ c[k].use = use
           IN  /\ Is(1, 0, FILTERED_MMIO_BASE, Device)
               /\ Is(2, FILTERED_MMIO_BASE, FILTERED_MMIO_END, Filter)
               /\ Is(3, FILTERED_MMIO_END, DRAM_START, Device)
               /\ Is(4, DRAM_START, RITM_START, Memory)
               /\ Is(5, RITM_END, DRAM_MAPPED_END, Memory)
               /\ Is(6, ECAM_START, ECAM_END, Device)
               /\ Is(7, HIGH_MMIO_START, HIGH_MMIO_END, Device)
               /\ Is(8, SharedPages(h).base, SharedPages(h).end, Memory)
  BY Zenon DEF configure_memory_access, to_ipa

\* Every call is for whole pages that can be mapped, the second for a handler
\* and the others for attributes, and no two calls share a page.
LEMMA CallsFit ==
    ASSUME NEW m \in Machines
    PROVE  LET c == configure_memory_access(m.shared_heap) IN
           /\ \A k \in 1..8 : /\ c[k].base \in U64 /\ c[k].base % PAGE_SIZE = 0
                              /\ c[k].size \in U64 /\ c[k].size # 0 /\ c[k].size % PAGE_SIZE = 0
                              /\ c[k].base + c[k].size <= U64_MAX
                              /\ c[k].base + c[k].size <= MAP_LIMIT
                              /\ c[k].use \in Handlers <=> k = 2
           /\ \A j, k \in 1..8 : j # k => Apart(c[j], c[k])
<1> DEFINE c == configure_memory_access(m.shared_heap)
           base == SharedPages(m.shared_heap).base
           end == SharedPages(m.shared_heap).end
<1>1. PICK lo \in [1..8 -> Int] :
           /\ lo[1] = 0 /\ lo[2] = FILTERED_MMIO_BASE /\ lo[3] = FILTERED_MMIO_END
           /\ lo[4] = DRAM_START /\ lo[5] = RITM_END /\ lo[6] = ECAM_START
           /\ lo[7] = HIGH_MMIO_START /\ lo[8] = base
  <2> DEFINE f == [k \in 1..8 |->
                     IF k = 1 THEN 0 ELSE IF k = 2 THEN FILTERED_MMIO_BASE
                     ELSE IF k = 3 THEN FILTERED_MMIO_END ELSE IF k = 4 THEN DRAM_START
                     ELSE IF k = 5 THEN RITM_END ELSE IF k = 6 THEN ECAM_START
                     ELSE IF k = 7 THEN HIGH_MMIO_START ELSE base]
  <2>1. base \in Int
    BY SharedInImage
  <2> HIDE DEF base
  <2>2. f \in [1..8 -> Int]
    BY <2>1, LayoutPages
  <2>3. /\ f[1] = 0 /\ f[2] = FILTERED_MMIO_BASE /\ f[3] = FILTERED_MMIO_END
        /\ f[4] = DRAM_START /\ f[5] = RITM_END /\ f[6] = ECAM_START
        /\ f[7] = HIGH_MMIO_START /\ f[8] = base
    OBVIOUS
  <2> HIDE DEF f
  <2> QED
    BY <2>2, <2>3, Zenon
<1>2. PICK hi \in [1..8 -> Int] :
           /\ hi[1] = FILTERED_MMIO_BASE /\ hi[2] = FILTERED_MMIO_END /\ hi[3] = DRAM_START
           /\ hi[4] = RITM_START /\ hi[5] = DRAM_MAPPED_END /\ hi[6] = ECAM_END
           /\ hi[7] = HIGH_MMIO_END /\ hi[8] = end
  <2> DEFINE f == [k \in 1..8 |->
                     IF k = 1 THEN FILTERED_MMIO_BASE ELSE IF k = 2 THEN FILTERED_MMIO_END
                     ELSE IF k = 3 THEN DRAM_START ELSE IF k = 4 THEN RITM_START
                     ELSE IF k = 5 THEN DRAM_MAPPED_END ELSE IF k = 6 THEN ECAM_END
                     ELSE IF k = 7 THEN HIGH_MMIO_END ELSE end]
  <2>1. end \in Int
    BY SharedInImage
  <2> HIDE DEF end
  <2>2. f \in [1..8 -> Int]
    BY <2>1, LayoutPages
  <2>3. /\ f[1] = FILTERED_MMIO_BASE /\ f[2] = FILTERED_MMIO_END /\ f[3] = DRAM_START
        /\ f[4] = RITM_START /\ f[5] = DRAM_MAPPED_END /\ f[6] = ECAM_END
        /\ f[7] = HIGH_MMIO_END /\ f[8] = end
    OBVIOUS
  <2> HIDE DEF f
  <2> QED
    BY <2>2, <2>3, Zenon
<1>3. /\ base \in Nat /\ base % PAGE_SIZE = 0 /\ end \in Nat /\ end % PAGE_SIZE = 0
      /\ RITM_START <= base /\ base < end /\ end <= RITM_END
  BY SharedInImage, Zenon
<1>4. /\ 0 < FILTERED_MMIO_BASE /\ FILTERED_MMIO_BASE < FILTERED_MMIO_END
      /\ FILTERED_MMIO_END < DRAM_START
      /\ DRAM_START < RITM_START /\ RITM_START < RITM_END /\ RITM_END < DRAM_MAPPED_END
      /\ DRAM_MAPPED_END <= ECAM_START /\ ECAM_START < ECAM_END
      /\ ECAM_END <= HIGH_MMIO_START /\ HIGH_MMIO_START < HIGH_MMIO_END
      /\ HIGH_MMIO_END <= MAP_LIMIT /\ HIGH_MMIO_END <= U64_MAX
  BY LayoutAssumption, LayoutPages DEF FILTERED_MMIO_END
<1>5. \A k \in 1..8 : c[k].base = lo[k] /\ c[k].size = hi[k] - lo[k]
  <2>1. \A k \in 1..8 : k = 1 \/ k = 2 \/ k = 3 \/ k = 4 \/ k = 5 \/ k = 6 \/ k = 7 \/ k = 8
    OBVIOUS
  <2>2. /\ c[1].base = 0 /\ c[1].size = FILTERED_MMIO_BASE - 0
        /\ c[2].base = FILTERED_MMIO_BASE /\ c[2].size = FILTERED_MMIO_END - FILTERED_MMIO_BASE
        /\ c[3].base = FILTERED_MMIO_END /\ c[3].size = DRAM_START - FILTERED_MMIO_END
        /\ c[4].base = DRAM_START /\ c[4].size = RITM_START - DRAM_START
        /\ c[5].base = RITM_END /\ c[5].size = DRAM_MAPPED_END - RITM_END
        /\ c[6].base = ECAM_START /\ c[6].size = ECAM_END - ECAM_START
        /\ c[7].base = HIGH_MMIO_START /\ c[7].size = HIGH_MMIO_END - HIGH_MMIO_START
        /\ c[8].base = base /\ c[8].size = end - base
    BY CallsAre, Zenon
  <2> HIDE DEF c, base, end
  <2> QED
    BY <1>1, <1>2, <2>1, <2>2
<1>6. \A k \in 1..8 : c[k].use \in Handlers <=> k = 2
  <2>1. \A k \in 1..8 : k = 1 \/ k = 2 \/ k = 3 \/ k = 4 \/ k = 5 \/ k = 6 \/ k = 7 \/ k = 8
    OBVIOUS
  <2>2. /\ c[1].use = Device /\ c[2].use = Filter /\ c[3].use = Device /\ c[4].use = Memory
        /\ c[5].use = Memory /\ c[6].use = Device /\ c[7].use = Device /\ c[8].use = Memory
    BY CallsAre, Zenon
  <2>3. Device \notin Handlers /\ Memory \notin Handlers /\ Filter \in Handlers
    BY Stage2Assumption, LayoutAssumption, Zenon
  <2> HIDE DEF c
  <2> QED
    BY <2>1, <2>2, <2>3, Zenon
<1> HIDE DEF c, base, end
<1>7. ASSUME NEW k \in 1..8
      PROVE  /\ lo[k] \in Nat /\ lo[k] % PAGE_SIZE = 0 /\ hi[k] \in Nat /\ hi[k] % PAGE_SIZE = 0
             /\ lo[k] < hi[k] /\ hi[k] <= U64_MAX /\ hi[k] <= MAP_LIMIT
  <2>1. 0 % PAGE_SIZE = 0
    BY LayoutPages
  <2>2. lo[k] \in Nat /\ lo[k] % PAGE_SIZE = 0
    BY <1>1, <1>3, <2>1, LayoutPages
  <2>3. hi[k] \in Nat /\ hi[k] % PAGE_SIZE = 0
    BY <1>2, <1>3, LayoutPages
  <2>4. lo[k] < hi[k] /\ hi[k] <= U64_MAX /\ hi[k] <= MAP_LIMIT
    BY <1>1, <1>2, <1>3, <1>4, LayoutPages
  <2> QED
    BY <2>2, <2>3, <2>4, Zenon
<1>8. ASSUME NEW k \in 1..8
      PROVE  /\ c[k].base \in U64 /\ c[k].base % PAGE_SIZE = 0
             /\ c[k].size \in U64 /\ c[k].size # 0 /\ c[k].size % PAGE_SIZE = 0
             /\ c[k].base + c[k].size = hi[k]
  <2>1. (hi[k] - lo[k]) % PAGE_SIZE = 0
    <3>1. /\ PAGE_SIZE \in Nat \ {0} /\ lo[k] \in Nat /\ hi[k] \in Nat
          /\ lo[k] % PAGE_SIZE = 0 /\ hi[k] % PAGE_SIZE = 0 /\ lo[k] <= hi[k]
      BY <1>7, LayoutPages
    <3> QED
      BY <3>1, PageDistance, Zenon
  <2> QED
    BY <1>5, <1>7, <2>1, LayoutPages DEF U64
<1>9. \A j, k \in 1..8 : j # k => hi[j] <= lo[k] \/ hi[k] <= lo[j]
  BY <1>1, <1>2, <1>3, <1>4, LayoutPages
<1>10. \A j, k \in 1..8 : j # k => Apart(c[j], c[k])
  BY <1>5, <1>8, <1>9, Zenon DEF Apart
<1> QED
  BY <1>6, <1>7, <1>8, <1>10, Zenon DEF c

\* r is the range of call j.
MadeBy(r, j) ==
    LET call == configure_memory_access(machine.shared_heap)[j] IN
    r.base_ipa = call.base /\ r.end_ipa = call.base + call.size

\* The tables hold the ranges of the calls so far, all of them accepted.
ConfigInv ==
    /\ machine \in Machines
    /\ result = "Ok"
    /\ step \in 1..9
    /\ allowed \in Seq(Range2)
    /\ Len(allowed) = IF step <= 2 THEN step - 1 ELSE step - 2
    /\ \A i \in 1..Len(allowed) : \E j \in 1..step - 1 : j # 2 /\ MadeBy(allowed[i], j)
    /\ step <= 2 => regions = <<>>
    /\ step > 2 => \A i \in DOMAIN regions : MadeBy(regions[i], 2)

\* Ranges of different calls do not overlap.
LEMMA NoOverlap ==
    ASSUME machine \in Machines, NEW j \in 1..8, NEW k \in 1..8, j # k,
           NEW r, NEW s, MadeBy(r, j), MadeBy(s, k)
    PROVE  ~page_ranges_overlap(r, s)
<1> DEFINE c == configure_memory_access(machine.shared_heap)
<1>1. /\ r.base_ipa = c[j].base /\ r.end_ipa = c[j].base + c[j].size
      /\ s.base_ipa = c[k].base /\ s.end_ipa = c[k].base + c[k].size
  BY Zenon DEF MadeBy
<1>2. /\ c[j].base \in U64 /\ c[j].size \in U64 /\ c[j].size # 0
      /\ c[k].base \in U64 /\ c[k].size \in U64 /\ c[k].size # 0
      /\ Apart(c[j], c[k])
  BY CallsFit, Zenon
<1> HIDE DEF c
<1> QED
  BY <1>1, <1>2, LayoutPages DEF page_ranges_overlap, Apart, U64

\* The next call is accepted.
LEMMA CallAccepted ==
    ASSUME ConfigInv, step <= 8
    PROVE  LET call == configure_memory_access(machine.shared_heap)[step] IN
           /\ step # 2 => AllowResult(call.base, call.size) = "Ok"
           /\ step = 2 => HandleResult(call.base, call.size) = "Ok"
<1> DEFINE call == configure_memory_access(machine.shared_heap)[step]
           r == Stage2Range(call.base, call.size)
<1>1. step \in 1..8 /\ machine \in Machines
  BY DEF ConfigInv
<1>2. /\ call.base \in U64 /\ call.base % PAGE_SIZE = 0
      /\ call.size \in U64 /\ call.size # 0 /\ call.size % PAGE_SIZE = 0
      /\ call.base + call.size <= U64_MAX /\ call.base + call.size <= MAP_LIMIT
  BY <1>1, CallsFit, Zenon
<1>3. MadeBy(r, step)
  BY Zenon DEF MadeBy, Stage2Range
<1>4. ~Overlaps(r, allowed)
  <2> SUFFICES ASSUME NEW i \in 1..Len(allowed)
               PROVE  ~page_ranges_overlap(r, allowed[i])
    BY DEF Overlaps, ConfigInv
  <2>1. PICK j \in 1..step - 1 : MadeBy(allowed[i], j)
    BY Zenon DEF ConfigInv
  <2>2. j \in 1..8 /\ j # step
    BY <1>1, <2>1
  <2> HIDE DEF r
  <2> QED
    BY <1>1, <1>3, <2>1, <2>2, NoOverlap, Zenon
<1>5. ~Overlaps(r, regions)
  <2>1. CASE step <= 2
    BY <2>1 DEF Overlaps, ConfigInv
  <2>2. CASE step > 2
    <3> SUFFICES ASSUME NEW i \in DOMAIN regions
                 PROVE  ~page_ranges_overlap(r, regions[i])
      BY Zenon DEF Overlaps
    <3>1. MadeBy(regions[i], 2) /\ 2 \in 1..8 /\ 2 # step
      BY <1>1, <2>2 DEF ConfigInv
    <3> HIDE DEF r
    <3> QED
      BY <1>1, <1>3, <3>1, NoOverlap, Zenon
  <2> QED
    BY <1>1, <2>1, <2>2
<1>6. validate_range(call.base, call.size) = "Ok"
  <2> HIDE DEF call
  <2> QED
    BY <1>2, LayoutPages DEF validate_range, checked_range_end_overflows, U64
<1>7. ~map_range_fails(r)
  <2> HIDE DEF call
  <2> QED
    BY <1>2, LayoutPages DEF map_range_fails, Stage2Range, U64
<1>8. step # 2 => ~(Len(allowed) >= MAX_ALLOWED_RANGES)
  BY <1>1, Stage2Assumption, LayoutAssumption DEF ConfigInv
<1>9. step = 2 => ~(Len(regions) >= MAX_MEMORY_ACCESS_HANDLERS)
  <2>1. step = 2 => Len(regions) = 0
    BY DEF ConfigInv
  <2> QED
    BY <2>1, Stage2Assumption, LayoutAssumption
<1> HIDE DEF call
<1>10. step # 2 => AllowResult(call.base, call.size) = "Ok"
  BY <1>4, <1>5, <1>6, <1>7, <1>8, Zenon DEF AllowResult
<1>11. step = 2 => HandleResult(call.base, call.size) = "Ok"
  BY <1>4, <1>5, <1>6, <1>9 DEF HandleResult
<1> QED
  BY <1>10, <1>11, Zenon DEF call

\* Each call of configure_memory_access() adds its range to the tables.
LEMMA ConfigureStep ==
    ASSUME ConfigInv, Configure
    PROVE  ConfigInv' /\ pc' = "configure"
<1> DEFINE call == configure_memory_access(machine.shared_heap)[step]
           r == Stage2Range(call.base, call.size)
<1>1. /\ step \in 1..8 /\ step' = step + 1 /\ machine' = machine /\ machine \in Machines
      /\ pc' = IF result' = "Ok" THEN "configure" ELSE "panic"
      /\ IF call.use \in Handlers THEN HandleRange(call.base, call.size, call.use)
                                  ELSE AllowRange(call.base, call.size, call.use)
  BY DEF Configure, ConfigInv
<1>2. /\ call.base \in U64 /\ call.size \in U64 /\ call.base + call.size <= U64_MAX
      /\ call.use \in Handlers <=> step = 2
  BY <1>1, CallsFit, Zenon
<1>3. /\ step # 2 => AllowResult(call.base, call.size) = "Ok"
      /\ step = 2 => HandleResult(call.base, call.size) = "Ok"
  BY <1>1, CallAccepted
<1>4. /\ r.base_ipa = call.base /\ r.end_ipa = call.base + call.size
      /\ MadeBy(r, step)
  BY Zenon DEF MadeBy, Stage2Range
<1>5. r \in Range2
  <2> HIDE DEF call
  <2> QED
    BY <1>2, LayoutPages DEF Range2, Stage2Range, U64
<1>6. CASE step # 2
  <2>1. AllowRange(call.base, call.size, call.use)
    BY <1>1, <1>2, <1>6, Zenon
  <2>2. result' = "Ok" /\ allowed' = Append(allowed, r) /\ regions' = regions
    BY <1>3, <1>6, <2>1, Zenon DEF AllowRange
  <2> HIDE DEF call, r
  <2>3. /\ allowed' \in Seq(Range2) /\ Len(allowed') = Len(allowed) + 1
        /\ \A i \in 1..Len(allowed) : allowed'[i] = allowed[i]
        /\ allowed'[Len(allowed) + 1] = r
        /\ Len(allowed) \in Nat
    <3>1. ASSUME NEW S, NEW t \in Seq(S), NEW e \in S
          PROVE  /\ Append(t, e) \in Seq(S) /\ Len(Append(t, e)) = Len(t) + 1
                 /\ \A i \in 1..Len(t) : Append(t, e)[i] = t[i]
                 /\ Append(t, e)[Len(t) + 1] = e
                 /\ Len(t) \in Nat
      OBVIOUS
    <3>2. allowed \in Seq(Range2)
      BY Zenon DEF ConfigInv
    <3> QED
      BY <1>5, <2>2, <3>1, <3>2
  <2>4. Len(allowed') = IF step' <= 2 THEN step' - 1 ELSE step' - 2
    BY <1>1, <1>6, <2>3 DEF ConfigInv
  <2>5. ASSUME NEW i \in 1..Len(allowed')
        PROVE  \E j \in 1..step' - 1 : j # 2 /\ MadeBy(allowed'[i], j)
    <3>1. CASE i \in 1..Len(allowed)
      <4>1. PICK j \in 1..step - 1 : j # 2 /\ MadeBy(allowed[i], j)
        BY <3>1, Zenon DEF ConfigInv
      <4> QED
        BY <1>1, <2>3, <3>1, <4>1
    <3>2. CASE i = Len(allowed) + 1
      BY <1>1, <1>4, <1>6, <2>3, <3>2
    <3> QED
      BY <2>3, <3>1, <3>2
  <2>6. \A i \in 1..Len(allowed') : \E j \in 1..step' - 1 : j # 2 /\ MadeBy(allowed[i], j)'
    BY <1>1, <2>5, Zenon DEF MadeBy
  <2>7. step' <= 2 => regions' = <<>>
    BY <1>1, <2>2 DEF ConfigInv
  <2>8. step' > 2 => \A i \in DOMAIN regions' : MadeBy(regions[i], 2)'
    <3>1. step' > 2 => step > 2
      BY <1>1, <1>6
    <3> QED
      BY <1>1, <2>2, <3>1, Zenon DEF ConfigInv, MadeBy
  <2>9. machine' \in Machines /\ step' \in 1..9 /\ pc' = "configure"
    BY <1>1, <2>2
  <2> QED
    BY <2>2, <2>3, <2>4, <2>6, <2>7, <2>8, <2>9, Zenon DEF ConfigInv
<1>7. CASE step = 2
  <2>1. HandleRange(call.base, call.size, call.use)
    BY <1>1, <1>2, <1>7, Zenon
  <2> DEFINE region == [base_ipa |-> call.base, size |-> call.size, end_ipa |-> r.end_ipa,
                        handler |-> call.use]
  <2>2. /\ result' = "Ok" /\ allowed' = allowed
        /\ regions' = InsertRegion(PartitionPoint(call.base), region)
    BY <1>2, <1>3, <1>7, <2>1, HandleRangeEffect
  <2>3. regions = <<>> /\ Len(regions) = 0
    BY <1>7 DEF ConfigInv
  <2>4. PartitionPoint(call.base) = 1
    <3>1. 1..Len(regions) + 1 = {1} /\ 1..Len(regions) = {}
      BY <2>3
    <3> QED
      BY <3>1, Zenon DEF PartitionPoint
  <2>5. MadeBy(region, 2)
    BY <1>4, <1>7, Zenon DEF MadeBy
  <2> HIDE DEF region
  <2>6. DOMAIN regions' = {1} /\ regions'[1] = region
    BY <2>2, <2>3, <2>4 DEF InsertRegion
  <2>7. \A i \in DOMAIN regions' : MadeBy(regions[i], 2)'
    BY <1>1, <2>5, <2>6, Zenon DEF MadeBy
  <2>8. Len(allowed') = (IF step' <= 2 THEN step' - 1 ELSE step' - 2) /\ step' = 3
    BY <1>1, <1>7, <2>2 DEF ConfigInv
  <2>9. \A i \in 1..Len(allowed') : \E j \in 1..step' - 1 : j # 2 /\ MadeBy(allowed[i], j)'
    <3>1. ASSUME NEW i \in 1..Len(allowed')
          PROVE  \E j \in 1..step' - 1 : j # 2 /\ MadeBy(allowed[i], j)'
      <4>1. PICK j \in 1..step - 1 : j # 2 /\ MadeBy(allowed[i], j)
        BY <2>2, <3>1, Zenon DEF ConfigInv
      <4>2. MadeBy(allowed[i], j)'
        BY <1>1, <2>2, <4>1, Zenon DEF MadeBy
      <4>3. j \in 1..step' - 1
        BY <1>1, <4>1
      <4> QED
        BY <4>1, <4>2, <4>3, Zenon
    <3> QED
      BY <3>1, Zenon
  <2> HIDE DEF call, r
  <2> QED
    BY <1>1, <2>2, <2>7, <2>8, <2>9 DEF ConfigInv
<1> QED
  BY <1>6, <1>7, Zenon

\* The steps that are not calls of configure_memory_access() leave the tables
\* alone.
LEMMA OtherSteps ==
    ASSUME ConfigInv, [BootNext]_allvars, ~Configure
    PROVE  ConfigInv'
<1>1. /\ machine' = machine /\ step' = step
      /\ result' = result /\ allowed' = allowed /\ regions' = regions
  BY Zenon DEF BootNext, Main, Ended, allvars, bootvars, vars, Create, AddToHeap, ReadFdt,
               ModifyDt, SharedAlloc, BootMode, ConfigureDone, Build, EntryPointEl1,
               SaveArguments, DisableMmu, WriteSctlr, RestoreArguments
<1> QED
  BY <1>1, Zenon DEF ConfigInv, MadeBy

(***************************************************************************)
(* configure_memory_access() is never refused: for every layout and every  *)
(* place of the shared heap in the image, allow_range() and handle_range() *)
(* accept its eight calls, so that the expect() of stage2_config() does    *)
(* not fire on the way to the guest.                                       *)
(***************************************************************************)
THEOREM ConfigurationAccepted == BootSpec => [](result = "Ok")
<1>1. BootInit => ConfigInv
  <2> SUFFICES ASSUME BootInit
               PROVE  ConfigInv
    BY Zenon
  <2>1. /\ machine \in Machines /\ result = "Ok" /\ step = 1
        /\ allowed = <<>> /\ regions = <<>>
    BY Zenon DEF BootInit, Init
  <2> QED
    BY <2>1 DEF ConfigInv
<1>2. ConfigInv /\ [BootNext]_allvars => ConfigInv'
  BY ConfigureStep, OtherSteps, Zenon
<1>3. ConfigInv => result = "Ok"
  BY Zenon DEF ConfigInv
<1> QED
  BY <1>1, <1>2, <1>3, PTL DEF BootSpec

\* The steps with the allocators set up.
HeapSet == AfterModifyDt \cup {"fdt", "modify_dt"}

\* What a panic before the configuration tells about the machine.
PanicInv ==
    /\ ConfigInv
    /\ pc \in HeapSet => heap = SharedHeap(machine.shared_heap)
    /\ pc = "panic" => ~Supported(machine)

\* The second GiB is the one that the initial page table maps as memory.
LEMMA SecondGib ==
    ASSUME NEW a \in GIB..2 * GIB - 1
    PROVE  initial_idmap(a) = "memory"
<1>1. GIB \in Nat \ {0}
  BY LayoutAssumption, LayoutPages
<1>2. a \div GIB = 1
  BY <1>1
<1> QED
  BY <1>2 DEF initial_idmap

(***************************************************************************)
(* A supported machine never panics on the way to the payload: neither     *)
(* reading the tree, nor cutting the bank, nor allocating the new tree nor *)
(* configuring stage 2.  This is the safety part of SupportedBoots, for    *)
(* every layout and machine.                                               *)
(***************************************************************************)
THEOREM SupportedNeverPanics == BootSpec => [](pc = "panic" => ~Supported(machine))
<1>1. BootInit => PanicInv
  <2> SUFFICES ASSUME BootInit
               PROVE  PanicInv
    BY Zenon
  <2>1. /\ machine \in Machines /\ result = "Ok" /\ step = 1 /\ pc = "create"
        /\ allowed = <<>> /\ regions = <<>>
    BY Zenon DEF BootInit, Init
  <2>2. ConfigInv
    BY <2>1 DEF ConfigInv
  <2> QED
    BY <2>1, <2>2, Zenon DEF PanicInv, HeapSet, AfterModifyDt
<1>2. PanicInv /\ [BootNext]_allvars => PanicInv'
  <2> SUFFICES ASSUME PanicInv, [BootNext]_allvars
               PROVE  PanicInv'
    BY Zenon
  <2>1. ConfigInv'
    BY ConfigureStep, OtherSteps, Zenon DEF PanicInv
  <2>2. machine' = machine
    BY Zenon DEF BootNext, Main, Ended, allvars, bootvars, Create, AddToHeap, ReadFdt, ModifyDt,
           SharedAlloc, BootMode, Configure, ConfigureDone, EntryPointEl1, SaveArguments,
           DisableMmu, WriteSctlr, RestoreArguments
  <2>3. CASE AddToHeap
    BY <2>1, <2>2, <2>3, Zenon DEF AddToHeap, PanicInv
  <2>4. CASE ReadFdt
    <3>1. heap' = heap /\ pc = "fdt" /\ pc' \in {"modify_dt", "panic"}
      BY <2>4, Zenon DEF ReadFdt
    <3>2. ASSUME pc' = "panic", Supported(machine)
          PROVE  FALSE
      <4>1. \/ fdt_address(machine.x0) # machine.fdt_at
            \/ initial_idmap(fdt_address(machine.x0)) # "memory"
        BY <2>4, <3>2, Zenon DEF ReadFdt
      <4>2. fdt_address(machine.x0) = machine.fdt_at /\ machine.fdt_at \in GIB..2 * GIB - 1
        BY <3>2, Zenon DEF Supported, fdt_address, DEFAULT_FDT_ADDRESS
      <4> QED
        BY <4>1, <4>2, SecondGib, Zenon
    <3> QED
      BY <2>1, <2>2, <3>1, <3>2, Zenon DEF PanicInv, HeapSet
  <2>5. CASE ModifyDt
    <3>1. heap' = heap /\ pc = "modify_dt" /\ pc' \in {"shared_alloc", "panic"}
      BY <2>5, Zenon DEF ModifyDt
    <3>2. ASSUME pc' = "panic", Supported(machine)
          PROVE  FALSE
      <4>1. modify_dt_panics(machine.fdt)
        BY <2>5, <3>2, Zenon DEF ModifyDt
      <4>2. /\ machine.fdt.reg \in Seq([address : U64, size : U64]) /\ machine.fdt.reg # <<>>
            /\ machine.fdt.memory_node
        BY <3>2, BootAssumption, Zenon DEF PanicInv, ConfigInv, Machine, Fdt, Supported
      <4>3. ASSUME NEW S, NEW reg \in Seq(S), reg # <<>>
            PROVE  reg[1] \in S
        BY <4>3
      <4>4. PICK bank \in [address : U64, size : U64] : bank = machine.fdt.reg[1]
        BY <4>2, <4>3, Zenon
      <4>5. /\ bank.address + bank.size <= U64_MAX
            /\ bank.address <= RITM_START /\ RITM_END <= bank.address + bank.size
        BY <3>2, <4>4, Zenon DEF Supported
      <4>6. /\ dram_range(machine.fdt).start = bank.address
            /\ dram_range(machine.fdt).end = bank.address + bank.size
        BY <4>4, Zenon DEF dram_range
      <4>7. bank.address \in Nat /\ bank.size \in Nat
        BY <4>4, LayoutPages DEF U64
      <4>8. ~dram_range_panics(machine.fdt)
        <5>1. ~(bank.address + bank.size > U64_MAX)
          BY <4>5, <4>7, LayoutPages
        <5> QED
          BY <4>2, <4>4, <5>1, Zenon DEF dram_range_panics
      <4> QED
        BY <4>1, <4>5, <4>6, <4>7, <4>8, LayoutPages DEF modify_dt_panics, Underflows
    <3> QED
      BY <2>1, <2>2, <3>1, <3>2, Zenon DEF PanicInv, HeapSet, AfterModifyDt
  <2>6. CASE SharedAlloc
    <3>1. heap' = heap /\ pc = "shared_alloc" /\ pc' \in {"boot_mode", "panic"}
      BY <2>6, Zenon DEF SharedAlloc
    <3>2. heap = SharedHeap(machine.shared_heap)
      BY <3>1, Zenon DEF PanicInv, HeapSet, AfterModifyDt
    <3>3. pc' = "panic" => ~Supported(machine)
      BY <2>6, <3>2, Zenon DEF SharedAlloc, Supported
    <3> QED
      BY <2>1, <2>2, <3>1, <3>2, <3>3, Zenon DEF PanicInv
  <2>7. CASE Configure
    <3>1. pc' = "configure" /\ heap' = heap /\ pc = "configure"
      BY <2>7, ConfigureStep, Zenon DEF PanicInv, Configure
    <3> QED
      BY <2>1, <2>2, <3>1, Zenon DEF PanicInv
  <2>8. CASE ~(AddToHeap \/ ReadFdt \/ ModifyDt \/ SharedAlloc \/ Configure)
    <3>1. /\ heap' = heap /\ (pc' \in HeapSet => pc \in HeapSet)
          /\ pc' = "panic" => pc = "panic"
      BY <2>8, Zenon DEF BootNext, Main, Ended, allvars, bootvars, Create, BootMode,
                         ConfigureDone, EntryPointEl1, SaveArguments, DisableMmu,
                         WriteSctlr, RestoreArguments, HeapSet, AfterModifyDt
    <3> QED
      BY <2>1, <2>2, <3>1, Zenon DEF PanicInv
  <2> QED
    BY <2>3, <2>4, <2>5, <2>6, <2>7, <2>8
<1>3. PanicInv => (pc = "panic" => ~Supported(machine))
  BY Zenon DEF PanicInv
<1> QED
  BY <1>1, <1>2, <1>3, PTL DEF BootSpec

-----------------------------------------------------------------------------
(* The stage-2 configuration of the booted payload *)

\* What call j of configure_memory_access() asks for.
Requested(j) ==
    LET call == configure_memory_access(machine.shared_heap)[j] IN
    [base |-> call.base, end |-> call.base + call.size, use |-> call.use]

\* The builder keeps its own invariant under these calls, it has granted the
\* calls made so far and nothing else, and it is built with all eight.
BuilderInv ==
    /\ ConfigInv
    /\ IInv
    /\ granted = {Requested(j) : j \in 1..step - 1}
    /\ pc \in {"entry_point_el1", "payload_el1"} => step = 9 /\ phase = "built"

\* The uses of the calls.
LEMMA CallsUse ==
    ASSUME NEW h, NEW j \in 1..8
    PROVE  configure_memory_access(h)[j].use \in Attributes \cup Handlers
<1> DEFINE c == configure_memory_access(h)
<1>1. /\ c[1].use = Device /\ c[2].use = Filter /\ c[3].use = Device /\ c[4].use = Memory
      /\ c[5].use = Memory /\ c[6].use = Device /\ c[7].use = Device /\ c[8].use = Memory
  BY CallsAre, Zenon
<1> HIDE DEF c
<1>2. j = 1 \/ j = 2 \/ j = 3 \/ j = 4 \/ j = 5 \/ j = 6 \/ j = 7 \/ j = 8
  OBVIOUS
<1>3. c[j].use \in {Device, Filter, Memory}
  BY <1>1, <1>2, Zenon
<1> QED
  BY <1>3, LayoutAssumption, Zenon DEF c

\* One step of main() keeps the builder in order.
LEMMA BuilderStep ==
    ASSUME BuilderInv, [BootNext]_allvars
    PROVE  BuilderInv'
<1>1. ConfigInv /\ ConfigInv' /\ IInv
  BY ConfigureStep, OtherSteps, Zenon DEF BuilderInv
<1>2. CASE Configure
  <2> DEFINE call == configure_memory_access(machine.shared_heap)[step]
             request == [base |-> call.base, end |-> call.base + call.size, use |-> call.use]
  <2>1. /\ step \in 1..8 /\ step' = step + 1 /\ machine' = machine /\ machine \in Machines
        /\ IF call.use \in Handlers THEN HandleRange(call.base, call.size, call.use)
                                    ELSE AllowRange(call.base, call.size, call.use)
    <3>1. machine \in Machines /\ step \in 1..9
      BY <1>1, Zenon DEF ConfigInv
    <3>2. /\ step <= 8 /\ step' = step + 1 /\ machine' = machine
          /\ IF call.use \in Handlers THEN HandleRange(call.base, call.size, call.use)
                                      ELSE AllowRange(call.base, call.size, call.use)
      BY <1>2, Zenon DEF Configure
    <3>3. step \in 1..8
      BY <3>1, <3>2
    <3> QED
      BY <3>1, <3>2, <3>3, Zenon
  <2>2. pc' = "configure" /\ result' = "Ok"
    BY <1>1, <1>2, ConfigureStep, Zenon DEF ConfigInv
  <2>3. call.base \in U64 /\ call.size \in U64 /\ call.use \in Attributes \cup Handlers
    BY <2>1, CallsFit, CallsUse, Zenon
  <2>4. IInv' /\ granted' = granted \cup {request}
    <3>1. CASE call.use \in Handlers
      <4>1. HandleRange(call.base, call.size, call.use)
        BY <2>1, <3>1, Zenon
      <4> HIDE DEF call
      <4>2. IInv'
        BY <1>1, <2>3, <3>1, <4>1, HandleRangeInv, Zenon
      <4>3. granted' = granted \cup {request}
        BY <2>2, <4>1, Zenon DEF HandleRange, Answered
      <4> QED
        BY <4>2, <4>3, Zenon
    <3>2. CASE call.use \notin Handlers
      <4>1. AllowRange(call.base, call.size, call.use) /\ call.use \in Attributes
        BY <2>1, <2>3, <3>2, Zenon
      <4> HIDE DEF call
      <4>2. IInv'
        BY <1>1, <2>3, <4>1, AllowRangeInv, Zenon
      <4>3. granted' = granted \cup {request}
        BY <2>2, <4>1, Zenon DEF AllowRange, Answered
      <4> QED
        BY <4>2, <4>3, Zenon
    <3> QED
      BY <3>1, <3>2, Zenon
  <2>5. granted' = {Requested(j)' : j \in 1..step' - 1}
    <3>1. granted = {Requested(j) : j \in 1..step - 1}
      BY Zenon DEF BuilderInv
    <3>2. request = Requested(step)
      BY Zenon DEF Requested
    <3>3. \A j \in 1..8 : Requested(j)' = Requested(j)
      BY <2>1, Zenon DEF Requested
    <3>4. 1..step' - 1 = (1..step - 1) \cup {step} /\ 1..step' - 1 \subseteq 1..8
      BY <2>1
    <3> HIDE DEF request
    <3> QED
      BY <2>4, <3>1, <3>2, <3>3, <3>4, Zenon
  <2> QED
    BY <1>1, <2>2, <2>4, <2>5, Zenon DEF BuilderInv
<1>3. CASE ~Configure
  <2>1. /\ machine' = machine /\ step' = step
        /\ UNCHANGED <<idmap, regions, allowed, granted, result>>
    BY <1>3, Zenon DEF BootNext, Main, Ended, allvars, bootvars, vars, Create, AddToHeap,
                       ReadFdt, ModifyDt, SharedAlloc, BootMode, ConfigureDone, Build,
                       EntryPointEl1, SaveArguments, DisableMmu, WriteSctlr,
                       RestoreArguments
  <2>2. /\ phase' \in {phase, "built"}
        /\ pc' \in {"entry_point_el1", "payload_el1"} =>
               \/ pc \in {"entry_point_el1", "payload_el1"} /\ phase' = phase
               \/ step = 9 /\ phase' = "built"
    BY <1>3, Zenon DEF BootNext, Main, Ended, allvars, bootvars, vars, Create, AddToHeap,
                       ReadFdt, ModifyDt, SharedAlloc, BootMode, ConfigureDone, Build,
                       EntryPointEl1, SaveArguments, DisableMmu, WriteSctlr,
                       RestoreArguments
  <2>3. phase' \in {"configuring", "built", "panic"} /\ result' \in Errors \cup {"Ok"}
    BY <1>1, <2>1, <2>2, Zenon DEF IInv, TypeOK
  <2>4. IInv'
    BY <1>1, <2>1, <2>3, TablesUnchanged, Zenon
  <2>5. granted' = {Requested(j)' : j \in 1..step' - 1}
    BY <2>1, Zenon DEF BuilderInv, Requested
  <2>6. pc' \in {"entry_point_el1", "payload_el1"} => step' = 9 /\ phase' = "built"
    BY <2>1, <2>2, Zenon DEF BuilderInv
  <2> QED
    BY <1>1, <2>4, <2>5, <2>6, Zenon DEF BuilderInv
<1> QED
  BY <1>2, <1>3, Zenon

\* It starts in order, before the first call.
LEMMA BuilderInit == BootInit => BuilderInv
<1> SUFFICES ASSUME BootInit
             PROVE  BuilderInv
  BY Zenon
<1>1. /\ machine \in Machines /\ result = "Ok" /\ step = 1 /\ pc = "create"
      /\ allowed = <<>> /\ regions = <<>> /\ granted = {}
  BY Zenon DEF BootInit, Init
<1>2. IInv
  BY InitInv, Zenon DEF BootInit
<1>3. ConfigInv
  BY <1>1 DEF ConfigInv
<1>4. granted = {Requested(j) : j \in 1..step - 1}
  BY <1>1
<1> QED
  BY <1>1, <1>2, <1>3, <1>4, Zenon DEF BuilderInv

\* Behind the whole configuration an address has the use of the call it is in,
\* and none when it is in no call.
LEMMA AccessByCall ==
    ASSUME BuilderInv, step = 9, NEW a \in U64
    PROVE  LET c == configure_memory_access(machine.shared_heap) IN
           /\ \A j \in 1..8 : c[j].base <= a /\ a < c[j].base + c[j].size =>
                                  Access(a).use = c[j].use
           /\ Access(a).use # Unused =>
                  \E j \in 1..8 : c[j].base <= a /\ a < c[j].base + c[j].size
<1> DEFINE c == configure_memory_access(machine.shared_heap)
           covering == {g \in granted : g.base <= a /\ a < g.end}
<1>1. \/ covering = {} /\ Access(a).use = Unused
      \/ \E g \in covering : covering = {g} /\ Access(a).use = g.use
  BY RoutedAsGranted, Zenon DEF BuilderInv, AccessAsGranted
<1>2. granted = {Requested(j) : j \in 1..8}
  BY DEF BuilderInv
<1>3. \A j \in 1..8 : Requested(j).base = c[j].base /\ Requested(j).use = c[j].use
                      /\ Requested(j).end = c[j].base + c[j].size
  BY Zenon DEF Requested
<1> HIDE DEF c
<1>4. ASSUME NEW j \in 1..8, c[j].base <= a, a < c[j].base + c[j].size
      PROVE  Access(a).use = c[j].use
  <2>1. Requested(j) \in covering
    BY <1>2, <1>3, <1>4, Zenon
  <2> HIDE DEF covering
  <2> QED
    BY <1>1, <1>3, <2>1, Zenon
<1>5. ASSUME Access(a).use # Unused
      PROVE  \E j \in 1..8 : c[j].base <= a /\ a < c[j].base + c[j].size
  <2>1. PICK g \in covering : TRUE
    BY <1>1, <1>5, Zenon
  <2>2. PICK j \in 1..8 : g = Requested(j)
    BY <1>2, <2>1, Zenon
  <2> QED
    BY <1>3, <2>1, <2>2, Zenon
<1> QED
  BY <1>4, <1>5, Zenon DEF c

-----------------------------------------------------------------------------
(* The shared heap, the new device tree and the registers *)

\* A page boundary is a word boundary.
LEMMA PageIsWords ==
    ASSUME NEW x \in Nat, x % PAGE_SIZE = 0
    PROVE  x % WORD = 0
<1>1. PAGE_SIZE \in Nat \ {0} /\ WORD \in Nat \ {0} /\ PAGE_SIZE % WORD = 0
  BY LayoutAssumption, LayoutPages, Zenon
<1>2. PICK q \in Nat : x = PAGE_SIZE * q
  BY <1>1, MultipleOf
<1>3. PICK s \in Nat : PAGE_SIZE = WORD * s
  BY <1>1, MultipleOf, Zenon
<1>4. x = WORD * (s * q) /\ s * q \in Nat
  BY <1>1, <1>2, <1>3
<1>5. (WORD * (s * q)) % WORD = 0
  BY <1>1, <1>4, NoRemainder, Zenon
<1> QED
  BY <1>4, <1>5, Zenon

\* The words of the heap lie in the image, and in the pages that the guest gets,
\* although those are computed from the address of the lock.
LEMMA HeapInPages ==
    ASSUME NEW m \in Machines
    PROVE  LET h == SharedHeap(m.shared_heap) IN
           /\ h.start \in U64 /\ h.end \in U64 /\ h.start # 0
           /\ SharedPages(m.shared_heap).base <= h.start
           /\ h.end <= SharedPages(m.shared_heap).end
<1> DEFINE h == m.shared_heap
           data == h + DATA_OFFSET
           bottom == data + WORD - 1
           top == data + SHARED_HEAP_SIZE
           up == h + SHARED_HEAP_SIZE + PAGE_SIZE - 1
           start == (bottom \div WORD) * WORD
           end == (top \div WORD) * WORD
           base == SharedPages(h).base
           limit == SharedPages(h).end
<1>1. /\ PAGE_SIZE \in Nat \ {0} /\ RITM_START \in Nat /\ U64_MAX \in Nat
      /\ RITM_END \in Nat /\ RITM_END % PAGE_SIZE = 0 /\ RITM_END <= U64_MAX
      /\ DRAM_START \in Nat /\ FILTERED_MMIO_END \in Nat
  BY LayoutPages, Zenon
<1>2. h \in Nat
  BY BootAssumption, LayoutPages DEF Machine, U64
<1>3. /\ SHARED_HEAP_SIZE \in Nat \ {0} /\ WORD \in Nat \ {0} /\ DATA_OFFSET \in Nat
      /\ DATA_OFFSET < WORD /\ RITM_START <= h /\ h + DATA_OFFSET + SHARED_HEAP_SIZE <= RITM_END
      /\ FILTERED_MMIO_END < DRAM_START /\ DRAM_START < RITM_START
  BY LayoutAssumption, BootAssumption
<1>4. /\ base \in Nat /\ limit \in Nat /\ limit % PAGE_SIZE = 0
      /\ base = (h \div PAGE_SIZE) * PAGE_SIZE /\ limit = (up \div PAGE_SIZE) * PAGE_SIZE
      /\ limit <= RITM_END
  BY SharedInImage, Zenon DEF SharedPages, align_down_to_page, align_up_to_page
<1> HIDE DEF h, base, limit
<1>5. bottom \in Nat /\ top \in Nat /\ up \in Nat /\ bottom < RITM_END + WORD /\ data <= bottom
  BY <1>1, <1>2, <1>3
<1>6. base <= h
  BY <1>1, <1>2, <1>4, RoundedDown
<1>7. up < limit + PAGE_SIZE
  <2> HIDE DEF up
  <2> QED
    BY <1>1, <1>4, <1>5, RoundedDown, Zenon
<1>8. h + SHARED_HEAP_SIZE <= limit /\ top < limit + WORD
  BY <1>1, <1>2, <1>3, <1>4, <1>7
<1>9. limit % WORD = 0 /\ RITM_END % WORD = 0
  BY <1>1, <1>4, PageIsWords
<1>10. start \in Nat /\ bottom < start + WORD /\ start <= RITM_END
  <2> HIDE DEF bottom
  <2> QED
    BY <1>1, <1>3, <1>5, <1>9, RoundedDown, RoundedDownMost
<1>11. end \in Nat /\ end <= limit
  <2> HIDE DEF top
  <2> QED
    BY <1>3, <1>4, <1>5, <1>8, <1>9, RoundedDown, RoundedDownMost
<1>12. SharedHeap(h).start = start /\ SharedHeap(h).end = end
  BY Zenon DEF SharedHeap
<1>13. data <= start
  BY <1>2, <1>3, <1>10
<1> HIDE DEF start, end
<1>14. /\ start \in U64 /\ end \in U64 /\ start # 0 /\ base <= start
  BY <1>1, <1>2, <1>3, <1>4, <1>6, <1>10, <1>11, <1>13 DEF U64
<1> QED
  BY <1>11, <1>12, <1>14, Zenon DEF h, base, limit

\* The block of the allocator holds what was asked for, whole words of it.
LEMMA BlockFits ==
    ASSUME NEW size \in Nat
    PROVE  /\ BlockSize(size) \in Nat /\ size <= BlockSize(size)
           /\ \A a \in Nat : a % BlockSize(size) = 0 => a % WORD = 0
<1> DEFINE n == size + WORD
           fitting == {b \in {Pow2[i] : i \in 0..n} : size <= b /\ WORD <= b}
<1>1. WORD \in Nat \ {0} /\ n \in Nat /\ size <= n /\ WORD <= n /\ n \in 0..n
  BY LayoutAssumption
<1>2. PICK k \in 0..WORD : WORD = Pow2[k]
  BY LayoutAssumption, Zenon
<1> HIDE DEF n
<1>3. fitting \in SUBSET Nat
  BY <1>1, Pow2Above
<1>4. Pow2[n] \in fitting
  BY <1>1, Pow2Above
<1>5. PICK least \in fitting : \A c \in fitting : least <= c
  <2> HIDE DEF fitting
  <2> QED
    BY <1>3, <1>4, LeastOf, Zenon
<1>6. BlockSize(size) \in fitting
  <2>1. BlockSize(size) = CHOOSE b \in fitting : \A c \in fitting : b <= c
    BY Zenon DEF BlockSize, n
  <2> HIDE DEF fitting
  <2> QED
    BY <1>5, <2>1, Zenon
<1>7. PICK i \in 0..n : BlockSize(size) = Pow2[i]
  BY <1>6, Zenon
<1>8. size <= BlockSize(size) /\ WORD <= BlockSize(size)
  BY <1>6, Zenon
<1>9. BlockSize(size) \in Nat
  BY <1>3, <1>6, Zenon
<1>10. ASSUME NEW a \in Nat, a % BlockSize(size) = 0
       PROVE  a % WORD = 0
  <2>1. Pow2[k] <= Pow2[i] /\ k \in Nat /\ i \in Nat
    BY <1>1, <1>2, <1>7, <1>8
  <2> QED
    BY <1>2, <1>7, <1>10, <2>1, Pow2Aligned
<1> QED
  BY <1>8, <1>9, <1>10

\* So a block holds the new tree, in the heap and on a word boundary.
LEMMA BlockInHeap ==
    ASSUME NEW m \in Machines, NEW h \in [start : U64, end : U64],
           NEW a \in Blocks(h, m.dtb_size)
    PROVE  /\ a \in U64 /\ a % WORD = 0
           /\ h.start <= a /\ a + m.dtb_size <= h.end
<1> DEFINE b == BlockSize(m.dtb_size)
<1>1. h.start \in Nat /\ h.end \in Nat /\ h.end <= U64_MAX /\ U64_MAX \in Nat
  BY LayoutPages DEF U64
<1>2. m.dtb_size \in Nat
  BY BootAssumption, LayoutPages DEF Machine, U64
<1>3. b \in Nat /\ m.dtb_size <= b /\ \A x \in Nat : x % b = 0 => x % WORD = 0
  BY <1>2, BlockFits, Zenon
<1>4. a \in h.start..h.end /\ a % b = 0 /\ a + b <= h.end
  BY Zenon DEF Blocks
<1> HIDE DEF b
<1>5. a \in Nat /\ a \in U64 /\ h.start <= a /\ a + m.dtb_size <= h.end
  BY <1>1, <1>2, <1>3, <1>4 DEF U64
<1>6. a % WORD = 0
  BY <1>3, <1>4, <1>5, Zenon
<1> QED
  BY <1>5, <1>6, Zenon

\* The steps that have the new device tree.
WithDtb == AfterModifyDt \ {"shared_alloc"}

\* x0 to x3 of the payload.
Arguments == <<dtb, machine.x1, machine.x2, machine.x3>>

\* The values that BootTypeOK speaks of: the tree is in a block of the heap.
ValuesInv ==
    /\ pc \in Pc /\ machine \in Machines
    /\ heap \in [start : U64, end : U64]
    /\ pc \in HeapSet => heap = SharedHeap(machine.shared_heap)
    /\ dt \in Seq(Reg(U64))
    /\ dtb = 0 \/ dtb \in Blocks(heap, machine.dtb_size)
    /\ pc \in {"create", "heaps"} => dtb = 0
    /\ pc \in WithDtb => dtb \in Blocks(heap, machine.dtb_size)
    /\ sctlr \subseteq SctlrBits /\ vm \in BOOLEAN

\* The two ranges of modify_dt() are numbers of the machine.
LEMMA ModifiedReg ==
    ASSUME NEW m \in Machines, ~modify_dt_panics(m.fdt)
    PROVE  modify_dt(m.fdt) \in Seq(Reg(U64))
<1>1. m.fdt.reg \in Seq([address : U64, size : U64]) /\ m.fdt.reg # <<>>
  BY BootAssumption, Zenon DEF Machine, Fdt, modify_dt_panics, dram_range_panics
<1>2. ASSUME NEW S, NEW reg \in Seq(S), reg # <<>>
      PROVE  reg[1] \in S
  BY <1>2
<1>3. PICK bank \in [address : U64, size : U64] : bank = m.fdt.reg[1]
  BY <1>1, <1>2, Zenon
<1> DEFINE low == (RITM_START - bank.address) % (U64_MAX + 1)
           high == ((bank.address + bank.size) - RITM_END) % (U64_MAX + 1)
<1>4. bank.address \in U64 /\ bank.address \in Nat /\ bank.size \in Nat /\ RITM_END \in U64
  <2>1. RITM_END \in Nat /\ RITM_END <= U64_MAX /\ U64_MAX \in Nat
    BY LayoutPages, Zenon
  <2>2. bank.address \in U64 /\ bank.size \in U64
    BY <1>3, Zenon
  <2> QED
    BY <2>1, <2>2 DEF U64
<1>5. low \in U64 /\ high \in U64
  <2>1. ASSUME NEW x \in Int
        PROVE  x % (U64_MAX + 1) \in U64
    <3>1. U64_MAX \in Nat
      BY LayoutPages, Zenon
    <3> QED
      BY <3>1 DEF U64
  <2>2. RITM_START \in Nat /\ RITM_END \in Nat
    BY LayoutPages, Zenon
  <2>3. RITM_START - bank.address \in Int /\ (bank.address + bank.size) - RITM_END \in Int
    BY <1>4, <2>2
  <2> QED
    BY <2>1, <2>3, Zenon
<1>6. modify_dt(m.fdt) = <<[address |-> bank.address, size |-> low],
                           [address |-> RITM_END, size |-> high]>>
  BY <1>3, Zenon DEF modify_dt, dram_range
<1> HIDE DEF low, high
<1>7. /\ [address |-> bank.address, size |-> low] \in Reg(U64)
      /\ [address |-> RITM_END, size |-> high] \in Reg(U64)
  BY <1>4, <1>5 DEF Reg
<1>8. ASSUME NEW S, NEW a \in S, NEW b \in S
      PROVE  <<a, b>> \in Seq(S)
  OBVIOUS
<1> QED
  BY <1>6, <1>7, <1>8, Zenon

\* The values of main() stay in range.
LEMMA ValuesStep ==
    ASSUME ValuesInv, [BootNext]_allvars
    PROVE  ValuesInv'
<1>1. machine' = machine /\ machine \in Machines
  BY Zenon DEF ValuesInv, BootNext, Main, Ended, allvars, bootvars, Create, AddToHeap, ReadFdt,
         ModifyDt, SharedAlloc, BootMode, Configure, ConfigureDone, EntryPointEl1,
         SaveArguments, DisableMmu, WriteSctlr, RestoreArguments
<1>2. CASE AddToHeap
  <2>1. /\ pc' = "fdt" /\ heap' = SharedHeap(machine.shared_heap) /\ pc = "heaps"
        /\ UNCHANGED <<dt, dtb, sctlr, vm>>
    BY <1>2, Zenon DEF AddToHeap
  <2>2. dtb = 0
    BY <2>1, Zenon DEF ValuesInv, HeapSet, AfterModifyDt
  <2>3. heap' \in [start : U64, end : U64]
    BY <1>1, <2>1, HeapInPages, Zenon DEF SharedHeap
  <2> QED
    BY <1>1, <2>1, <2>2, <2>3 DEF ValuesInv, Pc, HeapSet, WithDtb, AfterModifyDt
<1>3. CASE ModifyDt
  <2>1. /\ pc = "modify_dt" /\ pc' \in {"shared_alloc", "panic"}
        /\ UNCHANGED <<heap, dtb, sctlr, vm>>
        /\ dt' = dt \/ (~modify_dt_panics(machine.fdt) /\ dt' = modify_dt(machine.fdt))
    BY <1>3, Zenon DEF ModifyDt
  <2>2. dt' \in Seq(Reg(U64))
    BY <1>1, <2>1, ModifiedReg, Zenon DEF ValuesInv
  <2> QED
    BY <1>1, <2>1, <2>2, Zenon DEF ValuesInv, Pc, HeapSet, WithDtb, AfterModifyDt
<1>4. CASE SharedAlloc
  <2>1. /\ pc = "shared_alloc"
        /\ \/ pc' = "panic" /\ dtb' = dtb
           \/ pc' = "boot_mode" /\ dtb' \in Blocks(heap, machine.dtb_size)
        /\ UNCHANGED <<heap, dt, sctlr, vm>>
    BY <1>4, Zenon DEF SharedAlloc
  <2> QED
    BY <1>1, <2>1, Zenon DEF ValuesInv, Pc, HeapSet, WithDtb, AfterModifyDt
<1>5. CASE ~(AddToHeap \/ ModifyDt \/ SharedAlloc)
  <2>1. /\ UNCHANGED <<heap, dt, dtb>> /\ sctlr' \subseteq sctlr /\ vm' \in {vm, TRUE}
        /\ pc' \in Pc \cup {pc}
        /\ pc' \in WithDtb => pc \in WithDtb
        /\ pc' \in HeapSet => pc \in HeapSet
        /\ pc' \in {"create", "heaps"} => pc \in {"create", "heaps"}
    BY <1>5, Zenon DEF BootNext, Main, Ended, allvars, bootvars, Create, ReadFdt, BootMode,
                       Configure, ConfigureDone, EntryPointEl1, SaveArguments, DisableMmu,
                       WriteSctlr, RestoreArguments, Pc, HeapSet, WithDtb, AfterModifyDt
  <2> QED
    BY <1>1, <2>1, Zenon DEF ValuesInv
<1> QED
  BY <1>2, <1>3, <1>4, <1>5, Zenon

\* Where the payload's address and arguments are on the way, where the return
\* address of the bl is, and what the system registers say.
RegistersInv ==
    /\ regs \in [Registers -> U64 \cup {Clobbered}]
    /\ pc \in {"configure", "entry_point_el1", "run_payload_el2"} =>
           regs[0] = PAYLOAD_ADDRESS /\ \A i \in 1..4 : regs[i] = Arguments[i]
    /\ pc \in {"disable_mmu", "write_sctlr", "restore"} =>
           regs[19] = PAYLOAD_ADDRESS /\ \A i \in 1..4 : regs[i + 19] = Arguments[i]
    /\ pc = "disable_mmu" => regs[30] = LINK
    /\ pc = "write_sctlr" => regs[28] = LINK
    /\ Booted => \A i \in 1..4 : regs[i - 1] = Arguments[i]
    /\ pc \in {"restore", "payload_el2"} => sctlr = {}
    /\ vm <=> pc = "payload_el1"
    /\ pc = "payload_el1" => \A i \in Registers \ 0..3 : regs[i] = 0
    /\ pc # "lost"

\* The boot loader's registers and the constants are numbers of the machine.
LEMMA ArgumentTypes ==
    ASSUME NEW m \in Machines
    PROVE  /\ m.x1 \in U64 /\ m.x2 \in U64 /\ m.x3 \in U64
           /\ PAYLOAD_ADDRESS \in U64 /\ LINK \in U64
<1>1. m.x1 \in U64 /\ m.x2 \in U64 /\ m.x3 \in U64
  BY BootAssumption, Zenon DEF Machine
<1>2. PAYLOAD_ADDRESS \in U64
  <2>1. PAYLOAD_ADDRESS \in DRAM_START..RITM_START - 1 \cup RITM_END..DRAM_MAPPED_END - 1
    BY LayoutAssumption, Zenon
  <2>2. /\ DRAM_START \in Nat /\ RITM_START \in Nat /\ RITM_START <= U64_MAX
        /\ RITM_END \in Nat /\ DRAM_MAPPED_END \in Nat /\ DRAM_MAPPED_END <= U64_MAX
        /\ U64_MAX \in Nat
    BY LayoutPages, Zenon
  <2> QED
    BY <2>1, <2>2 DEF U64
<1>3. LINK \in U64
  <2>1. 0 < FILTERED_MMIO_BASE /\ FILTERED_MMIO_BASE \in Nat /\ FILTERED_MMIO_BASE <= U64_MAX
    BY LayoutAssumption, LayoutPages, Zenon
  <2> QED
    BY <2>1, LayoutPages DEF U64, LINK
<1> QED
  BY <1>1, <1>2, <1>3, Zenon

\* The arguments of the payload, one by one.
LEMMA FourArguments ==
    ASSUME NEW f, NEW k \in Int
    PROVE  (\A i \in 1..4 : f[i + k] = Arguments[i])
               <=> /\ f[1 + k] = dtb /\ f[2 + k] = machine.x1
                   /\ f[3 + k] = machine.x2 /\ f[4 + k] = machine.x3
  BY DEF Arguments

\* They get to the payload, whatever the called functions leave in the
\* registers, and so does the return address of the bl.
LEMMA RegistersStep ==
    ASSUME ValuesInv, RegistersInv, BuilderInv, [BootNext]_allvars
    PROVE  RegistersInv'
<1> DEFINE Word == U64 \cup {Clobbered}
<1>1. machine' = machine /\ machine \in Machines
  BY Zenon DEF ValuesInv, BootNext, Main, Ended, allvars, bootvars, Create, AddToHeap, ReadFdt,
         ModifyDt, SharedAlloc, BootMode, Configure, ConfigureDone, EntryPointEl1,
         SaveArguments, DisableMmu, WriteSctlr, RestoreArguments
<1>2. regs \in [Registers -> Word]
  BY Zenon DEF RegistersInv
<1>3. \A i \in (0..4) \cup {30} \cup (19..23) \cup (27..29) : i \in Registers
  BY Zenon DEF Registers, CallerSaved, CalleeSaved
<1>a. /\ 0 \in Registers /\ 1 \in Registers /\ 2 \in Registers /\ 3 \in Registers
      /\ 4 \in Registers /\ 19 \in Registers /\ 20 \in Registers /\ 21 \in Registers
      /\ 22 \in Registers /\ 23 \in Registers /\ 30 \in Registers
  BY <1>3
<1>4. CASE BootMode
  <2>1. /\ pc = "boot_mode" /\ pc' \in {"run_payload_el2", "configure"} /\ dtb' = dtb
        /\ regs' = [regs EXCEPT ![0] = PAYLOAD_ADDRESS, ![1] = dtb, ![2] = machine.x1,
                                ![3] = machine.x2, ![4] = machine.x3]
        /\ sctlr' = sctlr /\ vm' = vm
    BY <1>4, Zenon DEF BootMode
  <2>2. dtb \in U64
    <3>1. dtb \in Blocks(heap, machine.dtb_size) /\ heap \in [start : U64, end : U64]
      BY <2>1, Zenon DEF ValuesInv, WithDtb, AfterModifyDt
    <3> QED
      BY <1>1, <3>1, BlockInHeap, Zenon
  <2>3. regs' \in [Registers -> Word]
    BY <1>1, <1>2, <1>a, <2>1, <2>2, ArgumentTypes, Zenon
  <2>4. /\ regs'[0] = PAYLOAD_ADDRESS /\ regs'[1] = dtb' /\ regs'[2] = machine'.x1
        /\ regs'[3] = machine'.x2 /\ regs'[4] = machine'.x3
    BY <1>1, <1>2, <1>a, <2>1
  <2>5. \A i \in 1..4 : regs'[i] = Arguments'[i]
    BY <2>4 DEF Arguments
  <2> QED
    BY <2>1, <2>3, <2>4, <2>5 DEF RegistersInv, Booted
<1>5. CASE Configure
  <2>1. pc' = "configure" /\ pc = "configure" /\ UNCHANGED <<dtb, regs, sctlr, vm>>
    BY <1>5, ConfigureStep, Zenon DEF Configure, BuilderInv
  <2>2. Arguments' = Arguments
    BY <1>1, <2>1, Zenon DEF Arguments
  <2> QED
    BY <2>1, <2>2, Zenon DEF RegistersInv, Booted
<1>6. CASE EntryPointEl1
  <2>1. /\ pc = "entry_point_el1" /\ dtb' = dtb /\ sctlr' = sctlr /\ vm' = TRUE
        /\ pc' = IF regs[0] = PAYLOAD_ADDRESS THEN "payload_el1" ELSE "lost"
        /\ regs' = [i \in Registers |-> IF i \in 0..3 THEN regs[i + 1] ELSE 0]
    BY <1>6, Zenon DEF EntryPointEl1, EretToEl1
  <2>2. regs[0] = PAYLOAD_ADDRESS /\ \A i \in 1..4 : regs[i] = Arguments[i]
    BY <2>1, Zenon DEF RegistersInv
  <2>3. regs' \in [Registers -> Word]
    <3>1. \A i \in 0..3 : i + 1 \in Registers
      BY <1>3
    <3> QED
      BY <1>2, <2>1, <3>1, U64Natural, Zenon
  <2>4. \A i \in 1..4 : regs'[i - 1] = Arguments'[i]
    <3>1. Arguments' = Arguments
      BY <1>1, <2>1, Zenon DEF Arguments
    <3>2. ASSUME NEW i \in 1..4
          PROVE  regs'[i - 1] = regs[i]
      <4>1. i - 1 \in 0..3 /\ i - 1 \in Registers /\ (i - 1) + 1 = i
        BY <1>3
      <4> QED
        BY <2>1, <4>1, Zenon
    <3> QED
      BY <2>2, <3>1, <3>2, Zenon
  <2> QED
    <3>1. \A i \in Registers \ 0..3 : regs'[i] = 0
      BY <2>1, Zenon
    <3> QED
      BY <2>1, <2>2, <2>3, <2>4, <3>1, Zenon DEF RegistersInv, Booted
<1>7. CASE SaveArguments
  <2>1. /\ pc = "run_payload_el2" /\ pc' = "disable_mmu" /\ UNCHANGED <<dtb, sctlr, vm>>
        /\ regs' = [regs EXCEPT ![19] = regs[0], ![20] = regs[1], ![21] = regs[2],
                                ![22] = regs[3], ![23] = regs[4], ![30] = LINK]
    BY <1>7, Zenon DEF SaveArguments
  <2>2. /\ regs[0] = PAYLOAD_ADDRESS /\ regs[1] = dtb /\ regs[2] = machine.x1
        /\ regs[3] = machine.x2 /\ regs[4] = machine.x3
    <3>1. regs[0] = PAYLOAD_ADDRESS /\ \A i \in 1..4 : regs[i] = Arguments[i]
      BY <2>1, Zenon DEF RegistersInv
    <3>2. 1 \in 1..4 /\ 2 \in 1..4 /\ 3 \in 1..4 /\ 4 \in 1..4
      OBVIOUS
    <3>3. /\ Arguments[1] = dtb /\ Arguments[2] = machine.x1
          /\ Arguments[3] = machine.x2 /\ Arguments[4] = machine.x3
      BY Zenon DEF Arguments
    <3> QED
      BY <3>1, <3>2, <3>3, Zenon
  <2>3. regs' \in [Registers -> Word]
    <3>1. /\ regs[0] \in Word /\ regs[1] \in Word /\ regs[2] \in Word /\ regs[3] \in Word
          /\ regs[4] \in Word
      BY <1>2, <1>a, Zenon
    <3>2. LINK \in Word
      BY <1>1, ArgumentTypes, Zenon
    <3>3. ASSUME NEW S, NEW V, NEW f \in [S -> V], NEW v \in V, NEW a
          PROVE  [f EXCEPT ![a] = v] \in [S -> V]
      BY Zenon
    <3> DEFINE f1 == [regs EXCEPT ![19] = regs[0]]
               f2 == [f1 EXCEPT ![20] = regs[1]]
               f3 == [f2 EXCEPT ![21] = regs[2]]
               f4 == [f3 EXCEPT ![22] = regs[3]]
               f5 == [f4 EXCEPT ![23] = regs[4]]
    <3>4. regs' = [f5 EXCEPT ![30] = LINK]
      BY <2>1, Zenon
    <3> HIDE DEF Word
    <3>5. f1 \in [Registers -> Word]
      BY <1>2, <3>1, <3>3, Zenon
    <3> HIDE DEF f1
    <3>6. f2 \in [Registers -> Word]
      BY <3>1, <3>3, <3>5, Zenon
    <3> HIDE DEF f2
    <3>7. f3 \in [Registers -> Word]
      BY <3>1, <3>3, <3>6, Zenon
    <3> HIDE DEF f3
    <3>8. f4 \in [Registers -> Word]
      BY <3>1, <3>3, <3>7
    <3> HIDE DEF f4
    <3>9. f5 \in [Registers -> Word]
      BY <3>1, <3>3, <3>8
    <3> HIDE DEF f5
    <3> QED
      BY <3>2, <3>3, <3>4, <3>9
  <2>4. /\ regs'[19] = PAYLOAD_ADDRESS /\ regs'[20] = dtb' /\ regs'[21] = machine'.x1
        /\ regs'[22] = machine'.x2 /\ regs'[23] = machine'.x3 /\ regs'[30] = LINK
    <3>1. DOMAIN regs = Registers /\ dtb' = dtb
      BY <1>2, <2>1, Zenon
    <3>2. /\ regs'[19] = regs[0] /\ regs'[20] = regs[1] /\ regs'[21] = regs[2]
          /\ regs'[22] = regs[3] /\ regs'[23] = regs[4] /\ regs'[30] = LINK
      BY <1>a, <2>1, <3>1
    <3> QED
      BY <1>1, <2>2, <3>1, <3>2
  <2>5. \A i \in 1..4 : regs'[i + 19] = Arguments'[i]
    BY <2>4 DEF Arguments
  <2> QED
    BY <2>1, <2>3, <2>4, <2>5 DEF RegistersInv, Booted
<1>8. CASE DisableMmu
  <2>1. /\ pc = "disable_mmu" /\ pc' = "write_sctlr" /\ UNCHANGED <<dtb, sctlr, vm>>
        /\ regs' = [i \in Registers |-> CASE i = 27 -> regs[29]
                                          [] i = 28 -> regs[30]
                                          [] i \in CallerSaved -> Clobbered
                                          [] OTHER -> regs[i]]
    BY <1>8, Zenon DEF DisableMmu
  <2>2. /\ regs[19] = PAYLOAD_ADDRESS /\ \A i \in 1..4 : regs[i + 19] = Arguments[i]
        /\ regs[30] = LINK
    BY <2>1, Zenon DEF RegistersInv
  <2>3. regs' \in [Registers -> Word]
    BY <1>2, <1>3, <2>1
  <2>4. \A i \in 19..23 : regs'[i] = regs[i]
    BY <1>3, <2>1 DEF CallerSaved
  <2>5. regs'[28] = LINK
    BY <1>3, <2>1, <2>2 DEF CallerSaved
  <2>6. \A i \in 1..4 : regs'[i + 19] = Arguments'[i]
    <3>1. Arguments' = Arguments
      BY <1>1, <2>1, Zenon DEF Arguments
    <3> QED
      BY <2>2, <2>4, <3>1
  <2> QED
    BY <2>1, <2>2, <2>3, <2>4, <2>5, <2>6 DEF RegistersInv, Booted
<1>9. CASE WriteSctlr
  <2>1. /\ pc = "write_sctlr" /\ UNCHANGED <<dtb, vm>> /\ sctlr' = sctlr \ {"M", "C", "I"}
        /\ pc' = IF regs'[30] = LINK THEN "restore" ELSE "lost"
        /\ regs' = [regs EXCEPT ![29] = regs[27], ![30] = regs[28]]
    BY <1>9, Zenon DEF WriteSctlr
  <2>2. /\ regs[19] = PAYLOAD_ADDRESS /\ \A i \in 1..4 : regs[i + 19] = Arguments[i]
        /\ regs[28] = LINK
    BY <2>1 DEF RegistersInv
  <2>3. regs' \in [Registers -> Word]
    BY <1>2, <1>3, <2>1
  <2>4. regs'[30] = LINK /\ \A i \in 19..23 : regs'[i] = regs[i]
    BY <1>2, <1>3, <2>1, <2>2
  <2>5. \A i \in 1..4 : regs'[i + 19] = Arguments'[i]
    <3>1. Arguments' = Arguments
      BY <1>1, <2>1, Zenon DEF Arguments
    <3> QED
      BY <2>2, <2>4, <3>1
  <2>6. sctlr' = {}
    BY <2>1, Zenon DEF ValuesInv, SctlrBits
  <2>7. pc' = "restore" /\ vm' = vm /\ pc = "write_sctlr" /\ regs'[19] = PAYLOAD_ADDRESS
    BY <2>1, <2>2, <2>4
  <2> QED
    BY <2>3, <2>5, <2>6, <2>7 DEF RegistersInv, Booted
<1>10. CASE RestoreArguments
  <2>1. /\ pc = "restore" /\ UNCHANGED <<dtb, vm, sctlr>>
        /\ pc' = IF regs[19] = PAYLOAD_ADDRESS THEN "payload_el2" ELSE "lost"
        /\ regs' = [regs EXCEPT ![0] = regs[20], ![1] = regs[21],
                                ![2] = regs[22], ![3] = regs[23]]
    BY <1>10, Zenon DEF RestoreArguments
  <2>2. /\ regs[19] = PAYLOAD_ADDRESS /\ regs[20] = dtb /\ regs[21] = machine.x1
        /\ regs[22] = machine.x2 /\ regs[23] = machine.x3 /\ sctlr = {}
    <3>1. regs[19] = PAYLOAD_ADDRESS /\ sctlr = {} /\ \A i \in 1..4 : regs[i + 19] = Arguments[i]
      BY <2>1, Zenon DEF RegistersInv
    <3>2. /\ regs[1 + 19] = dtb /\ regs[2 + 19] = machine.x1
          /\ regs[3 + 19] = machine.x2 /\ regs[4 + 19] = machine.x3
      BY <3>1, FourArguments
    <3>3. 1 + 19 = 20 /\ 2 + 19 = 21 /\ 3 + 19 = 22 /\ 4 + 19 = 23
      OBVIOUS
    <3> QED
      BY <3>1, <3>2, <3>3, Zenon
  <2>3. regs' \in [Registers -> Word]
    BY <1>2, <1>a, <2>1, Zenon
  <2>4. /\ regs'[0] = dtb' /\ regs'[1] = machine'.x1 /\ regs'[2] = machine'.x2
        /\ regs'[3] = machine'.x3
    <3>1. DOMAIN regs = Registers /\ dtb' = dtb
      BY <1>2, <2>1
    <3>2. /\ regs'[0] = regs[20] /\ regs'[1] = regs[21] /\ regs'[2] = regs[22]
          /\ regs'[3] = regs[23]
      BY <1>a, <2>1, <3>1
    <3> QED
      BY <1>1, <2>2, <3>1, <3>2
  <2>5. \A i \in 1..4 : regs'[i - 1] = Arguments'[i]
    BY <2>4 DEF Arguments
  <2> QED
    BY <2>1, <2>2, <2>3, <2>5, Zenon DEF RegistersInv, Booted
<1>11. CASE ~(\/ BootMode \/ Configure \/ EntryPointEl1 \/ SaveArguments \/ DisableMmu
              \/ WriteSctlr \/ RestoreArguments)
  <2>1. \/ UNCHANGED <<pc, dtb, regs, sctlr, vm>>
        \/ /\ UNCHANGED <<regs, sctlr, vm>> /\ pc # "payload_el1"
           /\ pc' \in {"heaps", "fdt", "modify_dt", "shared_alloc", "boot_mode", "panic"}
        \/ /\ UNCHANGED <<dtb, regs, sctlr, vm>>
           /\ pc = "configure" /\ pc' = "entry_point_el1"
    BY <1>11, Zenon DEF BootNext, Main, Ended, allvars, bootvars, Create, AddToHeap, ReadFdt,
                 ModifyDt, SharedAlloc, ConfigureDone
  <2>2. dtb' = dtb => Arguments' = Arguments
    BY <1>1, Zenon DEF Arguments
  <2>3. CASE UNCHANGED <<pc, dtb, regs, sctlr, vm>>
    BY <2>2, <2>3, Zenon DEF RegistersInv, Booted
  <2>4. CASE /\ UNCHANGED <<regs, sctlr, vm>> /\ pc # "payload_el1"
             /\ pc' \in {"heaps", "fdt", "modify_dt", "shared_alloc", "boot_mode", "panic"}
    BY <2>4, Zenon DEF RegistersInv, Booted
  <2>5. CASE /\ UNCHANGED <<dtb, regs, sctlr, vm>>
             /\ pc = "configure" /\ pc' = "entry_point_el1"
    BY <2>2, <2>5 DEF RegistersInv, Booted
  <2> QED
    BY <2>1, <2>3, <2>4, <2>5
<1> QED
  BY <1>4, <1>5, <1>6, <1>7, <1>8, <1>9, <1>10, <1>11

-----------------------------------------------------------------------------
(* What the boot establishes *)

BootInv == BuilderInv /\ ValuesInv /\ RegistersInv

\* The three invariants hold together.
LEMMA BootInvariance == BootSpec => []BootInv
<1>1. BootInit => BootInv
  <2> SUFFICES ASSUME BootInit
               PROVE  BootInv
    BY Zenon
  <2>1. /\ pc = "create" /\ machine \in Machines /\ heap = [start |-> 0, end |-> 0]
        /\ dt = <<>> /\ dtb = 0 /\ regs = [i \in Registers |-> Clobbered]
        /\ sctlr = SctlrBits /\ vm = FALSE
    BY Zenon DEF BootInit
  <2>2. heap \in [start : U64, end : U64]
    BY <2>1, U64Natural, Zenon
  <2>3. dt \in Seq(Reg(U64)) /\ sctlr \subseteq SctlrBits /\ vm \in BOOLEAN
    <3>1. ASSUME NEW S
          PROVE  <<>> \in Seq(S)
      OBVIOUS
    <3>2. dt \in Seq(Reg(U64))
      BY <2>1, <3>1, Zenon
    <3> QED
      BY <2>1, <3>2, Zenon
  <2>4. pc \in Pc /\ pc \notin HeapSet /\ pc \notin WithDtb
    BY <2>1, Zenon DEF Pc, HeapSet, WithDtb, AfterModifyDt
  <2>5. ValuesInv
    BY <2>1, <2>2, <2>3, <2>4 DEF ValuesInv
  <2>6. RegistersInv
    BY <2>1, Zenon DEF RegistersInv, Booted
  <2> QED
    BY <2>5, <2>6, BuilderInit, Zenon DEF BootInv
<1>2. BootInv /\ [BootNext]_allvars => BootInv'
  BY BuilderStep, ValuesStep, RegistersStep, Zenon DEF BootInv
<1> QED
  BY <1>1, <1>2, PTL DEF BootSpec

(***************************************************************************)
(* Type correctness of the boot, for every layout and machine; the new     *)
(* device tree lies in the heap it was allocated from, because the block   *)
(* that shared_alloc() takes is at least as large as the tree.             *)
(***************************************************************************)
THEOREM BootTypeCorrect == BootSpec => []BootTypeOK
<1>1. ASSUME BootInv
      PROVE  BootTypeOK
  <2>1. TypeOK /\ step \in 1..9
    BY <1>1, Zenon DEF BootInv, BuilderInv, ConfigInv, IInv
  <2>2. /\ pc \in Pc /\ machine \in Machines /\ heap \in [start : U64, end : U64]
        /\ dt \in Seq(Reg(U64)) /\ sctlr \subseteq SctlrBits /\ vm \in BOOLEAN
        /\ dtb = 0 \/ dtb \in Blocks(heap, machine.dtb_size)
    BY <1>1, Zenon DEF BootInv, ValuesInv
  <2>3. regs \in [Registers -> U64 \cup {Clobbered}]
    BY <1>1, Zenon DEF BootInv, RegistersInv
  <2>4. /\ dtb \in U64
        /\ dtb # 0 => heap.start <= dtb /\ dtb + machine.dtb_size <= heap.end
    <3>1. 0 \in U64
      BY LayoutPages DEF U64
    <3> QED
      BY <2>2, <3>1, BlockInHeap, Zenon
  <2> QED
    BY <2>1, <2>2, <2>3, <2>4, Zenon DEF BootTypeOK
<1> QED
  BY <1>1, BootInvariance, PTL

(***************************************************************************)
(* The payload is entered as promised: with the new device tree, on a word *)
(* boundary, in x0 and the boot loader's values in x1 to x3, at EL1 behind *)
(* a built stage-2 configuration and with its other registers cleared, at  *)
(* EL2 with the MMU and the caches off.                                    *)
(* The registers that run_payload_el2 relies on survive the two calls on   *)
(* the way, for any value those leave in the registers they may change.    *)
(***************************************************************************)
THEOREM PayloadEnteredRight == BootSpec => []PayloadEntered
<1>1. ASSUME BootInv
      PROVE  PayloadEntered
  <2>1. pc # "lost"
    BY <1>1, Zenon DEF BootInv, RegistersInv
  <2>2. ASSUME Booted
        PROVE  /\ regs[0] = dtb /\ dtb % WORD = 0 /\ regs[1] = machine.x1
               /\ regs[2] = machine.x2 /\ regs[3] = machine.x3
    <3>1. \A i \in 1..4 : regs[i + (-1)] = Arguments[i]
      BY <1>1, <2>2, Zenon DEF BootInv, RegistersInv
    <3>2. /\ regs[0] = dtb /\ regs[1] = machine.x1
          /\ regs[2] = machine.x2 /\ regs[3] = machine.x3
      BY <3>1, FourArguments
    <3>3. /\ machine \in Machines /\ heap \in [start : U64, end : U64]
          /\ dtb \in Blocks(heap, machine.dtb_size)
      BY <1>1, <2>2, Zenon DEF BootInv, ValuesInv, Booted, WithDtb, AfterModifyDt
    <3> QED
      BY <3>2, <3>3, BlockInHeap, Zenon
  <2>3. pc = "payload_el1" => /\ vm /\ phase = "built"
                              /\ \A i \in Registers \ 0..3 : regs[i] = 0
    BY <1>1, Zenon DEF BootInv, RegistersInv, BuilderInv
  <2>4. pc = "payload_el2" => sctlr = {} /\ ~vm
    BY <1>1, Zenon DEF BootInv, RegistersInv
  <2> QED
    BY <2>1, <2>2, <2>3, <2>4, Zenon DEF PayloadEntered
<1> QED
  BY <1>1, BootInvariance, PTL

(***************************************************************************)
(* A payload at EL1 can use all that it is told about: the memory nodes up *)
(* to the end of the mapped part, its own first instruction and the whole  *)
(* device tree, although the pages of the shared heap are computed from    *)
(* the address of its lock and not from that of the array behind it.       *)
(***************************************************************************)
THEOREM DescribedMemoryMapped == BootSpec => []DescribedIsMapped
<1>1. ASSUME BootInv, DtInv
      PROVE  DescribedIsMapped
  <2> SUFFICES ASSUME pc = "payload_el1"
               PROVE  /\ \A i \in DOMAIN dt :
                             MappedAsMemory({a \in Addresses(dt[i]) : a < DRAM_MAPPED_END})
                      /\ MappedAsMemory({PAYLOAD_ADDRESS})
                      /\ MappedAsMemory(dtb..dtb + machine.dtb_size - 1)
    BY Zenon DEF DescribedIsMapped
  <2> DEFINE c == configure_memory_access(machine.shared_heap)
             shared == SharedPages(machine.shared_heap)
             h == SharedHeap(machine.shared_heap)
  <2>1. step = 9 /\ BuilderInv /\ machine \in Machines
    BY <1>1, Zenon DEF BootInv, BuilderInv, ConfigInv
  <2>2. /\ c[4].base = DRAM_START /\ c[4].size = RITM_START - DRAM_START /\ c[4].use = Memory
        /\ c[5].base = RITM_END /\ c[5].size = DRAM_MAPPED_END - RITM_END /\ c[5].use = Memory
        /\ c[8].base = shared.base /\ c[8].size = shared.end - shared.base
        /\ c[8].use = Memory
    BY CallsAre, Zenon
  <2>3. /\ DRAM_START \in Nat /\ RITM_START \in Nat /\ RITM_END \in Nat
        /\ DRAM_MAPPED_END \in Nat /\ U64_MAX \in Nat /\ DRAM_MAPPED_END <= U64_MAX
        /\ RITM_START <= DRAM_MAPPED_END
    <3>1. U64_MAX \in Nat /\ DRAM_MAPPED_END <= U64_MAX
      BY LayoutPages, Zenon
    <3> QED
      BY <3>1, LayoutOrder
  <2>4. ASSUME NEW a \in U64, NEW j \in 1..8, c[j].base <= a, a < c[j].base + c[j].size
        PROVE  Access(a).use = c[j].use
    BY <2>1, <2>4, AccessByCall, Zenon
  <2> HIDE DEF c
  <2>5. ASSUME NEW a \in U64,
               (DRAM_START <= a /\ a < RITM_START) \/ (RITM_END <= a /\ a < DRAM_MAPPED_END)
        PROVE  Access(a).use = Memory
    <3>1. a \in Nat /\ 4 \in 1..8 /\ 5 \in 1..8
      BY U64Natural
    <3>2. \/ c[4].base <= a /\ a < c[4].base + c[4].size
          \/ c[5].base <= a /\ a < c[5].base + c[5].size
      <4>1. CASE DRAM_START <= a /\ a < RITM_START
        <5>1. DRAM_START + (RITM_START - DRAM_START) = RITM_START
          BY <2>3
        <5> QED
          BY <2>2, <4>1, <5>1, Zenon
      <4>2. CASE RITM_END <= a /\ a < DRAM_MAPPED_END
        <5>1. RITM_END + (DRAM_MAPPED_END - RITM_END) = DRAM_MAPPED_END
          BY <2>3
        <5> QED
          BY <2>2, <4>2, <5>1, Zenon
      <4> QED
        BY <2>5, <4>1, <4>2, Zenon
    <3>3. CASE c[4].base <= a /\ a < c[4].base + c[4].size
      BY <2>2, <2>4, <3>1, <3>3, Zenon
    <3>4. CASE c[5].base <= a /\ a < c[5].base + c[5].size
      BY <2>2, <2>4, <3>1, <3>4, Zenon
    <3> QED
      BY <3>2, <3>3, <3>4, Zenon
  <2>6. ASSUME NEW i \in DOMAIN dt, NEW a \in Addresses(dt[i]), a < DRAM_MAPPED_END
        PROVE  Access(a).use = Memory
    <3>1. dt = modify_dt(machine.fdt) /\ ~modify_dt_panics(machine.fdt)
      BY <1>1, Zenon DEF DtInv, AfterModifyDt
    <3>2. a \in Addresses(machine.fdt.reg[1]) /\ a \notin RITM_START..RITM_END - 1
      BY <2>1, <2>6, <3>1, CutExactly, Zenon
    <3>3. a \in U64 /\ machine.fdt.reg[1].address <= a
      BY <3>2, Zenon DEF Addresses
    <3>4. machine.fdt.reg \in Seq([address : U64, size : U64]) /\ machine.fdt.reg # <<>>
      BY <2>1, <3>1, BootAssumption, Zenon DEF Machine, Fdt, modify_dt_panics, dram_range_panics
    <3>5. ASSUME NEW S, NEW reg \in Seq(S), reg # <<>>
          PROVE  reg[1] \in S
      BY <3>5
    <3>6. machine.fdt.reg[1] \in [address : U64, size : U64]
      BY <3>4, <3>5, Zenon
    <3>7. DRAM_START <= machine.fdt.reg[1].address
      BY <2>1, <3>4, BootAssumption, Zenon
    <3>8. PICK start \in U64 : start = machine.fdt.reg[1].address
      BY <3>6, Zenon
    <3>9. start \in Nat /\ a \in Nat
      BY <3>3, <3>8, LayoutPages DEF U64
    <3>10. DRAM_START <= a /\ (a < RITM_START \/ RITM_END <= a)
      BY <2>3, <3>2, <3>3, <3>7, <3>8, <3>9
    <3> QED
      BY <2>5, <2>6, <3>3, <3>10, Zenon
  <2>7. Access(PAYLOAD_ADDRESS).use = Memory
    <3>1. /\ PAYLOAD_ADDRESS \in DRAM_START..RITM_START - 1 \cup RITM_END..DRAM_MAPPED_END - 1
          /\ PAYLOAD_ADDRESS \in U64
      BY <2>1, LayoutAssumption, ArgumentTypes, Zenon
    <3> QED
      BY <2>3, <2>5, <3>1
  <2>8. ASSUME NEW a \in dtb..dtb + machine.dtb_size - 1
        PROVE  Access(a).use = Memory
    <3>1. heap = h /\ heap \in [start : U64, end : U64] /\ dtb \in Blocks(heap, machine.dtb_size)
      BY <1>1, Zenon DEF BootInv, ValuesInv, HeapSet, WithDtb, AfterModifyDt
    <3>2. dtb \in U64 /\ h.start <= dtb /\ dtb + machine.dtb_size <= h.end
      BY <2>1, <3>1, BlockInHeap, Zenon
    <3>3. h.start \in U64 /\ h.end \in U64 /\ shared.base <= h.start /\ h.end <= shared.end
      BY <2>1, HeapInPages, Zenon
    <3>4. shared.base \in Nat /\ shared.end \in Nat
      BY <2>1, SharedInImage, Zenon
    <3>5. machine.dtb_size \in U64
      BY <2>1, BootAssumption, Zenon DEF Machine
    <3> HIDE DEF h, shared
    <3>6. a \in U64 /\ shared.base <= a /\ a < shared.end
      BY <2>3, <3>2, <3>3, <3>4, <3>5 DEF U64
    <3>7. a < shared.base + (shared.end - shared.base)
      BY <2>3, <3>4, <3>6 DEF U64
    <3>8. 8 \in 1..8
      OBVIOUS
    <3> QED
      BY <2>2, <2>4, <3>6, <3>7, <3>8, Zenon DEF shared
  <2> QED
    BY <2>6, <2>7, <2>8, Zenon DEF MappedAsMemory
<1> QED
  BY <1>1, BootInvariance, DtInvariance, PTL

(***************************************************************************)
(* Of the RITM image a payload at EL1 reaches the pages of the shared heap *)
(* and nothing else: no other call of configure_memory_access() touches    *)
(* the image, and rounding to pages adds no page without a byte of it.     *)
(***************************************************************************)
THEOREM ImageStaysUnmapped == BootSpec => []ImageUnmapped
<1>1. ASSUME BootInv
      PROVE  ImageUnmapped
  <2> SUFFICES ASSUME pc = "payload_el1", NEW a \in RITM_START..RITM_END - 1,
                      Access(a).use # Unused
               PROVE  \E b \in machine.shared_heap..machine.shared_heap + SHARED_HEAP_SIZE - 1 :
                          b \div PAGE_SIZE = a \div PAGE_SIZE
    BY Zenon DEF ImageUnmapped
  <2> DEFINE c == configure_memory_access(machine.shared_heap)
             h == machine.shared_heap
             shared == SharedPages(h)
             up == h + SHARED_HEAP_SIZE + PAGE_SIZE - 1
  <2>1. step = 9 /\ BuilderInv /\ machine \in Machines
    BY <1>1, Zenon DEF BootInv, BuilderInv, ConfigInv
  <2>2. /\ PAGE_SIZE \in Nat \ {0} /\ RITM_START \in Nat /\ RITM_END \in Nat /\ U64_MAX \in Nat
        /\ RITM_END <= U64_MAX /\ a \in Nat /\ a \in U64
    BY LayoutPages DEF U64
  <2>3. PICK j \in 1..8 : c[j].base <= a /\ a < c[j].base + c[j].size
    BY <2>1, <2>2, AccessByCall, Zenon
  <2>4. /\ shared.base \in Nat /\ shared.end \in Nat
        /\ shared.base = (h \div PAGE_SIZE) * PAGE_SIZE
        /\ shared.end = (up \div PAGE_SIZE) * PAGE_SIZE
    BY <2>1, SharedInImage, Zenon DEF SharedPages, align_down_to_page, align_up_to_page
  <2>5. shared.base <= a /\ a < shared.end
    <3>1. /\ c[1].base = 0 /\ c[1].size = FILTERED_MMIO_BASE - 0
          /\ c[2].base = FILTERED_MMIO_BASE /\ c[2].size = FILTERED_MMIO_END - FILTERED_MMIO_BASE
          /\ c[3].base = FILTERED_MMIO_END /\ c[3].size = DRAM_START - FILTERED_MMIO_END
          /\ c[4].base = DRAM_START /\ c[4].size = RITM_START - DRAM_START
          /\ c[5].base = RITM_END /\ c[5].size = DRAM_MAPPED_END - RITM_END
          /\ c[6].base = ECAM_START /\ c[6].size = ECAM_END - ECAM_START
          /\ c[7].base = HIGH_MMIO_START /\ c[7].size = HIGH_MMIO_END - HIGH_MMIO_START
          /\ c[8].base = shared.base /\ c[8].size = shared.end - shared.base
      BY CallsAre, Zenon
    <3>2. /\ FILTERED_MMIO_BASE < FILTERED_MMIO_END /\ FILTERED_MMIO_END < DRAM_START
          /\ DRAM_START < RITM_START /\ RITM_START < RITM_END /\ RITM_END < DRAM_MAPPED_END
          /\ DRAM_MAPPED_END <= ECAM_START /\ ECAM_START < ECAM_END
          /\ ECAM_END <= HIGH_MMIO_START /\ HIGH_MMIO_START < HIGH_MMIO_END
      BY LayoutOrder, Zenon
    <3>3. j = 1 \/ j = 2 \/ j = 3 \/ j = 4 \/ j = 5 \/ j = 6 \/ j = 7 \/ j = 8
      OBVIOUS
    <3> HIDE DEF c, shared
    <3>4. /\ FILTERED_MMIO_BASE \in Nat /\ FILTERED_MMIO_END \in Nat /\ DRAM_START \in Nat
          /\ DRAM_MAPPED_END \in Nat /\ ECAM_START \in Nat /\ ECAM_END \in Nat
          /\ HIGH_MMIO_START \in Nat /\ HIGH_MMIO_END \in Nat
      BY LayoutOrder, Zenon
    <3>5. RITM_START <= a /\ a < RITM_END
      BY <2>2
    <3>6. /\ ~(0 <= a /\ a < 0 + (FILTERED_MMIO_BASE - 0))
          /\ ~(FILTERED_MMIO_BASE <= a
               /\ a < FILTERED_MMIO_BASE + (FILTERED_MMIO_END - FILTERED_MMIO_BASE))
          /\ ~(FILTERED_MMIO_END <= a
               /\ a < FILTERED_MMIO_END + (DRAM_START - FILTERED_MMIO_END))
          /\ ~(DRAM_START <= a /\ a < DRAM_START + (RITM_START - DRAM_START))
          /\ ~(RITM_END <= a) /\ ~(ECAM_START <= a) /\ ~(HIGH_MMIO_START <= a)
      BY <2>2, <3>2, <3>4, <3>5
    <3>7. j = 8
      BY <2>3, <3>1, <3>3, <3>6, Zenon
    <3>8. shared.base <= a /\ a < shared.base + (shared.end - shared.base)
      BY <2>3, <3>1, <3>7, Zenon
    <3> QED
      BY <2>2, <2>4, <3>8
  <2>6. h \in Nat /\ SHARED_HEAP_SIZE \in Nat \ {0} /\ up \in Nat
    <3>1. h \in U64
      BY <2>1, BootAssumption, Zenon DEF Machine
    <3>2. h \in Nat /\ SHARED_HEAP_SIZE \in Nat \ {0}
      BY <3>1, LayoutAssumption, U64Natural, Zenon
    <3> HIDE DEF h
    <3> QED
      BY <2>2, <3>2
  <2> HIDE DEF h, shared
  <2>7. CASE a < h
    <3>1. (h \div PAGE_SIZE) * PAGE_SIZE <= a /\ a <= h
      BY <2>2, <2>4, <2>5, <2>6, <2>7
    <3>2. a \div PAGE_SIZE = h \div PAGE_SIZE
      BY <2>2, <2>6, <3>1, SamePage, Zenon
    <3>3. h \in h..h + SHARED_HEAP_SIZE - 1
      BY <2>6
    <3> QED
      BY <3>2, <3>3, Zenon DEF h
  <2>8. CASE h <= a /\ a < h + SHARED_HEAP_SIZE
    <3>1. a \in h..h + SHARED_HEAP_SIZE - 1
      BY <2>2, <2>6, <2>8
    <3> QED
      BY <3>1, Zenon DEF h
  <2>9. CASE h + SHARED_HEAP_SIZE <= a
    <3> DEFINE last == h + SHARED_HEAP_SIZE - 1
    <3>1. last \in Nat /\ last <= a /\ up = last + PAGE_SIZE /\ last \in h..last
      <4>1. last \in Nat /\ h <= last
        BY <2>6
      <4>2. last <= a
        BY <2>2, <2>6, <2>9
      <4>3. up = last + PAGE_SIZE
        BY <2>2, <2>6
      <4> HIDE DEF last
      <4> QED
        BY <2>6, <4>1, <4>2, <4>3
    <3>2. a < ((last + PAGE_SIZE) \div PAGE_SIZE) * PAGE_SIZE
      BY <2>4, <2>5, <3>1, Zenon
    <3> HIDE DEF last
    <3>3. last \div PAGE_SIZE = a \div PAGE_SIZE
      BY <2>2, <3>1, <3>2, SamePageBelow, Zenon
    <3> QED
      BY <3>1, <3>3, Zenon DEF h, last
  <2> QED
    BY <2>2, <2>6, <2>7, <2>8, <2>9
<1> QED
  BY <1>1, BootInvariance, PTL

=============================================================================

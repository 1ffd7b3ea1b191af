----------------------------- MODULE QemuLayout -----------------------------
(***************************************************************************)
(* The QEMU platform of platform/qemu.rs as pure functions: the address    *)
(* map it is built for, the device tree it hands to the payload, the boot  *)
(* mode it reads from the command line and the calls it makes on the       *)
(* stage-2 builder.                                                        *)
(***************************************************************************)
EXTENDS Stage2Builder, PowersOfTwo

CONSTANTS
    Memory, Device,         \* STAGE2_MEMORY_ATTRIBUTES, STAGE2_DEVICE_ATTRIBUTES
    Filter,                 \* the handler of the filtered MMIO page
    WORD,                   \* the alignment of usize, and FDT_ALIGNMENT
    FILTERED_MMIO_BASE,
    DRAM_START,
    RITM_START, RITM_END,   \* the RITM image
    DRAM_MAPPED_END,        \* 0x1_0000_0000
    ECAM_START, ECAM_END,   \* high PCIe ECAM
    HIGH_MMIO_START, HIGH_MMIO_END,
    SHARED_HEAP_SIZE,
    PAYLOAD_ADDRESS,
    GIB,                    \* what one entry of the initial page table maps
    DATA_OFFSET             \* of the array in a SpinMutex: its lock comes first

FILTERED_MMIO_END == FILTERED_MMIO_BASE + PAGE_SIZE

DEFAULT_FDT_ADDRESS == DRAM_START

\* The image is in the second GiB: only that is normal memory when RITM runs.
\* The lock before the heap is shorter than a word.
ASSUME LayoutAssumption ==
    /\ Memory \in Attributes /\ Device \in Attributes /\ Filter \in Handlers
    /\ WORD \in Nat \ {0} /\ (\E k \in 0..WORD : WORD = Pow2[k]) /\ PAGE_SIZE % WORD = 0
    /\ SHARED_HEAP_SIZE \in Nat \ {0} /\ DATA_OFFSET \in 0..WORD - 1
    /\ {FILTERED_MMIO_BASE, DRAM_START, RITM_START, RITM_END, DRAM_MAPPED_END,
        ECAM_START, ECAM_END, HIGH_MMIO_START, HIGH_MMIO_END} \subseteq Pages
    /\ 0 < FILTERED_MMIO_BASE /\ FILTERED_MMIO_END < DRAM_START
    /\ DRAM_START < RITM_START /\ RITM_START < RITM_END /\ RITM_END < DRAM_MAPPED_END
    /\ DRAM_MAPPED_END <= ECAM_START /\ ECAM_START < ECAM_END
    /\ ECAM_END <= HIGH_MMIO_START /\ HIGH_MMIO_START < HIGH_MMIO_END
    /\ HIGH_MMIO_END <= MAP_LIMIT
    /\ PAYLOAD_ADDRESS \in DRAM_START..RITM_START - 1 \cup RITM_END..DRAM_MAPPED_END - 1
    /\ GIB \in Nat /\ GIB <= RITM_START /\ RITM_END <= 2 * GIB
    /\ MAX_ALLOWED_RANGES >= 7 /\ MAX_MEMORY_ACCESS_HANDLERS >= 1

-----------------------------------------------------------------------------
(* Page arithmetic *)

align_down_to_page(address) == (address \div PAGE_SIZE) * PAGE_SIZE

\* One page too many for an address that is aligned already.
align_past_page(address) == (address \div PAGE_SIZE + 1) * PAGE_SIZE

align_up_to_page(address) == align_down_to_page(address + PAGE_SIZE - 1)

\* usize and u64 have the same width here.
to_ipa(address) == address

\* A subtraction of usize panics when the result is negative: the build has
\* overflow checks.
Underflows(a, b) == a < b

-----------------------------------------------------------------------------
(* The machine: what the boot loader and QEMU leave for RITM. *)

BootArgs == {"ritm.boot_mode=el1", "ritm.boot_mode=el2", "ritm.boot_mode=?", "quiet"}

\* A flattened device tree: its memory@40000000 node, with the ranges of the
\* reg property (none when the property is missing), and the words of bootargs
\* (none when there are no bootargs).
Fdt == [memory_node : BOOLEAN,
        reg : Seq([address : U64, size : U64]),
        bootargs : Seq(BootArgs)]

\* initial_idmap(): three entries of a GiB each.
initial_idmap(address) ==
    CASE address \div GIB = 0 -> "device"
      [] address \div GIB = 1 -> "memory"
      [] address \div GIB = 2 -> "device"
      [] OTHER -> "unmapped"

\* A QEMU ELF boot leaves x0 empty.
fdt_address(x0) == IF x0 = 0 THEN DEFAULT_FDT_ADDRESS ELSE x0

\* dram_range(): the expect()s on the way, and the first range of the node.
dram_range_panics(fdt) ==
    \/ ~fdt.memory_node
    \/ fdt.reg = <<>>
    \/ fdt.reg[1].address + fdt.reg[1].size > U64_MAX

dram_range(fdt) ==
    [start |-> fdt.reg[1].address, end |-> fdt.reg[1].address + fdt.reg[1].size]

\* Subtractions that wrap around instead.
modify_dt_wraps(fdt) == dram_range_panics(fdt)

\* modify_dt(): the bank is cut in two around the image.
modify_dt_panics(fdt) ==
    \/ dram_range_panics(fdt)
    \/ Underflows(RITM_START, dram_range(fdt).start)
    \/ Underflows(dram_range(fdt).end, RITM_END)

modify_dt(fdt) ==
    LET dram == dram_range(fdt) IN
    <<[address |-> dram.start,
       size |-> (RITM_START - dram.start) % (U64_MAX + 1)],
      [address |-> RITM_END,
       size |-> (dram.end - RITM_END) % (U64_MAX + 1)]>>

\* boot_mode(): the first valid word decides, an unknown mode is skipped.
boot_mode(bootargs) ==
    IF \E i \in DOMAIN bootargs :
           /\ bootargs[i] = "ritm.boot_mode=el2"
           /\ \A j \in 1..i - 1 : bootargs[j] # "ritm.boot_mode=el1"
      THEN "El2" ELSE "El1"

-----------------------------------------------------------------------------
(* Memory *)

\* The array behind the lock of SHARED_HEAP, as the allocator uses it: whole
\* words only.
SharedHeap(shared_heap) ==
    LET data == shared_heap + DATA_OFFSET IN
    [start |-> ((data + WORD - 1) \div WORD) * WORD,
     end |-> ((data + SHARED_HEAP_SIZE) \div WORD) * WORD]

\* The buddy allocator: the blocks of a fresh heap that can hold this many
\* bytes are naturally aligned powers of two.
BlockSize(size) ==
    LET fitting == {b \in {Pow2[i] : i \in 0..size + WORD} : size <= b /\ WORD <= b} IN
    CHOOSE b \in fitting : \A c \in fitting : b <= c

\* Blocks that start in the heap and may end behind it.
BlocksUnbounded(heap, size) ==
    {a \in heap.start..heap.end - 1 : a % BlockSize(size) = 0}

Blocks(heap, size) ==
    {a \in heap.start..heap.end : /\ a % BlockSize(size) = 0
                                  /\ a + BlockSize(size) <= heap.end}

\* Only the pages that lie wholly above the start.
SharedPagesTruncated(shared_heap) ==
    [base |-> align_up_to_page(shared_heap),
     end |-> align_up_to_page(shared_heap + SHARED_HEAP_SIZE)]

\* The pages the guest gets of it.
SharedPages(shared_heap) ==
    [base |-> align_down_to_page(shared_heap),
     end |-> align_up_to_page(shared_heap + SHARED_HEAP_SIZE)]

\* configure_memory_access(): the calls, in order.
configure_memory_access(shared_heap) ==
    LET Call(start, end, use) == [base |-> to_ipa(start), size |-> end - start, use |-> use]
        shared == SharedPages(shared_heap)
    IN  <<Call(0, FILTERED_MMIO_BASE, Device),
          Call(FILTERED_MMIO_BASE, FILTERED_MMIO_END, Filter),
          Call(FILTERED_MMIO_END, DRAM_START, Device),
          Call(DRAM_START, RITM_START, Memory),
          Call(RITM_END, DRAM_MAPPED_END, Memory),
          Call(ECAM_START, ECAM_END, Device),
          Call(HIGH_MMIO_START, HIGH_MMIO_END, Device),
          Call(shared.base, shared.end, Memory)>>

=============================================================================

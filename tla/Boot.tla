-------------------------------- MODULE Boot --------------------------------
(***************************************************************************)
(* The boot of RITM on the QEMU platform: main() from the entry to the     *)
(* first instruction of the payload, at EL1 behind stage-2 translation or  *)
(* at EL2 with the MMU and the caches off.  One core runs; what varies is  *)
(* the machine it finds and where the linker put the shared heap.          *)
(***************************************************************************)
EXTENDS QemuLayout

CONSTANTS
    Machines,       \* the machines to boot on
    Clobbered       \* whatever a call leaves in a caller-saved register

\* The registers at the entry, the device tree and its address, the size of
\* the device tree once modified, and the address of SHARED_HEAP.
Machine == [x0 : U64, x1 : U64, x2 : U64, x3 : U64, fdt : Fdt, fdt_at : U64,
            dtb_size : U64 \ {0}, shared_heap : U64]

\* The shared heap is a part of the image, and the range of memory@40000000
\* starts at or above the address in its name.
ASSUME BootAssumption ==
    /\ Machines \subseteq Machine
    /\ \A m \in Machines : /\ RITM_START <= m.shared_heap
                           /\ m.shared_heap + DATA_OFFSET + SHARED_HEAP_SIZE <= RITM_END
                           /\ m.fdt.reg # <<>> => DRAM_START <= m.fdt.reg[1].address
    /\ Clobbered \notin U64

\* Of x0 to x30, the ones the boot uses.
CallerSaved == 0..4 \cup {30}

CalleeSaved == 19..23 \cup 27..29

Registers == CallerSaved \cup CalleeSaved

VARIABLES
    pc,         \* where main() is
    machine,    \* never changes
    heap,       \* the shared heap, once the allocator has it
    dt,         \* the memory nodes of the new device tree
    dtb,        \* the address of the new device tree, or 0
    step,       \* of configure_memory_access
    regs,       \* the general-purpose registers
    sctlr,      \* the enable bits of SCTLR_EL2
    vm          \* HCR_EL2.VM: stage-2 translation

bootvars == <<pc, machine, heap, dt, dtb, step, regs, sctlr, vm>>

allvars == <<vars, bootvars>>

Pc == {"create", "heaps", "fdt", "modify_dt", "shared_alloc", "boot_mode", "configure",
       "entry_point_el1", "run_payload_el2", "disable_mmu", "write_sctlr", "restore",
       "payload_el1", "payload_el2", "lost", "panic"}

SctlrBits == {"M", "C", "I"}

Reg(U) == [address : U, size : U]

\* The type invariant; the device tree lies in the heap it was allocated from.
BootTypeOK ==
    /\ TypeOK
    /\ pc \in Pc /\ machine \in Machines
    /\ heap \in [start : U64, end : U64]
    /\ dt \in Seq(Reg(U64)) /\ dtb \in U64 /\ step \in 1..9
    /\ regs \in [Registers -> U64 \cup {Clobbered}]
    /\ sctlr \subseteq SctlrBits /\ vm \in BOOLEAN
    /\ dtb # 0 => heap.start <= dtb /\ dtb + machine.dtb_size <= heap.end

BootInit ==
    /\ Init
    /\ pc = "create" /\ machine \in Machines
    /\ heap = [start |-> 0, end |-> 0]
    /\ dt = <<>> /\ dtb = 0 /\ step = 1
    /\ regs = [i \in Registers |-> Clobbered]
    /\ sctlr = SctlrBits /\ vm = FALSE

-----------------------------------------------------------------------------
(* main() *)

\* create(), parts(), console::init() and logger::init(): the first call of
\* each, so none of the expect()s can fire.
Create ==
    /\ pc = "create"
    /\ pc' = "heaps"
    /\ UNCHANGED <<vars, machine, heap, dt, dtb, step, regs, sctlr, vm>>

\* The arrays of HEAP and SHARED_HEAP are locked for ever and given to the
\* allocators.
AddToHeap ==
    /\ pc = "heaps"
    /\ heap' = SharedHeap(machine.shared_heap)
    /\ pc' = "fdt"
    /\ UNCHANGED <<vars, machine, dt, dtb, step, regs, sctlr, vm>>

\* Fdt::from_raw() reads the tree through the initial page table.  An address
\* without a mapping, or without a tree, panics; unaligned reads of device
\* memory may.
ReadFdt ==
    LET address == fdt_address(machine.x0) IN
    /\ pc = "fdt"
    /\ \/ /\ address = machine.fdt_at /\ initial_idmap(address) # "unmapped"
          /\ pc' = "modify_dt"
       \/ /\ address # machine.fdt_at \/ initial_idmap(address) # "memory"
          /\ pc' = "panic"
    /\ UNCHANGED <<vars, machine, heap, dt, dtb, step, regs, sctlr, vm>>

ModifyDt ==
    /\ pc = "modify_dt"
    /\ IF modify_dt_panics(machine.fdt)
         THEN pc' = "panic" /\ UNCHANGED dt
         ELSE pc' = "shared_alloc" /\ dt' = modify_dt(machine.fdt)
    /\ UNCHANGED <<vars, machine, heap, dtb, step, regs, sctlr, vm>>

\* shared_alloc(): any block that is large enough, or a panic.
SharedAlloc ==
    /\ pc = "shared_alloc"
    /\ IF Blocks(heap, machine.dtb_size) = {}
         THEN pc' = "panic" /\ UNCHANGED dtb
         ELSE pc' = "boot_mode" /\ dtb' \in Blocks(heap, machine.dtb_size)
    /\ UNCHANGED <<vars, machine, heap, dt, step, regs, sctlr, vm>>

\* The payload's arguments are passed on in x1 to x4 of run_payload_el2 and in
\* the same place, shifted by one, of run_payload_el1.
BootMode ==
    /\ pc = "boot_mode"
    /\ pc' = IF boot_mode(machine.fdt.bootargs) = "El2" THEN "run_payload_el2"
                                                        ELSE "configure"
    /\ regs' = [regs EXCEPT ![0] = PAYLOAD_ADDRESS, ![1] = dtb,
                            ![2] = machine.x1, ![3] = machine.x2, ![4] = machine.x3]
    /\ UNCHANGED <<vars, machine, heap, dt, dtb, step, sctlr, vm>>

-----------------------------------------------------------------------------
(* EL1: setup_stage2() and entry_point_el1() *)

\* The next call on the builder; stage2_config() expects it to succeed.
Configure ==
    /\ pc = "configure" /\ step <= 8
    /\ \E call \in {configure_memory_access(machine.shared_heap)[step]} :
           IF call.use \in Handlers THEN HandleRange(call.base, call.size, call.use)
                                    ELSE AllowRange(call.base, call.size, call.use)
    /\ step' = step + 1
    /\ pc' = IF result' = "Ok" THEN "configure" ELSE "panic"
    /\ UNCHANGED <<machine, heap, dt, dtb, regs, sctlr, vm>>

\* After the last one it builds the configuration.
ConfigureDone ==
    /\ pc = "configure" /\ step = 9
    /\ Build
    /\ pc' = "entry_point_el1"
    /\ UNCHANGED <<machine, heap, dt, dtb, step, regs, sctlr, vm>>

\* eret_to_el1(): x0 to x3 are the payload's, the others are cleared.
EretToEl1 == regs' = [i \in Registers |-> IF i \in 0..3 THEN regs[i + 1] ELSE 0]

\* entry_point_el1(): stage 2 is turned on in HCR_EL2 before the ERET to the
\* payload. The timer, GIC, SPSR_EL2 and EL1 system registers it writes in
\* between are not modelled.
EntryPointEl1 ==
    /\ pc = "entry_point_el1"
    /\ vm' = TRUE
    /\ EretToEl1
    /\ pc' = IF regs[0] = PAYLOAD_ADDRESS THEN "payload_el1" ELSE "lost"
    /\ UNCHANGED <<vars, machine, heap, dt, dtb, step, sctlr>>

-----------------------------------------------------------------------------
(* EL2: run_payload_el2() and disable_mmu_and_caches() *)

\* The return address of the bl in run_payload_el2.
LINK == 1

\* The last argument is left in x4.
SaveArgumentsVolatile ==
    /\ pc = "run_payload_el2"
    /\ regs' = [regs EXCEPT ![19] = regs[0], ![20] = regs[1], ![21] = regs[2],
                            ![22] = regs[3], ![30] = LINK]
    /\ pc' = "disable_mmu"
    /\ UNCHANGED <<vars, machine, heap, dt, dtb, step, sctlr, vm>>

\* run_payload_el2() up to the bl.
SaveArguments ==
    /\ pc = "run_payload_el2"
    /\ regs' = [regs EXCEPT ![19] = regs[0], ![20] = regs[1], ![21] = regs[2],
                            ![22] = regs[3], ![23] = regs[4], ![30] = LINK]
    /\ pc' = "disable_mmu"
    /\ UNCHANGED <<vars, machine, heap, dt, dtb, step, sctlr, vm>>

\* disable_mmu_and_caches() saves the frame pointer and the return address and
\* calls disable_mmu_and_caches_impl(), a Rust function: it keeps only the
\* callee-saved registers.  Its result stays in x0.
DisableMmu ==
    /\ pc = "disable_mmu"
    /\ regs' = [i \in Registers |->
                   CASE i = 27 -> regs[29]
                     [] i = 28 -> regs[30]
                     [] i \in CallerSaved -> Clobbered
                     [] OTHER -> regs[i]]
    /\ pc' = "write_sctlr"
    /\ UNCHANGED <<vars, machine, heap, dt, dtb, step, sctlr, vm>>

\* The rest of it: M, C and I are cleared, and ret goes to x30.
WriteSctlr ==
    /\ pc = "write_sctlr"
    /\ sctlr' = sctlr \ {"M", "C", "I"}
    /\ regs' = [regs EXCEPT ![29] = regs[27], ![30] = regs[28]]
    /\ pc' = IF regs'[30] = LINK THEN "restore" ELSE "lost"
    /\ UNCHANGED <<vars, machine, heap, dt, dtb, step, vm>>

\* The rest of run_payload_el2(): br to the payload.
RestoreArguments ==
    /\ pc = "restore"
    /\ regs' = [regs EXCEPT ![0] = regs[20], ![1] = regs[21],
                            ![2] = regs[22], ![3] = regs[23]]
    /\ pc' = IF regs[19] = PAYLOAD_ADDRESS THEN "payload_el2" ELSE "lost"
    /\ UNCHANGED <<vars, machine, heap, dt, dtb, step, sctlr, vm>>

Ended == pc \in {"payload_el1", "payload_el2", "lost", "panic"} /\ UNCHANGED allvars

Main ==
    \/ Create \/ AddToHeap \/ ReadFdt \/ ModifyDt \/ SharedAlloc \/ BootMode
    \/ Configure \/ ConfigureDone \/ EntryPointEl1
    \/ SaveArguments \/ DisableMmu \/ WriteSctlr \/ RestoreArguments

BootNext == Main \/ Ended

\* The processor keeps executing.
BootSpec == BootInit /\ [][BootNext]_allvars /\ WF_allvars(Main)

-----------------------------------------------------------------------------
(* Properties *)

Booted == pc \in {"payload_el1", "payload_el2"}

Addresses(reg) == {a \in U64 : reg.address <= a /\ a < reg.address + reg.size}

\* Every byte of it is normal memory to the guest.
MappedAsMemory(S) == \A a \in S : Access(a).use = Memory

\* What RITM needs: the tree where it looks for it, in the GiB it has mapped as
\* memory; a bank of memory around its image; a block for the new tree.
Supported(m) ==
    /\ m.fdt_at = (IF m.x0 = 0 THEN DRAM_START ELSE m.x0)
    /\ m.fdt_at \in GIB..2 * GIB - 1
    /\ m.fdt.memory_node /\ m.fdt.reg # <<>>
    /\ LET bank == m.fdt.reg[1] IN
       /\ bank.address + bank.size <= U64_MAX
       /\ bank.address <= RITM_START /\ RITM_END <= bank.address + bank.size
    /\ Blocks(SharedHeap(m.shared_heap), m.dtb_size) # {}

\* A supported machine boots: no expect() on the way fires, and above all
\* configure_memory_access() is never refused, wherever the linker puts the
\* shared heap. HEAP, RITM's own heap, is taken to be large enough for what is
\* allocated from it on the way.
SupportedBoots == Supported(machine) ~> Booted

\* The memory of the new device tree is the bank of the old one (modify_dt reads
\* only the first range of its reg) without the RITM image: nothing of RITM's,
\* nothing that is not there, nothing lost, wherever the bank starts and ends.
DescribedExactly ==
    Booted => UNION {Addresses(dt[i]) : i \in DOMAIN dt}
              = Addresses(machine.fdt.reg[1]) \ (RITM_START..RITM_END - 1)

\* A payload at EL1 can use what it is told about: the memory of the device
\* tree up to the end of what RITM maps, its own code, and the whole device
\* tree, which lies in the shared heap.
DescribedIsMapped ==
    pc = "payload_el1" =>
        /\ \A i \in DOMAIN dt :
               MappedAsMemory({a \in Addresses(dt[i]) : a < DRAM_MAPPED_END})
        /\ MappedAsMemory({PAYLOAD_ADDRESS})
        /\ MappedAsMemory(dtb..dtb + machine.dtb_size - 1)

\* Of the RITM image, a payload at EL1 reaches only the pages that hold the
\* shared heap.
ImageUnmapped ==
    pc = "payload_el1" =>
        \A a \in RITM_START..RITM_END - 1 :
            Access(a).use # Unused =>
                \E b \in machine.shared_heap..machine.shared_heap + SHARED_HEAP_SIZE - 1 :
                    b \div PAGE_SIZE = a \div PAGE_SIZE

\* The payload starts with the new device tree in x0 and the boot loader's x1 to
\* x3; at EL1 behind stage 2 and with nothing of RITM in the other registers, at
\* EL2 with the MMU and the caches off. The registers of run_payload_el2 survive
\* the calls, and no jump goes astray.
PayloadEntered ==
    /\ pc # "lost"
    /\ Booted => /\ regs[0] = dtb /\ dtb % WORD = 0 /\ regs[1] = machine.x1
                 /\ regs[2] = machine.x2 /\ regs[3] = machine.x3
    /\ pc = "payload_el1" => /\ vm /\ phase = "built"
                            /\ \A i \in Registers \ 0..3 : regs[i] = 0
    /\ pc = "payload_el2" => sctlr = {} /\ ~vm

=============================================================================

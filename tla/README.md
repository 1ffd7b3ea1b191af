# RITM in TLA+

RITM is a shim hypervisor for AArch64: it boots at EL2, keeps a stage-2
translation over a guest that it enters at EL1, emulates or refuses the guest's
accesses to some pages, and stands between the guest and the PSCI firmware so
that every core comes back through EL2. This directory holds TLA+ models of
that code, the TLC runs that check them on small instances, and TLAPS proofs of
the properties that matter most for every instance.

## The system

| Part | Code | State | Operations | Model |
|---|---|---|---|---|
| PSCI interception, core life cycle | `src/hypervisor.rs` | `SECONDARY_STACKS`, `SUSPEND_CONTEXTS`, the stacks, per-core EL2 registers | `handle_psci`, `psci_cpu_on`, `psci_cpu_suspend`, `restore_from_suspend`, `get_secondary_stack`, `entry_point_el1` | `PsciCores`, `CoreService` |
| Fixed-size map | `src/simple_map.rs` | an array of optional items | `new`, `get_mut`, `insert`, `remove` | `SimpleMap` |
| Stage-2 configuration | `src/stage2.rs` | identity map, handler registry, allowed ranges, `STAGE2_CONFIG` | `allow_range`, `handle_range`, `build`, `find` | `Registry`, `Stage2Builder`, `AccessPolicy` |
| Guest traps | `src/hypervisor.rs`, `src/exceptions.rs` | saved registers, EL1 exception registers | `handle_sync_lower`, `try_memory_access_handler`, `inject_data_abort`, `sync_lower` | `GuestTrap`, `GuestMachine` |
| Access decoding | `memory_access/src/lib.rs` | none | `decode_memory_access`, `extend_read_result` | `MemoryAccess` |
| HVC responses | `src/hvc_response.rs` | saved registers | `modify_register_state` | `GuestTrap` |
| Platform | `src/platform.rs`, `src/platform/qemu.rs` | device tree, filtered MMIO counter | `configure_memory_access`, `modify_dt`, boot mode, `handle_hvc` | `QemuLayout`; the filtered page and `handle_hvc` in `GuestTrap` |
| Boot | `src/main.rs`, `src/arch.rs` | heaps, device tree, registers | `main`, `run_payload_el1`, `run_payload_el2`, `disable_mmu_and_caches` | `Boot` |
| Console, logger, panic handler | `src/console.rs`, `src/logger.rs` | the console and its lock, the log level | `init`, `log`, `panic` | `Console`; the `system_off` also in `PsciCores` |
| Early page tables | `src/pagetable.rs` | the initial table | | which addresses it maps, in `QemuLayout` |
| Build | `build.rs`, `build_support/` | the files in `OUT_DIR` | `main` and its functions | `PlatformBuild` |

How they interact: `main` runs once on the boot core and ends in
`entry_point_el1`, the only code that enters the guest. The first call builds
the stage-2 configuration from the platform's calls; it never changes again.
From then on every core is either in the guest or in `handle_sync_lower`. A
PSCI call of the guest traps there. `CPU_ON` and `CPU_SUSPEND` are replaced by
RITM's own calls of the firmware, with a stack from a shared map and a record
of what to do at the top of that stack; a core that comes up runs the record
and ends in `entry_point_el1` again. The other calls are forwarded. A panic on
any core turns the machine off, after a report on the console that all cores
share. Where the image and the payload are is decided by the build script, from
the platform's configuration file.

The behaviours that are hard to test: several cores in `psci_cpu_on` and
`psci_cpu_suspend` at once, with the maps locked but the stacks written outside
the lock; cores turned off and on again, and suspended, in any order; a suspend
that fails after its context was filed; maps that fill up; a panic with a lock
held; ranges that touch or reach the end of the address space; a registry
filled in any order and then searched by bisection; a shared heap that the
linker puts anywhere in the image; panics on several cores, in the middle of a
log record or of another panic; files that change while the build script runs.

## Modules

* `SimpleMap`: the map as a function from slots to items. The slot number is
  kept because the hypervisor keeps pointers into the array.
* `PsciCores`: the cores. `pc[c]` says where core `c` is: off or asleep, in the
  guest, at a step of a PSCI handler, starting, or panicked. `stacks` and
  `contexts` are the two maps, `call[c]` the arguments and locals of the handler
  on core `c`, `sp[c]` the stack it runs on, `stage2[c]` whether its stage-2
  translation is on. `asked[c]` is a history variable: the request the firmware
  accepted, which the properties compare with what the core then does.
* `PsciCoresInv`: the inductive invariants. `PsciCoresProofs`: the proofs for any
  guest and firmware, with the lemmas about `SimpleMap`. `MCPsciCores`: instances
  for TLC.
* `CoreService`: PSCI as the guest sees it, without stacks, maps, records or
  locks. A core is off, starting, on, in a call, suspended and so on; a call takes
  effect in one step or returns; a start enters the guest once, with the entry
  point of the request that was accepted. `PsciCoresService` maps `PsciCores` to
  it. `PsciCoresServiceProofs`: the proofs under conditions on the guest, the
  firmware or the maps, and that the service is implemented.
* `Registry`: the handler registry as its readers see it, with `find`.
* `Stage2Builder`: the builder. It extends `Registry`. `idmap` is the use of each page,
  `regions` and `allowed` the two tables in the order of the code, `result` what
  the last call returned, `granted` a history variable with the accepted calls.
* `AccessPolicy`: what the configuration promises, without tables: a call that
  answers `Ok` gives exactly the pages it asked for, all unused before, the use it
  asked for, and is recorded; a call that answers with an error changes nothing;
  the built policy is fixed. The mapping shows it the builder's `result` and
  `granted`. `Stage2BuilderProofs`: the proofs.
* `MemoryAccess`: the `memory_access` crate as operators. A syndrome is the
  number the processor reports; the number of bits of a byte is a constant.
* `GuestTrap`: synchronous exceptions from the guest, composed with
  `MemoryAccess` and with `find` of `Registry`. `guest[c]` is the state of a
  core at EL1, `frame[c]` what the vector and `sync_lower` saved, `syndrome[c]`
  the EL2 fault registers, `counter` the counter of QEMU's filtered page. The
  instruction, the state before it and what the callback was asked and answered
  are history variables. `program` is the guest that runs: for TLC one core that
  executes everything, or two that load the counter. `MCGuestTrap`: instances for
  TLC. `GuestTrapProofs`: the proofs, with those about `MemoryAccess`.
* `GuestMachine`: the machine as the guest sees it, without EL2, frames or
  syndromes. A core executes each load, store and call in one step, against the
  device as it is at that moment, or stops. `GuestTrap` maps itself to it.
* `QemuLayout`: the QEMU platform as functions: page arithmetic, the device tree
  it writes, the boot mode, the eight calls on the stage-2 builder, the blocks the
  shared heap can give out. It extends `Stage2Builder`.
* `Boot`: `main` from its entry to the payload's first instruction, composed with
  `QemuLayout` and so with the builder. `machine` is what QEMU, the boot loader
  and the linker leave; `regs`, `sctlr` and `vm` are registers of the core.
  `MCBoot`: the machines TLC boots. `BootProofs`: the proofs.
* `Console`: the cores in log calls and in the panic handler. `job[c]` is what
  core `c` executes and `pc[c]` where it is in it; `masked` are the cores with
  exceptions masked, `lock` the holder of the console. `MCConsole`,
  `ConsoleProofs`: instances and proofs.
* `PlatformBuild`: `build.rs` step by step between the files, which may change at
  any time, and cargo, which decides whether to run it. `MCPlatformBuild`,
  `PlatformBuildProofs`: instances and proofs.
* `PowersOfTwo`, `NatLemmas`: `1 << n` as a recursive function, and the facts about
  natural numbers that several proofs need: induction, multiples and rounding,
  remainders, powers of two.

### PsciCores and the code

An atomic step is a piece of a handler between two points where another core
can interfere: taking a lock, writing a stack, calling the firmware.

| Code | Actions |
|---|---|
| `psci_cpu_on` | `CpuOnCall` (the trap), `CpuOnStack` (`get_secondary_stack`), `CpuOnWrite` (`start_core` stores the closure), `CpuOnAccepted` / `CpuOnRefused` (the firmware's answer) |
| `psci_cpu_suspend` | `CpuSuspendCall`, `SuspendInsert`, `SuspendStack`, `SuspendWrite`, then `SuspendAccepted` (power-down) or `SuspendReturned` and `SuspendReturn` |
| waking up | `FirmwareStarts`, `FirmwareWakes`, `SecondaryEntry` (runs what is on the stack), `RestoreFromSuspend`, `EntryPointEl1` |
| forwarded calls | `CpuOff`, `ForwardSuspend`, `FirmwareResumesGuest`, `SystemOff`, `SystemReset` |
| panics | `UnhandledTrap`, the panicking branches of the map operations, `PanicHandler` |

Three details carry weight.

* A core has two names. `CPU_ON` passes the affinity bits; `MPIDR_EL1` also has
  bit 31 set. Both are used as keys, so a core can own two stacks. This is why
  a `CPU_ON` aimed at a suspended core cannot overwrite its resume record
  (`ResumeAsRequested`), and why the map fills up early (`max_cores`). Masking
  the register is the mutant that breaks `ResumeAsRequested`: one problem cannot
  be fixed that way without meeting the other.
* The closure is several words and is written without a lock. Cores that write
  one stack at the same time leave a mixture of their entry points (`Mixed`),
  and a core that starts meanwhile may read one (`Readable`).
* Nothing unwinds: a panic inside a critical section leaves the lock held, and
  the other cores wait for it until the panic handler turns the machine off.

A lock held for one step is not a variable: the step is atomic. The firmware
and the runtime library are external and are modelled from how RITM uses them:
`CPU_ON` succeeds only for a core that is off, may be refused at any time, and a
call with a power-down state may return.

Two constants describe the environment. `Serialised` says that the guest turns a
core on only when it is off and no other core is doing so, as Linux does.
`FirmwareSuspends` are the optional suspend calls that the firmware implements.

### GuestTrap and the code

| Code | Actions |
|---|---|
| the vector and `sync_lower` (entry) | `Trap`: the guest executes an instruction; its registers go to the two frames |
| `handle_sync_lower`, data abort | `HandleDataAbort`: `try_memory_access_handler`, then `inject_data_abort` or its panic |
| `handle_sync_lower`, HVC and SMC | `HandleCall`: the PSCI or platform result goes to the frame, and the PC moves for an SMC |
| `handle_sync_lower`, anything else | `UnexpectedException` |
| `sync_lower` (exit) | `Return`: the guest's registers come from the frames |

Between two traps the guest does what it likes (`GuestRuns`). A core handles its
exception alone; the one thing two cores share is the counter, which is touched
in one atomic step. What a PSCI call does to the cores is in `PsciCores`; here
it returns any value or error. The callbacks of the filtered page are QEMU's,
translated; the regions with one callback belong to an arbitrary platform, whose
callbacks return any value or a fault.

The properties compare the guest after `Return` with what the architecture says
of the instruction, written without shifts, masks or frames: the value of a load
is defined by its sign, the syndrome is encoded field by field. For an abort
taken from EL0 the vector and the exception class are left open: the code uses
those of an abort from EL1h, and the repository does not say what it intends.

`ImplementsMachine` says it of whole behaviours, all cores at once. The state of a
core is the guest's until the handler has decided, and what the frame will restore
from then on (`Views`), so the instruction takes effect in the one step of
`HandleDataAbort` or `HandleCall`; `Trap` and `Return` are invisible. The device is
the counter. What the machine may do with an instruction (`Executes`, `Stops`) is
given by the operators that state the architecture, and by the callbacks for what
the device answers. A core that panics has stopped: on a fetch abort, and on an
abort for which the guest has no vector, and nowhere else.

### Boot, Console and PlatformBuild and the code

| Code | Actions |
|---|---|
| `main`, up to the payload | `Create`, `AddToHeap`, `ReadFdt`, `ModifyDt`, `SharedAlloc`, `BootMode` |
| `setup_stage2`, `stage2_config`, `entry_point_el1` | `Configure` (one call of `configure_memory_access`), `ConfigureDone`, `EntryPointEl1` with `EretToEl1` |
| `run_payload_el2`, `disable_mmu_and_caches` | `SaveArguments`, `DisableMmu`, `WriteSctlr`, `RestoreArguments` |
| `console::init`, `logger::init` | `Share`, `InitLogger` |
| `log`, `panic` | `Log`, `Panic`, `EnterPanic`, `Lock`, `Write` / `WriteFails`, `Unlock`, `SystemOff` / `SystemOffFails` |
| `main` of `build.rs` | `Discover`, `PlatformConfig`, `payload_config`, `WriteLinkerScript`, `WriteModule`, `WritePayload` |

* Every `expect()` of `main` is a branch to `"panic"`; a jump through a register
  that lost its value goes to `"lost"`. A call of compiled code leaves anything in
  the caller-saved registers (`Clobbered`).
* The array of the shared heap comes after its lock (`DATA_OFFSET`), and the
  allocator uses whole words of it only; which of the possible blocks it returns
  is left open.
* A line on the console takes two writes. `exception_free` masks the core's
  exceptions and restores what it found. A failed write of a log record panics
  with the lock held; a failed write of a report is ignored. The writes of the
  shipped platform do not fail: `Failing` stands for other platforms. `reported` has
  the cores that wrote a whole panic report, `cut` those of which a failed write
  lost a part.
* Asynchronous exceptions at EL2 are taken only by a core that the firmware
  starts with exceptions unmasked (`Unmasked`), and panic.
* The build reads each file when it gets there; `moved` says whether one changed
  since the build was started. Cargo, rustc and the linker are external: the script
  runs again when it failed, when the platform differs or when an input that it
  named has changed.

## Runs

| Run | Instance | Shows |
|---|---|---|
| `hotplug` | 2 cores, 4 slots, serialised guest, firmware with both forwarded suspends; 115,052 states | `EntryAsRequested`, `OwnStackOnly`, `ImplementsService` |
| `any_guest` | 2 cores, 4 slots, any guest, no forwarded suspends; 691,144 states | `ResumeAsRequested`, `StartFindsRecord`, `ResumeFindsContext`, `SuspendContextsExact`, `StacksDisjoint`, `NoCapacityPanic`, `GuestConfined` |
| `full_maps` | 2 cores, a third target that is not there, 2 slots, fairness; 44,194 states | `TypeOK`, `CallsAdvance`, `CallsComplete` |
| `max_cores` | 2 cores, 2 slots | `NoCapacityPanic` is violated |
| `start_race` | as `any_guest` | `OwnStackOnly` is violated |
| `forwarded_confined` | as `hotplug`, firmware with `SYSTEM_SUSPEND` | `GuestConfined` is violated |
| `stage2` | 5 pages of 2 bytes, 10 addresses, 2 allowed ranges, 3 handler regions; 7,505 states | `TypeOK`, `AccessAsGranted`, `FreeRangesAccepted`, `ImplementsPolicy` |
| `trap` | 1 core with every form of load and store, 7 registers, 8 addresses, and calls; or 2 cores that load the counter with every width; 105,047 states | `TypeOK`, `GuestSeesExecution`, `CounterExact`, `ImplementsMachine` |
| `boot` | 48 pages of 4 bytes; 73 device trees, then 8 places of the shared heap with trees of 5 sizes, then 16 combinations of the tree's address and x0; 2,172 states | `BootTypeOK`, `DescribedExactly`, `DescribedIsMapped`, `ImageUnmapped`, `PayloadEntered`, `SupportedBoots` |
| `console` | 3 cores at the `Debug` level, all writes and `SYSTEM_OFF` may fail; 125,009 states | `ConsoleTypeOK`, `WholeLines`, `SelfDeadlockOnlyAfterFailure`, `OffAfterReport`, `PanicAdvances`, `PanicEnds` |
| `platform_build` | 3 platforms, 8 configurations, 3 payloads, 2 changes of files at any time; 731,911 states | `BuildTypeOK`, `ImageIsFresh`, `OutputsAgree`, `ValidBuildSucceeds` |
| `address_optional` | as `platform_build`, 1 change | `AddressOnlyForPayload` is violated |

Bounds. Two cores are enough for the races between a core and its target, for a
core that races with its own suspend, and for two callers that target one
another; four slots are two per core, the most two cores can use. With two slots
the maps overflow. Two entry points that differ in both words make a mixture
visible. No counter is unbounded. The builder's pages are two bytes so that
misaligned bases and sizes exist; the largest address is such that the end of
the last page overflows, and `MAP_LIMIT` lies below it so that `map_range` can
fail. Three regions make the bisection take two steps on either side.
For the traps a byte has one bit, so that a 64-bit register has 256 values and
the four access widths are 1, 2, 4 and 8 bits: sign and cut occur at each of them.
A page has 64 bytes, enough for the offsets of the filtered page. The registers
are the first and last of each part of the frame, and the zero register;
`MAX_COUNTER_LOADS` caps the loads of the counter, which otherwise grows.
For the boot a page has four bytes and a word two, so that a heap may start at
each place relative to both; the banks of memory end within the image, at its end,
behind it, at and behind the end of what is mapped and behind the address space, and
start at the first address of DRAM, later but below the image, at its start, in it
and behind it.
Three cores are one that holds the console lock, one that waits and one that
panics; `RECORDS` bounds the records of `main`, those of the handlers are
unbounded. The build has numbers below 16, a payload limit of 8 bytes with
payloads one byte either side of it, and a configuration with each error;
`MAX_EDITS` bounds the changes: two let an input and its repair, or two inputs,
change around one build.

Fairness (`FairSpec`, for `CallsComplete` only): each core that executes RITM's
code keeps executing it, and the firmware starts the cores it accepted. A core in
the hypervisor runs with nothing to preempt it, and a lock is released after one
step, so weak fairness per core is enough. Nothing is assumed of the guest or of
interrupts: a suspended core may sleep for ever. `BootSpec` assumes that the one
core keeps executing `main`. `ConsoleSpec` assumes weak fairness of each core in
`log` or `panic`: exceptions are masked there and nothing preempts EL2. The spin
lock is not fair, so a core that logs for ever could keep a panicking one
waiting: `PanicEnds` is stated under `Quiet`, that from some time on no new record
is begun and the firmware no longer refuses `SYSTEM_OFF`. At the shipped
level (`Info`) the handlers log nothing, which is the first half.

### What the violations show

* `max_cores`: the boot core turns on the second core, and both suspend. The
  three stacks have three keys, the map two slots; the last
  `get_secondary_stack` panics. `MAX_CORES` is documented as the number of cores
  the platform supports (`src/platform.rs:30`).
* `start_race`: `get_secondary_stack` requires that a CPU's stack is written only
  by this CPU (`src/hypervisor.rs:646`). Two overlapping `CPU_ON` calls for one
  target, the first already accepted, do not respect it.
* `forwarded_confined`: `SYSTEM_SUSPEND` is forwarded with the guest's entry
  point, and the firmware resumes there at the level of the caller, which is
  RITM's; the README says that stage 2 is kept (`README.md:23`).
* `address_optional`: a configuration needs `payload_address` "if the platform
  should support embedding a payload" (`README.md:119`); without it no build
  succeeds, because `build.rs` reads the key in every case.

## Proofs

All theorems hold for every value of the constants that satisfies the named
assumptions of the modules. Most say only that sorts are disjoint and bounds are
naturals (`ConstantsAssumption`, `Stage2Assumption`, `ConsoleAssumption`,
`BuildAssumption`, `MemoryAccessAssumption`, `NoneAssumption`, `ResultAssumption`).
The others describe the environment:

* `LayoutAssumption`: the regions of the platform are page-aligned and in order, a
  word is a power of two that divides the page, and the lock in front of the shared
  heap is shorter than a word;
* `BootAssumption`: the linker puts the shared heap inside the image, and the bank
  of memory in QEMU's device tree does not begin below `DRAM_START`;
* `GuestAssumption`: a 64-bit load has a 64-bit target, and translation keeps the
  offset in the page;
* `RegistryAssumption`: the handlers are sorted and disjoint, which
  `Stage2BuilderProofs` proves of what `build` makes;
* `CounterAssumption`: the loads of the counter do not exhaust its 64 bits.

TLC evaluates them on each instance.

`PsciCoresProofs` proves `Spec => []IInv` with one lemma per action. The
properties are not inductive. What `IInv` adds:

* `StacksInv`: keys are unique, and the two names of a core keep the two kinds of
  start record apart: a slot with an affinity key never holds
  `restore_from_suspend`, a slot with a register key holds nothing else. Without
  it a resume could run a closure;
* `LocalsInv`: at each step the pointer in hand is the slot of the key it was
  asked for, which survives the inserts of other cores;
* `StartInv`: a core that is being started has its record on its own stack;
* `ContextsInv`, `ContextKeysInv`: the context of a core exists just while the
  core is between its insert and its remove, and is the one it asked for.

From it follow `TypeCorrect`, `ContextsExact`, `ResumeNeverPanics`,
`ResumeCorrect`, `NoSharedStack` and `StartCorrect`, for any guest and any firmware.
`MapExact` says what the map operations mean, whatever slots the items are in: a
map is the set of its pairs, and each operation looks up, replaces or deletes the
pair of its key.

`CallsNeverSetBack` is the safety part of `CallsComplete`. `Remaining` counts the
steps a core may still take in the hypervisor, six at most; every step of a core
there lowers its count, and what other cores do, a reset or a panic included, never
raises it. A core at the secondary entry has a record to run (`StartCorrect`), and a
core waits only for a lock whose holder has panicked, which the panic handler ends.
What is left to TLC is the inference from these to "eventually", which needs
fairness.

`PsciCoresServiceProofs` adds what needs a condition. `CapacitySuffices` counts
keys: the maps never overflow if
`Cardinality(Targets) + Cardinality(Cores) <= MAX_CORES`, the bound that
`max_cores` shows to be needed. `EntryCorrect` and `StacksRespected` assume
`Serialised` and use the further invariant `SerialisedInv`: the target of a
`CPU_ON` in progress is off and nobody else's. `Stage2Invariance` holds for any
firmware; `GuestStaysConfined` adds that no forwarded suspend is implemented.

The refinement puts these together: for a serialised guest and maps with
room, `PsciCores` implements `CoreService` (`CoresImplementService`). A step of a
handler before the firmware's answer is invisible because the view of its core,
power state, target and entry point, stays the same; reading the start record is
invisible because of `EntryAsRequested`, in the state after the step; the
panicking branches of the maps are not taken; and the guest that a call returns to
is under stage 2.

`Stage2BuilderProofs` proves that the tables stay well-formed, the registry
sorted, and registry and page table apart; that `page_ranges_overlap` is exact,
hence no free range is refused (`NoSpuriousRefusal`); and that the builder
implements `AccessPolicy` (`BuilderImplementsPolicy`): the step of a call that
answers `Ok` is a grant of exactly the pages of its range, and one of a refused call,
a failure of `map_range` after all checks included, changes the use of no page.
An insert into the registry moves
regions; the proof that their pages keep their handlers is that a sorted,
disjoint registry has one region per page (`UniqueRegion`). The bisection of
`find` is exact on a sorted registry of any length (`FindExact`): its loop keeps
the region that holds the address, if there is one, between its two bounds, by
induction over the number of regions left. With `GrantInv`, which ties each
accepted request to the entry it left in a table, every address is routed as the
platform asked (`AccessesRouted`).

`GuestTrapProofs` proves that a guest finds each trapped instruction executed, or
aborted, as the architecture says (`GuestExecutes`), for any number of cores, any
programs, any registry, any width of a byte and any page size. Its parts are:

* `ExtendExact`: the shifts, the mask and the sign bit of `extend_read_result` give
  the signed or unsigned value of the load, cut to the target register;
* `DecodeExact`: `decode_memory_access` reads width, register, sign, target and the
  stored value back from the fields of the syndrome and the saved frame, for the
  registers in each part of the frame and for the zero register;
* what `read_gpr`, `write_gpr`, `modify_register_state` and `inject_data_abort` do to
  a frame is what the guest finds in its registers once the frame is restored;
* `FindExact` for the handler of the address.

The invariant `TrapInv` moves the property to where it is decided: from the handler
on, restoring the frame would show the guest its instruction executed. `Return`
then has only to restore it. The counter needs an invariant across the cores,
`CounterInv`: the values loaded and those held by cores that have not yet returned
are distinct and together are all below the counter. The loads under way are
counted, because the counter must not wrap before they end (`CounterIsExact`). Each
action is first shown to move the values in one of three ways (`CounterMoves`): it
leaves them, takes the next one, or hands a held one to the guest; the invariant is
then proved of the three.

`TrapImplementsMachine` is the refinement of `GuestMachine`. The lemma of each
handler (`CallStep`, `UnexpectedStep`, `AccessStep`) concludes that the core and the
counter move as `Executes` or `Stops` says (`Handled`); `TrapInv` supplies that the
frame and the registers in hand are still those the instruction trapped with, and
`AccessHandled` that an access that faults leaves the counter alone. `Trap` and
`Return` leave the view of their core unchanged, and no action changes the view of another.

`ConsoleProofs` proves, for any number of cores, that the core that holds the lock
is masked and is in a log call or a panic (`ConsoleInvariant`), and from it that
lines are whole, that a core waits for its own lock only after a failed write, that
a core with a console turns the machine off only after its own report
(`ReportBeforeOff`; whole, unless a write failed), and the types
(`ConsoleTypeCorrect`). Of the other cores' reports nothing is claimed: the machine
may go off while they are written. `PanicsMoveOn` is the
safety part of `PanicEnds`: a panicking core never leaves the panic handler, and its
`StepsLeft` falls with every step but a turn of the spin lock and a refusal of
firmware to turn the machine off. An exception may throw it back to the start of the handler
once, since taking it masks the next: the count is of places in the handler, and of
one more pass while the mask that `exception_free` will restore lets an exception in.

`BootProofs` proves that the memory described to the payload is the machine's
without the image, for every layout and machine (`MemoryDescribed`). Its second
result is about the composition: the builder accepts the eight calls of
`configure_memory_access`, wherever the linker puts the shared heap
(`ConfigurationAccepted`). The invariant says which calls the tables hold; the
pages that a heap inside the image rounds out to stay inside it, so the calls are
apart. With it, a machine that is `Supported` never panics on the way to the
payload (`SupportedNeverPanics`), which is `SupportedBoots` without its fairness.

`BootInv` adds three things. `BuilderInv` carries the builder's own invariant, and
with it `AccessAsGranted`, over to the boot, and says that what is granted are the
calls made so far and nothing else.
A payload at EL1 then finds its memory, its code and its device tree mapped
(`DescribedMemoryMapped`), and of the image no page that does not hold shared heap
(`ImageStaysUnmapped`). `ValuesInv` keeps the device tree in a block of the shared
heap (`BootTypeCorrect`). `RegistersInv` says at each step of `run_payload_el2`
which registers hold the arguments and the return address; the calls on the way
clobber only registers that hold none of them (`PayloadEnteredRight`). At EL1 the
registers other than x0 to x3 are zero.

`PlatformBuildProofs` proves that the outputs of a script that succeeded, and the
parts of every image, fit together, whatever changed meanwhile (`OutputsFit`): the
locals of `main` are read once, the files in `OUT_DIR` up to the step it is at are
made from them, and the array type in `payload.rs` lets rustc include only a payload
of the size that was checked.
`ParseExact` is about the loop over the lines, by induction over the lines read:
the parser finds both addresses just when the file is valid, and then those of the
last lines that give them, which is how `ValidConfig` and `ValueOf` define it.
`BuildsAreFresh` and `ValidBuildsSucceed` need `FreshInv`, input by input: the
locals read from an input that has not changed are what it says now (`ReadInv`),
what is written is made from them (`WrittenInv`), and so are the outputs that an
earlier success left (`SucceededInv`). Cargo reuses those only if no tracked input
has changed (`CargoInv`), and the script names every input it reads.

The two inductions over data are over sets of numbers: a non-empty set of naturals
has a least element (`LeastOf`), which is applied to the numbers for which the claim
fails.

In the long proof modules a leaf that needs no arithmetic names Zenon as its prover.
The translation to SMT infers types, and its cost grows with the number of steps
translated before it in the same module; with the SMT solver kept for the steps that
need it, each module is checked in minutes.

Only model-checked: liveness, `CallsComplete`, `SupportedBoots` and `PanicEnds`. It
rests on fairness, and the proof system has no `ENABLED`. The safety part of each is
proved (`CallsNeverSetBack` with `StartCorrect`, `SupportedNeverPanics`,
`PanicsMoveOn` with `NoSelfDeadlock`), and so are all other properties of the passing
runs.

## Not modelled

* A return address or vector that wraps around the end of the address space.
* Forwarded PSCI calls that change no state RITM or a property sees (`VERSION`,
  `FEATURES`, `AFFINITY_INFO`, `MIGRATE`, statistics and so on).
* What a guest that runs at EL2 does beyond turning cores or the system off, and
  the payload booted at EL2: RITM is gone then.
* Caches, TLBs and barriers (`arch.rs`, `pagetable.rs`), the depth of a stack, and
  memory ordering beyond the torn closure. The models see memory as one store; that
  the device tree is cleaned out of the data cache before the MMU goes off at EL2 is
  a question below that level.
* The timer, GIC, `SPSR_EL2` and EL1 system registers that `entry_point_el1` writes
  before it enters the guest, and, after the boot, the registers `eret_to_el1`
  clears: no state of the models depends on them.
* The exhaustion of `HEAP`, RITM's own heap, during the boot.
* The registers of the UART, the attribute bits of page tables, and the
  `Write` implementation of `&Console`, which no code calls.
* The text of the linker script and of the generated sources; what they say is
  modelled.
* The test payloads: guests, read for what they expect of RITM.

Modelled, but with nothing claimed, because the repository does not say what is meant:

* After a log write that fails its core waits for the lock it holds.
  `SelfDeadlockOnlyAfterFailure` shows that nothing else leads there, and `PanicEnds`
  excepts it.
* The vector and the exception class of an abort injected into a guest at EL0. The rest
  of the abort, and all of it for a guest at EL1h, is stated.
* Memory above 4 GiB, which `modify_dt` describes and `configure_memory_access` does
  not map. `DescribedIsMapped` is about the memory below.

----------------------------- MODULE PsciCores -----------------------------
(***************************************************************************)
(* The life of the CPU cores under RITM: how the hypervisor intercepts the *)
(* guest's PSCI calls CPU_ON and CPU_SUSPEND, forwards the others, starts  *)
(* and resumes cores on its own EL2 stacks, and enters the guest at EL1    *)
(* (hypervisor.rs: handle_psci, psci_cpu_on, psci_cpu_suspend,             *)
(* restore_from_suspend, get_secondary_stack, entry_point_el1).            *)
(*                                                                         *)
(* Every core runs the code at its own pace.  The cores share two locked   *)
(* SimpleMaps and the stacks' memory, which is written through raw         *)
(* pointers after the lock is released.  The firmware at EL3 (external) is *)
(* modelled by what PSCI lets it do with the calls RITM makes.             *)
(***************************************************************************)
EXTENDS SimpleMap

CONSTANTS
    Cores,              \* the cores of the machine, named by their affinity
    BootCore,           \* the core that boots
    Targets,            \* the affinities a guest may pass to CPU_ON
    Addresses,          \* entry point addresses
    ContextIds,         \* PSCI context identifiers
    EntryPoints,        \* the (address, context) pairs the guest uses
    Payload,            \* where the boot core enters the payload
    MAX_CORES,          \* Platform::MAX_CORES, the capacity of both maps
    Resume,             \* restore_from_suspend as the function to run
    Serialised,         \* TRUE: the guest turns on a core only while
                        \* AFFINITY_INFO reports it OFF, one call at a time
    FirmwareSuspends    \* the optional suspend calls, all of them forwarded
                        \* by RITM, that the firmware implements

EntryPoint == [entry_point_address : Addresses, context_id : ContextIds]

\* The register with everything but the affinity masked off.
read_mpidr_el1_masked(c) == [aff |-> c, res1 |-> FALSE]

\* The two forms in which the code names a core: the MPIDR argument of CPU_ON
\* holds affinity bits only, the register MPIDR_EL1 also has RES1 bit 31 set.
MpidrArgument(t) == [aff |-> t, res1 |-> FALSE]

read_mpidr_el1(c) == [aff |-> c, res1 |-> TRUE]

Mpidr == [aff : Targets, res1 : BOOLEAN]

\* What the top of a Stack holds: nothing yet, the closure of psci_cpu_on
\* (which captures the entry point), or restore_from_suspend.
StackTop == EntryPoint \cup {Resume, None}

VARIABLES
    pc,         \* where each core is
    stacks,     \* SECONDARY_STACKS
    contexts,   \* SUSPEND_CONTEXTS
    call,       \* the arguments and locals of the handler a core executes
    sp,         \* the stack a core runs or starts on: an index of stacks, or 0
                \* for the boot stack and for a core without an EL2 stack
    stage2,     \* whether stage-2 translation is on at the core
    asked       \* history: the accepted request a core starts or resumes for

vars == <<pc, stacks, contexts, call, sp, stage2, asked>>

-----------------------------------------------------------------------------
\* Not executing: powered off, started by the firmware but not there yet,
\* powered down in a CPU_SUSPEND of RITM or in a forwarded suspend, or the
\* whole system is off.
Asleep == {"OFF", "ON_PENDING", "SUSPENDED", "SUSPENDED_BY_GUEST", "SYSTEM_OFF"}

\* Panicked, in the last two with the lock of a map still held: nothing
\* unwinds.
Panics == {"panic", "panic_in_stacks", "panic_in_contexts"}

OnSteps == {"on_stack", "on_write", "on_smc"}

SuspendSteps == {"suspend_insert", "suspend_stack", "suspend_write",
                 "suspend_smc", "suspend_return"}

StartSteps == {"secondary_entry", "restore_from_suspend", "entry_point_el1"}

\* The guest runs at EL1, or (resumed by the firmware behind RITM's back) EL2.
GuestSteps == {"guest", "guest_el2"}

Pc == Asleep \cup Panics \cup OnSteps \cup SuspendSteps \cup StartSteps \cup GuestSteps

Call == [target : Targets \cup {None}, entry : EntryPoint, ptr : 0..MAX_CORES]

Request == [fn : {"BOOT", "CPU_ON", "CPU_SUSPEND"}, entry : EntryPoint]

ASSUME ConstantsAssumption ==
    /\ BootCore \in Cores
    /\ Cores \subseteq Targets
    /\ Payload \in EntryPoints
    /\ EntryPoints \subseteq EntryPoint
    /\ MAX_CORES \in Nat
    /\ Resume # None /\ Resume \notin EntryPoint /\ None \notin EntryPoint
    /\ None \notin Targets \cup Call \cup Request
    /\ None \notin Item(Mpidr, StackTop)
    /\ Serialised \in BOOLEAN
    /\ FirmwareSuspends \subseteq {"CPU_DEFAULT_SUSPEND", "SYSTEM_SUSPEND"}

\* The type invariant: every slot, pointer and local is what the code's types
\* say, and a stack pointer never leaves the array it was taken from.
TypeOK ==
    /\ pc \in [Cores -> Pc]
    /\ stacks \in SimpleMaps(Mpidr, StackTop, MAX_CORES)
    /\ contexts \in SimpleMaps(Mpidr, EntryPoint, MAX_CORES)
    /\ call \in [Cores -> Call \cup {None}]
    /\ sp \in [Cores -> 0..MAX_CORES]
    /\ stage2 \in [Cores -> BOOLEAN]
    /\ asked \in [Cores -> Request \cup {None}]

\* At power-on the boot core has run main() up to run_payload_el1.
BootPc == [c \in Cores |-> IF c = BootCore THEN "entry_point_el1" ELSE "OFF"]

BootCall == [c \in Cores |-> IF c = BootCore
                               THEN [target |-> None, entry |-> Payload, ptr |-> 0]
                               ELSE None]

BootRequest == [c \in Cores |-> IF c = BootCore
                                  THEN [fn |-> "BOOT", entry |-> Payload]
                                  ELSE None]

Init ==
    /\ pc = BootPc
    /\ stacks = New(MAX_CORES)
    /\ contexts = New(MAX_CORES)
    /\ call = BootCall
    /\ sp = [c \in Cores |-> 0]
    /\ stage2 = [c \in Cores |-> FALSE]
    /\ asked = BootRequest

Goto(c, l) == pc' = [pc EXCEPT ![c] = l]

\* A lock is only ever found held by a core that panicked inside its critical
\* section; the other critical sections are single steps.
StacksLocked == \E d \in Cores : pc[d] = "panic_in_stacks"

ContextsLocked == \E d \in Cores : pc[d] = "panic_in_contexts"

\* A get_secondary_stack() that hands out the end of the array when it is full.
GetSecondaryStackPastEnd(c, mpidr, next) ==
    /\ ~StacksLocked
    /\ \/ /\ Contains(stacks, mpidr)
          /\ call' = [call EXCEPT ![c].ptr = GetMut(stacks, mpidr)]
          /\ UNCHANGED stacks
       \/ /\ ~Contains(stacks, mpidr) /\ HasRoom(stacks, mpidr)
          /\ call' = [call EXCEPT ![c].ptr = InsertSlot(stacks, mpidr)]
          /\ stacks' = Insert(stacks, mpidr, None)
       \/ /\ ~Contains(stacks, mpidr) /\ ~HasRoom(stacks, mpidr)
          /\ call' = [call EXCEPT ![c].ptr = MAX_CORES + 1]
          /\ UNCHANGED stacks
    /\ Goto(c, next)
    /\ UNCHANGED <<contexts, sp, stage2, asked>>

\* get_secondary_stack(): the stack of this key, allocated on first use; the
\* pointer outlives the lock.  A full map panics.
GetSecondaryStack(c, mpidr, next) ==
    /\ ~StacksLocked
    /\ \/ /\ Contains(stacks, mpidr)
          /\ call' = [call EXCEPT ![c].ptr = GetMut(stacks, mpidr)]
          /\ Goto(c, next)
          /\ UNCHANGED stacks
       \/ /\ ~Contains(stacks, mpidr) /\ HasRoom(stacks, mpidr)
          /\ call' = [call EXCEPT ![c].ptr = InsertSlot(stacks, mpidr)]
          /\ stacks' = Insert(stacks, mpidr, None)
          /\ Goto(c, next)
       \/ /\ ~Contains(stacks, mpidr) /\ ~HasRoom(stacks, mpidr)
          /\ Goto(c, "panic_in_stacks")
          /\ UNCHANGED <<stacks, call>>
    /\ UNCHANGED <<contexts, sp, stage2, asked>>

-----------------------------------------------------------------------------
(* CPU_ON: psci_cpu_on() *)

\* AFFINITY_INFO reports t as OFF and no core is turning it on.
MayTurnOn(t) ==
    /\ t \in Cores /\ pc[t] = "OFF"
    /\ \A d \in Cores : call[d] # None => call[d].target # t

CpuOnCall(c, t, e) ==
    /\ pc[c] = "guest"
    /\ Serialised => MayTurnOn(t)
    /\ call' = [call EXCEPT ![c] = [target |-> t, entry |-> e, ptr |-> 0]]
    /\ Goto(c, "on_stack")
    /\ UNCHANGED <<stacks, contexts, sp, stage2, asked>>

\* A stack that is already there is taken to hold the closure already.
CpuOnStackOnce(c) ==
    /\ pc[c] = "on_stack"
    /\ LET mpidr == MpidrArgument(call[c].target) IN
       GetSecondaryStack(c, mpidr,
                         IF Contains(stacks, mpidr) THEN "on_smc" ELSE "on_write")

CpuOnStack(c) ==
    /\ pc[c] = "on_stack"
    /\ GetSecondaryStack(c, MpidrArgument(call[c].target), "on_write")

\* start_core() moves its closure to the top of the stack.  The closure takes
\* several words and no lock protects it: cores that write or read it at the
\* same time may each see a mixture.
Writing(slot) == {d \in Cores : pc[d] = "on_write" /\ call[d].ptr = slot}

Mixed(e, f) == [entry_point_address : {e.entry_point_address, f.entry_point_address},
                context_id : {e.context_id, f.context_id}]

CpuOnWrite(c) ==
    /\ pc[c] = "on_write"
    /\ \E d \in Writing(call[c].ptr) : \E e \in Mixed(call[c].entry, call[d].entry) :
           stacks' = [stacks EXCEPT ![call[c].ptr].value = e]
    /\ Goto(c, "on_smc")
    /\ UNCHANGED <<contexts, call, sp, stage2, asked>>

\* start_core() then calls CPU_ON of the firmware with secondary_entry and the
\* stack.  The result goes back to the guest.
CpuOnAccepted(c) ==
    LET t == call[c].target IN
    /\ pc[c] = "on_smc"
    /\ t \in Cores /\ pc[t] = "OFF"
    /\ pc' = [pc EXCEPT ![c] = "guest", ![t] = "ON_PENDING"]
    /\ sp' = [sp EXCEPT ![t] = call[c].ptr]
    /\ asked' = [asked EXCEPT ![t] = [fn |-> "CPU_ON", entry |-> call[c].entry]]
    /\ call' = [call EXCEPT ![c] = None]
    /\ UNCHANGED <<stacks, contexts, stage2>>

\* A refused call that is tried again.
CpuOnRetried(c) ==
    /\ pc[c] = "on_smc"
    /\ Goto(c, "on_stack")
    /\ UNCHANGED <<stacks, contexts, call, sp, stage2, asked>>

\* INVALID_PARAMETERS, ALREADY_ON, ON_PENDING or INTERNAL_FAILURE.
CpuOnRefused(c) ==
    /\ pc[c] = "on_smc"
    /\ Goto(c, "guest")
    /\ call' = [call EXCEPT ![c] = None]
    /\ UNCHANGED <<stacks, contexts, sp, stage2, asked>>

-----------------------------------------------------------------------------
(* CPU_SUSPEND: psci_cpu_suspend() and restore_from_suspend() *)

CpuSuspendCall(c, e) ==
    /\ pc[c] = "guest"
    /\ call' = [call EXCEPT ![c] = [target |-> None, entry |-> e, ptr |-> 0]]
    /\ Goto(c, "suspend_insert")
    /\ UNCHANGED <<stacks, contexts, sp, stage2, asked>>

\* The context is filed under the affinity, not under the register's value.
SuspendInsertByAffinity(c) ==
    /\ pc[c] = "suspend_insert"
    /\ ~ContextsLocked
    /\ contexts' = Insert(contexts, MpidrArgument(c), call[c].entry)
    /\ Goto(c, "suspend_stack")
    /\ UNCHANGED <<stacks, call, sp, stage2, asked>>

SuspendInsert(c) ==
    /\ pc[c] = "suspend_insert"
    /\ ~ContextsLocked
    /\ IF HasRoom(contexts, read_mpidr_el1(c))
         THEN /\ contexts' = Insert(contexts, read_mpidr_el1(c), call[c].entry)
              /\ Goto(c, "suspend_stack")
         ELSE /\ Goto(c, "panic_in_contexts")
              /\ UNCHANGED contexts
    /\ UNCHANGED <<stacks, call, sp, stage2, asked>>

SuspendStack(c) ==
    /\ pc[c] = "suspend_stack"
    /\ GetSecondaryStack(c, read_mpidr_el1(c), "suspend_write")

\* suspend_core() stores restore_from_suspend at the top of the stack.
SuspendWrite(c) ==
    /\ pc[c] = "suspend_write"
    /\ stacks' = [stacks EXCEPT ![call[c].ptr].value = Resume]
    /\ Goto(c, "suspend_smc")
    /\ UNCHANGED <<contexts, call, sp, stage2, asked>>

\* The firmware powers the core down, EL2 state is lost ...
SuspendAccepted(c) ==
    /\ pc[c] = "suspend_smc"
    /\ Goto(c, "SUSPENDED")
    /\ sp' = [sp EXCEPT ![c] = call[c].ptr]
    /\ asked' = [asked EXCEPT ![c] = [fn |-> "CPU_SUSPEND", entry |-> call[c].entry]]
    /\ call' = [call EXCEPT ![c] = None]
    /\ stage2' = [stage2 EXCEPT ![c] = FALSE]
    /\ UNCHANGED <<stacks, contexts>>

\* ... or the call returns: it failed or was a standby state.
SuspendReturned(c) ==
    /\ pc[c] = "suspend_smc"
    /\ Goto(c, "suspend_return")
    /\ UNCHANGED <<stacks, contexts, call, sp, stage2, asked>>

\* A suspend that returns without removing its context.
SuspendReturnLeaks(c) ==
    /\ pc[c] = "suspend_return"
    /\ Goto(c, "guest")
    /\ call' = [call EXCEPT ![c] = None]
    /\ UNCHANGED <<stacks, contexts, sp, stage2, asked>>

SuspendReturn(c) ==
    /\ pc[c] = "suspend_return"
    /\ ~ContextsLocked
    /\ contexts' = Remove(contexts, read_mpidr_el1(c))
    /\ Goto(c, "guest")
    /\ call' = [call EXCEPT ![c] = None]
    /\ UNCHANGED <<stacks, sp, stage2, asked>>

\* The lock is held until the end of the statement, the expect() included.
RestoreFromSuspend(c) ==
    /\ pc[c] = "restore_from_suspend"
    /\ ~ContextsLocked
    /\ IF Contains(contexts, read_mpidr_el1(c))
         THEN /\ call' = [call EXCEPT ![c] =
                     [target |-> None, ptr |-> 0,
                      entry |-> contexts[GetMut(contexts, read_mpidr_el1(c))].value]]
              /\ contexts' = Remove(contexts, read_mpidr_el1(c))
              /\ Goto(c, "entry_point_el1")
         ELSE /\ Goto(c, "panic_in_contexts")
              /\ UNCHANGED <<call, contexts>>
    /\ UNCHANGED <<stacks, sp, stage2, asked>>

-----------------------------------------------------------------------------
(* Starting: the firmware, the secondary entry, entry_point_el1() *)

FirmwareStarts(c) ==
    /\ pc[c] = "ON_PENDING"
    /\ Goto(c, "secondary_entry")
    /\ UNCHANGED <<stacks, contexts, call, sp, stage2, asked>>

\* An interrupt wakes a suspended core.
FirmwareWakes(c) ==
    /\ pc[c] = "SUSPENDED"
    /\ Goto(c, "secondary_entry")
    /\ UNCHANGED <<stacks, contexts, call, sp, stage2, asked>>

\* What a core may read from the top of a stack.
Readable(slot) ==
    LET top == stacks[slot].value IN
    {top} \cup IF top \in EntryPoint
                 THEN UNION {Mixed(top, call[d].entry) : d \in Writing(slot)}
                 ELSE {}

\* The secondary entry of aarch64_rt runs what it finds on its stack.
SecondaryEntry(c) ==
    /\ pc[c] = "secondary_entry"
    /\ \/ /\ stacks[sp[c]].value = Resume
          /\ Goto(c, "restore_from_suspend")
          /\ UNCHANGED call
       \/ \E e \in Readable(sp[c]) \cap EntryPoint :
          /\ call' = [call EXCEPT ![c] = [target |-> None, entry |-> e, ptr |-> 0]]
          /\ Goto(c, "entry_point_el1")
    /\ UNCHANGED <<stacks, contexts, sp, stage2, asked>>

\* Stage 2 is not set up again on a resume.
EntryPointEl1Resumed(c) ==
    /\ pc[c] = "entry_point_el1"
    /\ stage2' = [stage2 EXCEPT ![c] = asked[c].fn # "CPU_SUSPEND"]
    /\ call' = [call EXCEPT ![c] = None]
    /\ asked' = [asked EXCEPT ![c] = None]
    /\ Goto(c, "guest")
    /\ UNCHANGED <<stacks, contexts, sp>>

\* setup_stage2() and HCR_EL2.VM come first, the ERET to the entry point last.
\* The other registers that entry_point_el1 and eret_to_el1 write are not
\* modelled here; Boot has the general-purpose ones.
EntryPointEl1(c) ==
    /\ pc[c] = "entry_point_el1"
    /\ stage2' = [stage2 EXCEPT ![c] = TRUE]
    /\ call' = [call EXCEPT ![c] = None]
    /\ asked' = [asked EXCEPT ![c] = None]
    /\ Goto(c, "guest")
    /\ UNCHANGED <<stacks, contexts, sp>>

-----------------------------------------------------------------------------
(* Forwarded PSCI calls that change the state of a core, and panics *)

\* CPU_OFF.
CpuOff(c) ==
    /\ pc[c] \in GuestSteps
    /\ Goto(c, "OFF")
    /\ sp' = [sp EXCEPT ![c] = 0]
    /\ stage2' = [stage2 EXCEPT ![c] = FALSE]
    /\ UNCHANGED <<stacks, contexts, call, asked>>

\* CPU_DEFAULT_SUSPEND and SYSTEM_SUSPEND carry the guest's own entry point;
\* the latter needs every other core off.
ForwardSuspend(c, fn) ==
    /\ pc[c] = "guest"
    /\ fn = "SYSTEM_SUSPEND" => \A d \in Cores \ {c} : pc[d] = "OFF"
    /\ Goto(c, "SUSPENDED_BY_GUEST")
    /\ sp' = [sp EXCEPT ![c] = 0]
    /\ stage2' = [stage2 EXCEPT ![c] = FALSE]
    /\ UNCHANGED <<stacks, contexts, call, asked>>

\* The firmware resumes the caller at that entry point, in the exception
\* level the call came from: EL2.
FirmwareResumesGuest(c) ==
    /\ pc[c] = "SUSPENDED_BY_GUEST"
    /\ Goto(c, "guest_el2")
    /\ UNCHANGED <<stacks, contexts, call, sp, stage2, asked>>

\* handle_sync_lower() panics on an exception class it does not know, and
\* inject_data_abort() when the guest has no vector table.
UnhandledTrap(c) ==
    /\ pc[c] = "guest"
    /\ Goto(c, "panic")
    /\ UNCHANGED <<stacks, contexts, call, sp, stage2, asked>>

\* The machine is off: no core runs and its memory is lost.
SwitchOff ==
    /\ pc' = [c \in Cores |-> "SYSTEM_OFF"]
    /\ stacks' = New(MAX_CORES)
    /\ contexts' = New(MAX_CORES)
    /\ call' = [c \in Cores |-> None]
    /\ sp' = [c \in Cores |-> 0]
    /\ stage2' = [c \in Cores |-> FALSE]
    /\ asked' = [c \in Cores |-> None]

\* SYSTEM_OFF and SYSTEM_OFF2.
SystemOff(c) == pc[c] \in GuestSteps /\ SwitchOff

\* A panic handler that only stops its own core.
PanicHandlerHangs(c) == pc[c] \in Panics /\ UNCHANGED vars

\* The panic handler turns the system off.
PanicHandler(c) == pc[c] \in Panics /\ SwitchOff

\* SYSTEM_RESET and SYSTEM_RESET2: back to power-on.
SystemReset(c) ==
    /\ pc[c] \in GuestSteps
    /\ pc' = BootPc
    /\ stacks' = New(MAX_CORES)
    /\ contexts' = New(MAX_CORES)
    /\ call' = BootCall
    /\ sp' = [d \in Cores |-> 0]
    /\ stage2' = [d \in Cores |-> FALSE]
    /\ asked' = BootRequest

\* Nothing runs any more: the system, or every core of it, is off.
Stopped ==
    /\ \A c \in Cores : pc[c] \in {"OFF", "SYSTEM_OFF"}
    /\ UNCHANGED vars

-----------------------------------------------------------------------------
\* What the guest, or the outside world, does at core c.
Environment(c) ==
    \/ \E t \in Targets, e \in EntryPoints : CpuOnCall(c, t, e)
    \/ \E e \in EntryPoints : CpuSuspendCall(c, e)
    \/ CpuOff(c)
    \/ \E fn \in FirmwareSuspends : ForwardSuspend(c, fn)
    \/ FirmwareWakes(c)
    \/ FirmwareResumesGuest(c)
    \/ UnhandledTrap(c)
    \/ SystemOff(c)
    \/ SystemReset(c)

\* What the hypervisor does at core c, and the firmware on its behalf.
Hypervisor(c) ==
    \/ CpuOnStack(c)
    \/ CpuOnWrite(c)
    \/ CpuOnAccepted(c)
    \/ CpuOnRefused(c)
    \/ SuspendInsert(c)
    \/ SuspendStack(c)
    \/ SuspendWrite(c)
    \/ SuspendAccepted(c)
    \/ SuspendReturned(c)
    \/ SuspendReturn(c)
    \/ FirmwareStarts(c)
    \/ SecondaryEntry(c)
    \/ RestoreFromSuspend(c)
    \/ EntryPointEl1(c)
    \/ PanicHandler(c)

Next ==
    \/ \E c \in Cores : Environment(c) \/ Hypervisor(c)
    \/ Stopped

Spec == Init /\ [][Next]_vars

\* A core that executes hypervisor code keeps executing, and the firmware
\* starts the cores it accepted.  Nothing makes the guest act or an interrupt
\* arrive.
FairSpec == Spec /\ \A c \in Cores : WF_vars(Hypervisor(c))

-----------------------------------------------------------------------------
(* Properties *)

\* A core about to enter the guest does so with exactly the entry point and
\* context of the request the firmware accepted for it.
EntryAsRequested ==
    \A c \in Cores : pc[c] = "entry_point_el1" => call[c].entry = asked[c].entry

\* The same for a core that resumes from CPU_SUSPEND, whatever the other
\* cores ask for in the meantime: nobody can redirect a suspended core.
ResumeAsRequested ==
    \A c \in Cores :
        (pc[c] = "entry_point_el1" /\ asked[c].fn = "CPU_SUSPEND")
            => call[c].entry = asked[c].entry

\* The expect() in restore_from_suspend never fires.
ResumeFindsContext ==
    \A c \in Cores :
        pc[c] = "restore_from_suspend" => Contains(contexts, read_mpidr_el1(c))

\* A core that starts finds on its stack what its request left there: the
\* closure of a CPU_ON, or restore_from_suspend, and never an empty stack or
\* the other one, however the calls of other cores about it interleave.
StartFindsRecord ==
    \A c \in Cores : pc[c] = "secondary_entry" =>
        /\ sp[c] # 0 /\ stacks[sp[c]] # None
        /\ stacks[sp[c]].value \in IF asked[c].fn = "CPU_ON" THEN EntryPoint ELSE {Resume}

\* A core is between the insert and the remove of its suspend context.
Suspending(c) ==
    \/ pc[c] \in {"suspend_stack", "suspend_write", "suspend_smc", "suspend_return",
                  "SUSPENDED", "restore_from_suspend"}
    \/ pc[c] = "secondary_entry" /\ asked[c].fn = "CPU_SUSPEND"

\* SUSPEND_CONTEXTS holds a context for exactly the cores that are suspending,
\* suspended or resuming: none is missing and none is left behind.  (A core
\* that panics for want of a stack keeps its context.)
SuspendContextsExact ==
    \A c \in Cores :
        pc[c] # "panic_in_stacks"
            => (Contains(contexts, read_mpidr_el1(c)) <=> Suspending(c))

\* insert() never finds a map full.
NoCapacityPanic ==
    \A c \in Cores : pc[c] \notin {"panic_in_stacks", "panic_in_contexts"}

\* Two cores that execute, or are about to, never share a stack.
StacksDisjoint ==
    \A c, d \in Cores : (c # d /\ sp[c] # 0) => sp[c] # sp[d]

\* Whatever sequence of calls led there, the guest runs at EL1 with stage-2
\* translation on.
GuestConfined ==
    \A c \in Cores : pc[c] # "guest_el2" /\ (pc[c] = "guest" => stage2[c])

\* While a core is on or being started, no other core writes the stack the
\* core runs on.  (Every step of a core itself changes its pc.)
OwnStackOnly ==
    [][\A c \in Cores :
          (sp[c] # 0 /\ sp'[c] = sp[c] /\ pc'[c] = pc[c])
              => stacks'[sp[c]] = stacks[sp[c]]]_vars

\* The most steps that a core at this place may still take in the hypervisor.
Remaining(l) ==
    CASE l = "suspend_insert" -> 6
      [] l \in {"suspend_stack", "ON_PENDING"} -> 5
      [] l \in {"on_stack", "suspend_write", "secondary_entry"} -> 4
      [] l \in {"on_write", "suspend_smc", "restore_from_suspend"} -> 3
      [] l \in {"on_smc", "suspend_return"} \cup Panics -> 2
      [] l = "entry_point_el1" -> 1
      [] OTHER -> 0

\* No step sets a call back: every step that moves a core through a handler
\* brings it nearer to the end, and no call, panic or reset of another core
\* sends it to an earlier place.
CallsAdvance ==
    [][\A c \in Cores : (Remaining(pc[c]) > 0 /\ pc'[c] # pc[c]) =>
                            Remaining(pc'[c]) < Remaining(pc[c])]_vars

\* Every PSCI call ends (it returns, or the core or the system goes down) and
\* every accepted start reaches the guest: no core stays in the hypervisor.
CallsComplete ==
    \A c \in Cores :
        pc[c] \in (OnSteps \cup SuspendSteps \cup StartSteps \cup Panics \cup {"ON_PENDING"})
            ~> pc[c] \in GuestSteps \cup {"OFF", "SUSPENDED", "SYSTEM_OFF"}

=============================================================================

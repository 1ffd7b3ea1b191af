----------------------------- MODULE GuestTrap -----------------------------
(***************************************************************************)
(* Synchronous exceptions from the guest: the frame that the vector and    *)
(* sync_lower save (exceptions.rs), handle_sync_lower with the emulation   *)
(* of loads and stores, injected data aborts and HVC and SMC calls         *)
(* (hypervisor.rs, hvc_response.rs), and the MMIO page that the QEMU       *)
(* platform filters (qemu.rs).                                             *)
(***************************************************************************)
EXTENDS MemoryAccess, Sequences, FiniteSets

CONSTANTS
    Cores,
    Programs,           \* the guests there may be: for each core, the trapping
                        \* instructions it executes and its states before one
    U64_MAX,            \* the largest address
    Regions,            \* the registry of the stage-2 configuration
    PsciIds,            \* the function identifiers of the two PSCI ranges
    PsciValues,         \* what handle_psci may return,
    PsciErrors,         \* or fail with
    PlatformHvc,        \* what handle_hvc returns, for the identifiers it handles
    FilteredValues,     \* the constants read_filtered_mmio returns, by offset
    FILTERED_WRITE,     \* the value write_filtered_mmio takes
    DeviceValues,       \* what the callbacks of another platform return
    MAX_COUNTER_LOADS   \* bound: loads of the counter that the guest executes

VARIABLES
    phase,      \* of each core: in the guest, or in the exception handler
    guest,      \* the architectural state of each core at EL1
    frame,      \* the saved registers of a core in the handler, or None
    syndrome,   \* ESR_EL2, FAR_EL2 and HPFAR_EL2 of the exception
    counter,    \* FILTERED_MMIO_COUNTER
    program,    \* the guest that runs; never changes
    insn,       \* history: the instruction that trapped last
    before,     \* history: the guest's state when it trapped
    answer,     \* history: the access a handler or call was given, and its result
    loaded      \* history: the counter values that loads have returned

vars == <<phase, guest, frame, syndrome, counter, program, insn, before, answer, loaded>>

Registers == 0..30

EC_HVC == 22
EC_SMC == 23
EC_DATA_ABORT_LOWER_EL == 36
EC_DATA_ABORT_SAME_EL == 37

\* The stage-2 configuration is built before the guest runs.
Stage2 == INSTANCE Registry WITH
    PAGE_SIZE <- Pow2[FAULT_IPA_PAGE_SHIFT], Unused <- None, regions <- Regions,
    Handlers <- {"filtered", "read_only", "write_only"}

GuestState ==
    [x : [Registers -> Word], pc : Nat, spsr : {"EL1h", "EL0t", "EL1h_masked"},
     vbar_el1 : Nat, elr_el1 : Nat, spsr_el1 : {"EL1h", "EL0t", "EL1h_masked"},
     far_el1 : Nat, esr_el1 : [ec : Nat, iss : Nat]]

\* RegisterState of aarch64-rt, and NonVolatileRegisters.
Frame ==
    [registers : [0..18 -> Word], fp : Word, sp : Word, elr : Nat,
     spsr : {"EL1h", "EL0t", "EL1h_masked"}, nonvolatile : [0..9 -> Word]]

\* A load or store, and the other instructions that trap.
AccessInstruction ==
    [op : {"load", "store"}, width : MemoryAccessWidth, signed : BOOLEAN, sf : BOOLEAN,
     reg : 0..31, ipa : Stage2!U64, va : Nat, isv : BOOLEAN]

Instruction == AccessInstruction \cup [op : {"hvc", "smc", "fetch"}]

\* The access a callback was given, and its result.
Answer ==
    [kind : {"Read", "Write"}, offset : Nat, width : MemoryAccessWidth, value : Word,
     result : {"Ok", "Fault"}]

\* An error as a negative number, and the results a platform's handle_hvc may have.
HvcErrors == {-n : n \in Word \ {0}}

HvcResult ==
    [kind : {"Success"}, regs : [1..4 -> Word]]
    \cup [kind : {"SuccessLarge"}, regs : [1..18 -> Word]]
    \cup [kind : {"Err"}, error : HvcErrors]
    \cup [kind : {"Unhandled"}]

\* A doubleword fills its register, and translation keeps the offset in a page.
ASSUME GuestAssumption ==
    /\ Programs \subseteq [Cores -> [instructions : SUBSET Instruction,
                                     states : SUBSET GuestState]]
    /\ \A p \in Programs : \A c \in Cores : \A i \in p[c].instructions :
           i \in AccessInstruction =>
               /\ i.width = "U64" => i.sf
               /\ i.va % Pow2[FAULT_IPA_PAGE_SHIFT] = i.ipa % Pow2[FAULT_IPA_PAGE_SHIFT]

\* The registry is one that the builder makes.
ASSUME RegistryAssumption ==
    /\ U64_MAX \in Nat /\ Regions \in Seq(Stage2!Region)
    /\ \A k \in DOMAIN Regions :
           /\ Regions[k].base_ipa \in Stage2!Pages /\ Regions[k].size > 0
           /\ Regions[k].end_ipa = Regions[k].base_ipa + Regions[k].size
    /\ \A j, k \in DOMAIN Regions : j < k => Regions[j].end_ipa <= Regions[k].base_ipa

\* Callbacks and calls return machine words.
ASSUME ResultAssumption ==
    /\ PsciValues \subseteq Word /\ PsciErrors \subseteq HvcErrors
    /\ PlatformHvc \in [DOMAIN PlatformHvc -> HvcResult]
    /\ FilteredValues \in [DOMAIN FilteredValues -> Word] /\ DeviceValues \subseteq Word

\* The guest does not live to see the counter wrap.
ASSUME CounterAssumption ==
    /\ IsFiniteSet(Cores) /\ MAX_COUNTER_LOADS \in Nat
    /\ MAX_COUNTER_LOADS + Cardinality(Cores) < Pow2[bits("U64")]

\* None is nothing else.
ASSUME NoneAssumption ==
    /\ None \notin Nat /\ None \notin Instruction /\ None \notin Frame
    /\ None \notin Answer /\ None \notin DecodedMemoryAccess
    /\ None \notin {"filtered", "read_only", "write_only"}
    /\ None \notin [use : {"filtered", "read_only", "write_only"}, offset : Nat,
                  width : MemoryAccessWidth, stored : Word]

\* The type invariant; a core has a frame exactly while it is in the handler.
TypeOK ==
    /\ phase \in [Cores -> {"guest", "handle_sync_lower", "return", "panic"}]
    /\ DOMAIN guest = Cores /\ \A c \in Cores :
          /\ guest[c].x \in [Registers -> Word] /\ guest[c].pc \in Nat
          /\ frame[c] = None <=> phase[c] = "guest"
          /\ frame[c] # None => /\ frame[c].registers \in [0..18 -> Word]
                                /\ frame[c].nonvolatile \in [0..9 -> Word]
                                /\ frame[c].fp \in Word /\ frame[c].sp \in Word
                                /\ frame[c].elr \in Nat
    /\ counter \in Word
    /\ loaded \subseteq Word

Init ==
    /\ phase = [c \in Cores |-> "guest"]
    /\ program \in Programs
    /\ guest \in {g \in [Cores -> UNION {program[c].states : c \in Cores}] :
                     \A c \in Cores : g[c] \in program[c].states}
    /\ frame = [c \in Cores |-> None]
    /\ syndrome = [c \in Cores |-> None]
    /\ counter = 0
    /\ insn = [c \in Cores |-> None]
    /\ before = [c \in Cores |-> None]
    /\ answer = [c \in Cores |-> None]
    /\ loaded = {}

-----------------------------------------------------------------------------
(* The frame *)

\* What a register holds, or None for a register there is not.
read_gpr(f, index) ==
    CASE index \in 0..18 -> f.registers[index]
      [] index \in 19..28 -> f.nonvolatile[index - 19]
      [] index = 29 -> f.fp
      [] index = 30 -> f.sp
      [] index = 31 -> 0
      [] OTHER -> None

\* The frame after the write, or None for a register there is not.
write_gpr(f, index, value) ==
    CASE index \in 0..18 -> [f EXCEPT !.registers[index] = value]
      [] index \in 19..28 -> [f EXCEPT !.nonvolatile[index - 19] = value]
      [] index = 29 -> [f EXCEPT !.fp = value]
      [] index = 30 -> [f EXCEPT !.sp = value]
      [] index = 31 -> f
      [] OTHER -> None

advance_pc(f) == [f EXCEPT !.elr = @ + 4]

-----------------------------------------------------------------------------
(* The guest executes an instruction that traps to EL2. *)

Bit(b) == IF b THEN 1 ELSE 0

\* The syndrome the processor reports for an instruction.
Iss(i) ==
    IF ~i.isv THEN Bit(i.op = "store") * 2^6 + 7
    ELSE 2^24 + (CHOOSE s \in 0..3 : Pow2[s] * BYTE = bits(i.width)) * 2^22
         + Bit(i.signed) * 2^21 + i.reg * 2^16 + Bit(i.sf) * 2^15
         + Bit(i.op = "store") * 2^6 + 7

ExceptionClass(i) ==
    CASE i.op = "hvc" -> EC_HVC
      [] i.op = "smc" -> EC_SMC
      [] i.op \in {"load", "store"} -> EC_DATA_ABORT_LOWER_EL
      [] i.op = "fetch" -> 32

IsAccess(i) == i.op \in {"load", "store"}

\* A load from the counter of the filtered page.
CountsLoad(i) ==
    i.op = "load" /\ Stage2!find(i.ipa) = [use |-> "filtered", offset |-> 16]

\* The vector of aarch64-rt saves x0-x18, x29, x30, ELR_EL2 and SPSR_EL2.
VolatileFrame(c, elr) ==
    [registers |-> [n \in 0..18 |-> guest[c].x[n]], fp |-> guest[c].x[29],
     sp |-> guest[c].x[30], elr |-> elr, spsr |-> guest[c].spsr]

\* sync_lower saves x19-x28 and passes both frames on.
Trap(c, i) ==
    LET saved == VolatileFrame(c, IF i.op = "hvc" THEN guest[c].pc + 4 ELSE guest[c].pc) IN
    /\ phase[c] = "guest" /\ insn[c] = None
    /\ i.op \in {"hvc", "smc"} => guest[c].spsr # "EL0t"
    /\ CountsLoad(i) => Cardinality(loaded) < MAX_COUNTER_LOADS
    /\ phase' = [phase EXCEPT ![c] = "handle_sync_lower"]
    /\ frame' = [frame EXCEPT ![c] =
           [registers |-> saved.registers, fp |-> saved.fp, sp |-> saved.sp,
            elr |-> saved.elr, spsr |-> saved.spsr,
            nonvolatile |-> [n \in 0..9 |-> guest[c].x[19 + n]]]]
    /\ syndrome' = [syndrome EXCEPT ![c] =
           [ec |-> ExceptionClass(i), iss |-> IF IsAccess(i) THEN Iss(i) ELSE 0,
            far |-> IF IsAccess(i) THEN i.va ELSE 0,
            fipa |-> IF IsAccess(i) THEN i.ipa \div Pow2[FAULT_IPA_PAGE_SHIFT] ELSE 0]]
    /\ insn' = [insn EXCEPT ![c] = i]
    /\ before' = [before EXCEPT ![c] = guest[c]]
    /\ UNCHANGED <<guest, counter, program, answer, loaded>>

-----------------------------------------------------------------------------
(* The handlers of the filtered page, while the counter is at count *)

\* A read handler that checks the width last.
ReadFilteredLateCheck(offset, width, count) ==
    [result |-> IF width = "U64" /\ offset \in DOMAIN FilteredValues \cup {16}
                  THEN "Ok" ELSE "Fault",
     value |-> IF offset = 16 THEN count
               ELSE IF offset \in DOMAIN FilteredValues THEN FilteredValues[offset] ELSE 0,
     counter |-> IF offset = 16 THEN cast_unsigned(count + 1) ELSE count]

read_filtered_mmio(offset, width, count) ==
    LET counts == width = "U64" /\ offset = 16
        known == width = "U64" /\ offset \in DOMAIN FilteredValues
    IN  [result |-> IF counts \/ known THEN "Ok" ELSE "Fault",
         value |-> IF counts THEN count ELSE IF known THEN FilteredValues[offset] ELSE 0,
         counter |-> IF counts THEN cast_unsigned(count + 1) ELSE count]

write_filtered_mmio(offset, width, value, count) ==
    [result |-> IF offset = 8 /\ width = "U64" /\ value = FILTERED_WRITE
                  THEN "Ok" ELSE "Fault",
     value |-> value, counter |-> count]

-----------------------------------------------------------------------------
(* Data aborts *)

\* The callbacks that a region has: both, or one of them.
HasCallback(handler, kind) ==
    handler \in {"filtered", IF kind = "Read" THEN "read_only" ELSE "write_only"}

\* What a callback may return.  The filtered page is QEMU's; the other regions
\* are those of a platform whose callbacks take any access.
ReadResults(handler, offset, width, count) ==
    IF handler = "filtered" THEN {read_filtered_mmio(offset, width, count)}
    ELSE {[result |-> "Ok", value |-> v, counter |-> count] : v \in DeviceValues}
         \cup {[result |-> "Fault", value |-> 0, counter |-> count]}

WriteResults(handler, offset, width, value, count) ==
    IF handler = "filtered" THEN {write_filtered_mmio(offset, width, value, count)}
    ELSE [result : {"Ok", "Fault"}, value : {value}, counter : {count}]

\* Whether the access was emulated, and the frame, device and answer it leaves,
\* for each result of the callback.
try_memory_access_handler(f, s) ==
    LET decoded == decode_memory_access(s.iss, s.fipa, s.far,
                       [index \in 0..31 |-> read_gpr(f, index)])
        match == Stage2!find(decoded.ipa)
        read == decoded.kind = "Read"
        results == IF read THEN ReadResults(match.use, match.offset, decoded.width, counter)
                   ELSE WriteResults(match.use, match.offset, decoded.width, decoded.value,
                                     counter)
        Written(r) == IF ~read THEN f
                      ELSE write_gpr(f, decoded.register_index,
                               extend_read_result(r.value, decoded.width,
                                   decoded.sign_extend, decoded.register_width_64))
        called == decoded # None /\ match.use # None /\ HasCallback(match.use, decoded.kind)
    IN  IF ~called
          THEN {[ok |-> FALSE, frame |-> f, counter |-> counter, answer |-> None]}
          ELSE {[ok |-> r.result = "Ok" /\ Written(r) # None,
                 frame |-> IF r.result = "Ok" /\ Written(r) # None
                             THEN advance_pc(Written(r)) ELSE f,
                 counter |-> r.counter,
                 answer |-> [kind |-> decoded.kind, offset |-> match.offset,
                             width |-> decoded.width, value |-> r.value,
                             result |-> r.result]] : r \in results}

\* An abort that returns past the instruction, as an emulated access does.
InjectedGuestPast(g, f, s) ==
    [g EXCEPT !.elr_el1 = f.elr + 4, !.spsr_el1 = f.spsr, !.far_el1 = s.far,
              !.esr_el1 = [ec |-> EC_DATA_ABORT_SAME_EL, iss |-> s.iss]]

\* The guest's EL1 registers and frame once it is redirected to its vector.
InjectedGuest(g, f, s) ==
    [g EXCEPT !.elr_el1 = f.elr, !.spsr_el1 = f.spsr, !.far_el1 = s.far,
              !.esr_el1 = [ec |-> EC_DATA_ABORT_SAME_EL, iss |-> s.iss]]

InjectedFrame(g, f) ==
    [f EXCEPT !.elr = g.vbar_el1 + 512, !.spsr = "EL1h_masked"]

\* A data abort: the access is emulated; or inject_data_abort redirects the
\* guest to its vector, and panics when it has none.
HandleDataAbort(c) ==
    /\ phase[c] = "handle_sync_lower" /\ syndrome[c].ec = EC_DATA_ABORT_LOWER_EL
    /\ \E done \in try_memory_access_handler(frame[c], syndrome[c]) :
          /\ counter' = done.counter
          /\ answer' = [answer EXCEPT ![c] = done.answer]
          /\ \/ /\ done.ok
                /\ phase' = [phase EXCEPT ![c] = "return"]
                /\ frame' = [frame EXCEPT ![c] = done.frame]
                /\ UNCHANGED guest
             \/ /\ ~done.ok /\ guest[c].vbar_el1 # 0
                /\ phase' = [phase EXCEPT ![c] = "return"]
                /\ guest' = [guest EXCEPT ![c] = InjectedGuest(@, done.frame, syndrome[c])]
                /\ frame' = [frame EXCEPT ![c] = InjectedFrame(guest[c], done.frame)]
             \/ /\ ~done.ok /\ guest[c].vbar_el1 = 0
                /\ phase' = [phase EXCEPT ![c] = "panic"]
                /\ UNCHANGED <<guest, frame>>
    /\ UNCHANGED <<syndrome, program, insn, before, loaded>>

-----------------------------------------------------------------------------
(* Calls *)

\* error_to_u64() of NOT_SUPPORTED is that of -1.
modify_register_state(f, r) ==
    CASE r.kind \in {"Success", "SuccessLarge"} ->
           [f EXCEPT !.registers =
               [n \in 0..18 |-> IF n < Len(r.regs) THEN r.regs[n + 1] ELSE f.registers[n]]]
      [] r.kind = "Err" -> write_gpr(f, 0, cast_unsigned(r.error))
      [] r.kind = "Unhandled" -> write_gpr(f, 0, cast_unsigned(-1))

\* HvcResponse::from() of one value.
HvcResponse(value) == [kind |-> "Success", regs |-> <<value, 0, 0, 0>>]

try_handle_psci ==
    {HvcResponse(v) : v \in PsciValues} \cup [kind : {"Err"}, error : PsciErrors]

CallResults(function_id) ==
    IF function_id \in PsciIds THEN try_handle_psci
    ELSE IF function_id \in DOMAIN PlatformHvc THEN {PlatformHvc[function_id]}
    ELSE {[kind |-> "Unhandled"]}

\* Only an SMC leaves the return address on the call itself.
HandleCall(c) ==
    /\ phase[c] = "handle_sync_lower" /\ syndrome[c].ec \in {EC_HVC, EC_SMC}
    /\ \E r \in CallResults(frame[c].registers[0]) :
          LET f == modify_register_state(frame[c], r) IN
          /\ frame' = [frame EXCEPT ![c] = IF syndrome[c].ec = EC_SMC THEN advance_pc(f) ELSE f]
          /\ answer' = [answer EXCEPT ![c] = r]
    /\ phase' = [phase EXCEPT ![c] = "return"]
    /\ UNCHANGED <<guest, syndrome, counter, program, insn, before, loaded>>

UnexpectedException(c) ==
    /\ phase[c] = "handle_sync_lower"
    /\ syndrome[c].ec \notin {EC_HVC, EC_SMC, EC_DATA_ABORT_LOWER_EL}
    /\ phase' = [phase EXCEPT ![c] = "panic"]
    /\ UNCHANGED <<guest, frame, syndrome, counter, program, insn, before, answer, loaded>>

-----------------------------------------------------------------------------
(* Back to the guest *)

\* The guest's state once the frame is restored.
RestoredRegister(f, n) ==
    CASE n \in 0..18 -> f.registers[n]
      [] n \in 19..28 -> f.nonvolatile[n - 19]
      [] n = 29 -> f.fp
      [] n = 30 -> f.sp

Restored(g, f) ==
    [g EXCEPT !.x = [n \in Registers |-> RestoredRegister(f, n)],
              !.pc = f.elr, !.spsr = f.spsr]

\* sync_lower restores x19-x28 from its frame, the vector the rest; eret.
Return(c) ==
    /\ phase[c] = "return"
    /\ phase' = [phase EXCEPT ![c] = "guest"]
    /\ guest' = [guest EXCEPT ![c] = Restored(@, frame[c])]
    /\ frame' = [frame EXCEPT ![c] = None]
    /\ syndrome' = [syndrome EXCEPT ![c] = None]
    /\ loaded' = IF CountsLoad(insn[c]) /\ answer[c] # None /\ answer[c].result = "Ok"
                   THEN loaded \cup {answer[c].value} ELSE loaded
    /\ UNCHANGED <<counter, program, insn, before, answer>>

\* The guest executes instructions that do not trap.
GuestRuns(c) ==
    /\ phase[c] = "guest" /\ insn[c] # None
    /\ \E g \in program[c].states : guest' = [guest EXCEPT ![c] = g]
    /\ insn' = [insn EXCEPT ![c] = None]
    /\ before' = [before EXCEPT ![c] = None]
    /\ answer' = [answer EXCEPT ![c] = None]
    /\ UNCHANGED <<phase, frame, syndrome, counter, program, loaded>>

\* A core that panicked does not return, and a guest may never trap.
Stopped ==
    /\ \A c \in Cores : phase[c] = "panic" \/ program[c].instructions = {}
    /\ UNCHANGED vars

Next ==
    \/ \E c \in Cores :
          \/ \E i \in program[c].instructions : Trap(c, i)
          \/ HandleDataAbort(c)
          \/ HandleCall(c)
          \/ UnexpectedException(c)
          \/ Return(c)
          \/ GuestRuns(c)
    \/ Stopped

Spec == Init /\ [][Next]_vars

-----------------------------------------------------------------------------
(* What the architecture says of the instruction *)

\* The register after a load of v.
Loaded(v, i) ==
    LET low == v % Pow2[bits(i.width)]
        negative == i.signed /\ low >= Pow2[bits(i.width) - 1]
        target == bits(IF i.sf THEN "U64" ELSE "U32")
    IN  IF negative THEN low + Pow2[target] - Pow2[bits(i.width)] ELSE low

\* The access that must reach a handler, or None.
RequiredAccess(i, g) ==
    LET covering == {k \in DOMAIN Regions : Regions[k].base_ipa <= i.ipa
                                            /\ i.ipa < Regions[k].end_ipa
                                            /\ HasCallback(Regions[k].handler,
                                                  IF i.op = "load" THEN "Read" ELSE "Write")}
    IN  IF ~i.isv \/ covering = {} THEN None
        ELSE [use |-> Regions[CHOOSE k \in covering : TRUE].handler,
              offset |-> i.ipa - Regions[CHOOSE k \in covering : TRUE].base_ipa,
              width |-> i.width,
              stored |-> IF i.op = "load" \/ i.reg = 31 THEN 0
                         ELSE g.x[i.reg] % Pow2[bits(i.width)]]

\* The handler was asked for this access, or none was.
Asked(i, g, a) ==
    LET required == RequiredAccess(i, g) IN
    IF required = None THEN a = None
    ELSE /\ a # None /\ a.offset = required.offset /\ a.width = required.width
         /\ a.kind = (IF i.op = "load" THEN "Read" ELSE "Write")
         /\ i.op = "store" => a.value = required.stored

Emulated(i, g, a, after) ==
    after = [g EXCEPT !.pc = g.pc + 4,
                      !.x = [n \in Registers |-> IF i.op = "load" /\ n = i.reg
                                                   THEN Loaded(a.value, i) ELSE g.x[n]]]

\* Exception entry at EL1; from EL1h, through the vector of the current level.
Aborted(i, g, after) ==
    /\ after.x = g.x /\ after.vbar_el1 = g.vbar_el1 /\ after.spsr = "EL1h_masked"
    /\ after.elr_el1 = g.pc /\ after.spsr_el1 = g.spsr /\ after.far_el1 = i.va
    /\ after.esr_el1.iss = Iss(i)
    /\ g.spsr = "EL1h" => after.pc = g.vbar_el1 + 512 /\ after.esr_el1.ec = EC_DATA_ABORT_SAME_EL

Answered(g, a, after) ==
    /\ a \in CallResults(g.x[0])
    /\ after = [g EXCEPT !.pc = g.pc + 4,
           !.x = [n \in Registers |->
               CASE a.kind = "Success" /\ n \in 0..3 -> a.regs[n + 1]
                 [] a.kind = "SuccessLarge" /\ n \in 0..17 -> a.regs[n + 1]
                 [] a.kind = "Err" /\ n = 0 -> Pow2[bits("U64")] + a.error
                 [] a.kind = "Unhandled" /\ n = 0 -> Pow2[bits("U64")] - 1
                 [] OTHER -> g.x[n]]]

\* What the device may answer to the access.
Replies(i, required, count) ==
    IF i.op = "load" THEN ReadResults(required.use, required.offset, required.width, count)
    ELSE WriteResults(required.use, required.offset, required.width, required.stored, count)

\* The instruction in state g, with the counter at count, may end so.
Executes(i, g, count, after, count_after) ==
    LET required == RequiredAccess(i, g) IN
    \/ /\ IsAccess(i) /\ required # None
       /\ \E r \in Replies(i, required, count) :
             r.result = "Ok" /\ count_after = r.counter /\ Emulated(i, g, r, after)
    \/ /\ IsAccess(i) /\ g.vbar_el1 # 0 /\ count_after = count /\ Aborted(i, g, after)
       /\ required # None => \E r \in Replies(i, required, count) : r.result = "Fault"
    \/ /\ i.op \in {"hvc", "smc"} /\ count_after = count
       /\ \E r \in CallResults(g.x[0]) : Answered(g, r, after)

\* It is the end of the core: nothing handles the exception, or the guest has
\* no vector for it.
Stops(i, g, count) ==
    LET required == RequiredAccess(i, g) IN
    \/ i.op = "fetch"
    \/ /\ IsAccess(i) /\ g.vbar_el1 = 0
       /\ required # None => \E r \in Replies(i, required, count) : r.result = "Fault"

-----------------------------------------------------------------------------
(* Properties *)

\* The guest finds itself where the architecture puts it: an access that a
\* handler accepts is executed exactly once, with the handler asked for the
\* guest's own access and every register but the target of a load preserved;
\* any other access is an abort at the instruction, with no register changed;
\* a call returns its result after the instruction.
GuestSeesExecution ==
    \A c \in Cores : (phase[c] = "guest" /\ insn[c] # None) =>
        LET i == insn[c]
            g == before[c]
            a == answer[c]
        IN  IF IsAccess(i)
              THEN /\ Asked(i, g, a)
                   /\ IF a # None /\ a.result = "Ok" THEN Emulated(i, g, a, guest[c])
                                                     ELSE Aborted(i, g, guest[c])
              ELSE Answered(g, a, guest[c])

\* A core on its way back from a load of the counter.
Holding(c) ==
    phase[c] = "return" /\ CountsLoad(insn[c]) /\ answer[c] # None /\ answer[c].result = "Ok"

\* Each value of the counter is loaded once, by one core, and none is skipped:
\* a load that faults, or that another core overtakes, does not count. That the
\* increment is one step is taken from fetch_add; when the width is checked,
\* relative to it, is the code's.
CounterExact ==
    LET held == {c \in Cores : Holding(c)} IN
    /\ loaded \cup {answer[c].value : c \in held} = 0..counter - 1
    /\ Cardinality(loaded) + Cardinality(held) = counter

\* The state that the guest is in: until the handler has decided, the one it
\* trapped in; from then on, the one it will return to.
Views == [c \in Cores |-> IF phase[c] = "return" THEN Restored(guest[c], frame[c]) ELSE guest[c]]

Executed == [c \in Cores |-> IF phase[c] \in {"guest", "return"} THEN insn[c] ELSE None]

Panicked == {c \in Cores : phase[c] = "panic"}

Machine == INSTANCE GuestMachine WITH
    state <- Views, executed <- Executed, stopped <- Panicked, device <- counter

\* Trap and emulation implement the machine that the guest sees: whatever the
\* other cores do meanwhile, each trapped instruction takes effect in one step,
\* on the core and on the device, and a core panics only where nothing can.
ImplementsMachine == Machine!Spec

=============================================================================

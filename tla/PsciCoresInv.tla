---------------------------- MODULE PsciCoresInv ----------------------------
(* The inductive invariants behind the properties of PsciCores. *)
EXTENDS PsciCores

\* Slot i is the stack of this key and its top is one of V.
Owned(i, mpidr, V) ==
    /\ i \in 1..MAX_CORES /\ stacks[i] # None
    /\ stacks[i].key = mpidr /\ stacks[i].value \in V

\* The two names of a core keep the two kinds of start record apart: a stack
\* that CPU_ON writes never holds restore_from_suspend, and conversely.
StacksInv ==
    /\ UniqueKeys(stacks)
    /\ \A i \in 1..MAX_CORES : stacks[i] # None =>
           /\ stacks[i].key.res1 => stacks[i].key.aff \in Cores
           /\ stacks[i].value \in IF stacks[i].key.res1 THEN {Resume, None}
                                                        ELSE EntryPoint \cup {None}

\* What a core has in hand at each step of a handler.
LocalsInv(c) ==
    /\ pc[c] \in OnSteps => call[c] \in Call /\ call[c].target \in Targets
    /\ pc[c] \in SuspendSteps => call[c] \in Call /\ call[c].target = None
    /\ pc[c] = "on_write" =>
           Owned(call[c].ptr, MpidrArgument(call[c].target), EntryPoint \cup {None})
    /\ pc[c] = "on_smc" =>
           Owned(call[c].ptr, MpidrArgument(call[c].target), EntryPoint)
    /\ pc[c] = "suspend_write" => Owned(call[c].ptr, read_mpidr_el1(c), {Resume, None})
    /\ pc[c] = "suspend_smc" => Owned(call[c].ptr, read_mpidr_el1(c), {Resume})
    /\ pc[c] = "entry_point_el1" => call[c] \in Call /\ call[c].target = None

\* A core being started has its start record on a stack of its own.
StartInv(c) ==
    /\ pc[c] \in {"ON_PENDING", "SUSPENDED"} \cup StartSteps => asked[c] \in Request
    /\ pc[c] = "ON_PENDING" => asked[c].fn = "CPU_ON"
    /\ pc[c] \in {"SUSPENDED", "restore_from_suspend"} => asked[c].fn = "CPU_SUSPEND"
    /\ pc[c] = "secondary_entry" => asked[c].fn # "BOOT"
    /\ pc[c] \in {"ON_PENDING", "SUSPENDED", "secondary_entry"} =>
           IF asked[c].fn = "CPU_ON" THEN Owned(sp[c], MpidrArgument(c), EntryPoint)
                                     ELSE Owned(sp[c], read_mpidr_el1(c), {Resume})
    /\ sp[c] # 0 => stacks[sp[c]] # None /\ stacks[sp[c]].key.aff = c
    /\ pc[c] = "OFF" => sp[c] = 0

\* The context of a suspending core is the one it asked for.
ContextsInv(c) ==
    /\ pc[c] # "panic_in_stacks" =>
           (Contains(contexts, read_mpidr_el1(c)) <=> Suspending(c))
    /\ \A i \in 1..MAX_CORES :
           (contexts[i] # None /\ contexts[i].key = read_mpidr_el1(c)) =>
               /\ pc[c] \in SuspendSteps => contexts[i].value = call[c].entry
               /\ pc[c] \in {"SUSPENDED", "secondary_entry", "restore_from_suspend"} =>
                      contexts[i].value = asked[c].entry
    /\ pc[c] = "entry_point_el1" /\ asked[c].fn # "CPU_ON" =>
           call[c].entry = asked[c].entry

\* SUSPEND_CONTEXTS is indexed by the registers of cores only.
ContextKeysInv ==
    /\ UniqueKeys(contexts)
    /\ \A i \in 1..MAX_CORES : contexts[i] # None =>
           contexts[i].key \in {read_mpidr_el1(c) : c \in Cores}

IInv ==
    /\ TypeOK /\ StacksInv /\ ContextKeysInv
    /\ \A c \in Cores : LocalsInv(c) /\ StartInv(c) /\ ContextsInv(c)

\* What a guest that serialises its CPU_ON calls adds: nobody else touches the
\* start record of the core being turned on.
SerialisedCore(c) ==
    /\ pc[c] \in OnSteps =>
           /\ call[c].target \in Cores /\ pc[call[c].target] = "OFF"
           /\ \A d \in Cores \ {c} : pc[d] \in OnSteps => call[d].target # call[c].target
    /\ pc[c] = "on_smc" => stacks[call[c].ptr].value = call[c].entry
    /\ (pc[c] \in {"ON_PENDING", "secondary_entry"} /\ asked[c].fn = "CPU_ON") =>
           stacks[sp[c]].value = asked[c].entry
    /\ pc[c] = "entry_point_el1" => call[c].entry = asked[c].entry

SerialisedInv == \A c \in Cores : SerialisedCore(c)

\* Stage 2 is on at every step that leads straight back to the guest.
Stage2Inv ==
    \A c \in Cores : pc[c] \in {"guest"} \cup OnSteps \cup SuspendSteps => stage2[c]

=============================================================================

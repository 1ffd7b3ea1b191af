----------------------- MODULE PsciCoresServiceProofs -----------------------
(***************************************************************************)
(* What PsciCores guarantees under conditions on its environment: stage 2  *)
(* stays on if the firmware implements no forwarded suspend, starts are    *)
(* exact if the guest serialises its CPU_ON calls, the maps have room if   *)
(* there are as many slots as keys.  Under the last two PsciCores          *)
(* implements CoreService: every step is a step of the service or          *)
(* invisible to the guest.                                                 *)
(***************************************************************************)
EXTENDS PsciCoresService, PsciCoresProofs

-----------------------------------------------------------------------------
(* Stage 2 *)

\* Whatever calls are forwarded, a core leaves the guest's side of the code only
\* when it goes down, and comes back through setup_stage2().
LEMMA Stage2Invariance == Spec => []Stage2Inv
<1>1. Init => Stage2Inv
  BY Zenon DEF Init, BootPc, Stage2Inv, OnSteps, SuspendSteps
<1>2. IInv /\ Stage2Inv /\ [Next]_vars => Stage2Inv'
  <2> SUFFICES ASSUME IInv, Stage2Inv, [Next]_vars
               PROVE  Stage2Inv'
    BY Zenon
  <2>1. TypeOK
    BY Zenon DEF IInv
  <2>2. CASE UNCHANGED vars \/ Stopped
    BY <2>2, Zenon DEF Stage2Inv, vars, Stopped
  <2>3. ASSUME NEW c \in Cores, Environment(c)
        PROVE  Stage2Inv'
    <3>1. CASE FirmwareResumesGuest(c) \/ \E fn \in FirmwareSuspends : ForwardSuspend(c, fn)
      BY <2>1, <3>1 DEF FirmwareResumesGuest, ForwardSuspend, Goto, TypeOK, Stage2Inv,
          OnSteps, SuspendSteps
    <3>2. CASE SystemOff(c) \/ SystemReset(c)
      BY <3>2, Zenon DEF SystemOff, SwitchOff, SystemReset, BootPc, Stage2Inv, OnSteps,
                         SuspendSteps
    <3>3. CASE \/ \E t \in Targets, e \in EntryPoints : CpuOnCall(c, t, e)
               \/ \E e \in EntryPoints : CpuSuspendCall(c, e)
      BY <2>1, <3>3, Zenon DEF CpuOnCall, CpuSuspendCall, Goto, TypeOK, Stage2Inv, OnSteps,
                               SuspendSteps
    <3>4. CASE CpuOff(c) \/ FirmwareWakes(c) \/ UnhandledTrap(c)
      BY <2>1, <3>4 DEF CpuOff, FirmwareWakes, UnhandledTrap, Goto, TypeOK, Stage2Inv,
          OnSteps, SuspendSteps
    <3>5. QED
      BY <2>3, <3>1, <3>2, <3>3, <3>4, Zenon DEF Environment
  <2>4. ASSUME NEW c \in Cores, Hypervisor(c)
        PROVE  Stage2Inv'
    <3> USE DEF Stage2Inv, TypeOK, Goto, OnSteps, SuspendSteps
    <3>1. CASE CpuOnStack(c)
      BY <2>1, <3>1, Zenon DEF CpuOnStack, GetSecondaryStack
    <3>2. CASE SuspendStack(c)
      BY <2>1, <3>2, Zenon DEF SuspendStack, GetSecondaryStack
    <3>3. CASE SuspendInsert(c) \/ RestoreFromSuspend(c)
      BY <2>1, <3>3 DEF SuspendInsert, RestoreFromSuspend
    <3>4. CASE CpuOnWrite(c) \/ CpuOnRefused(c) \/ SuspendWrite(c) \/ SuspendAccepted(c)
      BY <2>1, <3>4 DEF CpuOnWrite, CpuOnRefused, SuspendWrite, SuspendAccepted
    <3>5. CASE CpuOnAccepted(c)
      BY <2>1, <3>5, Zenon DEF CpuOnAccepted
    <3>6. CASE SuspendReturned(c) \/ SuspendReturn(c) \/ FirmwareStarts(c) \/ EntryPointEl1(c)
      BY <2>1, <3>6 DEF SuspendReturned, SuspendReturn, FirmwareStarts, EntryPointEl1
    <3>7. CASE SecondaryEntry(c)
      BY <2>1, <3>7, Zenon DEF SecondaryEntry
    <3>8. CASE PanicHandler(c)
      BY <3>8, Zenon DEF PanicHandler, SwitchOff
    <3>9. QED
      BY <2>4, <3>1, <3>2, <3>3, <3>4, <3>5, <3>6, <3>7, <3>8, Zenon DEF Hypervisor
  <2>5. QED
    BY <2>2, <2>3, <2>4, Zenon DEF Next
<1>3. QED
  BY <1>1, <1>2, Invariance, PTL DEF Spec

\* As long as the firmware offers no suspend call besides CPU_SUSPEND, the
\* guest only ever runs at EL1 with stage-2 translation on.
THEOREM GuestStaysConfined ==
    ASSUME FirmwareSuspends = {}
    PROVE  Spec => []GuestConfined
<1> DEFINE NoneForwarded == \A c \in Cores : pc[c] \notin {"SUSPENDED_BY_GUEST", "guest_el2"}
<1>1. Init => NoneForwarded
  BY Zenon DEF Init, BootPc
<1>2. IInv /\ NoneForwarded /\ [Next]_vars => NoneForwarded'
  <2> SUFFICES ASSUME IInv, NoneForwarded, [Next]_vars, NEW d \in Cores
               PROVE  pc'[d] \notin {"SUSPENDED_BY_GUEST", "guest_el2"}
    BY Zenon
  <2>1. TypeOK /\ pc[d] \notin {"SUSPENDED_BY_GUEST", "guest_el2"}
    BY Zenon DEF IInv
  <2>2. CASE UNCHANGED vars \/ Stopped
    BY <2>1, <2>2, Zenon DEF vars, Stopped
  <2>3. ASSUME NEW c \in Cores, Environment(c)
        PROVE  pc'[d] \notin {"SUSPENDED_BY_GUEST", "guest_el2"}
    <3>1. ~FirmwareResumesGuest(c)
      BY Zenon DEF FirmwareResumesGuest
    <3>2. QED
      BY <2>1, <2>3, <3>1, Zenon DEF Environment, CpuOnCall, CpuSuspendCall, CpuOff,
                                     FirmwareWakes, UnhandledTrap, SystemOff, SwitchOff,
                                     SystemReset, BootPc, Goto, TypeOK
  <2>4. ASSUME NEW c \in Cores, Hypervisor(c)
        PROVE  pc'[d] \notin {"SUSPENDED_BY_GUEST", "guest_el2"}
    <3> USE DEF Goto, TypeOK
    <3>1. CASE CpuOnStack(c) \/ SuspendStack(c)
      BY <2>1, <3>1, Zenon DEF CpuOnStack, SuspendStack, GetSecondaryStack
    <3>2. CASE SuspendInsert(c) \/ RestoreFromSuspend(c)
      BY <2>1, <3>2, Zenon DEF SuspendInsert, RestoreFromSuspend
    <3>3. CASE CpuOnWrite(c) \/ CpuOnAccepted(c) \/ CpuOnRefused(c)
      BY <2>1, <3>3, Zenon DEF CpuOnWrite, CpuOnAccepted, CpuOnRefused
    <3>4. CASE SuspendWrite(c) \/ SuspendAccepted(c) \/ SuspendReturned(c) \/ SuspendReturn(c)
      BY <2>1, <3>4, Zenon DEF SuspendWrite, SuspendAccepted, SuspendReturned, SuspendReturn
    <3>5. CASE FirmwareStarts(c) \/ SecondaryEntry(c) \/ EntryPointEl1(c)
      BY <2>1, <3>5, Zenon DEF FirmwareStarts, SecondaryEntry, EntryPointEl1
    <3>6. CASE PanicHandler(c)
      BY <3>6, Zenon DEF PanicHandler, SwitchOff
    <3>7. QED
      BY <2>4, <3>1, <3>2, <3>3, <3>4, <3>5, <3>6, Zenon DEF Hypervisor
  <2>5. QED
    BY <2>2, <2>3, <2>4, Zenon DEF Next
<1>3. Stage2Inv /\ NoneForwarded => GuestConfined
  BY Zenon DEF Stage2Inv, GuestConfined
<1>4. QED
  BY <1>1, <1>2, <1>3, Invariance, Stage2Invariance, PTL DEF Spec

-----------------------------------------------------------------------------
(* A guest that serialises its CPU_ON calls *)

\* The register of a core has RES1 bit 31 set and names the core.
LEMMA ReadMpidrFields ==
    ASSUME NEW c
    PROVE  read_mpidr_el1(c).res1 /\ read_mpidr_el1(c).aff = c
BY Zenon DEF read_mpidr_el1

\* Different targets have different keys.
LEMMA ArgumentInjective ==
    ASSUME NEW t, NEW u, MpidrArgument(t) = MpidrArgument(u)
    PROVE  t = u
BY Zenon DEF MpidrArgument

\* The slot whose content core d depends on.
ReliesOn(d, i) ==
    \/ pc[d] = "on_smc" /\ i = call[d].ptr
    \/ pc[d] \in {"ON_PENDING", "secondary_entry"} /\ asked[d].fn = "CPU_ON" /\ i = sp[d]

\* It is a stack of that core or of the core it is turning on.
LEMMA ReliesOnSlot ==
    ASSUME IInv, NEW d \in Cores, NEW i, ReliesOn(d, i)
    PROVE  /\ i \in 1..MAX_CORES /\ stacks[i] # None
           /\ stacks[i].key = MpidrArgument(IF pc[d] = "on_smc" THEN call[d].target ELSE d)
           /\ ~stacks[i].key.res1
<1>1. \A t : ~MpidrArgument(t).res1
  BY Zenon DEF MpidrArgument
<1>2. CASE pc[d] = "on_smc" /\ i = call[d].ptr
  <2>1. Owned(i, MpidrArgument(call[d].target), EntryPoint)
    BY <1>2, Zenon DEF IInv, LocalsInv
  <2>2. QED
    BY <1>1, <1>2, <2>1, Zenon DEF Owned
<1>3. CASE /\ pc[d] \in {"ON_PENDING", "secondary_entry"}
           /\ asked[d].fn = "CPU_ON" /\ i = sp[d]
  <2>1. Owned(i, MpidrArgument(d), EntryPoint) /\ pc[d] # "on_smc"
    BY <1>3, Zenon DEF IInv, StartInv
  <2>2. QED
    BY <1>1, <2>1, Zenon DEF Owned
<1>4. QED
  BY <1>2, <1>3, Zenon DEF ReliesOn

\* A step of core c that changes no slot another core relies on.
LEMMA SerialisedStep ==
    ASSUME IInv, SerialisedInv, NEW c \in Cores, pc[c] # "OFF",
           \A d \in Cores \ {c} : CoreKept(d),
           \A d \in Cores \ {c} : \A i \in 1..MAX_CORES :
               ReliesOn(d, i) => stacks'[i] = stacks[i],
           SerialisedCore(c)'
    PROVE  SerialisedInv'
<1> SUFFICES ASSUME NEW d \in Cores \ {c} PROVE SerialisedCore(d)'
  BY Zenon DEF SerialisedInv
<1>1. SerialisedCore(d) /\ CoreKept(d)
  BY Zenon DEF SerialisedInv
<1>2. \A i : ReliesOn(d, i) => stacks'[i] = stacks[i]
  BY ReliesOnSlot, Zenon
<1>3. pc[d] \in OnSteps => pc[call[d].target] = "OFF" /\ call[d].target \in Cores \ {c}
  BY <1>1, Zenon DEF SerialisedCore
<1>4. pc[d] \in OnSteps =>
          \A e \in Cores \ {d} : pc'[e] \in OnSteps => call'[e].target # call[d].target
  <2> SUFFICES ASSUME pc[d] \in OnSteps, NEW e \in Cores \ {d}, pc'[e] \in OnSteps
               PROVE  call'[e].target # call[d].target
    BY Zenon
  <2>1. CASE e = c
    BY <1>1, <2>1, Zenon DEF SerialisedCore, CoreKept
  <2>2. CASE e # c
    BY <1>1, <2>2 DEF SerialisedCore, CoreKept
  <2>3. QED
    BY <2>1, <2>2, Zenon
<1>5. pc[d] \in OnSteps => pc'[call[d].target] = "OFF"
  BY <1>3, Zenon DEF CoreKept
<1>6. pc'[d] = pc[d] /\ call'[d] = call[d] /\ sp'[d] = sp[d] /\ asked'[d] = asked[d]
  BY <1>1, Zenon DEF CoreKept
<1>7. pc[d] = "on_smc" => stacks'[call[d].ptr].value = call[d].entry
  BY <1>1, <1>2, Zenon DEF SerialisedCore, ReliesOn
<1>8. (pc[d] \in {"ON_PENDING", "secondary_entry"} /\ asked[d].fn = "CPU_ON") =>
          stacks'[sp[d]].value = asked[d].entry
  BY <1>1, <1>2, Zenon DEF SerialisedCore, ReliesOn
<1>9. pc[d] = "entry_point_el1" => call[d].entry = asked[d].entry
  BY <1>1, Zenon DEF SerialisedCore
<1>10. QED
  BY <1>3, <1>4, <1>5, <1>6, <1>7, <1>8, <1>9, Zenon DEF SerialisedCore

\* Steps after which core c is not part of a CPU_ON or of a start.
LEMMA SerialisedLeaves ==
    ASSUME IInv, SerialisedInv, NEW c \in Cores, pc[c] # "OFF",
           NEW l, pc' = [pc EXCEPT ![c] = l],
           l \notin OnSteps \cup {"ON_PENDING", "secondary_entry", "entry_point_el1"},
           \A d \in Cores \ {c} : CoreKept(d),
           \A d \in Cores \ {c} : \A i \in 1..MAX_CORES :
               ReliesOn(d, i) => stacks'[i] = stacks[i]
    PROVE  SerialisedInv'
<1>1. pc'[c] = l
  BY Zenon DEF IInv, TypeOK
<1>2. SerialisedCore(c)'
  BY <1>1, Zenon DEF SerialisedCore, OnSteps
<1>3. QED
  BY <1>2, SerialisedStep, Zenon

\* Two cores in a CPU_ON hold different stacks, and neither holds the stack of
\* a core that is being started.
LEMMA SerialisedSlots ==
    ASSUME IInv, SerialisedInv, NEW c \in Cores, NEW d \in Cores \ {c},
           pc[c] \in {"on_write", "on_smc"}
    PROVE  /\ ~ReliesOn(d, call[c].ptr)
           /\ pc[d] = "on_write" => call[d].ptr # call[c].ptr
<1>1. /\ stacks[call[c].ptr].key = MpidrArgument(call[c].target)
      /\ pc[call[c].target] = "OFF"
      /\ pc[d] \in OnSteps => call[d].target # call[c].target
  BY Zenon DEF IInv, SerialisedInv, SerialisedCore, LocalsInv, Owned, OnSteps
<1>2. ~ReliesOn(d, call[c].ptr)
  <2> SUFFICES ASSUME ReliesOn(d, call[c].ptr) PROVE FALSE
    BY Zenon
  <2>1. call[c].target = IF pc[d] = "on_smc" THEN call[d].target ELSE d
    <3> DEFINE u == IF pc[d] = "on_smc" THEN call[d].target ELSE d
    <3>1. stacks[call[c].ptr].key = MpidrArgument(u)
      BY ReliesOnSlot, Zenon
    <3> HIDE DEF u
    <3>2. call[c].target = u
      BY <1>1, <3>1, ArgumentInjective, Zenon
    <3>3. QED
      BY <3>2, Zenon DEF u
  <2>2. QED
    BY <1>1, <2>1, Zenon DEF ReliesOn, OnSteps
<1>3. pc[d] = "on_write" => call[d].ptr # call[c].ptr
  <2> SUFFICES ASSUME pc[d] = "on_write", call[d].ptr = call[c].ptr PROVE FALSE
    BY Zenon
  <2>1. stacks[call[d].ptr].key = MpidrArgument(call[d].target)
    BY Zenon DEF IInv, LocalsInv, Owned
  <2>2. QED
    BY <1>1, <2>1 DEF MpidrArgument, OnSteps
<1>4. QED
  BY <1>2, <1>3, Zenon

\* The guest and the firmware keep the start records of a serialised guest.
LEMMA SerialisedEnvironment ==
    ASSUME Serialised, IInv, SerialisedInv, NEW c \in Cores, Environment(c)
    PROVE  SerialisedInv'
<1>1. TypeOK /\ SerialisedCore(c) /\ LocalsInv(c) /\ StartInv(c)
  BY Zenon DEF IInv, SerialisedInv
<1>2. CASE SystemOff(c)
  BY <1>2, Zenon DEF SystemOff, SwitchOff, SerialisedInv, SerialisedCore, OnSteps
<1>3. CASE SystemReset(c)
  BY <1>3, Zenon DEF SystemReset, BootPc, BootCall, BootRequest, SerialisedInv,
                     SerialisedCore, OnSteps
<1>4. ASSUME NEW t \in Targets, NEW e \in EntryPoints, CpuOnCall(c, t, e)
      PROVE  SerialisedInv'
  <2>1. /\ pc[c] = "guest" /\ t \in Cores /\ pc[t] = "OFF"
        /\ \A d \in Cores : call[d] # None => call[d].target # t
    BY <1>4, Zenon DEF CpuOnCall, MayTurnOn
  <2>2. /\ pc'[c] = "on_stack" /\ call'[c].target = t /\ pc'[t] = "OFF"
        /\ \A d \in Cores \ {c} : CoreKept(d) /\ UNCHANGED stacks
    BY <1>1, <1>4, <2>1, Zenon DEF CpuOnCall, Goto, TypeOK, CoreKept
  <2>3. \A d \in Cores : pc[d] \in OnSteps => call[d] \in Call
    BY Zenon DEF IInv, LocalsInv
  <2>4. \A d \in Cores \ {c} : pc'[d] \in OnSteps => call'[d].target # t
    <3>1. ASSUME NEW d \in Cores \ {c}, pc'[d] \in OnSteps
          PROVE  call'[d].target # t
      <4>1. pc'[d] = pc[d] /\ call'[d] = call[d]
        BY <2>2, Zenon DEF CoreKept
      <4>2. call[d] # None
        BY <2>3, <3>1, <4>1, ConstantsAssumption, Zenon
      <4>3. QED
        BY <2>1, <4>1, <4>2, Zenon
    <3>2. QED
      BY <3>1, Zenon
  <2>5. SerialisedCore(c)'
    BY <2>1, <2>2, <2>4, Zenon DEF SerialisedCore
  <2>6. QED
    BY <2>1, <2>2, <2>5, SerialisedStep, Zenon
<1>5. ASSUME NEW e \in EntryPoints, CpuSuspendCall(c, e)
      PROVE  SerialisedInv'
  <2>1. /\ pc[c] = "guest" /\ pc' = [pc EXCEPT ![c] = "suspend_insert"]
        /\ \A d \in Cores \ {c} : CoreKept(d) /\ UNCHANGED stacks
    BY <1>1, <1>5, Zenon DEF CpuSuspendCall, Goto, TypeOK, CoreKept
  <2>2. QED
    BY <2>1, SerialisedLeaves, Zenon DEF OnSteps
<1>6. CASE CpuOff(c)
  <2>1. /\ pc[c] # "OFF" /\ pc' = [pc EXCEPT ![c] = "OFF"]
        /\ \A d \in Cores \ {c} : CoreKept(d) /\ UNCHANGED stacks
    BY <1>1, <1>6, Zenon DEF CpuOff, Goto, TypeOK, CoreKept, GuestSteps
  <2>2. QED
    BY <2>1, SerialisedLeaves, Zenon DEF OnSteps
<1>7. ASSUME NEW fn, ForwardSuspend(c, fn)
      PROVE  SerialisedInv'
  <2>1. /\ pc[c] # "OFF" /\ pc' = [pc EXCEPT ![c] = "SUSPENDED_BY_GUEST"]
        /\ \A d \in Cores \ {c} : CoreKept(d) /\ UNCHANGED stacks
    BY <1>1, <1>7, Zenon DEF ForwardSuspend, Goto, TypeOK, CoreKept
  <2>2. QED
    BY <2>1, SerialisedLeaves, Zenon DEF OnSteps
<1>8. CASE FirmwareResumesGuest(c)
  <2>1. /\ pc[c] # "OFF" /\ pc' = [pc EXCEPT ![c] = "guest_el2"]
        /\ \A d \in Cores \ {c} : CoreKept(d) /\ UNCHANGED stacks
    BY <1>1, <1>8, Zenon DEF FirmwareResumesGuest, Goto, TypeOK, CoreKept
  <2>2. QED
    BY <2>1, SerialisedLeaves, Zenon DEF OnSteps
<1>9. CASE UnhandledTrap(c)
  <2>1. /\ pc[c] # "OFF" /\ pc' = [pc EXCEPT ![c] = "panic"]
        /\ \A d \in Cores \ {c} : CoreKept(d) /\ UNCHANGED stacks
    BY <1>1, <1>9, Zenon DEF UnhandledTrap, Goto, TypeOK, CoreKept
  <2>2. QED
    BY <2>1, SerialisedLeaves, Zenon DEF OnSteps
<1>10. CASE FirmwareWakes(c)
  <2>1. /\ pc[c] = "SUSPENDED" /\ pc'[c] = "secondary_entry" /\ asked'[c] = asked[c]
        /\ \A d \in Cores \ {c} : CoreKept(d) /\ UNCHANGED stacks
    BY <1>1, <1>10, Zenon DEF FirmwareWakes, Goto, TypeOK, CoreKept
  <2>2. asked[c].fn = "CPU_SUSPEND"
    BY <1>1, <2>1, Zenon DEF StartInv
  <2>3. SerialisedCore(c)'
    BY <2>1, <2>2, Zenon DEF SerialisedCore, OnSteps
  <2>4. QED
    BY <2>1, <2>3, SerialisedStep, Zenon
<1>11. QED
  BY <1>2, <1>3, <1>4, <1>5, <1>6, <1>7, <1>8, <1>9, <1>10, Zenon DEF Environment

\* A core that writes alone writes its own closure.
LEMMA MixedSame ==
    ASSUME NEW x \in EntryPoint, NEW e \in Mixed(x, x)
    PROVE  e = x
<1>1. x = [entry_point_address |-> x.entry_point_address, context_id |-> x.context_id]
  BY Zenon DEF EntryPoint
<1>2. e = [entry_point_address |-> x.entry_point_address, context_id |-> x.context_id]
  BY Zenon DEF Mixed
<1>3. QED
  BY <1>1, <1>2, Zenon

\* psci_cpu_on() writes the record of a target that is off and its own.
LEMMA SerialisedCpuOn ==
    ASSUME IInv, SerialisedInv, NEW c \in Cores,
           CpuOnStack(c) \/ CpuOnWrite(c) \/ CpuOnAccepted(c) \/ CpuOnRefused(c)
    PROVE  SerialisedInv'
<1>1. TypeOK /\ SerialisedCore(c) /\ LocalsInv(c) /\ StartInv(c)
  BY Zenon DEF IInv, SerialisedInv
<1>2. CASE CpuOnStack(c)
  <2> DEFINE m == MpidrArgument(call[c].target)
  <2>1. /\ pc[c] = "on_stack" /\ GetSecondaryStack(c, m, "on_write")
        /\ UNCHANGED <<contexts, sp, stage2, asked>>
    BY <1>2, Zenon DEF CpuOnStack, GetSecondaryStack
  <2>2. call[c] \in Call /\ call[c].target \in Targets
    BY <1>1, <2>1, Zenon DEF LocalsInv, OnSteps
  <2>3. m \in Mpidr /\ ~m.res1
    BY <2>2, Zenon DEF Mpidr, MpidrArgument
  <2>4. /\ \A i \in 1..MAX_CORES : stacks[i] # None => stacks'[i] = stacks[i]
        /\ \/ /\ pc' = [pc EXCEPT ![c] = "on_write"]
              /\ \E p \in 1..MAX_CORES : call' = [call EXCEPT ![c].ptr = p]
           \/ pc' = [pc EXCEPT ![c] = "panic_in_stacks"] /\ UNCHANGED call
    BY <2>1, <2>3, GetSecondaryStackEffect
  <2>5. \A d \in Cores \ {c} : CoreKept(d)
    BY <1>1, <2>1, <2>4, Zenon DEF TypeOK, CoreKept
  <2>6. \A d \in Cores \ {c} : \A i \in 1..MAX_CORES :
            ReliesOn(d, i) => stacks'[i] = stacks[i]
    BY <2>4, ReliesOnSlot, Zenon
  <2>7. CASE pc' = [pc EXCEPT ![c] = "panic_in_stacks"]
    BY <2>1, <2>5, <2>6, <2>7, SerialisedLeaves, Zenon DEF OnSteps
  <2>8. ASSUME NEW p \in 1..MAX_CORES, pc' = [pc EXCEPT ![c] = "on_write"],
               call' = [call EXCEPT ![c].ptr = p]
        PROVE  SerialisedInv'
    <3>1. /\ pc'[c] = "on_write" /\ call'[c].target = call[c].target
          /\ pc[c] \in OnSteps
      BY <1>1, <2>1, <2>2, <2>8, Zenon DEF TypeOK, Call, OnSteps
    <3>2. call[c].target \in Cores \ {c} /\ pc[call[c].target] = "OFF"
      BY <1>1, <2>1, <3>1, Zenon DEF SerialisedCore
    <3>3. SerialisedCore(c)'
      BY <1>1, <2>5, <3>1, <3>2, Zenon DEF SerialisedCore, CoreKept
    <3>4. QED
      BY <2>1, <2>5, <2>6, <3>3, SerialisedStep, Zenon
  <2>9. QED
    BY <2>4, <2>7, <2>8, Zenon
<1>3. CASE CpuOnWrite(c)
  <2>1. /\ pc[c] = "on_write" /\ pc' = [pc EXCEPT ![c] = "on_smc"]
        /\ UNCHANGED <<contexts, call, sp, stage2, asked>>
    BY <1>3, Zenon DEF CpuOnWrite, Goto
  <2>2. /\ call[c] \in Call
        /\ Owned(call[c].ptr, MpidrArgument(call[c].target), EntryPoint \cup {None})
    BY <1>1, <2>1, Zenon DEF LocalsInv, OnSteps
  <2>3. stacks' = [stacks EXCEPT ![call[c].ptr].value = call[c].entry]
    <3>1. PICK d \in Writing(call[c].ptr) : \E e \in Mixed(call[c].entry, call[d].entry) :
              stacks' = [stacks EXCEPT ![call[c].ptr].value = e]
      BY <1>3, Zenon DEF CpuOnWrite
    <3>2. d = c
      BY <2>1, SerialisedSlots, Zenon DEF Writing
    <3>3. call[c].entry \in EntryPoint
      BY <2>2, Zenon DEF Call
    <3>4. QED
      BY <3>1, <3>2, <3>3, MixedSame, Zenon
  <2>4. /\ stacks'[call[c].ptr].value = call[c].entry
        /\ \A i \in 1..MAX_CORES \ {call[c].ptr} : stacks'[i] = stacks[i]
    <3>1. ~stacks[call[c].ptr].key.res1 /\ call[c].entry \in EntryPoint
      <4>1. stacks[call[c].ptr].key = MpidrArgument(call[c].target)
        BY <2>2, Zenon DEF Owned
      <4>2. ~MpidrArgument(call[c].target).res1
        BY Zenon DEF MpidrArgument
      <4>3. call[c].entry \in EntryPoint
        BY <2>2, Zenon DEF Call
      <4>4. QED
        BY <4>1, <4>2, <4>3, Zenon
    <3>2. QED
      BY <2>2, <2>3, <3>1, StackWriteEffect, Zenon DEF Owned
  <2>5. pc'[c] = "on_smc" /\ \A d \in Cores \ {c} : CoreKept(d)
    BY <1>1, <2>1, Zenon DEF TypeOK, CoreKept
  <2>6. \A d \in Cores \ {c} : \A i \in 1..MAX_CORES :
            ReliesOn(d, i) => stacks'[i] = stacks[i]
    BY <2>1, <2>4, SerialisedSlots, Zenon
  <2>7. call[c].target \in Cores \ {c} /\ pc[call[c].target] = "OFF"
    BY <1>1, <2>1, Zenon DEF SerialisedCore, OnSteps
  <2>8. SerialisedCore(c)'
    BY <1>1, <2>1, <2>4, <2>5, <2>7, Zenon DEF SerialisedCore, CoreKept, OnSteps
  <2>9. QED
    BY <2>1, <2>5, <2>6, <2>8, SerialisedStep, Zenon
<1>4. CASE CpuOnAccepted(c)
  <2>1. PICK t \in Cores : t = call[c].target
    BY <1>4, Zenon DEF CpuOnAccepted
  <2> DEFINE a == [fn |-> "CPU_ON", entry |-> call[c].entry]
  <2>2. /\ pc[c] = "on_smc" /\ pc[t] = "OFF" /\ c # t
        /\ pc'[c] = "guest" /\ pc'[t] = "ON_PENDING" /\ sp'[t] = call[c].ptr
        /\ asked'[t] = a /\ UNCHANGED stacks
        /\ \A d \in Cores \ {c, t} : CoreKept(d)
    BY <1>1, <1>4, <2>1, Zenon DEF CpuOnAccepted, TypeOK, CoreKept
  <2>3. stacks[call[c].ptr].value = call[c].entry
    BY <1>1, <2>2, Zenon DEF SerialisedCore
  <2>4. SerialisedCore(c)'
    BY <2>2, Zenon DEF SerialisedCore, OnSteps
  <2>5. SerialisedCore(t)'
    <3>1. a.entry = call[c].entry
      BY Zenon
    <3> HIDE DEF a
    <3>2. stacks'[sp'[t]].value = asked'[t].entry
      BY <2>2, <2>3, <3>1, Zenon
    <3>3. QED
      BY <2>2, <3>2, Zenon DEF SerialisedCore, OnSteps
  <2>6. ASSUME NEW d \in Cores \ {c, t}
        PROVE  SerialisedCore(d)'
    <3>1. SerialisedCore(d) /\ CoreKept(d)
      BY <2>2, Zenon DEF SerialisedInv
    <3>2. pc[d] \in OnSteps => call[d].target \in Cores \ {c, t}
      BY <1>1, <2>1, <2>2, <3>1, Zenon DEF SerialisedCore, OnSteps
    <3>3. pc[d] \in OnSteps => pc'[call[d].target] = "OFF"
      BY <2>2, <3>1, <3>2, Zenon DEF SerialisedCore, CoreKept
    <3>4. pc[d] \in OnSteps =>
              \A e \in Cores \ {d} : pc'[e] \in OnSteps => call'[e].target # call[d].target
      BY <2>2, <3>1 DEF SerialisedCore, CoreKept, OnSteps
    <3>5. QED
      BY <2>2, <3>1, <3>2, <3>3, <3>4 DEF SerialisedCore, CoreKept
  <2>7. QED
    BY <2>4, <2>5, <2>6, Zenon DEF SerialisedInv
<1>5. CASE CpuOnRefused(c)
  <2>1. /\ pc[c] # "OFF" /\ pc' = [pc EXCEPT ![c] = "guest"]
        /\ \A d \in Cores \ {c} : CoreKept(d) /\ UNCHANGED stacks
    BY <1>1, <1>5, Zenon DEF CpuOnRefused, Goto, TypeOK, CoreKept
  <2>2. QED
    BY <2>1, SerialisedLeaves, Zenon DEF OnSteps
<1>6. QED
  BY <1>2, <1>3, <1>4, <1>5, Zenon

\* psci_cpu_suspend() and restore_from_suspend() touch no record of CPU_ON.
LEMMA SerialisedSuspend ==
    ASSUME IInv, SerialisedInv, NEW c \in Cores,
           \/ SuspendInsert(c) \/ SuspendStack(c) \/ SuspendWrite(c)
           \/ SuspendAccepted(c) \/ SuspendReturned(c) \/ SuspendReturn(c)
    PROVE  SerialisedInv'
<1>1. TypeOK /\ LocalsInv(c)
  BY Zenon DEF IInv
<1>2. CASE SuspendInsert(c)
  <2>1. /\ pc[c] # "OFF" /\ \A d \in Cores \ {c} : CoreKept(d) /\ UNCHANGED stacks
        /\ \E l \in {"suspend_stack", "panic_in_contexts"} : pc' = [pc EXCEPT ![c] = l]
    BY <1>1, <1>2, Zenon DEF SuspendInsert, Goto, TypeOK, CoreKept
  <2>2. QED
    BY <2>1, SerialisedLeaves, Zenon DEF OnSteps
<1>3. CASE SuspendAccepted(c) \/ SuspendReturned(c) \/ SuspendReturn(c)
  <2>1. /\ pc[c] # "OFF" /\ \A d \in Cores \ {c} : CoreKept(d) /\ UNCHANGED stacks
        /\ \E l \in {"SUSPENDED", "suspend_return", "guest"} : pc' = [pc EXCEPT ![c] = l]
    BY <1>1, <1>3 DEF SuspendAccepted, SuspendReturned, SuspendReturn, Goto, TypeOK, CoreKept
  <2>2. QED
    BY <2>1, SerialisedLeaves, Zenon DEF OnSteps
<1>4. CASE SuspendStack(c)
  <2>1. /\ pc[c] = "suspend_stack" /\ GetSecondaryStack(c, read_mpidr_el1(c), "suspend_write")
        /\ UNCHANGED <<contexts, sp, stage2, asked>>
    BY <1>4, Zenon DEF SuspendStack, GetSecondaryStack
  <2>2. read_mpidr_el1(c) \in Mpidr /\ read_mpidr_el1(c).aff \in Cores
    BY ConstantsAssumption, Zenon DEF Mpidr, read_mpidr_el1
  <2>3. /\ \A i \in 1..MAX_CORES : stacks[i] # None => stacks'[i] = stacks[i]
        /\ \/ /\ pc' = [pc EXCEPT ![c] = "suspend_write"]
              /\ \E p \in 1..MAX_CORES : call' = [call EXCEPT ![c].ptr = p]
           \/ pc' = [pc EXCEPT ![c] = "panic_in_stacks"] /\ UNCHANGED call
    BY <2>1, <2>2, GetSecondaryStackEffect
  <2>4. /\ \A d \in Cores \ {c} : CoreKept(d)
        /\ \E l \in {"suspend_write", "panic_in_stacks"} : pc' = [pc EXCEPT ![c] = l]
    BY <1>1, <2>1, <2>3, Zenon DEF TypeOK, CoreKept
  <2>5. \A d \in Cores \ {c} : \A i \in 1..MAX_CORES :
            ReliesOn(d, i) => stacks'[i] = stacks[i]
    BY <2>3, ReliesOnSlot, Zenon
  <2>6. QED
    BY <2>1, <2>4, <2>5, SerialisedLeaves, Zenon DEF OnSteps
<1>5. CASE SuspendWrite(c)
  <2>1. /\ pc[c] = "suspend_write" /\ pc' = [pc EXCEPT ![c] = "suspend_smc"]
        /\ stacks' = [stacks EXCEPT ![call[c].ptr].value = Resume]
        /\ UNCHANGED <<contexts, call, sp, stage2, asked>>
    BY <1>5, Zenon DEF SuspendWrite, Goto
  <2>2. Owned(call[c].ptr, read_mpidr_el1(c), {Resume, None})
    BY <1>1, <2>1, Zenon DEF LocalsInv
  <2>3. stacks[call[c].ptr].key.res1
    <3>1. stacks[call[c].ptr].key = read_mpidr_el1(c)
      BY <2>2, Zenon DEF Owned
    <3>2. QED
      BY <3>1, ReadMpidrFields, Zenon
  <2>4. \A i \in 1..MAX_CORES \ {call[c].ptr} : stacks'[i] = stacks[i]
    BY <2>1, <2>2, <2>3, StackWriteEffect, Zenon DEF Owned
  <2>5. \A d \in Cores \ {c} : CoreKept(d)
    BY <1>1, <2>1, Zenon DEF TypeOK, CoreKept
  <2>6. ASSUME NEW d \in Cores \ {c}, NEW i \in 1..MAX_CORES, ReliesOn(d, i)
        PROVE  stacks'[i] = stacks[i]
    <3>1. ~stacks[i].key.res1
      BY <2>6, ReliesOnSlot, Zenon
    <3>2. QED
      BY <2>3, <2>4, <3>1, Zenon
  <2>7. QED
    BY <2>1, <2>5, <2>6, SerialisedLeaves, Zenon DEF OnSteps
<1>6. QED
  BY <1>2, <1>3, <1>4, <1>5, Zenon

\* A start reads the record that was written for it.
LEMMA SerialisedStart ==
    ASSUME IInv, SerialisedInv, NEW c \in Cores,
           FirmwareStarts(c) \/ SecondaryEntry(c) \/ RestoreFromSuspend(c) \/ EntryPointEl1(c)
    PROVE  SerialisedInv'
<1>1. TypeOK /\ SerialisedCore(c) /\ StartInv(c) /\ ContextsInv(c)
  BY Zenon DEF IInv, SerialisedInv
<1>2. CASE FirmwareStarts(c)
  <2>1. /\ pc[c] = "ON_PENDING" /\ pc'[c] = "secondary_entry" /\ asked'[c] = asked[c]
        /\ sp'[c] = sp[c] /\ \A d \in Cores \ {c} : CoreKept(d) /\ UNCHANGED stacks
    BY <1>1, <1>2, Zenon DEF FirmwareStarts, Goto, TypeOK, CoreKept
  <2>2. SerialisedCore(c)'
    BY <1>1, <1>2, <2>1, Zenon DEF SerialisedCore, OnSteps, FirmwareStarts
  <2>3. QED
    BY <1>2, <2>1, <2>2, SerialisedStep, Zenon DEF FirmwareStarts
<1>3. CASE SecondaryEntry(c)
  <2>1. pc[c] = "secondary_entry" /\ UNCHANGED <<stacks, contexts, sp, stage2, asked>>
    BY <1>3, Zenon DEF SecondaryEntry
  <2>2. CASE pc' = [pc EXCEPT ![c] = "restore_from_suspend"] /\ UNCHANGED call
    <3>1. \A d \in Cores \ {c} : CoreKept(d)
      BY <1>1, <2>1, <2>2, Zenon DEF TypeOK, CoreKept
    <3>2. QED
      BY <2>1, <2>2, <3>1, SerialisedLeaves, Zenon DEF OnSteps
  <2>3. ASSUME NEW e \in Readable(sp[c]) \cap EntryPoint,
               call' = [call EXCEPT ![c] = [target |-> None, entry |-> e, ptr |-> 0]],
               pc' = [pc EXCEPT ![c] = "entry_point_el1"]
        PROVE  SerialisedInv'
    <3>1. /\ asked[c].fn = "CPU_ON"
          /\ stacks[sp[c]].value \in EntryPoint /\ ReliesOn(c, sp[c])
      <4>1. IF asked[c].fn = "CPU_ON" THEN stacks[sp[c]].value \in EntryPoint
                                      ELSE stacks[sp[c]].value = Resume
        BY <1>1, <2>1, Zenon DEF StartInv, Owned
      <4>2. QED
        BY <2>1, <2>3, <4>1, ConstantsAssumption, Zenon DEF Readable, ReliesOn
    <3>2. Writing(sp[c]) = {}
      BY <2>1, <3>1, SerialisedSlots, Zenon DEF Writing
    <3>3. e = asked[c].entry
      BY <1>1, <2>1, <2>3, <3>1, <3>2, Zenon DEF Readable, SerialisedCore
    <3>4. /\ pc'[c] = "entry_point_el1" /\ call'[c].entry = e
          /\ \A d \in Cores \ {c} : CoreKept(d)
      BY <1>1, <2>1, <2>3, Zenon DEF TypeOK, CoreKept
    <3>5. SerialisedCore(c)'
      BY <2>1, <3>3, <3>4, Zenon DEF SerialisedCore, OnSteps
    <3>6. QED
      BY <2>1, <3>4, <3>5, SerialisedStep, Zenon
  <2>4. QED
    BY <1>3, <2>2, <2>3, Zenon DEF SecondaryEntry, Goto
<1>4. CASE RestoreFromSuspend(c)
  <2> DEFINE g == GetMut(contexts, read_mpidr_el1(c))
  <2>1. /\ pc[c] = "restore_from_suspend" /\ Contains(contexts, read_mpidr_el1(c))
    BY <1>1, <1>4, Zenon DEF RestoreFromSuspend, ContextsInv, Suspending
  <2>2. /\ pc'[c] = "entry_point_el1" /\ call'[c].entry = contexts[g].value
        /\ asked'[c] = asked[c] /\ \A d \in Cores \ {c} : CoreKept(d) /\ UNCHANGED stacks
    <3> DEFINE k == [target |-> None, ptr |-> 0, entry |-> contexts[g].value]
    <3>1. k.entry = contexts[g].value
      BY Zenon
    <3>2. /\ call' = [call EXCEPT ![c] = k] /\ pc' = [pc EXCEPT ![c] = "entry_point_el1"]
          /\ UNCHANGED <<stacks, sp, asked>>
      BY <1>4, <2>1, Zenon DEF RestoreFromSuspend, Goto
    <3> HIDE DEF k
    <3>3. pc \in [Cores -> Pc] /\ call \in [Cores -> Call \cup {None}]
      BY <1>1, Zenon DEF TypeOK
    <3>4. pc'[c] = "entry_point_el1" /\ call'[c] = k
      BY <3>2, <3>3, Zenon
    <3>5. \A d \in Cores \ {c} : pc'[d] = pc[d] /\ call'[d] = call[d]
      BY <3>2, <3>3, Zenon
    <3>6. QED
      BY <3>1, <3>2, <3>4, <3>5, Zenon DEF CoreKept
  <2>3. g \in 1..MAX_CORES /\ contexts[g] # None /\ contexts[g].key = read_mpidr_el1(c)
    <3>1. contexts \in SimpleMaps(Mpidr, EntryPoint, MAX_CORES) /\ MAX_CORES \in Nat
      BY <1>1, ConstantsAssumption, Zenon DEF TypeOK
    <3>2. QED
      BY <2>1, <3>1, GetMutFinds DEF SimpleMaps
  <2>4. contexts[g].value = asked[c].entry
    BY <1>1, <2>1, <2>3, Zenon DEF ContextsInv
  <2>5. SerialisedCore(c)'
    BY <2>2, <2>4, Zenon DEF SerialisedCore, OnSteps
  <2>6. QED
    BY <2>1, <2>2, <2>5, SerialisedStep, Zenon
<1>5. CASE EntryPointEl1(c)
  <2>1. /\ pc[c] # "OFF" /\ pc' = [pc EXCEPT ![c] = "guest"]
        /\ \A d \in Cores \ {c} : CoreKept(d) /\ UNCHANGED stacks
    BY <1>1, <1>5, Zenon DEF EntryPointEl1, Goto, TypeOK, CoreKept
  <2>2. QED
    BY <2>1, SerialisedLeaves, Zenon DEF OnSteps
<1>6. QED
  BY <1>2, <1>3, <1>4, <1>5, Zenon

\* For a guest that serialises its CPU_ON calls, start records are exact.
LEMMA SerialisedInvariance ==
    ASSUME Serialised
    PROVE  Spec => []SerialisedInv
<1>1. Init => SerialisedInv
  <2> SUFFICES ASSUME Init, NEW c \in Cores PROVE SerialisedCore(c)
    BY Zenon DEF SerialisedInv
  <2>1. pc[c] = IF c = BootCore THEN "entry_point_el1" ELSE "OFF"
    BY Zenon DEF Init, BootPc
  <2>2. c = BootCore => call[c].entry = Payload /\ asked[c].entry = Payload
    BY Zenon DEF Init, BootCall, BootRequest
  <2>3. QED
    BY <2>1, <2>2, Zenon DEF SerialisedCore, OnSteps
<1>2. IInv /\ SerialisedInv /\ [Next]_vars => SerialisedInv'
  <2> SUFFICES ASSUME IInv, SerialisedInv, [Next]_vars PROVE SerialisedInv'
    BY Zenon
  <2>1. CASE UNCHANGED vars \/ Stopped
    <3>1. /\ pc' = pc /\ call' = call /\ stacks' = stacks
          /\ asked' = asked /\ sp' = sp
      BY <2>1, Zenon DEF vars, Stopped
    <3>2. ASSUME NEW c \in Cores
          PROVE  SerialisedCore(c)'
      <4>1. SerialisedCore(c)
        BY Zenon DEF SerialisedInv
      <4>2. QED
        BY <3>1, <4>1, Zenon DEF SerialisedCore
    <3>3. QED
      BY <3>2, Zenon DEF SerialisedInv
  <2>2. ASSUME NEW c \in Cores, Environment(c)
        PROVE  SerialisedInv'
    BY <2>2, SerialisedEnvironment, Zenon
  <2>3. ASSUME NEW c \in Cores, Hypervisor(c)
        PROVE  SerialisedInv'
    <3>1. CASE PanicHandler(c)
      BY <3>1, Zenon DEF PanicHandler, SwitchOff, SerialisedInv, SerialisedCore, OnSteps
    <3>2. QED
      BY <2>3, <3>1, SerialisedCpuOn, SerialisedSuspend, SerialisedStart, Zenon DEF Hypervisor
  <2>4. QED
    BY <2>1, <2>2, <2>3, Zenon DEF Next
<1>3. QED
  BY <1>1, <1>2, Invariance, PTL DEF Spec

\* For a guest that serialises its CPU_ON calls, every core enters the guest
\* with the entry point and context of the request that was accepted for it.
THEOREM EntryCorrect ==
    ASSUME Serialised
    PROVE  Spec => []EntryAsRequested
<1>1. SerialisedInv => EntryAsRequested
  BY Zenon DEF SerialisedInv, SerialisedCore, EntryAsRequested
<1>2. QED
  BY <1>1, SerialisedInvariance, PTL

\* For such a guest, no core writes the stack of another core that is on or
\* being started.
THEOREM StacksRespected ==
    ASSUME Serialised
    PROVE  Spec => OwnStackOnly
<1> DEFINE Respects ==
        \A c \in Cores : (sp[c] # 0 /\ sp'[c] = sp[c] /\ pc'[c] = pc[c])
                             => stacks'[sp[c]] = stacks[sp[c]]
<1>1. IInv /\ SerialisedInv /\ [Next]_vars => [Respects]_vars
  <2> SUFFICES ASSUME IInv, SerialisedInv, Next,
                      NEW c \in Cores, sp[c] # 0, sp'[c] = sp[c], pc'[c] = pc[c]
               PROVE  stacks'[sp[c]] = stacks[sp[c]]
    BY Zenon
  <2>1. /\ sp[c] \in 1..MAX_CORES /\ pc[c] # "OFF"
        /\ stacks[sp[c]] # None /\ stacks[sp[c]].key.aff = c
    <3>1. StartInv(c)
      BY Zenon DEF IInv
    <3>2. sp[c] \in 0..MAX_CORES /\ MAX_CORES \in Nat
      BY ConstantsAssumption, Zenon DEF IInv, TypeOK
    <3>3. QED
      <4>1. stacks[sp[c]] # None /\ stacks[sp[c]].key.aff = c /\ pc[c] # "OFF"
        BY <3>1, Zenon DEF StartInv
      <4>2. sp[c] \in 1..MAX_CORES
        BY <3>2
      <4>3. QED
        BY <4>1, <4>2, Zenon
  <2>2. CASE UNCHANGED stacks
    BY <2>2, Zenon
  <2>3. ASSUME NEW d \in Cores, SystemOff(d) \/ SystemReset(d) \/ PanicHandler(d)
        PROVE  FALSE
    BY <2>3, Zenon DEF SystemOff, SystemReset, PanicHandler, SwitchOff
  <2>4. ASSUME NEW d \in Cores, CpuOnStack(d) \/ SuspendStack(d)
        PROVE  stacks'[sp[c]] = stacks[sp[c]]
    <3>1. /\ MpidrArgument(call[d].target) \in Mpidr \/ pc[d] # "on_stack"
          /\ ~MpidrArgument(call[d].target).res1
      BY Zenon DEF IInv, LocalsInv, OnSteps, Mpidr, MpidrArgument
    <3>2. read_mpidr_el1(d) \in Mpidr /\ read_mpidr_el1(d).aff \in Cores
      BY ConstantsAssumption, Zenon DEF Mpidr, read_mpidr_el1
    <3>3. \A i \in 1..MAX_CORES : stacks[i] # None => stacks'[i] = stacks[i]
      BY <2>4, <3>1, <3>2, GetSecondaryStackEffect DEF CpuOnStack, SuspendStack
    <3>4. QED
      BY <2>1, <3>3, Zenon
  <2>5. ASSUME NEW d \in Cores, CpuOnWrite(d)
        PROVE  stacks'[sp[c]] = stacks[sp[c]]
    <3>1. /\ Owned(call[d].ptr, MpidrArgument(call[d].target), EntryPoint \cup {None})
          /\ pc[call[d].target] = "OFF"
      <4>1. LocalsInv(d) /\ SerialisedCore(d) /\ pc[d] = "on_write"
        BY <2>5, Zenon DEF CpuOnWrite, IInv, SerialisedInv
      <4>2. QED
        BY <4>1, Zenon DEF LocalsInv, SerialisedCore, OnSteps
    <3>2. call[d].ptr # sp[c]
      <4>1. stacks[call[d].ptr].key = MpidrArgument(call[d].target)
        BY <3>1, Zenon DEF Owned
      <4>2. stacks[call[d].ptr].key.aff = call[d].target
        BY <4>1 DEF MpidrArgument
      <4>3. QED
        BY <2>1, <3>1, <4>2, Zenon
    <3>3. QED
      BY <2>1, <2>5, <3>1, <3>2 DEF CpuOnWrite, IInv, TypeOK, SimpleMaps, Owned
  <2>6. ASSUME NEW d \in Cores, SuspendWrite(d)
        PROVE  stacks'[sp[c]] = stacks[sp[c]]
    <3>1. Owned(call[d].ptr, read_mpidr_el1(d), {Resume, None}) /\ d # c
      <4>1. LocalsInv(d) /\ pc[d] = "suspend_write" /\ pc'[d] = "suspend_smc"
        BY <2>6, Zenon DEF SuspendWrite, Goto, IInv, TypeOK
      <4>2. QED
        BY <4>1, Zenon DEF LocalsInv
    <3>2. call[d].ptr # sp[c]
      <4>1. stacks[call[d].ptr].key = read_mpidr_el1(d)
        BY <3>1, Zenon DEF Owned
      <4>2. QED
        <5>1. stacks[call[d].ptr].key.aff = d
          BY <4>1, ReadMpidrFields, Zenon
        <5>2. QED
          BY <2>1, <3>1, <5>1, Zenon
    <3>3. QED
      BY <2>1, <2>6, <3>1, <3>2 DEF SuspendWrite, IInv, TypeOK, SimpleMaps, Owned
  <2>7. ASSUME NEW d \in Cores, Environment(d)
        PROVE  stacks'[sp[c]] = stacks[sp[c]]
    BY <2>3, <2>7, Zenon DEF Environment, CpuOnCall, CpuSuspendCall, CpuOff, ForwardSuspend,
        FirmwareWakes, FirmwareResumesGuest, UnhandledTrap
  <2>8. ASSUME NEW d \in Cores, Hypervisor(d)
        PROVE  stacks'[sp[c]] = stacks[sp[c]]
    BY <2>3, <2>4, <2>5, <2>6, <2>8, Zenon DEF Hypervisor, CpuOnAccepted, CpuOnRefused,
        SuspendInsert, SuspendAccepted, SuspendReturned, SuspendReturn, FirmwareStarts,
        SecondaryEntry, RestoreFromSuspend, EntryPointEl1
  <2>9. QED
    BY <2>2, <2>7, <2>8, Zenon DEF Next, Stopped, vars
<1>2. QED
  BY <1>1, Invariance, SerialisedInvariance, PTL DEF Spec, OwnStackOnly

-----------------------------------------------------------------------------
(* The steps of the service *)

\* What the steps of the refinement rely on.
ServiceInv == IInv /\ EntryAsRequested /\ NoCapacityPanic /\ Stage2Inv

\* A step that only changes one core changes what the guest sees of it alone.
LEMMA ViewOfOneCore ==
    ASSUME NEW c \in Cores,
           \A d \in Cores \ {c} : /\ pc'[d] = pc[d] /\ call'[d] = call[d]
                                  /\ stage2'[d] = stage2[d] /\ asked'[d] = asked[d]
    PROVE  /\ Powers' = [Powers EXCEPT ![c] = PowerOf(c)']
           /\ CallTargets' = [CallTargets EXCEPT ![c] = TargetOf(c)']
           /\ Entries' = [Entries EXCEPT ![c] = EntryOf(c)']
<1>1. \A d \in Cores \ {c} : /\ PowerOf(d)' = PowerOf(d)
                             /\ TargetOf(d)' = TargetOf(d)
                             /\ EntryOf(d)' = EntryOf(d)
  BY Zenon DEF PowerOf, TargetOf, EntryOf
<1>2. QED
  BY <1>1, Zenon DEF Powers, CallTargets, Entries

\* The service's variables at one core.
LEMMA ViewValues ==
    ASSUME NEW c \in Cores
    PROVE  /\ Powers[c] = PowerOf(c)
           /\ CallTargets[c] = TargetOf(c)
           /\ Entries[c] = EntryOf(c)
  BY Zenon DEF Powers, CallTargets, Entries

\* A step that leaves the view of its core alone is invisible.
LEMMA Invisible ==
    ASSUME NEW c \in Cores,
           Powers' = [Powers EXCEPT ![c] = PowerOf(c)'],
           CallTargets' = [CallTargets EXCEPT ![c] = TargetOf(c)'],
           Entries' = [Entries EXCEPT ![c] = EntryOf(c)'],
           PowerOf(c)' = PowerOf(c), TargetOf(c)' = TargetOf(c), EntryOf(c)' = EntryOf(c)
    PROVE  UNCHANGED Service!coreservice
<1>1. Powers' = Powers /\ CallTargets' = CallTargets /\ Entries' = Entries
  BY Zenon DEF Powers, CallTargets, Entries
<1>2. QED
  BY <1>1, Zenon DEF Service!coreservice

\* The handler of CPU_ON: the call, the steps before the firmware's answer, and
\* the two answers.
LEMMA CpuOnSteps ==
    ASSUME ServiceInv, ServiceInv', NEW c \in Cores,
           \/ \E t \in Targets, e \in EntryPoints : CpuOnCall(c, t, e)
           \/ CpuOnStack(c) \/ CpuOnWrite(c) \/ CpuOnAccepted(c) \/ CpuOnRefused(c)
    PROVE  [Service!Next]_(Service!coreservice)
<1>1. TypeOK /\ Stage2Inv /\ NoCapacityPanic'
  BY Zenon DEF ServiceInv, IInv
<1>2. ASSUME NEW t \in Targets, NEW e \in EntryPoints, CpuOnCall(c, t, e)
      PROVE  Service!CpuOn(c, t, e)
  <2>1. /\ pc[c] = "guest" /\ pc'[c] = "on_stack" /\ stage2[c]
        /\ call'[c] = [target |-> t, entry |-> e, ptr |-> 0]
        /\ \A d \in Cores \ {c} : /\ pc'[d] = pc[d] /\ call'[d] = call[d]
                                  /\ stage2'[d] = stage2[d] /\ asked'[d] = asked[d]
    BY <1>1, <1>2, Zenon DEF CpuOnCall, Goto, TypeOK, Stage2Inv
  <2>2. /\ PowerOf(c) = "on" /\ PowerOf(c)' = "turning_on"
        /\ TargetOf(c)' = t /\ EntryOf(c)' = e
    BY <2>1 DEF PowerOf, TargetOf, EntryOf, OnSteps, SuspendSteps, StartSteps, Panics
  <2>3. QED
    BY <2>1, <2>2, ViewOfOneCore, ViewValues, Zenon DEF Service!CpuOn, Service!Becomes
<1>3. CASE CpuOnStack(c) \/ CpuOnWrite(c)
  <2>1. /\ pc[c] \in OnSteps /\ pc'[c] \in OnSteps
        /\ call'[c].target = call[c].target /\ call'[c].entry = call[c].entry
        /\ \A d \in Cores \ {c} : /\ pc'[d] = pc[d] /\ call'[d] = call[d]
                                  /\ stage2'[d] = stage2[d] /\ asked'[d] = asked[d]
    <3>1. CASE CpuOnStack(c)
      <4>1. PICK p : call' = [call EXCEPT ![c].ptr = p] /\ Goto(c, "on_write")
                     /\ UNCHANGED <<stage2, asked>>
        <5>1. pc'[c] # "panic_in_stacks"
          BY <1>1, Zenon DEF NoCapacityPanic
        <5>2. pc' # [pc EXCEPT ![c] = "panic_in_stacks"]
          BY <5>1, <1>1, Zenon DEF TypeOK
        <5>3. QED
          BY <3>1, <5>2, Zenon DEF CpuOnStack, GetSecondaryStack, Goto
      <4>2. call[c] \in Call /\ pc[c] = "on_stack"
        BY <3>1 DEF CpuOnStack, ServiceInv, IInv, LocalsInv, OnSteps
      <4>3. QED
        BY <1>1, <4>1, <4>2, Zenon DEF Goto, TypeOK, OnSteps, Call
    <3>2. CASE CpuOnWrite(c)
      BY <1>1, <3>2, Zenon DEF CpuOnWrite, Goto, TypeOK, OnSteps
    <3>3. QED
      BY <1>3, <3>1, <3>2, Zenon
  <2>2. PowerOf(c)' = PowerOf(c) /\ TargetOf(c)' = TargetOf(c) /\ EntryOf(c)' = EntryOf(c)
    BY <2>1, Zenon DEF PowerOf, TargetOf, EntryOf, OnSteps, SuspendSteps, StartSteps, Panics
  <2>3. QED
    BY <2>1, <2>2, ViewOfOneCore, Invisible, Zenon
<1>4. CASE CpuOnAccepted(c)
  <2>0. PICK t : t = call[c].target
    BY Zenon
  <2>1. /\ pc[c] = "on_smc" /\ pc'[c] = "guest" /\ stage2'[c]
        /\ t \in Cores /\ t # c /\ pc[t] = "OFF" /\ pc'[t] = "ON_PENDING"
        /\ asked'[t].entry = call[c].entry
        /\ \A d \in Cores \ {c, t} : /\ pc'[d] = pc[d] /\ call'[d] = call[d]
                                     /\ stage2'[d] = stage2[d] /\ asked'[d] = asked[d]
    BY <1>1, <1>4, <2>0 DEF CpuOnAccepted, TypeOK, Stage2Inv, OnSteps
  <2>2. \A d \in Cores \ {c, t} : /\ PowerOf(d)' = PowerOf(d)
                                  /\ TargetOf(d)' = TargetOf(d)
                                  /\ EntryOf(d)' = EntryOf(d)
    BY <2>1, Zenon DEF PowerOf, TargetOf, EntryOf
  <2>3. /\ PowerOf(c) = "turning_on" /\ PowerOf(c)' = "on"
        /\ PowerOf(t) = "off" /\ PowerOf(t)' = "starting"
    BY <2>1, Zenon DEF PowerOf, OnSteps, SuspendSteps, StartSteps, Panics
  <2>4. /\ TargetOf(c) = t /\ TargetOf(c)' = None
        /\ TargetOf(t) = None /\ TargetOf(t)' = None
    BY <2>0, <2>1, Zenon DEF TargetOf, OnSteps
  <2>5. EntryOf(c)' = None /\ EntryOf(t)' = EntryOf(c)
    BY <2>1, Zenon DEF EntryOf, OnSteps, SuspendSteps
  <2>6. Powers' = [Powers EXCEPT ![c] = "on", ![t] = "starting"]
    BY <2>1, <2>2, <2>3, Zenon DEF Powers
  <2>7. CallTargets' = [CallTargets EXCEPT ![c] = None]
    <3>1. \A d \in Cores : TargetOf(d)' = IF d = c THEN None ELSE TargetOf(d)
      BY <2>1, <2>2, <2>4, Zenon
    <3> QED
      BY <3>1, Zenon DEF CallTargets
  <2>8. Entries' = [Entries EXCEPT ![c] = None, ![t] = Entries[c]]
    BY <2>1, <2>2, <2>5, Zenon DEF Entries
  <2>9. Service!Accept(c)
    BY <2>1, <2>3, <2>4, <2>6, <2>7, <2>8, ViewValues, Zenon DEF Service!Accept
  <2>10. QED
    BY <2>9, Zenon DEF Service!Next
<1>5. CASE CpuOnRefused(c)
  <2>1. /\ pc[c] = "on_smc" /\ pc'[c] = "guest" /\ stage2'[c]
        /\ \A d \in Cores \ {c} : /\ pc'[d] = pc[d] /\ call'[d] = call[d]
                                  /\ stage2'[d] = stage2[d] /\ asked'[d] = asked[d]
    BY <1>1, <1>5, Zenon DEF CpuOnRefused, Goto, TypeOK, Stage2Inv, OnSteps
  <2>2. /\ PowerOf(c) = "turning_on" /\ PowerOf(c)' = "on"
        /\ TargetOf(c)' = None /\ EntryOf(c)' = None
    BY <2>1, Zenon DEF PowerOf, TargetOf, EntryOf, OnSteps, SuspendSteps, StartSteps, Panics
  <2>3. Service!Return(c)
    BY <2>1, <2>2, ViewOfOneCore, ViewValues, Zenon DEF Service!Return, Service!Becomes
  <2>4. QED
    BY <2>3, Zenon DEF Service!Next
<1>6. QED
  BY <1>2, <1>3, <1>4, <1>5, Zenon DEF Service!Next

\* The handler of CPU_SUSPEND: the call, the steps before the firmware's answer,
\* the power-down, and the return.
LEMMA CpuSuspendSteps ==
    ASSUME ServiceInv, ServiceInv', NEW c \in Cores,
           \/ \E e \in EntryPoints : CpuSuspendCall(c, e)
           \/ SuspendInsert(c) \/ SuspendStack(c) \/ SuspendWrite(c)
           \/ SuspendAccepted(c) \/ SuspendReturned(c) \/ SuspendReturn(c)
    PROVE  [Service!Next]_(Service!coreservice)
<1> USE DEF OnSteps, SuspendSteps, StartSteps, Panics
<1>1. TypeOK /\ Stage2Inv /\ NoCapacityPanic'
  BY Zenon DEF ServiceInv, IInv
<1>2. ASSUME NEW e \in EntryPoints, CpuSuspendCall(c, e)
      PROVE  Service!CpuSuspend(c, e)
  <2>1. /\ pc[c] = "guest" /\ pc'[c] = "suspend_insert" /\ stage2[c]
        /\ call'[c].entry = e
        /\ \A d \in Cores \ {c} : /\ pc'[d] = pc[d] /\ call'[d] = call[d]
                                  /\ stage2'[d] = stage2[d] /\ asked'[d] = asked[d]
    BY <1>1, <1>2, Zenon DEF CpuSuspendCall, Goto, TypeOK, Stage2Inv
  <2>2. PowerOf(c) = "on" /\ PowerOf(c)' = "suspending"
    BY <2>1, Zenon DEF PowerOf
  <2>3. TargetOf(c)' = TargetOf(c) /\ EntryOf(c)' = e
    BY <2>1, Zenon DEF TargetOf, EntryOf
  <2>4. CallTargets' = CallTargets
    BY <2>1, <2>3, ViewOfOneCore, Zenon DEF CallTargets
  <2>5. QED
    BY <2>1, <2>2, <2>3, <2>4, ViewOfOneCore, ViewValues, Zenon
       DEF Service!CpuSuspend, Service!Becomes
<1>3. CASE SuspendInsert(c) \/ SuspendStack(c) \/ SuspendWrite(c) \/ SuspendReturned(c)
  <2>1. /\ pc[c] \in SuspendSteps /\ pc'[c] \in SuspendSteps
        /\ call'[c].entry = call[c].entry
        /\ \A d \in Cores \ {c} : /\ pc'[d] = pc[d] /\ call'[d] = call[d]
                                  /\ stage2'[d] = stage2[d] /\ asked'[d] = asked[d]
    <3>1. CASE SuspendStack(c)
      <4>1. PICK p : call' = [call EXCEPT ![c].ptr = p] /\ Goto(c, "suspend_write")
                     /\ UNCHANGED <<stage2, asked>>
        <5>1. pc'[c] # "panic_in_stacks"
          BY <1>1, Zenon DEF NoCapacityPanic
        <5>2. pc' # [pc EXCEPT ![c] = "panic_in_stacks"]
          BY <5>1, <1>1, Zenon DEF TypeOK
        <5>3. QED
          BY <3>1, <5>2, Zenon DEF SuspendStack, GetSecondaryStack, Goto
      <4>2. call[c] \in Call /\ pc[c] = "suspend_stack"
        BY <3>1, Zenon DEF SuspendStack, ServiceInv, IInv, LocalsInv
      <4>3. QED
        BY <1>1, <4>1, <4>2, Zenon DEF Goto, TypeOK, Call
    <3>2. CASE SuspendInsert(c)
      <4>1. pc'[c] # "panic_in_contexts"
        BY <1>1, Zenon DEF NoCapacityPanic
      <4>2. pc[c] = "suspend_insert" /\ Goto(c, "suspend_stack") /\ UNCHANGED <<call, stage2, asked>>
        BY <1>1, <3>2, <4>1, Zenon DEF SuspendInsert, Goto, TypeOK
      <4>3. QED
        BY <1>1, <4>2, Zenon DEF Goto, TypeOK
    <3>3. CASE SuspendWrite(c) \/ SuspendReturned(c)
      BY <1>1, <3>3, Zenon DEF SuspendWrite, SuspendReturned, Goto, TypeOK
    <3>4. QED
      BY <1>3, <3>1, <3>2, <3>3, Zenon
  <2>2. PowerOf(c)' = PowerOf(c) /\ TargetOf(c)' = TargetOf(c) /\ EntryOf(c)' = EntryOf(c)
    BY <2>1, Zenon DEF PowerOf, TargetOf, EntryOf
  <2>3. QED
    BY <2>1, <2>2, ViewOfOneCore, Invisible, Zenon
<1>4. CASE SuspendAccepted(c)
  <2>1. /\ pc[c] = "suspend_smc" /\ pc'[c] = "SUSPENDED"
        /\ asked'[c].entry = call[c].entry
        /\ \A d \in Cores \ {c} : /\ pc'[d] = pc[d] /\ call'[d] = call[d]
                                  /\ stage2'[d] = stage2[d] /\ asked'[d] = asked[d]
    BY <1>1, <1>4, Zenon DEF SuspendAccepted, Goto, TypeOK
  <2>2. PowerOf(c) = "suspending" /\ PowerOf(c)' = "suspended"
    BY <2>1, Zenon DEF PowerOf
  <2>3. TargetOf(c)' = TargetOf(c) /\ EntryOf(c)' = EntryOf(c)
    BY <2>1, Zenon DEF TargetOf, EntryOf
  <2>4. CallTargets' = CallTargets /\ Entries' = Entries
    BY <2>1, <2>3, ViewOfOneCore, Zenon DEF CallTargets, Entries
  <2>5. Service!PowerDown(c)
    BY <2>1, <2>2, <2>4, ViewOfOneCore, ViewValues, Zenon DEF Service!PowerDown, Service!Becomes
  <2>6. QED
    BY <2>5, Zenon DEF Service!Next
<1>5. CASE SuspendReturn(c)
  <2>1. /\ pc[c] = "suspend_return" /\ pc'[c] = "guest" /\ stage2'[c]
        /\ \A d \in Cores \ {c} : /\ pc'[d] = pc[d] /\ call'[d] = call[d]
                                  /\ stage2'[d] = stage2[d] /\ asked'[d] = asked[d]
    BY <1>1, <1>5, Zenon DEF SuspendReturn, Goto, TypeOK, Stage2Inv
  <2>2. /\ PowerOf(c) = "suspending" /\ PowerOf(c)' = "on"
        /\ TargetOf(c)' = None /\ EntryOf(c)' = None
    BY <2>1, Zenon DEF PowerOf, TargetOf, EntryOf
  <2>3. Service!Return(c)
    BY <2>1, <2>2, ViewOfOneCore, ViewValues, Zenon DEF Service!Return, Service!Becomes
  <2>4. QED
    BY <2>3, Zenon DEF Service!Next
<1>6. QED
  BY <1>2, <1>3, <1>4, <1>5, Zenon DEF Service!Next

\* A start or a resume: the wake-up, the steps through the start record, and the
\* one that enters the guest.
LEMMA StartingSteps ==
    ASSUME ServiceInv, ServiceInv', NEW c \in Cores,
           \/ FirmwareStarts(c) \/ FirmwareWakes(c) \/ SecondaryEntry(c)
           \/ RestoreFromSuspend(c) \/ EntryPointEl1(c)
    PROVE  [Service!Next]_(Service!coreservice)
<1> USE DEF OnSteps, SuspendSteps, StartSteps, Panics
<1>1. TypeOK /\ EntryAsRequested' /\ NoCapacityPanic'
  BY Zenon DEF ServiceInv, IInv
<1>2. CASE FirmwareStarts(c) \/ SecondaryEntry(c) \/ RestoreFromSuspend(c)
  <2>1. /\ pc[c] \in {"ON_PENDING", "secondary_entry", "restore_from_suspend"}
        /\ pc'[c] \in StartSteps /\ asked' = asked
        /\ \A d \in Cores \ {c} : /\ pc'[d] = pc[d] /\ call'[d] = call[d]
                                  /\ stage2'[d] = stage2[d] /\ asked'[d] = asked[d]
    <3>1. CASE FirmwareStarts(c)
      BY <1>1, <3>1, Zenon DEF FirmwareStarts, Goto, TypeOK
    <3>2. CASE SecondaryEntry(c)
      BY <1>1, <3>2, Zenon DEF SecondaryEntry, Goto, TypeOK
    <3>3. CASE RestoreFromSuspend(c)
      <4>1. pc'[c] # "panic_in_contexts"
        BY <1>1, Zenon DEF NoCapacityPanic
      <4>2. QED
        BY <1>1, <3>3, <4>1, Zenon DEF RestoreFromSuspend, Goto, TypeOK
    <3>4. QED
      BY <1>2, <3>1, <3>2, <3>3, Zenon
  <2>2. pc'[c] = "entry_point_el1" => call'[c].entry = asked[c].entry
    BY <1>1, <2>1, Zenon DEF EntryAsRequested
  <2>3. PowerOf(c)' = PowerOf(c) /\ TargetOf(c)' = TargetOf(c)
    BY <2>1, Zenon DEF PowerOf, TargetOf
  <2>4. EntryOf(c)' = EntryOf(c)
    BY <2>1, <2>2, Zenon DEF EntryOf
  <2>5. QED
    BY <2>1, <2>3, <2>4, ViewOfOneCore, Invisible, Zenon
<1>3. CASE FirmwareWakes(c)
  <2>1. /\ pc[c] = "SUSPENDED" /\ pc'[c] = "secondary_entry" /\ asked' = asked
        /\ \A d \in Cores \ {c} : /\ pc'[d] = pc[d] /\ call'[d] = call[d]
                                  /\ stage2'[d] = stage2[d] /\ asked'[d] = asked[d]
    BY <1>1, <1>3, Zenon DEF FirmwareWakes, Goto, TypeOK
  <2>2. PowerOf(c) = "suspended" /\ PowerOf(c)' = "starting"
    BY <2>1, Zenon DEF PowerOf
  <2>3. TargetOf(c)' = TargetOf(c) /\ EntryOf(c)' = EntryOf(c)
    BY <2>1, Zenon DEF TargetOf, EntryOf
  <2>4. CallTargets' = CallTargets /\ Entries' = Entries
    BY <2>1, <2>3, ViewOfOneCore, Zenon DEF CallTargets, Entries
  <2>5. Service!Wake(c)
    BY <2>1, <2>2, <2>4, ViewOfOneCore, ViewValues, Zenon DEF Service!Wake, Service!Becomes
  <2>6. QED
    BY <2>5, Zenon DEF Service!Next
<1>4. CASE EntryPointEl1(c)
  <2>1. /\ pc[c] = "entry_point_el1" /\ pc'[c] = "guest" /\ stage2'[c]
        /\ \A d \in Cores \ {c} : /\ pc'[d] = pc[d] /\ call'[d] = call[d]
                                  /\ stage2'[d] = stage2[d] /\ asked'[d] = asked[d]
    BY <1>1, <1>4, Zenon DEF EntryPointEl1, Goto, TypeOK
  <2>2. PowerOf(c) = "starting" /\ PowerOf(c)' = "on"
    BY <2>1, Zenon DEF PowerOf
  <2>3. TargetOf(c)' = TargetOf(c) /\ EntryOf(c)' = None
    BY <2>1, Zenon DEF TargetOf, EntryOf
  <2>4. CallTargets' = CallTargets
    BY <2>1, <2>3, ViewOfOneCore, Zenon DEF CallTargets
  <2>5. Service!Enter(c)
    BY <2>1, <2>2, <2>3, <2>4, ViewOfOneCore, ViewValues, Zenon
       DEF Service!Enter, Service!Becomes
  <2>6. QED
    BY <2>5, Zenon DEF Service!Next
<1>5. QED
  BY <1>2, <1>3, <1>4, Zenon

\* The calls that are forwarded for one core, and a trap that panics.
LEMMA ForwardedSteps ==
    ASSUME ServiceInv, NEW c \in Cores,
           \/ CpuOff(c) \/ \E fn \in FirmwareSuspends : ForwardSuspend(c, fn)
           \/ FirmwareResumesGuest(c) \/ UnhandledTrap(c)
    PROVE  [Service!Next]_(Service!coreservice)
<1> USE DEF OnSteps, SuspendSteps, StartSteps, Panics
<1> DEFINE Others ==
        \A d \in Cores \ {c} : /\ pc'[d] = pc[d] /\ call'[d] = call[d]
                               /\ stage2'[d] = stage2[d] /\ asked'[d] = asked[d]
<1>1. TypeOK /\ (pc[c] = "guest" => stage2[c])
  BY Zenon DEF ServiceInv, IInv, Stage2Inv
<1>2. ASSUME pc[c] \in {"guest", "guest_el2", "SUSPENDED_BY_GUEST"},
             pc'[c] \in {"OFF", "SUSPENDED_BY_GUEST", "guest_el2", "panic"}, Others
      PROVE  /\ Powers' = [Powers EXCEPT ![c] = PowerOf(c)']
             /\ CallTargets' = CallTargets /\ Entries' = Entries
  <2>1. TargetOf(c)' = TargetOf(c) /\ EntryOf(c)' = EntryOf(c)
    BY <1>2, Zenon DEF TargetOf, EntryOf
  <2>2. QED
    BY <1>2, <2>1, ViewOfOneCore, Zenon DEF CallTargets, Entries
<1>3. CASE CpuOff(c)
  <2>1. pc[c] \in {"guest", "guest_el2"} /\ pc'[c] = "OFF" /\ Others
    BY <1>1, <1>3, Zenon DEF CpuOff, GuestSteps, Goto, TypeOK
  <2>2. PowerOf(c) \in {"on", "released"} /\ PowerOf(c)' = "off"
    BY <1>1, <2>1, Zenon DEF PowerOf
  <2>3. Service!CpuOff(c)
    BY <1>2, <2>1, <2>2, ViewValues, Zenon DEF Service!CpuOff, Service!Becomes
  <2>4. QED
    BY <2>3, Zenon DEF Service!Next
<1>4. CASE \E fn \in FirmwareSuspends : ForwardSuspend(c, fn)
  <2>1. pc[c] = "guest" /\ pc'[c] = "SUSPENDED_BY_GUEST" /\ Others
    BY <1>1, <1>4, Zenon DEF ForwardSuspend, Goto, TypeOK
  <2>2. PowerOf(c) = "on" /\ PowerOf(c)' = "dormant"
    BY <1>1, <2>1, Zenon DEF PowerOf
  <2>3. Service!Forward(c)
    BY <1>2, <2>1, <2>2, ViewValues, Zenon DEF Service!Forward, Service!Becomes
  <2>4. QED
    BY <2>3, Zenon DEF Service!Next
<1>5. CASE FirmwareResumesGuest(c)
  <2>1. pc[c] = "SUSPENDED_BY_GUEST" /\ pc'[c] = "guest_el2" /\ Others
    BY <1>1, <1>5, Zenon DEF FirmwareResumesGuest, Goto, TypeOK
  <2>2. PowerOf(c) = "dormant" /\ PowerOf(c)' = "released"
    BY <2>1, Zenon DEF PowerOf
  <2>3. Service!Release(c)
    BY <1>2, <2>1, <2>2, ViewValues, Zenon DEF Service!Release, Service!Becomes
  <2>4. QED
    BY <2>3, Zenon DEF Service!Next
<1>6. CASE UnhandledTrap(c)
  <2>1. pc[c] = "guest" /\ pc'[c] = "panic" /\ Others
    BY <1>1, <1>6, Zenon DEF UnhandledTrap, Goto, TypeOK
  <2>2. PowerOf(c) = "on" /\ PowerOf(c)' = "failed"
    BY <1>1, <2>1, Zenon DEF PowerOf
  <2>3. Service!Fail(c)
    BY <1>2, <2>1, <2>2, ViewValues, Zenon DEF Service!Fail, Service!Becomes
  <2>4. QED
    BY <2>3, Zenon DEF Service!Next
<1>7. QED
  BY <1>3, <1>4, <1>5, <1>6, Zenon

\* What ends or restarts everything.
LEMMA SystemSteps ==
    ASSUME ServiceInv, NEW c \in Cores, SystemOff(c) \/ PanicHandler(c) \/ SystemReset(c)
    PROVE  [Service!Next]_(Service!coreservice)
<1> USE DEF OnSteps, SuspendSteps, StartSteps, Panics
<1>1. pc[c] = "guest" => stage2[c]
  BY Zenon DEF ServiceInv, Stage2Inv
<1>2. CASE SystemOff(c) \/ PanicHandler(c)
  <2>1. \A d \in Cores : pc'[d] = "SYSTEM_OFF"
    BY <1>2 DEF SystemOff, PanicHandler, SwitchOff
  <2>2. \A d \in Cores : PowerOf(d)' = "down"
    BY <2>1, Zenon DEF PowerOf
  <2>3. \A d \in Cores : TargetOf(d)' = None /\ EntryOf(d)' = None
    BY <2>1, Zenon DEF TargetOf, EntryOf
  <2>4. pc[c] \in {"guest", "guest_el2"} \cup Panics
    BY <1>2, Zenon DEF SystemOff, PanicHandler, GuestSteps
  <2>5. PowerOf(c) \in {"on", "released", "failed"}
    BY <1>1, <2>4, Zenon DEF PowerOf
  <2>6. Service!SystemDown(c)
    BY <2>2, <2>3, <2>5, ViewValues, Zenon DEF Service!SystemDown, Powers, CallTargets, Entries
  <2>7. QED
    BY <2>6, Zenon DEF Service!Next
<1>3. CASE SystemReset(c)
  <2>1. \A d \in Cores : /\ pc'[d] = IF d = BootCore THEN "entry_point_el1" ELSE "OFF"
                         /\ d = BootCore => call'[d].entry = Payload
    BY <1>3, Zenon DEF SystemReset, BootPc, BootCall
  <2>2. \A d \in Cores : PowerOf(d)' = IF d = BootCore THEN "starting" ELSE "off"
    BY <2>1 DEF PowerOf
  <2>3. \A d \in Cores : /\ TargetOf(d)' = None
                         /\ EntryOf(d)' = IF d = BootCore THEN Payload ELSE None
    BY <2>1, Zenon DEF TargetOf, EntryOf
  <2>4. pc[c] \in {"guest", "guest_el2"}
    BY <1>3, Zenon DEF SystemReset, GuestSteps
  <2>5. PowerOf(c) \in {"on", "released"}
    BY <1>1, <2>4, Zenon DEF PowerOf
  <2>6. Service!Reset(c)
    BY <2>2, <2>3, <2>5, ViewValues, Zenon DEF Service!Reset, Service!BootPower,
                                               Service!BootEntry, Powers, CallTargets,
                                               Entries
  <2>7. QED
    BY <2>6, Zenon DEF Service!Next
<1>4. QED
  BY <1>2, <1>3, Zenon

-----------------------------------------------------------------------------
(* Capacity *)

INSTANCE FiniteSetTheorems

\* A map whose keys come from a set of at most `capacity` keys never lacks
\* room for one of them: the pigeonhole argument behind "each CPU always gets
\* its own stack".
LEMMA RoomForKeys ==
    ASSUME NEW n \in Nat, NEW K, NEW V, NEW items \in SimpleMaps(K, V, n),
           UniqueKeys(items), None \notin Item(K, V),
           NEW key \in K, IsFiniteSet(K), Cardinality(K) <= n
    PROVE  HasRoom(items, key)
<1> DEFINE m == Remove(items, key)
<1>1. /\ m \in SimpleMaps(K, V, n)
      /\ \A i \in 1..n : m[i] =
            IF items[i] # None /\ items[i].key = key THEN None ELSE items[i]
  BY RemoveEffect
<1> SUFFICES ASSUME Free(m) = {} PROVE FALSE
  BY Zenon DEF HasRoom
<1> HIDE DEF m
<1>2. \A i \in 1..n : m[i] # None /\ m[i] = items[i] /\ items[i].key # key
  BY <1>1, Zenon DEF Free, SimpleMaps
<1>3. \A i \in 1..n : items[i].key \in K \ {key}
  BY <1>2, Zenon DEF SimpleMaps, Item
<1> DEFINE f == [i \in 1..n |-> items[i].key]
<1>4. f \in [1..n -> K \ {key}]
  BY <1>3, Zenon
<1>5. \A i, j \in 1..n : f[i] = f[j] => i = j
  BY <1>2, Zenon DEF UniqueKeys, SimpleMaps
<1>6. IsFiniteSet(K \ {key}) /\ Cardinality(K \ {key}) = Cardinality(K) - 1
  BY FS_RemoveElement, Zenon
<1>7. IsFiniteSet(1..n) /\ Cardinality(1..n) = n
  BY FS_Interval
<1>8. Cardinality(K) \in Nat
  BY FS_CardinalityType, Zenon
<1> HIDE DEF f
<1>9. Cardinality(1..n) <= Cardinality(K \ {key})
  <2>1. f \in Injection(1..n, K \ {key})
    BY <1>4, <1>5, Zenon DEF Injection, IsInjective
  <2>2. QED
    BY <2>1, <1>6, FS_Injection
<1>10. QED
  BY <1>6, <1>7, <1>8, <1>9

\* The names under which a stack can be asked for.
StackKeys == {MpidrArgument(t) : t \in Targets} \cup {read_mpidr_el1(c) : c \in Cores}

\* The keys in use are names of cores or of CPU_ON targets.
LEMMA StackKeysAreMpidrs == StackKeys \subseteq Mpidr
<1>1. \A t \in Targets : MpidrArgument(t) \in Mpidr
  BY Zenon DEF MpidrArgument, Mpidr
<1>2. \A c \in Cores : read_mpidr_el1(c) \in Mpidr
  BY ConstantsAssumption, Zenon DEF read_mpidr_el1, Mpidr
<1>3. QED
  BY <1>1, <1>2, Zenon DEF StackKeys

\* There are at most as many of them as targets and cores together.
LEMMA StackKeysCount ==
    ASSUME IsFiniteSet(Targets), Cardinality(Targets) + Cardinality(Cores) <= MAX_CORES
    PROVE  IsFiniteSet(StackKeys) /\ Cardinality(StackKeys) <= MAX_CORES
           /\ IsFiniteSet(Cores) /\ Cardinality(Cores) <= MAX_CORES
<1> DEFINE A == {MpidrArgument(t) : t \in Targets}
           R == {read_mpidr_el1(c) : c \in Cores}
           f == [t \in Targets |-> MpidrArgument(t)]
           g == [c \in Cores |-> read_mpidr_el1(c)]
<1>1. IsFiniteSet(Cores)
  BY ConstantsAssumption, FS_Subset, Zenon
<1>2. f \in Surjection(Targets, A)
  BY Zenon DEF Surjection
<1>3. g \in Surjection(Cores, R)
  BY Zenon DEF Surjection
<1> HIDE DEF f, g
<1>4. IsFiniteSet(A) /\ Cardinality(A) <= Cardinality(Targets)
  BY <1>2, FS_Surjection, Zenon
<1>5. IsFiniteSet(R) /\ Cardinality(R) <= Cardinality(Cores)
  BY <1>1, <1>3, FS_Surjection, Zenon
<1>6. StackKeys = A \cup R
  BY Zenon DEF StackKeys
<1> HIDE DEF A, R
<1>7. /\ IsFiniteSet(A \cup R)
      /\ Cardinality(A \cup R) = Cardinality(A) + Cardinality(R) - Cardinality(A \cap R)
  BY <1>4, <1>5, FS_Union
<1>8. IsFiniteSet(A \cap R)
  BY <1>4, FS_Subset, Zenon
<1>9. /\ Cardinality(A) \in Nat /\ Cardinality(R) \in Nat /\ Cardinality(A \cap R) \in Nat
      /\ Cardinality(Cores) \in Nat /\ Cardinality(Targets) \in Nat /\ MAX_CORES \in Nat
  BY <1>1, <1>4, <1>5, <1>8, FS_CardinalityType, ConstantsAssumption
<1>10. QED
  BY <1>1, <1>4, <1>5, <1>6, <1>7, <1>9

\* Then neither map is ever too full for the insert that comes next.
LEMMA RoomForStacks ==
    ASSUME IInv, IsFiniteSet(Targets), Cardinality(Targets) + Cardinality(Cores) <= MAX_CORES,
           NEW m \in StackKeys
    PROVE  HasRoom(stacks, m)
<1>1. /\ stacks \in SimpleMaps(Mpidr, StackTop, MAX_CORES) /\ StacksInv /\ TypeOK
      /\ UniqueKeys(stacks) /\ None \notin Item(Mpidr, StackTop) /\ MAX_CORES \in Nat
  BY ConstantsAssumption, Zenon DEF IInv, TypeOK, StacksInv
<1>2. \A i \in 1..MAX_CORES : stacks[i] # None => stacks[i].key \in StackKeys
  <2>1. ASSUME NEW i \in 1..MAX_CORES, stacks[i] # None
        PROVE  stacks[i].key \in StackKeys
    <3>1. stacks[i].key \in Mpidr /\ (stacks[i].key.res1 => stacks[i].key.aff \in Cores)
      BY <1>1, <2>1, SlotTypes, Zenon DEF StacksInv
    <3>2. CASE stacks[i].key.res1
      <4>1. stacks[i].key = read_mpidr_el1(stacks[i].key.aff)
        BY <3>1, <3>2, Zenon DEF Mpidr, read_mpidr_el1
      <4>2. QED
        BY <3>1, <3>2, <4>1, Zenon DEF StackKeys
    <3>3. CASE ~stacks[i].key.res1
      <4>1. stacks[i].key = MpidrArgument(stacks[i].key.aff) /\ stacks[i].key.aff \in Targets
        BY <3>1, <3>3, Zenon DEF Mpidr, MpidrArgument
      <4>2. QED
        BY <4>1, Zenon DEF StackKeys
    <3>4. QED
      BY <3>2, <3>3, Zenon
  <2>2. QED
    BY <2>1, Zenon
<1>3. stacks \in SimpleMaps(StackKeys, StackTop, MAX_CORES)
  BY <1>1, <1>2, Zenon DEF SimpleMaps, Item
<1>4. None \notin Item(StackKeys, StackTop)
  BY <1>1, StackKeysAreMpidrs, Zenon DEF Item
<1>5. QED
  BY <1>1, <1>3, <1>4, StackKeysCount, RoomForKeys

\* Contexts need one slot per core, so psci_cpu_suspend() finds room.
LEMMA RoomForContexts ==
    ASSUME IInv, IsFiniteSet(Targets), Cardinality(Targets) + Cardinality(Cores) <= MAX_CORES,
           NEW c \in Cores
    PROVE  HasRoom(contexts, read_mpidr_el1(c))
<1>1. /\ contexts \in SimpleMaps(Mpidr, EntryPoint, MAX_CORES) /\ ContextKeysInv
      /\ UniqueKeys(contexts) /\ None \notin Item(Mpidr, StackTop) /\ MAX_CORES \in Nat
  BY ConstantsAssumption, Zenon DEF IInv, TypeOK, ContextKeysInv
<1>2. \A i \in 1..MAX_CORES : contexts[i] # None => contexts[i].key \in StackKeys
  BY <1>1, Zenon DEF ContextKeysInv, StackKeys
<1>3. contexts \in SimpleMaps(StackKeys, EntryPoint, MAX_CORES)
  BY <1>1, <1>2, Zenon DEF SimpleMaps, Item
<1>4. read_mpidr_el1(c) \in StackKeys
  BY Zenon DEF StackKeys
<1>5. None \notin Item(StackKeys, EntryPoint)
  BY <1>1, StackKeysAreMpidrs, Zenon DEF Item, StackTop
<1>6. QED
  BY <1>1, <1>3, <1>4, <1>5, StackKeysCount, RoomForKeys

\* With a slot for every affinity the guest may name and another one for every
\* core, insert() never panics.
THEOREM CapacitySuffices ==
    ASSUME IsFiniteSet(Targets), Cardinality(Targets) + Cardinality(Cores) <= MAX_CORES
    PROVE  Spec => []NoCapacityPanic
<1>1. Init => NoCapacityPanic
  BY Zenon DEF Init, BootPc, NoCapacityPanic
<1>2. IInv /\ NoCapacityPanic /\ [Next]_vars => NoCapacityPanic'
  <2> SUFFICES ASSUME IInv, NoCapacityPanic, [Next]_vars, NEW d \in Cores
               PROVE  pc'[d] \notin {"panic_in_stacks", "panic_in_contexts"}
    BY Zenon DEF NoCapacityPanic
  <2>1. TypeOK /\ pc[d] \notin {"panic_in_stacks", "panic_in_contexts"}
    BY Zenon DEF IInv, NoCapacityPanic
  <2>2. CASE UNCHANGED vars \/ Stopped
    BY <2>1, <2>2, Zenon DEF vars, Stopped
  <2>3. ASSUME NEW c \in Cores, Environment(c)
        PROVE  pc'[d] \notin {"panic_in_stacks", "panic_in_contexts"}
    BY <2>1, <2>3, Zenon DEF Environment, CpuOnCall, CpuSuspendCall, CpuOff, ForwardSuspend,
        FirmwareWakes, FirmwareResumesGuest, UnhandledTrap, SystemOff, SwitchOff,
        SystemReset, BootPc, Goto, TypeOK
  <2>4. ASSUME NEW c \in Cores, Hypervisor(c)
        PROVE  pc'[d] \notin {"panic_in_stacks", "panic_in_contexts"}
    <3>1. CASE CpuOnStack(c)
      <4>1. call[c].target \in Targets
        BY <3>1 DEF IInv, LocalsInv, CpuOnStack, OnSteps
      <4>2. HasRoom(stacks, MpidrArgument(call[c].target))
        BY <4>1, RoomForStacks, Zenon DEF StackKeys
      <4>3. pc' = [pc EXCEPT ![c] = "on_write"]
        BY <3>1, <4>2, Zenon DEF CpuOnStack, GetSecondaryStack, Goto
      <4>4. QED
        BY <2>1, <4>3, Zenon DEF TypeOK
    <3>2. CASE SuspendStack(c)
      <4>1. HasRoom(stacks, read_mpidr_el1(c))
        BY RoomForStacks, Zenon DEF StackKeys
      <4>2. pc' = [pc EXCEPT ![c] = "suspend_write"]
        BY <3>2, <4>1, Zenon DEF SuspendStack, GetSecondaryStack, Goto
      <4>3. QED
        BY <2>1, <4>2, Zenon DEF TypeOK
    <3>3. CASE SuspendInsert(c)
      BY <2>1, <3>3, RoomForContexts, Zenon DEF SuspendInsert, Goto, TypeOK
    <3>4. CASE RestoreFromSuspend(c)
      <4>1. Contains(contexts, read_mpidr_el1(c))
        BY <3>4 DEF IInv, ContextsInv, Suspending, RestoreFromSuspend
      <4>2. QED
        BY <2>1, <3>4, <4>1 DEF RestoreFromSuspend, Goto, TypeOK
    <3>5. CASE CpuOnWrite(c) \/ CpuOnRefused(c) \/ SuspendWrite(c) \/ SuspendAccepted(c)
      BY <2>1, <3>5, Zenon DEF CpuOnWrite, CpuOnRefused, SuspendWrite, SuspendAccepted,
                               Goto, TypeOK
    <3>6. CASE CpuOnAccepted(c)
      BY <2>1, <3>6, Zenon DEF CpuOnAccepted, TypeOK
    <3>7. CASE SuspendReturned(c) \/ SuspendReturn(c) \/ FirmwareStarts(c) \/ EntryPointEl1(c)
      BY <2>1, <3>7, Zenon DEF SuspendReturned, SuspendReturn, FirmwareStarts,
                               EntryPointEl1, Goto, TypeOK
    <3>8. CASE SecondaryEntry(c)
      BY <2>1, <3>8, Zenon DEF SecondaryEntry, Goto, TypeOK
    <3>9. CASE PanicHandler(c)
      BY <3>9, Zenon DEF PanicHandler, SwitchOff
    <3>10. QED
      BY <2>4, <3>1, <3>2, <3>3, <3>4, <3>5, <3>6, <3>7, <3>8, <3>9 DEF Hypervisor
  <2>5. QED
    BY <2>2, <2>3, <2>4, Zenon DEF Next
<1>3. QED
  BY <1>1, <1>2, Invariance, PTL DEF Spec

-----------------------------------------------------------------------------
(* The refinement *)

\* RITM implements the PSCI service for every number of cores, targets and entry
\* points, if the guest serialises its CPU_ON calls and MAX_CORES has a slot for
\* every key: whatever the interleaving, a start or a resume enters the guest
\* once, under stage 2, with the entry point of the one accepted request.
THEOREM CoresImplementService ==
    ASSUME Serialised,
           IsFiniteSet(Targets), Cardinality(Targets) + Cardinality(Cores) <= MAX_CORES
    PROVE  Spec => ImplementsService
<1>1. Init => Service!Init
  <2> SUFFICES ASSUME Init PROVE Service!Init
    BY Zenon
  <2> USE DEF OnSteps, SuspendSteps, StartSteps, Panics
  <2>1. \A d \in Cores : /\ pc[d] = IF d = BootCore THEN "entry_point_el1" ELSE "OFF"
                         /\ d = BootCore => call[d].entry = Payload
    BY Zenon DEF Init, BootPc, BootCall
  <2>2. \A d \in Cores : PowerOf(d) = IF d = BootCore THEN "starting" ELSE "off"
    BY <2>1, Zenon DEF PowerOf
  <2>3. \A d \in Cores : /\ TargetOf(d) = None
                         /\ EntryOf(d) = IF d = BootCore THEN Payload ELSE None
    BY <2>1, Zenon DEF TargetOf, EntryOf
  <2>4. QED
    BY <2>2, <2>3, Zenon DEF Service!Init, Service!BootPower, Service!BootEntry,
        Powers, CallTargets, Entries
<1>2. ServiceInv /\ ServiceInv' /\ [Next]_vars => [Service!Next]_(Service!coreservice)
  <2> SUFFICES ASSUME ServiceInv, ServiceInv', [Next]_vars
               PROVE  [Service!Next]_(Service!coreservice)
    BY Zenon
  <2>1. CASE UNCHANGED vars \/ Stopped
    <3>1. pc' = pc /\ call' = call /\ stage2' = stage2 /\ asked' = asked
      BY <2>1, Zenon DEF vars, Stopped
    <3>2. \A d \in Cores : /\ PowerOf(d)' = PowerOf(d)
                           /\ TargetOf(d)' = TargetOf(d)
                           /\ EntryOf(d)' = EntryOf(d)
      BY <3>1, Zenon DEF PowerOf, TargetOf, EntryOf
    <3>3. QED
      BY <3>2, Zenon DEF Service!coreservice, Powers, CallTargets, Entries
  <2>2. ASSUME NEW c \in Cores, Environment(c)
        PROVE  [Service!Next]_(Service!coreservice)
    BY <2>2, CpuOnSteps, CpuSuspendSteps, StartingSteps, ForwardedSteps, SystemSteps
        DEF Environment
  <2>3. ASSUME NEW c \in Cores, Hypervisor(c)
        PROVE  [Service!Next]_(Service!coreservice)
    BY <2>3, CpuOnSteps, CpuSuspendSteps, StartingSteps, SystemSteps DEF Hypervisor
  <2>4. QED
    BY <2>1, <2>2, <2>3, Zenon DEF Next
<1>3. Spec => []ServiceInv
  <2>1. IInv /\ EntryAsRequested /\ NoCapacityPanic /\ Stage2Inv => ServiceInv
    BY Zenon DEF ServiceInv
  <2>2. QED
    BY <2>1, Invariance, EntryCorrect, CapacitySuffices, Stage2Invariance, PTL
<1>4. QED
  BY <1>1, <1>2, <1>3, PTL DEF Spec, ImplementsService, Service!Spec

=============================================================================

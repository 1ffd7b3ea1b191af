---------------------------- MODULE CoreService ----------------------------
(***************************************************************************)
(* PSCI as the guest sees it: what RITM promises about the cores, without  *)
(* stacks, maps, start records or locks.  A call either takes effect in    *)
(* one step or returns.  A core that starts or resumes enters the guest    *)
(* once, at EL1 under stage 2, with the entry point of the one request     *)
(* that was accepted for it.                                               *)
(***************************************************************************)
CONSTANTS
    Cores, BootCore,
    Targets,        \* what CPU_ON may name
    EntryPoints,    \* the (address, context) pairs the guest uses
    Payload,        \* the one the boot core enters
    None

VARIABLES
    power,      \* "off", "starting", "on" (in the guest), "turning_on" and
                \* "suspending" (in a call), "suspended"; "dormant" and
                \* "released" around a forwarded suspend; "failed", "down"
    target,     \* of the CPU_ON in progress
    entry       \* of the call in progress, and of the core that will start

coreservice == <<power, target, entry>>

BootPower == [c \in Cores |-> IF c = BootCore THEN "starting" ELSE "off"]

BootEntry == [c \in Cores |-> IF c = BootCore THEN Payload ELSE None]

Init ==
    /\ power = BootPower
    /\ target = [c \in Cores |-> None]
    /\ entry = BootEntry

Becomes(c, p) == power' = [power EXCEPT ![c] = p]

-----------------------------------------------------------------------------
CpuOn(c, t, e) ==
    /\ power[c] = "on"
    /\ Becomes(c, "turning_on")
    /\ target' = [target EXCEPT ![c] = t]
    /\ entry' = [entry EXCEPT ![c] = e]

\* The one way a core is started.
Accept(c) ==
    /\ power[c] = "turning_on"
    /\ \E t \in Cores :
          /\ t = target[c] /\ power[t] = "off"
          /\ power' = [power EXCEPT ![c] = "on", ![t] = "starting"]
          /\ entry' = [entry EXCEPT ![c] = None, ![t] = entry[c]]
    /\ target' = [target EXCEPT ![c] = None]

CpuSuspend(c, e) ==
    /\ power[c] = "on"
    /\ Becomes(c, "suspending")
    /\ entry' = [entry EXCEPT ![c] = e]
    /\ UNCHANGED target

PowerDown(c) ==
    /\ power[c] = "suspending"
    /\ Becomes(c, "suspended")
    /\ UNCHANGED <<target, entry>>

\* Either call fails, or the suspend was a standby.
Return(c) ==
    /\ power[c] \in {"turning_on", "suspending"}
    /\ Becomes(c, "on")
    /\ target' = [target EXCEPT ![c] = None]
    /\ entry' = [entry EXCEPT ![c] = None]

Wake(c) ==
    /\ power[c] = "suspended"
    /\ Becomes(c, "starting")
    /\ UNCHANGED <<target, entry>>

\* The core is in the guest, at entry[c].
Enter(c) ==
    /\ power[c] = "starting"
    /\ Becomes(c, "on")
    /\ entry' = [entry EXCEPT ![c] = None]
    /\ UNCHANGED target

\* The suspend calls that are forwarded: the only way out of RITM.
Forward(c) == power[c] = "on" /\ Becomes(c, "dormant") /\ UNCHANGED <<target, entry>>

Release(c) == power[c] = "dormant" /\ Becomes(c, "released") /\ UNCHANGED <<target, entry>>

CpuOff(c) ==
    /\ power[c] \in {"on", "released"}
    /\ Becomes(c, "off")
    /\ UNCHANGED <<target, entry>>

\* Only the guest's own exceptions make RITM panic.
Fail(c) == power[c] = "on" /\ Becomes(c, "failed") /\ UNCHANGED <<target, entry>>

SystemDown(c) ==
    /\ power[c] \in {"on", "released", "failed"}
    /\ power' = [d \in Cores |-> "down"]
    /\ target' = [d \in Cores |-> None]
    /\ entry' = [d \in Cores |-> None]

Reset(c) ==
    /\ power[c] \in {"on", "released"}
    /\ power' = BootPower
    /\ target' = [d \in Cores |-> None]
    /\ entry' = BootEntry

Next ==
    \E c \in Cores :
        \/ \E t \in Targets, e \in EntryPoints : CpuOn(c, t, e)
        \/ \E e \in EntryPoints : CpuSuspend(c, e)
        \/ Accept(c) \/ PowerDown(c) \/ Return(c) \/ Wake(c) \/ Enter(c)
        \/ Forward(c) \/ Release(c) \/ CpuOff(c)
        \/ Fail(c) \/ SystemDown(c) \/ Reset(c)

Spec == Init /\ [][Next]_coreservice

=============================================================================

-------------------------- MODULE PsciCoresService --------------------------
(* PsciCores as an implementation of CoreService: what the guest sees of a *)
(* core, from where the core is in RITM's code.                            *)
EXTENDS PsciCoresInv

\* A guest without stage 2 is in none of CoreService's states.
PowerOf(c) ==
    CASE pc[c] = "guest" -> IF stage2[c] THEN "on" ELSE "unconfined"
      [] pc[c] \in OnSteps -> "turning_on"
      [] pc[c] \in SuspendSteps -> "suspending"
      [] pc[c] \in {"ON_PENDING"} \cup StartSteps -> "starting"
      [] pc[c] = "SUSPENDED" -> "suspended"
      [] pc[c] = "SUSPENDED_BY_GUEST" -> "dormant"
      [] pc[c] = "guest_el2" -> "released"
      [] pc[c] \in Panics -> "failed"
      [] pc[c] = "OFF" -> "off"
      [] pc[c] = "SYSTEM_OFF" -> "down"

TargetOf(c) == IF pc[c] \in OnSteps THEN call[c].target ELSE None

\* Before it has read its start record, a core that starts has the entry point
\* that the firmware accepted; afterwards the one it has read.
EntryOf(c) ==
    CASE pc[c] \in OnSteps \cup SuspendSteps \cup {"entry_point_el1"} -> call[c].entry
      [] pc[c] \in {"ON_PENDING", "SUSPENDED", "secondary_entry", "restore_from_suspend"} ->
             asked[c].entry
      [] OTHER -> None

Powers == [c \in Cores |-> PowerOf(c)]

CallTargets == [c \in Cores |-> TargetOf(c)]

Entries == [c \in Cores |-> EntryOf(c)]

Service == INSTANCE CoreService WITH
    power <- Powers, target <- CallTargets, entry <- Entries

\* RITM, its maps and its start records implement the PSCI service: every step
\* of the code is a step of CoreService or invisible to the guest.  (For a
\* guest that serialises its CPU_ON calls, with room in the maps.)
ImplementsService == Service!Spec

=============================================================================

---------------------------- MODULE GuestMachine ----------------------------
(***************************************************************************)
(* The machine that the guest sees: there is no EL2, and the devices are   *)
(* on the bus.  A core executes each load, store and call in one step,     *)
(* with the answer that the device or service has for it at that moment.   *)
(***************************************************************************)
CONSTANTS
    Cores,
    Programs,                   \* for each core, its instructions and its states
    Executes(_, _, _, _, _),    \* an instruction, in a state of the core and of the
                                \* device, may leave the core and the device so
    Stops(_, _, _),             \* or is the end of the core
    None

VARIABLES
    program,    \* the guest that runs; never changes
    state,      \* the architectural state of each core
    executed,   \* the instruction that a core has just executed, or None
    stopped,    \* the cores that have stopped
    device      \* the state of the device

machine == <<program, state, executed, stopped, device>>

Init ==
    /\ program \in Programs
    /\ state \in {s \in [Cores -> UNION {program[c].states : c \in Cores}] :
                     \A c \in Cores : s[c] \in program[c].states}
    /\ executed = [c \in Cores |-> None]
    /\ stopped = {}
    /\ device = 0

\* A load, a store or a call.
Execute(c) ==
    /\ c \notin stopped /\ executed[c] = None
    /\ executed'[c] \in program[c].instructions
    /\ Executes(executed'[c], state[c], device, state'[c], device')
    /\ executed' = [executed EXCEPT ![c] = executed'[c]]
    /\ state' = [state EXCEPT ![c] = state'[c]]
    /\ UNCHANGED <<program, stopped>>

\* Instructions that stay within the core.
Run(c) ==
    /\ executed[c] # None
    /\ executed' = [executed EXCEPT ![c] = None]
    /\ \E s \in program[c].states : state' = [state EXCEPT ![c] = s]
    /\ UNCHANGED <<program, stopped, device>>

Stop(c) ==
    /\ c \notin stopped /\ executed[c] = None
    /\ stopped' = stopped \cup {c}
    /\ \E i \in program[c].instructions : Stops(i, state[c], device)
    /\ UNCHANGED <<program, state, executed, device>>

Next == \E c \in Cores : Execute(c) \/ Run(c) \/ Stop(c)

Spec == Init /\ [][Next]_machine

=============================================================================

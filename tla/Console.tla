------------------------------ MODULE Console ------------------------------
(***************************************************************************)
(* The console the cores share, the logger that writes records to it and   *)
(* the panic handler that writes its report to it and turns the machine    *)
(* off: console.rs, logger.rs and the calls main makes of them.            *)
(*                                                                         *)
(* The console is a spin lock that is only taken with the exceptions of    *)
(* the core masked.  A line takes two writes, so that two lines can mix.   *)
(* What is written is left out.                                            *)
(***************************************************************************)
EXTENDS Naturals

CONSTANTS
    Cores, BootCore, None,
    MAX_LEVEL,  \* the LOG_LEVEL of main.rs (shipped: Info)
    RECORDS,    \* bound: how many records main logs at most
    Failing,    \* what the platform may fail: "log" and "panic" writes, "system_off"
    Unmasked    \* the cores that firmware starts with exceptions unmasked

\* The numbers of log::LevelFilter.
Info == 3
Debug == 4
Job == {"code", "log", "panic"}

ASSUME ConsoleAssumption ==
    /\ BootCore \in Cores
    /\ None \notin Cores
    /\ "on" \notin Cores
    /\ RECORDS \in Nat
    /\ MAX_LEVEL \in {Info, Debug}
    /\ Failing \subseteq {"log", "panic", "system_off"}
    /\ Unmasked \subseteq Cores

VARIABLES
    phase,      \* what the core's own code is at: "unstarted", "boot" (before
                \* the console is shared), "main", "guest" (EL1), "handler" (EL2)
    job,        \* the code the core runs: its own, a log call, the panic handler
    pc,         \* where it is in that code
    masked,     \* the cores with exceptions masked (PSTATE.DAIF)
    saved,      \* was the core masked when it entered exception_free?
    lock,       \* the holder of the SpinMutex
    CONSOLE,    \* is the console shared?
    max_level,  \* log::max_level, 0 is Off
    records,    \* the records main still logs
    last,       \* the core that wrote last
    failed,     \* the cores one of whose log writes has failed
    cut,        \* the cores one of whose panic reports a failing write cut short
    reported,   \* the cores that have written a whole panic report
    machine     \* "on", or the core that turned it off

corevars == <<phase, records, max_level, CONSOLE>>
execvars == <<job, pc, masked, saved>>
vars == <<corevars, execvars, lock, last, failed, cut, reported, machine>>

(***************************************************************************)
(* Every variable has its type.                                            *)
(***************************************************************************)
ConsoleTypeOK ==
    /\ phase \in [Cores -> {"unstarted", "boot", "main", "guest", "handler"}]
    /\ job \in [Cores -> Job]
    /\ pc \in [Cores -> {"run", "enter", "lock", "write", "rest", "unlock", "off"}]
    /\ masked \subseteq Cores
    /\ saved \in [Cores -> BOOLEAN]
    /\ lock \in Cores \cup {None}
    /\ CONSOLE \in BOOLEAN
    /\ max_level \in {0, MAX_LEVEL}
    /\ records \in 0 .. RECORDS
    /\ last \in Cores \cup {None}
    /\ failed \subseteq Cores
    /\ cut \subseteq Cores
    /\ reported \subseteq Cores
    /\ machine \in Cores \cup {"on"}

ConsoleInit ==
    /\ phase = [c \in Cores |-> IF c = BootCore THEN "boot" ELSE "unstarted"]
    /\ job = [c \in Cores |-> "code"]
    /\ pc = [c \in Cores |-> "run"]
    /\ masked = Cores \ Unmasked
    /\ saved = [c \in Cores |-> FALSE]
    /\ lock = None
    /\ CONSOLE = FALSE
    /\ max_level = 0
    /\ records = RECORDS
    /\ last = None
    /\ failed = {}
    /\ cut = {}
    /\ reported = {}
    /\ machine = "on"

----------------------------------------------------------------------------
\* The code of the cores: what they do between two calls of the console.

InCode(c, phases) == job[c] = "code" /\ phase[c] \in phases

\* console::init of main.
Share(c) ==
    /\ InCode(c, {"boot"})
    /\ phase' = [phase EXCEPT ![c] = "main"]
    /\ CONSOLE' = TRUE
    /\ UNCHANGED <<records, max_level, execvars, lock, last, failed, cut, reported>>

InitLoggerTrace(c) ==
    /\ InCode(c, {"main"})
    /\ max_level = 0
    /\ max_level' = 5
    /\ UNCHANGED <<phase, records, CONSOLE, execvars, lock, last, failed, cut, reported>>

\* logger::init of main, whose set_logger cannot fail the first time.
InitLogger(c) ==
    /\ InCode(c, {"main"})
    /\ max_level = 0
    /\ max_level' = MAX_LEVEL
    /\ UNCHANGED <<phase, records, CONSOLE, execvars, lock, last, failed, cut, reported>>

\* main ends in the payload.
EnterPayload(c) ==
    /\ InCode(c, {"main"})
    /\ max_level # 0
    /\ phase' = [phase EXCEPT ![c] = "guest"]
    /\ UNCHANGED <<records, max_level, CONSOLE, execvars, lock, last, failed, cut, reported>>

\* The guest starts another core; it arrives with its exceptions masked.
Start(c) ==
    /\ InCode(c, {"unstarted"})
    /\ phase[BootCore] \in {"guest", "handler"}
    /\ phase' = [phase EXCEPT ![c] = "handler"]
    /\ masked' = masked \cup {c}
    /\ UNCHANGED <<records, max_level, CONSOLE, job, pc, saved, lock, last, failed, cut, reported>>

\* The guest traps, which masks the exceptions of the core, and is resumed.
Trap(c) ==
    /\ InCode(c, {"guest"})
    /\ phase' = [phase EXCEPT ![c] = "handler"]
    /\ masked' = masked \cup {c}
    /\ UNCHANGED <<records, max_level, CONSOLE, job, pc, saved, lock, last, failed, cut, reported>>

Resume(c) ==
    /\ InCode(c, {"handler"})
    /\ phase' = [phase EXCEPT ![c] = "guest"]
    /\ UNCHANGED <<records, max_level, CONSOLE, execvars, lock, last, failed, cut, reported>>

\* percore::exception_free: mask, and restore what was there.
EnterExceptionFree(c) ==
    /\ saved' = [saved EXCEPT ![c] = c \in masked]
    /\ masked' = masked \cup {c}

LeaveExceptionFree(c) ==
    /\ masked' = IF saved[c] THEN masked ELSE masked \ {c}
    /\ UNCHANGED saved

CallLogUnmasked(c) ==
    /\ job' = [job EXCEPT ![c] = "log"]
    /\ pc' = [pc EXCEPT ![c] = "lock"]
    /\ UNCHANGED <<masked, saved>>

\* A call of log(), up to its lock.
CallLog(c) ==
    /\ job' = [job EXCEPT ![c] = "log"]
    /\ pc' = [pc EXCEPT ![c] = "lock"]
    /\ EnterExceptionFree(c)

\* A record of a level the logger lets through: main logs a bounded number of
\* them; the handlers log at Debug only.
Log(c, level) ==
    /\ level <= max_level
    /\ \/ InCode(c, {"main"}) /\ records > 0 /\ records' = records - 1
       \/ InCode(c, {"handler"}) /\ level = Debug /\ UNCHANGED records
    /\ CallLog(c)
    /\ UNCHANGED <<phase, max_level, CONSOLE, lock, last, failed, cut, reported>>

\* An expect, an assert or a panic! of the code fails.
Panic(c) ==
    /\ InCode(c, {"boot", "main", "handler"})
    /\ job' = [job EXCEPT ![c] = "panic"]
    /\ pc' = [pc EXCEPT ![c] = "enter"]
    /\ UNCHANGED <<corevars, masked, saved, lock, last, failed, cut, reported>>

\* An exception EL2 does not expect is taken wherever the core is at EL2 with
\* exceptions unmasked.  Taking it masks them; its handler panics and never
\* returns to what it interrupted.
AsyncException(c) ==
    /\ phase[c] \in {"boot", "main"}
    /\ c \notin masked
    /\ job' = [job EXCEPT ![c] = "panic"]
    /\ pc' = [pc EXCEPT ![c] = "enter"]
    /\ masked' = masked \cup {c}
    /\ UNCHANGED <<corevars, saved, lock, last, failed, cut, reported>>

----------------------------------------------------------------------------
\* log() and panic(): the same lock around the two writes of a line.

\* The panic handler begins: without a console there is no report.
EnterPanic(c) ==
    /\ job[c] = "panic"
    /\ pc[c] = "enter"
    /\ IF CONSOLE
       THEN pc' = [pc EXCEPT ![c] = "lock"] /\ EnterExceptionFree(c)
       ELSE pc' = [pc EXCEPT ![c] = "off"] /\ UNCHANGED <<masked, saved>>
    /\ UNCHANGED <<corevars, job, lock, last, failed, cut, reported>>

AcquireAnyway(c) ==
    /\ lock' = IF lock = None THEN c ELSE lock
    /\ pc' = [pc EXCEPT ![c] = "write"]

TryAcquire(c) ==
    IF lock = None
    THEN lock' = c /\ pc' = [pc EXCEPT ![c] = "write"]
    ELSE /\ pc' = [pc EXCEPT ![c] = IF job[c] = "panic" THEN "off" ELSE "run"]
         /\ UNCHANGED lock

\* One iteration of SpinMutex::lock: it takes the lock or spins.
Acquire(c) ==
    IF lock = None
    THEN lock' = c /\ pc' = [pc EXCEPT ![c] = "write"]
    ELSE UNCHANGED <<lock, pc>>

Lock(c) ==
    /\ pc[c] = "lock"
    /\ Acquire(c)
    /\ UNCHANGED <<corevars, job, masked, saved, last, failed, cut, reported>>

\* A part of the line is written; with its second part a report is whole.
Write(c) ==
    /\ pc[c] \in {"write", "rest"}
    /\ pc' = [pc EXCEPT ![c] = IF pc[c] = "write" THEN "rest" ELSE "unlock"]
    /\ last' = c
    /\ reported' = IF job[c] = "panic" /\ pc[c] = "rest" THEN reported \cup {c} ELSE reported
    /\ UNCHANGED <<corevars, job, masked, saved, lock, failed, cut>>

WriteExpected(c) ==
    /\ pc[c] \in {"write", "rest"}
    /\ job[c] \in Failing
    /\ failed' = IF job[c] = "log" THEN failed \cup {c} ELSE failed
    /\ job' = [job EXCEPT ![c] = "panic"]
    /\ pc' = [pc EXCEPT ![c] = "enter"]
    /\ UNCHANGED <<corevars, masked, saved, lock, last, cut, reported>>

\* A write fails: log() expects it not to, and panics with the lock held and
\* exceptions masked; the panic handler ignores it.
WriteFails(c) ==
    /\ pc[c] \in {"write", "rest"}
    /\ job[c] \in Failing
    /\ IF job[c] = "log"
       THEN /\ failed' = failed \cup {c}
            /\ job' = [job EXCEPT ![c] = "panic"]
            /\ pc' = [pc EXCEPT ![c] = "enter"]
            /\ UNCHANGED cut
       ELSE /\ cut' = cut \cup {c}
            /\ pc' = [pc EXCEPT ![c] = "unlock"]
            /\ UNCHANGED <<job, failed>>
    /\ UNCHANGED <<corevars, masked, saved, lock, last, reported>>

\* The guard is dropped and exception_free ends.
Unlock(c) ==
    /\ pc[c] = "unlock"
    /\ lock' = None
    /\ LeaveExceptionFree(c)
    /\ IF job[c] = "log"
       THEN /\ job' = [job EXCEPT ![c] = "code"]
            /\ pc' = [pc EXCEPT ![c] = "run"]
       ELSE pc' = [pc EXCEPT ![c] = "off"] /\ UNCHANGED job
    /\ UNCHANGED <<corevars, last, failed, cut, reported>>

\* The panic handler turns the machine off; if firmware refuses, its expect
\* panics in turn.
SystemOff(c) ==
    /\ pc[c] = "off"
    /\ machine' = c
    /\ UNCHANGED <<corevars, execvars, lock, last, failed, cut, reported>>

SystemOffFails(c) ==
    /\ pc[c] = "off"
    /\ "system_off" \in Failing
    /\ pc' = [pc EXCEPT ![c] = "enter"]
    /\ UNCHANGED <<corevars, job, masked, saved, lock, last, failed, cut, reported, machine>>

----------------------------------------------------------------------------
\* What a core that is in log() or panic() does.
ConsoleStep(c) ==
    machine = "on" /\ (\/ (\/ EnterPanic(c)
                           \/ Lock(c)
                           \/ Write(c)
                           \/ WriteFails(c)
                           \/ Unlock(c)) /\ UNCHANGED machine
                       \/ SystemOff(c)
                       \/ SystemOffFails(c))

CodeStep(c) ==
    /\ machine = "on"
    /\ \/ Share(c)
       \/ InitLogger(c)
       \/ EnterPayload(c)
       \/ Start(c)
       \/ Trap(c)
       \/ Resume(c)
       \/ \E level \in {Info, Debug} : Log(c, level)
       \/ Panic(c)
       \/ AsyncException(c)
    /\ UNCHANGED machine

\* Nothing runs once the machine is off.
Stopped == machine # "on" /\ UNCHANGED vars

ConsoleNext == (\E c \in Cores : ConsoleStep(c) \/ CodeStep(c)) \/ Stopped

\* A core that executes at EL2 goes on executing: nothing preempts it there.
ConsoleSpec ==
    /\ ConsoleInit
    /\ [][ConsoleNext]_vars
    /\ \A c \in Cores : WF_vars(ConsoleStep(c))

----------------------------------------------------------------------------
(***************************************************************************)
(* A line is written whole: between the two writes of a log record or of a *)
(* panic report no other core of RITM writes to the console.  (The guest   *)
(* has the UART mapped too and is not part of this.)                       *)
(***************************************************************************)
WholeLines ==
    \A c \in Cores : pc[c] = "rest" => last = c

(***************************************************************************)
(* A core waits for a console lock that it holds itself only when a write  *)
(* of its own log record failed (the expect of log() panics with the lock  *)
(* held).  In particular no exception taken during a log call leads there. *)
(***************************************************************************)
SelfDeadlockOnlyAfterFailure ==
    \A c \in Cores : pc[c] = "lock" /\ lock = c => c \in failed

(***************************************************************************)
(* Once the console is shared, the core that turns the machine off has     *)
(* written the whole of its panic report before, unless a write of it      *)
(* failed, which the handler ignores.  So the panic that ends the machine  *)
(* is on the console, however many cores panic together; the report of     *)
(* another one that was still writing or waiting is lost.                  *)
(***************************************************************************)
OffAfterReport ==
    machine # "on" /\ CONSOLE => machine \in reported \cup cut

\* Whether an exception can still throw core c back to the start of the panic
\* handler: now, or once exception_free has restored its mask.
Interruptible(c) ==
    IF pc[c] \in {"lock", "write", "rest", "unlock"} THEN ~saved[c] ELSE c \notin masked

\* The steps that are left of a pass through the panic handler.
PassLeft(l) ==
    CASE l = "enter" -> 5
      [] l = "lock" -> 4
      [] l = "write" -> 3
      [] l = "rest" -> 2
      [] l = "unlock" -> 1
      [] OTHER -> 0

\* The most steps core c may take before it turns the machine off.
StepsLeft(c) == PassLeft(pc[c]) + IF Interruptible(c) THEN 6 ELSE 0

(***************************************************************************)
(* A panic is never given up and only moves on: whatever a panicking core  *)
(* meets (no console, a write that fails, an exception in the handler), it *)
(* gets nearer to turning the machine off, and starts again only if        *)
(* firmware refuses that.  At most one exception throws it back.           *)
(***************************************************************************)
PanicAdvances ==
    [][\A c \in Cores : job[c] = "panic" =>
          /\ job'[c] = "panic"
          /\ \/ pc'[c] = pc[c] /\ StepsLeft(c)' = StepsLeft(c)
             \/ StepsLeft(c)' < StepsLeft(c)
             \/ pc[c] = "off" /\ "system_off" \in Failing /\ masked' = masked]_vars

\* From some time on no core begins a record, and firmware does not refuse to
\* turn the machine off.
Quiet ==
    <>[][\A c \in Cores :
            /\ job'[c] = "log" => job[c] = "log"
            /\ pc[c] = "off" /\ masked' = masked => pc'[c] = "off"]_vars

(***************************************************************************)
(* A panic ends with the machine off, whatever else the other cores do,    *)
(* unless a core whose log write failed sits on the lock for ever.  A      *)
(* write of the panic report that fails does not prevent it, nor do panics *)
(* of other cores.  Cores that log again and again could: the spin lock is *)
(* not fair.  At the shipped level no core does.                           *)
(***************************************************************************)
PanicEnds ==
    Quiet => \A c \in Cores :
                 job[c] = "panic" ~> (machine # "on" \/ lock \in failed)

=============================================================================

--------------------------- MODULE ConsoleProofs ---------------------------
(***************************************************************************)
(* The console's safety properties hold for any number of cores, any set   *)
(* of operations the platform may fail and any set of cores that start     *)
(* with exceptions unmasked.                                               *)
(***************************************************************************)
EXTENDS Console, TLAPS

\* A core executes its own code exactly when it is not in log() or panic().
JobsMatch == \A c \in Cores : job[c] = "code" <=> pc[c] = "run"

Writing == {"write", "rest", "unlock"}

\* Exceptions are masked from before the lock until after it.
LockedMasked == \A c \in Cores : pc[c] \in {"lock"} \cup Writing => c \in masked

WritersHold == \A c \in Cores : pc[c] \in Writing => lock = c

HoldersWrite == \A c \in Cores : lock = c => pc[c] \in Writing \/ c \in failed

\* Only the boot core runs, in its boot phase, until the console is shared.
SharedBefore ==
    /\ \A c \in Cores \ {BootCore} : phase[c] # "boot"
    /\ ~CONSOLE => /\ phase[BootCore] = "boot"
                   /\ \A c \in Cores \ {BootCore} :
                          phase[c] = "unstarted" /\ job[c] = "code"

\* A core that has done with its report, or is about to turn the machine off
\* with a console there, has written a whole report or seen a write of it fail.
OffReported ==
    \A c \in Cores :
        (pc[c] = "unlock" /\ job[c] = "panic") \/ (pc[c] = "off" /\ CONSOLE)
            => c \in reported \cup cut

(***************************************************************************)
(* The inductive invariant.                                                *)
(***************************************************************************)
ConsoleInv ==
    /\ ConsoleTypeOK
    /\ JobsMatch
    /\ LockedMasked
    /\ WritersHold
    /\ HoldersWrite
    /\ WholeLines
    /\ SharedBefore
    /\ OffReported
    /\ OffAfterReport

(***************************************************************************)
(* Noting in a table of Booleans whether x is in M leaves one.             *)
(***************************************************************************)
LEMMA RecordMembership ==
    ASSUME NEW S, NEW f \in [S -> BOOLEAN], NEW x, NEW M
    PROVE  [f EXCEPT ![x] = (x \in M)] \in [S -> BOOLEAN]
<1>1. ASSUME NEW b \in BOOLEAN PROVE [f EXCEPT ![x] = b] \in [S -> BOOLEAN]
  OBVIOUS
<1>2. (x \in M) \in BOOLEAN
  OBVIOUS
<1> QED
  BY <1>1, <1>2

(***************************************************************************)
(* The invariant holds before main runs.                                   *)
(***************************************************************************)
LEMMA InitConsoleInv == ConsoleInit => ConsoleInv
<1> USE ConsoleAssumption
<1>1. ConsoleInit => ConsoleTypeOK
  <2> SUFFICES ASSUME ConsoleInit PROVE ConsoleTypeOK
    OBVIOUS
  <2>1. saved \in [Cores -> BOOLEAN] /\ CONSOLE \in BOOLEAN
    BY Zenon DEF ConsoleInit
  <2>2. phase \in [Cores -> {"unstarted", "boot", "main", "guest", "handler"}]
    BY DEF ConsoleInit
  <2>3. /\ job \in [Cores -> Job]
        /\ pc \in [Cores -> {"run", "enter", "lock", "write", "rest", "unlock", "off"}]
    BY DEF ConsoleInit, Job
  <2>4. max_level \in {0, MAX_LEVEL} /\ records \in 0 .. RECORDS
    BY DEF ConsoleInit
  <2>5. /\ masked \subseteq Cores /\ failed \subseteq Cores
        /\ cut \subseteq Cores /\ reported \subseteq Cores
        /\ lock \in Cores \cup {None} /\ last \in Cores \cup {None}
        /\ machine \in Cores \cup {"on"}
    BY DEF ConsoleInit
  <2> QED
    BY <2>1, <2>2, <2>3, <2>4, <2>5 DEF ConsoleTypeOK
<1>2. ConsoleInit => JobsMatch /\ LockedMasked /\ WritersHold /\ WholeLines
  BY DEF ConsoleInit, JobsMatch, LockedMasked, WritersHold, WholeLines, Writing
<1>3. ConsoleInit => HoldersWrite /\ SharedBefore /\ OffReported /\ OffAfterReport
  BY DEF ConsoleInit, HoldersWrite, SharedBefore, OffReported, OffAfterReport
<1> QED
  BY <1>1, <1>2, <1>3 DEF ConsoleInv

(***************************************************************************)
(* The panic handler's entry preserves the invariant.                      *)
(***************************************************************************)
LEMMA EnterPanicKeeps ==
    ASSUME ConsoleInv, machine = "on", NEW c \in Cores, EnterPanic(c), UNCHANGED machine
    PROVE  ConsoleInv'
<1> USE ConsoleAssumption
<1> USE DEF ConsoleInv, EnterPanic, InCode, corevars, execvars, EnterExceptionFree
<1>1. ConsoleTypeOK'
  <2>1. saved' \in [Cores -> BOOLEAN] /\ CONSOLE' \in BOOLEAN
    <3>1. /\ saved \in [Cores -> BOOLEAN] /\ CONSOLE \in BOOLEAN /\ CONSOLE' = CONSOLE
          /\ saved' = saved \/ saved' = [saved EXCEPT ![c] = (c \in masked)]
      BY DEF ConsoleTypeOK
    <3> QED
      BY <3>1, RecordMembership
  <2>2. /\ masked' \subseteq Cores /\ failed' \subseteq Cores
        /\ cut' \subseteq Cores /\ reported' \subseteq Cores
    <3>1. masked' \subseteq Cores
      <4>1. masked' \subseteq masked \cup {c}
        OBVIOUS
      <4> QED
        BY <4>1 DEF ConsoleTypeOK
    <3>2. failed' = failed \/ failed' = failed \cup {c}
      OBVIOUS
    <3>3. reported' = reported /\ (cut' = cut \/ cut' = cut \cup {c})
      OBVIOUS
    <3> QED
      BY <3>1, <3>2, <3>3 DEF ConsoleTypeOK
  <2>3. job' \in [Cores -> Job]
    BY DEF ConsoleTypeOK, Job
  <2>4. pc' \in [Cores -> {"run", "enter", "lock", "write", "rest", "unlock", "off"}]
    BY DEF ConsoleTypeOK
  <2>5. records' \in 0 .. RECORDS
    BY DEF ConsoleTypeOK
  <2>6. /\ phase' = phase /\ lock' \in {lock, None} /\ last' = last
        /\ max_level' = max_level /\ machine' = machine
    OBVIOUS
  <2> QED
    BY <2>1, <2>2, <2>3, <2>4, <2>5, <2>6 DEF ConsoleTypeOK
<1>2. JobsMatch'
  BY DEF ConsoleTypeOK, JobsMatch
<1>3. LockedMasked'
  BY DEF ConsoleTypeOK, JobsMatch, LockedMasked, Writing
<1>4. WritersHold'
  BY DEF ConsoleTypeOK, JobsMatch, WritersHold, Writing
<1>5. HoldersWrite'
  BY DEF ConsoleTypeOK, JobsMatch, LockedMasked, WritersHold, HoldersWrite, Writing
<1>6. WholeLines'
  BY DEF ConsoleTypeOK, JobsMatch, WritersHold, WholeLines, Writing
<1>7. SharedBefore'
  BY DEF ConsoleTypeOK, JobsMatch, SharedBefore
<1>8. OffReported'
  BY DEF ConsoleTypeOK, JobsMatch, SharedBefore, OffReported
<1>9. OffAfterReport'
  BY DEF ConsoleTypeOK, OffReported, OffAfterReport
<1> QED
  BY <1>1, <1>2, <1>3, <1>4, <1>5, <1>6, <1>7, <1>8, <1>9

(***************************************************************************)
(* An iteration of the lock loop preserves the invariant.                  *)
(***************************************************************************)
LEMMA LockKeeps ==
    ASSUME ConsoleInv, machine = "on", NEW c \in Cores, Lock(c), UNCHANGED machine
    PROVE  ConsoleInv'
<1> USE ConsoleAssumption
<1> USE DEF ConsoleInv, Lock, InCode, corevars, execvars, Acquire
<1>1. ConsoleTypeOK'
  BY DEF ConsoleTypeOK, Job
<1>2. JobsMatch'
  BY DEF ConsoleTypeOK, JobsMatch
<1>3. LockedMasked'
  BY DEF ConsoleTypeOK, JobsMatch, LockedMasked, Writing
<1>4. WritersHold'
  BY DEF ConsoleTypeOK, JobsMatch, WritersHold, Writing
<1>5. HoldersWrite'
  BY DEF ConsoleTypeOK, JobsMatch, LockedMasked, WritersHold, HoldersWrite, Writing
<1>6. WholeLines'
  BY DEF ConsoleTypeOK, JobsMatch, WritersHold, WholeLines, Writing
<1>7. SharedBefore'
  BY DEF ConsoleTypeOK, JobsMatch, SharedBefore
<1>8. OffReported'
  BY DEF ConsoleTypeOK, JobsMatch, SharedBefore, OffReported
<1>9. OffAfterReport'
  BY DEF ConsoleTypeOK, OffReported, OffAfterReport
<1> QED
  BY <1>1, <1>2, <1>3, <1>4, <1>5, <1>6, <1>7, <1>8, <1>9

(***************************************************************************)
(* A write to the console preserves the invariant.                         *)
(***************************************************************************)
LEMMA WriteKeeps ==
    ASSUME ConsoleInv, machine = "on", NEW c \in Cores, Write(c), UNCHANGED machine
    PROVE  ConsoleInv'
<1> USE ConsoleAssumption
<1> USE DEF ConsoleInv, Write, InCode, corevars, execvars
<1>1. ConsoleTypeOK'
  BY DEF ConsoleTypeOK, Job
<1>2. JobsMatch'
  BY DEF ConsoleTypeOK, JobsMatch
<1>3. LockedMasked'
  BY DEF ConsoleTypeOK, JobsMatch, LockedMasked, Writing
<1>4. WritersHold'
  BY DEF ConsoleTypeOK, JobsMatch, WritersHold, Writing
<1>5. HoldersWrite'
  BY DEF ConsoleTypeOK, JobsMatch, LockedMasked, WritersHold, HoldersWrite, Writing
<1>6. WholeLines'
  BY DEF ConsoleTypeOK, JobsMatch, WritersHold, WholeLines, Writing
<1>7. SharedBefore'
  BY DEF ConsoleTypeOK, JobsMatch, SharedBefore
<1>8. OffReported'
  BY DEF ConsoleTypeOK, JobsMatch, SharedBefore, OffReported
<1>9. OffAfterReport'
  BY DEF ConsoleTypeOK, OffReported, OffAfterReport
<1> QED
  BY <1>1, <1>2, <1>3, <1>4, <1>5, <1>6, <1>7, <1>8, <1>9

(***************************************************************************)
(* A failed write preserves the invariant.                                 *)
(***************************************************************************)
LEMMA WriteFailsKeeps ==
    ASSUME ConsoleInv, machine = "on", NEW c \in Cores, WriteFails(c), UNCHANGED machine
    PROVE  ConsoleInv'
<1> USE ConsoleAssumption
<1> USE DEF ConsoleInv, WriteFails, InCode, corevars, execvars
<1>1. ConsoleTypeOK'
  <2>1. saved' \in [Cores -> BOOLEAN] /\ CONSOLE' \in BOOLEAN
    <3>1. /\ saved \in [Cores -> BOOLEAN] /\ CONSOLE \in BOOLEAN /\ CONSOLE' = CONSOLE
          /\ saved' = saved \/ saved' = [saved EXCEPT ![c] = (c \in masked)]
      BY DEF ConsoleTypeOK
    <3> QED
      BY <3>1, RecordMembership
  <2>2. /\ masked' \subseteq Cores /\ failed' \subseteq Cores
        /\ cut' \subseteq Cores /\ reported' \subseteq Cores
    <3>1. masked' \subseteq Cores
      <4>1. masked' \subseteq masked \cup {c}
        OBVIOUS
      <4> QED
        BY <4>1 DEF ConsoleTypeOK
    <3>2. failed' = failed \/ failed' = failed \cup {c}
      OBVIOUS
    <3>3. reported' = reported /\ (cut' = cut \/ cut' = cut \cup {c})
      OBVIOUS
    <3> QED
      BY <3>1, <3>2, <3>3 DEF ConsoleTypeOK
  <2>3. job' \in [Cores -> Job]
    BY DEF ConsoleTypeOK, Job
  <2>4. pc' \in [Cores -> {"run", "enter", "lock", "write", "rest", "unlock", "off"}]
    BY DEF ConsoleTypeOK
  <2>5. records' \in 0 .. RECORDS
    BY DEF ConsoleTypeOK
  <2>6. /\ phase' = phase /\ lock' \in {lock, None} /\ last' = last
        /\ max_level' = max_level /\ machine' = machine
    OBVIOUS
  <2> QED
    BY <2>1, <2>2, <2>3, <2>4, <2>5, <2>6 DEF ConsoleTypeOK
<1>2. JobsMatch'
  BY DEF ConsoleTypeOK, JobsMatch
<1>3. LockedMasked'
  BY DEF ConsoleTypeOK, JobsMatch, LockedMasked, Writing
<1>4. WritersHold'
  BY DEF ConsoleTypeOK, JobsMatch, WritersHold, Writing
<1>5. HoldersWrite'
  BY DEF ConsoleTypeOK, JobsMatch, LockedMasked, WritersHold, HoldersWrite, Writing
<1>6. WholeLines'
  BY DEF ConsoleTypeOK, JobsMatch, WritersHold, WholeLines, Writing
<1>7. SharedBefore'
  BY DEF ConsoleTypeOK, JobsMatch, SharedBefore
<1>8. OffReported'
  BY DEF ConsoleTypeOK, JobsMatch, SharedBefore, OffReported
<1>9. OffAfterReport'
  BY DEF ConsoleTypeOK, OffReported, OffAfterReport
<1> QED
  BY <1>1, <1>2, <1>3, <1>4, <1>5, <1>6, <1>7, <1>8, <1>9

(***************************************************************************)
(* Dropping the guard preserves the invariant.                             *)
(***************************************************************************)
LEMMA UnlockKeeps ==
    ASSUME ConsoleInv, machine = "on", NEW c \in Cores, Unlock(c), UNCHANGED machine
    PROVE  ConsoleInv'
<1> USE ConsoleAssumption
<1> USE DEF ConsoleInv, Unlock, InCode, corevars, execvars, LeaveExceptionFree
<1>1. ConsoleTypeOK'
  <2>1. saved' \in [Cores -> BOOLEAN] /\ CONSOLE' \in BOOLEAN
    <3>1. /\ saved \in [Cores -> BOOLEAN] /\ CONSOLE \in BOOLEAN /\ CONSOLE' = CONSOLE
          /\ saved' = saved \/ saved' = [saved EXCEPT ![c] = (c \in masked)]
      BY DEF ConsoleTypeOK
    <3> QED
      BY <3>1, RecordMembership
  <2>2. /\ masked' \subseteq Cores /\ failed' \subseteq Cores
        /\ cut' \subseteq Cores /\ reported' \subseteq Cores
    <3>1. masked' \subseteq Cores
      <4>1. masked' \subseteq masked \cup {c}
        OBVIOUS
      <4> QED
        BY <4>1 DEF ConsoleTypeOK
    <3>2. failed' = failed \/ failed' = failed \cup {c}
      OBVIOUS
    <3>3. reported' = reported /\ (cut' = cut \/ cut' = cut \cup {c})
      OBVIOUS
    <3> QED
      BY <3>1, <3>2, <3>3 DEF ConsoleTypeOK
  <2>3. job' \in [Cores -> Job]
    BY DEF ConsoleTypeOK, Job
  <2>4. pc' \in [Cores -> {"run", "enter", "lock", "write", "rest", "unlock", "off"}]
    BY DEF ConsoleTypeOK
  <2>5. records' \in 0 .. RECORDS
    BY DEF ConsoleTypeOK
  <2>6. /\ phase' = phase /\ lock' \in {lock, None} /\ last' = last
        /\ max_level' = max_level /\ machine' = machine
    OBVIOUS
  <2> QED
    BY <2>1, <2>2, <2>3, <2>4, <2>5, <2>6 DEF ConsoleTypeOK
<1>2. JobsMatch'
  BY DEF ConsoleTypeOK, JobsMatch
<1>3. LockedMasked'
  BY DEF ConsoleTypeOK, JobsMatch, LockedMasked, Writing
<1>4. WritersHold'
  BY DEF ConsoleTypeOK, JobsMatch, WritersHold, Writing
<1>5. HoldersWrite'
  BY DEF ConsoleTypeOK, JobsMatch, LockedMasked, WritersHold, HoldersWrite, Writing
<1>6. WholeLines'
  BY DEF ConsoleTypeOK, JobsMatch, WritersHold, WholeLines, Writing
<1>7. SharedBefore'
  BY DEF ConsoleTypeOK, JobsMatch, SharedBefore
<1>8. OffReported'
  <2> HIDE DEF LeaveExceptionFree
  <2>1. job[c] \in {"log", "panic"}
    BY DEF ConsoleTypeOK, Job, JobsMatch
  <2>2. job[c] = "panic" => c \in reported \cup cut
    BY Zenon DEF OffReported
  <2>3. reported' = reported /\ cut' = cut /\ CONSOLE' = CONSOLE
    OBVIOUS
  <2>4. \A d \in Cores \ {c} : pc'[d] = pc[d] /\ job'[d] = job[d]
    BY DEF ConsoleTypeOK
  <2>5. pc'[c] = IF job[c] = "log" THEN "run" ELSE "off"
    BY DEF ConsoleTypeOK
  <2> QED
    BY <2>1, <2>2, <2>3, <2>4, <2>5 DEF OffReported
<1>9. OffAfterReport'
  BY DEF ConsoleTypeOK, OffReported, OffAfterReport
<1> QED
  BY <1>1, <1>2, <1>3, <1>4, <1>5, <1>6, <1>7, <1>8, <1>9

(***************************************************************************)
(* Turning the machine off preserves the invariant.                        *)
(***************************************************************************)
LEMMA SystemOffKeeps ==
    ASSUME ConsoleInv, machine = "on", NEW c \in Cores, SystemOff(c)
    PROVE  ConsoleInv'
<1> USE ConsoleAssumption
<1> USE DEF ConsoleInv, SystemOff, InCode, corevars, execvars
<1>1. ConsoleTypeOK'
  BY DEF ConsoleTypeOK, Job
<1>2. JobsMatch'
  BY DEF ConsoleTypeOK, JobsMatch
<1>3. LockedMasked'
  BY DEF ConsoleTypeOK, JobsMatch, LockedMasked, Writing
<1>4. WritersHold'
  BY DEF ConsoleTypeOK, JobsMatch, WritersHold, Writing
<1>5. HoldersWrite'
  BY DEF ConsoleTypeOK, JobsMatch, LockedMasked, WritersHold, HoldersWrite, Writing
<1>6. WholeLines'
  BY DEF ConsoleTypeOK, JobsMatch, WritersHold, WholeLines, Writing
<1>7. SharedBefore'
  BY DEF ConsoleTypeOK, JobsMatch, SharedBefore
<1>8. OffReported'
  BY DEF ConsoleTypeOK, JobsMatch, SharedBefore, OffReported
<1>9. OffAfterReport'
  BY DEF ConsoleTypeOK, OffReported, OffAfterReport
<1> QED
  BY <1>1, <1>2, <1>3, <1>4, <1>5, <1>6, <1>7, <1>8, <1>9

(***************************************************************************)
(* A refused SYSTEM_OFF preserves the invariant.                           *)
(***************************************************************************)
LEMMA SystemOffFailsKeeps ==
    ASSUME ConsoleInv, machine = "on", NEW c \in Cores, SystemOffFails(c)
    PROVE  ConsoleInv'
<1> USE ConsoleAssumption
<1> USE DEF ConsoleInv, SystemOffFails, InCode, corevars, execvars
<1>1. ConsoleTypeOK'
  BY DEF ConsoleTypeOK, Job
<1>2. JobsMatch'
  BY DEF ConsoleTypeOK, JobsMatch
<1>3. LockedMasked'
  BY DEF ConsoleTypeOK, JobsMatch, LockedMasked, Writing
<1>4. WritersHold'
  BY DEF ConsoleTypeOK, JobsMatch, WritersHold, Writing
<1>5. HoldersWrite'
  BY DEF ConsoleTypeOK, JobsMatch, LockedMasked, WritersHold, HoldersWrite, Writing
<1>6. WholeLines'
  BY DEF ConsoleTypeOK, JobsMatch, WritersHold, WholeLines, Writing
<1>7. SharedBefore'
  BY DEF ConsoleTypeOK, JobsMatch, SharedBefore
<1>8. OffReported'
  BY DEF ConsoleTypeOK, JobsMatch, SharedBefore, OffReported
<1>9. OffAfterReport'
  BY DEF ConsoleTypeOK, OffReported, OffAfterReport
<1> QED
  BY <1>1, <1>2, <1>3, <1>4, <1>5, <1>6, <1>7, <1>8, <1>9

(***************************************************************************)
(* console::init preserves the invariant.                                  *)
(***************************************************************************)
LEMMA ShareKeeps ==
    ASSUME ConsoleInv, machine = "on", NEW c \in Cores, Share(c), UNCHANGED machine
    PROVE  ConsoleInv'
<1> USE ConsoleAssumption
<1> USE DEF ConsoleInv, Share, InCode, corevars, execvars
<1>1. ConsoleTypeOK'
  BY DEF ConsoleTypeOK, Job
<1>2. JobsMatch'
  BY DEF ConsoleTypeOK, JobsMatch
<1>3. LockedMasked'
  BY DEF ConsoleTypeOK, JobsMatch, LockedMasked, Writing
<1>4. WritersHold'
  BY DEF ConsoleTypeOK, JobsMatch, WritersHold, Writing
<1>5. HoldersWrite'
  BY DEF ConsoleTypeOK, JobsMatch, LockedMasked, WritersHold, HoldersWrite, Writing
<1>6. WholeLines'
  BY DEF ConsoleTypeOK, JobsMatch, WritersHold, WholeLines, Writing
<1>7. SharedBefore'
  BY DEF ConsoleTypeOK, JobsMatch, SharedBefore
<1>8. OffReported'
  BY DEF ConsoleTypeOK, JobsMatch, SharedBefore, OffReported
<1>9. OffAfterReport'
  BY DEF ConsoleTypeOK, OffReported, OffAfterReport
<1> QED
  BY <1>1, <1>2, <1>3, <1>4, <1>5, <1>6, <1>7, <1>8, <1>9

(***************************************************************************)
(* logger::init preserves the invariant.                                   *)
(***************************************************************************)
LEMMA InitLoggerKeeps ==
    ASSUME ConsoleInv, machine = "on", NEW c \in Cores, InitLogger(c), UNCHANGED machine
    PROVE  ConsoleInv'
<1> USE ConsoleAssumption
<1> USE DEF ConsoleInv, InitLogger, InCode, corevars, execvars
<1>1. ConsoleTypeOK'
  BY DEF ConsoleTypeOK, Job
<1>2. JobsMatch'
  BY DEF ConsoleTypeOK, JobsMatch
<1>3. LockedMasked'
  BY DEF ConsoleTypeOK, JobsMatch, LockedMasked, Writing
<1>4. WritersHold'
  BY DEF ConsoleTypeOK, JobsMatch, WritersHold, Writing
<1>5. HoldersWrite'
  BY DEF ConsoleTypeOK, JobsMatch, LockedMasked, WritersHold, HoldersWrite, Writing
<1>6. WholeLines'
  BY DEF ConsoleTypeOK, JobsMatch, WritersHold, WholeLines, Writing
<1>7. SharedBefore'
  BY DEF ConsoleTypeOK, JobsMatch, SharedBefore
<1>8. OffReported'
  BY DEF ConsoleTypeOK, JobsMatch, SharedBefore, OffReported
<1>9. OffAfterReport'
  BY DEF ConsoleTypeOK, OffReported, OffAfterReport
<1> QED
  BY <1>1, <1>2, <1>3, <1>4, <1>5, <1>6, <1>7, <1>8, <1>9

(***************************************************************************)
(* Entering the payload preserves the invariant.                           *)
(***************************************************************************)
LEMMA EnterPayloadKeeps ==
    ASSUME ConsoleInv, machine = "on", NEW c \in Cores, EnterPayload(c), UNCHANGED machine
    PROVE  ConsoleInv'
<1> USE ConsoleAssumption
<1> USE DEF ConsoleInv, EnterPayload, InCode, corevars, execvars
<1>1. ConsoleTypeOK'
  BY DEF ConsoleTypeOK, Job
<1>2. JobsMatch'
  BY DEF ConsoleTypeOK, JobsMatch
<1>3. LockedMasked'
  BY DEF ConsoleTypeOK, JobsMatch, LockedMasked, Writing
<1>4. WritersHold'
  BY DEF ConsoleTypeOK, JobsMatch, WritersHold, Writing
<1>5. HoldersWrite'
  BY DEF ConsoleTypeOK, JobsMatch, LockedMasked, WritersHold, HoldersWrite, Writing
<1>6. WholeLines'
  BY DEF ConsoleTypeOK, JobsMatch, WritersHold, WholeLines, Writing
<1>7. SharedBefore'
  BY DEF ConsoleTypeOK, JobsMatch, SharedBefore
<1>8. OffReported'
  BY DEF ConsoleTypeOK, JobsMatch, SharedBefore, OffReported
<1>9. OffAfterReport'
  BY DEF ConsoleTypeOK, OffReported, OffAfterReport
<1> QED
  BY <1>1, <1>2, <1>3, <1>4, <1>5, <1>6, <1>7, <1>8, <1>9

(***************************************************************************)
(* Starting another core preserves the invariant.                          *)
(***************************************************************************)
LEMMA StartKeeps ==
    ASSUME ConsoleInv, machine = "on", NEW c \in Cores, Start(c), UNCHANGED machine
    PROVE  ConsoleInv'
<1> USE ConsoleAssumption
<1> USE DEF ConsoleInv, Start, InCode, corevars, execvars
<1>1. ConsoleTypeOK'
  BY DEF ConsoleTypeOK, Job
<1>2. JobsMatch'
  BY DEF ConsoleTypeOK, JobsMatch
<1>3. LockedMasked'
  BY DEF ConsoleTypeOK, JobsMatch, LockedMasked, Writing
<1>4. WritersHold'
  BY DEF ConsoleTypeOK, JobsMatch, WritersHold, Writing
<1>5. HoldersWrite'
  BY DEF ConsoleTypeOK, JobsMatch, LockedMasked, WritersHold, HoldersWrite, Writing
<1>6. WholeLines'
  BY DEF ConsoleTypeOK, JobsMatch, WritersHold, WholeLines, Writing
<1>7. SharedBefore'
  BY DEF ConsoleTypeOK, JobsMatch, SharedBefore
<1>8. OffReported'
  BY DEF ConsoleTypeOK, JobsMatch, SharedBefore, OffReported
<1>9. OffAfterReport'
  BY DEF ConsoleTypeOK, OffReported, OffAfterReport
<1> QED
  BY <1>1, <1>2, <1>3, <1>4, <1>5, <1>6, <1>7, <1>8, <1>9

(***************************************************************************)
(* A trap of the guest preserves the invariant.                            *)
(***************************************************************************)
LEMMA TrapKeeps ==
    ASSUME ConsoleInv, machine = "on", NEW c \in Cores, Trap(c), UNCHANGED machine
    PROVE  ConsoleInv'
<1> USE ConsoleAssumption
<1> USE DEF ConsoleInv, Trap, InCode, corevars, execvars
<1>1. ConsoleTypeOK'
  BY DEF ConsoleTypeOK, Job
<1>2. JobsMatch'
  BY DEF ConsoleTypeOK, JobsMatch
<1>3. LockedMasked'
  BY DEF ConsoleTypeOK, JobsMatch, LockedMasked, Writing
<1>4. WritersHold'
  BY DEF ConsoleTypeOK, JobsMatch, WritersHold, Writing
<1>5. HoldersWrite'
  BY DEF ConsoleTypeOK, JobsMatch, LockedMasked, WritersHold, HoldersWrite, Writing
<1>6. WholeLines'
  BY DEF ConsoleTypeOK, JobsMatch, WritersHold, WholeLines, Writing
<1>7. SharedBefore'
  BY DEF ConsoleTypeOK, JobsMatch, SharedBefore
<1>8. OffReported'
  BY DEF ConsoleTypeOK, JobsMatch, SharedBefore, OffReported
<1>9. OffAfterReport'
  BY DEF ConsoleTypeOK, OffReported, OffAfterReport
<1> QED
  BY <1>1, <1>2, <1>3, <1>4, <1>5, <1>6, <1>7, <1>8, <1>9

(***************************************************************************)
(* Resuming the guest preserves the invariant.                             *)
(***************************************************************************)
LEMMA ResumeKeeps ==
    ASSUME ConsoleInv, machine = "on", NEW c \in Cores, Resume(c), UNCHANGED machine
    PROVE  ConsoleInv'
<1> USE ConsoleAssumption
<1> USE DEF ConsoleInv, Resume, InCode, corevars, execvars
<1>1. ConsoleTypeOK'
  BY DEF ConsoleTypeOK, Job
<1>2. JobsMatch'
  BY DEF ConsoleTypeOK, JobsMatch
<1>3. LockedMasked'
  BY DEF ConsoleTypeOK, JobsMatch, LockedMasked, Writing
<1>4. WritersHold'
  BY DEF ConsoleTypeOK, JobsMatch, WritersHold, Writing
<1>5. HoldersWrite'
  BY DEF ConsoleTypeOK, JobsMatch, LockedMasked, WritersHold, HoldersWrite, Writing
<1>6. WholeLines'
  BY DEF ConsoleTypeOK, JobsMatch, WritersHold, WholeLines, Writing
<1>7. SharedBefore'
  BY DEF ConsoleTypeOK, JobsMatch, SharedBefore
<1>8. OffReported'
  BY DEF ConsoleTypeOK, JobsMatch, SharedBefore, OffReported
<1>9. OffAfterReport'
  BY DEF ConsoleTypeOK, OffReported, OffAfterReport
<1> QED
  BY <1>1, <1>2, <1>3, <1>4, <1>5, <1>6, <1>7, <1>8, <1>9

(***************************************************************************)
(* A call of log() preserves the invariant.                                *)
(***************************************************************************)
LEMMA LogKeeps ==
    ASSUME ConsoleInv, machine = "on", NEW c \in Cores, NEW level \in {Info, Debug}, Log(c, level), UNCHANGED machine
    PROVE  ConsoleInv'
<1> USE ConsoleAssumption
<1> USE DEF ConsoleInv, InCode, corevars, execvars, Log, CallLog, EnterExceptionFree, Info, Debug
<1>1. ConsoleTypeOK'
  <2>1. saved' \in [Cores -> BOOLEAN] /\ CONSOLE' \in BOOLEAN
    <3>1. /\ saved \in [Cores -> BOOLEAN] /\ CONSOLE \in BOOLEAN /\ CONSOLE' = CONSOLE
          /\ saved' = saved \/ saved' = [saved EXCEPT ![c] = (c \in masked)]
      BY DEF ConsoleTypeOK
    <3> QED
      BY <3>1, RecordMembership
  <2>2. /\ masked' \subseteq Cores /\ failed' \subseteq Cores
        /\ cut' \subseteq Cores /\ reported' \subseteq Cores
    <3>1. masked' \subseteq Cores
      <4>1. masked' \subseteq masked \cup {c}
        OBVIOUS
      <4> QED
        BY <4>1 DEF ConsoleTypeOK
    <3>2. failed' = failed \/ failed' = failed \cup {c}
      OBVIOUS
    <3>3. reported' = reported /\ (cut' = cut \/ cut' = cut \cup {c})
      OBVIOUS
    <3> QED
      BY <3>1, <3>2, <3>3 DEF ConsoleTypeOK
  <2>3. job' \in [Cores -> Job]
    BY DEF ConsoleTypeOK, Job
  <2>4. pc' \in [Cores -> {"run", "enter", "lock", "write", "rest", "unlock", "off"}]
    BY DEF ConsoleTypeOK
  <2>5. records' \in 0 .. RECORDS
    BY DEF ConsoleTypeOK
  <2>6. /\ phase' = phase /\ lock' \in {lock, None} /\ last' = last
        /\ max_level' = max_level /\ machine' = machine
    OBVIOUS
  <2> QED
    BY <2>1, <2>2, <2>3, <2>4, <2>5, <2>6 DEF ConsoleTypeOK
<1>2. JobsMatch'
  BY DEF ConsoleTypeOK, JobsMatch
<1>3. LockedMasked'
  BY DEF ConsoleTypeOK, JobsMatch, LockedMasked, Writing
<1>4. WritersHold'
  BY DEF ConsoleTypeOK, JobsMatch, WritersHold, Writing
<1>5. HoldersWrite'
  BY DEF ConsoleTypeOK, JobsMatch, LockedMasked, WritersHold, HoldersWrite, Writing
<1>6. WholeLines'
  BY DEF ConsoleTypeOK, JobsMatch, WritersHold, WholeLines, Writing
<1>7. SharedBefore'
  BY DEF ConsoleTypeOK, JobsMatch, SharedBefore
<1>8. OffReported'
  BY DEF ConsoleTypeOK, JobsMatch, SharedBefore, OffReported
<1>9. OffAfterReport'
  BY DEF ConsoleTypeOK, OffReported, OffAfterReport
<1> QED
  BY <1>1, <1>2, <1>3, <1>4, <1>5, <1>6, <1>7, <1>8, <1>9

(***************************************************************************)
(* A panic preserves the invariant.                                        *)
(***************************************************************************)
LEMMA PanicKeeps ==
    ASSUME ConsoleInv, machine = "on", NEW c \in Cores, Panic(c), UNCHANGED machine
    PROVE  ConsoleInv'
<1> USE ConsoleAssumption
<1> USE DEF ConsoleInv, Panic, InCode, corevars, execvars
<1>1. ConsoleTypeOK'
  BY DEF ConsoleTypeOK, Job
<1>2. JobsMatch'
  BY DEF ConsoleTypeOK, JobsMatch
<1>3. LockedMasked'
  BY DEF ConsoleTypeOK, JobsMatch, LockedMasked, Writing
<1>4. WritersHold'
  BY DEF ConsoleTypeOK, JobsMatch, WritersHold, Writing
<1>5. HoldersWrite'
  BY DEF ConsoleTypeOK, JobsMatch, LockedMasked, WritersHold, HoldersWrite, Writing
<1>6. WholeLines'
  BY DEF ConsoleTypeOK, JobsMatch, WritersHold, WholeLines, Writing
<1>7. SharedBefore'
  BY DEF ConsoleTypeOK, JobsMatch, SharedBefore
<1>8. OffReported'
  BY DEF ConsoleTypeOK, JobsMatch, SharedBefore, OffReported
<1>9. OffAfterReport'
  BY DEF ConsoleTypeOK, OffReported, OffAfterReport
<1> QED
  BY <1>1, <1>2, <1>3, <1>4, <1>5, <1>6, <1>7, <1>8, <1>9

(***************************************************************************)
(* An unexpected exception preserves the invariant.                        *)
(***************************************************************************)
LEMMA AsyncExceptionKeeps ==
    ASSUME ConsoleInv, machine = "on", NEW c \in Cores, AsyncException(c), UNCHANGED machine
    PROVE  ConsoleInv'
<1> USE ConsoleAssumption
<1> USE DEF ConsoleInv, AsyncException, InCode, corevars, execvars
<1>1. ConsoleTypeOK'
  BY DEF ConsoleTypeOK, Job
<1>2. JobsMatch'
  BY DEF ConsoleTypeOK, JobsMatch
<1>3. LockedMasked'
  BY DEF ConsoleTypeOK, JobsMatch, LockedMasked, Writing
<1>4. WritersHold'
  BY DEF ConsoleTypeOK, JobsMatch, WritersHold, Writing
<1>5. HoldersWrite'
  BY DEF ConsoleTypeOK, JobsMatch, LockedMasked, WritersHold, HoldersWrite, Writing
<1>6. WholeLines'
  BY DEF ConsoleTypeOK, JobsMatch, WritersHold, WholeLines, Writing
<1>7. SharedBefore'
  BY DEF ConsoleTypeOK, JobsMatch, SharedBefore
<1>8. OffReported'
  BY DEF ConsoleTypeOK, JobsMatch, SharedBefore, OffReported
<1>9. OffAfterReport'
  BY DEF ConsoleTypeOK, OffReported, OffAfterReport
<1> QED
  BY <1>1, <1>2, <1>3, <1>4, <1>5, <1>6, <1>7, <1>8, <1>9

(***************************************************************************)
(* Every step of the cores, and stuttering, preserves the invariant.       *)
(***************************************************************************)
LEMMA NextConsoleInv == ConsoleInv /\ [ConsoleNext]_vars => ConsoleInv'
<1> SUFFICES ASSUME ConsoleInv, [ConsoleNext]_vars PROVE ConsoleInv'
  OBVIOUS
<1>1. CASE UNCHANGED vars
  BY <1>1 DEF ConsoleInv, vars, corevars, execvars, ConsoleTypeOK, JobsMatch, LockedMasked,
     WritersHold, HoldersWrite, WholeLines, SharedBefore, OffReported, OffAfterReport
<1>2. ASSUME NEW c \in Cores, ConsoleStep(c) PROVE ConsoleInv'
  BY <1>2, EnterPanicKeeps, LockKeeps, WriteKeeps, WriteFailsKeeps, UnlockKeeps,
     SystemOffKeeps, SystemOffFailsKeeps DEF ConsoleStep
<1>3. ASSUME NEW c \in Cores, CodeStep(c) PROVE ConsoleInv'
  BY <1>3, ShareKeeps, InitLoggerKeeps, EnterPayloadKeeps, StartKeeps, TrapKeeps,
     ResumeKeeps, LogKeeps, PanicKeeps, AsyncExceptionKeeps DEF CodeStep
<1> QED
  BY <1>1, <1>2, <1>3 DEF ConsoleNext, Stopped

(***************************************************************************)
(* The invariant holds in every reachable state.                           *)
(***************************************************************************)
THEOREM ConsoleInvariant == ConsoleSpec => []ConsoleInv
<1> QED
  BY InitConsoleInv, NextConsoleInv, PTL DEF ConsoleSpec

\* Type correctness of the console and of its users.
THEOREM ConsoleTypeCorrect == ConsoleSpec => []ConsoleTypeOK
<1>1. ConsoleInv => ConsoleTypeOK
  BY DEF ConsoleInv
<1> QED
  BY <1>1, ConsoleInvariant, PTL

(***************************************************************************)
(* Lines of the console never mix, however many cores log and panic.       *)
(***************************************************************************)
THEOREM LinesAreWhole == ConsoleSpec => []WholeLines
<1>1. ConsoleInv => WholeLines
  BY DEF ConsoleInv
<1> QED
  BY <1>1, ConsoleInvariant, PTL

(***************************************************************************)
(* A core waits for itself only after its own log write failed.            *)
(***************************************************************************)
THEOREM NoSelfDeadlock == ConsoleSpec => []SelfDeadlockOnlyAfterFailure
<1>1. ConsoleInv => SelfDeadlockOnlyAfterFailure
  BY DEF ConsoleInv, HoldersWrite, Writing, SelfDeadlockOnlyAfterFailure
<1> QED
  BY <1>1, ConsoleInvariant, PTL

(***************************************************************************)
(* A core turns the machine off only after its whole report is on the      *)
(* shared console, unless a write of the report failed.                    *)
(***************************************************************************)
THEOREM ReportBeforeOff == ConsoleSpec => []OffAfterReport
<1>1. ConsoleInv => OffAfterReport
  BY DEF ConsoleInv
<1> QED
  BY <1>1, ConsoleInvariant, PTL

----------------------------------------------------------------------------
(* A panic only moves on *)

(***************************************************************************)
(* The places of a pass through the panic handler, in order.               *)
(***************************************************************************)
LEMMA PassOrder ==
    /\ PassLeft("enter") = 5 /\ PassLeft("lock") = 4 /\ PassLeft("write") = 3
    /\ PassLeft("rest") = 2 /\ PassLeft("unlock") = 1
    /\ PassLeft("off") = 0 /\ PassLeft("run") = 0
    /\ \A l : PassLeft(l) \in 0..5
BY DEF PassLeft

(***************************************************************************)
(* The part of PanicAdvances that is about one core.                       *)
(***************************************************************************)
PanicMovesOn(d) ==
    job[d] = "panic" =>
        /\ job'[d] = "panic"
        /\ \/ pc'[d] = pc[d] /\ StepsLeft(d)' = StepsLeft(d)
           \/ StepsLeft(d)' < StepsLeft(d)
           \/ pc[d] = "off" /\ "system_off" \in Failing /\ masked' = masked

(***************************************************************************)
(* A core that a step leaves where it is, with its exceptions as they are. *)
(***************************************************************************)
CoreStays(d) ==
    /\ job'[d] = job[d] /\ pc'[d] = pc[d] /\ saved'[d] = saved[d]
    /\ d \in masked' <=> d \in masked

(***************************************************************************)
(* Such a core has as many steps left as before.                           *)
(***************************************************************************)
LEMMA StaysMovesOn ==
    ASSUME NEW d \in Cores, CoreStays(d)
    PROVE  PanicMovesOn(d)
<1>1. pc'[d] = pc[d] /\ (Interruptible(d)' <=> Interruptible(d))
  BY Zenon DEF CoreStays, Interruptible
<1>2. StepsLeft(d)' = StepsLeft(d)
  BY <1>1 DEF StepsLeft
<1> QED
  BY <1>1, <1>2 DEF PanicMovesOn, CoreStays

(***************************************************************************)
(* A step of core c leaves every other core where it is.                   *)
(***************************************************************************)
LEMMA OthersStay ==
    ASSUME ConsoleTypeOK, NEW c \in Cores, NEW d \in Cores, d # c,
           pc' = pc \/ \E l : pc' = [pc EXCEPT ![c] = l],
           job' = job \/ \E j : job' = [job EXCEPT ![c] = j],
           saved' = saved \/ \E b : saved' = [saved EXCEPT ![c] = b],
           masked' \in {masked, masked \cup {c}, masked \ {c}}
    PROVE  PanicMovesOn(d)
<1>1. pc'[d] = pc[d] /\ job'[d] = job[d]
  BY DEF ConsoleTypeOK
<1>2. saved'[d] = saved[d]
  BY Zenon DEF ConsoleTypeOK
<1>3. d \in masked' <=> d \in masked
  OBVIOUS
<1> QED
  BY <1>1, <1>2, <1>3, StaysMovesOn DEF CoreStays

(***************************************************************************)
(* A panicking core that gets further in its pass, with exceptions as      *)
(* before, is nearer to its end.                                           *)
(***************************************************************************)
LEMMA FurtherMovesOn ==
    ASSUME NEW c \in Cores, Interruptible(c)' <=> Interruptible(c),
           job'[c] = job[c], PassLeft(pc'[c]) < PassLeft(pc[c])
    PROVE  PanicMovesOn(c)
<1>1. PassLeft(pc[c]) \in 0..5 /\ PassLeft(pc'[c]) \in 0..5
  BY PassOrder
<1>2. PassLeft(pc[c])' = PassLeft(pc'[c])
  BY DEF PassLeft
<1>3. StepsLeft(c)' < StepsLeft(c)
  BY <1>1, <1>2 DEF StepsLeft
<1> QED
  BY <1>3 DEF PanicMovesOn

(***************************************************************************)
(* What a core does in the panic handler brings it nearer to the end.      *)
(***************************************************************************)
LEMMA ConsoleStepMovesOn ==
    ASSUME ConsoleInv, NEW c \in Cores, ConsoleStep(c)
    PROVE  PanicMovesOn(c)
<1> SUFFICES ASSUME job[c] = "panic" PROVE PanicMovesOn(c)
  BY DEF PanicMovesOn
<1> USE DEF ConsoleInv
<1>0. ConsoleTypeOK /\ LockedMasked
  OBVIOUS
<1>1. CASE EnterPanic(c)
  <2>1. pc[c] = "enter" /\ job'[c] = job[c] /\ pc'[c] \in {"lock", "off"}
    BY <1>0, <1>1 DEF EnterPanic, ConsoleTypeOK
  <2>2. CASE CONSOLE
    <3>1. pc'[c] = "lock" /\ saved' = [saved EXCEPT ![c] = c \in masked]
      BY <1>0, <1>1, <2>2 DEF EnterPanic, EnterExceptionFree, ConsoleTypeOK
    <3>2. saved'[c] <=> c \in masked
      BY <1>0, <3>1, Zenon DEF ConsoleTypeOK
    <3>3. Interruptible(c)' <=> Interruptible(c)
      BY <2>1, <3>1, <3>2, Zenon DEF Interruptible
    <3> QED
      BY <2>1, <3>1, <3>3, PassOrder, FurtherMovesOn
  <2>3. CASE ~CONSOLE
    <3>1. pc'[c] = "off" /\ masked' = masked
      BY <1>0, <1>1, <2>3 DEF EnterPanic, ConsoleTypeOK
    <3>2. Interruptible(c)' <=> Interruptible(c)
      BY <2>1, <3>1 DEF Interruptible
    <3> QED
      BY <2>1, <3>1, <3>2, PassOrder, FurtherMovesOn
  <2> QED
    BY <2>2, <2>3
<1>2. CASE Lock(c) /\ lock = None
  <2>1. pc[c] = "lock" /\ pc'[c] = "write" /\ job'[c] = job[c] /\ saved' = saved
    BY <1>0, <1>2 DEF Lock, Acquire, ConsoleTypeOK
  <2>2. Interruptible(c)' <=> Interruptible(c)
    BY <2>1, Zenon DEF Interruptible
  <2> QED
    BY <2>1, <2>2, PassOrder, FurtherMovesOn
<1>3. CASE Lock(c) /\ lock # None
  BY <1>3, StaysMovesOn DEF Lock, Acquire, CoreStays
<1>4. CASE Write(c) \/ WriteFails(c)
  <2>1. /\ \/ pc[c] = "write" /\ pc'[c] \in {"rest", "unlock"}
           \/ pc[c] = "rest" /\ pc'[c] = "unlock"
        /\ job'[c] = job[c] /\ saved' = saved
    BY <1>0, <1>4 DEF Write, WriteFails, ConsoleTypeOK
  <2>2. Interruptible(c)' <=> Interruptible(c)
    BY <2>1, Zenon DEF Interruptible
  <2> QED
    BY <2>1, <2>2, PassOrder, FurtherMovesOn
<1>5. CASE Unlock(c)
  <2>1. /\ pc[c] = "unlock" /\ pc'[c] = "off" /\ job'[c] = job[c] /\ c \in masked
        /\ masked' = IF saved[c] THEN masked ELSE masked \ {c}
    BY <1>0, <1>5 DEF Unlock, LeaveExceptionFree, ConsoleTypeOK, LockedMasked, Writing
  <2>2. c \in masked' <=> saved[c]
    BY <2>1
  <2>3. Interruptible(c)' <=> Interruptible(c)
    BY <2>1, <2>2, Zenon DEF Interruptible
  <2> QED
    BY <2>1, <2>3, PassOrder, FurtherMovesOn
<1>6. CASE SystemOff(c)
  BY <1>6, StaysMovesOn DEF SystemOff, CoreStays, execvars
<1>7. CASE SystemOffFails(c)
  BY <1>7 DEF SystemOffFails, PanicMovesOn
<1> QED
  BY <1>1, <1>2, <1>3, <1>4, <1>5, <1>6, <1>7 DEF ConsoleStep

(***************************************************************************)
(* An exception starts the panic handler of its core again, and is the     *)
(* last one; what a core does in its own code concerns no panic.           *)
(***************************************************************************)
LEMMA CodeStepMovesOn ==
    ASSUME ConsoleInv, NEW c \in Cores, CodeStep(c)
    PROVE  PanicMovesOn(c)
<1> SUFFICES ASSUME job[c] = "panic" PROVE PanicMovesOn(c)
  BY DEF PanicMovesOn
<1>1. AsyncException(c)
  BY DEF CodeStep, InCode, Share, InitLogger, EnterPayload, Start, Trap, Resume, Log, Panic
<1>2. /\ c \notin masked /\ c \in masked'
      /\ pc'[c] = "enter" /\ job'[c] = "panic"
  BY <1>1 DEF AsyncException, ConsoleInv, ConsoleTypeOK
<1>3. pc[c] \notin {"lock", "write", "rest", "unlock"}
  BY <1>2 DEF ConsoleInv, LockedMasked, Writing
<1>4. Interruptible(c) /\ ~Interruptible(c)'
  BY <1>2, <1>3 DEF Interruptible
<1>5. PassLeft(pc[c]) \in 0..5 /\ PassLeft(pc'[c]) = 5
  BY <1>2, PassOrder
<1>6. PassLeft(pc[c])' = PassLeft(pc'[c])
  BY DEF PassLeft
<1>7. StepsLeft(c)' < StepsLeft(c)
  BY <1>4, <1>5, <1>6 DEF StepsLeft
<1> QED
  BY <1>2, <1>7 DEF PanicMovesOn

(***************************************************************************)
(* A panic is never given up and only moves on, for any number of cores    *)
(* and whatever the platform fails: a panicking core is at most eleven     *)
(* steps from turning the machine off, and starts again only if firmware   *)
(* refuses.                                                                *)
(***************************************************************************)
THEOREM PanicsMoveOn == ConsoleSpec => PanicAdvances
<1>1. ASSUME ConsoleInv, [ConsoleNext]_vars, NEW d \in Cores
      PROVE  PanicMovesOn(d)
  <2>1. CASE UNCHANGED vars \/ Stopped
    BY <2>1, StaysMovesOn DEF Stopped, vars, execvars, CoreStays
  <2>2. ASSUME NEW c \in Cores, ConsoleStep(c) \/ CodeStep(c)
        PROVE  PanicMovesOn(d)
    <3>1. CASE d = c
      BY <1>1, <2>2, <3>1, ConsoleStepMovesOn, CodeStepMovesOn
    <3>2. CASE d # c
      <4>1. pc' = pc \/ \E l : pc' = [pc EXCEPT ![c] = l]
        BY <2>2 DEF ConsoleStep, CodeStep, EnterPanic, Lock, Acquire, Write, WriteFails,
              Unlock, SystemOff, SystemOffFails, Share, InitLogger, EnterPayload, Start,
              Trap, Resume, Log, CallLog, Panic, AsyncException, execvars
      <4>2. job' = job \/ \E j : job' = [job EXCEPT ![c] = j]
        BY <2>2 DEF ConsoleStep, CodeStep, EnterPanic, Lock, Acquire, Write, WriteFails,
              Unlock, SystemOff, SystemOffFails, Share, InitLogger, EnterPayload, Start,
              Trap, Resume, Log, CallLog, Panic, AsyncException, execvars
      <4>3. saved' = saved \/ \E b : saved' = [saved EXCEPT ![c] = b]
        BY <2>2 DEF ConsoleStep, CodeStep, EnterPanic, Lock, Acquire, Write, WriteFails,
              Unlock, SystemOff, SystemOffFails, Share, InitLogger, EnterPayload, Start,
              Trap, Resume, Log, CallLog, Panic, AsyncException, execvars,
              EnterExceptionFree, LeaveExceptionFree
      <4>4. masked' \in {masked, masked \cup {c}, masked \ {c}}
        BY <2>2 DEF ConsoleStep, CodeStep, EnterPanic, Lock, Acquire, Write, WriteFails,
              Unlock, SystemOff, SystemOffFails, Share, InitLogger, EnterPayload, Start,
              Trap, Resume, Log, CallLog, Panic, AsyncException, execvars,
              EnterExceptionFree, LeaveExceptionFree
      <4> QED
        BY <1>1, <3>2, <4>1, <4>2, <4>3, <4>4, OthersStay DEF ConsoleInv
    <3> QED
      BY <3>1, <3>2
  <2> QED
    BY <1>1, <2>1, <2>2 DEF ConsoleNext
<1>2. ConsoleInv /\ [ConsoleNext]_vars =>
          [\A c \in Cores : job[c] = "panic" =>
              /\ job'[c] = "panic"
              /\ \/ pc'[c] = pc[c] /\ StepsLeft(c)' = StepsLeft(c)
                 \/ StepsLeft(c)' < StepsLeft(c)
                 \/ pc[c] = "off" /\ "system_off" \in Failing /\ masked' = masked]_vars
  BY <1>1 DEF PanicMovesOn
<1> QED
  BY <1>2, ConsoleInvariant, PTL DEF ConsoleSpec, PanicAdvances

=============================================================================

----------------------------- MODULE MCConsole -----------------------------
(***************************************************************************)
(* The console with three cores of which the boot core may start with      *)
(* exceptions unmasked.                                                    *)
(***************************************************************************)
EXTENDS Console

CONSTANTS c1, c2, c3

MCCores == {c1, c2, c3}
MCUnmasked == {c1}
MCFailing == {"log", "panic", "system_off"}

=============================================================================

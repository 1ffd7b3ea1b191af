---------------------------- MODULE MCPsciCores ----------------------------
(* Instances of PsciCores for TLC. *)
EXTENDS PsciCoresService

CONSTANTS c1, c2, c3, a1, a2, x1, x2

\* Two entry points that differ in both words, and a core that is not there.
MCEntryPoints == {[entry_point_address |-> a1, context_id |-> x1],
                  [entry_point_address |-> a2, context_id |-> x2]}

MCPayload == [entry_point_address |-> a1, context_id |-> x1]

=============================================================================

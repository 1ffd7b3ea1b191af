---------------------------- MODULE AccessPolicy ----------------------------
(***************************************************************************)
(* What the stage-2 configuration promises a platform: a request that is   *)
(* accepted gives exactly the pages of its range, none of which was in     *)
(* use, to the use it names; a request that is refused changes nothing;    *)
(* and once built the policy is fixed.                                     *)
(***************************************************************************)
EXTENDS Naturals

CONSTANTS
    Pages,      \* the pages of the guest's address space, by their addresses
    Requests,   \* what may be asked for: a range and its use
    Refusals,   \* the answers to a request that is refused
    Unused      \* a page whose accesses fault

VARIABLES
    policy,     \* the use of each page
    accepted,   \* the requests that were answered "Ok"
    answer,     \* to the last request
    sealed      \* the configuration is built

Init ==
    /\ policy = [p \in Pages |-> Unused]
    /\ accepted = {}
    /\ answer = "Ok"
    /\ sealed = FALSE

PagesOf(request) == {p \in Pages : request.base <= p /\ p < request.end}

\* The pages of the range, and no others, get the use.
Grant(request) ==
    /\ ~sealed
    /\ answer' = "Ok"
    /\ accepted' = accepted \cup {request}
    /\ PagesOf(request) # {}
    /\ \A p \in PagesOf(request) : policy[p] = Unused
    /\ policy' = [p \in Pages |-> IF p \in PagesOf(request) THEN request.use ELSE policy[p]]
    /\ UNCHANGED sealed

Refuse ==
    /\ ~sealed
    /\ answer' \in Refusals
    /\ UNCHANGED <<policy, accepted, sealed>>

Seal == ~sealed /\ sealed' = TRUE /\ UNCHANGED <<policy, accepted, answer>>

Next ==
    \/ Refuse
    \/ Seal
    \/ \E request \in Requests : Grant(request)

Spec == Init /\ [][Next]_<<policy, accepted, answer, sealed>>

=============================================================================

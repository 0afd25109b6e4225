---------------------------- MODULE MCLifecycle -----------------------------
(* Two requests and three versions of one module; and the gate they pass   *)
(* in detail.  The two share no state: a behaviour is of one or the other. *)
EXTENDS Lifecycle, HealthGate

CONSTANTS c1, c2, v1, v2, v3

MCRequests == {c1, c2}
MCVersions == {v1, v2, v3}

\* The bound of this instance: a behaviour has failed marker writes or versions
\* installed over themselves, not both.
MCOneKind == ~(lost /\ overwrote)

MCInit == Init /\ GateInit
MCNext ==
    \/ GateInit /\ Next /\ MCOneKind' /\ UNCHANGED gateVars
    \/ Init /\ GateNext /\ UNCHANGED vars
MCFairSpec == MCInit /\ [][MCNext]_<<vars, gateVars>> /\ Fairness
=============================================================================

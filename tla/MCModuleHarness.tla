-------------------------- MODULE MCModuleHarness ---------------------------
(* The module runtime under core, and the harness that stands in for core  *)
(* in a module's tests. They share no state: a behaviour is of one part.   *)
EXTENDS MCModuleSDK, StubCore, StubHost

MCLines == {[ok |-> TRUE, protocol |-> 1], [ok |-> TRUE, protocol |-> 2],
            [ok |-> FALSE, protocol |-> 0]}
MCWindow == [min |-> 1, max |-> 1]
MCStubTopics == {<<"m", "a">>, <<"n", "a">>}
MCStubPatterns == {{<<"m", "a">>}, {<<"m", Star>>, <<"n", "a">>}, {<<Star>>}}

MCInit == Init /\ StubInit /\ PolicyInit /\ EventsInit

MCNext ==
    \/ StubInit /\ PolicyInit /\ EventsInit /\ Next /\ UNCHANGED <<stubVars, policyVars, eventVars>>
    \/ Init /\ PolicyInit /\ EventsInit /\ StubNext /\ UNCHANGED <<vars, policyVars, eventVars>>
    \/ Init /\ StubInit /\ EventsInit /\ PolicyNext /\ UNCHANGED <<vars, stubVars, eventVars>>
    \/ Init /\ StubInit /\ PolicyInit /\ EventsNext /\ UNCHANGED <<vars, stubVars, policyVars>>

MCFairSpec == MCInit /\ [][MCNext]_<<vars, stubVars, policyVars, eventVars>> /\ Fairness
=============================================================================

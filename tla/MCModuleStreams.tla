-------------------------- MODULE MCModuleStreams ---------------------------
(* The streams core keeps open to a module, and the one a module logs on.  *)
(* They share no state: a behaviour is of one or of the other.             *)
EXTENDS MCHostStreams, LogStream

\* The log is explored beside one initial state of the streams.
MCAside == Init /\ \A s \in Subs : allow[s] = {<<Star>>}

MCInit == Init /\ LogInit
MCNext ==
    \/ LogInit /\ Next /\ UNCHANGED logVars
    \/ MCAside /\ LogNext /\ UNCHANGED vars

MCFairSpec == MCInit /\ [][MCNext]_<<vars, logVars>> /\ Fairness
=============================================================================

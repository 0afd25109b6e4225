----------------------------- MODULE MCGoverned -----------------------------
(* Core's services, and a module that policy governs.  The interface       *)
(* between them is the policy stream, which module Sysinfo has its own     *)
(* view of: a behaviour is of one or of the other.                         *)
EXTENDS MCServices, Sysinfo

\* The services are explored beside one initial state of the module.
MCAside == InfoInit /\ cfg = 0 /\ policy = NoData
\* And the module beside one of the services.
MCIdle == ServicesInit /\ keyFile = Absent /\ config.url = "none"

MCInit == (ServicesInit /\ MCAside) \/ (MCIdle /\ InfoInit)
MCNext ==
    \/ MCAside /\ ServicesNext /\ UNCHANGED infoVars
    \/ MCIdle /\ InfoNext /\ UNCHANGED servicesVars

\* The fairness of Services.
MCFairSpec ==
    /\ MCInit /\ [][MCNext]_<<servicesVars, infoVars>>
    /\ WF_servicesVars(MCAside /\ Starting /\ UNCHANGED infoVars)
    /\ WF_servicesVars(MCAside /\ (PollPolicy \/ CachePolicy) /\ UNCHANGED infoVars)
    /\ \A m \in Modules : WF_servicesVars(MCAside /\ WatchPolicy(m) /\ UNCHANGED infoVars)
=============================================================================

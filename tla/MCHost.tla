------------------------------- MODULE MCHost -------------------------------
(* The two ends of core's life on a host: weaveboot, which boots it, and   *)
(* the channel to the hypervisor.  They share no state: a behaviour is of  *)
(* one or of the other.                                                    *)
EXTENDS Weaveboot, Hypervisor

\* Two core versions for the loop of Run, three stagings.
MCVersions == 1..2

\* One VM key and one other.
MCKeys == {"vm", "other"}

VARIABLE part       \* the part this behaviour is of

\* The hypervisor's channel waits with a host whose key is not the VM's.
HvIdle == Init /\ hostKey = "other" /\ trusted = VMKey /\ stored = 0

MCInit ==
    /\ BootInit
    /\ \/ part = "weaveboot" /\ HvIdle
       \/ part = "hypervisor" /\ verifier /\ Init

\* Only the hypervisor's channel may stop.
MCNext ==
    /\ UNCHANGED part
    /\ \/ part = "weaveboot" /\ BootNext /\ UNCHANGED vars
       \/ part = "hypervisor" /\ Next /\ UNCHANGED bootVars
       \/ part = "hypervisor" /\ ~ENABLED Next /\ UNCHANGED <<bootVars, vars>>

\* BootFairness and Fairness, each in the behaviours of its part.
InBoot(A) == part = "weaveboot" /\ A
InHv(A) == part = "hypervisor" /\ A

MCFairSpec ==
    /\ MCInit /\ [][MCNext]_<<part, bootVars, vars>>
    /\ WF_bootVars(InBoot(PromoteStep \/ RunStep))
    /\ WF_bootVars(InBoot(BitsOf(runningCore) = "bad" /\ CoreExits))
    /\ WF_vars(InHv(Loop)) /\ WF_vars(InHv(Sender))
    /\ SF_vars(InHv(HostBegins /\ Quiet)) /\ SF_vars(InHv(HostSigns)) /\ WF_vars(InHv(HostReads))
    /\ WF_vars(InHv(HostTimesOut /\ Quiet))
    /\ SF_vars(InHv(HostAsks /\ in' = Append(in, Frame("op"))))
=============================================================================

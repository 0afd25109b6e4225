----------------------------- MODULE MCServices -----------------------------
(* Two modules, one of them with a policy stream of interest; a release    *)
(* build with the pinned key, one without, and a dev build without it.     *)
EXTENDS Services

MCConfigs ==
    {[url |-> "https", pinned |-> TRUE, insecure |-> FALSE],
     [url |-> "https", pinned |-> FALSE, insecure |-> FALSE],
     [url |-> "http", pinned |-> FALSE, insecure |-> TRUE],
     [url |-> "none", pinned |-> TRUE, insecure |-> FALSE]}
MCModules == {"m1", "m2"}
MCPlace(m) == <<m, "key">>
MCPolicyPlace == <<"core.policy", "document">>
MCIdentityPlace == <<"core.identity", "state">>
MCPlaces == {MCPolicyPlace, MCIdentityPlace} \cup {MCPlace(m) : m \in MCModules}
=============================================================================

---------------------------- MODULE MCHostStreams ---------------------------
(* Module b publishes; module a has the subscriptions and the receivers    *)
(* that the configuration lists.                                           *)
EXTENDS HostStreams

MCTopics == {<<"b", "x">>, <<"b", "y">>}
MCRequests == {{<<"b", "x">>}, {<<"b", Star>>}, {<<Star>>}, {<<"b", "x">>, <<"b", "y">>}}
MCAllowLists == {{<<"b", "x">>}, {<<"b", Star>>}, {<<Star>>}}
MCOwner(s) == "a"
=============================================================================

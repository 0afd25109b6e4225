----------------------------- MODULE MCRelease ------------------------------
(* How the agent gets onto a host and is run there: the apt repository,    *)
(* the signed channel, weaveboot's choice among the staged cores, the      *)
(* supervisor, and the launches of one module in detail.  They share no    *)
(* state: a behaviour is of one of the five.                               *)
EXTENDS MCSupervisor, Launch, MCChannel, Aptrepo, Semver

MCManifests == {[session |-> s, privilege |-> p] :
                  s \in {"system", "per-user-console"}, p \in {"system", "service", "user"}}

\* Good lines, with and without more to follow; the old name of the pipe; a
\* protocol outside the window; fields missing; a flood without an end.
Good == Format("1", "unix", "sock")
MCOutputs == {Append(Good, EOL), Append(Good, EOL) \o <<"x", EOL>>,
              Append(Format("1", "winpipe", "pipe"), EOL), Append(Format("2", "unix", "sock"), EOL),
              Append(Format("0", "unix", "sock"), EOL), Append(Format("1", "unix", ""), EOL),
              <<"x", EOL>> \o Good, <<"x", "x", "x", "x", "x", "x", "x">>}
MCProcesses == {"p1", "p2"}
MCTokens == {"t1", "t2"}
MCWindow == [min |-> 1, max |-> 1]

\* Names on which text and number order differ; in byte order "0", "10",
\* "10-rc", "2", "9".
Zero == [num |-> 0, rank |-> 1]
Ten == [num |-> 10, rank |-> 2]
TenRC == [num |-> NaN, rank |-> 3]
Two == [num |-> 2, rank |-> 4]
Nine == [num |-> 9, rank |-> 5]
MCNames == {<<Nine>>, <<Nine, Two>>, <<Nine, Ten>>, <<Ten, Zero>>, <<Ten, Zero, Two>>, <<TenRC, Zero>>}

VARIABLE part       \* the part this behaviour is of

\* The others wait in one of their initial states.
ProperlySigned == {signFile(c[1], c[2], c[3]) : c \in Proper}
ChannelIdle == ChannelInit /\ sigs = ProperlySigned
AptIdle == AptInit /\ ~inPlace /\ input = NoDebs
LaunchIdle == LaunchInit /\ mf.session = "system" /\ mf.privilege = "system"
                         /\ euid = 0 /\ account = NoOne

MCInit ==
    /\ Init /\ ScanInit
    /\ \/ part \in {"supervisor", "scan"} /\ LaunchIdle /\ ChannelIdle /\ AptIdle
       \/ part = "launch" /\ LaunchInit /\ ChannelIdle /\ AptIdle
       \/ part = "channel" /\ LaunchIdle /\ ChannelInit /\ AptIdle
       \/ part = "apt" /\ LaunchIdle /\ ChannelIdle /\ AptInit

MCNext ==
    /\ UNCHANGED part
    /\ \/ part = "supervisor" /\ Next /\ UNCHANGED <<launchVars, channelVars, aptVars, scanVars>>
       \/ part = "launch" /\ LaunchNext /\ UNCHANGED <<vars, channelVars, aptVars, scanVars>>
       \/ part = "channel" /\ ChannelNext /\ UNCHANGED <<vars, launchVars, aptVars, scanVars>>
       \/ part = "apt" /\ AptNext /\ UNCHANGED <<vars, launchVars, channelVars, scanVars>>
       \/ part = "scan" /\ ScanNext /\ UNCHANGED <<vars, launchVars, channelVars, aptVars>>

MCSpec == MCInit /\ [][MCNext]_<<part, vars, launchVars, channelVars, aptVars, scanVars>>
=============================================================================

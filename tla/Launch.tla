------------------------------- MODULE Launch -------------------------------
(* One launch after the other of one module, in the detail that module     *)
(* Supervisor leaves out: the socket directory and the host socket with    *)
(* their owners, the credentials a service module is dropped to, the token *)
(* of the launch, the handshake line as it is written, and the processes   *)
(* an earlier launch left: killed and not awaited, children of such a one, *)
(* or orphans of a core that crashed.                                      *)
(*                                                                         *)
(* Processes that are gone are used again, and so are tokens that nobody   *)
(* holds, so launches are not bounded.  Core is not set-uid: its real and  *)
(* its effective uid are the same.  A line is the sequence of its fields,  *)
(* and what a process writes a sequence of fields and line ends.           *)
EXTENDS Naturals, Sequences

CONSTANTS
    Manifests,      \* [session, privilege]
    Outputs,        \* what a module's binary may write to stdout
    Window,         \* [min, max]: the protocols core accepts
    CoreUid,        \* core's own uid when it is not root
    Accounts,       \* uids the installer may give the service account
    NoOne,          \* no uid, no socket, no line
    MaxLine,        \* lineCapture.max, in fields
    Tokens,         \* the tokens launch may draw
    Processes       \* bound: processes of this module at the same time

Texts == Seq(STRING)
Uids == {0, CoreUid, NoOne} \cup Accounts
Endpoints == [token : Tokens, allowed : SUBSET Uids, owner : Uids]

\* An account of a service is not root's, and NoOne is nothing else.
ASSUME LaunchAssumption ==
    /\ Outputs \subseteq Texts /\ MaxLine \in Nat
    /\ CoreUid # 0 /\ 0 \notin Accounts
    /\ NoOne \notin {0, CoreUid} \cup Accounts
    /\ NoOne \notin Tokens \cup Processes /\ NoOne \notin Texts /\ NoOne \notin Endpoints

VARIABLES
    mf, euid,       \* the manifest, and core's uid
    account,        \* the service account's uid, or NoOne
    step,           \* where launch is; "idle" between launches
    launched,       \* the launch in hand, or NoOne
    dirOwner,       \* the owner of the socket directory, or NoOne
    host,           \* the host socket: [token, allowed, owner], or NoOne
    cred,           \* the uid the command will run as
    process,        \* a process: "up", "left" by its launch, or "gone"
    uid, env,       \* the uid it runs as, and the token in its environment
    stdout,         \* what the process launched has still to write
    buf, line,      \* lineCapture: its buffer, and the line it reported
    heard,          \* handshake.Parse's result
    \* history
    steady,         \* the account did not change while this launch was prepared
    said            \* everything the process would write

capture == <<stdout, buf, line, heard, said>>
sockets == <<dirOwner, host, cred>>
processes == <<process, uid, env>>
fixed == <<mf, euid>>
launchVars == <<fixed, account, step, launched, sockets, processes, capture,
                steady>>

LaunchInit ==
    /\ mf \in Manifests /\ euid \in {0, CoreUid}
    /\ account \in Accounts \cup {NoOne}
    /\ step = "idle" /\ launched = NoOne
    /\ dirOwner = NoOne /\ host = NoOne /\ cred = NoOne
    /\ process = [p \in Processes |-> "gone"]
    /\ uid = [p \in Processes |-> NoOne] /\ env = [p \in Processes |-> NoOne]
    /\ stdout = << >> /\ buf = << >> /\ line = NoOne /\ heard = NoOne
    /\ steady = TRUE /\ said = << >>

----------------------------------------------------------------------------
(* Credentials *)

\* dropCreds: an error, nothing to drop, or the uid to drop to.
dropFails ==
    \/ mf.session # "system"
    \/ /\ euid = 0
       /\ \/ mf.privilege \notin {"system", "service"}
          \/ mf.privilege = "service" /\ account = NoOne

drops == ~dropFails /\ euid = 0 /\ mf.privilege = "service"

\* authorizeModulePeer: root, core itself, and the uid dropped to.
authorizeModulePeer == {0, euid} \cup (IF drops THEN {account} ELSE {})

prepareSocketDir_NoChown == UNCHANGED <<dirOwner, host>>

\* prepareSocketDir: a dropped module gets the directory and the socket.
prepareSocketDir ==
    IF drops
    THEN dirOwner' = account /\ host' = [host EXCEPT !.owner = account]
    ELSE UNCHANGED <<dirOwner, host>>

\* applyPrivilege: the child's credential, or no child at all.
applyPrivilege == ~dropFails /\ cred' = (IF drops THEN account ELSE euid)

----------------------------------------------------------------------------
(* The handshake line *)

ParseUint == [s \in {"0", "1", "2"} |-> CASE s = "0" -> 0 [] s = "1" -> 1 [] s = "2" -> 2]

LineVersion == "1"

\* Line.Format
Format(protocol, network, addr) == <<"WEAVE", LineVersion, protocol, network, addr>>

\* The networks Parse accepts; the old name of the pipe is normalised.
Network(name) == IF name = "winpipe" THEN "npipe" ELSE name

WellFormed(fields) ==
    /\ Len(fields) = 5
    /\ fields[1] = "WEAVE" /\ fields[2] = LineVersion
    /\ fields[3] \in DOMAIN ParseUint /\ ParseUint[fields[3]] # 0
    /\ Network(fields[4]) \in {"unix", "npipe"}
    /\ fields[5] # ""

Parse(fields) ==
    [protocol |-> ParseUint[fields[3]], network |-> Network(fields[4]), addr |-> fields[5]]

EOL == "\n"

\* The first line of a text, or all of it.
FirstLine(text) ==
    LET ends == {i \in 1..Len(text) : text[i] = EOL}
    IN IF ends = {} THEN text
       ELSE SubSeq(text, 1, (CHOOSE i \in ends : \A j \in ends : i <= j) - 1)

Complete(text) == \E i \in 1..Len(text) : text[i] = EOL

Buffered_Last(chunk) == chunk

\* lineCapture appends what os/exec's copier hands it.
Buffered(chunk) == buf \o chunk

\* lineCapture.Write: the first line, or one too long, is reported once.
Write(n) ==
    /\ step = "line" /\ n \in 1..Len(stdout)
    /\ stdout' = SubSeq(stdout, n + 1, Len(stdout))
    /\ IF line # NoOne THEN UNCHANGED <<buf, line>>
       ELSE LET text == Buffered(SubSeq(stdout, 1, n))
            IN IF Complete(text) THEN line' = FirstLine(text) /\ buf' = << >>
               ELSE IF Len(text) > MaxLine THEN line' = << >> /\ buf' = << >>
               ELSE buf' = text /\ UNCHANGED line
    /\ UNCHANGED <<fixed, account, step, launched, sockets, processes, heard, said,
                   steady>>

----------------------------------------------------------------------------
(* launch *)

\* A process that is not gone has the token in its environment.
Held(token) == \E p \in Processes : env[p] = token

\* 16 random bytes: not a token that was drawn for a process still there.
Drawn(token) == ~Held(token)

\* The socket directory is made anew, core's own, and the token drawn; the
\* host services listen for the peers allowed at this moment.
ListenAuthorized(p, token) ==
    /\ step = "idle" /\ process[p] = "gone" /\ Drawn(token)
    /\ launched' = p
    /\ dirOwner' = euid
    /\ host' = [token |-> token, allowed |-> authorizeModulePeer, owner |-> euid]
    /\ steady' = TRUE
    /\ step' = "prepare"
    /\ UNCHANGED <<fixed, account, cred, processes, capture>>

Prepare ==
    /\ step = "prepare" /\ ~dropFails
    /\ prepareSocketDir
    /\ step' = "privilege"
    /\ UNCHANGED <<fixed, account, launched, cred, processes, capture, steady>>

Privilege ==
    /\ step = "privilege"
    /\ applyPrivilege
    /\ step' = "exec"
    /\ UNCHANGED <<fixed, account, launched, dirOwner, host, processes, capture, steady>>

\* moduleAddr: the module creates its own socket in the directory it was
\* given, which is its owner's alone.
MayListen(u) == u \in {0, dirOwner}

\* A listener makes its socket its owner's alone, too.
MayConnect(u) == u \in {0, dirOwner} /\ u \in {0, host.owner}

\* cmd.Start; the process, if it can listen, answers with a line.
Exec ==
    /\ step = "exec"
    /\ step' = "line"
    /\ process' = [process EXCEPT ![launched] = "up"]
    /\ uid' = [uid EXCEPT ![launched] = cred]
    /\ env' = [env EXCEPT ![launched] = host.token]
    /\ said' \in (IF MayListen(cred) THEN Outputs ELSE {<< >>})
    /\ stdout' = said'
    /\ UNCHANGED <<fixed, account, launched, sockets, buf, line, heard, steady>>

Contains(protocol) == protocol >= Window.min /\ protocol <= Window.max

\* Parse succeeds and core's window contains the protocol.
Accepted(l) == WellFormed(l) /\ Contains(Parse(l).protocol)

\* The dialler of this platform; the error comes with the first call.
Dials(network) == network = "unix"

Answer ==
    /\ step = "line" /\ line # NoOne /\ Accepted(line)
    /\ heard' = Parse(line)
    /\ step' = "init"
    /\ UNCHANGED <<fixed, account, launched, sockets, processes, stdout, buf, line, said,
                   steady>>

\* Init and Start over the connection.
InitAndStart ==
    /\ step = "init" /\ Dials(heard.network)
    /\ step' = "started"
    /\ UNCHANGED <<fixed, account, launched, sockets, processes, capture, steady>>

\* hostSrv.Stop; nothing of the launch is left but, perhaps, its process.
Abandon ==
    /\ step' = "idle" /\ launched' = NoOne
    /\ host' = NoOne /\ cred' = NoOne
    /\ stdout' = << >> /\ buf' = << >> /\ line' = NoOne /\ heard' = NoOne /\ said' = << >>
    /\ UNCHANGED <<fixed, account, steady>>

\* fail: a step before the process fails, dropCreds' error among them.
NotLaunched ==
    /\ step \in {"prepare", "privilege", "exec"}
    /\ Abandon
    /\ UNCHANGED <<dirOwner, processes>>

\* cleanupProc, which kills and does not wait: the line is refused or late,
\* Init or Start fails, or the launch is cancelled.
cleanupProc ==
    /\ step \in {"line", "init"}
    /\ process' = [process EXCEPT ![launched] = "left"]
    /\ Abandon
    /\ UNCHANGED <<dirOwner, uid, env>>

\* The process is seen to exit by itself, or stop and kill await its end.
Exited ==
    /\ step \in {"line", "init", "started"}
    /\ process' = [process EXCEPT ![launched] = "gone"]
    /\ uid' = [uid EXCEPT ![launched] = NoOne]
    /\ env' = [env EXCEPT ![launched] = NoOne]
    /\ Abandon
    /\ UNCHANGED dirOwner

\* Core crashes; the next one sweeps the socket directories before it adds
\* a module (SweepOrphans), and leaves the process to itself.
SweepOrphans ==
    /\ step # "idle"
    /\ process' = [p \in Processes |-> IF process[p] = "up" THEN "left" ELSE process[p]]
    /\ dirOwner' = NoOne
    /\ Abandon
    /\ UNCHANGED <<uid, env>>

\* A process that was left behind goes.
Reap(p) ==
    /\ process[p] = "left"
    /\ process' = [process EXCEPT ![p] = "gone"]
    /\ uid' = [uid EXCEPT ![p] = NoOne]
    /\ env' = [env EXCEPT ![p] = NoOne]
    /\ UNCHANGED <<fixed, account, step, launched, sockets, capture, steady>>

----------------------------------------------------------------------------
(* The host socket *)

\* The uid the kernel gives for the other end.
peerCred(p) == uid[p]

\* authListener.Accept hands on the connections of the peers allowed.
Accept(p) == MayConnect(uid[p]) /\ peerCred(p) \in host.allowed

\* tokenGate: the token in the metadata of every call is this launch's.
tokenGate(p) == env[p] = host.token

\* The host services answer a process that calls, or redials, the host
\* address: that of this launch, or one left behind.
Answered(p) == Accept(p) /\ tokenGate(p)

\* The installer creates, removes or recreates the service account.
ChangeAccount ==
    /\ account' \in (Accounts \cup {NoOne}) \ {account}
    /\ steady' = (steady /\ step \notin {"prepare", "privilege"})
    /\ UNCHANGED <<fixed, step, launched, sockets, processes, capture>>

LaunchNext ==
    \/ Prepare \/ Privilege \/ Exec \/ Answer \/ InitAndStart
    \/ NotLaunched \/ cleanupProc \/ Exited \/ SweepOrphans \/ ChangeAccount
    \/ \E n \in 1..Len(stdout) : Write(n)
    \/ \E p \in Processes : Reap(p) \/ \E token \in Tokens : ListenAuthorized(p, token)

LaunchSpec == LaunchInit /\ [][LaunchNext]_launchVars

----------------------------------------------------------------------------
(* Properties *)

\* The account is looked at three times during a launch, and may change or
\* disappear in between. A module not granted system privilege never runs as
\* root, nor does one that asks for a session core cannot place it in
\* (spawn_unix.go:35). The host services never answer a process that an earlier
\* launch left, which has the same uid and knows the same socket path
\* (launch.go:62, hostserv.go:138); and if the account did not change, the
\* process of this launch can create its socket and is answered
\* (spawn_unix.go:98: "without this chown a dropped module EACCESes").
RunsAsItsAccount ==
    /\ \A p \in Processes : uid[p] = 0 => mf.privilege = "system" /\ mf.session = "system"
    /\ host # NoOne => \A p \in Processes : process[p] = "left" => ~Answered(p)
    /\ step \in {"line", "init", "started"} /\ steady =>
          MayListen(uid[launched]) /\ Answered(launched)

\* The line core acts on is the first line the process wrote, however the
\* writes are cut up, and a good line within the cap is never refused
\* (launch.go:278).
LineIsFaithful ==
    /\ heard # NoOne => heard = Parse(FirstLine(said))
    /\ line # NoOne /\ ~Accepted(line) =>
          ~Accepted(FirstLine(said)) \/ Len(FirstLine(said)) > MaxLine
=============================================================================

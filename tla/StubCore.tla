------------------------------ MODULE StubCore ------------------------------
(* The harness module authors test with (sdk/modulesdk/testkit/            *)
(* stubcore.go): StubCore launches a module binary, performs core's side   *)
(* of the handshake and ends it.  The reader of the module's stdout is a   *)
(* goroutine of its own.                                                   *)
EXTENDS Naturals, Sequences

CONSTANTS
    StubLines,      \* first lines a module may print: [ok, protocol]
    StubWindow,     \* StubCore.Window
    ExitCodes,      \* a module's exit codes
    NoCode          \* ExitCode of a killed process

ExitProtocolUnsupported == 78

VARIABLES
    harness,        \* the caller: "idle", "select", "held", "waiting", "ending" or "over"
    outcome,        \* Launch returned: "none", "proc", "refused" or "error"
    hostServer,     \* "off", "up" or "stopped"
    child,          \* the process: "none", "running", "exited" or "killed"
    code,           \* its exit code
    stdout,         \* the line it printed, unless it is too long for the scanner
    reader,         \* the goroutine: "none", "scan", "drain", "wait" or "ended"
    lineCh, errCh

stubVars == <<harness, outcome, hostServer, child, code, stdout, reader, lineCh, errCh>>
process == <<child, code, stdout>>
channels == <<reader, lineCh, errCh>>

StubInit ==
    /\ harness = "idle" /\ outcome = "none" /\ hostServer = "off"
    /\ child = "none" /\ code = NoCode /\ stdout = << >>
    /\ reader = "none" /\ lineCh = << >> /\ errCh = FALSE

----------------------------------------------------------------------------
(* Launch *)

\* Nothing to listen on.
ListenFails ==
    /\ harness = "idle"
    /\ harness' = "over" /\ outcome' = "error"
    /\ UNCHANGED <<hostServer, process, channels>>

\* A pipe or the process cannot be had: the host server is stopped again.
SpawnFails ==
    /\ harness = "idle"
    /\ hostServer' = "stopped"
    /\ harness' = "over" /\ outcome' = "error"
    /\ UNCHANGED <<process, channels>>

Spawn ==
    /\ harness = "idle"
    /\ hostServer' = "up" /\ child' = "running" /\ reader' = "scan"
    /\ harness' = "select"
    /\ UNCHANGED <<outcome, code, stdout, lineCh, errCh>>

\* External: the module prints its one line, or exits.
ModulePrints(l) ==
    /\ child = "running" /\ reader = "scan" /\ stdout = << >>
    /\ stdout' = <<l>>
    /\ UNCHANGED <<harness, outcome, hostServer, child, code, channels>>

ModuleExits(c) ==
    /\ child = "running"
    /\ child' = "exited" /\ code' = c
    /\ UNCHANGED <<harness, outcome, hostServer, stdout, channels>>

\* The scanner has a line; the reader goes on to discard what follows.
Scan ==
    /\ reader = "scan" /\ stdout # << >>
    /\ lineCh' = stdout
    /\ reader' = "drain"
    /\ UNCHANGED <<harness, outcome, hostServer, process, errCh>>

Ended == child \in {"exited", "killed"}

\* After a line, reaping is left to the holder of the process.
AfterDrain == "ended"

DrainEnds ==
    /\ reader = "drain" /\ Ended
    /\ reader' = AfterDrain
    /\ UNCHANGED <<harness, outcome, hostServer, process, lineCh, errCh>>

\* No line: stdout has ended, the process with it or not, or its line is too long. The reader
\* waits for the process itself ...
ScanEnds ==
    /\ reader = "scan" /\ stdout = << >>
    /\ reader' = "wait"
    /\ UNCHANGED <<harness, outcome, hostServer, process, lineCh, errCh>>

\* ... and reaps it.
Reaped ==
    /\ reader = "wait" /\ Ended
    /\ reader' = "ended" /\ errCh' = TRUE
    /\ UNCHANGED <<harness, outcome, hostServer, process, lineCh>>

\* Process.Kill
KillProcess == child' = IF child = "running" THEN "killed" ELSE child

GiveUp_Alive ==
    /\ hostServer' = "stopped"
    /\ harness' = "over" /\ outcome' = "error"
    /\ UNCHANGED child

\* Every failure after the start kills the process and stops the host server.
GiveUp ==
    /\ KillProcess
    /\ hostServer' = "stopped"
    /\ harness' = "over" /\ outcome' = "error"

Contained(l) == l.ok /\ l.protocol >= StubWindow.min /\ l.protocol <= StubWindow.max

\* A line: parsed, in the window, and the client made - or given up.
TakeLine ==
    /\ harness = "select" /\ lineCh # << >>
    /\ \/ /\ Contained(lineCh[1])
          /\ harness' = "held" /\ outcome' = "proc"
          /\ UNCHANGED <<hostServer, child>>
       \/ GiveUp
    /\ lineCh' = << >>
    /\ UNCHANGED <<code, stdout, reader, errCh>>

\* The process state, which the reader's Wait has set.
Refused == child = "exited" /\ code = ExitProtocolUnsupported

TakeErr ==
    /\ harness = "select" /\ errCh
    /\ hostServer' = "stopped"
    /\ harness' = "over" /\ outcome' = IF Refused THEN "refused" ELSE "error"
    /\ UNCHANGED <<process, channels>>

\* The timeout, or the caller's context.
LaunchTimesOut ==
    /\ harness = "select"
    /\ GiveUp
    /\ UNCHANGED <<code, stdout, channels>>

----------------------------------------------------------------------------
(* Shutdown, WaitExit and Kill *)

\* Shutdown, once the module has answered, or WaitExit itself.
WaitExit ==
    /\ harness = "held"
    /\ harness' = "waiting"
    /\ UNCHANGED <<outcome, hostServer, process, channels>>

\* The context ends first: killed, and waited for all the same.
WaitCancelled ==
    /\ harness = "waiting"
    /\ KillProcess
    /\ harness' = "ending"
    /\ UNCHANGED <<outcome, hostServer, code, stdout, channels>>

\* Also after Shutdown: tests defer it.
Kill ==
    /\ harness = "held" \/ (harness = "over" /\ outcome = "proc")
    /\ KillProcess
    /\ harness' = "ending"
    /\ UNCHANGED <<outcome, hostServer, code, stdout, channels>>

\* Wait returns: connection and host server are closed.
Waited ==
    /\ harness \in {"waiting", "ending"} /\ Ended
    /\ hostServer' = "stopped" /\ harness' = "over"
    /\ UNCHANGED <<outcome, process, channels>>

StubNext ==
    \/ ListenFails \/ SpawnFails \/ Spawn
    \/ \E l \in StubLines : ModulePrints(l)
    \/ \E c \in ExitCodes : ModuleExits(c)
    \/ Scan \/ DrainEnds \/ ScanEnds \/ Reaped
    \/ TakeLine \/ TakeErr \/ LaunchTimesOut
    \/ WaitExit \/ WaitCancelled \/ Kill \/ Waited

StubSpec == StubInit /\ [][StubNext]_stubVars

----------------------------------------------------------------------------

\* The reader, the timeout, the holder and the exit of the module race for a launch; whichever
\* wins, when the harness is done no module process runs on and no host server stays up
\* (stubcore.go:62, 232), ErrProtocolRefused was reported only for a module that exited with 78
\* by itself and without answering (stubcore.go:42), and the reader and the holder were never in
\* cmd.Wait at once (stubcore.go:136, 217, 235).
HarnessSettles ==
    /\ harness = "over" => child # "running" /\ hostServer # "up"
    /\ outcome = "refused" => child = "exited" /\ code = 78 /\ stdout = << >>
    /\ ~(reader = "wait" /\ harness \in {"waiting", "ending"})

=============================================================================

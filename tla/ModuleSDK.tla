------------------------------ MODULE ModuleSDK -----------------------------
(* A module process: the runtime of sdk/modulesdk (Serve, moduleServer,    *)
(* hostClient) around the Module a product implements.  Core is the only   *)
(* client, but its calls overlap: one that timed out on core's side is     *)
(* still being handled here.                                               *)
EXTENDS Naturals, FiniteSets

CONSTANTS
    Protocol,       \* modulesdk.Protocol
    Windows,        \* windows the environment may advertise
    Calls,          \* RPCs core has outstanding at once
    Jobs,           \* what Scheduled.Jobs returns
    None,
    MaxFaults       \* bound: callbacks and streams that fail

Ops == {"Init", "Start", "Stop", "Shutdown", "Health"}

ASSUME ModuleSDKConstants ==
    /\ None \notin Calls /\ None \notin Ops /\ None \notin {0, 1, 78}
    /\ MaxFaults \in Nat

VARIABLES
    \* serve
    proc,           \* "boot", "serving", "draining", "winding" or "exited"
    exit,           \* the exit code
    shutdown, hostLost, sig,    \* the channels serve selects on
    \* moduleServer
    state, mu, op, pc,
    \* hostClient
    conn,           \* "none", "idle", "ready" or "failed"
    watching,       \* awaitDisconnect is running
    jobCancel,      \* non-nil
    ctxDone,        \* jobCtx is cancelled
    job,            \* a job: "none", "running", "waiting" or "done"
    watchdog,       \* the ping loop: "off", "down" or "up"
    started,
    surfaces,       \* declared: "during" or "after" m.Init
    \* core, and the failures left
    core, faults,
    \* history
    done,           \* the callbacks of the Module that succeeded
    reported        \* surfaces the InitResponse carried

serving == <<proc, exit, shutdown, hostLost, sig>>
server == <<state, mu, op, pc>>
schedule == <<jobCancel, ctxDone, job, watchdog, started>>
host == <<conn, watching, schedule, surfaces>>
history == <<done, reported>>
vars == <<serving, server, host, core, faults, history>>

Init ==
    /\ proc = "boot" /\ exit = None
    /\ shutdown = FALSE /\ hostLost = FALSE /\ sig = FALSE
    /\ state = "created" /\ mu = None
    /\ op = [c \in Calls |-> None] /\ pc = [c \in Calls |-> "idle"]
    /\ conn = "none" /\ watching = FALSE
    /\ jobCancel = FALSE /\ ctxDone = FALSE
    /\ job = [j \in Jobs |-> "none"] /\ watchdog = "off"
    /\ started = FALSE /\ surfaces = {}
    /\ core = "up" /\ faults = 0
    /\ done = {} /\ reported = {}

\* The process ends with a code, and its memory with it.
End(code) ==
    /\ proc' = "exited" /\ exit' = code
    /\ shutdown' = FALSE /\ hostLost' = FALSE /\ sig' = FALSE
    /\ state' = "created" /\ mu' = None
    /\ op' = [c \in Calls |-> None] /\ pc' = [c \in Calls |-> "idle"]
    /\ conn' = "none" /\ watching' = FALSE
    /\ jobCancel' = FALSE /\ ctxDone' = FALSE
    /\ job' = [j \in Jobs |-> "none"] /\ watchdog' = "off"
    /\ started' = FALSE /\ surfaces' = {}
    /\ done' = {} /\ reported' = {}
    /\ UNCHANGED core

Fault == faults < MaxFaults /\ faults' = faults + 1

----------------------------------------------------------------------------
(* serve *)

\* handshake.ParseWindow
ParseWindow(w) == w.min # 0 /\ w.max >= w.min

\* Window.Contains
WindowContains(w) == Protocol >= w.min /\ Protocol <= w.max

\* Negotiate, read the environment, listen, answer the handshake.
Boot(w, complete) ==
    /\ proc = "boot" /\ ParseWindow(w) /\ WindowContains(w) /\ complete
    /\ proc' = "serving"
    /\ UNCHANGED <<exit, shutdown, hostLost, sig, server, host, core, faults, history>>

\* A window that excludes Protocol exits 78, any other failure exits 1.
BootFails(w, complete) ==
    /\ proc = "boot" /\ ~(ParseWindow(w) /\ WindowContains(w) /\ complete)
    /\ End(IF ParseWindow(w) /\ ~WindowContains(w) THEN 78 ELSE 1)
    /\ UNCHANGED faults

Signal ==
    /\ proc = "serving" /\ ~sig /\ Fault
    /\ sig' = TRUE
    /\ UNCHANGED <<proc, exit, shutdown, hostLost, server, host, core, history>>

\* The select: GracefulStop begins, which accepts no further RPC.
Select ==
    /\ proc = "serving"
    /\ shutdown \/ hostLost \/ sig
    /\ proc' = "draining"
    /\ UNCHANGED <<exit, shutdown, hostLost, sig, server, host, core, faults, history>>

\* grpcServer.Serve failed: serve returns, the process exits 1 at once.
ServerFails ==
    /\ proc = "serving" /\ Fault
    /\ End(1)

\* GracefulStop waits for the handlers.
Drained == \A c \in Calls : pc[c] = "idle"

CancelJobs ==
    /\ jobCancel' = FALSE
    /\ ctxDone' = (ctxDone \/ jobCancel)

\* host.stopJobs, its first half.
WindDown ==
    /\ proc = "draining" /\ Drained
    /\ proc' = "winding"
    /\ CancelJobs
    /\ UNCHANGED <<exit, shutdown, hostLost, sig, server, conn, watching, job, watchdog,
                   started, surfaces, core, faults, history>>

Active(j) == job[j] \in {"running", "waiting"}

\* jobWG.Wait
JobsDone == watchdog = "off" /\ \A j \in Jobs : ~Active(j)

\* The rest of stopJobs, then host.Close and exit 0.
Exit ==
    /\ proc = "winding" /\ JobsDone
    /\ End(0)
    /\ UNCHANGED faults

----------------------------------------------------------------------------
(* moduleServer *)

Goto(c, label) == pc' = [pc EXCEPT ![c] = label]

\* The handler returns and unlocks.
Return(c) ==
    /\ mu' = None
    /\ Goto(c, "idle") /\ op' = [op EXCEPT ![c] = None]

Arrive(c, o) ==
    /\ core = "up" /\ proc = "serving" /\ pc[c] = "idle"
    /\ op' = [op EXCEPT ![c] = o]
    /\ Goto(c, IF o = "Health" THEN "health" ELSE "waiting")
    /\ UNCHANGED <<serving, state, mu, host, core, faults, history>>

\* Health takes no lock.
Health(c) ==
    /\ pc[c] = "health"
    /\ Goto(c, "idle") /\ op' = [op EXCEPT ![c] = None]
    /\ UNCHANGED <<serving, state, mu, host, core, faults, history>>

Lock_Ignored(c) == pc[c] = "waiting"

Lock(c) == pc[c] = "waiting" /\ mu = None

\* Init refuses: not the first, another id or protocol, a config or a
\* connection error.  The last two leave the state as it was.
InitRefused(c) ==
    /\ Lock(c) /\ op[c] = "Init"
    /\ \/ state # "created" /\ UNCHANGED faults
       \/ state = "created" /\ Fault
    /\ Return(c)
    /\ UNCHANGED <<serving, state, host, core, history>>

\* SetConfig, connectHost (which dials lazily), and into m.Init.
InitEnters(c) ==
    /\ Lock(c) /\ op[c] = "Init" /\ state = "created"
    /\ conn' = "idle"
    /\ surfaces' = {}
    /\ mu' = c /\ Goto(c, "m.Init")
    /\ UNCHANGED <<serving, state, op, watching, schedule, core, faults, history>>

Watch_Forgotten == UNCHANGED watching

\* go host.awaitDisconnect
Watch == watching' = TRUE

\* m.Init returned nil: jobs recorded, the connection watched, surfaces sent.
InitReturns(c) ==
    /\ pc[c] = "m.Init"
    /\ state' = "inited"
    /\ Watch
    /\ done' = done \cup {"Init"} /\ reported' = surfaces
    /\ Return(c)
    /\ UNCHANGED <<serving, conn, schedule, surfaces, core, faults>>

InitFails(c) ==
    /\ pc[c] = "m.Init" /\ Fault
    /\ conn' = "none"
    /\ Return(c)
    /\ UNCHANGED <<serving, state, watching, schedule, surfaces, core, history>>

StartRefused(c) ==
    /\ Lock(c) /\ op[c] = "Start" /\ state # "inited"
    /\ Return(c)
    /\ UNCHANGED <<serving, state, host, core, faults, history>>

StartEnters(c) ==
    /\ Lock(c) /\ op[c] = "Start" /\ state = "inited"
    /\ mu' = c /\ Goto(c, "m.Start")
    /\ UNCHANGED <<serving, state, op, host, core, faults, history>>

\* m.Start returned nil: startJobs, with the push watchdog core asked for.
StartReturns(c) ==
    /\ pc[c] = "m.Start"
    /\ jobCancel' = TRUE /\ ctxDone' = FALSE /\ started' = TRUE
    /\ job' = [j \in Jobs |-> "running"] /\ watchdog' = "down"
    /\ state' = "started"
    /\ done' = done \cup {"Start"}
    /\ Return(c)
    /\ UNCHANGED <<serving, conn, watching, surfaces, core, faults, reported>>

StartFails(c) ==
    /\ pc[c] = "m.Start" /\ Fault
    /\ Return(c)
    /\ UNCHANGED <<serving, state, host, core, history>>

\* Shutdown unlocks before it signals serve.
Stopped(c) ==
    /\ mu' = None
    /\ IF op[c] = "Shutdown"
       THEN Goto(c, "signal") /\ UNCHANGED op
       ELSE Goto(c, "idle") /\ op' = [op EXCEPT ![c] = None]

\* stopLocked with nothing to stop.
StopNothing(c) ==
    /\ Lock(c) /\ op[c] \in {"Stop", "Shutdown"} /\ state # "started"
    /\ state' = "stopped"
    /\ Stopped(c)
    /\ UNCHANGED <<serving, host, core, faults, history>>

\* stopLocked: stopJobs cancels, then waits holding the lock.
StopEnters(c) ==
    /\ Lock(c) /\ op[c] \in {"Stop", "Shutdown"} /\ state = "started"
    /\ CancelJobs
    /\ mu' = c /\ Goto(c, IF jobCancel THEN "stopJobs" ELSE "m.Stop")
    /\ UNCHANGED <<serving, state, op, conn, watching, job, watchdog, started, surfaces,
                   core, faults, history>>

StopWaited(c) ==
    /\ pc[c] = "stopJobs" /\ JobsDone
    /\ Goto(c, "m.Stop")
    /\ UNCHANGED <<serving, state, mu, op, host, core, faults, history>>

StopReturns(c) ==
    /\ pc[c] = "m.Stop"
    /\ state' = "stopped"
    /\ done' = done \cup {"Stop"}
    /\ Stopped(c)
    /\ UNCHANGED <<serving, host, core, faults, reported>>

\* m.Stop failed: still started, its jobs stopped; Shutdown does not signal.
StopFails(c) ==
    /\ pc[c] = "m.Stop" /\ Fault
    /\ Return(c)
    /\ UNCHANGED <<serving, state, host, core, history>>

\* The buffered channel takes one signal, a further one is dropped.
Notify == shutdown' = TRUE

Shutdown(c) ==
    /\ pc[c] = "signal"
    /\ Notify
    /\ Goto(c, "idle") /\ op' = [op EXCEPT ![c] = None]
    /\ UNCHANGED <<proc, exit, hostLost, sig, state, mu, host, core, faults, history>>

----------------------------------------------------------------------------
(* hostClient *)

\* uiBroker.Declare, by the module's own code: refused once started.
Declare ==
    /\ conn # "none" /\ ~started
    /\ LET when == IF \E c \in Calls : pc[c] = "m.Init" THEN "during" ELSE "after"
       IN when \notin surfaces /\ surfaces' = surfaces \cup {when}
    /\ UNCHANGED <<serving, server, conn, watching, schedule, core, faults, history>>

\* A job returns; a non-positive interval, or the cancelled context, ends it.
JobReturns(j) ==
    /\ job[j] = "running"
    /\ \E next \in {"waiting", "done"} : job' = [job EXCEPT ![j] = next]
    /\ UNCHANGED <<serving, server, conn, watching, jobCancel, ctxDone, watchdog, started,
                   surfaces, core, faults, history>>

\* The timer fires; with both ready, select takes either.
JobTicks(j) ==
    /\ job[j] = "waiting"
    /\ job' = [job EXCEPT ![j] = "running"]
    /\ UNCHANGED <<serving, server, conn, watching, jobCancel, ctxDone, watchdog, started,
                   surfaces, core, faults, history>>

JobCancelled(j) ==
    /\ job[j] = "waiting" /\ ctxDone
    /\ job' = [job EXCEPT ![j] = "done"]
    /\ UNCHANGED <<serving, server, conn, watching, jobCancel, ctxDone, watchdog, started,
                   surfaces, core, faults, history>>

\* A tick without a stream opens one.
Reopens == conn = "ready"

WatchdogTicks ==
    /\ watchdog = "down" /\ Reopens
    /\ watchdog' = "up"
    /\ UNCHANGED <<serving, server, conn, watching, jobCancel, ctxDone, job, started,
                   surfaces, core, faults, history>>

\* A ping fails: the stream is given up until the next tick.
WatchdogFails ==
    /\ watchdog = "up"
    /\ \/ conn # "ready" /\ UNCHANGED faults
       \/ conn = "ready" /\ Fault
    /\ watchdog' = "down"
    /\ UNCHANGED <<serving, server, conn, watching, jobCancel, ctxDone, job, started,
                   surfaces, core, history>>

WatchdogEnds ==
    /\ watchdog # "off" /\ ctxDone
    /\ watchdog' = "off"
    /\ UNCHANGED <<serving, server, conn, watching, jobCancel, ctxDone, job, started,
                   surfaces, core, faults, history>>

\* The connection drops, core alive or not.
ConnDrops ==
    /\ conn = "ready"
    /\ \/ core = "gone" /\ UNCHANGED faults
       \/ core = "up" /\ Fault
    /\ conn' = "idle"
    /\ UNCHANGED <<serving, server, watching, schedule, surfaces, core, history>>

\* An RPC of the module, awaitDisconnect's Connect, or gRPC's own retry. An attempt may fail
\* although core is there: its listener is slow, or the process is short of descriptors.
Connect ==
    /\ conn \in {"idle", "failed"}
    /\ \/ conn' = (IF core = "up" THEN "ready" ELSE "failed") /\ UNCHANGED faults
       \/ core = "up" /\ conn' = "failed" /\ Fault
    /\ UNCHANGED <<serving, server, watching, schedule, surfaces, core, history>>

\* TransientFailure: core is taken to be dead, whatever the failure came from.
Gone == conn = "failed"

awaitDisconnect ==
    /\ watching /\ Gone
    /\ hostLost' = TRUE /\ watching' = FALSE
    /\ UNCHANGED <<proc, exit, shutdown, sig, server, conn, schedule, surfaces, core,
                   faults, history>>

\* External: core dies; its calls are cancelled, the handlers run on.
CoreDies ==
    /\ core = "up" /\ proc # "boot"
    /\ core' = "gone"
    /\ UNCHANGED <<serving, server, host, faults, history>>

----------------------------------------------------------------------------
Handle(c) ==
    \/ Health(c)
    \/ InitRefused(c) \/ InitEnters(c) \/ InitReturns(c) \/ InitFails(c)
    \/ StartRefused(c) \/ StartEnters(c) \/ StartReturns(c) \/ StartFails(c)
    \/ StopNothing(c) \/ StopEnters(c) \/ StopWaited(c) \/ StopReturns(c) \/ StopFails(c)
    \/ Shutdown(c)

Next ==
    \/ \E w \in Windows, complete \in BOOLEAN : Boot(w, complete) \/ BootFails(w, complete)
    \/ Signal \/ Select \/ ServerFails \/ WindDown \/ Exit
    \/ \E c \in Calls : Handle(c) \/ \E o \in Ops : Arrive(c, o)
    \/ Declare
    \/ \E j \in Jobs : JobReturns(j) \/ JobTicks(j) \/ JobCancelled(j)
    \/ WatchdogTicks \/ WatchdogEnds \/ WatchdogFails
    \/ ConnDrops \/ Connect \/ awaitDisconnect
    \/ CoreDies

Spec == Init /\ [][Next]_vars

(* Handlers, the runtime's goroutines and serve are scheduled; a callback  *)
(* of the Module returns, and so does a job.  A select with both the timer *)
(* and the cancelled context ready takes the context in the end, which is  *)
(* strong fairness.  No fairness of core, signals or failures.             *)
Fairness ==
    /\ \A c \in Calls : WF_vars(Handle(c))
    /\ WF_vars(Select \/ WindDown \/ Exit)
    /\ \A j \in Jobs : WF_vars(JobReturns(j)) /\ SF_vars(JobCancelled(j))
    /\ WF_vars(WatchdogTicks \/ WatchdogEnds)
    /\ WF_vars((core = "gone" /\ ConnDrops) \/ (watching /\ Connect) \/ awaitDisconnect)

FairSpec == Spec /\ Fairness

----------------------------------------------------------------------------
(* Properties *)

\* The type invariant; a call that is not idle has an operation, and an exited
\* process has a code.
TypeOK ==
    /\ proc \in {"boot", "serving", "draining", "winding", "exited"}
    /\ exit \in {None, 0, 1, 78} /\ (exit # None <=> proc = "exited")
    /\ {shutdown, hostLost, sig, watching, jobCancel, ctxDone, started} \subseteq BOOLEAN
    /\ state \in {"created", "inited", "started", "stopped"}
    /\ mu \in Calls \cup {None}
    /\ op \in [Calls -> Ops \cup {None}]
    /\ pc \in [Calls -> {"idle", "waiting", "health", "m.Init", "m.Start", "stopJobs",
                         "m.Stop", "signal"}]
    /\ \A c \in Calls : pc[c] = "idle" <=> op[c] = None
    /\ conn \in {"none", "idle", "ready", "failed"}
    /\ job \in [Jobs -> {"none", "running", "waiting", "done"}]
    /\ watchdog \in {"off", "down", "up"}
    /\ surfaces \subseteq {"during", "after"} /\ reported \subseteq surfaces
    /\ core \in {"up", "gone"} /\ faults \in 0..MaxFaults
    /\ done \subseteq {"Init", "Start", "Stop"}

\* The Module sees Init, Start and Stop one at a time and in that order, each
\* only until it succeeded, however core's calls overlap (the sequence
\* lifecycle.go:13 enforces).
CallbacksInSequence ==
    LET inside(label) == {c \in Calls : pc[c] = label}
    IN /\ Cardinality(inside("m.Init") \cup inside("m.Start") \cup inside("m.Stop")) <= 1
       /\ inside("m.Init") # {} => done = {}
       /\ inside("m.Start") # {} => done = {"Init"}
       /\ inside("m.Stop") # {} => done = {"Init", "Start"}

\* No job and no ping loop runs before Start succeeded, inside m.Stop or
\* after it: stopJobs waits for them (hostclient.go:463).
JobsOnlyWhileStarted ==
    ("Start" \notin done \/ "Stop" \in done \/ \E c \in Calls : pc[c] = "m.Stop")
        => watchdog = "off" /\ \A j \in Jobs : job[j] \in {"none", "done"}

\* Once serve winds down every RPC is answered and none is inside the Module:
\* a shutdown cuts no call off, and getHost finds no Init half done
\* (serve.go:130, lifecycle.go:47).
WindsDownAnswered == proc = "winding" => mu = None /\ \A c \in Calls : pc[c] = "idle"

\* Core's death ends a module that finished Init, whatever it was doing: no
\* orphan stays behind (lifecycle.go:36).
OrphanExits == (core = "gone" /\ "Init" \in done) ~> (proc = "exited")

\* An answered Shutdown ends the process (lifecycle.go:34).
ShutdownEnds == (\E c \in Calls : pc[c] = "signal") ~> (proc = "exited")

\* A broken ping stream is reopened while core is there and the module runs
\* (hostclient.go:395).
PingsResume == (watchdog = "down") ~> (watchdog = "up" \/ ctxDone \/ core = "gone" \/ proc = "exited")

\* The runtime owes core three things and puts none of them off for ever: an
\* orphan exits (lifecycle.go:36), an answered Shutdown ends the process
\* (lifecycle.go:34), and a broken ping stream is reopened while core is there
\* and the module runs (hostclient.go:395).
RuntimeMovesOn == OrphanExits /\ ShutdownEnds /\ PingsResume

=============================================================================

----------------------------- MODULE Supervisor -----------------------------
(***************************************************************************)
(* The module supervisor of weave-agent (internal/supervise), for one      *)
(* module id: the goroutine that launches, monitors, backs off and         *)
(* relaunches the module's process, the operations that start and stop     *)
(* that goroutine (Add, StopModule, Replace, Wait), and the processes.     *)
(*                                                                         *)
(* A member of Runners is one runner struct.  Structs that nothing refers  *)
(* to any more are reused by a later Add, so the number of Adds is not     *)
(* bounded.  A member of Callers is one control-socket request that holds  *)
(* the lifecycle manager's lock of this module while it swaps or stops     *)
(* it; Main is core's own thread, which adds the module at boot and waits  *)
(* at shutdown.                                                            *)
(*                                                                         *)
(* Time is a global Tick.  A recorded instant is kept as its age in ticks, *)
(* capped just above the longest duration it is compared with.             *)
(***************************************************************************)
EXTENDS Naturals, Sequences, FiniteSets

CONSTANTS
    Runners,            \* runner structs
    Callers,            \* control-socket requests
    Main,               \* core's main goroutine
    None,               \* a nil *runner
    StartBurst,         \* Supervisor.StartLimitBurst
    CrashWindow,        \* Supervisor.StartLimitWindow, in ticks
    StableAfter,        \* Supervisor.StableAfter, in ticks
    HealthStrikes,      \* Supervisor.HealthStrikes
    WatchdogInterval    \* Supervisor.WatchdogInterval, in ticks

ASSUME SupervisorAssumption ==
    /\ Main \notin Callers
    /\ None \notin Runners \cup Callers
    /\ StartBurst \in Nat \ {0}
    /\ CrashWindow \in Nat
    /\ StableAfter \in Nat
    /\ HealthStrikes \in Nat \ {0}
    /\ WatchdogInterval \in Nat \ {0}

VARIABLES
    registered, \* s.runners[id], or None
    lock,       \* the holder of the lifecycle lock of this id, or None
    tpc,        \* where each caller and Main is
    target,     \* the runner a thread waits for or is adding
    baseDone,   \* the run-lifetime context is cancelled
    pc,         \* where each runner's goroutine is
    st,         \* runner.state
    stopReq,    \* runner.cancel was called
    proc,       \* the process the runner owns
    lingering,  \* a killed process the runner gave up without awaiting it
    crashes,    \* run's crash list: ages, oldest first
    uptime,     \* age of run's startedAt
    strikes,    \* monitor's strikes
    silence,    \* age of runner.keepalive
    starts      \* history: ages of the launches since the last stable run

threadVars == <<registered, lock, tpc, target, baseDone>>
processVars == <<proc, lingering>>
localVars == <<crashes, uptime, strikes, silence, starts>>
runnerVars == <<pc, st, stopReq, processVars, localVars>>
vars == <<threadVars, runnerVars>>

Threads == Callers \cup {Main}
States == {"pending", "starting", "running", "backoff", "start-limited",
           "unsupported-protocol", "requirements-unmet", "stopped"}

\* Mutant: the runner's context is not derived from the base context.
Cancelled_NoBase(r) == stopReq[r]

\* runCtx is derived from the base context and cancelled with it.
Cancelled(r) == baseDone \/ stopReq[r]

\* Mutant: nobody waits for the goroutine.
WgZero_NoWait(r) == TRUE

\* Mutant: the goroutine is counted down before it drains the process.
WgZero_Early(r) == pc[r] \in {"new", "draining", "done"}

\* The goroutine's WaitGroup is zero: not started yet, or returned.
WgZero(r) == pc[r] \in {"new", "done"}

\* A process the runner has not yet seen the end of.
Live(r) == proc[r] \in {"up", "hung", "killed"}

\* No registry entry, thread or process refers to the struct any more.
Unreferenced(r) ==
    /\ pc[r] = "done" /\ registered # r /\ ~lingering[r]
    /\ \A t \in Threads : target[t] # r

Init ==
    /\ registered = None /\ lock = None /\ baseDone = FALSE
    /\ tpc = [t \in Threads |-> IF t = Main THEN "stopped" ELSE "idle"]
    /\ target = [t \in Threads |-> None]
    /\ pc = [r \in Runners |-> "done"]
    /\ st = [r \in Runners |-> "stopped"]
    /\ stopReq = [r \in Runners |-> FALSE]
    /\ proc = [r \in Runners |-> "none"]
    /\ lingering = [r \in Runners |-> FALSE]
    /\ crashes = [r \in Runners |-> <<>>]
    /\ starts = [r \in Runners |-> <<>>]
    /\ uptime = [r \in Runners |-> 0]
    /\ strikes = [r \in Runners |-> 0]
    /\ silence = [r \in Runners |-> 0]

-----------------------------------------------------------------------------
(* The lifecycle lock, Add, StopModule, Replace and Wait.                  *)

\* A request locks the module; core serves requests once Main has booted.
LockModule(c) ==
    /\ tpc[c] = "idle" /\ lock = None
    /\ tpc[Main] \in {"serving", "waiting"}
    /\ lock' = c
    /\ tpc' = [tpc EXCEPT ![c] = "locked"]
    /\ UNCHANGED <<registered, target, baseDone, runnerVars>>

\* The deferred unlock, after a stop or once Replace has returned.
UnlockModule(c) ==
    /\ tpc[c] \in {"stopped", "returned"}
    /\ lock' = None
    /\ tpc' = [tpc EXCEPT ![c] = "idle"]
    /\ UNCHANGED <<registered, target, baseDone, runnerVars>>

\* StopModule takes the runner out of the registry and cancels it ...
StopModule(c) ==
    /\ tpc[c] \in {"locked", "returned"}
    /\ registered' = None
    /\ target' = [target EXCEPT ![c] = registered]
    /\ tpc' = [tpc EXCEPT ![c] = IF registered = None THEN "stopped" ELSE "waiting"]
    /\ stopReq' = [r \in Runners |-> stopReq[r] \/ r = registered]
    /\ UNCHANGED <<lock, baseDone, pc, st, processVars, localVars>>

\* ... and returns when its goroutine has.
StopModuleReturns(c) ==
    /\ tpc[c] = "waiting"
    /\ WgZero(target[c])
    /\ tpc' = [tpc EXCEPT ![c] = "stopped"]
    /\ target' = [target EXCEPT ![c] = None]
    /\ UNCHANGED <<registered, lock, baseDone, runnerVars>>

\* Add, under s.mu: refuse a registered id, else register a pending runner.
AddRegister(t) ==
    /\ tpc[t] = "stopped"
    /\ IF registered # None
       THEN /\ tpc' = [tpc EXCEPT ![t] = "returned"]
            /\ UNCHANGED <<registered, target, pc, st, stopReq>>
       ELSE \E r \in Runners :
            /\ Unreferenced(r)
            /\ registered' = r
            /\ target' = [target EXCEPT ![t] = r]
            /\ tpc' = [tpc EXCEPT ![t] = "added"]
            /\ pc' = [pc EXCEPT ![r] = "new"]
            /\ st' = [st EXCEPT ![r] = "pending"]
            /\ stopReq' = [stopReq EXCEPT ![r] = FALSE]
    /\ UNCHANGED <<lock, baseDone, processVars, localVars>>

\* Add, after the unlock, when the capability probe lacks a requirement.
AddGated(t) ==
    /\ tpc[t] = "added"
    /\ tpc' = [tpc EXCEPT ![t] = "returned"]
    /\ target' = [target EXCEPT ![t] = None]
    /\ pc' = [pc EXCEPT ![target[t]] = "done"]
    /\ st' = [st EXCEPT ![target[t]] = "requirements-unmet"]
    /\ stopReq' = [stopReq EXCEPT ![target[t]] = TRUE]
    /\ UNCHANGED <<registered, lock, baseDone, processVars, localVars>>

\* Add, after the unlock: wg.Add(1) and the goroutine is started.
AddLaunch(t) ==
    /\ tpc[t] = "added"
    /\ tpc' = [tpc EXCEPT ![t] = "returned"]
    /\ target' = [target EXCEPT ![t] = None]
    /\ pc' = [pc EXCEPT ![target[t]] = "loop"]
    /\ UNCHANGED <<registered, lock, baseDone, st, stopReq, processVars, localVars>>

\* Main has registered the discovered module, or found none, and serves.
ServeControl ==
    /\ tpc[Main] \in {"stopped", "returned"}
    /\ tpc' = [tpc EXCEPT ![Main] = "serving"]
    /\ UNCHANGED <<registered, lock, target, baseDone, runnerVars>>

\* SIGTERM: the run-lifetime context ends.
CancelBase ==
    /\ ~baseDone
    /\ baseDone' = TRUE
    /\ UNCHANGED <<registered, lock, tpc, target, runnerVars>>

\* Wait takes its snapshot of the registry ...
Wait ==
    /\ tpc[Main] = "serving" /\ baseDone
    /\ tpc' = [tpc EXCEPT ![Main] = "waiting"]
    /\ target' = [target EXCEPT ![Main] = registered]
    /\ UNCHANGED <<registered, lock, baseDone, runnerVars>>

\* ... waits for the runner in it, and core exits.
WaitReturns ==
    /\ tpc[Main] = "waiting"
    /\ target[Main] # None => WgZero(target[Main])
    /\ tpc' = [tpc EXCEPT ![Main] = "exited"]
    /\ target' = [target EXCEPT ![Main] = None]
    /\ UNCHANGED <<registered, lock, baseDone, runnerVars>>

\* The control socket fails: core returns the error without Wait.
ControlSocketFails ==
    /\ tpc[Main] = "serving"
    /\ tpc' = [tpc EXCEPT ![Main] = "failed"]
    /\ UNCHANGED <<registered, lock, target, baseDone, runnerVars>>

-----------------------------------------------------------------------------
(* The runner's goroutine: run, launch, monitor, pollHealth.               *)

\* How many of the recorded ages, oldest first, are past the window.
Expired(ages) == Cardinality({i \in 1..Len(ages) : ages[i] > CrashWindow})

\* The crash list once the entries older than the window are pruned.
Prune(ages) == SubSeq(ages, Expired(ages) + 1, Len(ages))

\* Mutant: a crash exactly one window old is already forgotten.
Recorded_Strict(r, stable) ==
    SelectSeq(Append(IF stable THEN <<>> ELSE crashes[r], 0), LAMBDA a : a < CrashWindow)

\* The crash list after one more crash; a stable run forgets the older ones.
Recorded(r, stable) ==
    Prune(Append(IF stable THEN <<>> ELSE crashes[r], 0))

\* run sets a state and goes on at the given place, with monitor's and the
\* watchdog's values of the last process gone.
Settle(r, where, state, crashList, startList) ==
    /\ pc' = [pc EXCEPT ![r] = where]
    /\ st' = [st EXCEPT ![r] = state]
    /\ crashes' = [crashes EXCEPT ![r] = crashList]
    /\ starts' = [starts EXCEPT ![r] = startList]
    /\ uptime' = [uptime EXCEPT ![r] = 0]
    /\ strikes' = [strikes EXCEPT ![r] = 0]
    /\ silence' = [silence EXCEPT ![r] = 0]

\* run returns: its locals are gone and the state it set last stays.
Return(r, state) == Settle(r, "done", state, <<>>, <<>>)

\* Crash accounting and the breaker: give up, or back off.
Account(r, stable) ==
    IF Len(Recorded(r, stable)) >= StartBurst
    THEN Return(r, "start-limited")
    ELSE Settle(r, "backoff", "backoff", Recorded(r, stable),
                IF stable THEN <<>> ELSE starts[r])

\* launch returned an error other than the protocol refusal.
LaunchFailed(r) == IF Cancelled(r) THEN Return(r, "stopped") ELSE Account(r, FALSE)

\* cleanupProc: kill the process without waiting for its exit.
CleanupProc(r) ==
    /\ proc' = [proc EXCEPT ![r] = "none"]
    /\ lingering' = [lingering EXCEPT ![r] = @ \/ proc[r] # "dead"]

\* killProc: a process that already exited is not affected.
KillProc(r) == proc' = [proc EXCEPT ![r] = IF @ = "dead" THEN @ ELSE "killed"]

LoopStops(r) ==
    /\ pc[r] = "loop" /\ Cancelled(r)
    /\ Return(r, "stopped")
    /\ UNCHANGED <<threadVars, stopReq, processVars>>

LoopLaunches(r) ==
    /\ pc[r] = "loop" /\ ~Cancelled(r)
    /\ pc' = [pc EXCEPT ![r] = "spawn"]
    /\ st' = [st EXCEPT ![r] = "starting"]
    /\ starts' = [starts EXCEPT ![r] = Append(@, 0)]
    /\ UNCHANGED <<threadVars, stopReq, processVars, crashes, uptime, strikes, silence>>

\* Verification, the socket directory, the host listener, the privilege
\* setup or exec fails, or (not contained) the started process cannot be put
\* under the job object and is killed.
SpawnFails(r) ==
    /\ pc[r] = "spawn"
    /\ \E contained \in BOOLEAN :
          lingering' = [lingering EXCEPT ![r] = @ \/ ~contained]
    /\ LaunchFailed(r)
    /\ UNCHANGED <<threadVars, stopReq, proc>>

Spawn(r) ==
    /\ pc[r] = "spawn"
    /\ proc' = [proc EXCEPT ![r] = "up"]
    /\ pc' = [pc EXCEPT ![r] = "handshake"]
    /\ UNCHANGED <<threadVars, st, stopReq, lingering, localVars>>

\* A well-formed line with a protocol inside the window arrives.
HandshakeLine(r) ==
    /\ pc[r] = "handshake"
    /\ pc' = [pc EXCEPT ![r] = "init"]
    /\ UNCHANGED <<threadVars, st, stopReq, processVars, localVars>>

\* The line times out, is malformed or out of the window, the context ends,
\* or (at "init") Init, the runtime requirements or Start fail.
LaunchAborts(r) ==
    /\ pc[r] \in {"handshake", "init"}
    /\ CleanupProc(r)
    /\ LaunchFailed(r)
    /\ UNCHANGED <<threadVars, stopReq>>

\* The process exits before its line, with another code than 78 ...
HandshakeExited(r) ==
    /\ pc[r] = "handshake" /\ proc[r] = "dead"
    /\ proc' = [proc EXCEPT ![r] = "none"]
    /\ LaunchFailed(r)
    /\ UNCHANGED <<threadVars, stopReq, lingering>>

\* ... or with 78, ExitProtocolUnsupported.
ProtocolRefused(r) ==
    /\ pc[r] = "handshake" /\ proc[r] = "dead"
    /\ proc' = [proc EXCEPT ![r] = "none"]
    /\ Return(r, "unsupported-protocol")
    /\ UNCHANGED <<threadVars, stopReq, lingering>>

\* Init and Start answered: running, and monitor seeds the watchdog.
Started(r) ==
    /\ pc[r] = "init"
    /\ pc' = [pc EXCEPT ![r] = "poll"]
    /\ st' = [st EXCEPT ![r] = "running"]
    /\ silence' = [silence EXCEPT ![r] = 0]
    /\ UNCHANGED <<threadVars, stopReq, processVars, crashes, uptime, strikes, starts>>

\* The strikes, this poll's included, call for a restart.
StruckOut(r) == strikes'[r] >= HealthStrikes

\* After a poll the goroutine is back in the select, or kills the process.
PollEnds(r) ==
    /\ pc' = [pc EXCEPT ![r] = IF StruckOut(r) THEN "killing" ELSE "monitor"]
    /\ IF StruckOut(r) THEN KillProc(r) ELSE UNCHANGED proc

\* pollHealth: at once when monitor starts, then on the ticker.  The call
\* fails or times out, which leaves the recorded health as it was ...
PollFails(r) ==
    /\ pc[r] \in {"poll", "monitor"}
    /\ strikes' = [strikes EXCEPT ![r] = @ + 1]
    /\ PollEnds(r)
    /\ UNCHANGED <<threadVars, st, stopReq, lingering, crashes, uptime, silence, starts>>

\* ... or the process answers.
PollAnswers(r) ==
    /\ pc[r] \in {"poll", "monitor"} /\ proc[r] \in {"up", "hung"}
    /\ \E unhealthy \in BOOLEAN :
          strikes' = [strikes EXCEPT ![r] = IF unhealthy THEN @ + 1 ELSE 0]
    /\ PollEnds(r)
    /\ UNCHANGED <<threadVars, st, stopReq, lingering, crashes, uptime, silence, starts>>

\* The four cases of monitor's select, the ticker being the poll above.
MonitorStops(r) ==
    /\ pc[r] = "monitor" /\ Cancelled(r)
    /\ pc' = [pc EXCEPT ![r] = "draining"]
    /\ UNCHANGED <<threadVars, st, stopReq, processVars, localVars>>

MonitorExited(r) ==
    /\ pc[r] = "monitor" /\ proc[r] = "dead"
    /\ proc' = [proc EXCEPT ![r] = "none"]
    /\ Account(r, uptime[r] >= StableAfter)
    /\ UNCHANGED <<threadVars, stopReq, lingering>>

\* Mutant: the watchdog looks only at modules that fail their polls.
Overdue_Healthy(r) == silence[r] > 2 * WatchdogInterval /\ strikes[r] > 0

\* The last ping is more than two intervals ago.
Overdue(r) == silence[r] > 2 * WatchdogInterval

WatchdogFires(r) ==
    /\ pc[r] = "monitor" /\ Overdue(r)
    /\ pc' = [pc EXCEPT ![r] = "killing"]
    /\ KillProc(r)
    /\ UNCHANGED <<threadVars, st, stopReq, lingering, localVars>>

\* Mutant: a module that does not drain is never killed.
DrainTimeout_NoKill(r) == FALSE /\ UNCHANGED vars

\* stop: the grace after Stop and Shutdown ends, and the process is killed.
DrainTimeout(r) ==
    /\ pc[r] = "draining" /\ proc[r] \in {"up", "hung"}
    /\ KillProc(r)
    /\ UNCHANGED <<threadVars, pc, st, stopReq, lingering, localVars>>

\* stop returns once the exit is received.
Drained(r) ==
    /\ pc[r] = "draining" /\ proc[r] = "dead"
    /\ proc' = [proc EXCEPT ![r] = "none"]
    /\ Return(r, "stopped")
    /\ UNCHANGED <<threadVars, stopReq, lingering>>

\* kill returns once the exit is received.
Reaped(r) ==
    /\ pc[r] = "killing" /\ proc[r] = "dead"
    /\ proc' = [proc EXCEPT ![r] = "none"]
    /\ Account(r, uptime[r] >= StableAfter)
    /\ UNCHANGED <<threadVars, stopReq, lingering>>

BackoffElapses(r) ==
    /\ pc[r] = "backoff"
    /\ pc' = [pc EXCEPT ![r] = "loop"]
    /\ UNCHANGED <<threadVars, st, stopReq, processVars, localVars>>

BackoffStops(r) ==
    /\ pc[r] = "backoff" /\ Cancelled(r)
    /\ Return(r, "stopped")
    /\ UNCHANGED <<threadVars, stopReq, processVars>>

-----------------------------------------------------------------------------
(* The processes and time.                                                 *)

\* A process exits: of itself at any time, and soon after it is killed.
Exit(r) ==
    /\ Live(r)
    /\ proc' = [proc EXCEPT ![r] = "dead"]
    /\ UNCHANGED <<threadVars, pc, st, stopReq, lingering, localVars>>

LingererExits(r) ==
    /\ lingering[r]
    /\ lingering' = [lingering EXCEPT ![r] = FALSE]
    /\ UNCHANGED <<threadVars, pc, st, stopReq, proc, localVars>>

\* The module's work loop hangs: no more pings, though Health may answer.
Hang(r) ==
    /\ proc[r] = "up"
    /\ proc' = [proc EXCEPT ![r] = "hung"]
    /\ UNCHANGED <<threadVars, pc, st, stopReq, lingering, localVars>>

\* A ping of a process, late ones included, stamps whichever runner is
\* registered under the id when it is handled.
Keepalive(r) ==
    /\ proc[r] = "up" \/ lingering[r]
    /\ registered # None
    /\ silence' = [silence EXCEPT ![registered] = 0]
    /\ UNCHANGED <<threadVars, pc, st, stopReq, processVars,
                   crashes, uptime, strikes, starts>>

Older(age, cap) == IF age < cap THEN age + 1 ELSE age

Tick ==
    /\ crashes' = [r \in Runners |->
          [i \in DOMAIN crashes[r] |-> Older(crashes[r][i], CrashWindow + 1)]]
    /\ starts' = [r \in Runners |-> Prune(
          [i \in DOMAIN starts[r] |-> Older(starts[r][i], CrashWindow + 1)])]
    /\ uptime' = [r \in Runners |->
          IF st[r] = "running" THEN Older(uptime[r], StableAfter) ELSE uptime[r]]
    /\ silence' = [r \in Runners |->
          IF st[r] = "running" THEN Older(silence[r], 2 * WatchdogInterval + 1)
                               ELSE silence[r]]
    /\ UNCHANGED <<threadVars, pc, st, stopReq, processVars, strikes>>

-----------------------------------------------------------------------------

\* The steps a goroutine takes outside monitor's select; each of its waits
\* there ends by a timeout, so one of them is always taken in the end.
Progress(r) ==
    \/ LoopStops(r) \/ LoopLaunches(r) \/ SpawnFails(r) \/ Spawn(r)
    \/ HandshakeLine(r) \/ LaunchAborts(r) \/ HandshakeExited(r)
    \/ ProtocolRefused(r) \/ Started(r)
    \/ DrainTimeout(r) \/ Drained(r) \/ Reaped(r)
    \/ BackoffElapses(r) \/ BackoffStops(r)

RunnerStep(r) ==
    \/ Progress(r) \/ PollFails(r) \/ PollAnswers(r) \/ MonitorStops(r)
    \/ MonitorExited(r) \/ WatchdogFires(r)

ProcessStep(r) == Exit(r) \/ LingererExits(r) \/ Hang(r) \/ Keepalive(r)

CallerStep(c) ==
    \/ LockModule(c) \/ UnlockModule(c) \/ StopModule(c) \/ StopModuleReturns(c)

AddStep(t) == AddRegister(t) \/ AddGated(t) \/ AddLaunch(t)

MainStep == ServeControl \/ Wait \/ WaitReturns \/ ControlSocketFails

\* Main has returned: the core process, and every goroutine in it, is gone.
CoreGone == tpc[Main] \in {"exited", "failed"}

Next ==
    \/ /\ ~CoreGone
       /\ \/ \E r \in Runners : RunnerStep(r) \/ ProcessStep(r)
          \/ \E c \in Callers : CallerStep(c)
          \/ \E t \in Threads : AddStep(t)
          \/ MainStep \/ CancelBase \/ Tick
    \/ CoreGone /\ UNCHANGED vars

Spec == Init /\ [][Next]_vars

\* Goroutines are scheduled, every wait outside the select is bounded by a
\* timeout, the select picks at random among its ready cases, a killed
\* process exits, and time passes.  Nothing makes a request or a shutdown
\* happen, a module exit, or a poll fail: only the first poll of a run, which
\* ends either way within its timeout, is fair.
Fairness ==
    /\ WF_vars(~CoreGone /\ Tick)
    /\ \A r \in Runners :
          /\ WF_vars(~CoreGone /\ Progress(r))
          /\ WF_vars(~CoreGone /\ pc[r] = "poll" /\ (PollFails(r) \/ PollAnswers(r)))
          /\ WF_vars(~CoreGone /\ MonitorStops(r))
          /\ WF_vars(~CoreGone /\ MonitorExited(r))
          /\ WF_vars(~CoreGone /\ WatchdogFires(r))
          /\ WF_vars(~CoreGone /\ proc[r] = "killed" /\ Exit(r))
          /\ WF_vars(~CoreGone /\ LingererExits(r))
    /\ \A c \in Callers : WF_vars(~CoreGone /\ StopModuleReturns(c))
    /\ \A t \in Threads : WF_vars(~CoreGone /\ (AddGated(t) \/ AddLaunch(t)))
    /\ WF_vars(~CoreGone /\ (ServeControl \/ Wait \/ WaitReturns))

FairSpec == Spec /\ Fairness

-----------------------------------------------------------------------------
(* Properties.                                                             *)

RunnerPCs == {"done", "new", "loop", "spawn", "handshake", "init", "poll",
              "monitor", "draining", "killing", "backoff"}
CallerPCs == {"idle", "locked", "waiting", "stopped", "added", "returned"}
MainPCs == {"stopped", "added", "returned", "serving", "waiting", "exited", "failed"}

\* What the threads share.
ThreadTypeOK ==
    /\ registered \in Runners \cup {None}
    /\ lock \in Callers \cup {None}
    /\ tpc \in [Threads -> CallerPCs \cup MainPCs]
    /\ target \in [Threads -> Runners \cup {None}]
    /\ baseDone \in BOOLEAN

\* The runners' positions, states and processes.
RunnerTypeOK ==
    /\ pc \in [Runners -> RunnerPCs]
    /\ st \in [Runners -> States]
    /\ stopReq \in [Runners -> BOOLEAN]
    /\ proc \in [Runners -> {"none", "up", "hung", "killed", "dead"}]
    /\ lingering \in [Runners -> BOOLEAN]

\* The goroutines' locals.
LocalTypeOK ==
    /\ crashes \in [Runners -> Seq(0..(CrashWindow + 1))]
    /\ starts \in [Runners -> Seq(0..(CrashWindow + 1))]
    /\ uptime \in [Runners -> 0..StableAfter]
    /\ strikes \in [Runners -> 0..HealthStrikes]
    /\ silence \in [Runners -> 0..(2 * WatchdogInterval + 1)]

\* The type invariant: every variable keeps the range the code gives it; in
\* particular the strikes of monitor never pass the limit at which it kills.
TypeOK == ThreadTypeOK /\ RunnerTypeOK /\ LocalTypeOK

\* Hot-swaps, stops, crashes and relaunches of one id, in any interleaving,
\* never leave two runners each owning a process whose end it has not seen
\* (StopModule waits for the goroutine, Add refuses a registered id, and the
\* lifecycle lock keeps two swaps apart).
OneLiveProcess ==
    \A r, q \in Runners : Live(r) /\ Live(q) => r = q

\* Once StopModule has returned to a request, no runner of the id still owns
\* a process and none of their goroutines runs: what Replace relies on when
\* it adds the new version.
StopIsComplete ==
    \A c \in Callers : tpc[c] = "stopped" =>
        \A r \in Runners : pc[r] = "done" /\ ~Live(r)

\* A state that says the module is down (pending, backoff, start-limited,
\* unsupported, unmet, stopped) is never shown while its runner still owns a
\* process: every path out of launch and monitor gives the process up before
\* it sets the state.
DownMeansNoProcess ==
    \A r \in Runners : st[r] \notin {"starting", "running"} => proc[r] = "none"

\* The breaker bounds the launch rate: however failed launches, crashes,
\* health and watchdog kills mix, run never launches more than StartBurst
\* times within one CrashWindow unless a run in between was stable.
LaunchRateBounded ==
    \A r \in Runners : Len(starts[r]) <= StartBurst

\* Terminal states are final: a start-limited, unsupported or gated runner
\* never changes state or launches again; only a new Add, after the runner
\* left the registry, starts the module anew.
TerminalIsFinal ==
    [][\A r \in Runners :
          st[r] \in {"start-limited", "unsupported-protocol", "requirements-unmet"} =>
              \/ st'[r] = st[r] /\ proc'[r] = proc[r]
              \/ st'[r] = "pending" /\ registered = None]_vars

\* StopModule returns: whatever the module and its goroutine do, a request
\* waiting for the runner to wind down gets it back, unless core is gone.
StopReturns ==
    \A c \in Callers : tpc[c] = "waiting" ~> tpc[c] # "waiting" \/ CoreGone

\* A shutdown completes: once the base context ends, Wait returns and core
\* exits, also with a hung module, a request in flight or a launch under way.
ShutdownCompletes == baseDone ~> CoreGone

\* The watchdog catches a hang: a process whose work loop hung does not stay
\* up, even if it answers every health poll and late pings of an earlier
\* process stamp the new runner.
HangIsEnded ==
    \A r \in Runners : proc[r] = "hung" ~> proc[r] # "hung" \/ CoreGone

=============================================================================

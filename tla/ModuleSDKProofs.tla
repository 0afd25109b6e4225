--------------------------- MODULE ModuleSDKProofs --------------------------
(* The lifecycle a module sees, for any number of overlapping calls and of *)
(* jobs and any number of failures.                                        *)
EXTENDS ModuleSDK, StubCore, StubHost, FiniteSetTheorems, TLAPS

Held == {"m.Init", "m.Start", "stopJobs", "m.Stop"}

Shapes ==
    /\ proc \in {"boot", "serving", "draining", "winding", "exited"}
    /\ state \in {"created", "inited", "started", "stopped"}
    /\ mu \in Calls \cup {None}
    /\ pc \in [Calls -> {"idle", "waiting", "health", "signal"} \cup Held]
    /\ job \in [Jobs -> {"none", "running", "waiting", "done"}]
    /\ watchdog \in {"off", "down", "up"}
    /\ core \in {"up", "gone"}

\* The lock is held by exactly the call inside a critical section.
Locked == \A c \in Calls : pc[c] \in Held <=> mu = c

\* The state records the callbacks that succeeded, and a callback in progress fits it.
Sequenced ==
    /\ state = "created" => done = {} /\ reported = {}
    /\ state = "inited" => done = {"Init"}
    /\ state = "started" => done = {"Init", "Start"}
    /\ \A c \in Calls :
        /\ pc[c] = "m.Init" => state = "created"
        /\ pc[c] = "m.Start" => state = "inited"
        /\ pc[c] \in {"stopJobs", "m.Stop"} => state = "started"

\* Something runs only while the module is started and somebody is going to wait for it.
JobsOwned ==
    watchdog # "off" \/ (\E j \in Jobs : Active(j)) =>
        /\ state = "started"
        /\ jobCancel = TRUE \/ proc = "winding" \/ \E c \in Calls : pc[c] = "stopJobs"
        /\ \A c \in Calls : pc[c] # "m.Stop"

Answered ==
    proc \in {"boot", "winding", "exited"} => \A c \in Calls : pc[c] = "idle"

SDKInv == Shapes /\ Locked /\ Sequenced /\ JobsOwned /\ Answered

\* SDKInv is inductive: one step per action of the runtime, the module's code and core.
LEMMA SDKPreserved == SDKInv /\ [Next]_vars => SDKInv'
<1> SUFFICES ASSUME SDKInv, [Next]_vars PROVE SDKInv'
    BY Zenon
<1> USE ModuleSDKConstants DEF SDKInv, Held, serving, server, schedule, host, history
<1>1. ASSUME NEW w \in Windows, NEW complete \in BOOLEAN, Boot(w, complete) PROVE SDKInv'
    BY <1>1, Zenon DEF Shapes, Locked, Sequenced, JobsOwned, Answered, Active, Boot
<1>2. ASSUME NEW w \in Windows, NEW complete \in BOOLEAN, BootFails(w, complete) PROVE SDKInv'
    BY <1>2, Zenon DEF Shapes, Locked, Sequenced, JobsOwned, Answered, Active,
       BootFails, End
<1>3. ASSUME Signal PROVE SDKInv'
    BY <1>3, ZenonT(30) DEF Shapes, Locked, Sequenced, JobsOwned, Answered, Active,
       Signal,
       Fault
<1>4. ASSUME Select PROVE SDKInv'
    BY <1>4, ZenonT(30) DEF Shapes, Locked, Sequenced, JobsOwned, Answered, Active,
       Select
<1>5. ASSUME ServerFails PROVE SDKInv'
    BY <1>5 DEF Shapes, Locked, Sequenced, JobsOwned, Answered, Active,
       ServerFails, End, Fault
<1>6. ASSUME WindDown PROVE SDKInv'
    BY <1>6, ZenonT(30) DEF Shapes, Locked, Sequenced, JobsOwned, Answered, Active,
       WindDown, Drained, CancelJobs
<1>7. ASSUME Exit PROVE SDKInv'
    BY <1>7, Zenon DEF Shapes, Locked, Sequenced, JobsOwned, Answered, Active, Exit, End
<1>8. ASSUME NEW c \in Calls, NEW o \in Ops, Arrive(c, o) PROVE SDKInv'
    BY <1>8, SMTT(20) DEF Shapes, Locked, Sequenced, JobsOwned, Answered, Active, Arrive,
       Goto
<1>9. ASSUME NEW c \in Calls, Health(c) PROVE SDKInv'
    BY <1>9, SMTT(20) DEF Shapes, Locked, Sequenced, JobsOwned, Answered, Active, Health,
       Goto
<1>10. ASSUME NEW c \in Calls, InitRefused(c) PROVE SDKInv'
    BY <1>10, SMTT(20) DEF Shapes, Locked, Sequenced, JobsOwned, Answered, Active,
       InitRefused, Lock, Return, Goto, Fault
<1>11. ASSUME NEW c \in Calls, InitEnters(c) PROVE SDKInv'
    BY <1>11 DEF Shapes, Locked, Sequenced, JobsOwned, Answered, Active,
       InitEnters, Lock, Goto
<1>12. ASSUME NEW c \in Calls, InitReturns(c) PROVE SDKInv'
    <2>1. Shapes'
        BY <1>12, Zenon DEF Shapes, InitReturns, Watch, Return, Goto
    <2>2. Locked'
        BY <1>12, ZenonT(30) DEF Shapes, Locked, InitReturns, Watch, Return, Goto
    <2>3. Sequenced'
        BY <1>12 DEF Shapes, Sequenced, Locked, InitReturns, Watch, Return, Goto
    <2>4. JobsOwned'
        BY <1>12, Zenon DEF Shapes, JobsOwned, Locked, Sequenced, Answered, Active, InitReturns,
           Watch, Return, Goto
    <2>5. Answered'
        BY <1>12, Zenon DEF Shapes, Answered, InitReturns, Watch, Return, Goto
    <2> QED
        BY <2>1, <2>2, <2>3, <2>4, <2>5, Zenon
<1>13. ASSUME NEW c \in Calls, InitFails(c) PROVE SDKInv'
    BY <1>13, SMTT(20) DEF Shapes, Locked, Sequenced, JobsOwned, Answered, Active,
       InitFails, Return, Goto, Fault
<1>14. ASSUME NEW c \in Calls, StartRefused(c) PROVE SDKInv'
    BY <1>14, SMTT(20) DEF Shapes, Locked, Sequenced, JobsOwned, Answered, Active,
       StartRefused, Lock, Return, Goto
<1>15. ASSUME NEW c \in Calls, StartEnters(c) PROVE SDKInv'
    BY <1>15 DEF Shapes, Locked, Sequenced, JobsOwned, Answered, Active,
       StartEnters, Lock, Goto
<1>16. ASSUME NEW c \in Calls, StartReturns(c) PROVE SDKInv'
    <2>1. Shapes'
        BY <1>16, Zenon DEF Shapes, StartReturns, Return, Goto
    <2>2. Locked'
        BY <1>16, ZenonT(30) DEF Shapes, Locked, StartReturns, Return, Goto
    <2>3. Sequenced'
        BY <1>16 DEF Shapes, Sequenced, Locked, StartReturns, Return, Goto
    <2>4. JobsOwned'
        BY <1>16, ZenonT(30) DEF Shapes, JobsOwned, Locked, Sequenced, Answered, Active,
           StartReturns,
           Return, Goto
    <2>5. Answered'
        BY <1>16, Zenon DEF Shapes, Answered, StartReturns, Return, Goto
    <2> QED
        BY <2>1, <2>2, <2>3, <2>4, <2>5, Zenon
<1>17. ASSUME NEW c \in Calls, StartFails(c) PROVE SDKInv'
    BY <1>17 DEF Shapes, Locked, Sequenced, JobsOwned, Answered, Active,
       StartFails, Return, Goto, Fault
<1>18. ASSUME NEW c \in Calls, StopNothing(c) PROVE SDKInv'
    <2>1. Shapes'
        BY <1>18, Zenon DEF Shapes, StopNothing, Lock, Stopped, Goto
    <2>2. Locked'
        BY <1>18, SMTT(20) DEF Shapes, Locked, StopNothing, Lock, Stopped, Goto
    <2>3. Sequenced'
        BY <1>18 DEF Shapes, Sequenced, Locked, StopNothing, Lock, Stopped, Goto
    <2>4. JobsOwned'
        BY <1>18, Zenon DEF Shapes, JobsOwned, Locked, Sequenced, Answered, Active, StopNothing,
           Lock, Stopped, Goto
    <2>5. Answered'
        BY <1>18, Zenon DEF Shapes, Answered, StopNothing, Lock, Stopped, Goto
    <2> QED
        BY <2>1, <2>2, <2>3, <2>4, <2>5, Zenon
<1>19. ASSUME NEW c \in Calls, StopEnters(c) PROVE SDKInv'
    <2>1. Shapes'
        BY <1>19, Zenon DEF Shapes, StopEnters, Lock, CancelJobs, Goto
    <2>2. Locked'
        BY <1>19, SMTT(20) DEF Shapes, Locked, StopEnters, Lock, CancelJobs, Goto
    <2>3. Sequenced'
        BY <1>19, SMTT(20) DEF Shapes, Sequenced, Locked, StopEnters, Lock, CancelJobs, Goto
    <2>4. JobsOwned'
        BY <1>19 DEF Shapes, JobsOwned, Locked, Sequenced, Answered, Active, StopEnters,
           Lock, CancelJobs, Goto
    <2>5. Answered'
        BY <1>19, Zenon DEF Shapes, Answered, StopEnters, Lock, CancelJobs, Goto
    <2> QED
        BY <2>1, <2>2, <2>3, <2>4, <2>5, ZenonT(30)
<1>20. ASSUME NEW c \in Calls, StopWaited(c) PROVE SDKInv'
    BY <1>20 DEF Shapes, Locked, Sequenced, JobsOwned, Answered, Active,
       StopWaited, JobsDone, Goto
<1>21. ASSUME NEW c \in Calls, StopReturns(c) PROVE SDKInv'
    <2>1. Shapes'
        BY <1>21, ZenonT(30) DEF Shapes, StopReturns, Stopped, Goto
    <2>2. Locked'
        BY <1>21, SMTT(20) DEF Shapes, Locked, StopReturns, Stopped, Goto
    <2>3. Sequenced'
        BY <1>21 DEF Shapes, Sequenced, Locked, StopReturns, Stopped, Goto
    <2>4. JobsOwned'
        BY <1>21, Zenon DEF Shapes, JobsOwned, Locked, Sequenced, Answered, Active, StopReturns,
           Stopped, Goto
    <2>5. Answered'
        BY <1>21, Zenon DEF Shapes, Answered, StopReturns, Stopped, Goto
    <2> QED
        BY <2>1, <2>2, <2>3, <2>4, <2>5, Zenon
<1>22. ASSUME NEW c \in Calls, StopFails(c) PROVE SDKInv'
    BY <1>22, SMTT(20) DEF Shapes, Locked, Sequenced, JobsOwned, Answered, Active,
       StopFails, Return, Goto, Fault
<1>23. ASSUME NEW c \in Calls, Shutdown(c) PROVE SDKInv'
    BY <1>23, SMTT(20) DEF Shapes, Locked, Sequenced, JobsOwned, Answered, Active,
       Shutdown, Notify, Goto
<1>24. ASSUME Declare PROVE SDKInv'
    BY <1>24, SMTT(20) DEF Shapes, Locked, Sequenced, JobsOwned, Answered, Active,
       Declare
<1>25. ASSUME NEW j \in Jobs, JobReturns(j) PROVE SDKInv'
    BY <1>25 DEF Shapes, Locked, Sequenced, JobsOwned, Answered, Active,
       JobReturns
<1>26. ASSUME NEW j \in Jobs, JobTicks(j) PROVE SDKInv'
    BY <1>26, ZenonT(30) DEF Shapes, Locked, Sequenced, JobsOwned, Answered, Active,
       JobTicks
<1>27. ASSUME NEW j \in Jobs, JobCancelled(j) PROVE SDKInv'
    BY <1>27, ZenonT(30) DEF Shapes, Locked, Sequenced, JobsOwned, Answered, Active,
       JobCancelled
<1>28. ASSUME WatchdogTicks PROVE SDKInv'
    BY <1>28, ZenonT(30) DEF Shapes, Locked, Sequenced, JobsOwned, Answered, Active,
       WatchdogTicks, Reopens
<1>29. ASSUME WatchdogEnds PROVE SDKInv'
    BY <1>29, ZenonT(30) DEF Shapes, Locked, Sequenced, JobsOwned, Answered, Active,
       WatchdogEnds
<1>30. ASSUME WatchdogFails PROVE SDKInv'
    BY <1>30, ZenonT(30) DEF Shapes, Locked, Sequenced, JobsOwned, Answered, Active,
       WatchdogFails, Fault
<1>31. ASSUME ConnDrops PROVE SDKInv'
    BY <1>31 DEF Shapes, Locked, Sequenced, JobsOwned, Answered, Active,
       ConnDrops, Fault
<1>32. ASSUME Connect PROVE SDKInv'
    BY <1>32 DEF Shapes, Locked, Sequenced, JobsOwned, Answered, Active,
       Connect, Fault
<1>33. ASSUME awaitDisconnect PROVE SDKInv'
    BY <1>33, ZenonT(30) DEF Shapes, Locked, Sequenced, JobsOwned, Answered, Active,
       awaitDisconnect, Gone
<1>34. ASSUME CoreDies PROVE SDKInv'
    BY <1>34, ZenonT(30) DEF Shapes, Locked, Sequenced, JobsOwned, Answered, Active,
       CoreDies
<1>35. CASE UNCHANGED vars
    <2>1. UNCHANGED <<proc, hostLost, state, mu, pc, conn, jobCancel, job, watchdog, core, done, reported>>
        BY <1>35, Zenon DEF vars
    <2>2. Shapes' /\ Locked' /\ Sequenced'
        BY <2>1, ZenonT(30) DEF Shapes, Locked, Sequenced
    <2>3. JobsOwned' /\ Answered'
        BY <2>1, ZenonT(30) DEF JobsOwned, Answered, Active
    <2> QED BY <2>2, <2>3, Zenon
<1> QED
    BY <1>1, <1>2, <1>3, <1>4, <1>5, <1>6, <1>7, <1>8, <1>9, <1>10, <1>11, <1>12, <1>13,
       <1>14,
        <1>15, <1>16, <1>17, <1>18, <1>19, <1>20, <1>21, <1>22, <1>23, <1>24, <1>25, <1>26,
        <1>27, <1>28, <1>29, <1>30, <1>31, <1>32, <1>33, <1>34, <1>35, ZenonT(30) DEF Next, Handle

\* A process that has not booted has no call and no job.
LEMMA SDKInitially == Init => SDKInv
BY ModuleSDKConstants DEF Init, SDKInv, Shapes, Locked, Sequenced, JobsOwned, Answered,
   Held, Active

\* What each part of the runtime holds: serve, its calls, its jobs and the rest.
Labels == {"idle", "waiting", "health", "m.Init", "m.Start", "stopJobs", "m.Stop", "signal"}

ServeTyped ==
    /\ proc \in {"boot", "serving", "draining", "winding", "exited"}
    /\ exit \in {None, 0, 1, 78} /\ (exit # None <=> proc = "exited")
    /\ shutdown \in BOOLEAN /\ hostLost \in BOOLEAN /\ sig \in BOOLEAN

CallsTyped ==
    /\ op \in [Calls -> Ops \cup {None}] /\ pc \in [Calls -> Labels]
    /\ \A c \in Calls : pc[c] = "idle" <=> op[c] = None

JobsTyped == job \in [Jobs -> {"none", "running", "waiting", "done"}]

ScheduleTyped ==
    /\ jobCancel \in BOOLEAN /\ ctxDone \in BOOLEAN /\ started \in BOOLEAN
    /\ watchdog \in {"off", "down", "up"}

RestTyped ==
    /\ state \in {"created", "inited", "started", "stopped"} /\ mu \in Calls \cup {None}
    /\ conn \in {"none", "idle", "ready", "failed"} /\ watching \in BOOLEAN
    /\ surfaces \subseteq {"during", "after"} /\ reported \subseteq surfaces
    /\ core \in {"up", "gone"} /\ done \subseteq {"Init", "Start", "Stop"}

FaultsTyped == faults \in 0..MaxFaults

Typed == ServeTyped /\ CallsTyped /\ JobsTyped /\ ScheduleTyped /\ RestTyped /\ FaultsTyped

\* Together they are the type invariant.
LEMMA TypesTogether == TypeOK <=> Typed
<1>1. {shutdown, hostLost, sig, watching, jobCancel, ctxDone, started} \subseteq BOOLEAN <=>
        /\ shutdown \in BOOLEAN /\ hostLost \in BOOLEAN /\ sig \in BOOLEAN /\ watching \in BOOLEAN
        /\ jobCancel \in BOOLEAN /\ ctxDone \in BOOLEAN /\ started \in BOOLEAN
    BY ZenonT(30)
<1> QED BY <1>1, ZenonT(30) DEF TypeOK, Typed, ServeTyped, CallsTyped, JobsTyped,
           ScheduleTyped, RestTyped, FaultsTyped, Labels

\* A part that a step leaves alone keeps its type.
LEMMA TypesFramed ==
    ASSUME TypeOK
    PROVE  /\ ServeTyped /\ CallsTyped /\ JobsTyped /\ ScheduleTyped /\ RestTyped /\ FaultsTyped
           /\ UNCHANGED serving => ServeTyped'
           /\ UNCHANGED server => CallsTyped' /\ UNCHANGED <<state, mu>>
           /\ UNCHANGED schedule => JobsTyped' /\ ScheduleTyped'
           /\ UNCHANGED host => JobsTyped' /\ ScheduleTyped' /\ UNCHANGED <<conn, watching, surfaces>>
           /\ UNCHANGED history => UNCHANGED <<done, reported>>
           /\ UNCHANGED job => JobsTyped'
           /\ UNCHANGED faults => FaultsTyped'
<1>1. ServeTyped /\ CallsTyped /\ JobsTyped /\ ScheduleTyped /\ RestTyped /\ FaultsTyped
    BY TypesTogether, Zenon DEF Typed
<1>2. UNCHANGED serving => ServeTyped'
    BY <1>1, ZenonT(30) DEF ServeTyped, serving
<1>3. UNCHANGED server => CallsTyped' /\ UNCHANGED <<state, mu>>
    BY <1>1, ZenonT(30) DEF CallsTyped, server
<1>4. UNCHANGED schedule => JobsTyped' /\ ScheduleTyped'
    BY <1>1, ZenonT(30) DEF JobsTyped, ScheduleTyped, schedule
<1>5. UNCHANGED host => UNCHANGED schedule /\ UNCHANGED <<conn, watching, surfaces>>
    BY ZenonT(30) DEF host
<1>6. UNCHANGED history => UNCHANGED <<done, reported>>
    BY ZenonT(30) DEF history
<1>7. (UNCHANGED job => JobsTyped') /\ (UNCHANGED faults => FaultsTyped')
    BY <1>1, Zenon DEF JobsTyped, FaultsTyped
<1> QED BY <1>1, <1>2, <1>3, <1>4, <1>5, <1>6, <1>7, Zenon

\* A call that moves has an operation exactly if it moves to no idle place.
LEMMA CallMoves ==
    ASSUME CallsTyped, NEW c \in Calls, NEW label \in Labels, Goto(c, label),
           \/ op' = [op EXCEPT ![c] = None] /\ label = "idle"
           \/ UNCHANGED op /\ pc[c] # "idle" /\ label # "idle"
           \/ \E o \in Ops : op' = [op EXCEPT ![c] = o] /\ label # "idle"
    PROVE  CallsTyped'
<1>1. pc' \in [Calls -> Labels] /\ \A q \in Calls : pc'[q] = IF q = c THEN label ELSE pc[q]
    BY Zenon DEF CallsTyped, Goto
<1>2. CASE op' = [op EXCEPT ![c] = None] /\ label = "idle"
    <2>1. op' \in [Calls -> Ops \cup {None}] /\ \A q \in Calls : op'[q] = IF q = c THEN None ELSE op[q]
        BY <1>2, Zenon DEF CallsTyped
    <2> QED BY <1>1, <1>2, <2>1, Zenon DEF CallsTyped
<1>3. CASE UNCHANGED op /\ pc[c] # "idle" /\ label # "idle"
    BY <1>1, <1>3, Zenon DEF CallsTyped
<1>4. ASSUME NEW o \in Ops, op' = [op EXCEPT ![c] = o], label # "idle" PROVE CallsTyped'
    <2>1. op' \in [Calls -> Ops \cup {None}] /\ \A q \in Calls : op'[q] = IF q = c THEN o ELSE op[q]
        BY <1>4, Zenon DEF CallsTyped
    <2>2. o # None
        BY ModuleSDKConstants, Zenon DEF Ops
    <2> QED BY <1>1, <1>4, <2>1, <2>2, Zenon DEF CallsTyped
<1> QED BY <1>2, <1>3, <1>4, Zenon

\* One that returns has none.
LEMMA CallReturns ==
    ASSUME CallsTyped, NEW c \in Calls, Return(c)
    PROVE  CallsTyped' /\ mu' = None
<1>1. Goto(c, "idle") /\ op' = [op EXCEPT ![c] = None] /\ mu' = None
    BY Zenon DEF Return
<1>2. "idle" \in Labels
    BY Zenon DEF Labels
<1> QED BY <1>1, <1>2, CallMoves, Zenon

\* Stop and Shutdown leave the lock, Shutdown to signal.
LEMMA CallStops ==
    ASSUME CallsTyped, NEW c \in Calls, pc[c] # "idle", Stopped(c)
    PROVE  CallsTyped' /\ mu' = None
<1>1. "idle" \in Labels /\ "signal" \in Labels /\ "signal" # "idle"
    BY Zenon DEF Labels
<1>2. CASE op[c] = "Shutdown"
    BY <1>1, <1>2, CallMoves, Zenon DEF Stopped
<1>3. CASE op[c] # "Shutdown"
    BY <1>1, <1>3, CallMoves, Zenon DEF Stopped
<1> QED BY <1>2, <1>3, Zenon

\* The failures are counted to their bound.
LEMMA FaultCounted ==
    ASSUME FaultsTyped, Fault
    PROVE  FaultsTyped'
<1>1. MaxFaults \in Nat /\ faults \in 0..MaxFaults /\ faults < MaxFaults /\ faults' = faults + 1
    BY ModuleSDKConstants, Zenon DEF FaultsTyped, Fault
<1>2. faults' \in 0..MaxFaults
    BY <1>1, SMT
<1> QED BY <1>2, Zenon DEF FaultsTyped

\* A process that has exited holds what an empty one does.
LEMMA EndTyped ==
    ASSUME TypeOK, NEW status \in {0, 1, 78}, End(status)
    PROVE  ServeTyped' /\ CallsTyped' /\ JobsTyped' /\ ScheduleTyped' /\ RestTyped'
    BY TypesFramed, ModuleSDKConstants, ZenonT(30) DEF End, ServeTyped, CallsTyped, JobsTyped,
       ScheduleTyped, RestTyped, Labels

\* Every value the runtime holds has its type, and an exit code is set exactly when the process
\* is gone.
LEMMA TypesPreserved == SDKInv /\ TypeOK /\ [Next]_vars => TypeOK'
<1> SUFFICES ASSUME SDKInv, TypeOK, [Next]_vars PROVE TypeOK'
    BY Zenon
<1>0. ServeTyped /\ CallsTyped /\ JobsTyped /\ ScheduleTyped /\ RestTyped /\ FaultsTyped
    BY TypesTogether, Zenon DEF Typed
<1>1. ASSUME NEW w \in Windows, NEW complete \in BOOLEAN, Boot(w, complete) PROVE Typed'
    <2>1. ServeTyped'
        BY <1>0, <1>1, Zenon DEF Boot, ServeTyped
    <2>2. RestTyped'
        BY <1>0, <1>1, Zenon DEF Boot, RestTyped, server, host, history
    <2> QED BY <1>0, <1>1, <2>1, <2>2, TypesFramed, Zenon DEF Boot, Typed
<1>2. ASSUME NEW w \in Windows, NEW complete \in BOOLEAN, BootFails(w, complete) PROVE Typed'
    BY <1>0, <1>2, TypesFramed, EndTyped, Zenon DEF BootFails, Typed
<1>3. ASSUME Signal PROVE Typed'
    <2>1. ServeTyped'
        BY <1>0, <1>3, Zenon DEF Signal, ServeTyped
    <2>2. RestTyped'
        BY <1>0, <1>3, Zenon DEF Signal, RestTyped, server, host, history
    <2> QED BY <1>0, <1>3, <2>1, <2>2, TypesFramed, FaultCounted, Zenon DEF Signal, Typed
<1>4. ASSUME Select PROVE Typed'
    <2>1. ServeTyped'
        BY <1>0, <1>4, Zenon DEF Select, ServeTyped
    <2>2. RestTyped'
        BY <1>0, <1>4, Zenon DEF Select, RestTyped, server, host, history
    <2> QED BY <1>0, <1>4, <2>1, <2>2, TypesFramed, Zenon DEF Select, Typed
<1>5. ASSUME ServerFails PROVE Typed'
    BY <1>0, <1>5, TypesFramed, EndTyped, FaultCounted, Zenon DEF ServerFails, Typed
<1>6. ASSUME WindDown PROVE Typed'
    <2>1. ServeTyped'
        BY <1>0, <1>6, Zenon DEF WindDown, CancelJobs, ServeTyped
    <2>2. ScheduleTyped'
        BY <1>0, <1>6, Zenon DEF WindDown, CancelJobs, ScheduleTyped
    <2>3. RestTyped'
        BY <1>0, <1>6, Zenon DEF WindDown, CancelJobs, RestTyped, server, host, history
    <2> QED BY <1>0, <1>6, <2>1, <2>2, <2>3, TypesFramed, Zenon DEF WindDown, CancelJobs, Typed
<1>7. ASSUME Exit PROVE Typed'
    BY <1>0, <1>7, TypesFramed, EndTyped, Zenon DEF Exit, Typed
<1>8. ASSUME NEW c \in Calls, NEW o \in Ops, Arrive(c, o) PROVE Typed'
    BY <1>0, <1>8, TypesFramed, CallMoves, Zenon DEF Arrive, Labels, RestTyped, Typed
<1>9. ASSUME NEW c \in Calls, Health(c) PROVE Typed'
    BY <1>0, <1>9, TypesFramed, CallMoves, Zenon DEF Health, Labels, RestTyped, Typed
<1>10. ASSUME NEW c \in Calls, InitRefused(c) PROVE Typed'
    BY <1>0, <1>10, TypesFramed, CallReturns, FaultCounted, Zenon DEF InitRefused, RestTyped, Typed
<1>11. ASSUME NEW c \in Calls, InitEnters(c) PROVE Typed'
    BY <1>0, <1>11, TypesFramed, CallMoves, Zenon DEF InitEnters, Lock, Labels, RestTyped,
       SDKInv, Sequenced, Typed
<1>12. ASSUME NEW c \in Calls, InitReturns(c) PROVE Typed'
    BY <1>0, <1>12, TypesFramed, CallReturns, Zenon DEF InitReturns, Watch, RestTyped, Typed
<1>13. ASSUME NEW c \in Calls, InitFails(c) PROVE Typed'
    BY <1>0, <1>13, TypesFramed, CallReturns, FaultCounted, Zenon DEF InitFails, RestTyped, Typed
<1>14. ASSUME NEW c \in Calls, StartRefused(c) PROVE Typed'
    BY <1>0, <1>14, TypesFramed, CallReturns, Zenon DEF StartRefused, RestTyped, Typed
<1>15. ASSUME NEW c \in Calls, StartEnters(c) PROVE Typed'
    BY <1>0, <1>15, TypesFramed, CallMoves, Zenon DEF StartEnters, Lock, Labels, RestTyped, Typed
<1>16. ASSUME NEW c \in Calls, StartReturns(c) PROVE Typed'
    BY <1>0, <1>16, TypesFramed, CallReturns, Zenon DEF StartReturns, JobsTyped, ScheduleTyped,
       RestTyped, Typed
<1>17. ASSUME NEW c \in Calls, StartFails(c) PROVE Typed'
    BY <1>0, <1>17, TypesFramed, CallReturns, FaultCounted, Zenon DEF StartFails, RestTyped, Typed
<1>18. ASSUME NEW c \in Calls, StopNothing(c) PROVE Typed'
    BY <1>0, <1>18, TypesFramed, CallStops, Zenon DEF StopNothing, Lock, RestTyped, Typed
<1>19. ASSUME NEW c \in Calls, StopEnters(c) PROVE Typed'
    <2>1. ScheduleTyped'
        BY <1>0, <1>19, Zenon DEF StopEnters, CancelJobs, ScheduleTyped
    <2>2. RestTyped'
        BY <1>0, <1>19, Zenon DEF StopEnters, CancelJobs, RestTyped, server, host, history
    <2> QED BY <1>0, <1>19, <2>1, <2>2, TypesFramed, CallMoves, Zenon DEF StopEnters, Lock,
               CancelJobs, Labels, Typed
<1>20. ASSUME NEW c \in Calls, StopWaited(c) PROVE Typed'
    BY <1>0, <1>20, TypesFramed, CallMoves, Zenon DEF StopWaited, Labels, RestTyped, Typed
<1>21. ASSUME NEW c \in Calls, StopReturns(c) PROVE Typed'
    BY <1>0, <1>21, TypesFramed, CallStops, Zenon DEF StopReturns, RestTyped, Typed
<1>22. ASSUME NEW c \in Calls, StopFails(c) PROVE Typed'
    BY <1>0, <1>22, TypesFramed, CallReturns, FaultCounted, Zenon DEF StopFails, RestTyped, Typed
<1>23. ASSUME NEW c \in Calls, Shutdown(c) PROVE Typed'
    <2>1. ServeTyped'
        BY <1>0, <1>23, Zenon DEF Shutdown, Notify, Labels, ServeTyped
    <2>2. RestTyped'
        BY <1>0, <1>23, Zenon DEF Shutdown, Notify, Labels, RestTyped, server, host, history
    <2> QED BY <1>0, <1>23, <2>1, <2>2, TypesFramed, CallMoves, Zenon DEF Shutdown, Notify,
               Labels, Typed
<1>24. ASSUME Declare PROVE Typed'
    BY <1>0, <1>24, TypesFramed, Zenon DEF Declare, RestTyped, Typed
<1>25. ASSUME NEW j \in Jobs, JobReturns(j) PROVE Typed'
    <2>1. ScheduleTyped'
        BY <1>0, <1>25, Zenon DEF JobReturns, ScheduleTyped
    <2>2. RestTyped'
        BY <1>0, <1>25, Zenon DEF JobReturns, RestTyped, server, host, history
    <2> QED BY <1>0, <1>25, <2>1, <2>2, TypesFramed, Zenon DEF JobReturns, JobsTyped, Typed
<1>26. ASSUME NEW j \in Jobs, JobTicks(j) PROVE Typed'
    <2>1. ScheduleTyped'
        BY <1>0, <1>26, Zenon DEF JobTicks, ScheduleTyped
    <2>2. RestTyped'
        BY <1>0, <1>26, Zenon DEF JobTicks, RestTyped, server, host, history
    <2> QED BY <1>0, <1>26, <2>1, <2>2, TypesFramed, Zenon DEF JobTicks, JobsTyped, Typed
<1>27. ASSUME NEW j \in Jobs, JobCancelled(j) PROVE Typed'
    <2>1. ScheduleTyped'
        BY <1>0, <1>27, Zenon DEF JobCancelled, ScheduleTyped
    <2>2. RestTyped'
        BY <1>0, <1>27, Zenon DEF JobCancelled, RestTyped, server, host, history
    <2> QED BY <1>0, <1>27, <2>1, <2>2, TypesFramed, Zenon DEF JobCancelled, JobsTyped, Typed
<1>28. ASSUME WatchdogTicks PROVE Typed'
    <2>1. ScheduleTyped'
        BY <1>0, <1>28, Zenon DEF WatchdogTicks, ScheduleTyped
    <2>2. RestTyped'
        BY <1>0, <1>28, Zenon DEF WatchdogTicks, RestTyped, server, host, history
    <2> QED BY <1>0, <1>28, <2>1, <2>2, TypesFramed, Zenon DEF WatchdogTicks, Typed
<1>29. ASSUME WatchdogEnds PROVE Typed'
    <2>1. ScheduleTyped'
        BY <1>0, <1>29, Zenon DEF WatchdogEnds, ScheduleTyped
    <2>2. RestTyped'
        BY <1>0, <1>29, Zenon DEF WatchdogEnds, RestTyped, server, host, history
    <2> QED BY <1>0, <1>29, <2>1, <2>2, TypesFramed, Zenon DEF WatchdogEnds, Typed
<1>30. ASSUME WatchdogFails PROVE Typed'
    <2>1. ScheduleTyped'
        BY <1>0, <1>30, Zenon DEF WatchdogFails, ScheduleTyped
    <2>2. RestTyped'
        BY <1>0, <1>30, Zenon DEF WatchdogFails, RestTyped, server, host, history
    <2> QED BY <1>0, <1>30, <2>1, <2>2, TypesFramed, FaultCounted, Zenon DEF WatchdogFails, Typed
<1>31. ASSUME ConnDrops PROVE Typed'
    BY <1>0, <1>31, TypesFramed, FaultCounted, Zenon DEF ConnDrops, RestTyped, Typed
<1>32. ASSUME Connect PROVE Typed'
    <2>1. RestTyped'
        BY <1>0, <1>32, Zenon DEF Connect, RestTyped, server, history
    <2> QED BY <1>0, <1>32, <2>1, TypesFramed, FaultCounted, Zenon DEF Connect, Typed
<1>33. ASSUME awaitDisconnect PROVE Typed'
    <2>1. ServeTyped'
        BY <1>0, <1>33, Zenon DEF awaitDisconnect, ServeTyped
    <2>2. RestTyped'
        BY <1>0, <1>33, Zenon DEF awaitDisconnect, RestTyped, server, host, history
    <2> QED BY <1>0, <1>33, <2>1, <2>2, TypesFramed, Zenon DEF awaitDisconnect, Typed
<1>34. ASSUME CoreDies PROVE Typed'
    BY <1>0, <1>34, TypesFramed, Zenon DEF CoreDies, RestTyped, Typed
<1>35. ASSUME UNCHANGED vars PROVE Typed'
    <2>1. RestTyped'
        BY <1>0, <1>35, Zenon DEF vars, RestTyped, server, host, history
    <2> QED BY <1>0, <1>35, <2>1, TypesFramed, Zenon DEF vars, Typed
<1>36. Typed'
    BY <1>1, <1>2, <1>3, <1>4, <1>5, <1>6, <1>7, <1>8, <1>9, <1>10, <1>11, <1>12, <1>13,
        <1>14, <1>15, <1>16, <1>17, <1>18, <1>19, <1>20, <1>21, <1>22, <1>23, <1>24, <1>25, <1>26,
        <1>27, <1>28, <1>29, <1>30, <1>31, <1>32, <1>33, <1>34, <1>35, ZenonT(30) DEF Next, Handle
<1> QED BY <1>36, TypesTogether, PTL

----------------------------------------------------------------------------
(* The results *)

\* The inductive invariant of the module runtime.
THEOREM SDKSafety == Spec => []SDKInv
BY SDKInitially, SDKPreserved, PTL DEF Spec

\* Every reachable state of a module process is type correct.
THEOREM TypeCorrect == Spec => []TypeOK
<1>1. Init => TypeOK
    <2> SUFFICES ASSUME Init PROVE TypeOK
        BY Zenon
    <2>1. faults \in 0..MaxFaults
        BY ModuleSDKConstants DEF Init
    <2>2. /\ exit \in {None, 0, 1, 78} /\ (exit # None <=> proc = "exited")
          /\ {shutdown, hostLost, sig, watching, jobCancel, ctxDone, started} \subseteq BOOLEAN
        BY Zenon DEF Init
    <2> QED
        BY <2>1, <2>2, Zenon DEF Init, TypeOK
<1> QED
    BY <1>1, TypesPreserved, SDKSafety, PTL DEF Spec

\* Init, Start and Stop reach the Module one at a time and in that order (lifecycle.go:13), for
\* any number of overlapping calls of core and any failures.
THEOREM OneCallbackAtATime == Spec => []CallbacksInSequence
<1>1. SDKInv => CallbacksInSequence
    <2> SUFFICES ASSUME SDKInv PROVE CallbacksInSequence
        BY Zenon
    <2> DEFINE inside(label) == {c \in Calls : pc[c] = label}
               busy == inside("m.Init") \cup inside("m.Start") \cup inside("m.Stop")
    <2>1. busy \subseteq {mu}
        BY Zenon DEF SDKInv, Locked, Held
    <2>2. Cardinality(busy) <= 1
        <3>1. IsFiniteSet({mu}) /\ Cardinality({mu}) = 1
            BY FS_Singleton, Zenon
        <3> QED
            BY <2>1, <3>1, FS_Subset, Zenon
    <2>3. /\ inside("m.Init") # {} => done = {}
          /\ inside("m.Start") # {} => done = {"Init"}
          /\ inside("m.Stop") # {} => done = {"Init", "Start"}
        BY Zenon DEF SDKInv, Sequenced
    <2> QED
        BY <2>2, <2>3, Zenon DEF CallbacksInSequence
<1> QED
    BY <1>1, SDKSafety, PTL

\* No job and no ping loop runs before Start succeeded, inside m.Stop or after it
\* (hostclient.go:463), for any number of jobs.
THEOREM NothingRunsUnstarted == Spec => []JobsOnlyWhileStarted
<1>1. SDKInv => JobsOnlyWhileStarted
    BY Zenon DEF SDKInv, Shapes, Sequenced, JobsOwned, Active, JobsOnlyWhileStarted
<1> QED
    BY <1>1, SDKSafety, PTL

\* A process that winds down has answered every call (serve.go:130).
THEOREM AnsweredBeforeExit == Spec => []WindsDownAnswered
<1>1. SDKInv => WindsDownAnswered
    BY Zenon DEF SDKInv, Shapes, Locked, Held, Answered, WindsDownAnswered
<1> QED
    BY <1>1, SDKSafety, PTL

-----------------------------------------------------------------------------
(* The harness that launches a module under test *)

\* Where Launch's caller, the process and the reader can be at once: a holder has a line, so the
\* reader that reaps met none; and a launch that is over has ended what it started.
HarnessInv ==
    /\ harness \in {"idle", "select", "held", "waiting", "ending", "over"}
    /\ child \in {"none", "running", "exited", "killed"}
    /\ harness \in {"idle", "select"} => outcome = "none"
    /\ harness \in {"held", "waiting", "ending"} => outcome = "proc"
    /\ outcome = "proc" => stdout # << >>
    /\ harness = "idle" => child = "none" /\ hostServer = "off"
    /\ child = "none" => stdout = << >> /\ reader = "none"
    /\ reader = "wait" => stdout = << >>
    /\ errCh => stdout = << >> /\ Ended
    /\ lineCh # << >> => stdout # << >>
    /\ HarnessSettles

\* Every step of the caller, of the reader and of the module keeps it.
LEMMA HarnessStep == HarnessInv /\ [StubNext]_stubVars => HarnessInv'
<1> SUFFICES ASSUME HarnessInv, [StubNext]_stubVars PROVE HarnessInv'
    BY Zenon
<1> USE DEF HarnessInv, HarnessSettles, Ended, process, channels
<1>1. CASE ListenFails \/ SpawnFails \/ Spawn
    BY <1>1 DEF ListenFails, SpawnFails, Spawn
<1>2. ASSUME NEW l \in StubLines, ModulePrints(l) PROVE HarnessInv'
    BY <1>2, Zenon DEF ModulePrints
<1>3. ASSUME NEW c \in ExitCodes, ModuleExits(c) PROVE HarnessInv'
    BY <1>3, Zenon DEF ModuleExits
<1>4. CASE Scan \/ DrainEnds \/ ScanEnds \/ Reaped
    <2>1. CASE Scan
        BY <2>1, SMT DEF Scan
    <2>2. CASE DrainEnds \/ ScanEnds
        BY <2>2, SMT DEF DrainEnds, AfterDrain, ScanEnds
    <2>3. CASE Reaped
        BY <2>3, SMT DEF Reaped
    <2> QED BY <1>4, <2>1, <2>2, <2>3, Zenon
<1>5. CASE TakeLine \/ LaunchTimesOut
    BY <1>5 DEF TakeLine, LaunchTimesOut, GiveUp, KillProcess
<1>6. CASE TakeErr
    BY <1>6, Zenon DEF TakeErr, Refused, ExitProtocolUnsupported
<1>7. CASE WaitExit \/ WaitCancelled \/ Kill \/ Waited
    BY <1>7 DEF WaitExit, WaitCancelled, Kill, Waited, KillProcess
<1>8. CASE UNCHANGED stubVars
    BY <1>8, Zenon DEF stubVars
<1> QED BY <1>1, <1>2, <1>3, <1>4, <1>5, <1>6, <1>7, <1>8, Zenon DEF StubNext

\* Whichever of the reader, the timeout, the holder and the module's exit wins, a harness that is
\* done leaves no process and no server, reports a refusal only for an exit with 78, and the
\* process never has two waiters; for any lines a module prints and any codes it exits with.
THEOREM HarnessAlwaysSettles == StubSpec => []HarnessSettles
<1>1. StubInit => HarnessInv
    BY Zenon DEF StubInit, HarnessInv, HarnessSettles, Ended
<1>2. HarnessInv => HarnessSettles
    BY Zenon DEF HarnessInv
<1> QED BY <1>1, <1>2, HarnessStep, PTL DEF StubSpec

-----------------------------------------------------------------------------
(* The host services of the harness *)

\* The elements of a sequence are its head and those of its tail.
LEMMA RangeTail ==
    ASSUME NEW S, NEW s \in Seq(S), s # << >>
    PROVE  /\ Head(s) \in S /\ Tail(s) \in Seq(S)
           /\ Range(s) = {Head(s)} \cup Range(Tail(s))
           /\ Len(s) = 1 => Range(Tail(s)) = {}
           /\ Len(s) # 1 => Tail(s) # << >>
<1>1. Head(s) \in S /\ Tail(s) \in Seq(S) /\ Len(Tail(s)) = Len(s) - 1
    OBVIOUS
<1>2. ASSUME NEW i \in DOMAIN s PROVE s[i] \in {Head(s)} \cup Range(Tail(s))
    <2>1. CASE i # 1
        <3>1. i - 1 \in DOMAIN Tail(s) /\ Tail(s)[i - 1] = s[i]
            BY <2>1
        <3> QED BY <3>1, Zenon DEF Range
    <2> QED BY <2>1
<1>3. ASSUME NEW i \in DOMAIN Tail(s) PROVE Tail(s)[i] \in Range(s)
    <2>1. i + 1 \in DOMAIN s /\ s[i + 1] = Tail(s)[i]
        OBVIOUS
    <2> QED BY <2>1, Zenon DEF Range
<1>4. Head(s) \in Range(s)
    <2>1. 1 \in DOMAIN s /\ s[1] = Head(s)
        OBVIOUS
    <2> QED BY <2>1, Zenon DEF Range
<1>5. Range(s) = {Head(s)} \cup Range(Tail(s))
    BY <1>2, <1>3, <1>4, Zenon DEF Range
<1>6. ASSUME Len(s) = 1 PROVE Range(Tail(s)) = {}
    <2>1. Len(Tail(s)) = 0 /\ DOMAIN Tail(s) = 1..Len(Tail(s))
        BY <1>1, <1>6
    <2>2. 1..0 = {}
        OBVIOUS
    <2> QED BY <2>1, <2>2, Zenon DEF Range
<1>7. Len(s) # 1 => Len(Tail(s)) # 0
    BY <1>1
<1>8. Len(<< >>) = 0
    BY Zenon
<1> QED BY <1>1, <1>5, <1>6, <1>7, <1>8, Zenon

\* ... and after an Append those it had and the new one.
LEMMA RangeAppend ==
    ASSUME NEW S, NEW s \in Seq(S), NEW e
    PROVE  Range(Append(s, e)) = Range(s) \cup {e}
<1>1. ASSUME NEW i \in DOMAIN s PROVE s[i] \in Range(Append(s, e))
    <2>1. i \in DOMAIN Append(s, e) /\ Append(s, e)[i] = s[i]
        OBVIOUS
    <2> QED BY <2>1, Zenon DEF Range
<1>2. e \in Range(Append(s, e))
    <2>1. Len(s) + 1 \in DOMAIN Append(s, e) /\ Append(s, e)[Len(s) + 1] = e
        OBVIOUS
    <2> QED BY <2>1, Zenon DEF Range
<1>3. ASSUME NEW i \in DOMAIN Append(s, e) PROVE Append(s, e)[i] \in Range(s) \cup {e}
    <2>1. CASE i \in DOMAIN s
        BY <2>1 DEF Range
    <2>2. CASE i = Len(s) + 1
        BY <2>2
    <2> QED BY <2>1, <2>2
<1> QED BY <1>1, <1>2, <1>3, Zenon DEF Range
-----------------------------------------------------------------------------

\* No wake-up is on its way to a watcher.
Unwoken(w) == ~notify[w] /\ \A c \in Callers : w \notin Range(ring[c])

WatchType ==
    /\ policyRevision \in Nat /\ policyWatchers \in Seq(Watchers)
    /\ ring \in [Callers -> Seq(Watchers)] /\ notify \in [Watchers -> BOOLEAN]
    /\ watch \in [Watchers -> {"closed", "reading", "sending", "parked", "gone"}]
    /\ inHand \in [Watchers -> Nat] /\ sent \in [Watchers -> Nat] /\ shown \in [Watchers -> Nat]

\* A stream is registered before it reads, and what it read or sent is out of date only while a
\* wake-up is on its way.
WatcherAt(w) ==
    /\ watch[w] # "closed" => w \in Range(policyWatchers)
    /\ shown[w] = sent[w] /\ sent[w] <= policyRevision + 1
    /\ Unwoken(w) /\ watch[w] = "parked" => sent[w] = policyRevision + 1
    /\ inHand[w] <= policyRevision
    /\ Unwoken(w) /\ watch[w] = "sending" => inHand[w] = policyRevision

WatchInv == WatchType /\ \A w \in Watchers : WatcherAt(w)

\* The types, and what a step of one watcher leaves of the others.
LEMMA WatchTypeStep == WatchType /\ [PolicyNext]_policyVars => WatchType'
<1> SUFFICES ASSUME WatchType, [PolicyNext]_policyVars PROVE WatchType'
    BY Zenon
<1>1. ASSUME NEW c \in Callers, SetPolicy(c) PROVE WatchType'
    BY <1>1 DEF SetPolicy, WatchType, watcher
<1>2. ASSUME NEW c \in Callers, WakeOne(c) PROVE WatchType'
    <2>1. ring[c] \in Seq(Watchers) /\ ring[c] # << >>
        BY <1>2, Zenon DEF WatchType, WakeOne
    <2>2. Head(ring[c]) \in Watchers /\ Tail(ring[c]) \in Seq(Watchers)
        BY <2>1, SMTT(20)
    <2> QED BY <1>2, <2>2, Zenon DEF WakeOne, WatchType
<1>3. ASSUME NEW v \in Watchers, OpenWatch(v) PROVE WatchType'
    BY <1>3 DEF OpenWatch, WatchType
<1>4. ASSUME NEW v \in Watchers, ReadPolicy(v) PROVE WatchType'
    BY <1>4, Zenon DEF ReadPolicy, WatchType
<1>5. ASSUME NEW v \in Watchers, SendPolicy(v) PROVE WatchType'
    BY <1>5, SMTT(20) DEF SendPolicy, WatchType
<1>6. ASSUME NEW v \in Watchers, Woken(v) \/ CloseWatch(v) PROVE WatchType'
    <2>1. CASE Woken(v)
        BY <2>1, Zenon DEF Woken, WatchType
    <2>2. CASE CloseWatch(v)
        BY <2>2, Zenon DEF CloseWatch, WatchType
    <2> QED BY <1>6, <2>1, <2>2, Zenon
<1>7. CASE UNCHANGED policyVars
    BY <1>7, Zenon DEF policyVars, WatchType
<1> QED BY <1>1, <1>2, <1>3, <1>4, <1>5, <1>6, <1>7, Zenon DEF PolicyNext

\* Every step of SetPolicy and of Watch keeps what is known of a watcher.
LEMMA WatchStep == WatchInv /\ [PolicyNext]_policyVars => WatchInv'
<1> SUFFICES ASSUME WatchInv, [PolicyNext]_policyVars, NEW w \in Watchers PROVE WatcherAt(w)'
    BY WatchTypeStep, Zenon DEF WatchInv
<1>0. WatchType /\ WatcherAt(w)
    BY Zenon DEF WatchInv
<1>t. /\ policyRevision \in Nat /\ inHand[w] \in Nat /\ sent[w] \in Nat
      /\ watch[w] \in {"closed", "reading", "sending", "parked", "gone"}
    BY <1>0, ZenonT(30) DEF WatchType
<1>1. ASSUME NEW c \in Callers, SetPolicy(c) PROVE WatcherAt(w)'
    <2>1. w \in Range(policyWatchers) => ~Unwoken(w)'
        BY <1>0, <1>1, Zenon DEF WatchType, SetPolicy, Unwoken
    <2>2. /\ policyRevision' = policyRevision + 1 /\ watch' = watch /\ inHand' = inHand
          /\ sent' = sent /\ shown' = shown /\ policyWatchers' = policyWatchers
        BY <1>1, Zenon DEF SetPolicy, watcher
    <2>3. sent[w] <= policyRevision + 1 /\ inHand[w] <= policyRevision
        BY <1>0, Zenon DEF WatcherAt
    <2>4. sent[w] <= policyRevision' + 1 /\ inHand[w] <= policyRevision'
        BY <1>t, <2>2, <2>3, SMT
    <2> QED BY <1>0, <2>1, <2>2, <2>4, Zenon DEF WatcherAt
<1>2. ASSUME NEW c \in Callers, WakeOne(c) PROVE WatcherAt(w)'
    <2>1. ring[c] \in Seq(Watchers) /\ ring[c] # << >>
        BY <1>0, <1>2, Zenon DEF WatchType, WakeOne
    <2>2. Range(ring[c]) = {Head(ring[c])} \cup Range(Tail(ring[c])) /\ Head(ring[c]) \in Watchers
        BY <2>1, RangeTail, Zenon
    <2>3. Unwoken(w)' => Unwoken(w)
        BY <1>0, <1>2, <2>2, Zenon DEF WakeOne, Unwoken, WatchType
    <2>4. UNCHANGED <<policyRevision, policyWatchers, watch, inHand, sent, shown>>
        BY <1>2, Zenon DEF WakeOne
    <2> QED BY <1>0, <2>3, <2>4, Zenon DEF WatcherAt
<1>3. ASSUME NEW v \in Watchers, OpenWatch(v) PROVE WatcherAt(w)'
    <2>1. Range(policyWatchers') = Range(policyWatchers) \cup {v}
        BY <1>0, <1>3, RangeAppend, Zenon DEF OpenWatch, WatchType
    <2>2. /\ Unwoken(w)' <=> Unwoken(w)
          /\ UNCHANGED <<policyRevision, inHand, sent, shown>>
          /\ watch'[w] = IF w = v THEN "reading" ELSE watch[w]
        BY <1>0, <1>3, Zenon DEF OpenWatch, Unwoken, WatchType
    <2> QED BY <1>0, <2>1, <2>2, Zenon DEF WatcherAt
<1>4. ASSUME NEW v \in Watchers, ReadPolicy(v) PROVE WatcherAt(w)'
    <2>1. /\ Unwoken(w)' <=> Unwoken(w)
          /\ UNCHANGED <<policyRevision, policyWatchers, sent, shown>>
        BY <1>4, ZenonT(30) DEF ReadPolicy, Unwoken
    <2>2. CASE w = v
        <3>1. /\ inHand'[w] = policyRevision /\ watch[w] = "reading"
              /\ watch'[w] = IF policyRevision >= sent[w] THEN "sending" ELSE "parked"
            BY <1>0, <1>4, <2>2, Zenon DEF ReadPolicy, Due, WatchType
        <3>2. sent[w] <= policyRevision + 1
            BY <1>0, Zenon DEF WatcherAt
        <3>3. /\ ~(policyRevision >= sent[w]) => sent[w] = policyRevision + 1
              /\ policyRevision <= policyRevision
            BY <1>t, <3>2, SMT
        <3> QED BY <1>0, <2>1, <3>1, <3>3, Zenon DEF WatcherAt
    <2>3. CASE w # v
        <3>1. inHand'[w] = inHand[w] /\ watch'[w] = watch[w]
            BY <1>0, <1>4, <2>3, Zenon DEF ReadPolicy, WatchType
        <3> QED BY <1>0, <2>1, <3>1, Zenon DEF WatcherAt
    <2> QED BY <2>2, <2>3, Zenon
<1>5. ASSUME NEW v \in Watchers, SendPolicy(v) PROVE WatcherAt(w)'
    <2>1. /\ Unwoken(w)' <=> Unwoken(w)
          /\ UNCHANGED <<policyRevision, policyWatchers, inHand>>
        BY <1>5, ZenonT(30) DEF SendPolicy, Unwoken
    <2>2. CASE w = v
        <3>1. /\ sent'[w] = inHand[w] + 1 /\ shown'[w] = inHand[w] + 1
              /\ watch[w] = "sending" /\ watch'[w] = "parked"
            BY <1>0, <1>5, <2>2, Zenon DEF SendPolicy, WatchType
        <3>2. inHand[w] <= policyRevision
            BY <1>0, Zenon DEF WatcherAt
        <3>3. inHand[w] + 1 <= policyRevision + 1
            BY <1>t, <3>2, SMT
        <3> QED BY <1>0, <2>1, <3>1, <3>3, Zenon DEF WatcherAt
    <2>3. CASE w # v
        <3>1. sent'[w] = sent[w] /\ shown'[w] = shown[w] /\ watch'[w] = watch[w]
            BY <1>0, <1>5, <2>3, Zenon DEF SendPolicy, WatchType
        <3> QED BY <1>0, <2>1, <3>1, Zenon DEF WatcherAt
    <2> QED BY <2>2, <2>3, Zenon
<1>6. ASSUME NEW v \in Watchers, Woken(v) \/ CloseWatch(v) PROVE WatcherAt(w)'
    <2>1. /\ UNCHANGED <<policyRevision, policyWatchers, inHand, sent, shown>>
          /\ w = v => watch[w] # "closed" /\ watch'[w] \in {"reading", "gone"}
          /\ w # v => watch'[w] = watch[w] /\ (Unwoken(w)' <=> Unwoken(w))
        BY <1>0, <1>6, Zenon DEF Woken, CloseWatch, WatchType, Unwoken
    <2> QED BY <1>0, <2>1, Zenon DEF WatcherAt
<1>7. CASE UNCHANGED policyVars
    BY <1>0, <1>7, Zenon DEF policyVars, WatcherAt, Unwoken
<1> QED BY <1>1, <1>2, <1>3, <1>4, <1>5, <1>6, <1>7, ZenonT(30) DEF PolicyNext

\* However SetPolicy calls, reads and sends interleave, a Watch stream that sleeps with no wake-up
\* on its way has sent the document in force; for any number of callers and streams.
THEOREM StubWatchAlwaysCurrent == PolicySpec => []StubWatchIsCurrent
<1>1. PolicyInit => WatchInv
    BY DEF PolicyInit, WatchInv, WatchType, WatcherAt, Unwoken
<1>2. WatchInv => StubWatchIsCurrent
    BY Zenon DEF WatchInv, WatcherAt, StubWatchIsCurrent, Unwoken
<1> QED BY <1>1, <1>2, WatchStep, PTL DEF PolicySpec

-----------------------------------------------------------------------------

\* Whether core's bus would offer a listener an event, what it was offered, and whether an event
\* is still to be offered to it.
Wants(l, i) == matches(patterns[l] \ {<<Star>>}, events[i])
Offered(l) == Range(ch[l]) \cup seen[l] \cup lost[l]
Owed(l, i) == \E c \in Callers : fanout[c].event = i /\ l \in Range(fanout[c].left)

EventsType ==
    /\ events \in Seq(StubTopics) /\ subscribers \in Seq(Listeners)
    /\ fanout \in [Callers -> [event : Nat, left : Seq(Listeners)]]
    /\ patterns \in [Listeners -> SUBSET Seq(STRING)]
    /\ ch \in [Listeners -> Seq(Nat)] /\ from \in [Listeners -> Nat]
    /\ seen \in [Listeners -> SUBSET Nat] /\ lost \in [Listeners -> SUBSET Nat]

\* A fan-out under way is of a recorded event and goes to subscribers.
FanoutAt(c) ==
    /\ fanout[c] = Idle \/ (fanout[c].event \in 1..Len(events) /\ fanout[c].left # << >>)
    /\ Range(fanout[c].left) \subseteq Range(subscribers)

\* A listener was offered recorded events it matches and no other, and of those since it
\* subscribed each one, unless a fan-out still has to reach it.
ListenerAt(l) ==
    /\ l \notin Range(subscribers) => Offered(l) = {}
    /\ \A i \in Offered(l) : i \in 1..Len(events) /\ Wants(l, i)
    /\ l \in Range(subscribers) =>
          \A i \in 1..Len(events) : i > from[l] /\ Wants(l, i) => Owed(l, i) \/ i \in Offered(l)

EventsInv ==
    /\ EventsType
    /\ \A c \in Callers : FanoutAt(c)
    /\ \A l \in Listeners : ListenerAt(l)

\* What a fan-out is, under way or not.
LEMMA FanoutTyped ==
    /\ Idle \in [event : Nat, left : Seq(Listeners)] /\ Range(Idle.left) = {}
    /\ \A e \in Nat, q \in Seq(Listeners) :
          [event |-> e, left |-> q] \in [event : Nat, left : Seq(Listeners)]
<1>1. Idle \in [event : Nat, left : Seq(Listeners)] /\ Range(Idle.left) = {}
    BY DEF Idle, Range
<1>2. ASSUME NEW e \in Nat, NEW q \in Seq(Listeners)
      PROVE  [event |-> e, left |-> q] \in [event : Nat, left : Seq(Listeners)]
    OBVIOUS
<1> QED BY <1>1, <1>2, Zenon

\* The harness matches as the bus of core does, but for a pattern that is a star alone.
LEMMA TopicMatches ==
    ASSUME NEW pats \in SUBSET Seq(STRING), NEW t \in StubTopics
    PROVE  topicMatches(pats, t) <=> matches(pats \ {<<Star>>}, t)
<1>1. ASSUME NEW p \in pats, p # <<Star>>, IsGlob(p) PROVE Len(p) > 1
    <2>1. Len(p) = 1 => p = <<Star>>
        BY <1>1 DEF IsGlob
    <2> QED BY <1>1, <2>1 DEF IsGlob
<1>2. t # <<Star>>
    BY StubHostAssumption, Zenon
<1>3. ASSUME NEW p \in pats, Len(p) > 1 PROVE p # <<Star>>
    <2> SUFFICES ASSUME p = <<Star>> PROVE FALSE
        BY Zenon
    <2>1. Len(p) = 1
        BY Zenon
    <2> QED BY <1>3, <2>1
<1> QED BY <1>1, <1>2, <1>3, Zenon DEF topicMatches, matches

\* Publish, up to the unlock: the new event is owed to every subscriber.
LEMMA RecordInv ==
    ASSUME EventsInv, NEW c \in Callers, NEW t \in StubTopics, Record(c, t)
    PROVE  EventsInv'
<1>0. EventsType /\ UNCHANGED <<subscribers, patterns, ch, from, seen, lost>>
    BY Zenon DEF EventsInv, Record, listener
<1>1. events \in Seq(StubTopics) /\ subscribers \in Seq(Listeners) /\ events' = Append(events, t)
    BY <1>0, Zenon DEF EventsType, Record
<1>2. /\ events' \in Seq(StubTopics) /\ Len(events) \in Nat /\ Len(events') = Len(events) + 1
      /\ \A i \in 1..Len(events) : events'[i] = events[i]
    BY <1>1
<1>b. Len(events) + 1 \in 1..Len(events') /\ \A i \in 1..Len(events) : i \in 1..Len(events')
    BY <1>2, SMT
<1> DEFINE f == IF subscribers = << >> THEN Idle
                ELSE [event |-> Len(events) + 1, left |-> subscribers]
<1>3. /\ fanout[c] = Idle /\ fanout' = [fanout EXCEPT ![c] = f]
      /\ fanout \in [Callers -> [event : Nat, left : Seq(Listeners)]]
    BY <1>0, Zenon DEF Record, EventsType
<1>4. /\ f \in [event : Nat, left : Seq(Listeners)]
      /\ subscribers = << >> => f = Idle
      /\ subscribers # << >> => f.event = Len(events) + 1 /\ f.left = subscribers
    BY <1>1, <1>2 DEF Idle
<1> HIDE DEF f
<1>a. fanout' \in [Callers -> [event : Nat, left : Seq(Listeners)]]
    BY <1>3, <1>4, Zenon
<1>5. EventsType'
    BY <1>0, <1>2, <1>a, Zenon DEF EventsType
<1>6. (\A d \in Callers \ {c} : fanout'[d] = fanout[d]) /\ fanout'[c] = f
    BY <1>3, Zenon
<1>7. ASSUME NEW d \in Callers PROVE FanoutAt(d)'
    <2>1. FanoutAt(d)
        BY ZenonT(30) DEF EventsInv
    <2>2. CASE d # c
        BY <1>0, <1>6, <1>b, <2>1, <2>2, Zenon DEF FanoutAt
    <2>3. CASE d = c /\ subscribers = << >>
        BY <1>0, <1>3, <1>4, <1>6, <2>1, <2>3, ZenonT(30) DEF FanoutAt
    <2>4. CASE d = c /\ subscribers # << >>
        BY <1>0, <1>4, <1>6, <1>b, <2>4, Zenon DEF FanoutAt
    <2> QED BY <2>2, <2>3, <2>4, Zenon
<1>8. ASSUME NEW l \in Listeners, NEW i \in 1..Len(events), Owed(l, i) PROVE Owed(l, i)'
    <2> PICK d \in Callers : fanout[d].event = i /\ l \in Range(fanout[d].left)
        BY <1>8, ZenonT(30) DEF Owed
    <2>1. d # c
        <3>1. Idle.event = 0 /\ i # 0
            BY DEF Idle
        <3> QED BY <1>3, <3>1, Zenon
    <2> QED BY <1>6, <2>1, Zenon DEF Owed
<1>9. ASSUME NEW l \in Range(subscribers), NEW i, i = Len(events) + 1 PROVE Owed(l, i)'
    <2>1. subscribers # << >>
        BY DEF Range
    <2> QED BY <1>4, <1>6, <1>9, <2>1, Zenon DEF Owed
<1>10. ASSUME NEW l \in Listeners PROVE ListenerAt(l)'
    <2>1. ListenerAt(l) /\ Offered(l)' = Offered(l)
        BY <1>0, Zenon DEF EventsInv, Offered
    <2>2. \A i \in 1..Len(events) : Wants(l, i)' <=> Wants(l, i)
        BY <1>0, <1>2, ZenonT(30) DEF Wants
    <2>3. \A i \in Offered(l)' : i \in 1..Len(events') /\ Wants(l, i)'
        BY <1>b, <2>1, <2>2, Zenon DEF ListenerAt
    <2>4. ASSUME l \in Range(subscribers), NEW i \in 1..Len(events'), i > from[l], Wants(l, i)'
          PROVE  Owed(l, i)' \/ i \in Offered(l)'
        <3>1. CASE i = Len(events) + 1
            BY <1>9, <2>4, <3>1, Zenon
        <3>2. CASE i \in 1..Len(events)
            BY <1>8, <2>1, <2>2, <2>4, <3>2, Zenon DEF ListenerAt
        <3>3. i = Len(events) + 1 \/ i \in 1..Len(events)
            BY <1>2, <2>4, SMT
        <3> QED BY <3>1, <3>2, <3>3, Zenon
    <2> QED BY <1>0, <2>1, <2>3, <2>4, Zenon DEF ListenerAt
<1> QED BY <1>5, <1>7, <1>10, Zenon DEF EventsInv

\* The next subscriber of a fan-out.
LEMMA OfferInv ==
    ASSUME EventsInv, NEW c \in Callers, StubOffer(c)
    PROVE  EventsInv'
<1> DEFINE i == fanout[c].event
           s == fanout[c].left
           h == Head(s)
           wanted == topicMatches(patterns[h], events[i])
<1>0. EventsType /\ UNCHANGED <<events, subscribers, patterns, from, seen>>
    BY Zenon DEF EventsInv, StubOffer
<1>1. /\ i \in 1..Len(events) /\ s \in Seq(Listeners) /\ s # << >>
      /\ Range(s) \subseteq Range(subscribers)
    BY <1>0, Zenon DEF EventsInv, EventsType, FanoutAt, StubOffer
<1>2. /\ h \in Listeners /\ Tail(s) \in Seq(Listeners) /\ Range(s) = {h} \cup Range(Tail(s))
      /\ Len(s) = 1 => Range(Tail(s)) = {}
      /\ Len(s) # 1 => Tail(s) # << >>
    <2> HIDE DEF s
    <2> QED BY <1>1, RangeTail, Zenon
<1>3. wanted <=> Wants(h, i)
    <2>1. patterns \in [Listeners -> SUBSET Seq(STRING)] /\ events \in Seq(StubTopics)
        BY <1>0, Zenon DEF EventsType
    <2> HIDE DEF i, s, h
    <2>2. patterns[h] \in SUBSET Seq(STRING)
        BY <1>2, <2>1, Zenon
    <2>3. events[i] \in StubTopics
        BY <1>1, <2>1
    <2> QED BY <2>2, <2>3, TopicMatches, Zenon DEF Wants, wanted
<1>4. \/ ch' = [ch EXCEPT ![h] = Append(@, i)] /\ wanted /\ lost' = lost
      \/ lost' = [lost EXCEPT ![h] = @ \cup {i}] /\ wanted /\ ch' = ch
      \/ ~wanted /\ ch' = ch /\ lost' = lost
    <2>1. ch \in [Listeners -> Seq(Nat)] /\ lost \in [Listeners -> SUBSET Nat]
        BY <1>0, Zenon DEF EventsType
    <2>2. /\ ch' = [ch EXCEPT ![h] = IF wanted /\ ~(Len(ch[h]) >= StubCap) THEN Append(@, i) ELSE @]
          /\ lost' = [lost EXCEPT ![h] = IF wanted /\ Len(ch[h]) >= StubCap THEN @ \cup {i} ELSE @]
        BY Zenon DEF StubOffer
    <2> HIDE DEF i, s, h, wanted
    <2> QED BY <1>2, <2>1, <2>2, Zenon
<1>5. fanout' = [fanout EXCEPT ![c] = IF Len(s) = 1 THEN Idle ELSE [event |-> i, left |-> Tail(s)]]
    BY Zenon DEF StubOffer
<1> HIDE DEF wanted
<1>6. EventsType'
    <2>1. fanout' \in [Callers -> [event : Nat, left : Seq(Listeners)]]
        <3>1. i \in Nat
            BY <1>1, SMT
        <3> HIDE DEF i, s, h
        <3> QED BY <1>0, <1>2, <1>5, <3>1, FanoutTyped, Zenon DEF EventsType
    <2>2. ch \in [Listeners -> Seq(Nat)] /\ lost \in [Listeners -> SUBSET Nat]
        BY <1>0, Zenon DEF EventsType
    <2> HIDE DEF i, s, h
    <2>a. i \in Nat /\ (h \in Listeners => Append(ch[h], i) \in Seq(Nat))
        BY <1>1, <2>2
    <2>3. ch' \in [Listeners -> Seq(Nat)]
        BY <1>4, <2>2, <2>a, Zenon
    <2>4. lost' \in [Listeners -> SUBSET Nat]
        BY <1>4, <2>2, <2>a, Zenon
    <2> QED BY <1>0, <2>1, <2>3, <2>4, ZenonT(30) DEF EventsType
<1>7. /\ \A d \in Callers \ {c} : fanout'[d] = fanout[d]
      /\ Len(s) = 1 => fanout'[c] = Idle
      /\ Len(s) # 1 => fanout'[c].event = i /\ fanout'[c].left = Tail(s)
    BY <1>0, <1>5, Zenon DEF EventsType
<1> DEFINE i2 == i  s2 == s
<1>8. i2 = fanout[c].event /\ s2 = fanout[c].left /\ fanout[c].event = i /\ fanout[c].left = s
    BY Zenon
<1> HIDE DEF i, s, h
<1>9. ASSUME NEW d \in Callers PROVE FanoutAt(d)'
    <2>1. FanoutAt(d)
        BY Zenon DEF EventsInv
    <2>2. CASE d # c
        BY <1>0, <1>7, <2>1, <2>2, ZenonT(30) DEF FanoutAt
    <2>3. CASE d = c /\ Len(s) = 1
        BY <1>7, <2>3, FanoutTyped, Zenon DEF FanoutAt
    <2>4. CASE d = c /\ Len(s) # 1
        <3>1. fanout'[d].event \in 1..Len(events') /\ fanout'[d].left # << >>
            BY <1>0, <1>1, <1>2, <1>7, <2>4, Zenon
        <3>2. Range(fanout'[d].left) \subseteq Range(subscribers')
            BY <1>0, <1>1, <1>2, <1>7, <2>4, Zenon
        <3> QED BY <3>1, <3>2, Zenon DEF FanoutAt
    <2> QED BY <2>2, <2>3, <2>4, Zenon
<1>10. ASSUME NEW l \in Listeners
       PROVE  Offered(l)' = IF l = h /\ wanted THEN Offered(l) \cup {i} ELSE Offered(l)
    <2>1. ch \in [Listeners -> Seq(Nat)] /\ lost \in [Listeners -> SUBSET Nat] /\ i \in Nat
        <3>1. i \in Nat
            BY <1>1, SMT
        <3> QED BY <1>0, <3>1, Zenon DEF EventsType
    <2>2. CASE ch' = [ch EXCEPT ![h] = Append(@, i)] /\ wanted /\ lost' = lost
        <3>0. ch[h] \in Seq(Nat)
            BY <1>2, <2>1, Zenon
        <3>1. Range(Append(ch[h], i)) = Range(ch[h]) \cup {i}
            BY <3>0, RangeAppend, Zenon
        <3>2. ch'[l] = IF l = h THEN Append(ch[h], i) ELSE ch[l]
            BY <1>2, <2>1, <2>2, Zenon
        <3> QED BY <1>0, <2>2, <3>1, <3>2, Zenon DEF Offered
    <2>3. CASE lost' = [lost EXCEPT ![h] = @ \cup {i}] /\ wanted /\ ch' = ch
        BY <1>0, <1>2, <2>1, <2>3, Zenon DEF Offered
    <2>4. CASE ~wanted /\ ch' = ch /\ lost' = lost
        BY <1>0, <2>4, Zenon DEF Offered
    <2> QED BY <1>4, <2>2, <2>3, <2>4, ZenonT(30)
<1>11. ASSUME NEW l \in Listeners, NEW j, Owed(l, j) PROVE Owed(l, j)' \/ (l = h /\ j = i)
    <2> PICK d \in Callers : fanout[d].event = j /\ l \in Range(fanout[d].left)
        BY <1>11, Zenon DEF Owed
    <2>1. CASE d # c
        BY <1>7, <2>1, Zenon DEF Owed
    <2>2. CASE d = c /\ l # h
        <3>1. Len(s) # 1 /\ l \in Range(Tail(s)) /\ i = j
            <4>1. i = j /\ l \in Range(s)
                BY <1>8, <2>2, Zenon
            <4> QED BY <1>2, <2>2, <4>1, SMTT(20)
        <3> QED BY <1>7, <3>1, Zenon DEF Owed
    <2>3. d = c => i = j
        BY <1>8, Zenon
    <2> QED BY <2>1, <2>2, <2>3, Zenon
<1>12. ASSUME NEW l \in Listeners PROVE ListenerAt(l)'
    <2>1. l = h => l \in Range(subscribers)
        BY <1>1, <1>2, Zenon
    <2>2. ListenerAt(l) /\ \A j : Wants(l, j)' <=> Wants(l, j)
        BY <1>0, Zenon DEF Wants, EventsInv
    <2>3. \A j \in Offered(l)' : j \in 1..Len(events') /\ Wants(l, j)'
        BY <1>0, <1>1, <1>3, <1>10, <2>2, Zenon DEF ListenerAt
    <2>4. ASSUME l \in Range(subscribers), NEW j \in 1..Len(events), j > from[l], Wants(l, j)
          PROVE  Owed(l, j)' \/ j \in Offered(l)'
        BY <1>3, <1>10, <1>11, <2>2, <2>4, Zenon DEF ListenerAt
    <2>5. l \notin Range(subscribers) => Offered(l)' = {}
        BY <1>10, <2>1, <2>2, Zenon DEF ListenerAt
    <2> QED BY <1>0, <2>2, <2>3, <2>4, <2>5, Zenon DEF ListenerAt
<1> QED BY <1>6, <1>9, <1>12, Zenon DEF EventsInv

\* A subscription starts with nothing offered and nothing missed.
LEMMA SubscribeInv ==
    ASSUME EventsInv, NEW m \in Listeners, NEW pats \in StubPatterns, StubSubscribe(m, pats)
    PROVE  EventsInv'
<1>0. EventsType /\ UNCHANGED <<events, fanout, ch, seen, lost>> /\ m \notin Range(subscribers)
    BY Zenon DEF EventsInv, StubSubscribe
<1>1. subscribers' \in Seq(Listeners) /\ Range(subscribers') = Range(subscribers) \cup {m}
    <2>1. subscribers \in Seq(Listeners) /\ subscribers' = Append(subscribers, m)
        BY <1>0, Zenon DEF StubSubscribe, EventsType
    <2>2. Append(subscribers, m) \in Seq(Listeners)
        BY <2>1, SMT
    <2> QED BY <2>1, <2>2, RangeAppend, Zenon
<1>2. /\ patterns' = [patterns EXCEPT ![m] = pats] /\ from' = [from EXCEPT ![m] = Len(events)]
      /\ pats \in SUBSET Seq(STRING) /\ Len(events) \in Nat
    BY <1>0, StubHostAssumption DEF StubSubscribe, EventsType
<1>3. EventsType'
    BY <1>0, <1>1, <1>2, Zenon DEF EventsType
<1>4. ASSUME NEW d \in Callers PROVE FanoutAt(d)'
    BY <1>0, <1>1, Zenon DEF EventsInv, FanoutAt
<1>5. ASSUME NEW l \in Listeners PROVE ListenerAt(l)'
    <2>1. ListenerAt(l) /\ Offered(l)' = Offered(l) /\ \A i : Owed(l, i)' <=> Owed(l, i)
        BY <1>0, Zenon DEF EventsInv, Offered, Owed
    <2>2. CASE l = m
        <3>1. from'[l] = Len(events) /\ Offered(l)' = {}
            BY <1>0, <1>2, <2>1, <2>2, Zenon DEF EventsType, ListenerAt
        <3> QED BY <1>0, <1>1, <1>2, <2>2, <3>1, SMTT(20) DEF ListenerAt
    <2>3. CASE l # m
        <3>1. from'[l] = from[l] /\ \A i : Wants(l, i)' <=> Wants(l, i)
            BY <1>0, <1>2, <2>3, Zenon DEF EventsType, Wants
        <3> QED BY <1>0, <1>1, <2>1, <2>3, <3>1, ZenonT(30) DEF ListenerAt
    <2> QED BY <2>2, <2>3, Zenon
<1> QED BY <1>3, <1>4, <1>5, Zenon DEF EventsInv

\* A stream takes an event from its channel: it is as much offered as before.
LEMMA TakeInv ==
    ASSUME EventsInv, NEW m \in Listeners, Take(m)
    PROVE  EventsInv'
<1>0. EventsType /\ UNCHANGED <<events, subscribers, fanout, patterns, from, lost>>
    BY Zenon DEF EventsInv, Take
<1>1. ch[m] \in Seq(Nat) /\ ch[m] # << >>
    BY <1>0, Zenon DEF Take, EventsType
<1>2. /\ Head(ch[m]) \in Nat /\ Tail(ch[m]) \in Seq(Nat)
      /\ Range(ch[m]) = {Head(ch[m])} \cup Range(Tail(ch[m]))
    BY <1>1, RangeTail, Zenon
<1>3. /\ seen' = [seen EXCEPT ![m] = @ \cup {Head(ch[m])}] /\ ch' = [ch EXCEPT ![m] = Tail(@)]
      /\ ch \in [Listeners -> Seq(Nat)] /\ seen \in [Listeners -> SUBSET Nat]
    BY <1>0, Zenon DEF Take, EventsType
<1>4. ch' \in [Listeners -> Seq(Nat)] /\ seen' \in [Listeners -> SUBSET Nat]
    BY <1>2, <1>3, Zenon
<1>5. EventsType'
    BY <1>0, <1>4, Zenon DEF EventsType
<1>6. ASSUME NEW d \in Callers PROVE FanoutAt(d)'
    BY <1>0, Zenon DEF EventsInv, FanoutAt
<1>7. ASSUME NEW l \in Listeners PROVE ListenerAt(l)'
    <2>1. /\ ListenerAt(l) /\ (\A i : Owed(l, i)' <=> Owed(l, i))
          /\ \A i : Wants(l, i)' <=> Wants(l, i)
        BY <1>0, Zenon DEF EventsInv, Owed, Wants
    <2>2. Offered(l)' = Offered(l)
        BY <1>0, <1>2, <1>3, Zenon DEF Offered
    <2> QED BY <1>0, <2>1, <2>2, Zenon DEF ListenerAt
<1> QED BY <1>5, <1>6, <1>7, Zenon DEF EventsInv

\* However calls of Publish overlap, a listener is offered the events core's bus would offer it,
\* each and no other; for any topics that are not a star alone, any patterns and any capacity.
THEOREM StubAlwaysDelivers == EventsSpec => []StubDeliversAsCore
<1>1. EventsInit => EventsInv
    <2> SUFFICES ASSUME EventsInit PROVE EventsInv
        BY ZenonT(30)
    <2>1. EventsType
        <3>1. << >> \in Seq(Listeners) /\ << >> \in Seq(Nat) /\ << >> \in Seq(StubTopics)
            OBVIOUS
        <3>2. /\ events \in Seq(StubTopics) /\ subscribers \in Seq(Listeners)
              /\ fanout \in [Callers -> [event : Nat, left : Seq(Listeners)]]
            BY <3>1, FanoutTyped, Zenon DEF EventsInit
        <3>3. /\ patterns \in [Listeners -> SUBSET Seq(STRING)]
              /\ ch \in [Listeners -> Seq(Nat)] /\ from \in [Listeners -> Nat]
            BY <3>1, Zenon DEF EventsInit
        <3>4. seen \in [Listeners -> SUBSET Nat] /\ lost \in [Listeners -> SUBSET Nat]
            BY Zenon DEF EventsInit
        <3> QED BY <3>2, <3>3, <3>4, Zenon DEF EventsType
    <2>2. ASSUME NEW c \in Callers PROVE FanoutAt(c)
        BY Zenon DEF EventsInit, FanoutAt, Idle, Range
    <2>3. ASSUME NEW l \in Listeners PROVE ListenerAt(l)
        BY DEF EventsInit, ListenerAt, Offered, Range
    <2> QED BY <2>1, <2>2, <2>3, Zenon DEF EventsInv
<1>2. EventsInv /\ UNCHANGED eventVars => EventsInv'
    <2> SUFFICES ASSUME EventsInv, UNCHANGED eventVars PROVE EventsInv'
        BY Zenon
    <2>0. UNCHANGED <<events, subscribers, fanout, patterns, ch, from, seen, lost>>
        BY Zenon DEF eventVars, listener
    <2>1. EventsType'
        BY <2>0, Zenon DEF EventsInv, EventsType
    <2>2. ASSUME NEW c \in Callers PROVE FanoutAt(c)'
        BY <2>0, Zenon DEF EventsInv, FanoutAt
    <2>3. ASSUME NEW l \in Listeners PROVE ListenerAt(l)'
        BY <2>0, ZenonT(30) DEF EventsInv, ListenerAt, Offered, Owed, Wants
    <2> QED BY <2>1, <2>2, <2>3, Zenon DEF EventsInv
<1>3. EventsInv /\ [EventsNext]_eventVars => EventsInv'
    BY <1>2, RecordInv, OfferInv, SubscribeInv, TakeInv, Zenon DEF EventsNext
<1>4. EventsInv => StubDeliversAsCore
    <2> SUFFICES ASSUME EventsInv, NEW l \in Range(subscribers),
                        NEW i \in (from[l] + 1)..Len(events), ~Owed(l, i)
                 PROVE  i \in Offered(l) <=> Wants(l, i)
        BY Zenon DEF StubDeliversAsCore, Offered, Owed, Wants
    <2>1. subscribers \in Seq(Listeners) /\ from \in [Listeners -> Nat] /\ Len(events) \in Nat
        BY DEF EventsInv, EventsType
    <2>2. l \in Listeners
        BY <2>1 DEF Range
    <2>3. ListenerAt(l) /\ i \in 1..Len(events) /\ i > from[l]
        BY <2>1, <2>2 DEF EventsInv
    <2> QED BY <2>3, Zenon DEF ListenerAt
<1> QED BY <1>1, <1>3, <1>4, PTL DEF EventsSpec

\* Both at once: the harness serves a module under test as core would.
THEOREM StubAlwaysServes == PolicySpec /\ EventsSpec => []StubServesAsCore
BY StubWatchAlwaysCurrent, StubAlwaysDelivers, PTL DEF StubServesAsCore

=============================================================================

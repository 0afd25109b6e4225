-------------------------- MODULE SupervisorProofs --------------------------
(***************************************************************************)
(* Proofs about Supervisor, for every set of runners and callers and every *)
(* burst, window and interval.                                             *)
(***************************************************************************)
EXTENDS Supervisor, FiniteSetTheorems, SequenceTheorems, WellFoundedInduction, TLAPS

Ages == 0..(CrashWindow + 1)

\* Where the lifecycle lock and the boot phase keep the threads: one caller
\* at a time is inside an operation, and none is while Main boots.
LockDiscipline ==
    /\ \A c \in Callers : tpc[c] \in CallerPCs /\ (tpc[c] # "idle" <=> lock = c)
    /\ tpc[Main] \in MainPCs
    /\ tpc[Main] \in {"stopped", "added", "returned"} => lock = None

\* The registry while an operation is under way.
RegistryDiscipline ==
    \A t \in Threads :
        /\ tpc[t] = "stopped" => registered = None
        /\ tpc[t] = "added" =>
              /\ target[t] = registered
              /\ registered \in Runners /\ pc[registered] = "new"
        /\ t \in Callers /\ tpc[t] = "waiting" =>
              registered = None /\ target[t] \in Runners

\* Every goroutine that runs, or is about to, is in the registry or waited
\* for by the request that took it out.
RunningIsOwned ==
    \A r \in Runners : pc[r] # "done" =>
        \/ registered = r
        \/ \E c \in Callers : tpc[c] = "waiting" /\ target[c] = r

\* What the goroutine's position says about its state, process and strikes.
Position(w, s, p, k) ==
    /\ p # "none" => w \in {"handshake", "init", "poll", "monitor", "draining", "killing"}
    /\ w \in {"spawn", "handshake", "init"} => s = "starting"
    /\ w \in {"poll", "monitor", "draining", "killing"} => s = "running"
    /\ s \in {"start-limited", "unsupported-protocol", "requirements-unmet"} => w = "done"
    /\ w # "killing" => k < HealthStrikes

PositionDiscipline ==
    \A r \in Runners :
        /\ Position(pc[r], st[r], proc[r], strikes[r])
        /\ pc[r] = "new" => registered = r /\ \E t \in Threads : tpc[t] = "added"

\* The inductive invariant.
Inv ==
    /\ TypeOK
    /\ LockDiscipline
    /\ RegistryDiscipline
    /\ RunningIsOwned
    /\ PositionDiscipline

-----------------------------------------------------------------------------
(* Helpers: the crash list and the ways a launch or a run can end.         *)

\* Pruning the crash list keeps it a list of ages.
LEMMA PruneType ==
    ASSUME NEW s \in Seq(Ages)
    PROVE  Prune(s) \in Seq(Ages)
<1> DEFINE old == {i \in 1..Len(s) : s[i] > CrashWindow}
<1>1. Len(s) \in Nat /\ \A i \in 1..Len(s) : s[i] \in Ages
  BY LenProperties, Zenon
<1>2. IsFiniteSet(1..Len(s))
  <2>1. 1 \in Int /\ Len(s) \in Int
    BY <1>1
  <2> QED
    BY <2>1, FS_Interval, Zenon
<1>3. Cardinality(old) \in Nat
  BY <1>2, FS_Subset, FS_CardinalityType, old \in SUBSET (1..Len(s)), Zenon
<1>4. \A i \in (Cardinality(old) + 1)..Len(s) : s[i] \in Ages
  BY <1>1, <1>3
<1> QED
  BY <1>1, <1>3, <1>4, SubSeqProperties DEF Prune, Expired

\* So does recording one more crash.
LEMMA RecordedType ==
    ASSUME TypeOK, NEW r \in Runners, NEW stable
    PROVE  Recorded(r, stable) \in Seq(Ages)
<1>1. crashes[r] \in Seq(Ages) /\ <<>> \in Seq(Ages)
  BY EmptySeq, Zenon DEF TypeOK, LocalTypeOK, Ages
<1>2. 0 \in Ages
  BY SupervisorAssumption DEF Ages
<1> QED
  BY <1>1, <1>2, PruneType, AppendProperties, Zenon DEF Recorded

\* The goroutine ends, or backs off, with well-typed locals.
Settles(r) ==
    \E w \in {"done", "backoff"},
       s \in {"stopped", "start-limited", "unsupported-protocol", "backoff"},
       cl \in Seq(Ages), sl \in Seq(Ages) :
          (w = "backoff" <=> s = "backoff") /\ Settle(r, w, s, cl, sl)

\* run returning, crash accounting and a failed launch all end that way.
LEMMA ReturnSettles ==
    ASSUME NEW r \in Runners,
           NEW s \in {"stopped", "start-limited", "unsupported-protocol"}, Return(r, s)
    PROVE  Settles(r)
<1>1. <<>> \in Seq(Ages)
  BY EmptySeq, Zenon
<1> QED
  BY <1>1, Zenon DEF Return, Settles

\* So does the accounting of a crash.
LEMMA AccountSettles ==
    ASSUME TypeOK, NEW r \in Runners, NEW stable, Account(r, stable)
    PROVE  Settles(r)
<1>1. CASE Len(Recorded(r, stable)) >= StartBurst
  BY <1>1, ReturnSettles, Zenon DEF Account
<1>2. CASE ~(Len(Recorded(r, stable)) >= StartBurst)
  <2>1. Recorded(r, stable) \in Seq(Ages)
    BY RecordedType, Zenon
  <2>2. (IF stable THEN <<>> ELSE starts[r]) \in Seq(Ages)
    BY EmptySeq, Zenon DEF TypeOK, LocalTypeOK, Ages
  <2> QED
    BY <1>2, <2>1, <2>2, Zenon DEF Account, Settles
<1> QED
  BY <1>1, <1>2, Zenon

\* And so does a launch that fails.
LEMMA LaunchFailedSettles ==
    ASSUME TypeOK, NEW r \in Runners, LaunchFailed(r)
    PROVE  Settles(r)
BY ReturnSettles, AccountSettles, Zenon DEF LaunchFailed

-----------------------------------------------------------------------------
(* The invariant is inductive.                                             *)

\* Before anything was added no goroutine runs and the lock is free.
LEMMA InitInv == Init => Inv
<1> SUFFICES ASSUME Init PROVE Inv
  BY Zenon
<1>1. ThreadTypeOK
  BY Zenon DEF Init, ThreadTypeOK, Threads, CallerPCs, MainPCs
<1>2. RunnerTypeOK
  BY Zenon DEF Init, RunnerTypeOK, RunnerPCs, States
<1>3. LocalTypeOK
  <2>1. <<>> \in Seq(0..(CrashWindow + 1))
    BY EmptySeq, Zenon
  <2> QED
    BY <2>1, SupervisorAssumption DEF Init, LocalTypeOK
<1>4. LockDiscipline
  BY SupervisorAssumption, Zenon DEF Init, LockDiscipline, Threads, CallerPCs, MainPCs
<1>5. RegistryDiscipline /\ RunningIsOwned
  BY SupervisorAssumption, Zenon DEF Init, RegistryDiscipline, RunningIsOwned, Threads
<1>6. PositionDiscipline
  <2>1. Position("done", "stopped", "none", 0)
    BY SupervisorAssumption DEF Position
  <2> QED
    BY <2>1 DEF Init, PositionDiscipline
<1> QED
  BY <1>1, <1>2, <1>3, <1>4, <1>5, <1>6, Zenon DEF Inv, TypeOK

\* A step of a running goroutine keeps what the threads rely on.
LEMMA RunnerFrame ==
    ASSUME Inv, NEW r \in Runners, NEW w \in RunnerPCs, UNCHANGED threadVars,
           pc[r] \notin {"done", "new"}, w # "new", pc' = [pc EXCEPT ![r] = w]
    PROVE  LockDiscipline' /\ RegistryDiscipline' /\ RunningIsOwned'
<1>1. UNCHANGED <<registered, lock, tpc, target, baseDone>>
  BY Zenon DEF threadVars
<1>2. pc'[r] = w /\ \A q \in Runners : q # r => pc'[q] = pc[q]
  BY Zenon DEF Inv, TypeOK, RunnerTypeOK
<1>3. LockDiscipline'
  BY <1>1, Zenon DEF Inv, LockDiscipline
<1>4. \A q \in Runners : pc[q] = "new" => pc'[q] = "new"
  BY <1>2, Zenon
<1>5. \A q \in Runners : pc'[q] # "done" => pc[q] # "done"
  BY <1>2, Zenon
<1>6. RegistryDiscipline'
  BY <1>1, <1>4, Zenon DEF Inv, RegistryDiscipline
<1>7. RunningIsOwned'
  BY <1>1, <1>5, Zenon DEF Inv, RunningIsOwned
<1> QED
  BY <1>3, <1>6, <1>7, Zenon

\* And the position of every other goroutine.
LEMMA PositionFrame ==
    ASSUME Inv, NEW r \in Runners, NEW w, UNCHANGED threadVars, w # "new",
           pc' = [pc EXCEPT ![r] = w],
           \A q \in Runners : q # r =>
              st'[q] = st[q] /\ proc'[q] = proc[q] /\ strikes'[q] = strikes[q],
           Position(w, st'[r], proc'[r], strikes'[r])
    PROVE  PositionDiscipline'
<1>1. UNCHANGED <<registered, tpc>>
  BY Zenon DEF threadVars
<1>2. pc'[r] = w /\ \A q \in Runners : q # r => pc'[q] = pc[q]
  BY Zenon DEF Inv, TypeOK, RunnerTypeOK
<1>3. ASSUME NEW q \in Runners
      PROVE  /\ Position(pc'[q], st'[q], proc'[q], strikes'[q])
             /\ pc'[q] = "new" => registered' = q /\ \E t \in Threads : tpc'[t] = "added"
  <2>1. CASE q = r
    BY <1>2, <2>1, Zenon
  <2>2. CASE q # r
    BY <1>1, <1>2, <2>2, Zenon DEF Inv, PositionDiscipline
  <2> QED
    BY <2>1, <2>2, Zenon
<1> QED
  BY <1>3, Zenon DEF PositionDiscipline

\* A goroutine that settles gives its process up and keeps the invariant.
LEMMA SettlesInv ==
    ASSUME Inv, NEW r \in Runners, pc[r] \notin {"done", "new"}, Settles(r),
           \/ proc' = [proc EXCEPT ![r] = "none"]
           \/ proc' = proc /\ proc[r] = "none",
           lingering' \in [Runners -> BOOLEAN],
           UNCHANGED <<threadVars, stopReq>>
    PROVE  Inv'
<1>1. PICK w \in {"done", "backoff"},
           s \in {"stopped", "start-limited", "unsupported-protocol", "backoff"},
           cl \in Seq(Ages), sl \in Seq(Ages) :
              (w = "backoff" <=> s = "backoff") /\ Settle(r, w, s, cl, sl)
  BY Zenon DEF Settles
<1>2. ThreadTypeOK'
  BY Zenon DEF Inv, TypeOK, ThreadTypeOK, threadVars
<1>3. RunnerTypeOK'
  BY <1>1, Zenon DEF Inv, TypeOK, RunnerTypeOK, Settle, RunnerPCs, States
<1>4. LocalTypeOK'
  <2>1. 0 \in 0..StableAfter /\ 0 \in 0..HealthStrikes /\ 0 \in 0..(2 * WatchdogInterval + 1)
    BY SupervisorAssumption
  <2> QED
    BY <1>1, <2>1, Zenon DEF Inv, TypeOK, LocalTypeOK, Settle, Ages
<1>5. LockDiscipline' /\ RegistryDiscipline' /\ RunningIsOwned'
  BY <1>1, RunnerFrame, Zenon DEF Settle, RunnerPCs
<1>6. PositionDiscipline'
  <2>1. proc'[r] = "none" /\ \A q \in Runners : q # r => proc'[q] = proc[q]
    BY Zenon DEF Inv, TypeOK, RunnerTypeOK
  <2>2. /\ st'[r] = s /\ strikes'[r] = 0 /\ pc' = [pc EXCEPT ![r] = w]
        /\ \A q \in Runners : q # r => st'[q] = st[q] /\ strikes'[q] = strikes[q]
    BY <1>1, Zenon DEF Inv, TypeOK, RunnerTypeOK, LocalTypeOK, Settle
  <2>3. Position(w, s, "none", 0)
    BY <1>1, SupervisorAssumption, SMTT(20) DEF Position
  <2> QED
    BY <1>1, <2>1, <2>2, <2>3, PositionFrame, Zenon
<1> QED
  BY <1>2, <1>3, <1>4, <1>5, <1>6, ZenonT(30) DEF Inv, TypeOK

\* A goroutine goes on at w, in state s, with process p, k strikes, the starts
\* sl and a silence of i; its crash list and its uptime stay.
Moves(r, w, s, p, k, sl, i) ==
    /\ w \in RunnerPCs /\ w # "new" /\ s \in States
    /\ p \in {"none", "up", "hung", "killed", "dead"} /\ k \in 0..HealthStrikes
    /\ sl \in Seq(Ages) /\ i \in 0..(2 * WatchdogInterval + 1)
    /\ Position(w, s, p, k)
    /\ pc' = [pc EXCEPT ![r] = w] /\ st' = [st EXCEPT ![r] = s]
    /\ proc' = [proc EXCEPT ![r] = p] /\ strikes' = [strikes EXCEPT ![r] = k]
    /\ starts' = [starts EXCEPT ![r] = sl] /\ silence' = [silence EXCEPT ![r] = i]
    /\ UNCHANGED <<threadVars, stopReq, lingering, crashes, uptime>>

\* Going on keeps the invariant.
LEMMA MovesInv ==
    ASSUME Inv, NEW r \in Runners, pc[r] \notin {"done", "new"},
           NEW w, NEW s, NEW p, NEW k, NEW sl, NEW i, Moves(r, w, s, p, k, sl, i)
    PROVE  Inv'
<1> USE DEF Moves
<1>1. ThreadTypeOK' /\ RunnerTypeOK' /\ LocalTypeOK'
  BY Zenon DEF Inv, TypeOK, ThreadTypeOK, RunnerTypeOK, LocalTypeOK, Ages, threadVars
<1>2. LockDiscipline' /\ RegistryDiscipline' /\ RunningIsOwned'
  BY RunnerFrame, Zenon
<1>3. /\ st'[r] = s /\ proc'[r] = p /\ strikes'[r] = k
      /\ \A q \in Runners : q # r =>
            st'[q] = st[q] /\ proc'[q] = proc[q] /\ strikes'[q] = strikes[q]
  BY Zenon DEF Inv, TypeOK, RunnerTypeOK, LocalTypeOK
<1>4. PositionDiscipline'
  BY <1>3, PositionFrame, Zenon
<1> QED
  BY <1>1, <1>2, <1>4, Zenon DEF Inv, TypeOK

\* The values of one goroutine, and that writing them again changes nothing.
LEMMA Itself ==
    ASSUME Inv, NEW r \in Runners
    PROVE  /\ pc[r] \in RunnerPCs /\ pc = [pc EXCEPT ![r] = pc[r]]
           /\ st[r] \in States /\ st = [st EXCEPT ![r] = st[r]]
           /\ proc[r] \in {"none", "up", "hung", "killed", "dead"}
           /\ proc = [proc EXCEPT ![r] = proc[r]]
           /\ strikes[r] \in 0..HealthStrikes /\ strikes = [strikes EXCEPT ![r] = strikes[r]]
           /\ starts[r] \in Seq(Ages) /\ starts = [starts EXCEPT ![r] = starts[r]]
           /\ silence[r] \in 0..(2 * WatchdogInterval + 1)
           /\ silence = [silence EXCEPT ![r] = silence[r]]
           /\ Position(pc[r], st[r], proc[r], strikes[r])
<1>1. ASSUME NEW S, NEW f \in [Runners -> S] PROVE f[r] \in S /\ f = [f EXCEPT ![r] = f[r]]
  BY Zenon
<1>2. /\ pc \in [Runners -> RunnerPCs] /\ st \in [Runners -> States]
      /\ proc \in [Runners -> {"none", "up", "hung", "killed", "dead"}]
      /\ strikes \in [Runners -> 0..HealthStrikes] /\ starts \in [Runners -> Seq(Ages)]
      /\ silence \in [Runners -> 0..(2 * WatchdogInterval + 1)]
  BY Zenon DEF Inv, TypeOK, RunnerTypeOK, LocalTypeOK, Ages
<1>3. Position(pc[r], st[r], proc[r], strikes[r])
  BY Zenon DEF Inv, PositionDiscipline
<1> QED
  BY <1>1, <1>2, <1>3, SMTT(20)

\* Every step of the goroutine keeps the invariant.
LEMMA RunnerStepInv ==
    ASSUME Inv, NEW r \in Runners, RunnerStep(r)
    PROVE  Inv'
<1>0. /\ TypeOK /\ lingering \in [Runners -> BOOLEAN] /\ pc[r] \in RunnerPCs
      /\ Position(pc[r], st[r], proc[r], strikes[r])
  BY Itself, Zenon DEF Inv, TypeOK, RunnerTypeOK
<1>p. pc[r] \in {"loop", "spawn", "backoff"} => proc[r] = "none"
  BY <1>0 DEF Position
<1>1. CASE LoopStops(r) \/ BackoffStops(r)
  <2>1. /\ pc[r] \in {"loop", "backoff"} /\ Return(r, "stopped")
        /\ UNCHANGED <<threadVars, stopReq, proc, lingering>>
    BY <1>1, Zenon DEF LoopStops, BackoffStops, processVars
  <2>2. pc[r] \notin {"done", "new"} /\ proc[r] = "none"
    BY <1>p, <2>1
  <2>3. Settles(r)
    BY <2>1, ReturnSettles, Zenon
  <2> QED
    BY <1>0, <2>1, <2>2, <2>3, SettlesInv, ZenonT(30)
<1>2. CASE LoopLaunches(r)
  <2>1. /\ pc[r] = "loop" /\ pc' = [pc EXCEPT ![r] = "spawn"] /\ st' = [st EXCEPT ![r] = "starting"]
        /\ starts' = [starts EXCEPT ![r] = Append(@, 0)]
        /\ UNCHANGED <<threadVars, stopReq, lingering, crashes, uptime, proc, strikes, silence>>
    BY <1>2, Zenon DEF LoopLaunches, processVars
  <2>2. Append(starts[r], 0) \in Seq(Ages)
    <3>1. 0 \in Ages
      BY SupervisorAssumption, SMTT(20) DEF Ages
    <3> QED
      BY <3>1, Itself, AppendProperties, Zenon
  <2>3. Position("spawn", "starting", proc[r], strikes[r])
    BY <1>0, <1>p, <2>1, SMTT(20) DEF Position
  <2>4. "spawn" \in RunnerPCs /\ "starting" \in States /\ pc[r] \notin {"done", "new"}
    BY <2>1 DEF RunnerPCs, States
  <2>m. /\ proc' = [proc EXCEPT ![r] = proc[r]]
        /\ strikes' = [strikes EXCEPT ![r] = strikes[r]]
        /\ silence' = [silence EXCEPT ![r] = silence[r]]
    BY <2>1, Itself, Zenon
  <2>n. Moves(r, "spawn", "starting", proc[r], strikes[r], Append(starts[r], 0), silence[r])
    BY <2>1, <2>2, <2>3, <2>4, <2>m, Itself, ZenonT(30) DEF Moves
  <2> QED
    BY <2>1, <2>2, <2>3, <2>4, <2>m, <2>n, MovesInv, ZenonT(30)
<1>3. CASE SpawnFails(r)
  <2>1. /\ pc[r] = "spawn" /\ LaunchFailed(r) /\ UNCHANGED <<threadVars, stopReq, proc>>
        /\ \E contained \in BOOLEAN : lingering' = [lingering EXCEPT ![r] = @ \/ ~contained]
    BY <1>3, Zenon DEF SpawnFails
  <2>2. pc[r] \notin {"done", "new"} /\ proc[r] = "none"
    BY <1>p, <2>1, SMTT(20)
  <2>3. Settles(r)
    BY <1>0, <2>1, LaunchFailedSettles, Zenon
  <2>4. lingering' \in [Runners -> BOOLEAN]
    BY <1>0, <2>1, Zenon
  <2> QED
    BY <2>1, <2>2, <2>3, <2>4, SettlesInv, ZenonT(30)
<1>4. CASE Spawn(r)
  <2>1. /\ pc[r] = "spawn" /\ pc' = [pc EXCEPT ![r] = "handshake"]
        /\ proc' = [proc EXCEPT ![r] = "up"]
        /\ UNCHANGED <<threadVars, st, stopReq, lingering, crashes, uptime, strikes, starts, silence>>
    BY <1>4, Zenon DEF Spawn, localVars
  <2>2. Position("handshake", st[r], "up", strikes[r])
    BY <1>0, <2>1, SMTT(20) DEF Position
  <2>3. "handshake" \in RunnerPCs /\ pc[r] \notin {"done", "new"}
    BY <2>1 DEF RunnerPCs
  <2>m. /\ st' = [st EXCEPT ![r] = st[r]]
        /\ strikes' = [strikes EXCEPT ![r] = strikes[r]]
        /\ starts' = [starts EXCEPT ![r] = starts[r]]
        /\ silence' = [silence EXCEPT ![r] = silence[r]]
    BY <2>1, Itself, Zenon
  <2>n. Moves(r, "handshake", st[r], "up", strikes[r], starts[r], silence[r])
    BY <2>1, <2>2, <2>3, <2>m, Itself, ZenonT(30) DEF Moves
  <2> QED
    BY <2>1, <2>2, <2>3, <2>m, <2>n, MovesInv, ZenonT(30)
<1>5. CASE HandshakeLine(r) \/ MonitorStops(r) \/ BackoffElapses(r)
  <2>1. PICK w \in {"init", "draining", "loop"} :
          /\ pc' = [pc EXCEPT ![r] = w]
          /\ \/ pc[r] = "handshake" /\ w = "init"
             \/ pc[r] = "monitor" /\ w = "draining"
             \/ pc[r] = "backoff" /\ w = "loop"
          /\ UNCHANGED <<threadVars, st, stopReq, proc, lingering, crashes, uptime, strikes,
                         starts, silence>>
    BY <1>5, Zenon DEF HandshakeLine, MonitorStops, BackoffElapses, processVars, localVars
  <2>2. Position(w, st[r], proc[r], strikes[r])
    BY <1>0, <1>p, <2>1, SMTT(20) DEF Position
  <2>3. w \in RunnerPCs /\ w # "new" /\ pc[r] \notin {"done", "new"}
    BY <2>1 DEF RunnerPCs
  <2>m. /\ st' = [st EXCEPT ![r] = st[r]]
        /\ proc' = [proc EXCEPT ![r] = proc[r]]
        /\ strikes' = [strikes EXCEPT ![r] = strikes[r]]
        /\ starts' = [starts EXCEPT ![r] = starts[r]]
        /\ silence' = [silence EXCEPT ![r] = silence[r]]
    BY <2>1, Itself, Zenon
  <2>n. Moves(r, w, st[r], proc[r], strikes[r], starts[r], silence[r])
    BY <2>1, <2>2, <2>3, <2>m, Itself, ZenonT(30) DEF Moves
  <2> QED
    BY <2>1, <2>2, <2>3, <2>m, <2>n, MovesInv, ZenonT(30)
<1>6. CASE LaunchAborts(r)
  <2>1. /\ pc[r] \in {"handshake", "init"} /\ LaunchFailed(r) /\ UNCHANGED <<threadVars, stopReq>>
        /\ proc' = [proc EXCEPT ![r] = "none"]
        /\ lingering' = [lingering EXCEPT ![r] = @ \/ proc[r] # "dead"]
    BY <1>6, Zenon DEF LaunchAborts, CleanupProc
  <2>2. pc[r] \notin {"done", "new"} /\ Settles(r) /\ lingering' \in [Runners -> BOOLEAN]
    BY <1>0, <2>1, LaunchFailedSettles, Zenon
  <2> QED
    BY <2>1, <2>2, SettlesInv, Zenon
<1>7. CASE HandshakeExited(r) \/ ProtocolRefused(r) \/ MonitorExited(r) \/ Drained(r) \/ Reaped(r)
  <2>1. /\ pc[r] \in {"handshake", "monitor", "draining", "killing"}
        /\ proc' = [proc EXCEPT ![r] = "none"] /\ UNCHANGED <<threadVars, stopReq, lingering>>
        /\ \/ LaunchFailed(r) \/ \E stable \in BOOLEAN : Account(r, stable)
           \/ \E s \in {"stopped", "unsupported-protocol"} : Return(r, s)
    <3>1. (uptime[r] >= StableAfter) \in BOOLEAN
      OBVIOUS
    <3> QED
      BY <1>7, <3>1, Zenon DEF HandshakeExited, ProtocolRefused, MonitorExited, Drained, Reaped
  <2>2. pc[r] \notin {"done", "new"}
    BY <2>1
  <2>3. Settles(r)
    BY <1>0, <2>1, LaunchFailedSettles, AccountSettles, ReturnSettles, Zenon
  <2> QED
    BY <1>0, <2>1, <2>2, <2>3, SettlesInv, ZenonT(30)
<1>8. CASE Started(r)
  <2>1. /\ pc[r] = "init" /\ pc' = [pc EXCEPT ![r] = "poll"] /\ st' = [st EXCEPT ![r] = "running"]
        /\ silence' = [silence EXCEPT ![r] = 0]
        /\ UNCHANGED <<threadVars, stopReq, proc, lingering, crashes, uptime, strikes, starts>>
    BY <1>8, Zenon DEF Started, processVars
  <2>2. Position("poll", "running", proc[r], strikes[r])
    BY <1>0, <2>1 DEF Position
  <2>3. "poll" \in RunnerPCs /\ "running" \in States /\ pc[r] \notin {"done", "new"}
    BY <2>1 DEF RunnerPCs, States
  <2>4. 0 \in 0..(2 * WatchdogInterval + 1)
    BY SupervisorAssumption
  <2>m. /\ proc' = [proc EXCEPT ![r] = proc[r]]
        /\ strikes' = [strikes EXCEPT ![r] = strikes[r]]
        /\ starts' = [starts EXCEPT ![r] = starts[r]]
    BY <2>1, Itself, Zenon
  <2>n. Moves(r, "poll", "running", proc[r], strikes[r], starts[r], 0)
    BY <2>1, <2>2, <2>3, <2>4, <2>m, Itself, ZenonT(30) DEF Moves
  <2> QED
    BY <2>1, <2>2, <2>3, <2>4, <2>m, <2>n, MovesInv, ZenonT(30)
<1>9. CASE PollFails(r) \/ PollAnswers(r)
  <2>1. /\ pc[r] \in {"poll", "monitor"}
        /\ \/ strikes' = [strikes EXCEPT ![r] = strikes[r] + 1] \/ strikes' = [strikes EXCEPT ![r] = 0]
        /\ PollEnds(r)
        /\ UNCHANGED <<threadVars, st, stopReq, lingering, crashes, uptime, silence, starts>>
    BY <1>9, Zenon DEF PollFails, PollAnswers
  <2>2. strikes[r] \in 0..HealthStrikes /\ strikes[r] < HealthStrikes
    BY <1>0, <2>1, Itself DEF Position
  <2>3. PICK k \in 0..HealthStrikes : strikes' = [strikes EXCEPT ![r] = k]
    <3>1. strikes[r] + 1 \in 0..HealthStrikes /\ 0 \in 0..HealthStrikes
      BY <2>2, SupervisorAssumption
    <3> QED
      BY <2>1, <3>1, Zenon
  <2>4. strikes'[r] = k
    BY <1>0, <2>3, Zenon DEF TypeOK, LocalTypeOK
  <2>5. CASE k >= HealthStrikes
    <3>1. pc' = [pc EXCEPT ![r] = "killing"] /\ KillProc(r)
      BY <2>1, <2>4, <2>5, Zenon DEF PollEnds, StruckOut
    <3>2. PICK p \in {"killed", "dead"} : proc' = [proc EXCEPT ![r] = p]
      BY <3>1, Zenon DEF KillProc
    <3>3. Position("killing", st[r], p, k)
      BY <1>0, <2>1, SMTT(20) DEF Position
    <3>4. "killing" \in RunnerPCs /\ pc[r] \notin {"done", "new"}
      BY <2>1 DEF RunnerPCs
    <3>m. /\ st' = [st EXCEPT ![r] = st[r]]
          /\ starts' = [starts EXCEPT ![r] = starts[r]]
          /\ silence' = [silence EXCEPT ![r] = silence[r]]
      BY <2>1, Itself, Zenon
    <3>n. Moves(r, "killing", st[r], p, k, starts[r], silence[r])
      BY <2>1, <2>3, <3>1, <3>2, <3>3, <3>4, <3>m, Itself, ZenonT(30) DEF Moves
    <3> QED
      BY <2>1, <2>3, <3>1, <3>2, <3>3, <3>4, <3>m, <3>n, MovesInv, ZenonT(30)
  <2>6. CASE ~(k >= HealthStrikes)
    <3>1. pc' = [pc EXCEPT ![r] = "monitor"] /\ UNCHANGED proc
      BY <2>1, <2>4, <2>6, Zenon DEF PollEnds, StruckOut
    <3>2. Position("monitor", st[r], proc[r], k)
      BY <1>0, <2>1, <2>6, SupervisorAssumption, SMTT(20) DEF Position
    <3>3. "monitor" \in RunnerPCs /\ pc[r] \notin {"done", "new"}
      BY <2>1 DEF RunnerPCs
    <3>m. /\ st' = [st EXCEPT ![r] = st[r]]
          /\ proc' = [proc EXCEPT ![r] = proc[r]]
          /\ starts' = [starts EXCEPT ![r] = starts[r]]
          /\ silence' = [silence EXCEPT ![r] = silence[r]]
      BY <2>1, <3>1, Itself, Zenon
    <3>n. Moves(r, "monitor", st[r], proc[r], k, starts[r], silence[r])
      BY <2>1, <2>3, <3>1, <3>2, <3>3, <3>m, Itself, ZenonT(30) DEF Moves
    <3> QED
      BY <2>1, <2>3, <3>1, <3>2, <3>3, <3>m, <3>n, MovesInv, ZenonT(30)
  <2> QED
    BY <2>5, <2>6, Zenon
<1>10. CASE WatchdogFires(r) \/ DrainTimeout(r)
  <2>1. PICK w \in {"killing", "draining"} :
          /\ pc' = [pc EXCEPT ![r] = w] /\ KillProc(r)
          /\ \/ pc[r] = "monitor" /\ w = "killing"
             \/ pc[r] = "draining" /\ w = "draining"
          /\ UNCHANGED <<threadVars, st, stopReq, lingering, crashes, uptime, strikes,
                         starts, silence>>
    BY <1>10, Itself, Zenon DEF WatchdogFires, DrainTimeout, localVars
  <2>2. PICK p \in {"killed", "dead"} : proc' = [proc EXCEPT ![r] = p]
    BY <2>1, Zenon DEF KillProc
  <2>3. Position(w, st[r], p, strikes[r])
    BY <1>0, <2>1, SMTT(20) DEF Position
  <2>4. w \in RunnerPCs /\ w # "new" /\ pc[r] \notin {"done", "new"}
    BY <2>1 DEF RunnerPCs
  <2>m. /\ st' = [st EXCEPT ![r] = st[r]]
        /\ strikes' = [strikes EXCEPT ![r] = strikes[r]]
        /\ starts' = [starts EXCEPT ![r] = starts[r]]
        /\ silence' = [silence EXCEPT ![r] = silence[r]]
    BY <2>1, Itself, Zenon
  <2>n. Moves(r, w, st[r], p, strikes[r], starts[r], silence[r])
    BY <2>1, <2>2, <2>3, <2>4, <2>m, Itself, Zenon DEF Moves
  <2> QED
    BY <2>1, <2>2, <2>3, <2>4, <2>m, <2>n, MovesInv, ZenonT(30)
<1> QED
  BY <1>1, <1>2, <1>3, <1>4, <1>5, <1>6, <1>7, <1>8, <1>9, <1>10, ZenonT(30) DEF RunnerStep,
     Progress

\* So does every step of a process.
LEMMA ProcessStepInv ==
    ASSUME Inv, NEW r \in Runners, ProcessStep(r)
    PROVE  Inv'
<1>0. TypeOK
  BY Zenon DEF Inv
<1>1. TypeOK'
  <2>1. 0 \in 0..(2 * WatchdogInterval + 1)
    BY SupervisorAssumption
  <2>2. CASE Keepalive(r)
    BY <1>0, <2>1, <2>2, Zenon DEF TypeOK, Keepalive, ThreadTypeOK, RunnerTypeOK, LocalTypeOK,
       threadVars, processVars
  <2>3. CASE Exit(r) \/ LingererExits(r) \/ Hang(r)
    BY <1>0, <2>3, Zenon DEF TypeOK, Exit, LingererExits, Hang, ThreadTypeOK, RunnerTypeOK,
       LocalTypeOK, threadVars, localVars
  <2> QED
    BY <2>2, <2>3, Zenon DEF ProcessStep
<1>2. UNCHANGED <<registered, lock, tpc, target, pc, st, strikes>>
  BY Zenon DEF ProcessStep, Exit, LingererExits, Hang, Keepalive, threadVars, localVars
<1>3. LockDiscipline' /\ RegistryDiscipline' /\ RunningIsOwned'
  BY <1>2, Zenon DEF Inv, LockDiscipline, RegistryDiscipline, RunningIsOwned
<1>4. \A q \in Runners : proc'[q] = proc[q] \/ proc[q] # "none"
  BY <1>0, Zenon DEF ProcessStep, Exit, LingererExits, Hang, Keepalive, Live, TypeOK,
     RunnerTypeOK, processVars
<1>5. ASSUME NEW q \in Runners
      PROVE  Position(pc[q], st[q], proc'[q], strikes[q])
  <2>1. Position(pc[q], st[q], proc[q], strikes[q])
    BY Zenon DEF Inv, PositionDiscipline
  <2> QED
    BY <1>4, <2>1, Zenon DEF Position
<1>6. PositionDiscipline'
  BY <1>2, <1>5, Zenon DEF Inv, PositionDiscipline
<1> QED
  BY <1>1, <1>3, <1>6, Zenon DEF Inv

\* A thread inside an operation is alone there: the lock keeps other requests
\* idle, and requests are not served while Main boots.
LEMMA Alone ==
    ASSUME Inv, NEW t \in Threads,
           \/ t \in Callers /\ tpc[t] # "idle"
           \/ t = Main /\ tpc[Main] \in {"stopped", "added", "returned"}
    PROVE  \A u \in Threads \ {t} :
              /\ tpc[u] \notin {"stopped", "added", "returned"}
              /\ u \in Callers => tpc[u] = "idle"
BY SupervisorAssumption DEF Inv, LockDiscipline, Threads

\* A step of a thread that leaves the goroutines where they are keeps their
\* positions, and the type of what is theirs.
LEMMA QuietPositions ==
    ASSUME Inv, UNCHANGED <<pc, st, proc, strikes>>,
           \A q \in Runners : pc[q] = "new" =>
              registered' = q /\ \E t \in Threads : tpc'[t] = "added"
    PROVE  PositionDiscipline'
BY Zenon DEF Inv, PositionDiscipline

\* Every step of a request keeps the invariant.
LEMMA CallerStepInv ==
    ASSUME Inv, NEW c \in Callers, CallerStep(c)
    PROVE  Inv'
<1>0. c \in Threads /\ Main \in Threads /\ c # Main /\ c # None /\ \A d \in Callers : d # None
  BY SupervisorAssumption, Zenon DEF Threads
<1>t. TypeOK /\ tpc \in [Threads -> CallerPCs \cup MainPCs] /\ target \in [Threads -> Runners \cup {None}]
  BY Zenon DEF Inv, TypeOK, ThreadTypeOK
<1>n. \A q \in Runners : pc[q] = "new" => registered = q /\ \E t \in Threads : tpc[t] = "added"
  BY Zenon DEF Inv, PositionDiscipline
<1>d. \A d \in Callers : d \in Threads
  BY Zenon DEF Threads
<1>1. CASE LockModule(c)
  <2>1. /\ tpc[c] = "idle" /\ lock = None /\ tpc[Main] \in {"serving", "waiting"} /\ lock' = c
        /\ tpc' = [tpc EXCEPT ![c] = "locked"]
        /\ UNCHANGED <<registered, target, baseDone, pc, st, stopReq, proc, lingering, crashes,
                       uptime, strikes, silence, starts>>
    BY <1>1, Zenon DEF LockModule, runnerVars, processVars, localVars
  <2>2. tpc'[c] = "locked" /\ \A u \in Threads : u # c => tpc'[u] = tpc[u]
    BY <1>0, <1>t, <2>1, Zenon
  <2>3. TypeOK'
    BY <1>0, <1>t, <2>1, Zenon DEF TypeOK, ThreadTypeOK, RunnerTypeOK, LocalTypeOK, CallerPCs
  <2>4. LockDiscipline'
    BY <1>0, <1>d, <2>1, <2>2, Zenon DEF Inv, LockDiscipline, CallerPCs
  <2>5. RegistryDiscipline'
    BY <2>1, <2>2, Zenon DEF Inv, RegistryDiscipline
  <2>w. \A d \in Callers : tpc[d] = "waiting" => tpc'[d] = "waiting" /\ target'[d] = target[d]
    BY <1>d, <2>1, <2>2, Zenon
  <2>6. RunningIsOwned'
    BY <2>1, <2>w, Zenon DEF Inv, RunningIsOwned
  <2>7. PositionDiscipline'
    BY <1>n, <2>1, <2>2, QuietPositions, Zenon
  <2> QED
    BY <2>3, <2>4, <2>5, <2>6, <2>7, Zenon DEF Inv
<1>2. CASE UnlockModule(c)
  <2>1. /\ tpc[c] \in {"stopped", "returned"} /\ lock' = None
        /\ tpc' = [tpc EXCEPT ![c] = "idle"]
        /\ UNCHANGED <<registered, target, baseDone, pc, st, stopReq, proc, lingering, crashes,
                       uptime, strikes, silence, starts>>
    BY <1>2, Zenon DEF UnlockModule, runnerVars, processVars, localVars
  <2>2. tpc'[c] = "idle" /\ \A u \in Threads : u # c => tpc'[u] = tpc[u]
    BY <1>0, <1>t, <2>1, Zenon
  <2>a. \A d \in Callers : d # c => tpc[d] = "idle"
    BY <1>0, <1>d, <2>1, Zenon DEF Inv, LockDiscipline
  <2>3. TypeOK'
    BY <1>0, <1>t, <2>1, ZenonT(30) DEF TypeOK, ThreadTypeOK, RunnerTypeOK, LocalTypeOK, CallerPCs
  <2>4. LockDiscipline'
    BY <1>0, <1>d, <2>1, <2>2, <2>a, ZenonT(30) DEF Inv, LockDiscipline, CallerPCs
  <2>5. RegistryDiscipline'
    BY <2>1, <2>2, Zenon DEF Inv, RegistryDiscipline
  <2>w. \A d \in Callers : tpc[d] = "waiting" => tpc'[d] = "waiting" /\ target'[d] = target[d]
    BY <1>d, <2>1, <2>2, Zenon
  <2>6. RunningIsOwned'
    BY <2>1, <2>w, Zenon DEF Inv, RunningIsOwned
  <2>7. PositionDiscipline'
    BY <1>n, <2>1, <2>2, QuietPositions, ZenonT(30)
  <2> QED
    BY <2>3, <2>4, <2>5, <2>6, <2>7, Zenon DEF Inv
<1>3. CASE StopModule(c)
  <2>1. /\ tpc[c] \in {"locked", "returned"} /\ registered' = None
        /\ target' = [target EXCEPT ![c] = registered]
        /\ tpc' = [tpc EXCEPT ![c] = IF registered = None THEN "stopped" ELSE "waiting"]
        /\ stopReq' = [r \in Runners |-> stopReq[r] \/ r = registered]
        /\ UNCHANGED <<lock, baseDone, pc, st, proc, lingering, crashes, uptime, strikes, silence,
                       starts>>
    BY <1>3, Zenon DEF StopModule, processVars, localVars
  <2>2. /\ tpc'[c] = IF registered = None THEN "stopped" ELSE "waiting"
        /\ target'[c] = registered
        /\ \A u \in Threads : u # c => tpc'[u] = tpc[u] /\ target'[u] = target[u]
    BY <1>0, <1>t, <2>1, Zenon
  <2>a. \A u \in Threads : u # c => tpc[u] \notin {"stopped", "added", "returned"}
                                     /\ (u \in Callers => tpc[u] = "idle")
    BY <1>0, <2>1, Alone, ZenonT(30)
  <2>r. registered \in Runners \cup {None}
    BY <1>t, Zenon DEF TypeOK, ThreadTypeOK
  <2>3. TypeOK'
    BY <1>0, <1>t, <2>1, <2>r, ZenonT(30) DEF TypeOK, ThreadTypeOK, RunnerTypeOK, LocalTypeOK,
       CallerPCs
  <2>c. tpc'[c] \in {"stopped", "waiting"}
    BY <2>2, Zenon
  <2>4. LockDiscipline'
    BY <1>0, <1>d, <2>1, <2>2, <2>a, <2>c, ZenonT(30) DEF Inv, LockDiscipline, CallerPCs
  <2>5. RegistryDiscipline'
    <3> SUFFICES ASSUME NEW u \in Threads
                 PROVE  /\ tpc'[u] # "added"
                        /\ u \in Callers /\ tpc'[u] = "waiting" => target'[u] \in Runners
      BY <2>1, Zenon DEF RegistryDiscipline
    <3>1. CASE u = c
      BY <2>2, <2>r, <3>1, Zenon
    <3>2. CASE u # c
      BY <2>2, <2>a, <3>2, Zenon
    <3> QED
      BY <3>1, <3>2, Zenon
  <2>6. RunningIsOwned'
    <3> SUFFICES ASSUME NEW q \in Runners, pc[q] # "done"
                 PROVE  \E d \in Callers : tpc'[d] = "waiting" /\ target'[d] = q
      BY <2>1, Zenon DEF RunningIsOwned
    <3>1. registered = q
      BY <1>d, <2>1, <2>a, Zenon DEF Inv, RunningIsOwned
    <3>2. q # None
      BY SupervisorAssumption, Zenon
    <3> QED
      BY <2>2, <3>1, <3>2, Zenon
  <2>7. PositionDiscipline'
    <3>1. \A q \in Runners : pc[q] # "new"
      BY <1>n, <2>1, <2>a, Zenon
    <3> QED
      BY <2>1, <3>1, QuietPositions, Zenon
  <2> QED
    BY <2>3, <2>4, <2>5, <2>6, <2>7, ZenonT(30) DEF Inv
<1>4. CASE StopModuleReturns(c)
  <2>1. /\ tpc[c] = "waiting" /\ WgZero(target[c])
        /\ tpc' = [tpc EXCEPT ![c] = "stopped"] /\ target' = [target EXCEPT ![c] = None]
        /\ UNCHANGED <<registered, lock, baseDone, pc, st, stopReq, proc, lingering, crashes,
                       uptime, strikes, silence, starts>>
    BY <1>4, Zenon DEF StopModuleReturns, runnerVars, processVars, localVars
  <2>2. /\ tpc'[c] = "stopped" /\ target'[c] = None
        /\ \A u \in Threads : u # c => tpc'[u] = tpc[u] /\ target'[u] = target[u]
    BY <1>0, <1>t, <2>1, Zenon
  <2>a. \A u \in Threads : u # c => tpc[u] \notin {"stopped", "added", "returned"}
                                     /\ (u \in Callers => tpc[u] = "idle")
    BY <1>0, <2>1, Alone, Zenon
  <2>r. registered = None /\ target[c] \in Runners
    BY <1>0, <2>1, Zenon DEF Inv, RegistryDiscipline
  <2>s. \A q \in Runners : pc[q] # "new"
    BY <1>n, <2>1, <2>a, Zenon
  <2>d. pc[target[c]] = "done"
    BY <2>1, <2>r, <2>s, Zenon DEF WgZero
  <2>3. TypeOK'
    BY <1>0, <1>t, <2>1, Zenon DEF TypeOK, ThreadTypeOK, RunnerTypeOK, LocalTypeOK, CallerPCs
  <2>4. LockDiscipline'
    BY <1>0, <1>d, <2>1, <2>2, <2>a, Zenon DEF Inv, LockDiscipline, CallerPCs
  <2>5. RegistryDiscipline'
    <3>1. ASSUME NEW u \in Threads
          PROVE  tpc'[u] # "added" /\ ~(u \in Callers /\ tpc'[u] = "waiting")
      BY <2>2, <2>a, Zenon
    <3>2. registered' = None
      BY <2>1, <2>r, Zenon
    <3> QED
      BY <3>1, <3>2, Zenon DEF RegistryDiscipline
  <2>6. RunningIsOwned'
    <3> SUFFICES ASSUME NEW q \in Runners, pc[q] # "done"
                 PROVE  FALSE
      BY <2>1, Zenon DEF RunningIsOwned
    <3>1. q # None
      BY SupervisorAssumption, Zenon
    <3> QED
      <4>1. PICK d \in Callers : tpc[d] = "waiting" /\ target[d] = q
        BY <2>r, <3>1, Zenon DEF Inv, RunningIsOwned
      <4>2. d = c
        BY <1>d, <2>a, <4>1, Zenon
      <4> QED
        BY <2>d, <4>1, <4>2, Zenon
  <2>7. PositionDiscipline'
    BY <2>1, <2>s, QuietPositions, Zenon
  <2> QED
    BY <2>3, <2>4, <2>5, <2>6, <2>7, Zenon DEF Inv
<1> QED
  BY <1>1, <1>2, <1>3, <1>4, Zenon DEF CallerStep

\* Every step of Add keeps the invariant.
LEMMA AddStepInv ==
    ASSUME Inv, NEW t \in Threads, AddStep(t)
    PROVE  Inv'
<1>0. /\ TypeOK /\ tpc \in [Threads -> CallerPCs \cup MainPCs]
      /\ target \in [Threads -> Runners \cup {None}] /\ registered \in Runners \cup {None}
      /\ pc \in [Runners -> RunnerPCs] /\ st \in [Runners -> States]
  BY Zenon DEF Inv, TypeOK, ThreadTypeOK, RunnerTypeOK
<1>d. Main \in Threads /\ Main \notin Callers /\ t \in Callers \cup {Main}
      /\ \A d \in Callers : d \in Threads
  BY SupervisorAssumption, Zenon DEF Threads
<1>x. \A q \in Runners : q # None
  BY SupervisorAssumption, Zenon
<1>p. tpc[t] \in {"stopped", "added"}
  BY Zenon DEF AddStep, AddRegister, AddGated, AddLaunch
<1>a. \A u \in Threads : u # t => tpc[u] \notin {"stopped", "added", "returned"}
                                   /\ (u \in Callers => tpc[u] = "idle")
  BY <1>d, <1>p, Alone, Zenon
<1>l. ASSUME NEW v \in {"added", "returned"}, tpc' = [tpc EXCEPT ![t] = v], lock' = lock
      PROVE  /\ LockDiscipline' /\ tpc'[t] = v
             /\ \A u \in Threads : u # t => tpc'[u] = tpc[u]
             /\ tpc' \in [Threads -> CallerPCs \cup MainPCs]
  <2>1. tpc'[t] = v /\ \A u \in Threads : u # t => tpc'[u] = tpc[u]
    BY <1>0, <1>l, Zenon
  <2>2. v \in CallerPCs /\ v \in MainPCs /\ v # "idle"
    BY <1>l DEF CallerPCs, MainPCs
  <2>3. ASSUME NEW d \in Callers PROVE tpc'[d] \in CallerPCs /\ (tpc'[d] # "idle" <=> lock' = d)
    <3>1. d \in Threads /\ tpc[d] \in CallerPCs /\ (tpc[d] # "idle" <=> lock = d)
      BY <1>d, Zenon DEF Inv, LockDiscipline
    <3>2. CASE d = t
      BY <1>l, <1>p, <2>1, <2>2, <3>1, <3>2, ZenonT(30)
    <3>3. CASE d # t
      BY <1>l, <2>1, <3>1, <3>3, ZenonT(30)
    <3> QED
      BY <3>2, <3>3, Zenon
  <2>4. tpc'[Main] \in MainPCs
    BY <1>d, <2>1, <2>2, Zenon DEF Inv, LockDiscipline
  <2>5. tpc'[Main] \in {"stopped", "added", "returned"} => lock' = None
    BY <1>d, <1>l, <1>p, <1>a, <2>1, ZenonT(30) DEF Inv, LockDiscipline
  <2>6. tpc' \in [Threads -> CallerPCs \cup MainPCs]
    BY <1>0, <1>l, <2>2, Zenon
  <2> QED
    BY <2>1, <2>3, <2>4, <2>5, <2>6, ZenonT(30) DEF LockDiscipline
<1>1. CASE AddRegister(t) /\ registered # None
  <2>1. tpc[t] = "stopped"
    BY <1>1, Zenon DEF AddRegister
  <2> QED
    BY <1>1, <2>1, Zenon DEF Inv, RegistryDiscipline
<1>2. CASE AddRegister(t) /\ registered = None
  <2>1. PICK r \in Runners :
          /\ Unreferenced(r) /\ registered' = r
          /\ target' = [target EXCEPT ![t] = r]
          /\ tpc' = [tpc EXCEPT ![t] = "added"]
          /\ pc' = [pc EXCEPT ![r] = "new"]
          /\ st' = [st EXCEPT ![r] = "pending"]
          /\ stopReq' = [stopReq EXCEPT ![r] = FALSE]
          /\ UNCHANGED <<lock, baseDone, proc, lingering, crashes, uptime, strikes, silence, starts>>
    BY <1>2, Zenon DEF AddRegister, processVars, localVars
  <2>2. LockDiscipline' /\ tpc'[t] = "added" /\ \A u \in Threads : u # t => tpc'[u] = tpc[u]
    BY <1>l, <2>1, Zenon
  <2>3. /\ target'[t] = r
        /\ pc'[r] = "new" /\ st'[r] = "pending"
        /\ \A q \in Runners : q # r => pc'[q] = pc[q] /\ st'[q] = st[q]
    BY <1>0, <2>1, Zenon
  <2>4. TypeOK'
    <3>1. "new" \in RunnerPCs /\ "pending" \in States
      BY DEF RunnerPCs, States
    <3>2. ThreadTypeOK'
      BY <1>0, <1>l, <2>1, Zenon DEF TypeOK, ThreadTypeOK
    <3>3. RunnerTypeOK' /\ LocalTypeOK'
      BY <1>0, <2>1, <3>1, Zenon DEF TypeOK, RunnerTypeOK, LocalTypeOK
    <3> QED
      BY <3>2, <3>3, Zenon DEF TypeOK
  <2>i. \A q \in Runners : pc[q] = "done"
    BY <1>2, <1>x, <1>a, <1>d, <1>p, ZenonT(30) DEF Inv, RunningIsOwned
  <2>5. RegistryDiscipline'
    BY <1>a, <2>1, <2>2, <2>3, ZenonT(30) DEF RegistryDiscipline
  <2>6. RunningIsOwned'
    BY <2>1, <2>3, <2>i, Zenon DEF RunningIsOwned
  <2>7. PositionDiscipline'
    <3>1. ASSUME NEW q \in Runners PROVE Position(pc[q], st[q], proc[q], strikes[q])
      BY Zenon DEF Inv, PositionDiscipline
    <3>2. Position("new", "pending", proc[r], strikes[r])
      BY <2>i, <3>1, SMTT(20) DEF Position
    <3>3. ASSUME NEW q \in Runners
          PROVE  /\ Position(pc'[q], st'[q], proc'[q], strikes'[q])
                 /\ pc'[q] = "new" => registered' = q /\ \E u \in Threads : tpc'[u] = "added"
      <4>1. CASE q = r
        BY <2>1, <2>2, <2>3, <3>2, <4>1, ZenonT(30)
      <4>2. CASE q # r
        BY <2>1, <2>3, <2>i, <3>1, <4>2, ZenonT(30)
      <4> QED
        BY <4>1, <4>2, Zenon
    <3> QED
      BY <3>3, Zenon DEF PositionDiscipline
  <2> QED
    BY <2>2, <2>4, <2>5, <2>6, <2>7, ZenonT(30) DEF Inv
<1>3. CASE AddGated(t) \/ AddLaunch(t)
  <2>1. PICK w \in {"done", "loop"}, s \in States, b \in BOOLEAN :
          /\ tpc[t] = "added" /\ tpc' = [tpc EXCEPT ![t] = "returned"]
          /\ target' = [target EXCEPT ![t] = None]
          /\ pc' = [pc EXCEPT ![target[t]] = w] /\ st' = [st EXCEPT ![target[t]] = s]
          /\ stopReq' = [stopReq EXCEPT ![target[t]] = b]
          /\ w = "loop" => s = st[target[t]]
          /\ w = "done" => s = "requirements-unmet"
          /\ UNCHANGED <<registered, lock, baseDone, proc, lingering, crashes, uptime, strikes,
                         silence, starts>>
    <3>1. CASE AddGated(t)
      <4>1. "requirements-unmet" \in States
        BY DEF States
      <4> QED
        BY <3>1, <4>1, Zenon DEF AddGated, processVars, localVars
    <3>2. CASE AddLaunch(t)
      <4>1. target[t] \in Runners
        BY <3>2, Zenon DEF AddLaunch, Inv, RegistryDiscipline
      <4>2. stopReq \in [Runners -> BOOLEAN]
        BY <1>0, Zenon DEF TypeOK, RunnerTypeOK
      <4>3. /\ st[target[t]] \in States /\ st = [st EXCEPT ![target[t]] = st[target[t]]]
            /\ stopReq[target[t]] \in BOOLEAN
            /\ stopReq = [stopReq EXCEPT ![target[t]] = stopReq[target[t]]]
        BY <1>0, <4>1, <4>2, Zenon
      <4>4. /\ tpc[t] = "added" /\ tpc' = [tpc EXCEPT ![t] = "returned"]
            /\ target' = [target EXCEPT ![t] = None] /\ pc' = [pc EXCEPT ![target[t]] = "loop"]
            /\ UNCHANGED <<registered, lock, baseDone, st, stopReq, proc, lingering, crashes, uptime,
                           strikes, silence, starts>>
        BY <3>2, Zenon DEF AddLaunch, processVars, localVars
      <4> QED
        BY <4>3, <4>4, Zenon
    <3> QED
      BY <1>3, <3>1, <3>2, Zenon
  <2>2. LockDiscipline' /\ tpc'[t] = "returned" /\ \A u \in Threads : u # t => tpc'[u] = tpc[u]
    BY <1>l, <2>1, ZenonT(30)
  <2>g. registered \in Runners /\ target[t] = registered /\ pc[registered] = "new"
    BY <2>1, Zenon DEF Inv, RegistryDiscipline
  <2>3. /\ pc'[registered] = w /\ st'[registered] = s
        /\ \A q \in Runners : q # registered => pc'[q] = pc[q] /\ st'[q] = st[q]
    BY <1>0, <2>1, <2>g, ZenonT(30)
  <2>4. TypeOK'
    <3>1. w \in RunnerPCs
      BY DEF RunnerPCs
    <3>2. ThreadTypeOK'
      BY <1>0, <1>l, <2>1, ZenonT(30) DEF TypeOK, ThreadTypeOK
    <3>3. RunnerTypeOK' /\ LocalTypeOK'
      BY <1>0, <2>1, <2>g, <3>1, ZenonT(30) DEF TypeOK, RunnerTypeOK, LocalTypeOK
    <3> QED
      BY <3>2, <3>3, ZenonT(30) DEF TypeOK
  <2>5. RegistryDiscipline'
    <3>1. ASSUME NEW u \in Threads
          PROVE  /\ tpc'[u] \notin {"stopped", "added"}
                 /\ ~(u \in Callers /\ tpc'[u] = "waiting")
      BY <1>a, <2>2, ZenonT(30)
    <3> QED
      BY <3>1, Zenon DEF RegistryDiscipline
  <2>6. RunningIsOwned'
    <3>1. \A q \in Runners : pc[q] # "done" => registered = q
      BY <1>a, <1>d, <1>p, ZenonT(30) DEF Inv, RunningIsOwned
    <3>2. ASSUME NEW q \in Runners, pc'[q] # "done" PROVE registered' = q
      BY <2>1, <2>3, <3>1, <3>2, ZenonT(30)
    <3> QED
      BY <3>2, Zenon DEF RunningIsOwned
  <2>7. PositionDiscipline'
    <3>1. ASSUME NEW q \in Runners
          PROVE  /\ Position(pc[q], st[q], proc[q], strikes[q])
                 /\ pc[q] = "new" => registered = q
      BY Zenon DEF Inv, PositionDiscipline
    <3>2. Position(w, s, proc[registered], strikes[registered])
      BY <2>1, <2>g, <3>1, SMTT(20) DEF Position
    <3>3. ASSUME NEW q \in Runners
          PROVE  Position(pc'[q], st'[q], proc'[q], strikes'[q]) /\ pc'[q] # "new"
      <4>1. CASE q = registered
        BY <2>1, <2>3, <3>2, <4>1, ZenonT(30)
      <4>2. CASE q # registered
        BY <2>1, <2>3, <3>1, <4>2, ZenonT(30)
      <4> QED
        BY <4>1, <4>2, ZenonT(30)
    <3> QED
      BY <3>3, Zenon DEF PositionDiscipline
  <2> QED
    BY <2>2, <2>4, <2>5, <2>6, <2>7, ZenonT(30) DEF Inv
<1> QED
  BY <1>1, <1>2, <1>3, Zenon DEF AddStep

\* Every step of Main keeps the invariant.
LEMMA MainStepInv ==
    ASSUME Inv, MainStep \/ CancelBase
    PROVE  Inv'
<1>0. /\ TypeOK /\ tpc \in [Threads -> CallerPCs \cup MainPCs]
      /\ target \in [Threads -> Runners \cup {None}] /\ registered \in Runners \cup {None}
  BY Zenon DEF Inv, TypeOK, ThreadTypeOK
<1>d. Main \in Threads /\ Main \notin Callers /\ \A d \in Callers : d \in Threads
  BY SupervisorAssumption, Zenon DEF Threads
<1>1. /\ UNCHANGED <<registered, lock, pc, st, stopReq, proc, lingering, crashes, uptime, strikes,
                     silence, starts>>
      /\ \/ UNCHANGED <<tpc, target>> /\ baseDone' = TRUE
         \/ /\ tpc[Main] # "added" /\ baseDone' = baseDone
            /\ \E v \in {"serving", "waiting", "exited", "failed"}, g \in Runners \cup {None} :
                  tpc' = [tpc EXCEPT ![Main] = v]
                  /\ (target' = target \/ target' = [target EXCEPT ![Main] = g])
  BY <1>0, Zenon DEF MainStep, ServeControl, Wait, WaitReturns, ControlSocketFails, CancelBase,
     runnerVars, processVars, localVars
<1>2. CASE UNCHANGED <<tpc, target>> /\ baseDone' = TRUE
  <2>1. TypeOK'
    BY <1>0, <1>1, <1>2, ZenonT(30) DEF TypeOK, ThreadTypeOK, RunnerTypeOK, LocalTypeOK
  <2>2. LockDiscipline' /\ RegistryDiscipline' /\ RunningIsOwned'
    BY <1>1, <1>2, Zenon DEF Inv, LockDiscipline, RegistryDiscipline, RunningIsOwned
  <2>3. PositionDiscipline'
    BY <1>1, <1>2, Zenon DEF Inv, PositionDiscipline
  <2> QED
    BY <2>1, <2>2, <2>3, ZenonT(30) DEF Inv
<1>3. ASSUME NEW v \in {"serving", "waiting", "exited", "failed"}, NEW g \in Runners \cup {None},
             tpc[Main] # "added", baseDone' = baseDone, tpc' = [tpc EXCEPT ![Main] = v],
             target' = target \/ target' = [target EXCEPT ![Main] = g]
      PROVE  Inv'
  <2>1. /\ tpc'[Main] = v
        /\ \A u \in Threads : u # Main => tpc'[u] = tpc[u] /\ target'[u] = target[u]
    BY <1>0, <1>d, <1>3, ZenonT(30)
  <2>2. v \in MainPCs
    BY DEF MainPCs
  <2>3. ThreadTypeOK'
    <3>1. tpc' \in [Threads -> CallerPCs \cup MainPCs]
      BY <1>0, <1>3, <2>2, ZenonT(30)
    <3>2. target' \in [Threads -> Runners \cup {None}]
      BY <1>0, <1>3, Zenon
    <3> QED
      BY <1>0, <1>1, <1>3, <3>1, <3>2, ZenonT(30) DEF TypeOK, ThreadTypeOK
  <2>4. RunnerTypeOK' /\ LocalTypeOK'
    BY <1>0, <1>1, ZenonT(30) DEF TypeOK, RunnerTypeOK, LocalTypeOK
  <2>5. \A d \in Callers : tpc'[d] = tpc[d] /\ target'[d] = target[d]
    BY <1>d, <2>1, Zenon
  <2>6. LockDiscipline'
    BY <1>1, <2>1, <2>2, <2>5, ZenonT(30) DEF Inv, LockDiscipline
  <2>7. RegistryDiscipline'
    BY <1>d, <1>1, <2>1, Zenon DEF Inv, RegistryDiscipline
  <2>w. \A d \in Callers : tpc[d] = "waiting" => tpc'[d] = "waiting" /\ target'[d] = target[d]
    BY <2>5, Zenon
  <2>8. RunningIsOwned'
    <3>1. ASSUME NEW q \in Runners, pc'[q] # "done"
          PROVE  registered' = q \/ \E c \in Callers : tpc'[c] = "waiting" /\ target'[c] = q
      <4>1. pc[q] # "done" /\ registered' = registered
        BY <1>1, <3>1, Zenon
      <4>2. registered = q \/ \E c \in Callers : tpc[c] = "waiting" /\ target[c] = q
        BY <4>1, Zenon DEF Inv, RunningIsOwned
      <4> QED
        BY <2>w, <4>1, <4>2, ZenonT(30)
    <3> QED
      BY <3>1, Zenon DEF RunningIsOwned
  <2>9. PositionDiscipline'
    BY <1>1, <1>3, <2>1, QuietPositions, ZenonT(30) DEF Inv, PositionDiscipline
  <2> QED
    BY <2>3, <2>4, <2>6, <2>7, <2>8, <2>9, ZenonT(30) DEF Inv, TypeOK
<1> QED
  BY <1>1, <1>2, <1>3, ZenonT(30)

\* Ages stay ages when time passes.
LEMMA TickAges ==
    ASSUME NEW s \in Seq(Ages)
    PROVE  [i \in DOMAIN s |-> Older(s[i], CrashWindow + 1)] \in Seq(Ages)
<1>1. Len(s) \in Nat /\ DOMAIN s = 1..Len(s) /\ \A i \in 1..Len(s) : s[i] \in Ages
  BY LenProperties, Zenon
<1>2. \A a \in Ages : Older(a, CrashWindow + 1) \in Ages
  BY SupervisorAssumption DEF Ages, Older
<1>3. [i \in 1..Len(s) |-> Older(s[i], CrashWindow + 1)] \in [1..Len(s) -> Ages]
  BY <1>1, <1>2, Zenon
<1> QED
  BY <1>1, <1>3, SeqDef

\* A tick keeps the invariant.
LEMMA TickInv ==
    ASSUME Inv, Tick
    PROVE  Inv'
<1> USE DEF Inv, TypeOK
<1>1. LocalTypeOK'
  <2>1. \A r \in Runners : crashes[r] \in Seq(Ages) /\ starts[r] \in Seq(Ages)
    BY Zenon DEF LocalTypeOK, Ages
  <2>2. crashes' \in [Runners -> Seq(Ages)] /\ starts' \in [Runners -> Seq(Ages)]
    BY <2>1, TickAges, PruneType, ZenonT(30) DEF Tick
  <2>3. uptime' \in [Runners -> 0..StableAfter]
    BY SupervisorAssumption, SMTT(20) DEF Tick, Older, LocalTypeOK
  <2>4. silence' \in [Runners -> 0..(2 * WatchdogInterval + 1)]
    BY SupervisorAssumption, SMTT(20) DEF Tick, Older, LocalTypeOK
  <2> QED
    BY <2>2, <2>3, <2>4, ZenonT(30) DEF Tick, LocalTypeOK, Ages
<1>2. ThreadTypeOK' /\ RunnerTypeOK'
  BY Zenon DEF Tick, ThreadTypeOK, RunnerTypeOK, threadVars, processVars
<1>3. LockDiscipline' /\ RegistryDiscipline' /\ RunningIsOwned'
  BY Zenon DEF Tick, threadVars, LockDiscipline, RegistryDiscipline, RunningIsOwned
<1>4. PositionDiscipline'
  BY Zenon DEF Tick, threadVars, processVars, PositionDiscipline
<1> QED
  BY <1>1, <1>2, <1>3, <1>4, ZenonT(30)

\* The invariant holds in every reachable state.
LEMMA Invariance == Spec => []Inv
<1>1. Inv /\ [Next]_vars => Inv'
  <2> SUFFICES ASSUME Inv, [Next]_vars PROVE Inv'
    BY Zenon
  <2>1. CASE UNCHANGED vars
    <3>1. UNCHANGED <<registered, lock, tpc, target, baseDone, pc, st, stopReq, proc, lingering,
                      crashes, uptime, strikes, silence, starts>>
      BY <2>1, Zenon DEF vars, threadVars, runnerVars, processVars, localVars
    <3>2. TypeOK'
      BY <3>1, Zenon DEF Inv, TypeOK, ThreadTypeOK, RunnerTypeOK, LocalTypeOK
    <3>3. LockDiscipline' /\ RegistryDiscipline' /\ RunningIsOwned' /\ PositionDiscipline'
      BY <3>1, Zenon DEF Inv, LockDiscipline, RegistryDiscipline, RunningIsOwned,
         PositionDiscipline
    <3> QED
      BY <3>2, <3>3, Zenon DEF Inv
  <2>2. CASE Next
    BY <2>1, <2>2, RunnerStepInv, ProcessStepInv, CallerStepInv, AddStepInv, MainStepInv,
       TickInv, ZenonT(30) DEF Next
  <2> QED
    BY <2>1, <2>2, Zenon
<1> QED
  BY <1>1, InitInv, PTL DEF Spec

-----------------------------------------------------------------------------
(* What the invariant gives.                                               *)

\* Every variable keeps its type in every reachable state.
THEOREM TypeCorrect == Spec => []TypeOK
<1>1. Inv => TypeOK
  BY Zenon DEF Inv
<1> QED
  BY <1>1, Invariance, PTL

\* However the operations on a module id, its crashes and its relaunches
\* interleave, at most one runner owns a process it has not seen the end of.
THEOREM AtMostOneProcess == Spec => []OneLiveProcess
<1>1. Inv => OneLiveProcess
  <2> SUFFICES ASSUME Inv, NEW r \in Runners, NEW q \in Runners, Live(r), Live(q)
               PROVE  r = q
    BY Zenon DEF OneLiveProcess
  <2>1. pc[r] # "done" /\ pc[q] # "done"
    BY Zenon DEF Inv, PositionDiscipline, Position, Live
  <2>2. \A c \in Callers : tpc[c] = "waiting" => c = lock /\ registered = None
    BY Zenon DEF Inv, LockDiscipline, RegistryDiscipline, Threads
  <2> QED
    BY <2>1, <2>2, SupervisorAssumption, Zenon DEF Inv, RunningIsOwned
<1> QED
  BY <1>1, Invariance, PTL

\* When StopModule has returned to a request, no goroutine of the id runs and
\* no process of it is live, so that Replace never overlaps two versions.
THEOREM StopComplete == Spec => []StopIsComplete
<1>1. Inv => StopIsComplete
  <2> SUFFICES ASSUME Inv, NEW c \in Callers, tpc[c] = "stopped", NEW r \in Runners
               PROVE  pc[r] = "done" /\ ~Live(r)
    BY Zenon DEF StopIsComplete
  <2>1. registered = None
    BY Zenon DEF Inv, RegistryDiscipline, Threads
  <2>2. \A d \in Callers : tpc[d] # "waiting"
    BY SupervisorAssumption, Zenon DEF Inv, LockDiscipline
  <2>3. pc[r] = "done"
    BY <2>1, <2>2, SupervisorAssumption, Zenon DEF Inv, RunningIsOwned
  <2> QED
    BY <2>3, Zenon DEF Inv, PositionDiscipline, Position, Live
<1> QED
  BY <1>1, Invariance, PTL

\* A runner that shows a down state owns no process.
THEOREM DownHasNoProcess == Spec => []DownMeansNoProcess
<1>1. Inv => DownMeansNoProcess
  BY Zenon DEF Inv, PositionDiscipline, Position, DownMeansNoProcess
<1> QED
  BY <1>1, Invariance, PTL

\* A step of a goroutine that runs writes only the state and the process of
\* its own struct.
LEMMA RunnerWrites ==
    ASSUME Inv, NEW q \in Runners, RunnerStep(q), NEW r \in Runners, pc[r] = "done"
    PROVE  st'[r] = st[r] /\ proc'[r] = proc[r]
<1>1. pc[q] # "done"
  BY Zenon DEF RunnerStep, Progress, LoopStops, LoopLaunches, SpawnFails, Spawn, HandshakeLine,
     LaunchAborts, HandshakeExited, ProtocolRefused, Started, PollFails, PollAnswers,
     MonitorStops, MonitorExited, WatchdogFires, DrainTimeout, Drained, Reaped, BackoffElapses,
     BackoffStops
<1>2. q # r
  BY <1>1, Zenon
<1>3. /\ st' = st \/ \E s : st' = [st EXCEPT ![q] = s]
      /\ proc' = proc \/ \E p : proc' = [proc EXCEPT ![q] = p]
  <2>1. ASSUME NEW s, Return(q, s) PROVE \E u : st' = [st EXCEPT ![q] = u]
    BY <2>1, Zenon DEF Return, Settle
  <2>2. ASSUME NEW b, Account(q, b) PROVE \E u : st' = [st EXCEPT ![q] = u]
    BY <2>1, <2>2, Zenon DEF Account, Settle
  <2>3. LaunchFailed(q) => \E u : st' = [st EXCEPT ![q] = u]
    BY <2>1, <2>2, Zenon DEF LaunchFailed
  <2>4. /\ KillProc(q) => \E p : proc' = [proc EXCEPT ![q] = p]
        /\ CleanupProc(q) => \E p : proc' = [proc EXCEPT ![q] = p]
        /\ PollEnds(q) => proc' = proc \/ \E p : proc' = [proc EXCEPT ![q] = p]
    BY Zenon DEF KillProc, CleanupProc, PollEnds
  <2>5. CASE LoopStops(q) \/ LoopLaunches(q) \/ SpawnFails(q) \/ Spawn(q) \/ HandshakeLine(q)
             \/ LaunchAborts(q) \/ HandshakeExited(q) \/ ProtocolRefused(q) \/ Started(q)
    BY <2>1, <2>3, <2>4, <2>5, ZenonT(30) DEF LoopStops, LoopLaunches, SpawnFails, Spawn,
       HandshakeLine, LaunchAborts, HandshakeExited, ProtocolRefused, Started, processVars
  <2>6. CASE DrainTimeout(q) \/ Drained(q) \/ Reaped(q) \/ BackoffElapses(q) \/ BackoffStops(q)
             \/ PollFails(q) \/ PollAnswers(q) \/ MonitorStops(q) \/ MonitorExited(q)
             \/ WatchdogFires(q)
    BY <2>1, <2>2, <2>4, <2>6, ZenonT(30) DEF DrainTimeout, Drained, Reaped, BackoffElapses,
       BackoffStops, PollFails, PollAnswers, MonitorStops, MonitorExited, WatchdogFires,
       processVars
  <2> QED
    BY <2>5, <2>6, Zenon DEF RunnerStep, Progress
<1> QED
  BY <1>2, <1>3, Zenon DEF Inv, TypeOK, RunnerTypeOK

\* A terminal state is left only by a new Add of the unregistered struct.
THEOREM TerminalFinal == Spec => TerminalIsFinal
<1> DEFINE Final(r) ==
        st[r] \in {"start-limited", "unsupported-protocol", "requirements-unmet"} =>
            \/ st'[r] = st[r] /\ proc'[r] = proc[r]
            \/ st'[r] = "pending" /\ registered = None
<1>1. ASSUME Inv, [Next]_vars, NEW r \in Runners PROVE Final(r)
  <2> SUFFICES ASSUME st[r] \in {"start-limited", "unsupported-protocol", "requirements-unmet"}
               PROVE  \/ st'[r] = st[r] /\ proc'[r] = proc[r]
                      \/ st'[r] = "pending" /\ registered = None
    BY Zenon DEF Final
  <2>1. pc[r] = "done" /\ proc[r] = "none"
    BY <1>1, Zenon DEF Inv, PositionDiscipline, Position
  <2>2. ASSUME NEW q \in Runners, RunnerStep(q) PROVE st'[r] = st[r] /\ proc'[r] = proc[r]
    BY <1>1, <2>1, <2>2, RunnerWrites, ZenonT(30)
  <2>3. ASSUME NEW q \in Runners, ProcessStep(q) PROVE st'[r] = st[r] /\ proc'[r] = proc[r]
    BY <1>1, <2>1, <2>3, ZenonT(30)
       DEF Inv, TypeOK, RunnerTypeOK, ProcessStep, Exit, LingererExits, Hang, Keepalive,
           Live,
           processVars
  <2>4. ASSUME NEW c \in Callers, CallerStep(c) PROVE st'[r] = st[r] /\ proc'[r] = proc[r]
    BY <2>4, Zenon DEF CallerStep, LockModule, UnlockModule, StopModule, StopModuleReturns,
                runnerVars, processVars
  <2>5. ASSUME NEW t \in Threads, AddStep(t)
        PROVE  \/ st'[r] = st[r] /\ proc'[r] = proc[r]
               \/ st'[r] = "pending" /\ registered = None
    <3>1. CASE AddRegister(t)
      BY <1>1, <3>1, SMTT(20) DEF AddRegister, Inv, TypeOK, RunnerTypeOK, processVars
    <3>2. CASE AddGated(t) \/ AddLaunch(t)
      <4>1. target[t] # r
        BY <1>1, <2>1, <3>2, ZenonT(30) DEF AddGated, AddLaunch, Inv, RegistryDiscipline
      <4> QED
        BY <1>1, <3>2, <4>1, ZenonT(30) DEF AddGated, AddLaunch, Inv, TypeOK, RunnerTypeOK,
           processVars
    <3> QED
      BY <2>5, <3>1, <3>2, ZenonT(30) DEF AddStep
  <2>6. CASE MainStep \/ CancelBase \/ Tick \/ UNCHANGED vars
    BY <2>6, Zenon DEF MainStep, ServeControl, Wait, WaitReturns, ControlSocketFails, CancelBase,
                Tick, vars, runnerVars, processVars
  <2> QED
    BY <1>1, <2>2, <2>3, <2>4, <2>5, <2>6, ZenonT(30) DEF Next
<1>2. Inv /\ [Next]_vars => \A r \in Runners : Final(r)
  BY <1>1, Zenon
<1> QED
  BY <1>2, Invariance, PTL DEF Spec, TerminalIsFinal, Final

-----------------------------------------------------------------------------
(* The launch rate.  While a launch is under way the history of launches   *)
(* is one ahead of the crash list at most, and counted from the end each   *)
(* crash is no older than the launch it ended.  The breaker keeps the      *)
(* crash list below the burst, so the launches within a window stay within *)
(* the burst.                                                              *)

\* A launch the crash list does not count yet.
Credit(w) ==
    IF w \in {"spawn", "handshake", "init", "poll", "monitor", "draining", "killing"}
    THEN 1 ELSE 0

\* The launches sl against the crashes cr, with b launches under way.
Lists(b, cr, sl) ==
    /\ Len(cr) < StartBurst
    /\ Len(sl) <= Len(cr) + b
    /\ \A i \in 1..Len(sl) : sl[i] <= CrashWindow
    /\ \A i, j \in 1..Len(sl) : i < j => sl[i] >= sl[j]
    /\ \A i \in 1..Len(sl), k \in 1..Len(cr) :
          k = Len(cr) + b - Len(sl) + i => cr[k] <= sl[i]

\* The invariant of the launch rate: both lists keep step, and a goroutine
\* that does not run has none.
Pace ==
    \A r \in Runners :
        /\ Lists(Credit(pc[r]), crashes[r], starts[r])
        /\ pc[r] \in {"done", "new"} => crashes[r] = <<>> /\ starts[r] = <<>>

\* Every nonempty set of natural numbers has a least element.
LEMMA LeastNat ==
    ASSUME NEW S \in SUBSET Nat, S # {}
    PROVE  \E n \in S : \A m \in S : n <= m
<1> DEFINE R == {pair \in Nat \X Nat : pair[1] < pair[2]}
<1>1. IsWellFoundedOn(R, Nat)
    BY NatLessThanWellFounded DEF OpToRel
<1>2. PICK n \in S : \A m \in S : ~(<<m, n>> \in R)
    <2> HIDE DEF R
    <2> QED BY <1>1, WFMin, ZenonT(30)
<1>3. ASSUME NEW m \in S PROVE n <= m
    <2>1. m \in Nat /\ n \in Nat /\ <<m, n>> \notin R
        BY <1>2
    <2> QED BY <2>1, SMTT(20)
<1> QED BY <1>3, Zenon

\* The size of an initial interval.
LEMMA IntervalSize ==
    ASSUME NEW z \in Nat
    PROVE  IsFiniteSet(1..z) /\ Cardinality(1..z) = z
<1>1. 1 \in Int /\ z \in Int
  OBVIOUS
<1>2. IsFiniteSet(1..z)
  BY <1>1, FS_Interval, Zenon
<1>3. Cardinality(1..z) = z
  BY <1>1, FS_Interval, SMTT(20)
<1> QED
  BY <1>2, <1>3, Zenon

\* A set of the first positions of a list is an initial interval.
LEMMA InitialInterval ==
    ASSUME NEW m \in Nat, NEW X \in SUBSET (1..m),
           \A i, j \in 1..m : i < j /\ j \in X => i \in X
    PROVE  Cardinality(X) \in 0..m /\ X = 1..Cardinality(X)
<1> DEFINE S == {i \in Nat : i + 1 \notin X}
<1>1. S \in SUBSET Nat /\ m \in S
  OBVIOUS
<1>2. PICK e \in S : \A j \in S : e <= j
  <2> HIDE DEF S
  <2> QED
    BY <1>1, LeastNat, Zenon
<1>3. e \in Nat /\ e + 1 \notin X /\ e <= m
  BY <1>1, <1>2, SMTT(20)
<1>4. \A j \in Nat : j < e => j + 1 \in X
  BY <1>2, SMTT(20)
<1>5. ASSUME NEW x \in 1..e PROVE x \in X
  <2>1. x - 1 \in Nat /\ x - 1 < e /\ (x - 1) + 1 = x
    BY <1>3, SMTT(20)
  <2> QED
    BY <1>4, <2>1, SMTT(20)
<1>6. ASSUME NEW x \in X PROVE x \in 1..e
  <2>1. x \in 1..m
    OBVIOUS
  <2>2. CASE x > e + 1
    <3>1. e + 1 \in 1..m /\ e + 1 < x
      BY <1>3, <2>1, <2>2, SMTT(20)
    <3> QED
      BY <1>3, <2>1, <3>1, SMTT(20)
  <2>3. x # e + 1
    BY <1>3
  <2> QED
    BY <1>3, <2>1, <2>2, <2>3, SMTT(20)
<1>7. X = 1..e
  BY <1>5, <1>6, Zenon
<1>8. Cardinality(1..e) = e
  BY <1>3, IntervalSize, Zenon
<1> QED
  BY <1>3, <1>7, <1>8, SMTT(20)

\* The entries of a list of ages are numbers.
LEMMA AgesAreNat ==
    ASSUME NEW s \in Seq(Ages)
    PROVE  \A i \in 1..Len(s) : s[i] \in Ages /\ s[i] \in Nat
<1>1. Ages \in SUBSET Nat
  BY SupervisorAssumption DEF Ages
<1>2. \A i \in 1..Len(s) : s[i] \in Ages
  BY LenProperties, Zenon
<1> QED
  BY <1>1, <1>2, ZenonT(30)

\* How much of a list Prune drops, and what is left of it.
LEMMA Pruned ==
    ASSUME NEW s \in Seq(Ages)
    PROVE  /\ Expired(s) \in 0..Len(s) /\ Len(Prune(s)) = Len(s) - Expired(s)
           /\ \A i \in 1..Len(Prune(s)) : Prune(s)[i] = s[Expired(s) + i]
<1> DEFINE X == {i \in 1..Len(s) : s[i] > CrashWindow}
<1>1. Len(s) \in Nat
  BY LenProperties, Zenon
<1>2. IsFiniteSet(1..Len(s)) /\ Cardinality(1..Len(s)) = Len(s)
  BY <1>1, IntervalSize, Zenon
<1>3. X \in SUBSET (1..Len(s))
  OBVIOUS
<1>4. Cardinality(X) \in Nat /\ Cardinality(X) <= Len(s)
  <2> HIDE DEF X
  <2> QED
    BY <1>2, <1>3, FS_Subset, FS_CardinalityType, ZenonT(30)
<1>5. Expired(s) = Cardinality(X)
  BY Zenon DEF Expired
<1> HIDE DEF X
<1>6. PICK e \in 0..Len(s) : Expired(s) = e
  BY <1>1, <1>4, <1>5, SMTT(20)
<1>7. \A i \in (e + 1)..Len(s) : s[i] \in Ages
  BY <1>1, <1>6, SMTT(20)
<1>8. Prune(s) = SubSeq(s, e + 1, Len(s))
  BY <1>6, Zenon DEF Prune
<1> QED
  BY <1>1, <1>6, <1>7, <1>8, SubSeqProperties, SMTT(20)

\* A launch adds to the history what it adds to the credit.
LEMMA LaunchPaced ==
    ASSUME NEW cr \in Seq(Ages), NEW sl \in Seq(Ages), Lists(0, cr, sl)
    PROVE  Lists(1, cr, Append(sl, 0))
<1>1. PICK n \in Nat, m \in Nat : n = Len(cr) /\ m = Len(sl)
  BY LenProperties, Zenon
<1>2. /\ Len(Append(sl, 0)) = m + 1 /\ Append(sl, 0)[m + 1] = 0
      /\ \A i \in 1..m : Append(sl, 0)[i] = sl[i]
  BY <1>1, AppendProperties
<1>3. /\ \A i \in 1..m : sl[i] \in Nat
      /\ \A k \in 1..n : cr[k] \in Nat
  BY <1>1, AgesAreNat, Zenon
<1>5. /\ n < StartBurst /\ m <= n
      /\ \A i \in 1..m : sl[i] <= CrashWindow
      /\ \A i, j \in 1..m : i < j => sl[i] >= sl[j]
      /\ \A i \in 1..m, k \in 1..n : k = n - m + i => cr[k] <= sl[i]
  BY <1>1, SMTT(20) DEF Lists
<1>0. 0 \in Ages
  BY SupervisorAssumption DEF Ages
<1>4. PICK a \in Seq(Ages) : a = Append(sl, 0)
  BY <1>0, AppendProperties, ZenonT(30)
<1>6. /\ \A i \in 1..(m + 1) : a[i] <= CrashWindow
      /\ \A i, j \in 1..(m + 1) : i < j => a[i] >= a[j]
  BY <1>2, <1>3, <1>4, <1>5, SupervisorAssumption, SMTT(20)
<1>7. ASSUME NEW i \in 1..(m + 1), NEW k \in 1..n, k = n + 1 - (m + 1) + i
      PROVE  cr[k] <= a[i]
  <2>1. i \in 1..m /\ k = n - m + i
    BY <1>7, SMTT(20)
  <2> QED
    BY <1>2, <1>4, <1>5, <2>1, SMTT(20)
<1>8. Len(a) = m + 1
  BY <1>2, <1>4, ZenonT(30)
<1>9. Lists(1, cr, a)
  BY <1>1, <1>5, <1>6, <1>7, <1>8, SMTT(20) DEF Lists
<1> QED
  BY <1>4, <1>9, Zenon

\* Recording the crash of that launch brings the lists in step again.
LEMMA RecordPaced ==
    ASSUME NEW cr \in Seq(Ages), NEW sl \in Seq(Ages), Lists(1, cr, sl),
           Len(Prune(Append(cr, 0))) < StartBurst
    PROVE  Lists(0, Prune(Append(cr, 0)), sl)
<1>1. PICK n \in Nat, m \in Nat : n = Len(cr) /\ m = Len(sl)
  BY LenProperties, Zenon
<1>2. 0 \in Ages
  BY SupervisorAssumption, SMTT(20) DEF Ages
<1>3. PICK a \in Seq(Ages) : a = Append(cr, 0)
  BY <1>2, AppendProperties, ZenonT(30)
<1>4. Len(a) = n + 1 /\ a[n + 1] = 0 /\ \A k \in 1..n : a[k] = cr[k]
  BY <1>1, <1>3, AppendProperties, SMTT(20)
<1>5. /\ m <= n + 1
      /\ \A i \in 1..m : sl[i] <= CrashWindow
      /\ \A i, j \in 1..m : i < j => sl[i] >= sl[j]
      /\ \A i \in 1..m, k \in 1..n : k = n + 1 - m + i => cr[k] <= sl[i]
  BY <1>1, SMTT(20) DEF Lists
<1>6. ASSUME NEW i \in 1..m PROVE a[n + 1 - m + i] <= sl[i] /\ sl[i] \in Nat
  <2>1. sl[i] \in Nat
    BY <1>1, AgesAreNat, ZenonT(30)
  <2>2. CASE i = m
    BY <1>4, <2>1, <2>2, SMTT(20)
  <2>3. CASE i # m
    <3>1. n + 1 - m + i \in 1..n
      BY <1>5, <2>3, SMTT(20)
    <3> QED
      BY <1>4, <1>5, <2>1, <3>1, SMTT(20)
  <2> QED
    BY <2>2, <2>3, <2>1, SMTT(20)
<1>7. \A k \in 1..(n + 1) : a[k] \in Nat
  BY <1>4, AgesAreNat, ZenonT(30)
<1>8. ASSUME NEW k \in 1..(n + 1), a[k] > CrashWindow PROVE k \in 1..(n + 1 - m)
  <2>1. CASE k > n + 1 - m
    <3>1. k - (n + 1 - m) \in 1..m /\ n + 1 - m + (k - (n + 1 - m)) = k
      BY <1>5, <2>1, SMTT(20)
    <3>2. a[k] <= sl[k - (n + 1 - m)] /\ sl[k - (n + 1 - m)] <= CrashWindow
          /\ sl[k - (n + 1 - m)] \in Nat
      BY <1>5, <1>6, <3>1, SMTT(20)
    <3> QED
      BY <1>7, <1>8, <3>2, SupervisorAssumption, SMTT(20)
  <2> QED
    BY <2>1, <1>5, SMTT(20)
<1>9. Expired(a) <= n + 1 - m
  <2> DEFINE X == {k \in 1..Len(a) : a[k] > CrashWindow}
  <2>1. X \in SUBSET (1..(n + 1 - m))
    BY <1>4, <1>8, SMTT(20)
  <2>2. Expired(a) = Cardinality(X)
    BY Zenon DEF Expired
  <2> HIDE DEF X
  <2>3. PICK z \in Nat : z = n + 1 - m
    BY <1>5, SMTT(20)
  <2>4. IsFiniteSet(1..z) /\ Cardinality(1..z) = z
    BY IntervalSize, Zenon
  <2>5. Cardinality(X) <= Cardinality(1..z)
    BY <2>1, <2>3, <2>4, FS_Subset, ZenonT(30)
  <2> QED
    BY <2>2, <2>3, <2>4, <2>5, ZenonT(30)
<1>10. PICK e \in Nat : /\ e = Expired(a) /\ e <= n + 1 - m
                        /\ Len(Prune(a)) = n + 1 - e
                        /\ \A i \in 1..(n + 1 - e) : Prune(a)[i] = a[e + i]
  <2>1. /\ Expired(a) \in 0..Len(a) /\ Len(Prune(a)) = Len(a) - Expired(a)
        /\ \A i \in 1..Len(Prune(a)) : Prune(a)[i] = a[Expired(a) + i]
    BY Pruned, ZenonT(30)
  <2>2. PICK e \in Nat : e = Expired(a)
    BY <1>4, <2>1, SMTT(20)
  <2>3. Len(Prune(a)) = n + 1 - e
    <3>1. Len(Prune(a)) = Len(a) - Expired(a) /\ Len(a) = n + 1 /\ e = Expired(a)
      BY <1>4, <2>1, <2>2, ZenonT(30)
    <3> QED
      BY <3>1
  <2> QED
    BY <1>9, <2>1, <2>2, <2>3, ZenonT(30)
<1>11. PICK p : p = Prune(a)
  BY Zenon
<1>12. ASSUME NEW i \in 1..m, NEW k \in 1..(n + 1 - e), k = (n + 1 - e) + 0 - m + i
       PROVE  p[k] <= sl[i]
  <2>1. e + k = n + 1 - m + i
    BY <1>12
  <2> QED
    BY <1>6, <1>10, <1>11, <2>1, ZenonT(30)
<1>13. Len(p) = n + 1 - e /\ m <= n + 1 - e + 0 /\ Len(p) < StartBurst
  BY <1>3, <1>5, <1>10, <1>11, SMTT(20)
<1>14. Lists(0, p, sl)
  BY <1>1, <1>5, <1>12, <1>13, SMTT(20) DEF Lists
<1> QED
  BY <1>3, <1>11, <1>14, ZenonT(30)

\* Without launches in the history any crash list below the burst will do.
LEMMA NothingPaced ==
    ASSUME NEW cr \in Seq(Ages), Len(cr) < StartBurst
    PROVE  Lists(0, cr, <<>>)
<1>1. Len(<<>>) = 0 /\ 1..0 = {}
  OBVIOUS
<1>2. Len(cr) \in Nat
  BY LenProperties, ZenonT(30)
<1> QED
  BY <1>1, <1>2, SMTT(20) DEF Lists

\* A list of ages one tick later.
Aged(s) == [i \in DOMAIN s |-> Older(s[i], CrashWindow + 1)]

\* Time passes for both lists alike, and only launches out of the window,
\* which are the oldest, leave the history.
LEMMA TickPaced ==
    ASSUME NEW b \in Nat, NEW cr \in Seq(Ages), NEW sl \in Seq(Ages), Lists(b, cr, sl)
    PROVE  Lists(b, Aged(cr), Prune(Aged(sl)))
<1>1. PICK n \in Nat, m \in Nat : n = Len(cr) /\ m = Len(sl)
  BY LenProperties, Zenon
<1>2. PICK c \in Seq(Ages), g \in Seq(Ages) : c = Aged(cr) /\ g = Aged(sl)
  BY TickAges, ZenonT(30) DEF Aged
<1>3. /\ DOMAIN cr = 1..n /\ DOMAIN sl = 1..m
      /\ \A k \in 1..n : cr[k] \in Ages
      /\ \A i \in 1..m : sl[i] \in Ages
  BY <1>1, LenProperties, ZenonT(30)
<1>4. /\ Len(c) = n /\ \A k \in 1..n : c[k] = Older(cr[k], CrashWindow + 1)
      /\ Len(g) = m /\ \A i \in 1..m : g[i] = Older(sl[i], CrashWindow + 1)
  <2>1. DOMAIN c = 1..n /\ DOMAIN g = 1..m
    BY <1>2, <1>3, ZenonT(30) DEF Aged
  <2>2. Len(c) = n /\ Len(g) = m
    BY <2>1, LenProperties, SMTT(20)
  <2>3. /\ \A k \in 1..n : c[k] = Older(cr[k], CrashWindow + 1)
        /\ \A i \in 1..m : g[i] = Older(sl[i], CrashWindow + 1)
    BY <1>2, <1>3, ZenonT(30) DEF Aged
  <2> QED
    BY <2>2, <2>3, ZenonT(30)
<1>5. \A x, y \in Ages : x >= y =>
         /\ Older(x, CrashWindow + 1) \in Ages /\ Older(y, CrashWindow + 1) \in Ages
         /\ Older(x, CrashWindow + 1) >= Older(y, CrashWindow + 1)
  BY SupervisorAssumption, SMTT(20) DEF Ages, Older
<1>6. /\ n < StartBurst /\ m <= n + b
      /\ \A i, j \in 1..m : i < j => sl[i] >= sl[j]
      /\ \A i \in 1..m, k \in 1..n : k = n + b - m + i => cr[k] <= sl[i]
  BY <1>1, SMTT(20) DEF Lists
<1>7. \A i \in 1..m : g[i] \in Nat
  BY <1>4, AgesAreNat, ZenonT(30)
<1>8. \A i, j \in 1..m : i < j => g[i] >= g[j]
  BY <1>3, <1>4, <1>5, <1>6, SMTT(20)
<1>9. \A i \in 1..m, k \in 1..n : k = n + b - m + i => c[k] <= g[i]
  <2>1. ASSUME NEW i \in 1..m, NEW k \in 1..n, k = n + b - m + i
        PROVE  c[k] <= g[i]
    <3>1. sl[i] >= cr[k] /\ sl[i] \in Ages /\ cr[k] \in Ages
      BY <1>3, <1>6, <2>1, SMTT(20) DEF Ages
    <3>2. Older(sl[i], CrashWindow + 1) >= Older(cr[k], CrashWindow + 1)
          /\ Older(sl[i], CrashWindow + 1) \in Ages /\ Older(cr[k], CrashWindow + 1) \in Ages
      BY <1>5, <3>1, Zenon
    <3> QED
      BY <1>4, <3>2, SMTT(20) DEF Ages
  <2> QED
    BY <2>1, SMTT(20)
<1>10. PICK e \in Nat :
          /\ e <= m /\ Len(Prune(g)) = m - e
          /\ \A i \in 1..(m - e) : Prune(g)[i] = g[e + i] /\ g[e + i] <= CrashWindow
  <2> DEFINE X == {i \in 1..m : g[i] > CrashWindow}
  <2>1. X \in SUBSET (1..m)
    BY SMTT(20)
  <2>2. \A i, j \in 1..m : i < j /\ j \in X => i \in X
    BY <1>7, <1>8, SupervisorAssumption, SMTT(20)
  <2>3. Expired(g) = Cardinality(X)
    BY <1>4, ZenonT(30) DEF Expired
  <2>4. \A i \in 1..m : i \notin X => g[i] <= CrashWindow
    BY <1>7, SupervisorAssumption, SMTT(20)
  <2> HIDE DEF X
  <2>5. Cardinality(X) \in 0..m /\ X = 1..Cardinality(X)
    BY <2>1, <2>2, InitialInterval, ZenonT(30)
  <2>6. PICK e \in Nat : e = Cardinality(X) /\ e <= m
    BY <2>5, SMTT(20)
  <2>7. Len(Prune(g)) = m - e /\ \A i \in 1..(m - e) : Prune(g)[i] = g[e + i]
    <3>1. /\ Len(Prune(g)) = Len(g) - Expired(g)
          /\ \A i \in 1..Len(Prune(g)) : Prune(g)[i] = g[Expired(g) + i]
      BY Pruned, Zenon
    <3>2. Len(g) = m /\ Expired(g) = e
      BY <1>4, <2>3, <2>6, ZenonT(30)
    <3> QED
      BY <3>1, <3>2, ZenonT(30)
  <2>8. ASSUME NEW i \in 1..(m - e) PROVE g[e + i] <= CrashWindow
    <3>1. e + i \in 1..m /\ e + i \notin 1..e
      BY <2>6, SMTT(20)
    <3>2. e + i \notin X
      BY <2>5, <2>6, <3>1, Zenon
    <3> QED
      BY <2>4, <3>1, <3>2, ZenonT(30)
  <2> QED
    BY <2>6, <2>7, <2>8, ZenonT(30)
<1>11. PICK p : p = Prune(g)
  BY Zenon
<1>12. Len(p) = m - e /\ \A i \in 1..(m - e) : p[i] = g[e + i] /\ p[i] <= CrashWindow
  BY <1>10, <1>11, ZenonT(30)
<1>13. ASSUME NEW i \in 1..(m - e), NEW j \in 1..(m - e), i < j PROVE p[i] >= p[j]
  <2>1. e + i \in 1..m /\ e + j \in 1..m /\ e + i < e + j
    BY <1>10, <1>13, SMTT(20)
  <2> QED
    BY <1>8, <1>12, <2>1, SMTT(20)
<1>14. ASSUME NEW i \in 1..(m - e), NEW k \in 1..n, k = n + b - (m - e) + i
       PROVE  c[k] <= p[i]
  <2>1. e + i \in 1..m /\ k = n + b - m + (e + i)
    BY <1>10, <1>14, SMTT(20)
  <2> QED
    BY <1>9, <1>12, <2>1, SMTT(20)
<1>15. m - e <= n + b
  BY <1>6, <1>10, SMTT(20)
<1>16. Lists(b, c, p)
  BY <1>4, <1>6, <1>12, <1>13, <1>14, <1>15, SMTT(20) DEF Lists
<1> QED
  BY <1>2, <1>11, <1>16, ZenonT(30)

\* A step that leaves one goroutine's lists in step, and the others alone.
LEMMA PaceFrame ==
    ASSUME Inv, Pace, NEW r \in Runners,
           \A q \in Runners : q # r =>
              pc'[q] = pc[q] /\ crashes'[q] = crashes[q] /\ starts'[q] = starts[q],
           Lists(Credit(pc'[r]), crashes'[r], starts'[r]),
           pc'[r] \in {"done", "new"} => crashes'[r] = <<>> /\ starts'[r] = <<>>
    PROVE  Pace'
<1>1. ASSUME NEW q \in Runners
      PROVE  /\ Lists(Credit(pc'[q]), crashes'[q], starts'[q])
             /\ pc'[q] \in {"done", "new"} => crashes'[q] = <<>> /\ starts'[q] = <<>>
  <2>1. CASE q = r
    BY <2>1, Zenon
  <2>2. CASE q # r
    BY <2>2, Zenon DEF Pace
  <2> QED
    BY <2>1, <2>2, Zenon
<1> QED
  BY <1>1, Zenon DEF Pace

\* run returns: the lists are gone.
LEMMA ReturnPaced ==
    ASSUME Inv, Pace, NEW r \in Runners, NEW s, Return(r, s)
    PROVE  Pace'
<1>1. /\ pc'[r] = "done" /\ crashes'[r] = <<>> /\ starts'[r] = <<>>
      /\ \A q \in Runners : q # r =>
            pc'[q] = pc[q] /\ crashes'[q] = crashes[q] /\ starts'[q] = starts[q]
  BY Zenon DEF Return, Settle, Inv, TypeOK, RunnerTypeOK, LocalTypeOK
<1>2. <<>> \in Seq(Ages) /\ Len(<<>>) < StartBurst
  BY SupervisorAssumption
<1>3. Lists(0, <<>>, <<>>)
  BY <1>2, NothingPaced, Zenon
<1>4. Credit("done") = 0
  BY DEF Credit
<1> QED
  BY <1>1, <1>3, <1>4, PaceFrame, ZenonT(30)

\* Crash accounting: of a launch that was under way.
LEMMA AccountPaced ==
    ASSUME Inv, Pace, NEW r \in Runners, NEW stable \in BOOLEAN, Account(r, stable),
           Credit(pc[r]) = 1
    PROVE  Pace'
<1>1. CASE Len(Recorded(r, stable)) >= StartBurst
  BY <1>1, ReturnPaced, Zenon DEF Account
<1>2. CASE ~(Len(Recorded(r, stable)) >= StartBurst)
  <2>1. Settle(r, "backoff", "backoff", Recorded(r, stable),
               IF stable THEN <<>> ELSE starts[r])
    BY <1>2, Zenon DEF Account
  <2>2. /\ pc'[r] = "backoff" /\ crashes'[r] = Recorded(r, stable)
        /\ starts'[r] = IF stable THEN <<>> ELSE starts[r]
        /\ \A q \in Runners : q # r =>
              pc'[q] = pc[q] /\ crashes'[q] = crashes[q] /\ starts'[q] = starts[q]
    BY <2>1, Zenon DEF Settle, Inv, TypeOK, RunnerTypeOK, LocalTypeOK
  <2>3. Recorded(r, stable) \in Seq(Ages) /\ Len(Recorded(r, stable)) \in Nat
    BY RecordedType, LenProperties, Zenon DEF Inv
  <2>4. Len(Recorded(r, stable)) < StartBurst
    BY <1>2, <2>3, SupervisorAssumption, SMTT(20)
  <2>5. Credit("backoff") = 0 /\ "backoff" \notin {"done", "new"}
    BY DEF Credit
  <2>6. CASE stable
    BY <2>2, <2>3, <2>4, <2>5, <2>6, NothingPaced, PaceFrame, ZenonT(30)
  <2>7. CASE ~stable
    <3>1. crashes[r] \in Seq(Ages) /\ starts[r] \in Seq(Ages)
      BY Zenon DEF Inv, TypeOK, LocalTypeOK, Ages
    <3>2. Lists(1, crashes[r], starts[r])
      BY Zenon DEF Pace
    <3>3. Recorded(r, stable) = Prune(Append(crashes[r], 0))
      BY <2>7, Zenon DEF Recorded
    <3>4. Lists(0, Recorded(r, stable), starts[r])
      BY <2>4, <3>1, <3>2, <3>3, RecordPaced, ZenonT(30)
    <3>5. starts'[r] = starts[r]
      BY <2>2, <2>7, Zenon
    <3> QED
      BY <2>2, <2>5, <3>4, <3>5, PaceFrame, ZenonT(30)
  <2> QED
    BY <2>6, <2>7, Zenon
<1> QED
  BY <1>1, <1>2, Zenon

\* A step that leaves the lists and the credit alone.
LEMMA PaceKept ==
    ASSUME Inv, Pace, NEW r \in Runners, UNCHANGED <<crashes, starts>>,
           \A q \in Runners : q # r => pc'[q] = pc[q],
           Credit(pc'[r]) = Credit(pc[r]),
           pc'[r] \in {"done", "new"} => pc[r] \in {"done", "new"}
    PROVE  Pace'
<1>1. /\ Lists(Credit(pc'[r]), crashes'[r], starts'[r])
      /\ pc'[r] \in {"done", "new"} => crashes'[r] = <<>> /\ starts'[r] = <<>>
  BY Zenon DEF Pace
<1> QED
  BY <1>1, PaceFrame, Zenon

\* Every step of a goroutine keeps the pace.
LEMMA RunnerStepPaced ==
    ASSUME Inv, Pace, NEW r \in Runners, RunnerStep(r)
    PROVE  Pace'
<1>0. pc \in [Runners -> RunnerPCs]
  BY Zenon DEF Inv, TypeOK, RunnerTypeOK
<1>c. /\ Credit("spawn") = 1 /\ Credit("handshake") = 1 /\ Credit("init") = 1
      /\ Credit("poll") = 1 /\ Credit("monitor") = 1 /\ Credit("draining") = 1
      /\ Credit("killing") = 1 /\ Credit("loop") = 0 /\ Credit("backoff") = 0
  BY DEF Credit
<1>b. FALSE \in BOOLEAN /\ (uptime[r] >= StableAfter) \in BOOLEAN
  OBVIOUS
<1>1. CASE LoopStops(r) \/ BackoffStops(r) \/ ProtocolRefused(r) \/ Drained(r)
  BY <1>1, ReturnPaced, Zenon DEF LoopStops, BackoffStops, ProtocolRefused, Drained
<1>2. CASE SpawnFails(r) \/ LaunchAborts(r) \/ HandshakeExited(r)
  <2>1. pc[r] \in {"spawn", "handshake", "init"} /\ LaunchFailed(r)
    BY <1>2, Zenon DEF SpawnFails, LaunchAborts, HandshakeExited
  <2>2. Credit(pc[r]) = 1
    BY <1>c, <2>1, Zenon
  <2> QED
    BY <1>b, <2>1, <2>2, ReturnPaced, AccountPaced, ZenonT(30) DEF LaunchFailed
<1>3. CASE MonitorExited(r) \/ Reaped(r)
  <2>1. pc[r] \in {"monitor", "killing"} /\ Account(r, uptime[r] >= StableAfter)
    BY <1>3, Zenon DEF MonitorExited, Reaped
  <2>2. Credit(pc[r]) = 1
    BY <1>c, <2>1, Zenon
  <2> QED
    BY <1>b, <2>1, <2>2, AccountPaced, ZenonT(30)
<1>4. CASE LoopLaunches(r)
  <2>1. /\ pc[r] = "loop" /\ pc' = [pc EXCEPT ![r] = "spawn"]
        /\ starts' = [starts EXCEPT ![r] = Append(starts[r], 0)] /\ crashes' = crashes
    BY <1>4, Zenon DEF LoopLaunches
  <2>2. /\ pc'[r] = "spawn" /\ starts'[r] = Append(starts[r], 0) /\ crashes'[r] = crashes[r]
        /\ \A q \in Runners : q # r =>
              pc'[q] = pc[q] /\ crashes'[q] = crashes[q] /\ starts'[q] = starts[q]
    BY <1>0, <2>1, ZenonT(30) DEF Inv, TypeOK, LocalTypeOK
  <2>3. crashes[r] \in Seq(Ages) /\ starts[r] \in Seq(Ages)
    BY Zenon DEF Inv, TypeOK, LocalTypeOK, Ages
  <2>4. Lists(0, crashes[r], starts[r])
    BY <1>c, <2>1, ZenonT(30) DEF Pace
  <2>5. Lists(1, crashes[r], Append(starts[r], 0))
    BY <2>3, <2>4, LaunchPaced, ZenonT(30)
  <2>6. Lists(Credit(pc'[r]), crashes'[r], starts'[r]) /\ pc'[r] \notin {"done", "new"}
    BY <1>c, <2>2, <2>5, ZenonT(30)
  <2> QED
    BY <2>2, <2>6, PaceFrame, ZenonT(30)
<1>5. CASE Spawn(r) \/ HandshakeLine(r) \/ Started(r) \/ DrainTimeout(r) \/ BackoffElapses(r)
           \/ PollFails(r) \/ PollAnswers(r) \/ MonitorStops(r) \/ WatchdogFires(r)
  <2>1. /\ UNCHANGED <<crashes, starts>>
        /\ \/ /\ pc[r] \in {"spawn", "handshake", "init", "poll", "monitor"}
              /\ \E w \in {"handshake", "init", "poll", "monitor", "draining", "killing"} :
                    pc' = [pc EXCEPT ![r] = w]
           \/ pc' = pc
           \/ pc[r] = "backoff" /\ pc' = [pc EXCEPT ![r] = "loop"]
    BY <1>5, Zenon DEF Spawn, HandshakeLine, Started, DrainTimeout, BackoffElapses, PollFails,
       PollAnswers, PollEnds, MonitorStops, WatchdogFires, localVars
  <2>2. \A q \in Runners : q # r => pc'[q] = pc[q]
    BY <1>0, <2>1, Zenon
  <2>3. /\ Credit(pc'[r]) = Credit(pc[r])
        /\ pc'[r] \in {"done", "new"} => pc[r] \in {"done", "new"}
    <3>1. CASE pc' = pc
      BY <3>1, Zenon
    <3>2. ASSUME pc[r] \in {"spawn", "handshake", "init", "poll", "monitor"},
                 NEW w \in {"handshake", "init", "poll", "monitor", "draining", "killing"},
                 pc' = [pc EXCEPT ![r] = w]
          PROVE  Credit(pc'[r]) = Credit(pc[r]) /\ pc'[r] \notin {"done", "new"}
      <4>1. pc'[r] = w
        BY <1>0, <3>2, Zenon
      <4>2. Credit(w) = 1 /\ w \notin {"done", "new"} /\ Credit(pc[r]) = 1
        BY <1>c, <3>2, ZenonT(30)
      <4> QED
        BY <4>1, <4>2, ZenonT(30)
    <3>3. ASSUME pc[r] = "backoff", pc' = [pc EXCEPT ![r] = "loop"]
          PROVE  Credit(pc'[r]) = Credit(pc[r]) /\ pc'[r] \notin {"done", "new"}
      <4>1. pc'[r] = "loop"
        BY <1>0, <3>3, ZenonT(30)
      <4> QED
        BY <1>c, <3>3, <4>1, ZenonT(30)
    <3> QED
      BY <2>1, <3>1, <3>2, <3>3, ZenonT(30)
  <2> QED
    BY <2>1, <2>2, <2>3, PaceKept, ZenonT(30)
<1> QED
  BY <1>1, <1>2, <1>3, <1>4, <1>5, ZenonT(30) DEF RunnerStep, Progress

\* So does every other step.
LEMMA OtherStepPaced ==
    ASSUME Inv, Pace,
           \/ \E r \in Runners : ProcessStep(r)
           \/ \E c \in Callers : CallerStep(c)
           \/ \E t \in Threads : AddStep(t)
           \/ MainStep \/ CancelBase \/ Tick \/ UNCHANGED vars
    PROVE  Pace'
<1>0. pc \in [Runners -> RunnerPCs]
  BY Zenon DEF Inv, TypeOK, RunnerTypeOK
<1>1. ASSUME UNCHANGED <<pc, crashes, starts>> PROVE Pace'
  BY <1>1, Zenon DEF Pace
<1>2. CASE (\E r \in Runners : ProcessStep(r)) \/ (\E c \in Callers : CallerStep(c))
           \/ MainStep \/ CancelBase \/ UNCHANGED vars
  <2>1. UNCHANGED <<pc, crashes, starts>>
    BY <1>2, ZenonT(30) DEF ProcessStep, Exit, LingererExits, Hang, Keepalive, CallerStep,
       LockModule,
       UnlockModule, StopModule, StopModuleReturns, MainStep, ServeControl, Wait, WaitReturns,
       ControlSocketFails, CancelBase, vars, runnerVars, localVars
  <2> QED
    BY <1>1, <2>1, ZenonT(30)
<1>3. ASSUME NEW t \in Threads, AddStep(t) PROVE Pace'
  <2>c. Credit("done") = 0 /\ Credit("new") = 0 /\ Credit("loop") = 0
    BY DEF Credit
  <2>1. CASE AddRegister(t)
    <3>1. UNCHANGED <<crashes, starts>>
      BY <2>1, Zenon DEF AddRegister, localVars
    <3>2. CASE pc' = pc
      BY <1>1, <3>1, <3>2, ZenonT(30)
    <3>3. ASSUME NEW r \in Runners, pc[r] = "done", pc' = [pc EXCEPT ![r] = "new"] PROVE Pace'
      <4>1. pc'[r] = "new" /\ \A q \in Runners : q # r => pc'[q] = pc[q]
        BY <1>0, <3>3, Zenon
      <4> QED
        BY <2>c, <3>1, <3>3, <4>1, PaceKept, ZenonT(30)
    <3> QED
      BY <2>1, <3>2, <3>3, ZenonT(30) DEF AddRegister, Unreferenced
  <2>2. CASE AddGated(t) \/ AddLaunch(t)
    <3>1. /\ UNCHANGED <<crashes, starts>> /\ tpc[t] = "added"
          /\ \E w \in {"done", "loop"} : pc' = [pc EXCEPT ![target[t]] = w]
      BY <2>2, Zenon DEF AddGated, AddLaunch, localVars
    <3>2. target[t] \in Runners /\ pc[target[t]] = "new"
      BY <3>1, Zenon DEF Inv, RegistryDiscipline
    <3>3. PICK r \in Runners, w \in {"done", "loop"} :
             pc[r] = "new" /\ pc' = [pc EXCEPT ![r] = w]
      BY <3>1, <3>2, Zenon
    <3>4. pc'[r] = w /\ \A q \in Runners : q # r => pc'[q] = pc[q]
      BY <1>0, <3>3, Zenon
    <3>5. Credit(pc'[r]) = Credit(pc[r]) /\ pc[r] \in {"done", "new"}
      BY <2>c, <3>3, <3>4, ZenonT(30)
    <3> QED
      BY <3>1, <3>4, <3>5, PaceKept, ZenonT(30)
  <2> QED
    BY <1>3, <2>1, <2>2, ZenonT(30) DEF AddStep
<1>4. CASE Tick
  <2>1. /\ pc' = pc
        /\ \A r \in Runners : crashes'[r] = Aged(crashes[r]) /\ starts'[r] = Prune(Aged(starts[r]))
    BY <1>4, Zenon DEF Tick, Aged
  <2>2. ASSUME NEW r \in Runners
        PROVE  /\ Lists(Credit(pc[r]), crashes'[r], starts'[r])
               /\ pc[r] \in {"done", "new"} => crashes'[r] = <<>> /\ starts'[r] = <<>>
    <3>1. crashes[r] \in Seq(Ages) /\ starts[r] \in Seq(Ages)
      BY Zenon DEF Inv, TypeOK, LocalTypeOK, Ages
    <3>2. Credit(pc[r]) \in Nat
      BY DEF Credit
    <3>3. Lists(Credit(pc[r]), Aged(crashes[r]), Prune(Aged(starts[r])))
      BY <3>1, <3>2, TickPaced, ZenonT(30) DEF Pace
    <3>4. Aged(<<>>) = <<>> /\ Prune(<<>>) = <<>>
      <4>1. Aged(<<>>) = <<>>
        BY DEF Aged
      <4>2. <<>> \in Seq(Ages) /\ Len(<<>>) = 0
        OBVIOUS
      <4>3. Expired(<<>>) \in 0..0 /\ Len(Prune(<<>>)) = 0 - Expired(<<>>)
        BY <4>2, Pruned, ZenonT(30)
      <4>4. Prune(<<>>) \in Seq(Ages) /\ Len(Prune(<<>>)) = 0
        <5>1. Prune(<<>>) \in Seq(Ages)
          BY <4>2, PruneType, Zenon
        <5>2. Len(Prune(<<>>)) = 0
          BY <4>3
        <5> QED
          BY <5>1, <5>2, Zenon
      <4> QED
        BY <4>1, <4>4, EmptySeq, SMTT(20)
    <3> QED
      BY <2>1, <3>3, <3>4, ZenonT(30) DEF Pace
  <2> QED
    BY <2>1, <2>2, Zenon DEF Pace
<1> QED
  BY <1>2, <1>3, <1>4, ZenonT(30)

\* However failed launches, crashes, health and watchdog kills mix, run never
\* launches more than StartBurst times within one CrashWindow unless a run in
\* between was stable.
THEOREM LaunchRateAlwaysBounded == Spec => []LaunchRateBounded
<1>1. Init => Pace
  <2>1. <<>> \in Seq(Ages) /\ Len(<<>>) < StartBurst /\ Credit("done") = 0
    BY SupervisorAssumption DEF Credit
  <2>2. Lists(Credit("done"), <<>>, <<>>)
    BY <2>1, NothingPaced, Zenon
  <2> QED
    BY <2>2 DEF Init, Pace
<1>2. Inv /\ Pace /\ [Next]_vars => Pace'
  BY RunnerStepPaced, OtherStepPaced, Zenon DEF Next
<1>3. Inv /\ Pace => LaunchRateBounded
  <2> SUFFICES ASSUME Inv, Pace, NEW r \in Runners PROVE Len(starts[r]) <= StartBurst
    BY Zenon DEF LaunchRateBounded
  <2>1. PICK n \in Nat, m \in Nat, b \in {0, 1} :
           n = Len(crashes[r]) /\ m = Len(starts[r]) /\ b = Credit(pc[r])
    <3>1. crashes[r] \in Seq(Ages) /\ starts[r] \in Seq(Ages)
      BY Zenon DEF Inv, TypeOK, LocalTypeOK, Ages
    <3>2. Len(crashes[r]) \in Nat /\ Len(starts[r]) \in Nat
      BY <3>1, LenProperties, Zenon
    <3>3. Credit(pc[r]) \in {0, 1}
      BY Zenon DEF Credit
    <3> QED
      BY <3>2, <3>3, Zenon
  <2>2. n < StartBurst /\ m <= n + b
    BY <2>1, Zenon DEF Pace, Lists
  <2>3. m <= StartBurst
    BY <2>2, SupervisorAssumption
  <2> QED
    BY <2>1, <2>3, Zenon
<1> QED
  BY <1>1, <1>2, <1>3, Invariance, PTL DEF Spec
=============================================================================

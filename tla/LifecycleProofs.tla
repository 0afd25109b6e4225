-------------------------- MODULE LifecycleProofs ---------------------------
(***************************************************************************)
(* Proofs about module Lifecycle for any set of requests and versions: the *)
(* markers resolve, the recorded version is one that passed its gate, the  *)
(* running version is the recorded one, and a failed swap is undone.  The  *)
(* last section is about the gate itself (module HealthGate).              *)
(***************************************************************************)
EXTENDS Lifecycle, HealthGate, TLAPS

Swapping == {"activate", "gate", "current"}

\* The recorded version is complete and good.
CurrentGood == current # None => dir[current] = "good"

\* What a request knows of the disk where it stands.
Position(c) ==
    /\ pc[c] \in {"stage", "remove"} =>
          /\ ver[c] \in Versions /\ ver[c] # current /\ ver[c] # previous
          /\ mode[c] = "promote" /\ act[c] = None /\ old[c] = None
    /\ pc[c] \in Swapping =>
          /\ act[c] \in Versions
          /\ mode[c] = "promote" => act[c] = ver[c]
          /\ mode[c] = "restore" => act[c] = old[c]
    /\ pc[c] \in Swapping \cup {"previous", "prune", "failed"} /\ old[c] # None =>
          Complete(old[c])
    /\ pc[c] = "current" => dir[act[c]] = "good"
    /\ pc[c] \in {"previous", "prune"} /\ mode[c] = "promote" =>
          current = ver[c] /\ ver[c] \in Versions
    /\ pc[c] = "prune" => mode[c] = "promote" /\ (~lost => previous = old[c])

\* What runs where a request stands.
RunningAt(c) ==
    /\ ~lost /\ pc[c] \in {"stage", "remove", "activate", "failed"} =>
          running \in {None, current}
    /\ pc[c] \in {"gate", "current"} => running = act[c]
    /\ ~lost /\ pc[c] \in {"previous", "prune", "ok"} => running = current

\* How a swap fails, and what an upgrade leaves behind.
OutcomeAt(c) ==
    /\ pc[c] = "failed" /\ mode[c] = "restore" =>
          ctxDone[c] \/ dir[old[c]] # "good" \/ running = old[c]
    /\ pc[c] = "failed" /\ mode[c] = "promote" /\ act[c] # None =>
          old[c] \in {None, ver[c]}
    /\ pc[c] = "ok" /\ mode[c] = "promote" /\ old[c] \notin {None, ver[c]} /\ ~lost =>
          /\ current = ver[c] /\ previous = old[c]
          /\ ver[c] \in Versions
          /\ \A v \in Versions : dir[v] # "absent" <=> v \in {ver[c], old[c]}

\* Core serves requests only while it is up.
DownIsIdle == ~coreUp => lock = None

\* The inductive invariant.
Inv ==
    /\ ~overwrote /\ TypeOK /\ DownIsIdle /\ CurrentGood
    /\ PreviousResolves /\ RunningIsCurrent
    /\ \A c \in Requests : Position(c) /\ RunningAt(c) /\ OutcomeAt(c)

-----------------------------------------------------------------------------

\* While one request is under way the others are idle, and a step that moves
\* only this one keeps them so.
LEMMA OthersIdle ==
    ASSUME TypeOK, NEW c \in Requests, pc[c] # "idle",
           \A d \in Requests \ {c} : pc'[d] = pc[d],
           (Position(c) /\ RunningAt(c) /\ OutcomeAt(c))'
    PROVE  \A d \in Requests : (Position(d) /\ RunningAt(d) /\ OutcomeAt(d))'
<1> SUFFICES ASSUME NEW d \in Requests, d # c
             PROVE  (Position(d) /\ RunningAt(d) /\ OutcomeAt(d))'
    BY Zenon
<1>1. pc'[d] = "idle"
    BY Zenon DEF TypeOK
<1> QED BY <1>1, Zenon DEF Position, RunningAt, OutcomeAt, Swapping

\* The invariant is about the variables only.
LEMMA UnchangedInv == Inv /\ UNCHANGED vars => Inv'
BY DEF vars, disk, history, locals, Inv, TypeOK, DownIsIdle, CurrentGood, PreviousResolves,
       RunningIsCurrent, Position, RunningAt, OutcomeAt, Complete

\* Initially nothing is installed and nobody is under way.
LEMMA InitInv == Init => Inv
<1> SUFFICES ASSUME Init PROVE Inv
    BY Zenon
<1> USE LifecycleAssumption
<1>1. coreUp \in BOOLEAN /\ lost \in BOOLEAN /\ overwrote \in BOOLEAN /\ ctxDone \in [Requests -> BOOLEAN]
    BY Zenon DEF Init
<1>2. {current, previous, running} \subseteq Versions \cup {None}
    BY Zenon DEF Init
<1>3. TypeOK
    BY <1>1, <1>2, Zenon DEF Init, TypeOK, PCs, Bits
<1>4. DownIsIdle /\ CurrentGood /\ PreviousResolves /\ RunningIsCurrent
    BY Zenon DEF Init, DownIsIdle, CurrentGood, PreviousResolves, RunningIsCurrent
<1>5. \A c \in Requests : Position(c) /\ RunningAt(c) /\ OutcomeAt(c)
    BY Zenon DEF Init, Position, RunningAt, OutcomeAt, Swapping
<1> QED BY <1>3, <1>4, <1>5, Zenon DEF Init, Inv

\* Every step of an operation keeps the type invariant; none of them installs
\* over a version that a marker names.
LEMMA OpStepType ==
    ASSUME TypeOK, NEW c \in Requests, OpStep(c)
    PROVE  TypeOK' /\ overwrote' = overwrote
<1> USE LifecycleAssumption
<1>1. CASE Staged(c)
    BY <1>1, Zenon DEF TypeOK, PCs, Bits, Staged, Goto, disk, history, locals
<1>2. CASE StageFails(c)
    BY <1>2, Zenon DEF TypeOK, PCs, Bits, StageFails, Goto, disk, history, locals
<1>3. CASE RemoveOld(c)
    <2>1. dir' \in [Versions -> Bits \cup Partial \cup {"absent"}]
        BY <1>3, Zenon DEF TypeOK, RemoveOld, RemoveStep
    <2> QED BY <1>3, <2>1, Zenon DEF TypeOK, RemoveOld, history, locals
<1>4. CASE Renamed(c)
    BY <1>4, ZenonT(30) DEF TypeOK, PCs, Bits, Renamed, Goto, disk, history, locals
<1>5. CASE PromoteFails(c)
    BY <1>5, Zenon DEF TypeOK, PCs, Bits, PromoteFails, Goto, disk, history, locals
<1>6. CASE Activate(c)
    BY <1>6 DEF TypeOK, PCs, Bits, Activate, Goto, disk, history, locals, ActivateFailed
<1>7. CASE GatePasses(c)
    BY <1>7 DEF TypeOK, PCs, Bits, GatePasses, Goto, disk, history, locals, GateOpen
<1>8. CASE GateFails(c)
    BY <1>8 DEF TypeOK, PCs, Bits, GateFails, Goto, disk, history, locals, ActivateFailed,
       StopModule
<1>9. CASE WriteCurrent(c)
    BY <1>9 DEF TypeOK, PCs, Bits, WriteCurrent, Goto, disk, history, locals,
       ActivateSucceeded
<1>10. CASE WriteCurrentFails(c)
    BY <1>10 DEF TypeOK, PCs, Bits, WriteCurrentFails, Goto, disk, history, locals,
       ActivateFailed
<1>11. CASE WritePrevious(c)
    BY <1>11 DEF TypeOK, PCs, Bits, WritePrevious, Goto, disk, history, locals
<1>12. CASE WritePreviousFails(c)
    BY <1>12, Zenon DEF TypeOK, PCs, Bits, WritePreviousFails, Goto, disk, history, locals
<1>13. CASE Prune(c)
    BY <1>13 DEF TypeOK, PCs, Bits, Prune, Goto, disk, history, locals, RemoveStep,
       Partial, Complete, Kept
<1>14. CASE Pruned(c)
    BY <1>14, Zenon DEF TypeOK, PCs, Bits, Pruned, Goto, disk, history, locals, Kept
<1>15. CASE Answered(c)
    <2>1. \A d \in Requests : pc'[d] = "idle"
        BY <1>15, Zenon DEF TypeOK, Answered, Forget
    <2> QED BY <1>15, <2>1 DEF TypeOK, PCs, Bits, Answered, Forget, disk, history
<1> QED BY <1>1, <1>2, <1>3, <1>4, <1>5, <1>6, <1>7, <1>8, <1>9, <1>10, <1>11, <1>12,
    <1>13, <1>14, <1>15, Zenon DEF OpStep

\* Taking the lock, the end of a context, the death of core and its boot keep
\* the type invariant.
LEMMA OutsideStepType ==
    ASSUME TypeOK,
           \/ \E c \in Requests : InstallLocks(c) \/ RollbackLocks(c) \/ CtxEnds(c)
           \/ Crash \/ Boot \/ BootFails
    PROVE  TypeOK' /\ (overwrote => overwrote')
<1> USE LifecycleAssumption
<1>1. ASSUME NEW c \in Requests, InstallLocks(c) PROVE TypeOK' /\ (overwrote => overwrote')
    <2>1. overwrote' \in BOOLEAN /\ (overwrote => overwrote')
        BY <1>1, Zenon DEF TypeOK, InstallLocks
    <2> QED BY <1>1, <2>1 DEF TypeOK, PCs, InstallLocks, LockFree, Goto, disk
<1>2. ASSUME NEW c \in Requests, RollbackLocks(c) PROVE TypeOK' /\ overwrote' = overwrote
    BY <1>2, Zenon DEF TypeOK, PCs, RollbackLocks, LockFree, Goto, disk, history
<1>3. ASSUME NEW c \in Requests, CtxEnds(c) PROVE TypeOK' /\ overwrote' = overwrote
    BY <1>3, Zenon DEF TypeOK, CtxEnds, disk, history, locals
<1>4. CASE Crash
    BY <1>4, ZenonT(30) DEF TypeOK, PCs, Bits, Crash, Forget, disk, history
<1>5. CASE Boot
    BY <1>5, Zenon DEF TypeOK, Boot, disk, history, locals
<1>6. CASE BootFails
    BY <1>6, Zenon DEF TypeOK, BootFails, vars, disk, history, locals
<1> QED BY <1>1, <1>2, <1>3, <1>4, <1>5, <1>6, Zenon

\* Every step of an operation keeps the invariant.
LEMMA OpStepInv ==
    ASSUME Inv, coreUp, NEW c \in Requests, OpStep(c)
    PROVE  Inv'
<1> USE LifecycleAssumption
<1>0. /\ TypeOK /\ DownIsIdle /\ CurrentGood
      /\ PreviousResolves /\ RunningIsCurrent
      /\ Position(c) /\ RunningAt(c) /\ OutcomeAt(c)
    BY Zenon DEF Inv
<1>a. ~overwrote /\ ~overwrote'
    BY <1>0, OpStepType, Zenon DEF Inv
<1>1. CASE Staged(c)
    <2>1. TypeOK'
        BY <1>0, OpStepType, Zenon
    <2>2. (DownIsIdle /\ CurrentGood)'
        BY <1>0, <1>1, Zenon DEF TypeOK, Bits, DownIsIdle, CurrentGood, Staged, Goto, disk,
           history, locals, Position, Swapping, Complete
    <2>3. (PreviousResolves /\ RunningIsCurrent)'
        BY <1>a, <1>0, <1>1, Zenon DEF TypeOK, Bits, PreviousResolves, RunningIsCurrent, Staged,
           Goto, disk, history, locals, Position, Swapping, Complete
    <2>4. Position(c)'
        BY <1>0, <1>1 DEF TypeOK, Bits, CurrentGood, Staged, Goto, disk, history, locals,
           Position, Swapping, Complete
    <2>5. RunningAt(c)'
        BY <1>0, <1>1, Zenon DEF TypeOK, RunningAt, Staged, Goto, disk, history, locals, Position,
           Swapping, Complete
    <2>6. OutcomeAt(c)'
        BY <1>0, <1>1, Zenon DEF TypeOK, Bits, RunningAt, OutcomeAt, Staged, Goto, disk, history,
           locals, Position, Swapping, Complete
    <2>7. pc[c] # "idle" /\ \A d \in Requests \ {c} : pc'[d] = pc[d]
        BY <1>0, <1>1, Zenon DEF TypeOK, Staged, Goto, disk, history, locals
    <2> QED BY <1>0, <2>1, <2>2, <2>3, <2>4, <2>5, <2>6, <2>7, <1>a, OthersIdle, Zenon DEF Inv
<1>2. CASE StageFails(c)
    <2>1. TypeOK'
        BY <1>0, OpStepType, Zenon
    <2>2. (DownIsIdle /\ CurrentGood)'
        BY <1>0, <1>2, Zenon DEF TypeOK, Bits, DownIsIdle, CurrentGood, StageFails, Goto, disk,
           history, locals, Position, Swapping, Complete
    <2>3. (PreviousResolves /\ RunningIsCurrent)'
        BY <1>a, <1>0, <1>2, Zenon DEF TypeOK, Bits, PreviousResolves, RunningIsCurrent,
           StageFails, Goto, disk, history, locals, Position, Swapping, Complete
    <2>4. Position(c)'
        BY <1>0, <1>2, Zenon DEF TypeOK, Bits, CurrentGood, StageFails, Goto, disk, history,
           locals, Position, Swapping, Complete
    <2>5. RunningAt(c)'
        BY <1>0, <1>2, Zenon DEF TypeOK, RunningAt, StageFails, Goto, disk, history, locals,
           Position, Swapping, Complete
    <2>6. OutcomeAt(c)'
        BY <1>0, <1>2, Zenon DEF TypeOK, Bits, RunningAt, OutcomeAt, StageFails, Goto, disk,
           history, locals, Position, Swapping, Complete
    <2>7. pc[c] # "idle" /\ \A d \in Requests \ {c} : pc'[d] = pc[d]
        BY <1>0, <1>2, Zenon DEF TypeOK, StageFails, Goto, disk, history, locals
    <2> QED BY <1>0, <2>1, <2>2, <2>3, <2>4, <2>5, <2>6, <2>7, <1>a, OthersIdle, Zenon DEF Inv
<1>3. CASE RemoveOld(c)
    <2>1. TypeOK'
        BY <1>0, OpStepType, Zenon
    <2>2. (DownIsIdle /\ CurrentGood)'
        BY <1>0, <1>3 DEF TypeOK, Bits, DownIsIdle, CurrentGood, RemoveOld, Goto, disk,
           history, locals, RemoveStep, Partial, Position, Swapping, Complete
    <2>3. (PreviousResolves /\ RunningIsCurrent)'
        BY <1>a, <1>0, <1>3 DEF TypeOK, Bits, PreviousResolves, RunningIsCurrent,
           RemoveOld, Goto, disk, history, locals, RemoveStep, Partial, Position, Swapping,
           Complete
    <2>4. Position(c)'
        BY <1>0, <1>3, Zenon DEF TypeOK, Bits, CurrentGood, RemoveOld, Goto, disk, history,
           locals, RemoveStep, Partial, Position, Swapping, Complete
    <2>5. RunningAt(c)'
        BY <1>0, <1>3, Zenon DEF TypeOK, RunningAt, RemoveOld, Goto, disk, history, locals,
           RemoveStep, Partial, Position, Swapping, Complete
    <2>6. OutcomeAt(c)'
        BY <1>0, <1>3, Zenon DEF TypeOK, Bits, RunningAt, OutcomeAt, RemoveOld, Goto, disk,
           history, locals, RemoveStep, Partial, Position, Swapping, Complete
    <2>7. pc[c] # "idle" /\ \A d \in Requests \ {c} : pc'[d] = pc[d]
        BY <1>0, <1>3, Zenon DEF TypeOK, RemoveOld, Goto, disk, history, locals, RemoveStep,
           Partial
    <2> QED BY <1>0, <2>1, <2>2, <2>3, <2>4, <2>5, <2>6, <2>7, <1>a, OthersIdle, Zenon DEF Inv
<1>4. CASE Renamed(c)
    <2>1. TypeOK'
        BY <1>0, OpStepType, Zenon
    <2>2. (DownIsIdle /\ CurrentGood)'
        BY <1>0, <1>4 DEF TypeOK, Bits, DownIsIdle, CurrentGood, Renamed, Goto, disk,
           history, locals, Position, Swapping, Complete
    <2>3. (PreviousResolves /\ RunningIsCurrent)'
        BY <1>a, <1>0, <1>4, Zenon DEF TypeOK, Bits, PreviousResolves, RunningIsCurrent, Renamed,
           Goto, disk, history, locals, Position, Swapping, Complete
    <2>4. Position(c)'
        BY <1>0, <1>4 DEF TypeOK, Bits, CurrentGood, Renamed, Goto, disk, history, locals,
           Position, Swapping, Complete
    <2>5. RunningAt(c)'
        BY <1>0, <1>4, Zenon DEF TypeOK, RunningAt, Renamed, Goto, disk, history, locals,
           Position, Swapping, Complete
    <2>6. OutcomeAt(c)'
        BY <1>0, <1>4 DEF TypeOK, Bits, RunningAt, OutcomeAt, Renamed, Goto, disk, history,
           locals, Position, Swapping, Complete
    <2>7. pc[c] # "idle" /\ \A d \in Requests \ {c} : pc'[d] = pc[d]
        BY <1>0, <1>4, Zenon DEF TypeOK, Renamed, Goto, disk, history, locals
    <2> QED BY <1>0, <2>1, <2>2, <2>3, <2>4, <2>5, <2>6, <2>7, <1>a, OthersIdle, Zenon DEF Inv
<1>5. CASE PromoteFails(c)
    <2>1. TypeOK'
        BY <1>0, OpStepType, Zenon
    <2>2. (DownIsIdle /\ CurrentGood)'
        BY <1>0, <1>5, Zenon DEF TypeOK, Bits, DownIsIdle, CurrentGood, PromoteFails, Goto, disk,
           history, locals, Position, Swapping, Complete
    <2>3. (PreviousResolves /\ RunningIsCurrent)'
        BY <1>a, <1>0, <1>5, Zenon DEF TypeOK, Bits, PreviousResolves, RunningIsCurrent,
           PromoteFails, Goto, disk, history, locals, Position, Swapping, Complete
    <2>4. Position(c)'
        BY <1>0, <1>5, Zenon DEF TypeOK, Bits, CurrentGood, PromoteFails, Goto, disk, history,
           locals, Position, Swapping, Complete
    <2>5. RunningAt(c)'
        BY <1>0, <1>5, Zenon DEF TypeOK, RunningAt, PromoteFails, Goto, disk, history, locals,
           Position, Swapping, Complete
    <2>6. OutcomeAt(c)'
        BY <1>0, <1>5, Zenon DEF TypeOK, Bits, RunningAt, OutcomeAt, PromoteFails, Goto, disk,
           history, locals, Position, Swapping, Complete
    <2>7. pc[c] # "idle" /\ \A d \in Requests \ {c} : pc'[d] = pc[d]
        BY <1>0, <1>5, Zenon DEF TypeOK, PromoteFails, Goto, disk, history, locals
    <2> QED BY <1>0, <2>1, <2>2, <2>3, <2>4, <2>5, <2>6, <2>7, <1>a, OthersIdle, Zenon DEF Inv
<1>6. CASE Activate(c)
    <2>1. TypeOK'
        BY <1>0, OpStepType, Zenon
    <2>2. (DownIsIdle /\ CurrentGood)'
        BY <1>0, <1>6, Zenon DEF TypeOK, Bits, DownIsIdle, CurrentGood, Activate, Goto, disk,
           history, locals, ActivateFailed, RollsBack, Loads, Position, Swapping, Complete
    <2>3. (PreviousResolves /\ RunningIsCurrent)'
        BY <1>a, <1>0, <1>6, Zenon DEF TypeOK, Bits, PreviousResolves, RunningIsCurrent, Activate,
           Goto, disk, history, locals, ActivateFailed, RollsBack, Loads, Position,
           Swapping, Complete
    <2>4. Position(c)'
        BY <1>0, <1>6, SMTT(20) DEF TypeOK, Bits, CurrentGood, Activate, Goto, disk, history,
           locals,
           ActivateFailed, RollsBack, Loads, Position, Swapping, Complete
    <2>5. RunningAt(c)'
        BY <1>0, <1>6, SMTT(20) DEF TypeOK, RunningAt, Activate, Goto, disk, history, locals,
           ActivateFailed, RollsBack, Loads, Position, Swapping, Complete
    <2>6. OutcomeAt(c)'
        BY <1>0, <1>6 DEF TypeOK, Bits, RunningAt, OutcomeAt, Activate, Goto, disk,
           history, locals, ActivateFailed, RollsBack, Loads, Position, Swapping, Complete
    <2>7. pc[c] # "idle" /\ \A d \in Requests \ {c} : pc'[d] = pc[d]
        BY <1>0, <1>6 DEF TypeOK, Activate, Goto, disk, history, locals, ActivateFailed,
           RollsBack, Loads
    <2> QED BY <1>0, <2>1, <2>2, <2>3, <2>4, <2>5, <2>6, <2>7, <1>a, OthersIdle, Zenon DEF Inv
<1>7. CASE GatePasses(c)
    <2>1. TypeOK'
        BY <1>0, OpStepType, Zenon
    <2>2. (DownIsIdle /\ CurrentGood)'
        BY <1>0, <1>7, Zenon DEF TypeOK, Bits, DownIsIdle, CurrentGood, GatePasses, Goto, disk,
           history, locals, GateOpen, Position, Swapping, Complete
    <2>3. (PreviousResolves /\ RunningIsCurrent)'
        BY <1>a, <1>0, <1>7, Zenon DEF TypeOK, Bits, PreviousResolves, RunningIsCurrent,
           GatePasses, Goto, disk, history, locals, GateOpen, Position, Swapping, Complete
    <2>4. Position(c)'
        BY <1>0, <1>7 DEF TypeOK, Bits, CurrentGood, GatePasses, Goto, disk, history,
           locals, GateOpen, Position, Swapping, Complete
    <2>5. RunningAt(c)'
        BY <1>0, <1>7, Zenon DEF TypeOK, RunningAt, GatePasses, Goto, disk, history, locals,
           GateOpen, Position, Swapping, Complete
    <2>6. OutcomeAt(c)'
        BY <1>0, <1>7 DEF TypeOK, Bits, RunningAt, OutcomeAt, GatePasses, Goto, disk,
           history, locals, GateOpen, Position, Swapping, Complete
    <2>7. pc[c] # "idle" /\ \A d \in Requests \ {c} : pc'[d] = pc[d]
        BY <1>0, <1>7, Zenon DEF TypeOK, GatePasses, Goto, disk, history, locals, GateOpen
    <2> QED BY <1>0, <2>1, <2>2, <2>3, <2>4, <2>5, <2>6, <2>7, <1>a, OthersIdle, Zenon DEF Inv
<1>8. CASE GateFails(c)
    <2>1. TypeOK'
        BY <1>0, OpStepType, Zenon
    <2>2. (DownIsIdle /\ CurrentGood)'
        BY <1>0, <1>8, Zenon DEF TypeOK, Bits, DownIsIdle, CurrentGood, GateFails, Goto, disk,
           history, locals, ActivateFailed, RollsBack, Loads, StopModule, Position,
           Swapping, Complete
    <2>3. (PreviousResolves /\ RunningIsCurrent)'
        BY <1>a, <1>0, <1>8, ZenonT(30) DEF TypeOK, Bits, PreviousResolves, RunningIsCurrent,
           GateFails, Goto, disk, history, locals, ActivateFailed, RollsBack, Loads,
           StopModule, Position, Swapping, Complete
    <2>4. Position(c)'
        BY <1>0, <1>8, SMTT(20) DEF TypeOK, Bits, CurrentGood, GateFails, Goto, disk, history,
           locals, ActivateFailed, RollsBack, Loads, StopModule, Position, Swapping,
           Complete
    <2>5. RunningAt(c)'
        BY <1>0, <1>8, SMTT(20) DEF TypeOK, RunningAt, GateFails, Goto, disk, history, locals,
           ActivateFailed, RollsBack, Loads, StopModule, Position, Swapping, Complete
    <2>6. OutcomeAt(c)'
        BY <1>0, <1>8, SMTT(20) DEF TypeOK, Bits, RunningAt, OutcomeAt, GateFails, Goto, disk,
           history, locals, ActivateFailed, RollsBack, Loads, StopModule, Position,
           Swapping, Complete
    <2>7. pc[c] # "idle" /\ \A d \in Requests \ {c} : pc'[d] = pc[d]
        BY <1>0, <1>8 DEF TypeOK, GateFails, Goto, disk, history, locals, ActivateFailed,
           RollsBack, Loads, StopModule
    <2> QED BY <1>0, <2>1, <2>2, <2>3, <2>4, <2>5, <2>6, <2>7, <1>a, OthersIdle, Zenon DEF Inv
<1>9. CASE WriteCurrent(c)
    <2>1. TypeOK'
        BY <1>0, OpStepType, Zenon
    <2>2. (DownIsIdle /\ CurrentGood)'
        BY <1>0, <1>9, Zenon DEF TypeOK, Bits, DownIsIdle, CurrentGood, WriteCurrent, Goto, disk,
           history, locals, ActivateSucceeded, Position, Swapping, Complete
    <2>3. (PreviousResolves /\ RunningIsCurrent)'
        BY <1>a, <1>0, <1>9, Zenon DEF TypeOK, Bits, PreviousResolves, RunningIsCurrent,
           WriteCurrent, Goto, disk, history, locals, ActivateSucceeded, Position,
           Swapping, Complete
    <2>4. Position(c)'
        BY <1>0, <1>9 DEF TypeOK, Bits, CurrentGood, WriteCurrent, Goto, disk, history,
           locals, ActivateSucceeded, Position, Swapping, Complete
    <2>5. RunningAt(c)'
        BY <1>0, <1>9, Zenon DEF TypeOK, RunningAt, WriteCurrent, Goto, disk, history, locals,
           ActivateSucceeded, Position, Swapping, Complete
    <2>6. OutcomeAt(c)'
        BY <1>0, <1>9 DEF TypeOK, Bits, RunningAt, OutcomeAt, WriteCurrent, Goto, disk,
           history, locals, ActivateSucceeded, Position, Swapping, Complete
    <2>7. pc[c] # "idle" /\ \A d \in Requests \ {c} : pc'[d] = pc[d]
        BY <1>0, <1>9, Zenon DEF TypeOK, WriteCurrent, Goto, disk, history, locals,
           ActivateSucceeded
    <2> QED BY <1>0, <2>1, <2>2, <2>3, <2>4, <2>5, <2>6, <2>7, <1>a, OthersIdle, Zenon DEF Inv
<1>10. CASE WriteCurrentFails(c)
    <2>1. TypeOK'
        BY <1>0, OpStepType, Zenon
    <2>2. (DownIsIdle /\ CurrentGood)'
        BY <1>0, <1>10, Zenon DEF TypeOK, Bits, DownIsIdle, CurrentGood, WriteCurrentFails, Goto,
           disk, history, locals, ActivateFailed, RollsBack, Loads, Position, Swapping,
           Complete
    <2>3. (PreviousResolves /\ RunningIsCurrent)'
        BY <1>a, <1>0, <1>10, ZenonT(30) DEF TypeOK, Bits, PreviousResolves, RunningIsCurrent,
           WriteCurrentFails, Goto, disk, history, locals, ActivateFailed, RollsBack,
           Loads, Position, Swapping, Complete
    <2>4. Position(c)'
        BY <1>0, <1>10, SMTT(20) DEF TypeOK, Bits, CurrentGood, WriteCurrentFails, Goto, disk,
           history, locals, ActivateFailed, RollsBack, Loads, Position, Swapping, Complete
    <2>5. RunningAt(c)'
        BY <1>0, <1>10, SMTT(20) DEF TypeOK, RunningAt, WriteCurrentFails, Goto, disk, history,
           locals, ActivateFailed, RollsBack, Loads, Position, Swapping, Complete
    <2>6. OutcomeAt(c)'
        BY <1>0, <1>10, SMTT(20) DEF TypeOK, Bits, RunningAt, OutcomeAt, WriteCurrentFails, Goto,
           disk, history, locals, ActivateFailed, RollsBack, Loads, Position, Swapping,
           Complete
    <2>7. pc[c] # "idle" /\ \A d \in Requests \ {c} : pc'[d] = pc[d]
        BY <1>0, <1>10 DEF TypeOK, WriteCurrentFails, Goto, disk, history, locals,
           ActivateFailed, RollsBack, Loads
    <2> QED BY <1>0, <2>1, <2>2, <2>3, <2>4, <2>5, <2>6, <2>7, <1>a, OthersIdle, Zenon DEF Inv
<1>11. CASE WritePrevious(c)
    <2>1. TypeOK'
        BY <1>0, OpStepType, Zenon
    <2>2. (DownIsIdle /\ CurrentGood)'
        BY <1>0, <1>11, Zenon DEF TypeOK, Bits, DownIsIdle, CurrentGood, WritePrevious, Goto,
           disk, history, locals, Position, Swapping, Complete
    <2>3. (PreviousResolves /\ RunningIsCurrent)'
        BY <1>a, <1>0, <1>11, Zenon DEF TypeOK, Bits, PreviousResolves, RunningIsCurrent,
           WritePrevious, Goto, disk, history, locals, Position, Swapping, Complete
    <2>4. Position(c)'
        BY <1>0, <1>11, Zenon DEF TypeOK, Bits, CurrentGood, WritePrevious, Goto, disk, history,
           locals, Position, Swapping, Complete
    <2>5. RunningAt(c)'
        BY <1>0, <1>11, Zenon DEF TypeOK, RunningAt, WritePrevious, Goto, disk, history, locals,
           Position, Swapping, Complete
    <2>6. OutcomeAt(c)'
        BY <1>0, <1>11, ZenonT(30) DEF TypeOK, Bits, RunningAt, OutcomeAt, WritePrevious, Goto,
           disk,
           history, locals, Position, Swapping, Complete
    <2>7. pc[c] # "idle" /\ \A d \in Requests \ {c} : pc'[d] = pc[d]
        BY <1>0, <1>11, Zenon DEF TypeOK, WritePrevious, Goto, disk, history, locals
    <2> QED BY <1>0, <2>1, <2>2, <2>3, <2>4, <2>5, <2>6, <2>7, <1>a, OthersIdle, Zenon DEF Inv
<1>12. CASE WritePreviousFails(c)
    <2>1. TypeOK'
        BY <1>0, OpStepType, Zenon
    <2>2. (DownIsIdle /\ CurrentGood)'
        BY <1>0, <1>12, Zenon DEF TypeOK, Bits, DownIsIdle, CurrentGood, WritePreviousFails, Goto,
           disk, history, locals, Position, Swapping, Complete
    <2>3. (PreviousResolves /\ RunningIsCurrent)'
        BY <1>a, <1>0, <1>12, Zenon DEF TypeOK, Bits, PreviousResolves, RunningIsCurrent,
           WritePreviousFails, Goto, disk, history, locals, Position, Swapping, Complete
    <2>4. Position(c)'
        BY <1>0, <1>12, ZenonT(30) DEF TypeOK, Bits, CurrentGood, WritePreviousFails, Goto, disk,
           history, locals, Position, Swapping, Complete
    <2>5. RunningAt(c)'
        BY <1>0, <1>12, Zenon DEF TypeOK, RunningAt, WritePreviousFails, Goto, disk, history,
           locals, Position, Swapping, Complete
    <2>6. OutcomeAt(c)'
        BY <1>0, <1>12, ZenonT(30) DEF TypeOK, Bits, RunningAt, OutcomeAt, WritePreviousFails, Goto,
           disk, history, locals, Position, Swapping, Complete
    <2>7. pc[c] # "idle" /\ \A d \in Requests \ {c} : pc'[d] = pc[d]
        BY <1>0, <1>12, Zenon DEF TypeOK, WritePreviousFails, Goto, disk, history, locals
    <2> QED BY <1>0, <2>1, <2>2, <2>3, <2>4, <2>5, <2>6, <2>7, <1>a, OthersIdle, Zenon DEF Inv
<1>13. CASE Prune(c)
    <2>1. TypeOK'
        BY <1>0, OpStepType, Zenon
    <2>2. (DownIsIdle /\ CurrentGood)'
        BY <1>0, <1>13, SMTT(20) DEF TypeOK, Bits, DownIsIdle, CurrentGood, Prune, Goto, disk,
           history, locals, RemoveStep, Partial, Kept, Position, Swapping, Complete
    <2>3. (PreviousResolves /\ RunningIsCurrent)'
        BY <1>a, <1>0, <1>13, SMTT(20) DEF TypeOK, Bits, PreviousResolves, RunningIsCurrent, Prune,
           Goto, disk, history, locals, RemoveStep, Partial, Kept, Position, Swapping,
           Complete
    <2>4. Position(c)'
        BY <1>0, <1>13 DEF TypeOK, Bits, CurrentGood, Prune, Goto, disk, history, locals,
           RemoveStep, Partial, Kept, Position, Swapping, Complete
    <2>5. RunningAt(c)'
        BY <1>0, <1>13, Zenon DEF TypeOK, RunningAt, Prune, Goto, disk, history, locals,
           RemoveStep, Partial, Kept, Position, Swapping, Complete
    <2>6. OutcomeAt(c)'
        BY <1>0, <1>13, Zenon DEF TypeOK, Bits, RunningAt, OutcomeAt, Prune, Goto, disk, history,
           locals, RemoveStep, Partial, Kept, Position, Swapping, Complete
    <2>7. pc[c] # "idle" /\ \A d \in Requests \ {c} : pc'[d] = pc[d]
        BY <1>0, <1>13, Zenon DEF TypeOK, Prune, Goto, disk, history, locals, RemoveStep, Partial,
           Kept
    <2> QED BY <1>0, <2>1, <2>2, <2>3, <2>4, <2>5, <2>6, <2>7, <1>a, OthersIdle, Zenon DEF Inv
<1>14. CASE Pruned(c)
    <2>1. TypeOK'
        BY <1>0, OpStepType, Zenon
    <2>2. (DownIsIdle /\ CurrentGood)'
        BY <1>0, <1>14, Zenon DEF TypeOK, Bits, DownIsIdle, CurrentGood, Pruned, Goto, disk,
           history, locals, Kept, Position, Swapping, Complete
    <2>3. (PreviousResolves /\ RunningIsCurrent)'
        BY <1>a, <1>0, <1>14, Zenon DEF TypeOK, Bits, PreviousResolves, RunningIsCurrent, Pruned,
           Goto, disk, history, locals, Kept, Position, Swapping, Complete
    <2>4. Position(c)'
        BY <1>0, <1>14 DEF TypeOK, Bits, CurrentGood, Pruned, Goto, disk, history, locals,
           Kept, Position, Swapping, Complete
    <2>5. RunningAt(c)'
        BY <1>0, <1>14, Zenon DEF TypeOK, RunningAt, Pruned, Goto, disk, history, locals, Kept,
           Position, Swapping, Complete
    <2>6. OutcomeAt(c)'
        <3>1. pc[c] = "prune" /\ pc'[c] = "ok" /\ UNCHANGED <<disk, running, locals, ctxDone>>
            BY <1>0, <1>14, Zenon DEF TypeOK, Pruned, Goto
        <3>2. ASSUME ~lost', old[c] \notin {None, ver[c]}
              PROVE  /\ current = ver[c] /\ previous = old[c] /\ ver[c] \in Versions
                     /\ \A v \in Versions : dir[v] # "absent" <=> v \in {ver[c], old[c]}
            <4>1. ~lost /\ \A v \in Versions \ {ver[c], old[c]} : dir[v] = "absent"
                BY <1>14, <3>2, Zenon DEF Pruned, Kept
            <4>2. current = ver[c] /\ previous = old[c] /\ Complete(old[c])
                BY <1>0, <3>1, <3>2, <4>1, Zenon DEF Position
            <4>3. ver[c] \in Versions
                BY <1>0, <3>1, <3>2, <4>2, Zenon DEF TypeOK, Position
            <4>4. dir[ver[c]] # "absent" /\ dir[old[c]] # "absent"
                BY <1>0, <4>2, <4>3, Zenon DEF CurrentGood, Complete, Bits
            <4> QED BY <4>1, <4>2, <4>3, <4>4, Zenon
        <3> QED BY <3>1, <3>2, Zenon DEF OutcomeAt, disk, history, locals
    <2>7. pc[c] # "idle" /\ \A d \in Requests \ {c} : pc'[d] = pc[d]
        BY <1>0, <1>14, Zenon DEF TypeOK, Pruned, Goto, disk, history, locals, Kept
    <2> QED BY <1>0, <2>1, <2>2, <2>3, <2>4, <2>5, <2>6, <2>7, <1>a, OthersIdle, Zenon DEF Inv
<1>15. CASE Answered(c)
    <2>1. \A d \in Requests : pc'[d] = "idle"
        BY <1>0, <1>15, Zenon DEF TypeOK, Answered, Forget
    <2>2. TypeOK'
        BY <1>0, OpStepType, Zenon
    <2>3. (DownIsIdle /\ CurrentGood)'
        BY <1>0, <1>15, Zenon DEF DownIsIdle, CurrentGood, Answered, disk, history
    <2>4. (PreviousResolves /\ RunningIsCurrent)'
        BY <1>a, <1>0, <1>15, Zenon DEF PreviousResolves, RunningIsCurrent, RunningAt, Complete,
           Answered, disk, history
    <2>5. \A d \in Requests : (Position(d) /\ RunningAt(d) /\ OutcomeAt(d))'
        BY <2>1, Zenon DEF Position, RunningAt, OutcomeAt, Swapping
    <2> QED BY <1>a, <2>2, <2>3, <2>4, <2>5, Zenon DEF Inv
<1> QED BY <1>1, <1>2, <1>3, <1>4, <1>5, <1>6, <1>7, <1>8, <1>9, <1>10, <1>11, <1>12,
    <1>13, <1>14, <1>15, Zenon DEF OpStep

\* Taking the lock, the end of a context, the death of core and its boot.
LEMMA OutsideStepInv ==
    ASSUME Inv, ~overwrote',
           \/ coreUp /\ \E c \in Requests : InstallLocks(c) \/ RollbackLocks(c) \/ CtxEnds(c)
           \/ Crash \/ Boot \/ BootFails
    PROVE  Inv'
<1> USE LifecycleAssumption
<1>0. /\ TypeOK /\ DownIsIdle /\ CurrentGood
      /\ PreviousResolves /\ RunningIsCurrent
      /\ \A d \in Requests : Position(d) /\ RunningAt(d) /\ OutcomeAt(d)
    BY Zenon DEF Inv
<1>a. TypeOK' /\ ~overwrote /\ ~overwrote'
    BY <1>0, OutsideStepType, Zenon DEF Inv
<1>1. ASSUME coreUp, NEW c \in Requests, InstallLocks(c) PROVE Inv'
    <2>1. TypeOK'
        BY <1>a, Zenon
    <2>2. (DownIsIdle /\ CurrentGood)' /\ (PreviousResolves /\ RunningIsCurrent)'
        BY <1>a, <1>0, <1>1, Zenon DEF DownIsIdle, CurrentGood, PreviousResolves, RunningIsCurrent,
                          Complete, InstallLocks, disk, history
    <2>3. \A d \in Requests \ {c} : pc'[d] = "idle"
        BY <1>0, <1>1, Zenon DEF TypeOK, InstallLocks, LockFree, Goto
    <2>4. (Position(c) /\ RunningAt(c) /\ OutcomeAt(c))'
        <3>1. PICK v \in Versions :
                 /\ overwrote' = (overwrote \/ v \in {current, previous})
                 /\ ver' = [ver EXCEPT ![c] = v]
            BY <1>1, Zenon DEF InstallLocks
        <3>2. v \notin {current, previous}
            BY <1>a, <3>1, Zenon
        <3>3. ver'[c] = v
            BY <1>0, <3>1, ZenonT(30) DEF TypeOK
        <3>4. /\ pc'[c] = "stage" /\ mode'[c] = "promote" /\ act'[c] = None /\ old'[c] = None
              /\ current' = current /\ previous' = previous /\ running' = running
            BY <1>0, <1>1, ZenonT(30) DEF TypeOK, InstallLocks, Goto, disk
        <3>5. ~lost => running \in {None, current}
            BY <1>0, <1>a, <1>1, ZenonT(30) DEF RunningIsCurrent, InstallLocks, LockFree
        <3> QED BY <3>2, <3>3, <3>4, <3>5, <1>1, Zenon DEF Position, RunningAt, OutcomeAt,
            Swapping, InstallLocks
    <2>5. \A d \in Requests \ {c} : (Position(d) /\ RunningAt(d) /\ OutcomeAt(d))'
        BY <2>3, Zenon DEF Position, RunningAt, OutcomeAt, Swapping
    <2>6. \A d \in Requests : (Position(d) /\ RunningAt(d) /\ OutcomeAt(d))'
        BY <2>4, <2>5, Zenon
    <2> QED BY <1>a, <2>1, <2>2, <2>6, Zenon DEF Inv
<1>2. ASSUME coreUp, NEW c \in Requests, RollbackLocks(c) PROVE Inv'
    <2>1. TypeOK'
        BY <1>a, Zenon
    <2>2. (DownIsIdle /\ CurrentGood)' /\ (PreviousResolves /\ RunningIsCurrent)'
        BY <1>a, <1>0, <1>2, Zenon DEF DownIsIdle, CurrentGood, PreviousResolves, RunningIsCurrent,
                          Complete, RollbackLocks, disk, history
    <2>3. \A d \in Requests \ {c} : pc'[d] = "idle"
        BY <1>0, <1>2, ZenonT(30) DEF TypeOK, RollbackLocks, LockFree, Goto
    <2>a. /\ mode'[c] = "rollback" /\ old'[c] = current /\ act'[c] = previous
          /\ pc'[c] \in {"activate", "failed"}
          /\ pc'[c] = "activate" => previous # None
          /\ UNCHANGED <<disk, running, history>>
        BY <1>0, <1>2, Zenon DEF TypeOK, RollbackLocks, Goto
    <2>4. Position(c)'
        <3>1. pc'[c] = "activate" => act'[c] \in Versions
            BY <1>0, <2>a, Zenon DEF TypeOK
        <3>2. old'[c] # None => Complete(old[c])'
            BY <1>0, <2>a, Zenon DEF CurrentGood, Complete, Bits, disk
        <3> QED BY <2>a, <3>1, <3>2, Zenon DEF Position, Swapping
    <2>5. (RunningAt(c) /\ OutcomeAt(c))'
        <3>1. ~lost => running \in {None, current}
            BY <1>0, <1>a, <1>2, Zenon DEF RunningIsCurrent, RollbackLocks, LockFree
        <3> QED BY <2>a, <3>1, Zenon DEF RunningAt, OutcomeAt, disk, history
    <2>b. \A d \in Requests \ {c} : (Position(d) /\ RunningAt(d) /\ OutcomeAt(d))'
        BY <2>3, Zenon DEF Position, RunningAt, OutcomeAt, Swapping
    <2>6. \A d \in Requests : (Position(d) /\ RunningAt(d) /\ OutcomeAt(d))'
        BY <2>4, <2>5, <2>b, Zenon
    <2> QED BY <1>a, <2>1, <2>2, <2>6, Zenon DEF Inv
<1>3. ASSUME coreUp, NEW c \in Requests, CtxEnds(c) PROVE Inv'
    <2>1. TypeOK'
        BY <1>a, Zenon
    <2>2. (DownIsIdle /\ CurrentGood)' /\ (PreviousResolves /\ RunningIsCurrent)'
        BY <1>a, <1>0, <1>3, ZenonT(30) DEF DownIsIdle, CurrentGood, PreviousResolves,
           RunningIsCurrent,
                          Complete, CtxEnds, disk, history
    <2>3. \A d \in Requests : (Position(d) /\ RunningAt(d))'
        BY <1>0, <1>3, ZenonT(30) DEF Position, RunningAt, Complete, CtxEnds, disk, history, locals
    <2>4. \A d \in Requests : OutcomeAt(d)'
        <3>1. \A d \in Requests : ctxDone[d] => ctxDone'[d]
            BY <1>0, <1>3, Zenon DEF TypeOK, CtxEnds
        <3> QED BY <1>0, <1>3, <3>1, Zenon DEF OutcomeAt, CtxEnds, disk, history, locals
    <2> QED BY <1>a, <2>1, <2>2, <2>3, <2>4, Zenon DEF Inv
<1>4. CASE Crash
    <2>1. TypeOK' /\ DownIsIdle'
        BY <1>0, <1>a, <1>4, Zenon DEF TypeOK, DownIsIdle, PCs, Bits, Crash, Forget, disk, history
    <2>2. CurrentGood' /\ (PreviousResolves /\ RunningIsCurrent)'
        BY <1>a, <1>0, <1>4, Zenon DEF CurrentGood, PreviousResolves, RunningIsCurrent, Complete,
           Crash, disk, history
    <2>3. \A d \in Requests : (Position(d) /\ RunningAt(d) /\ OutcomeAt(d))'
        BY <1>4, Zenon DEF Position, RunningAt, OutcomeAt, Swapping, Crash, Forget
    <2> QED BY <1>a, <2>1, <2>2, <2>3, Zenon DEF Inv
<1>5. CASE Boot
    <2>1. TypeOK' /\ DownIsIdle'
        BY <1>0, <1>a, <1>5, Zenon DEF TypeOK, DownIsIdle, Boot, disk, history, locals
    <2>2. CurrentGood' /\ (PreviousResolves /\ RunningIsCurrent)'
        BY <1>a, <1>0, <1>5, Zenon DEF CurrentGood, PreviousResolves, RunningIsCurrent, Complete,
           Boot, disk, history
    <2>3. \A d \in Requests : pc'[d] = "idle"
        BY <1>0, <1>5, ZenonT(30) DEF TypeOK, DownIsIdle, Boot
    <2>4. \A d \in Requests : (Position(d) /\ RunningAt(d) /\ OutcomeAt(d))'
        BY <2>3, Zenon DEF Position, RunningAt, OutcomeAt, Swapping
    <2> QED BY <1>a, <2>1, <2>2, <2>4, Zenon DEF Inv
<1>6. CASE BootFails
    BY <1>0, <1>6, UnchangedInv, Zenon DEF BootFails
<1> QED BY <1>1, <1>2, <1>3, <1>4, <1>5, <1>6, Zenon

\* Every variable keeps its range, and only the holder of the install lock is
\* under way.
THEOREM TypeCorrect == Spec => []TypeOK
<1>1. Init => TypeOK
    BY InitInv, Zenon DEF Inv
<1>2. TypeOK /\ [Next]_vars => TypeOK'
    <2>1. TypeOK /\ UNCHANGED vars => TypeOK'
        BY DEF TypeOK, vars, disk, history, locals
    <2> QED BY <2>1, OpStepType, OutsideStepType, Zenon DEF Next
<1> QED BY <1>1, <1>2, PTL DEF Spec

\* Inv holds until a version that a marker names is installed again.
LEMMA Invariance == Spec => [](TypeOK /\ (overwrote \/ Inv))
<1>1. Init => Inv
    BY InitInv, Zenon
<1>2. TypeOK /\ (overwrote \/ Inv) /\ [Next]_vars => (overwrote \/ Inv)'
    <2> SUFFICES ASSUME TypeOK, overwrote \/ Inv, [Next]_vars, ~overwrote'
                 PROVE  Inv'
        BY Zenon
    <2>1. Inv
        BY OpStepType, OutsideStepType, Zenon DEF Next, vars, history
    <2> QED BY <2>1, OpStepInv, OutsideStepInv, UnchangedInv, Zenon DEF Next
<1> QED BY <1>1, <1>2, TypeCorrect, PTL DEF Spec

\* Whatever fails and wherever core dies, current names a version that is
\* complete on disk: the next boot finds its manifest and its binary.
THEOREM CurrentAlwaysResolves == Spec => []CurrentResolves
<1>1. TypeOK /\ (overwrote \/ Inv) => CurrentResolves
    BY Zenon DEF Inv, CurrentGood, CurrentResolves, Complete, Bits
<1> QED BY <1>1, Invariance, PTL

\* Bits that cannot pass the gate are never what current names.
THEOREM NeverBroken == Spec => []BrokenNeverCurrent
<1>1. TypeOK /\ (overwrote \/ Inv) => BrokenNeverCurrent
    BY Zenon DEF Inv, CurrentGood, BrokenNeverCurrent
<1> QED BY <1>1, Invariance, PTL

\* Until a marker write fails a rollback always has its target on disk.
THEOREM PreviousAlwaysResolves == Spec => []PreviousResolves
<1>1. TypeOK /\ (overwrote \/ Inv) => PreviousResolves
    BY Zenon DEF Inv, PreviousResolves
<1> QED BY <1>1, Invariance, PTL

\* Until a marker write fails the supervisor runs the recorded version or
\* nothing between operations.
THEOREM RunningRecorded == Spec => []RunningIsCurrent
<1>1. TypeOK /\ (overwrote \/ Inv) => RunningIsCurrent
    BY Zenon DEF Inv, RunningIsCurrent
<1> QED BY <1>1, Invariance, PTL

\* A promote that fails its gate, with its client still there, ends with the
\* good version it replaced running again.
THEOREM SwapUndone == Spec => []RestoredUnlessCancelled
<1>1. TypeOK /\ (overwrote \/ Inv) => RestoredUnlessCancelled
    BY Zenon DEF Inv, TypeOK, OutcomeAt, RestoredUnlessCancelled, FailedSwap
<1> QED BY <1>1, Invariance, PTL

\* An upgrade that reports success retains the new version and the one it
\* replaced and no other, unless a write or a deletion failed.
THEOREM UpgradeRetains == Spec => []RetainsTwo
<1>1. TypeOK /\ (overwrote \/ Inv) => RetainsTwo
    <2> SUFFICES ASSUME TypeOK, Inv, NEW c \in Requests,
                        pc[c] = "ok", mode[c] = "promote",
                        old[c] \notin {None, ver[c]}, ~lost, ~overwrote
                 PROVE  /\ current = ver[c] /\ previous = old[c]
                        /\ {v \in Versions : dir[v] # "absent"} = {ver[c], old[c]}
        BY Zenon DEF RetainsTwo
    <2>1. old[c] \in Versions
        BY Zenon DEF Inv, TypeOK
    <2>2. /\ current = ver[c] /\ previous = old[c] /\ ver[c] \in Versions
          /\ \A v \in Versions : dir[v] # "absent" <=> v \in {ver[c], old[c]}
        BY Zenon DEF Inv, OutcomeAt
    <2> QED BY <2>1, <2>2, Zenon
<1> QED BY <1>1, Invariance, PTL

\* The two together: whatever core dies of or a file operation fails at, the
\* next boot finds a version under `current' that is complete and passes.
THEOREM CurrentAlwaysSound == Spec => []CurrentIsSound
BY CurrentAlwaysResolves, NeverBroken, PTL DEF CurrentIsSound

-----------------------------------------------------------------------------
(* The gate of a promote *)

\* What the gate has learnt of the runner: a recorded HEALTHY was heard from a process, and
\* while the gate samples, the stable timer started after the last sample that saw anything else.
GateInv ==
    /\ now \in Nat /\ now <= GateTimeout + 1
    /\ healthySince \in Nat /\ lastBad \in Nat /\ lastBad <= now
    /\ health = "HEALTHY" => heard # {}
    /\ gate = "sampling" /\ healthySince # Never => lastBad <= healthySince /\ healthySince <= now
    /\ GateMeansHealthy

\* Every step of the runner and of the gate keeps it.
LEMMA GateStep == GateInv /\ [GateNext]_gateVars => GateInv'
<1> SUFFICES ASSUME GateInv, [GateNext]_gateVars PROVE GateInv'
    BY Zenon
<1> USE HealthGateConstants DEF GateInv, GateMeansHealthy, Never
<1>1. CASE Running \/ Down \/ Relaunch \/ PollLost
    BY <1>1, Zenon DEF Running, Down, Relaunch, PollLost, sampling
<1>2. ASSUME NEW h \in Answers, Polled(h) PROVE GateInv'
    BY <1>2, Zenon DEF Polled, sampling
<1>3. CASE Tick
    BY <1>3 DEF Tick, runner
<1>4. CASE Sample
    BY <1>4 DEF Sample, runner, Healthy, Reset
<1>5. CASE GateExpires \/ NextActivate
    BY <1>5 DEF GateExpires, NextActivate, runner
<1>6. CASE UNCHANGED gateVars
    BY <1>6, Zenon DEF gateVars
<1> QED BY <1>1, <1>2, <1>3, <1>4, <1>5, <1>6, Zenon DEF GateNext

\* A promote's gate passes only on a HEALTHY that some process of the new version answered, after
\* a stable period in which no sample saw anything else, for every timeout and stable period.
THEOREM GatePassesHealthy == GateSpec => []GateMeansHealthy
<1>1. GateInit => GateInv
    BY HealthGateConstants DEF GateInit, GateInv, GateMeansHealthy, Never
<1>2. GateInv => GateMeansHealthy
    BY Zenon DEF GateInv
<1> QED BY <1>1, <1>2, GateStep, PTL DEF GateSpec

=============================================================================

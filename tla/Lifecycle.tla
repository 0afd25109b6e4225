----------------------------- MODULE Lifecycle ------------------------------
(***************************************************************************)
(* The lifecycle manager of weave-agent (internal/lifecycle), for one      *)
(* module id: installs and rollbacks as the control socket calls them, the *)
(* version tree and the `current' and `previous' markers they leave on     *)
(* disk, and core's boot, which starts what `current' names.               *)
(*                                                                         *)
(* A version directory holds a manifest and a binary.  The bits of a       *)
(* version are "good" (it reaches and keeps HEALTHY) or "bad" (it never    *)
(* passes its gate).  Removing a directory is not atomic: a crash leaves   *)
(* it without its binary or without its manifest.  Markers are written by  *)
(* temp file and rename, so a write happens or does not.                   *)
(*                                                                         *)
(* The supervisor is abstracted to the version it has registered, which is *)
(* what its own specification (module Supervisor) gives: Replace ends the  *)
(* old version before it adds the new one.                                 *)
(***************************************************************************)
EXTENDS Naturals, FiniteSets

CONSTANTS
    Requests,       \* control-socket requests
    Versions,       \* version strings
    None            \* no version, or no holder of the lock

ASSUME LifecycleAssumption == None \notin Versions \cup Requests

VARIABLES
    dir,        \* versions/<v> on disk
    current,    \* the current marker
    previous,   \* the previous marker
    running,    \* the version the supervisor has registered
    coreUp,     \* core is past its boot
    lock,       \* the holder of the module's install lock
    pc,         \* where each request is
    ver,        \* promote's mf.Version
    bits,       \* the staged bits of ver
    old,        \* promote's oldVersion, Rollback's current
    act,        \* the version activate is called for
    mode,       \* who called activate: promote, its rollback, or Rollback
    ctxDone,    \* the request's context has ended
    lost,       \* history: a marker write or a deletion of prune failed
    overwrote   \* history: a version that a marker names was installed again

disk == <<dir, current, previous>>
locals == <<ver, bits, old, act, mode>>
history == <<lost, overwrote>>
vars == <<disk, running, coreUp, history, lock, pc, locals, ctxDone>>

Bits == {"good", "bad"}
Partial == {"noBinary", "noManifest"}

\* manifest.Load succeeds in the directory; findBinary does too.
Loads(v) == dir[v] \in Bits \cup {"noBinary"}
Complete(v) == dir[v] \in Bits

Init ==
    /\ dir = [v \in Versions |-> "absent"]
    /\ current = None /\ previous = None /\ running = None
    /\ coreUp = TRUE /\ lock = None /\ lost = FALSE /\ overwrote = FALSE
    /\ pc = [c \in Requests |-> "idle"]
    /\ ver = [c \in Requests |-> None]
    /\ bits = [c \in Requests |-> "bad"]
    /\ old = [c \in Requests |-> None]
    /\ act = [c \in Requests |-> None]
    /\ mode = [c \in Requests |-> "promote"]
    /\ ctxDone = [c \in Requests |-> FALSE]

\* The operations in S have returned or died: their locals are gone.
Forget(S) ==
    /\ pc' = [c \in Requests |-> IF c \in S THEN "idle" ELSE pc[c]]
    /\ ver' = [c \in Requests |-> IF c \in S THEN None ELSE ver[c]]
    /\ bits' = [c \in Requests |-> IF c \in S THEN "bad" ELSE bits[c]]
    /\ old' = [c \in Requests |-> IF c \in S THEN None ELSE old[c]]
    /\ act' = [c \in Requests |-> IF c \in S THEN None ELSE act[c]]
    /\ mode' = [c \in Requests |-> IF c \in S THEN "promote" ELSE mode[c]]
    /\ ctxDone' = [c \in Requests |-> c \notin S /\ ctxDone[c]]

Goto(c, where) == pc' = [pc EXCEPT ![c] = where]

\* os.RemoveAll at work on a directory: one more step of it.
RemoveStep(v) ==
    \E left \in (IF Complete(v) THEN Partial ELSE {}) \cup {"absent"} :
        dir' = [dir EXCEPT ![v] = left]

-----------------------------------------------------------------------------
(* InstallLocal, Install, stageFiles and promote.                          *)

LockFree == lock = None

\* InstallLocal or Install has a manifest and gets the module's lock.
InstallLocks(c) ==
    /\ pc[c] = "idle" /\ LockFree
    /\ lock' = c
    /\ \E v \in Versions, b \in Bits :
          /\ overwrote' = (overwrote \/ v \in {current, previous})
          /\ ver' = [ver EXCEPT ![c] = v]
          /\ bits' = [bits EXCEPT ![c] = b]
    /\ mode' = [mode EXCEPT ![c] = "promote"]
    /\ old' = [old EXCEPT ![c] = None]
    /\ act' = [act EXCEPT ![c] = None]
    /\ Goto(c, "stage")
    /\ UNCHANGED <<disk, running, coreUp, lost, ctxDone>>

\* stageFiles: the staged binary passes the verifier ...
Staged(c) ==
    /\ pc[c] = "stage"
    /\ Goto(c, "remove")
    /\ UNCHANGED <<disk, running, coreUp, history, lock, locals, ctxDone>>

\* ... or the download, the copy or the verification fails.
StageFails(c) ==
    /\ pc[c] = "stage"
    /\ Goto(c, "failed")
    /\ UNCHANGED <<disk, running, coreUp, history, lock, locals, ctxDone>>

\* promote: RemoveAll of what the version directory held before.
RemoveOld(c) ==
    /\ pc[c] = "remove" /\ dir[ver[c]] # "absent"
    /\ RemoveStep(ver[c])
    /\ UNCHANGED <<current, previous, running, coreUp, history, lock, pc, locals, ctxDone>>

\* promote: the rename, and the read of current that follows it.
Renamed(c) ==
    /\ pc[c] = "remove" /\ dir[ver[c]] = "absent"
    /\ dir' = [dir EXCEPT ![ver[c]] = bits[c]]
    /\ old' = [old EXCEPT ![c] = current]
    /\ act' = [act EXCEPT ![c] = ver[c]]
    /\ Goto(c, "activate")
    /\ UNCHANGED <<current, previous, running, coreUp, history, lock, ver, bits, mode, ctxDone>>

\* promote: MkdirAll, RemoveAll (perhaps half way) or Rename fails.
PromoteFails(c) ==
    /\ pc[c] = "remove"
    /\ Goto(c, "failed")
    /\ UNCHANGED <<disk, running, coreUp, history, lock, locals, ctxDone>>

-----------------------------------------------------------------------------
(* Rollback.                                                               *)

\* Rollback gets the lock, reads previous, its manifest and current.
RollbackLocks(c) ==
    /\ pc[c] = "idle" /\ LockFree
    /\ lock' = c
    /\ mode' = [mode EXCEPT ![c] = "rollback"]
    /\ ver' = [ver EXCEPT ![c] = previous]
    /\ old' = [old EXCEPT ![c] = current]
    /\ act' = [act EXCEPT ![c] = previous]
    /\ Goto(c, IF previous # None /\ Loads(previous)
               THEN "activate" ELSE "failed")
    /\ UNCHANGED <<disk, running, coreUp, history, bits, ctxDone>>

-----------------------------------------------------------------------------
(* activate and healthGate.                                                *)

\* Mutant: the rollback of a failed promote is left out.
RollsBack_Never(c) == FALSE

\* Mutant: a failed rollback is rolled back in turn.
RollsBack_Always(c) == old[c] \notin {None, ver[c]} /\ Loads(old[c])

\* promote rolls back to the old version if there was one and its manifest
\* loads; the rollback itself and Rollback do not.
RollsBack(c) ==
    mode[c] = "promote" /\ old[c] \notin {None, ver[c]} /\ Loads(old[c])

\* activate returned an error.
ActivateFailed(c) ==
    IF RollsBack(c)
    THEN /\ Goto(c, "activate")
         /\ mode' = [mode EXCEPT ![c] = "restore"]
         /\ act' = [act EXCEPT ![c] = old[c]]
    ELSE /\ Goto(c, "failed")
         /\ UNCHANGED <<mode, act>>

\* activate returned nil: promote and Rollback go on to their markers.
ActivateSucceeded(c) ==
    Goto(c, CASE mode[c] = "restore" -> "failed"
              [] mode[c] = "promote" /\ old[c] \in {None, ver[c]} -> "ok"
              [] OTHER -> "previous")

\* findBinary, then Replace: the old version is stopped, the new one added.
Activate(c) ==
    /\ pc[c] = "activate"
    /\ IF Complete(act[c])
       THEN /\ running' = act[c]
            /\ Goto(c, "gate")
            /\ UNCHANGED <<mode, act>>
       ELSE ActivateFailed(c) /\ UNCHANGED running
    /\ UNCHANGED <<disk, coreUp, history, lock, ver, bits, old, ctxDone>>

\* Mutant: the gate accepts a module that merely runs.
GateOpen_Liveness(c) == ~ctxDone[c]

\* healthGate returns nil: HEALTHY for the stable period within the timeout.
GateOpen(c) == dir[act[c]] = "good" /\ ~ctxDone[c]

GatePasses(c) ==
    /\ pc[c] = "gate" /\ GateOpen(c)
    /\ Goto(c, "current")
    /\ UNCHANGED <<disk, running, coreUp, history, lock, locals, ctxDone>>

\* Supervisor.StopModule.
StopModule == running' = None

\* healthGate returns an error (the timeout, a terminal state or the
\* context) and activate stops the module.
GateFails(c) ==
    /\ pc[c] = "gate" /\ (dir[act[c]] = "bad" \/ ctxDone[c])
    /\ StopModule
    /\ ActivateFailed(c)
    /\ UNCHANGED <<disk, coreUp, history, lock, ver, bits, old, ctxDone>>

WriteCurrent(c) ==
    /\ pc[c] = "current"
    /\ current' = act[c]
    /\ ActivateSucceeded(c)
    /\ UNCHANGED <<dir, previous, running, coreUp, history, lock, locals, ctxDone>>

\* The write of current fails: an error, with the new version left running.
WriteCurrentFails(c) ==
    /\ pc[c] = "current"
    /\ lost' = TRUE
    /\ ActivateFailed(c)
    /\ UNCHANGED <<disk, running, coreUp, overwrote, lock, ver, bits, old, ctxDone>>

-----------------------------------------------------------------------------
(* The markers and the retention of promote and Rollback.                  *)

WritePrevious(c) ==
    /\ pc[c] = "previous"
    /\ previous' = old[c]
    /\ Goto(c, IF mode[c] = "promote" THEN "prune" ELSE "ok")
    /\ UNCHANGED <<dir, current, running, coreUp, history, lock, locals, ctxDone>>

\* The error of the write is ignored.
WritePreviousFails(c) ==
    /\ pc[c] = "previous"
    /\ lost' = TRUE
    /\ Goto(c, IF mode[c] = "promote" THEN "prune" ELSE "ok")
    /\ UNCHANGED <<disk, running, coreUp, overwrote, lock, locals, ctxDone>>

\* Mutant: every version is kept.
Kept_All(c) == Versions

\* The versions prune keeps.
Kept(c) == {ver[c], old[c]}

Prune(c) ==
    /\ pc[c] = "prune"
    /\ \E v \in Versions \ Kept(c) : dir[v] # "absent" /\ RemoveStep(v)
    /\ UNCHANGED <<current, previous, running, coreUp, history, lock, pc, locals, ctxDone>>

\* prune is through; what is left is a RemoveAll that failed, which is
\* ignored.
Pruned(c) ==
    /\ pc[c] = "prune"
    /\ lost' = (lost \/ \E v \in Versions \ Kept(c) : dir[v] # "absent")
    /\ Goto(c, "ok")
    /\ UNCHANGED <<disk, running, coreUp, overwrote, lock, locals, ctxDone>>

\* The deferred unlock; the request is answered.
Answered(c) ==
    /\ pc[c] \in {"ok", "failed"}
    /\ lock' = None
    /\ Forget({c})
    /\ UNCHANGED <<disk, running, coreUp, history>>

-----------------------------------------------------------------------------
(* The client and core.                                                    *)

\* The client goes away, or its deadline passes.
CtxEnds(c) ==
    /\ pc[c] # "idle" /\ ~ctxDone[c]
    /\ ctxDone' = [ctxDone EXCEPT ![c] = TRUE]
    /\ UNCHANGED <<disk, running, coreUp, history, lock, pc, locals>>

\* Core dies, and the modules with it.
Crash ==
    /\ coreUp
    /\ coreUp' = FALSE /\ lock' = None /\ running' = None
    /\ Forget(Requests)
    /\ UNCHANGED <<disk, history>>

\* discoverModules: the version current names is added; a directory without
\* a manifest is skipped ...
Boot ==
    /\ ~coreUp
    /\ current # None => dir[current] # "noBinary"
    /\ coreUp' = TRUE
    /\ running' = IF current # None /\ Complete(current) THEN current ELSE None
    /\ UNCHANGED <<disk, history, lock, pc, locals, ctxDone>>

\* ... and one with a manifest and no binary fails the start of core.
BootFails ==
    /\ ~coreUp
    /\ current # None /\ dir[current] = "noBinary"
    /\ UNCHANGED vars

-----------------------------------------------------------------------------

\* The steps of an operation that nothing outside it can hold up.
OpStep(c) ==
    \/ Staged(c) \/ StageFails(c) \/ RemoveOld(c) \/ Renamed(c) \/ PromoteFails(c)
    \/ Activate(c) \/ GatePasses(c) \/ GateFails(c)
    \/ WriteCurrent(c) \/ WriteCurrentFails(c)
    \/ WritePrevious(c) \/ WritePreviousFails(c)
    \/ Prune(c) \/ Pruned(c) \/ Answered(c)

Next ==
    \/ coreUp /\ \E c \in Requests :
          InstallLocks(c) \/ RollbackLocks(c) \/ OpStep(c) \/ CtxEnds(c)
    \/ Crash \/ Boot \/ BootFails

Spec == Init /\ [][Next]_vars

\* A request's goroutine is scheduled and each wait in it has a timeout;
\* weaveboot starts core again.
Fairness == WF_vars(Boot) /\ \A c \in Requests : WF_vars(coreUp /\ OpStep(c))

FairSpec == Spec /\ Fairness

-----------------------------------------------------------------------------
(* Properties.                                                             *)

PCs == {"idle", "stage", "remove", "activate", "gate", "current", "previous",
        "prune", "ok", "failed"}

\* The type invariant; a version directory is absent, partial or complete,
\* and only a request that holds the lock is under way.
TypeOK ==
    /\ dir \in [Versions -> Bits \cup Partial \cup {"absent"}]
    /\ {current, previous, running} \subseteq Versions \cup {None}
    /\ coreUp \in BOOLEAN /\ lost \in BOOLEAN /\ overwrote \in BOOLEAN
    /\ lock \in Requests \cup {None}
    /\ pc \in [Requests -> PCs]
    /\ ver \in [Requests -> Versions \cup {None}]
    /\ bits \in [Requests -> Bits]
    /\ old \in [Requests -> Versions \cup {None}]
    /\ act \in [Requests -> Versions \cup {None}]
    /\ mode \in [Requests -> {"promote", "restore", "rollback"}]
    /\ ctxDone \in [Requests -> BOOLEAN]
    /\ \A c \in Requests : pc[c] # "idle" => lock = c

\* Until a version that a marker names is installed again (promote removes the
\* directory it replaces in place), `current' names a version whose manifest
\* and binary are there, whatever the step at which core dies, so the next
\* boot starts the module: the marker is flipped after the rename and prune
\* keeps what it names.
CurrentResolves == ~overwrote /\ current # None => Complete(current)

\* Unless a write failed, `previous' names a complete version too: a rollback
\* has its target, also after a crash between the two marker writes or within
\* prune.
PreviousResolves == ~overwrote /\ ~lost /\ previous # None => Complete(previous)

\* `current' never names bits that cannot pass the gate, so no boot after a
\* crash relaunches them: the marker is flipped only behind the gate.
BrokenNeverCurrent == ~overwrote /\ current # None => dir[current] # "bad"

\* A core that starts after a death at any step finds, under `current', a
\* version that is complete and can pass the gate (lifecycle.go:257, 276).
CurrentIsSound == CurrentResolves /\ BrokenNeverCurrent

\* Unless a write failed, the supervisor runs the recorded version or nothing
\* between operations: a boot after a crash brings back what ran before it.
RunningIsCurrent ==
    ~overwrote /\ ~lost /\ coreUp /\ lock = None => running \in {None, current}

\* Promote has failed at or after its swap, and the version it replaced is
\* there to go back to.
FailedSwap(c) ==
    /\ pc[c] = "failed" /\ mode[c] # "rollback" /\ act[c] # None
    /\ old[c] \notin {None, ver[c]} /\ dir[old[c]] = "good"

\* A promote that failed its gate, and was not given up by its client, ends
\* with the old version running again.
RestoredUnlessCancelled ==
    \A c \in Requests :
        ~overwrote /\ FailedSwap(c) /\ ~ctxDone[c] => running = old[c]

\* "Success: retain exactly N-1": an upgrade that reports success leaves the
\* new and the replaced version on disk, named by the markers, and no other,
\* unless a marker write or a deletion failed.
RetainsTwo ==
    \A c \in Requests :
        /\ pc[c] = "ok" /\ mode[c] = "promote" /\ old[c] \notin {None, ver[c]}
        /\ ~lost /\ ~overwrote
        => /\ current = ver[c] /\ previous = old[c]
           /\ {v \in Versions : dir[v] # "absent"} = {ver[c], old[c]}

\* Every request that got the lock is answered and the lock released,
\* unless core dies first.
RequestsAnswered ==
    \A c \in Requests : lock = c ~> lock # c

=============================================================================

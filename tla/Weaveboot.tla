----------------------------- MODULE Weaveboot ------------------------------
(***************************************************************************)
(* weaveboot (internal/weaveboot): the loop that promotes a staged core,   *)
(* runs the current one, counts its early exits and reverts to the         *)
(* previous version, over the markers and version directories it keeps on  *)
(* disk; the updater that stages cores; and the death of weaveboot itself  *)
(* at any step, after which init starts it again.                          *)
(*                                                                         *)
(* A run of a core proves itself when it signals readiness or stays up for *)
(* StableAfter.  The bits of a core are "bad" (no run of it does either)   *)
(* or "good" (a run may do so or exit before, and may exit after).         *)
(* Versions are numbers: on dotted numeric versions higherSemver is their  *)
(* order.                                                                  *)
(***************************************************************************)
EXTENDS Naturals, FiniteSets

CONSTANTS
    Versions,           \* core versions, above 0
    RevertThreshold,    \* Options.RevertThreshold
    MaxStaged,          \* bound: cores the updater stages
    MaxDeaths,          \* bound: deaths of weaveboot
    MaxBootFaults           \* bound: file operations that fail

ASSUME WeavebootAssumption ==
    /\ Versions \subseteq Nat \ {0}
    /\ RevertThreshold \in Nat \ {0}
    /\ MaxStaged \in Nat /\ MaxDeaths \in Nat /\ MaxBootFaults \in Nat

NoCore == 0   \* an absent marker, or the core beside weaveboot ("unversioned")

VARIABLES
    staging,    \* staging/<v>
    dir,        \* versions/<v>
    current,    \* the current marker
    previous,   \* the previous marker
    ready,      \* the readiness marker exists
    phase,         \* where Run is
    best,       \* promoteStaged's best
    old,        \* promoteStaged's old
    runningCore,    \* Run's version
    up,         \* the run lasted StableAfter
    crashes,    \* Run's crashes
    verifier,   \* Options.VerifyCore is set
    proved,     \* history: this run of core signalled readiness or stayed up
    early,      \* history: the runs in a row that ended without, capped
    restaged,   \* history: an installed version was staged again
    staged,     \* how many cores were staged
    deaths,     \* how often weaveboot died
    bootFaults      \* how many file operations failed

bootDisk == <<staging, dir, current, previous, ready>>
trial == <<proved, early>>
bootLocals == <<best, old, runningCore, up, crashes, trial>>
bootHistory == <<verifier, restaged, staged, deaths, bootFaults>>
bootVars == <<bootDisk, phase, bootLocals, bootHistory>>

Bits == {"good", "bad"}

\* The bits of a core: the one packaged beside weaveboot is good.
BitsOf(v) == IF v = NoCore THEN "good" ELSE dir[v]

BootInit ==
    /\ staging = [v \in Versions |-> "absent"]
    /\ dir = [v \in Versions |-> "absent"]
    /\ current = NoCore /\ previous = NoCore /\ ready = FALSE
    /\ phase = "promote"
    /\ best = NoCore /\ old = NoCore /\ runningCore = NoCore /\ up = FALSE /\ crashes = 0
    /\ proved = FALSE /\ early = 0
    /\ verifier \in BOOLEAN
    /\ restaged = FALSE /\ staged = 0 /\ deaths = 0 /\ bootFaults = 0

\* A file operation fails.
BootFault ==
    /\ bootFaults < MaxBootFaults
    /\ bootFaults' = bootFaults + 1
    /\ UNCHANGED <<verifier, restaged, staged, deaths>>

-----------------------------------------------------------------------------
(* The updater.                                                            *)

\* An updater leaves a core under staging.
Stage(v) ==
    /\ staged < MaxStaged
    /\ staging[v] = "absent"
    /\ \E b \in Bits : staging' = [staging EXCEPT ![v] = b]
    /\ staged' = staged + 1
    /\ restaged' = (restaged \/ dir[v] # "absent")
    /\ UNCHANGED <<dir, current, previous, ready, phase, bootLocals, verifier, deaths, bootFaults>>

-----------------------------------------------------------------------------
(* promoteStaged.                                                          *)

Candidates == {v \in Versions : staging[v] # "absent"}

NothingStaged ==
    /\ phase = "promote" /\ Candidates = {}
    /\ phase' = "start"
    /\ UNCHANGED <<bootDisk, bootLocals, bootHistory>>

\* The highest staged version passes VerifyCore ...
Verified ==
    /\ phase = "promote" /\ verifier
    /\ \E v \in Candidates : (\A w \in Candidates : w <= v) /\ best' = v
    /\ phase' = "rename"
    /\ UNCHANGED <<bootDisk, old, runningCore, up, crashes, trial, bootHistory>>

\* ... or fails it and is removed ...
VerifyFails ==
    /\ phase = "promote" /\ verifier
    /\ \E v \in Candidates :
          /\ \A w \in Candidates : w <= v
          /\ staging' = [staging EXCEPT ![v] = "absent"]
    /\ phase' = "start"
    /\ UNCHANGED <<dir, current, previous, ready, bootLocals, bootHistory>>

\* ... or is refused, every time, because there is no verifier ...
NoVerifier ==
    /\ phase = "promote" /\ Candidates # {} /\ ~verifier
    /\ phase' = "start"
    /\ UNCHANGED <<bootDisk, bootLocals, bootHistory>>

\* ... or a directory operation fails.
PromoteGivesUp ==
    /\ BootFault
    /\ phase \in {"promote", "rename"} /\ Candidates # {}
    /\ phase' = "start"
    /\ UNCHANGED <<bootDisk, bootLocals>>

\* RemoveAll of what the version directory held before.
RemoveOld ==
    /\ phase = "rename" /\ dir[best] # "absent"
    /\ dir' = [dir EXCEPT ![best] = "absent"]
    /\ UNCHANGED <<staging, current, previous, ready, phase, bootLocals, bootHistory>>

\* Mutant: current is flipped before the directory is in place.
RenameStaged_Late ==
    /\ phase = "rename" /\ dir[best] = "absent"
    /\ current' = best
    /\ old' = current
    /\ phase' = "current"
    /\ UNCHANGED <<staging, dir, previous, ready, best, runningCore, up, crashes, trial, bootHistory>>

\* The rename into place, and the read of current.
RenameStaged ==
    /\ phase = "rename" /\ dir[best] = "absent"
    /\ dir' = [dir EXCEPT ![best] = staging[best]]
    /\ staging' = [staging EXCEPT ![best] = "absent"]
    /\ old' = current
    /\ phase' = "current"
    /\ UNCHANGED <<current, previous, ready, best, runningCore, up, crashes, trial, bootHistory>>

WriteCurrent ==
    /\ phase = "current"
    /\ current' = best
    /\ phase' = IF old \in {NoCore, best} THEN "clear" ELSE "previous"
    /\ UNCHANGED <<staging, dir, previous, ready, bootLocals, bootHistory>>

WriteCurrentFails ==
    /\ BootFault /\ phase = "current"
    /\ phase' = "start"
    /\ UNCHANGED <<bootDisk, bootLocals>>

WritePrevious ==
    /\ phase = "previous"
    /\ previous' = old
    /\ phase' = "clear"
    /\ UNCHANGED <<staging, dir, current, ready, bootLocals, bootHistory>>

WritePreviousFails ==
    /\ BootFault /\ phase = "previous"
    /\ phase' = "clear"
    /\ UNCHANGED <<bootDisk, bootLocals>>

\* The other staged versions are cleared.
ClearStaging ==
    /\ phase = "clear"
    /\ staging' = [v \in Versions |-> "absent"]
    /\ phase' = "start"
    /\ UNCHANGED <<dir, current, previous, ready, bootLocals, bootHistory>>

-----------------------------------------------------------------------------
(* Run: currentBinary, runOnce, the verdict on the exit.                   *)

\* currentBinary, the removal of the readiness marker (its error is
\* ignored), and exec.
StartCore ==
    /\ phase = "start" /\ BitsOf(current) # "absent"
    /\ runningCore' = current
    /\ \/ ready' = FALSE /\ UNCHANGED bootHistory
       \/ ready /\ UNCHANGED ready /\ BootFault
    /\ up' = FALSE /\ proved' = FALSE
    /\ phase' = "run"
    /\ UNCHANGED <<staging, dir, current, previous, best, old, crashes, early>>

\* The locals of Run when weaveboot starts.
Fresh ==
    /\ phase' = "promote"
    /\ best' = NoCore /\ old' = NoCore /\ runningCore' = NoCore
    /\ up' = FALSE /\ crashes' = 0
    /\ proved' = FALSE /\ early' = 0

\* current has no binary: Run returns an error, and init starts it again.
NoBinary ==
    /\ phase = "start" /\ BitsOf(current) = "absent"
    /\ Fresh
    /\ UNCHANGED <<bootDisk, bootHistory>>

\* weaveboot, and core with it, is killed; init starts it again.
Die ==
    /\ deaths < MaxDeaths
    /\ deaths' = deaths + 1
    /\ Fresh
    /\ UNCHANGED <<bootDisk, verifier, restaged, staged, bootFaults>>

\* core's signalReady.
SignalReady ==
    /\ phase = "run" /\ BitsOf(runningCore) = "good"
    /\ ready' = TRUE /\ proved' = TRUE
    /\ UNCHANGED <<staging, dir, current, previous, phase, best, old, runningCore, up, crashes,
                   early, bootHistory>>

\* The core has been up for StableAfter.
StaysUp ==
    /\ phase = "run" /\ BitsOf(runningCore) = "good"
    /\ up' = TRUE /\ proved' = TRUE
    /\ UNCHANGED <<bootDisk, phase, best, old, runningCore, crashes, early, bootHistory>>

\* Mutant: the readiness marker is not looked at.
Proven_Uptime == up

\* becameReady, or the uptime fallback.
Proven == ready \/ up

\* The early exits, this one included, call for a revert.
AtThreshold == crashes' >= RevertThreshold

\* One more run that ended before core proved itself.
EarlyRuns == IF proved THEN 0 ELSE IF early < RevertThreshold THEN early + 1 ELSE early

\* The core exits.  The exit of a run that proved itself is not counted and
\* not followed by a backoff; an early one is, and at the threshold Run
\* calls revert.
CoreExits ==
    /\ phase = "run"
    /\ crashes' = IF Proven THEN 0 ELSE crashes + 1
    /\ phase' = IF AtThreshold THEN "revert" ELSE "promote"
    /\ early' = EarlyRuns
    /\ UNCHANGED <<bootDisk, best, old, runningCore, up, proved, bootHistory>>

-----------------------------------------------------------------------------
(* revert.                                                                 *)

\* Mutant: only a newer version is gone back to.
Revertible_Newer == previous > runningCore /\ dir[previous] # "absent"

\* There is another version to go back to.
Revertible == previous \notin {NoCore, runningCore} /\ dir[previous] # "absent"

\* revert writes current ...
Revert ==
    /\ phase = "revert" /\ Revertible
    /\ current' = previous
    /\ crashes' = 0
    /\ phase' = "swap"
    /\ UNCHANGED <<staging, dir, previous, ready, best, old, runningCore, up, trial, bootHistory>>

\* ... and then previous; a failure of that write is only logged.
RecordBad ==
    /\ phase = "swap"
    /\ \/ previous' = runningCore /\ UNCHANGED bootHistory
       \/ UNCHANGED previous /\ BootFault
    /\ phase' = "promote"
    /\ UNCHANGED <<staging, dir, current, ready, bootLocals>>

\* revert returns false: Run keeps retrying, counting from zero again.
CannotRevert ==
    /\ phase = "revert"
    /\ \/ ~Revertible /\ UNCHANGED bootHistory
       \/ Revertible /\ BootFault
    /\ crashes' = 0
    /\ phase' = "promote"
    /\ UNCHANGED <<bootDisk, best, old, runningCore, up, trial>>

-----------------------------------------------------------------------------

PromoteStep ==
    \/ NothingStaged \/ Verified \/ VerifyFails \/ NoVerifier
    \/ PromoteGivesUp \/ RemoveOld \/ RenameStaged \/ WriteCurrent \/ WriteCurrentFails
    \/ WritePrevious \/ WritePreviousFails \/ ClearStaging

RunStep == StartCore \/ NoBinary \/ Revert \/ RecordBad \/ CannotRevert

BootNext ==
    \/ \E v \in Versions : Stage(v)
    \/ PromoteStep \/ RunStep \/ CoreExits \/ SignalReady \/ StaysUp
    \/ Die

BootSpec == BootInit /\ [][BootNext]_bootVars

\* The loop of Run goes on while a core does not run, and a bad core exits.
BootFairness ==
    /\ WF_bootVars(PromoteStep \/ RunStep)
    /\ WF_bootVars(BitsOf(runningCore) = "bad" /\ CoreExits)

BootFairSpec == BootSpec /\ BootFairness

-----------------------------------------------------------------------------
(* Properties.                                                             *)

PCs == {"promote", "rename", "current", "previous", "clear", "start", "run",
        "revert", "swap"}

\* The type invariant; in particular the crash count never passes the
\* threshold at which it is reset.
BootTypeOK ==
    /\ {staging, dir} \subseteq [Versions -> Bits \cup {"absent"}]
    /\ {current, previous, best, old, runningCore} \subseteq Versions \cup {NoCore}
    /\ ready \in BOOLEAN /\ up \in BOOLEAN /\ restaged \in BOOLEAN
    /\ phase \in PCs
    /\ crashes \in 0..RevertThreshold /\ early \in 0..RevertThreshold
    /\ proved \in BOOLEAN /\ verifier \in BOOLEAN
    /\ staged \in 0..MaxStaged
    /\ deaths \in 0..MaxDeaths
    /\ bootFaults \in 0..MaxBootFaults

\* Until an installed version is staged again (promoteStaged removes what it
\* replaces in place), `current' names a version with a binary whatever the
\* step at which weaveboot dies, so the boot loop is never stranded on
\* currentBinary's error: the markers follow the rename.
CurrentBoots == ~restaged /\ current # NoCore => dir[current] # "absent"

\* A version is left for the previous one only when it is the one whose run
\* has just ended, and only after RevertThreshold runs in a row that neither
\* signalled readiness nor stayed up: a run that did proves that the promote
\* was good, and what follows is counted anew (weaveboot.go:105), whatever
\* marker an earlier run left and whichever files could not be written.
RevertIsEarned ==
    [][current' # current /\ phase = "revert" =>
          runningCore = current /\ ~proved /\ early = RevertThreshold]_bootVars

\* A core that cannot stay up is left, or replaced, when there is another
\* version to go back to, however promotes, deaths and early exits mix.
BadIsLeftIfPossible ==
    \A v \in Versions :
        (/\ phase = "run" /\ runningCore = v /\ dir[v] = "bad"
         /\ previous \notin {NoCore, v} /\ BitsOf(previous) # "absent") ~>
            runningCore # v \/ dir[v] # "bad" \/ BitsOf(previous) = "absent"

=============================================================================

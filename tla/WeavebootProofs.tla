-------------------------- MODULE WeavebootProofs ---------------------------
(***************************************************************************)
(* Proofs about module Weaveboot for any versions, threshold and bounds:   *)
(* the boot loop always finds the binary current names, and a revert is    *)
(* earned by runs that did not prove themselves. About Semver: the highest *)
(* staged version is promoted. About Launch, for every manifest, account   *)
(* and text: a launch serves its own process, as its account. About        *)
(* Aptrepo: what a build lists can be installed.                           *)
(***************************************************************************)
EXTENDS Weaveboot, Semver, Launch, Aptrepo, SequenceTheorems,
        WellFoundedInduction, TLAPS

\* The types of the disk, the loop's variables and the bounds.
BootTypes ==
    /\ {staging, dir} \subseteq [Versions -> Bits \cup {"absent"}]
    /\ {current, previous, best, old, runningCore} \subseteq Versions \cup {NoCore}
    /\ ready \in BOOLEAN /\ up \in BOOLEAN /\ restaged \in BOOLEAN
    /\ phase \in PCs
    /\ crashes \in 0..RevertThreshold
    /\ staged \in 0..MaxStaged
    /\ deaths \in 0..MaxDeaths
    /\ bootFaults \in 0..MaxBootFaults

\* What each place in Run knows: the count is below the threshold except
\* where revert is called, and the core that runs is the recorded one.
Loop ==
    /\ phase # "revert" => crashes < RevertThreshold
    /\ phase \in {"run", "revert", "swap"} => runningCore \in Versions \cup {NoCore}
    /\ phase \in {"run", "revert"} => runningCore = current
    /\ phase \in {"rename", "current"} => best \in Versions
    /\ phase = "rename" => staging[best] # "absent"

\* Until an installed version is staged again, a staged version is not installed yet, and
\* the one about to be recorded is.
Tree ==
    /\ \A v \in Versions : staging[v] # "absent" => dir[v] = "absent"
    /\ phase = "current" => dir[best] # "absent"
    /\ CurrentBoots

\* The count is of runs that ended without proving themselves; a run that
\* proved itself is seen to have done so, by its marker or its uptime.
Earned ==
    /\ proved \in BOOLEAN /\ verifier \in BOOLEAN
    /\ early \in 0..RevertThreshold /\ crashes <= early
    /\ phase = "run" /\ proved => ready \/ up
    /\ phase = "revert" => ~proved /\ early = RevertThreshold

\* The invariant of the loop and its files, inductive by itself; Earned is
\* inductive with it.
Inv == BootTypes /\ Loop /\ (~restaged => Tree)

-----------------------------------------------------------------------------

\* Initially nothing is staged or installed.
LEMMA InitInv == BootInit => Inv
<1> SUFFICES ASSUME BootInit PROVE Inv
    BY Zenon
<1> USE WeavebootAssumption
<1>1. BootTypes
    <2>1. {staging, dir} \subseteq [Versions -> Bits \cup {"absent"}]
        BY Zenon DEF BootInit
    <2>2. {current, previous, best, old, runningCore} \subseteq Versions \cup {NoCore}
        BY Zenon DEF BootInit
    <2>3. ready \in BOOLEAN /\ up \in BOOLEAN /\ restaged \in BOOLEAN
        BY Zenon DEF BootInit
    <2>4. crashes \in 0..RevertThreshold
        BY DEF BootInit
    <2>5. /\ phase \in PCs /\ staged \in 0..MaxStaged /\ deaths \in 0..MaxDeaths
          /\ bootFaults \in 0..MaxBootFaults
        BY DEF BootInit, PCs
    <2> QED BY <2>1, <2>2, <2>3, <2>4, <2>5, Zenon DEF BootTypes
<1>2. Loop
    BY DEF BootInit, Loop
<1>3. Tree
    BY Zenon DEF BootInit, Tree, CurrentBoots
<1> QED BY <1>1, <1>2, <1>3, Zenon DEF Inv

\* Staging a core touches the staging area only.
LEMMA StageInv ==
    ASSUME Inv, NEW v \in Versions, Stage(v)
    PROVE  Inv'
<1> USE WeavebootAssumption
<1>1. BootTypes'
    BY DEF Inv, BootTypes, Stage, bootLocals, Bits, NoCore
<1>2. Loop'
    BY Zenon DEF Inv, BootTypes, Loop, Stage, bootLocals, Bits, BitsOf
<1>3. ASSUME ~restaged' PROVE Tree'
    BY <1>3, Zenon DEF Inv, BootTypes, Tree, CurrentBoots, Stage, bootLocals, Bits
<1> QED BY <1>1, <1>2, <1>3, Zenon DEF Inv

\* Every step of weaveboot and of its core keeps the invariant.
LEMMA LoopInv ==
    ASSUME Inv,
           PromoteStep \/ RunStep \/ CoreExits \/ SignalReady \/ StaysUp \/ Die
    PROVE  Inv'
<1> USE WeavebootAssumption
<1>0. BootTypes /\ Loop /\ (~restaged => Tree)
    BY Zenon DEF Inv
<1>1. CASE NothingStaged \/ NoVerifier
    <2>1. BootTypes'
        BY <1>0, <1>1, Zenon DEF BootTypes, Loop, PCs, Bits, NoCore, NothingStaged, NoVerifier,
           bootDisk, bootLocals,
           bootHistory
    <2>2. Loop'
        BY <1>0, <1>1, Zenon DEF BootTypes, Loop, Bits, NoCore, NothingStaged, NoVerifier,
           bootDisk, bootLocals, bootHistory,
           BitsOf
    <2>3. ASSUME ~restaged' PROVE Tree'
        BY <1>0, <1>1, <2>3, Zenon DEF BootTypes, Loop, Tree, CurrentBoots, Bits, NoCore,
           NothingStaged, NoVerifier, bootDisk, bootLocals, bootHistory
    <2> QED BY <2>1, <2>2, <2>3, Zenon DEF Inv
<1>2. CASE Verified
    <2>1. BootTypes'
        BY <1>0, <1>2, ZenonT(30) DEF BootTypes, Loop, PCs, Bits, NoCore, Verified, bootDisk,
           bootLocals,
           bootHistory,
           Candidates
    <2>2. Loop'
        BY <1>0, <1>2, Zenon DEF BootTypes, Loop, Bits, NoCore, Verified, bootDisk, bootLocals,
           bootHistory,
           Candidates, BitsOf
    <2>3. ASSUME ~restaged' PROVE Tree'
        BY <1>0, <1>2, <2>3, Zenon DEF BootTypes, Loop, Tree, CurrentBoots, Bits, NoCore, Verified,
           bootDisk, bootLocals, bootHistory, Candidates
    <2> QED BY <2>1, <2>2, <2>3, Zenon DEF Inv
<1>3. CASE VerifyFails
    <2>1. BootTypes'
        BY <1>0, <1>3 DEF BootTypes, Loop, PCs, Bits, NoCore, VerifyFails, bootDisk, bootLocals,
           bootHistory, Candidates
    <2>2. Loop'
        BY <1>0, <1>3, Zenon DEF BootTypes, Loop, Bits, NoCore, VerifyFails, bootDisk, bootLocals,
           bootHistory,
           Candidates, BitsOf
    <2>3. ASSUME ~restaged' PROVE Tree'
        BY <1>0, <1>3, <2>3, Zenon DEF BootTypes, Loop, Tree, CurrentBoots, Bits, NoCore,
           VerifyFails,
           bootDisk, bootLocals, bootHistory, Candidates
    <2> QED BY <2>1, <2>2, <2>3, ZenonT(30) DEF Inv
<1>4. CASE PromoteGivesUp
    <2>1. BootTypes'
        BY <1>0, <1>4 DEF BootTypes, Loop, PCs, Bits, NoCore, PromoteGivesUp, BootFault, bootDisk,
           bootLocals, bootHistory
    <2>2. Loop'
        BY <1>0, <1>4, Zenon DEF BootTypes, Loop, Bits, NoCore, PromoteGivesUp, BootFault,
           bootDisk, bootLocals,
           bootHistory, BitsOf
    <2>3. ASSUME ~restaged' PROVE Tree'
        BY <1>0, <1>4, <2>3, Zenon DEF BootTypes, Loop, Tree, CurrentBoots, Bits, NoCore,
           PromoteGivesUp, BootFault, bootDisk, bootLocals, bootHistory
    <2> QED BY <2>1, <2>2, <2>3, ZenonT(30) DEF Inv
<1>5. CASE RemoveOld
    <2>1. BootTypes'
        BY <1>0, <1>5, SMTT(20) DEF BootTypes, Loop, PCs, Bits, NoCore, RemoveOld, bootDisk,
           bootLocals, bootHistory
    <2>2. Loop'
        BY <1>0, <1>5, Zenon DEF BootTypes, Loop, Bits, NoCore, RemoveOld, bootDisk, bootLocals,
           bootHistory, BitsOf
    <2>3. ASSUME ~restaged' PROVE Tree'
        BY <1>0, <1>5, <2>3, Zenon DEF BootTypes, Loop, Tree, CurrentBoots, Bits, NoCore, RemoveOld,
           bootDisk, bootLocals, bootHistory
    <2> QED BY <2>1, <2>2, <2>3, ZenonT(30) DEF Inv
<1>6. CASE RenameStaged
    <2>1. BootTypes'
        BY <1>0, <1>6, ZenonT(30) DEF BootTypes, Loop, PCs, Bits, NoCore, RenameStaged, bootDisk,
           bootLocals,
           bootHistory
    <2>2. Loop'
        BY <1>0, <1>6, Zenon DEF BootTypes, Loop, Bits, NoCore, RenameStaged, bootDisk,
           bootLocals, bootHistory,
           BitsOf
    <2>3. ASSUME ~restaged' PROVE Tree'
        BY <1>0, <1>6, <2>3, Zenon DEF BootTypes, Loop, Tree, CurrentBoots, Bits, NoCore,
           RenameStaged,
           bootDisk, bootLocals, bootHistory
    <2> QED BY <2>1, <2>2, <2>3, Zenon DEF Inv
<1>7. CASE WriteCurrent
    <2>1. BootTypes'
        BY <1>0, <1>7, Zenon DEF BootTypes, Loop, PCs, Bits, NoCore, WriteCurrent, bootDisk,
           bootLocals, bootHistory
    <2>2. Loop'
        BY <1>0, <1>7, Zenon DEF BootTypes, Loop, Bits, NoCore, WriteCurrent, bootDisk,
           bootLocals, bootHistory,
           BitsOf
    <2>3. ASSUME ~restaged' PROVE Tree'
        BY <1>0, <1>7, <2>3, Zenon DEF BootTypes, Loop, Tree, CurrentBoots, Bits, NoCore,
           WriteCurrent,
           bootDisk, bootLocals, bootHistory
    <2> QED BY <2>1, <2>2, <2>3, Zenon DEF Inv
<1>8. CASE WriteCurrentFails
    <2>1. BootTypes'
        BY <1>0, <1>8 DEF BootTypes, Loop, PCs, Bits, NoCore, WriteCurrentFails, BootFault,
           bootDisk,
           bootLocals, bootHistory
    <2>2. Loop'
        BY <1>0, <1>8, Zenon DEF BootTypes, Loop, Bits, NoCore, WriteCurrentFails, BootFault,
           bootDisk, bootLocals,
           bootHistory, BitsOf
    <2>3. ASSUME ~restaged' PROVE Tree'
        BY <1>0, <1>8, <2>3, Zenon DEF BootTypes, Loop, Tree, CurrentBoots, Bits, NoCore,
           WriteCurrentFails, BootFault, bootDisk, bootLocals, bootHistory
    <2> QED BY <2>1, <2>2, <2>3, Zenon DEF Inv
<1>9. CASE WritePrevious
    <2>1. BootTypes'
        BY <1>0, <1>9, ZenonT(30) DEF BootTypes, Loop, PCs, Bits, NoCore, WritePrevious, bootDisk,
           bootLocals,
           bootHistory
    <2>2. Loop'
        BY <1>0, <1>9, Zenon DEF BootTypes, Loop, Bits, NoCore, WritePrevious, bootDisk,
           bootLocals, bootHistory,
           BitsOf
    <2>3. ASSUME ~restaged' PROVE Tree'
        BY <1>0, <1>9, <2>3, Zenon DEF BootTypes, Loop, Tree, CurrentBoots, Bits, NoCore,
           WritePrevious, bootDisk, bootLocals, bootHistory
    <2> QED BY <2>1, <2>2, <2>3, Zenon DEF Inv
<1>10. CASE WritePreviousFails
    <2>1. BootTypes'
        BY <1>0, <1>10 DEF BootTypes, Loop, PCs, Bits, NoCore, WritePreviousFails, BootFault,
           bootDisk,
           bootLocals, bootHistory
    <2>2. Loop'
        BY <1>0, <1>10, Zenon DEF BootTypes, Loop, Bits, NoCore, WritePreviousFails, BootFault,
           bootDisk,
           bootLocals, bootHistory, BitsOf
    <2>3. ASSUME ~restaged' PROVE Tree'
        BY <1>0, <1>10, <2>3, Zenon DEF BootTypes, Loop, Tree, CurrentBoots, Bits, NoCore,
           WritePreviousFails, BootFault, bootDisk, bootLocals, bootHistory
    <2> QED BY <2>1, <2>2, <2>3, ZenonT(30) DEF Inv
<1>11. CASE ClearStaging
    <2>1. BootTypes'
        BY <1>0, <1>11, Zenon DEF BootTypes, Loop, PCs, Bits, NoCore, ClearStaging, bootDisk,
           bootLocals,
           bootHistory
    <2>2. Loop'
        BY <1>0, <1>11, Zenon DEF BootTypes, Loop, Bits, NoCore, ClearStaging, bootDisk,
           bootLocals, bootHistory,
           BitsOf
    <2>3. ASSUME ~restaged' PROVE Tree'
        BY <1>0, <1>11, <2>3, Zenon DEF BootTypes, Loop, Tree, CurrentBoots, Bits, NoCore,
           ClearStaging, bootDisk, bootLocals, bootHistory
    <2> QED BY <2>1, <2>2, <2>3, Zenon DEF Inv
<1>12. CASE StartCore
    <2>1. BootTypes'
        <3>1. ready' \in BOOLEAN /\ up' \in BOOLEAN
            BY <1>0, <1>12, Zenon DEF BootTypes, StartCore
        <3>2. restaged' = restaged /\ staged' = staged /\ deaths' = deaths
            BY <1>12, ZenonT(30) DEF StartCore, BootFault, bootHistory
        <3>3. bootFaults' \in 0..MaxBootFaults
            BY <1>0, <1>12 DEF BootTypes, StartCore, BootFault, bootHistory
        <3>4. /\ UNCHANGED <<staging, dir, current, previous, best, old, crashes>>
              /\ runningCore' = current /\ phase' \in PCs
            BY <1>12, Zenon DEF StartCore, PCs
        <3> QED BY <3>1, <3>2, <3>3, <3>4, <1>0, Zenon DEF BootTypes
    <2>2. Loop'
        BY <1>0, <1>12, ZenonT(30) DEF BootTypes, Loop, Bits, NoCore, StartCore, BootFault,
           bootDisk, bootLocals,
           bootHistory, BitsOf
    <2>3. ASSUME ~restaged' PROVE Tree'
        BY <1>0, <1>12, <2>3, SMTT(20) DEF BootTypes, Loop, Tree, CurrentBoots, Bits, NoCore,
           StartCore,
           BootFault, bootDisk, bootLocals, bootHistory, BitsOf
    <2> QED BY <2>1, <2>2, <2>3, Zenon DEF Inv
<1>13. CASE NoBinary
    <2>1. BootTypes'
        <3>1. {current, previous, best, old, runningCore}' \subseteq Versions \cup {NoCore}
            BY <1>0, <1>13, Zenon DEF BootTypes, NoBinary, Fresh, bootDisk
        <3>2. up' \in BOOLEAN /\ phase' \in PCs
            BY <1>13, Zenon DEF NoBinary, Fresh, PCs
        <3>3. crashes' \in 0..RevertThreshold
            BY <1>13 DEF NoBinary, Fresh
        <3>4. deaths' \in 0..MaxDeaths
            BY <1>0, <1>13, ZenonT(30) DEF BootTypes, NoBinary, bootHistory
        <3>5. UNCHANGED <<staging, dir, ready, restaged, staged, bootFaults>>
            BY <1>13, ZenonT(30) DEF NoBinary, bootDisk, bootHistory
        <3> QED BY <3>1, <3>2, <3>3, <3>4, <3>5, <1>0, ZenonT(30) DEF BootTypes
    <2>2. Loop'
        BY <1>0, <1>13 DEF BootTypes, Loop, Bits, NoCore, NoBinary, bootDisk, bootLocals,
           bootHistory,
           Fresh, BitsOf
    <2>3. ASSUME ~restaged' PROVE Tree'
        BY <1>0, <1>13, <2>3, Zenon DEF BootTypes, Loop, Tree, CurrentBoots, Bits, NoCore, NoBinary,
           bootDisk, bootLocals, bootHistory, Fresh
    <2> QED BY <2>1, <2>2, <2>3, Zenon DEF Inv
<1>14. CASE Revert
    <2>1. BootTypes'
        BY <1>0, <1>14, SMTT(20) DEF BootTypes, Loop, PCs, Bits, NoCore, Revert, bootDisk,
           bootLocals, bootHistory,
           Revertible
    <2>2. Loop'
        BY <1>0, <1>14 DEF BootTypes, Loop, Bits, NoCore, Revert, bootDisk, bootLocals, bootHistory,
           Revertible, BitsOf
    <2>3. ASSUME ~restaged' PROVE Tree'
        BY <1>0, <1>14, <2>3, Zenon DEF BootTypes, Loop, Tree, CurrentBoots, Bits, NoCore, Revert,
           bootDisk, bootLocals, bootHistory, Revertible
    <2> QED BY <2>1, <2>2, <2>3, ZenonT(30) DEF Inv
<1>15. CASE RecordBad
    <2>1. BootTypes'
        BY <1>0, <1>15, SMTT(20) DEF BootTypes, Loop, PCs, Bits, NoCore, RecordBad, BootFault,
           bootDisk, bootLocals,
           bootHistory
    <2>2. Loop'
        BY <1>0, <1>15, Zenon DEF BootTypes, Loop, Bits, NoCore, RecordBad, BootFault, bootDisk,
           bootLocals,
           bootHistory, BitsOf
    <2>3. ASSUME ~restaged' PROVE Tree'
        BY <1>0, <1>15, <2>3, Zenon DEF BootTypes, Loop, Tree, CurrentBoots, Bits, NoCore,
           RecordBad,
           BootFault, bootDisk, bootLocals, bootHistory
    <2> QED BY <2>1, <2>2, <2>3, ZenonT(30) DEF Inv
<1>16. CASE CannotRevert
    <2>1. BootTypes'
        BY <1>0, <1>16, SMTT(20) DEF BootTypes, Loop, PCs, Bits, NoCore, CannotRevert, BootFault,
           bootDisk,
           bootLocals, bootHistory, Revertible
    <2>2. Loop'
        BY <1>0, <1>16, SMTT(20) DEF BootTypes, Loop, Bits, NoCore, CannotRevert, BootFault,
           bootDisk, bootLocals,
           bootHistory, Revertible, BitsOf
    <2>3. ASSUME ~restaged' PROVE Tree'
        BY <1>0, <1>16, <2>3, Zenon DEF BootTypes, Loop, Tree, CurrentBoots, Bits, NoCore,
           CannotRevert, BootFault, bootDisk, bootLocals, bootHistory, Revertible
    <2> QED BY <2>1, <2>2, <2>3, ZenonT(30) DEF Inv
<1>17. CASE CoreExits
    <2>0. /\ phase = "run" /\ UNCHANGED <<bootDisk, best, old, runningCore, up, bootHistory>>
          /\ crashes' = IF Proven THEN 0 ELSE crashes + 1
          /\ phase' = IF crashes' >= RevertThreshold THEN "revert" ELSE "promote"
        BY <1>17, Zenon DEF CoreExits, AtThreshold, Proven
    <2>a. crashes \in 0..RevertThreshold /\ crashes < RevertThreshold
        BY <1>0, <2>0, Zenon DEF BootTypes, Loop
    <2>b. /\ crashes' \in 0..RevertThreshold /\ phase' \in PCs
          /\ phase' # "revert" => crashes' < RevertThreshold
          /\ phase' \in {"promote", "revert"}
        BY <2>0, <2>a DEF PCs
    <2>1. BootTypes'
        BY <1>0, <2>0, <2>b, Zenon DEF BootTypes, bootDisk, bootHistory
    <2>2. Loop'
        <3>1. runningCore' = runningCore /\ runningCore = current
            BY <1>0, <2>0, Zenon DEF Loop
        <3>3. runningCore' \in Versions \cup {NoCore} /\ runningCore' = current'
            BY <1>0, <2>0, <3>1, Zenon DEF BootTypes, bootDisk
        <3>4. phase' \notin {"rename", "current"}
            BY <2>b, Zenon
        <3> QED BY <2>b, <3>1, <3>3, <3>4, Zenon DEF Loop
    <2>3. ASSUME ~restaged' PROVE Tree'
        BY <1>0, <1>17, <2>3, Zenon DEF BootTypes, Loop, Tree, CurrentBoots, Bits, NoCore,
           CoreExits,
           bootDisk, bootLocals, bootHistory, AtThreshold, Proven, BitsOf
    <2> QED BY <2>1, <2>2, <2>3, ZenonT(30) DEF Inv
<1>18. CASE SignalReady
    <2>1. BootTypes'
        BY <1>0, <1>18, Zenon DEF BootTypes, Loop, PCs, Bits, NoCore, SignalReady, bootDisk,
           bootLocals,
           bootHistory, BitsOf
    <2>2. Loop'
        BY <1>0, <1>18, Zenon DEF BootTypes, Loop, Bits, NoCore, SignalReady, bootDisk,
           bootLocals, bootHistory,
           BitsOf
    <2>3. ASSUME ~restaged' PROVE Tree'
        BY <1>0, <1>18, <2>3, Zenon DEF BootTypes, Loop, Tree, CurrentBoots, Bits, NoCore,
           SignalReady,
           bootDisk, bootLocals, bootHistory, BitsOf
    <2> QED BY <2>1, <2>2, <2>3, Zenon DEF Inv
<1>19. CASE StaysUp
    <2>1. BootTypes'
        BY <1>0, <1>19, Zenon DEF BootTypes, Loop, PCs, Bits, NoCore, StaysUp, bootDisk,
           bootLocals, bootHistory,
           BitsOf
    <2>2. Loop'
        BY <1>0, <1>19, Zenon DEF BootTypes, Loop, Bits, NoCore, StaysUp, bootDisk, bootLocals,
           bootHistory, BitsOf
    <2>3. ASSUME ~restaged' PROVE Tree'
        BY <1>0, <1>19, <2>3, Zenon DEF BootTypes, Loop, Tree, CurrentBoots, Bits, NoCore, StaysUp,
           bootDisk, bootLocals, bootHistory, BitsOf
    <2> QED BY <2>1, <2>2, <2>3, Zenon DEF Inv
<1>20. CASE Die
    <2>1. BootTypes'
        <3>1. {current, previous, best, old, runningCore}' \subseteq Versions \cup {NoCore}
            BY <1>0, <1>20, Zenon DEF BootTypes, Die, Fresh, bootDisk
        <3>2. up' \in BOOLEAN /\ phase' \in PCs
            BY <1>20, Zenon DEF Die, Fresh, PCs
        <3>3. crashes' \in 0..RevertThreshold
            BY <1>20, SMTT(20) DEF Die, Fresh
        <3>4. deaths' \in 0..MaxDeaths
            BY <1>0, <1>20, SMTT(20) DEF BootTypes, Die, bootHistory
        <3>5. UNCHANGED <<staging, dir, ready, restaged, staged, bootFaults>>
            BY <1>20, ZenonT(30) DEF Die, bootDisk, bootHistory
        <3> QED BY <3>1, <3>2, <3>3, <3>4, <3>5, <1>0, ZenonT(30) DEF BootTypes
    <2>2. Loop'
        BY <1>20, SMTT(20) DEF Loop, Die, Fresh
    <2>3. ASSUME ~restaged' PROVE Tree'
        BY <1>0, <1>20, <2>3, ZenonT(30) DEF BootTypes, Loop, Tree, CurrentBoots, Bits, NoCore, Die,
           bootDisk,
           bootLocals, bootHistory, Fresh
    <2> QED BY <2>1, <2>2, <2>3, Zenon DEF Inv
<1> QED BY <1>1, <1>2, <1>3, <1>4, <1>5, <1>6, <1>7, <1>8, <1>9, <1>10, <1>11, <1>12,
    <1>13, <1>14, <1>15, <1>16, <1>17, <1>18, <1>19, <1>20, ZenonT(30) DEF PromoteStep, RunStep

\* The invariant is about the variables only.
LEMMA UnchangedInv == Inv /\ UNCHANGED bootVars => Inv'
BY DEF bootVars, bootDisk, bootLocals, bootHistory, Inv, BootTypes, Loop, Tree, CurrentBoots, BitsOf

\* The invariance of Inv.
LEMMA Invariance == BootSpec => []Inv
<1>1. Inv /\ [BootNext]_bootVars => Inv'
    BY StageInv, LoopInv, UnchangedInv, Zenon DEF BootNext
<1> QED BY <1>1, InitInv, PTL DEF BootSpec

\* A step that leaves the runs alone, and does not start or judge one.
LEMMA EarnedFramed ==
    ASSUME Earned, UNCHANGED <<verifier, proved, early, crashes>>,
           phase' \notin {"run", "revert"}
    PROVE  Earned'
BY Zenon DEF Earned

\* The exit of core: an early one is one more of the runs without proof.
LEMMA EarnedAtExit ==
    ASSUME Inv, Earned, CoreExits
    PROVE  Earned'
<1> USE WeavebootAssumption
<1>1. /\ phase = "run" /\ proved' = proved /\ verifier' = verifier
      /\ crashes' = IF Proven THEN 0 ELSE crashes + 1
      /\ phase' = IF crashes' >= RevertThreshold THEN "revert" ELSE "promote"
      /\ early' = IF proved THEN 0 ELSE IF early < RevertThreshold THEN early + 1 ELSE early
    BY Zenon DEF CoreExits, AtThreshold, EarlyRuns, bootHistory
<1>2. /\ proved \in BOOLEAN /\ verifier \in BOOLEAN
      /\ early \in 0..RevertThreshold /\ crashes \in 0..RevertThreshold
      /\ crashes <= early /\ crashes < RevertThreshold
      /\ proved => Proven
    BY <1>1, Zenon DEF Inv, BootTypes, Loop, Earned, Proven
<1>3. /\ early' \in 0..RevertThreshold /\ crashes' <= early'
      /\ phase' # "run"
      /\ phase' = "revert" => ~proved /\ early' = RevertThreshold
    BY <1>1, <1>2
<1> QED BY <1>1, <1>2, <1>3, Zenon DEF Earned

\* Every other step of weaveboot, and its restart.
LEMMA EarnedKept ==
    ASSUME Inv, Earned, [BootNext]_bootVars
    PROVE  Earned'
<1> USE DEF bootLocals, bootHistory, bootDisk, trial
<1>0. 0 \in 0..RevertThreshold /\ 0 <= 0 /\ \A n \in 0..RevertThreshold : 0 <= n
    BY WeavebootAssumption
<1>1. CASE PromoteStep
    <2>1. UNCHANGED <<verifier, proved, early, crashes>>
        BY <1>1, ZenonT(30) DEF PromoteStep, NothingStaged, Verified, VerifyFails, NoVerifier,
           PromoteGivesUp, RemoveOld, RenameStaged, WriteCurrent, WriteCurrentFails,
           WritePrevious, WritePreviousFails, ClearStaging, BootFault
    <2>2. phase' \notin {"run", "revert"}
        BY <1>1, ZenonT(30) DEF PromoteStep, NothingStaged, Verified, VerifyFails, NoVerifier,
           PromoteGivesUp, RemoveOld, RenameStaged, WriteCurrent, WriteCurrentFails,
           WritePrevious, WritePreviousFails, ClearStaging
    <2> QED BY <2>1, <2>2, EarnedFramed, Zenon
<1>2. CASE StartCore
    <2>1. phase' = "run" /\ proved' = FALSE /\ UNCHANGED <<verifier, early, crashes>>
        BY <1>2, Zenon DEF StartCore, BootFault
    <2> QED BY <2>1, Zenon DEF Earned
<1>3. CASE NoBinary \/ Die
    <2>1. phase' = "promote" /\ proved' = FALSE /\ early' = 0 /\ crashes' = 0 /\ verifier' = verifier
        BY <1>3, Zenon DEF NoBinary, Die, Fresh
    <2> QED BY <1>0, <2>1, Zenon DEF Earned
<1>4. CASE Revert \/ CannotRevert
    <2>1. /\ phase' \in {"swap", "promote"} /\ crashes' = 0
          /\ UNCHANGED <<verifier, proved, early>>
        BY <1>4, Zenon DEF Revert, CannotRevert, BootFault
    <2>2. early \in 0..RevertThreshold
        BY Zenon DEF Earned
    <2> QED BY <1>0, <2>1, <2>2, Zenon DEF Earned
<1>5. CASE RecordBad
    <2>1. phase' = "promote" /\ UNCHANGED <<verifier, proved, early, crashes>>
        BY <1>5, Zenon DEF RecordBad, BootFault
    <2> QED BY <2>1, EarnedFramed, Zenon
<1>6. CASE SignalReady
    <2>1. /\ phase = "run" /\ phase' = phase /\ ready' = TRUE /\ proved' = TRUE
          /\ UNCHANGED <<verifier, early, crashes>>
        BY <1>6, Zenon DEF SignalReady
    <2> QED BY <2>1, Zenon DEF Earned
<1>7. CASE StaysUp
    <2>1. /\ phase = "run" /\ phase' = phase /\ up' = TRUE /\ proved' = TRUE
          /\ UNCHANGED <<verifier, early, crashes>>
        BY <1>7, Zenon DEF StaysUp
    <2> QED BY <2>1, Zenon DEF Earned
<1>8. CASE UNCHANGED bootVars \/ \E v \in Versions : Stage(v)
    <2>1. UNCHANGED <<phase, ready, up, verifier, proved, early, crashes>>
        BY <1>8, Zenon DEF bootVars, Stage
    <2> QED BY <2>1, Zenon DEF Earned
<1> QED BY <1>1, <1>2, <1>3, <1>4, <1>5, <1>6, <1>7, <1>8, EarnedAtExit, Zenon DEF BootNext, RunStep

\* The invariance of both.
LEMMA EarnedAlways == BootSpec => [](Inv /\ Earned)
<1>1. BootInit => Earned
    <2>1. 0 \in 0..RevertThreshold /\ 0 <= 0
        BY WeavebootAssumption
    <2> QED BY <2>1, Zenon DEF BootInit, Earned
<1>2. Inv /\ Earned /\ [BootNext]_bootVars => Earned'
    BY EarnedKept, Zenon
<1> QED BY <1>1, <1>2, Invariance, PTL DEF BootSpec

\* Every variable keeps its range; the crash count stays within the threshold.
THEOREM TypeCorrect == BootSpec => []BootTypeOK
<1>1. Inv /\ Earned => BootTypeOK
    BY Zenon DEF Inv, Earned, BootTypes, BootTypeOK
<1> QED BY <1>1, EarnedAlways, PTL

\* Until an installed version is staged again, current always names a core
\* that is there, wherever weaveboot dies and whichever file operation fails.
THEOREM NeverStranded == BootSpec => []CurrentBoots
<1>1. Inv => CurrentBoots
    BY Zenon DEF Inv, Tree, CurrentBoots
<1> QED BY <1>1, Invariance, PTL

\* A revert leaves the version that has just exited, and only after as many
\* runs in a row as the threshold says that neither signalled readiness nor
\* stayed up: runs that did are never among them, whatever marker was left.
THEOREM RevertAlwaysEarned == BootSpec => RevertIsEarned
<1>1. Inv /\ Earned => (current' # current /\ phase = "revert" =>
                          runningCore = current /\ ~proved /\ early = RevertThreshold)
    BY Zenon DEF Inv, Loop, Earned
<1>2. Inv /\ Earned => [current' # current /\ phase = "revert" =>
                          runningCore = current /\ ~proved /\ early = RevertThreshold]_bootVars
    BY <1>1, Zenon
<1> QED BY <1>2, EarnedAlways, PTL DEF RevertIsEarned

-----------------------------------------------------------------------------
(* The pick among the staged cores.                                        *)

AllNumeric(v) == \A i \in 1..Len(v) : Numeric(v[i])

\* What was seen so far is at most the best.
ScanInv ==
    /\ DOMAIN entries \in SUBSET Names /\ left \in SUBSET DOMAIN entries
    /\ top = NoVersion \/ top \in DOMAIN entries
    /\ \A v \in DOMAIN entries \ left : entries[v] =>
          /\ top # NoVersion
          /\ (\A w \in DOMAIN entries : AllNumeric(w)) => Weight(top) >= Weight(v)

\* A higher digit outweighs every lower one.
LEMMA DigitDecides ==
    ASSUME NEW W \in Nat, NEW a \in Nat, NEW b \in Nat, a > b,
           NEW c \in Nat, NEW d \in Nat, d < W
    PROVE  a * W + c > b * W + d
<1>1. PICK k \in Nat : a = b + 1 + k
    <2>1. a - b - 1 \in Nat /\ a = b + 1 + (a - b - 1)
        OBVIOUS
    <2> QED BY <2>1, Zenon
<1>2. a * W = b * W + W + k * W
    BY <1>1
<1>3. k * W \in Nat /\ b * W \in Nat
    OBVIOUS
<1> QED BY <1>2, <1>3

\* Of two dotted numeric versions the first digit that differs decides.
LEMMA WeightDecides ==
    ASSUME NEW W \in Nat,
           NEW a \in Nat, NEW b \in Nat, NEW c \in Nat, b < W, c < W,
           NEW d \in Nat, NEW e \in Nat, NEW f \in Nat, e < W, f < W
    PROVE  a * W * W + b * W + c > d * W * W + e * W + f <=>
              a > d \/ (a = d /\ (b > e \/ (b = e /\ c > f)))
<1>1. /\ a * W * W + b * W + c = (a * W + b) * W + c
      /\ d * W * W + e * W + f = (d * W + e) * W + f
    OBVIOUS
<1>2. PICK m \in Nat, n \in Nat : m = a * W + b /\ n = d * W + e
    OBVIOUS
<1>3. (m > n => m * W + c > n * W + f) /\ (n > m => n * W + f > m * W + c)
    BY DigitDecides
<1>4. m * W \in Nat /\ n * W \in Nat
    OBVIOUS
<1>5. m * W + c > n * W + f <=> m > n \/ (m = n /\ c > f)
    BY <1>3, <1>4, SMTT(20)
<1>6. (a > d => m > n) /\ (d > a => n > m)
    BY <1>2, DigitDecides, SMTT(20)
<1>7. a * W \in Nat /\ d * W \in Nat
    BY SMTT(20)
<1>8. m > n <=> a > d \/ (a = d /\ b > e)
    BY <1>2, <1>6, <1>7, SMTT(20)
<1>9. m = n <=> a = d /\ b = e
    BY <1>2, <1>6, <1>7, SMTT(20)
<1> QED BY <1>1, <1>2, <1>5, <1>8, <1>9, SMTT(20)

\* What a component weighs.
LEMMA DigitOf ==
    ASSUME NEW v \in Names, AllNumeric(v), NEW i \in 1..3
    PROVE  /\ At(v, i) \in Nat /\ At(v, i) < Width /\ (At(v, i) = 0 <=> i > Len(v))
           /\ i <= Len(v) => At(v, i) = v[i].num + 1 /\ v[i].num \in Nat
<1>1. Width \in Nat \ {0} /\ v \in Seq(Components) /\ Len(v) \in Nat
    BY SemverConstants, SMTT(20)
<1>2. CASE i <= Len(v)
    <2>1. i \in 1..Len(v) /\ v[i] \in Components
        BY <1>1, <1>2, SMTT(20)
    <2>2. v[i].num \in Nat \cup {NaN} /\ v[i].num # NaN
        BY <2>1 DEF Components, AllNumeric, Numeric
    <2>3. v[i].num + 1 < Width
        BY <2>1, <2>2, SemverConstants, ZenonT(30)
    <2>4. At(v, i) = v[i].num + 1
        BY <1>2, SMTT(20) DEF At
    <2> QED BY <1>1, <1>2, <2>2, <2>3, <2>4, SMTT(20)
<1>3. CASE ~(i <= Len(v))
    BY <1>1, <1>3, SMTT(20) DEF At
<1> QED BY <1>2, <1>3, Zenon

\* A version has at most three components.
LEMMA LengthOf ==
    ASSUME NEW v \in Names
    PROVE  Len(v) \in Nat /\ Len(v) <= 3
<1>1. v \in Seq(Components) /\ Len(v) <= 3
    BY SemverConstants, Zenon
<1> QED BY <1>1

\* higherSemver compares as the weights do.
LEMMA HigherIsHeavier ==
    ASSUME NEW a \in Names, NEW b \in Names, AllNumeric(a), AllNumeric(b)
    PROVE  /\ Weight(a) \in Nat /\ Weight(b) \in Nat
           /\ higherSemver(a, b) <=> Weight(a) > Weight(b)
<1>1. PICK m \in Nat, n \in Nat : m = Len(a) /\ n = Len(b) /\ m <= 3 /\ n <= 3
    BY LengthOf, Zenon
<1>w. Width \in Nat
    BY SemverConstants
<1>2. ASSUME NEW i \in 1..3
      PROVE  /\ At(a, i) \in Nat /\ At(a, i) < Width /\ (At(a, i) = 0 <=> i > m)
             /\ At(b, i) \in Nat /\ At(b, i) < Width /\ (At(b, i) = 0 <=> i > n)
    BY <1>1, DigitOf, Zenon
<1>3. ASSUME NEW i \in 1..3, i <= m, i <= n
      PROVE  /\ Differ(a[i], b[i]) <=> At(a, i) # At(b, i)
             /\ Above(a[i], b[i]) <=> At(a, i) > At(b, i)
    <2>1. /\ At(a, i) = a[i].num + 1 /\ a[i].num \in Nat
          /\ At(b, i) = b[i].num + 1 /\ b[i].num \in Nat
        BY <1>1, <1>3, DigitOf, Zenon
    <2>2. Numeric(a[i]) /\ Numeric(b[i])
        BY <2>1, SemverConstants, Zenon DEF Numeric
    <2>3. PICK c \in Nat, d \in Nat : c = a[i].num /\ d = b[i].num
        BY <2>1, Zenon
    <2>4. /\ Differ(a[i], b[i]) <=> c # d
          /\ Above(a[i], b[i]) <=> c > d
        BY <2>2, <2>3, Zenon DEF Differ, Above
    <2>5. At(a, i) = c + 1 /\ At(b, i) = d + 1
        BY <2>1, <2>3, Zenon
    <2>6. (c + 1 # d + 1 <=> c # d) /\ (c + 1 > d + 1 <=> c > d)
        OBVIOUS
    <2> QED BY <2>4, <2>5, <2>6, Zenon
<1>b. \A j \in 1..m : j <= n => j \in 1..3 /\ j <= m
    BY <1>1
<1>4. ASSUME NEW i \in 1..3, i <= m, i <= n, At(a, i) # At(b, i),
             \A j \in 1..3 : j < i => At(a, j) = At(b, j)
      PROVE  higherSemver(a, b) <=> At(a, i) > At(b, i)
    <2>1. i \in 1..m
        BY <1>4
    <2>2. /\ Differ(a[i], b[i])
          /\ \A j \in 1..m : j <= n /\ j < i => ~Differ(a[j], b[j])
        BY <1>b, <1>3, <1>4, Zenon
    <2>3. \A k \in 1..m : k < i \/ i < k \/ k = i
        OBVIOUS
    <2>4. Above(a[i], b[i]) <=> At(a, i) > At(b, i)
        BY <1>3, <1>4, Zenon
    <2>5. /\ i \in {k \in 1..Len(a) : k <= Len(b)}
          /\ \A j \in {k \in 1..Len(a) : k <= Len(b)} : j < i => ~Differ(a[j], b[j])
          /\ \A j \in {k \in 1..Len(a) : k <= Len(b)} : j < i \/ i < j \/ j = i
        BY <1>1, <1>4, <2>1, <2>2, <2>3, ZenonT(30)
    <2> QED BY <2>2, <2>4, <2>5, ZenonT(30) DEF higherSemver
<1>5. ASSUME \A j \in 1..3 : j <= m /\ j <= n => At(a, j) = At(b, j)
      PROVE  higherSemver(a, b) <=> m > n
    <2>1. \A j \in {k \in 1..Len(a) : k <= Len(b)} : ~Differ(a[j], b[j])
        BY <1>1, <1>b, <1>3, <1>5, ZenonT(30)
    <2> QED BY <1>1, <2>1, Zenon DEF higherSemver
<1>6. 1 \in 1..3 /\ 2 \in 1..3 /\ 3 \in 1..3 /\ \A j \in 1..3 : j = 1 \/ j = 2 \/ j = 3
    OBVIOUS
<1>p1. PICK u \in Nat, x \in Nat :
          /\ u = At(a, 1) /\ u < Width /\ (u = 0 <=> 1 > m)
          /\ x = At(b, 1) /\ x < Width /\ (x = 0 <=> 1 > n)
    BY <1>2, <1>6, Zenon
<1>p2. PICK v \in Nat, y \in Nat :
          /\ v = At(a, 2) /\ v < Width /\ (v = 0 <=> 2 > m)
          /\ y = At(b, 2) /\ y < Width /\ (y = 0 <=> 2 > n)
    BY <1>2, <1>6, Zenon
<1>p3. PICK w \in Nat, z \in Nat :
          /\ w = At(a, 3) /\ w < Width /\ (w = 0 <=> 3 > m)
          /\ z = At(b, 3) /\ z < Width /\ (z = 0 <=> 3 > n)
    BY <1>2, <1>6, Zenon
<1>7. /\ u = At(a, 1) /\ v = At(a, 2) /\ w = At(a, 3) /\ v < Width /\ w < Width
      /\ x = At(b, 1) /\ y = At(b, 2) /\ z = At(b, 3) /\ y < Width /\ z < Width
      /\ (u = 0 <=> 1 > m) /\ (v = 0 <=> 2 > m) /\ (w = 0 <=> 3 > m)
      /\ (x = 0 <=> 1 > n) /\ (y = 0 <=> 2 > n) /\ (z = 0 <=> 3 > n)
    BY <1>p1, <1>p2, <1>p3, ZenonT(30)
<1>8. /\ 1 <= m /\ 1 <= n /\ u # x => (higherSemver(a, b) <=> u > x)
      /\ 2 <= m /\ 2 <= n /\ u = x /\ v # y => (higherSemver(a, b) <=> v > y)
      /\ 3 <= m /\ 3 <= n /\ u = x /\ v = y /\ w # z => (higherSemver(a, b) <=> w > z)
    <2>1. /\ \A j \in 1..3 : j < 1 => FALSE
          /\ \A j \in 1..3 : j < 2 => j = 1
          /\ \A j \in 1..3 : j < 3 => j = 1 \/ j = 2
        OBVIOUS
    <2>2. ASSUME 1 <= m, 1 <= n, u # x PROVE higherSemver(a, b) <=> u > x
        BY <1>4, <1>6, <1>7, <2>1, <2>2, ZenonT(30)
    <2>3. ASSUME 2 <= m, 2 <= n, u = x, v # y PROVE higherSemver(a, b) <=> v > y
        BY <1>4, <1>6, <1>7, <2>1, <2>3, ZenonT(30)
    <2>4. ASSUME 3 <= m, 3 <= n, u = x, v = y, w # z PROVE higherSemver(a, b) <=> w > z
        BY <1>4, <1>6, <1>7, <2>1, <2>4, ZenonT(30)
    <2> QED BY <2>2, <2>3, <2>4, ZenonT(30)
<1>9. /\ 1 <= m /\ 1 <= n => u = x
      /\ 2 <= m /\ 2 <= n => v = y
      /\ 3 <= m /\ 3 <= n => w = z
      => (higherSemver(a, b) <=> m > n)
    BY <1>5, <1>6, <1>7, Zenon
<1>10. higherSemver(a, b) <=> u > x \/ (u = x /\ (v > y \/ (v = y /\ w > z)))
    <2>1. PICK h \in BOOLEAN : h <=> higherSemver(a, b)
        BY ZenonT(30)
    <2>2. /\ 1 <= m /\ 1 <= n /\ u # x => (h <=> u > x)
          /\ 2 <= m /\ 2 <= n /\ u = x /\ v # y => (h <=> v > y)
          /\ 3 <= m /\ 3 <= n /\ u = x /\ v = y /\ w # z => (h <=> w > z)
          /\ (/\ 1 <= m /\ 1 <= n => u = x
              /\ 2 <= m /\ 2 <= n => v = y
              /\ 3 <= m /\ 3 <= n => w = z) => (h <=> m > n)
        BY <1>8, <1>9, <2>1, Zenon
    <2>3. /\ (u = 0 <=> 1 > m) /\ (v = 0 <=> 2 > m) /\ (w = 0 <=> 3 > m)
          /\ (x = 0 <=> 1 > n) /\ (y = 0 <=> 2 > n) /\ (z = 0 <=> 3 > n)
          /\ m <= 3 /\ n <= 3
        BY <1>1, <1>7, Zenon
    <2>4. h <=> u > x \/ (u = x /\ (v > y \/ (v = y /\ w > z)))
        BY <2>2, <2>3
    <2> QED BY <2>1, <2>4, Zenon
<1>11. /\ Weight(a) = u * Width * Width + v * Width + w
       /\ Weight(b) = x * Width * Width + y * Width + z
    BY <1>7, Zenon DEF Weight
<1>12. Weight(a) \in Nat /\ Weight(b) \in Nat
    BY <1>w, <1>11
<1>13. u * Width * Width + v * Width + w > x * Width * Width + y * Width + z
          <=> u > x \/ (u = x /\ (v > y \/ (v = y /\ w > z)))
    <2>1. v < Width /\ w < Width /\ y < Width /\ z < Width
        BY <1>7, Zenon
    <2> QED BY <1>w, <2>1, WeightDecides, SMTT(20)
<1> QED BY <1>10, <1>11, <1>12, <1>13, ZenonT(30)

\* Whatever versions are staged, and whatever order the directory is read in:
\* once every entry was considered, the pick is at least as high as each
\* staged core with a binary, if all are dotted numeric.
THEOREM AlwaysPicksHighest == ScanSpec => []PicksHighest
<1>1. ScanInit => ScanInv
    <2>1. DOMAIN << >> = {}
        OBVIOUS
    <2> QED BY <2>1, Zenon DEF ScanInit, ScanInv
<1>2. ScanInv /\ [ScanNext]_scanVars => ScanInv'
    <2> SUFFICES ASSUME ScanInv, [ScanNext]_scanVars PROVE ScanInv'
        BY Zenon
    <2>1. ASSUME NEW S \in SUBSET Names, NEW e \in [S -> BOOLEAN], ReadDir(e) PROVE ScanInv'
        BY <2>1, Zenon DEF ReadDir, ScanInit, ScanInv
    <2>2. ASSUME NEW v \in left, Consider(v) PROVE ScanInv'
        <3>1. /\ left' = left \ {v} /\ entries' = entries
              /\ top' = IF entries[v] /\ (top = NoVersion \/ higherSemver(v, top)) THEN v ELSE top
            BY <2>2, Zenon DEF Consider
        <3>2. v \in DOMAIN entries /\ v \in Names /\ v # NoVersion
            BY SemverConstants, Zenon DEF ScanInv
        <3>3. ASSUME NEW w \in DOMAIN entries \ left', entries[w] PROVE top' # NoVersion
            BY <3>1, <3>2, <3>3, Zenon DEF ScanInv
        <3>4. ASSUME NEW w \in DOMAIN entries \ left', entries[w], \A x \in DOMAIN entries : AllNumeric(x)
              PROVE  Weight(top') >= Weight(w)
            <4>1. top' \in DOMAIN entries /\ w \in DOMAIN entries
                BY <3>1, <3>2, <3>3, <3>4, Zenon DEF ScanInv
            <4>2. \A x, y \in DOMAIN entries :
                      /\ Weight(x) \in Nat /\ Weight(y) \in Nat
                      /\ higherSemver(x, y) <=> Weight(x) > Weight(y)
                BY <3>4, HigherIsHeavier, Zenon DEF ScanInv
            <4>3. CASE w = v
                <5>1. CASE top' = v
                    BY <4>1, <4>2, <4>3, <5>1, SMTT(20)
                <5>2. CASE top' = top /\ ~higherSemver(v, top)
                    <6>1. Weight(v) \in Nat /\ Weight(top) \in Nat /\ ~(Weight(v) > Weight(top))
                        BY <3>2, <4>1, <4>2, <5>2, Zenon
                    <6> QED BY <4>3, <5>2, <6>1, SMTT(20)
                <5> QED BY <3>1, <3>3, <3>4, <4>3, <5>1, <5>2, ZenonT(30)
            <4>4. CASE w # v
                <5>1. top # NoVersion /\ Weight(top) >= Weight(w) /\ top \in DOMAIN entries
                    BY <3>1, <3>4, <4>4, Zenon DEF ScanInv
                <5>2. CASE top' = top
                    BY <5>1, <5>2, Zenon
                <5>3. CASE top' = v /\ higherSemver(v, top)
                    <6>1. /\ Weight(v) \in Nat /\ Weight(top) \in Nat /\ Weight(w) \in Nat
                          /\ Weight(v) > Weight(top)
                        BY <3>2, <4>1, <4>2, <5>1, <5>3, Zenon
                    <6> QED BY <5>1, <5>3, <6>1, SMTT(20)
                <5> QED BY <3>1, <5>1, <5>2, <5>3, Zenon
            <4> QED BY <4>3, <4>4, Zenon
        <3>5. top' = NoVersion \/ top' \in DOMAIN entries
            BY <3>1, <3>2, Zenon DEF ScanInv
        <3>6. ASSUME NEW w \in DOMAIN entries \ left', entries[w]
              PROVE  /\ top' # NoVersion
                     /\ (\A x \in DOMAIN entries : AllNumeric(x)) => Weight(top)' >= Weight(w)
            <4>1. Weight(top)' = Weight(top')
                BY DEF Weight, At
            <4> QED BY <3>3, <3>4, <3>6, <4>1, Zenon
        <3> QED BY <3>1, <3>5, <3>6, Zenon DEF ScanInv
    <2>3. CASE Picked
        <3>1. entries' = << >> /\ top' = NoVersion /\ left' = {}
            BY <2>3, Zenon DEF Picked
        <3>2. DOMAIN << >> = {}
            OBVIOUS
        <3> QED BY <3>1, <3>2, Zenon DEF ScanInv
    <2>4. CASE UNCHANGED scanVars
        BY <2>4, Zenon DEF ScanInv, scanVars
    <2> QED BY <2>1, <2>2, <2>3, <2>4, Zenon DEF ScanNext
<1>3. ScanInv => PicksHighest
    BY Zenon DEF ScanInv, PicksHighest, AllNumeric
<1> QED BY <1>1, <1>2, <1>3, PTL DEF ScanSpec

-----------------------------------------------------------------------------
(* One launch: the token, the account, the socket and the line.            *)

Before == {"idle", "prepare", "privilege", "exec"}
Running == {"line", "init", "started"}

\* What a launch holds at each of its steps: its process number is free until
\* the process runs, and then the process is neither awaited nor left.
LaunchShape ==
    /\ euid \in {0, CoreUid} /\ account \in Accounts \cup {NoOne}
    /\ step \in Before \cup Running
    /\ cred \in Uids /\ dirOwner \in Uids
    /\ process \in [Processes -> {"up", "left", "gone"}] /\ uid \in [Processes -> Uids]
    /\ env \in [Processes -> Tokens \cup {NoOne}]
    /\ step # "idle" => launched \in Processes /\ host \in Endpoints
    /\ step \in Before \ {"idle"} => process[launched] = "gone"
    /\ step \in Running => process[launched] = "up" /\ uid[launched] = cred

\* The uid core wants for the module, at this moment.
Wanted == IF drops THEN account ELSE euid

\* What the three looks at the account leave behind, if they saw the same.
Agreed ==
    /\ step = "prepare" => dirOwner = euid /\ host.owner = euid
    /\ step \in {"prepare", "privilege"} => host.allowed = authorizeModulePeer
    /\ step = "privilege" => dirOwner = Wanted /\ host.owner = Wanted
    /\ step \in {"exec"} \cup Running =>
          dirOwner = cred /\ host.owner = cred /\ cred \in host.allowed

Granted == mf.privilege = "system" /\ mf.session = "system"

RootOnlyIfGranted ==
    /\ \A p \in Processes : uid[p] = 0 => Granted
    /\ step = "exec" /\ cred = 0 => Granted

\* The line so far: until it is reported the buffer and what is still to be
\* written are what the process says.
LineInv ==
    /\ said \in Texts /\ stdout \in Texts /\ buf \in Texts
    /\ step \notin Running => line = NoOne /\ buf = << >>
    /\ step \notin {"init", "started"} => heard = NoOne
    /\ step = "line" /\ line = NoOne => said = buf \o stdout
    /\ line # NoOne =>
          line = FirstLine(said) \/ (line = << >> /\ Len(FirstLine(said)) > MaxLine)
    /\ heard # NoOne => heard = Parse(FirstLine(said))

\* The token of the host services is in the environment of the process
\* launched for them, once it runs, and in no other.
TokensApart ==
    /\ step = "idle" => host = NoOne
    /\ step \in Before \ {"idle"} => \A p \in Processes : env[p] # host.token
    /\ step \in Running =>
          /\ env[launched] = host.token
          /\ \A p \in Processes \ {launched} : env[p] # host.token

LaunchInv == LaunchShape /\ (steady => Agreed) /\ RootOnlyIfGranted /\ LineInv /\ TokensApart

\* Sets of numbers have a least member.
LEMMA LeastNat ==
    ASSUME NEW S \in SUBSET Nat, S # {}
    PROVE  \E n \in S : \A m \in S : n <= m
<1> DEFINE R == {pair \in Nat \X Nat : pair[1] < pair[2]}
<1>1. IsWellFoundedOn(R, Nat)
    BY NatLessThanWellFounded, Zenon DEF OpToRel
<1>2. PICK n \in S : \A m \in S : ~(<<m, n>> \in R)
    <2> HIDE DEF R
    <2> QED BY <1>1, WFMin, Zenon
<1>3. ASSUME NEW m \in S PROVE n <= m
    <2>1. m \in Nat /\ n \in Nat /\ <<m, n>> \notin R
        BY <1>2, Zenon
    <2> QED BY <2>1
<1> QED BY <1>3, Zenon

\* Concatenation is associative.
LEMMA TextsAssociate ==
    ASSUME NEW a \in Texts, NEW b \in Texts, NEW c \in Texts
    PROVE  (a \o b) \o c = a \o (b \o c)
BY ConcatAssociative, SMTT(20) DEF Texts

\* The first line of a text with a line end before which there is none.
LEMMA FirstLineEnds ==
    ASSUME NEW text \in Texts, NEW n \in 1..Len(text), text[n] = EOL,
           \A j \in 1..(n - 1) : text[j] # EOL
    PROVE  FirstLine(text) = SubSeq(text, 1, n - 1)
<1> DEFINE ends == {i \in 1..Len(text) : text[i] = EOL}
<1>0. Len(text) \in Nat
    BY DEF Texts
<1>1. n \in ends /\ \A j \in ends : n <= j
    BY <1>0
<1>2. \A m \in ends : (\A j \in ends : m <= j) => m = n
    BY <1>0, <1>1
<1>3. (CHOOSE i \in ends : \A j \in ends : i <= j) = n
    <2> HIDE DEF ends
    <2> QED BY <1>1, <1>2, Zenon
<1>4. ends # {}
    BY <1>1, Zenon
<1> QED BY <1>3, <1>4, Zenon DEF FirstLine

\* A complete text has a first line end.
LEMMA FirstEnd ==
    ASSUME NEW text \in Texts, Complete(text)
    PROVE  \E n \in 1..Len(text) : text[n] = EOL /\ \A j \in 1..(n - 1) : text[j] # EOL
<1> DEFINE ends == {i \in 1..Len(text) : text[i] = EOL}
<1>0. Len(text) \in Nat
    BY DEF Texts
<1>1. ends \in SUBSET Nat /\ ends # {}
    BY <1>0 DEF Complete
<1>2. PICK n \in ends : \A m \in ends : n <= m
    <2> HIDE DEF ends
    <2> QED BY <1>1, LeastNat, Zenon
<1>3. n \in 1..Len(text) /\ text[n] = EOL
    BY <1>2, Zenon
<1>4. \A j \in 1..(n - 1) : text[j] # EOL
    BY <1>0, <1>2, <1>3, SMTT(20)
<1> QED BY <1>3, <1>4, Zenon

\* What follows a complete line does not change the first one.
LEMMA FirstLineOfPrefix ==
    ASSUME NEW a \in Texts, NEW b \in Texts, Complete(a)
    PROVE  FirstLine(a \o b) = FirstLine(a)
<1>0. /\ a \o b \in Texts /\ Len(a \o b) = Len(a) + Len(b) /\ Len(a) \in Nat /\ Len(b) \in Nat
      /\ \A i \in 1..Len(a) : (a \o b)[i] = a[i]
    BY DEF Texts
<1>1. PICK n \in 1..Len(a) : a[n] = EOL /\ \A j \in 1..(n - 1) : a[j] # EOL
    BY FirstEnd, Zenon
<1>2. FirstLine(a) = SubSeq(a, 1, n - 1)
    BY <1>1, FirstLineEnds, Zenon
<1>3. n \in 1..Len(a \o b)
    BY <1>0, SMTT(20)
<1>4. (a \o b)[n] = EOL /\ \A j \in 1..(n - 1) : (a \o b)[j] # EOL
    BY <1>0, <1>1
<1>5. FirstLine(a \o b) = SubSeq(a \o b, 1, n - 1)
    BY <1>0, <1>3, <1>4, FirstLineEnds, ZenonT(30)
<1>6. SubSeq(a \o b, 1, n - 1) = SubSeq(a, 1, n - 1)
    BY <1>0, <1>1 DEF Texts
<1> QED BY <1>2, <1>5, <1>6, Zenon

\* Nor is the first line shorter than a beginning of the text without an end.
LEMMA FirstLineIsLong ==
    ASSUME NEW a \in Texts, NEW b \in Texts, ~Complete(a)
    PROVE  Len(FirstLine(a \o b)) >= Len(a)
<1>0. /\ a \o b \in Texts /\ Len(a \o b) = Len(a) + Len(b) /\ Len(a) \in Nat /\ Len(b) \in Nat
      /\ \A i \in 1..Len(a) : (a \o b)[i] = a[i]
    BY DEF Texts
<1>1. CASE ~Complete(a \o b)
    <2>1. FirstLine(a \o b) = a \o b
        BY <1>1, Zenon DEF FirstLine, Complete
    <2> QED BY <1>0, <2>1
<1>2. CASE Complete(a \o b)
    <2>1. PICK n \in 1..Len(a \o b) :
             (a \o b)[n] = EOL /\ \A j \in 1..(n - 1) : (a \o b)[j] # EOL
        BY <1>0, <1>2, FirstEnd, Zenon
    <2>2. FirstLine(a \o b) = SubSeq(a \o b, 1, n - 1)
        BY <1>0, <2>1, FirstLineEnds, Zenon
    <2>3. n \in Nat /\ n > Len(a) /\ n <= Len(a \o b)
        BY <1>0, <2>1, SMTT(20) DEF Complete
    <2>4. Len(SubSeq(a \o b, 1, n - 1)) = n - 1
        BY <1>0, <2>3 DEF Texts
    <2> QED BY <1>0, <2>2, <2>3, <2>4, SMTT(20)
<1> QED BY <1>1, <1>2, Zenon

\* A write takes its text off the front of what is still to be written.
LEMMA WriteCuts ==
    ASSUME NEW n \in 1..Len(stdout), stdout \in Texts, buf \in Texts
    PROVE  /\ SubSeq(stdout, 1, n) \in Texts /\ SubSeq(stdout, n + 1, Len(stdout)) \in Texts
           /\ buf \o SubSeq(stdout, 1, n) \in Texts
           /\ (buf \o SubSeq(stdout, 1, n)) \o SubSeq(stdout, n + 1, Len(stdout))
                 = buf \o stdout
<1>0. Len(stdout) \in Nat /\ n \in Nat /\ n <= Len(stdout)
    BY DEF Texts
<1>1. SubSeq(stdout, 1, n) \in Texts /\ SubSeq(stdout, n + 1, Len(stdout)) \in Texts
    BY <1>0 DEF Texts
<1>2. buf \o SubSeq(stdout, 1, n) \in Texts
    BY <1>1 DEF Texts
<1>3. SubSeq(stdout, 1, n) \o SubSeq(stdout, n + 1, Len(stdout)) = stdout
    <2>1. SubSeq(stdout, 1, n) \o SubSeq(stdout, n + 1, Len(stdout)) = SubSeq(stdout, 1, Len(stdout))
        BY <1>0, ConcatAdjacentSubSeq DEF Texts
    <2> QED BY <2>1, SubSeqFull, Zenon DEF Texts
<1>4. (buf \o SubSeq(stdout, 1, n)) \o SubSeq(stdout, n + 1, Len(stdout))
         = buf \o (SubSeq(stdout, 1, n) \o SubSeq(stdout, n + 1, Len(stdout)))
    BY <1>1, TextsAssociate, ZenonT(30)
<1> QED BY <1>1, <1>2, <1>3, <1>4, Zenon

\* Every step keeps what a launch holds.
LEMMA ShapeKept ==
    ASSUME LaunchInv, LaunchNext
    PROVE  LaunchShape'
<1> USE DEF LaunchInv, LaunchShape, Before, Running, fixed, sockets, processes, capture
<1>1. CASE Prepare
    <2>1. /\ step = "prepare" /\ step' = "privilege"
          /\ UNCHANGED <<mf, euid, account, launched, cred, process, uid, env>>
        BY <1>1, Zenon DEF Prepare
    <2>2. \/ dirOwner' = dirOwner /\ host' = host
          \/ dirOwner' = account /\ host' = [host EXCEPT !.owner = account] /\ account # NoOne
        BY <1>1, Zenon DEF Prepare, prepareSocketDir, drops, dropFails
    <2>3. host' \in Endpoints /\ dirOwner' \in Uids
        BY <2>1, <2>2 DEF Endpoints, Uids
    <2> QED BY <2>1, <2>3, Zenon
<1>2. CASE Privilege
    BY <1>2, Zenon DEF Privilege, applyPrivilege, Uids, drops
<1>3. CASE Exec
    <2>1. /\ step = "exec" /\ step' = "line" /\ launched \in Processes /\ host \in Endpoints
          /\ UNCHANGED <<mf, euid, account, launched, cred, dirOwner, host>>
          /\ process' = [process EXCEPT ![launched] = "up"]
          /\ uid' = [uid EXCEPT ![launched] = cred]
          /\ env' = [env EXCEPT ![launched] = host.token]
        BY <1>3, Zenon DEF Exec
    <2>2. host.token \in Tokens \cup {NoOne}
        BY <2>1 DEF Endpoints
    <2>3. /\ process' \in [Processes -> {"up", "left", "gone"}] /\ process'[launched] = "up"
          /\ uid' \in [Processes -> Uids] /\ uid'[launched] = cred
          /\ env' \in [Processes -> Tokens \cup {NoOne}]
        BY <2>1, <2>2, Zenon
    <2> QED BY <2>1, <2>3, Zenon
<1>4. CASE Answer
    BY <1>4, Zenon DEF Answer
<1>5. CASE InitAndStart
    BY <1>5, Zenon DEF InitAndStart
<1>6. CASE NotLaunched
    BY <1>6, Zenon DEF NotLaunched, Abandon, Uids
<1>7. CASE cleanupProc
    BY <1>7, Zenon DEF cleanupProc, Abandon, Uids
<1>8. CASE Exited
    BY <1>8, Zenon DEF Exited, Abandon, Uids
<1>9. CASE SweepOrphans
    BY <1>9, Zenon DEF SweepOrphans, Abandon, Uids
<1>10. CASE ChangeAccount
    BY <1>10, Zenon DEF ChangeAccount
<1>11. ASSUME NEW n \in 1..Len(stdout), Write(n) PROVE LaunchShape'
    BY <1>11, Zenon DEF Write
<1>12. ASSUME NEW p \in Processes, NEW token \in Tokens, ListenAuthorized(p, token)
       PROVE  LaunchShape'
    <2>1. euid \in Uids /\ account \in Uids /\ 0 \in Uids
        BY Zenon DEF Uids
    <2>2. authorizeModulePeer \in SUBSET Uids
        BY <2>1, Zenon DEF authorizeModulePeer
    <2>3. host' \in Endpoints
        BY <1>12, <2>1, <2>2, ZenonT(30) DEF ListenAuthorized, Endpoints
    <2> QED BY <1>12, <2>1, <2>3, Zenon DEF ListenAuthorized
<1>13. ASSUME NEW p \in Processes, Reap(p) PROVE LaunchShape'
    BY <1>13, ZenonT(30) DEF Reap, Uids
<1> QED BY <1>1, <1>2, <1>3, <1>4, <1>5, <1>6, <1>7, <1>8, <1>9, <1>10, <1>11, <1>12, <1>13,
           Zenon DEF LaunchNext

\* If the account did not change, the three looks at it agree.
LEMMA AgreedKept ==
    ASSUME LaunchInv, LaunchNext
    PROVE  (steady => Agreed)'
<1> USE DEF LaunchInv, Agreed, Running, fixed, sockets, processes, capture
<1>1. CASE Prepare
    BY <1>1, Zenon DEF Prepare, prepareSocketDir, LaunchShape, Wanted, drops, dropFails,
       authorizeModulePeer, Endpoints
<1>2. CASE Privilege
    BY <1>2, Zenon DEF Privilege, applyPrivilege, Wanted, drops, dropFails, authorizeModulePeer
<1>3. CASE Exec
    BY <1>3, Zenon DEF Exec, Wanted, authorizeModulePeer, drops, dropFails
<1>4. CASE Answer
    BY <1>4, Zenon DEF Answer, Wanted, authorizeModulePeer, drops, dropFails
<1>5. CASE InitAndStart
    BY <1>5, Zenon DEF InitAndStart, Wanted, authorizeModulePeer, drops, dropFails
<1>6. CASE NotLaunched
    BY <1>6, Zenon DEF NotLaunched, Abandon, Wanted, authorizeModulePeer, drops, dropFails
<1>7. CASE cleanupProc
    BY <1>7, Zenon DEF cleanupProc, Abandon, Wanted, authorizeModulePeer, drops, dropFails
<1>8. CASE Exited
    BY <1>8, Zenon DEF Exited, Abandon, Wanted, authorizeModulePeer, drops, dropFails
<1>9. CASE SweepOrphans
    BY <1>9, Zenon DEF SweepOrphans, Abandon, Wanted, authorizeModulePeer, drops, dropFails
<1>10. CASE ChangeAccount
    BY <1>10, Zenon DEF ChangeAccount, Wanted, authorizeModulePeer, drops, dropFails
<1>11. ASSUME NEW n \in 1..Len(stdout), Write(n) PROVE (steady => Agreed)'
    BY <1>11, Zenon DEF Write, Wanted, authorizeModulePeer, drops, dropFails
<1>12. ASSUME NEW p \in Processes, NEW token \in Tokens, ListenAuthorized(p, token)
       PROVE  (steady => Agreed)'
    BY <1>12, Zenon DEF ListenAuthorized, LaunchShape, authorizeModulePeer, drops, dropFails
<1>13. ASSUME NEW p \in Processes, Reap(p) PROVE (steady => Agreed)'
    BY <1>13, Zenon DEF Reap, Wanted, authorizeModulePeer, drops, dropFails
<1> QED BY <1>1, <1>2, <1>3, <1>4, <1>5, <1>6, <1>7, <1>8, <1>9, <1>10, <1>11, <1>12, <1>13,
           ZenonT(30) DEF LaunchNext

\* Every step keeps root to the modules granted it.
LEMMA RootKept ==
    ASSUME LaunchInv, LaunchNext
    PROVE  RootOnlyIfGranted'
<1> USE DEF LaunchInv, RootOnlyIfGranted, Granted, LaunchShape, Before, Running, fixed, sockets,
       processes, capture
<1>1. CASE Prepare
    BY <1>1, Zenon DEF Prepare, prepareSocketDir
<1>2. CASE Privilege
    BY <1>2, LaunchAssumption, Zenon DEF Privilege, applyPrivilege, drops, dropFails
<1>3. CASE Exec
    BY <1>3, Zenon DEF Exec
<1>4. CASE Answer
    BY <1>4, Zenon DEF Answer
<1>5. CASE InitAndStart
    BY <1>5, Zenon DEF InitAndStart
<1>6. CASE NotLaunched
    BY <1>6, Zenon DEF NotLaunched, Abandon
<1>7. CASE cleanupProc
    BY <1>7, Zenon DEF cleanupProc, Abandon
<1>8. CASE Exited
    BY <1>8, LaunchAssumption, Zenon DEF Exited, Abandon
<1>9. CASE SweepOrphans
    BY <1>9, Zenon DEF SweepOrphans, Abandon
<1>10. CASE ChangeAccount
    BY <1>10, Zenon DEF ChangeAccount
<1>11. ASSUME NEW n \in 1..Len(stdout), Write(n) PROVE RootOnlyIfGranted'
    BY <1>11, Zenon DEF Write
<1>12. ASSUME NEW p \in Processes, NEW token \in Tokens, ListenAuthorized(p, token)
       PROVE  RootOnlyIfGranted'
    BY <1>12, Zenon DEF ListenAuthorized
<1>13. ASSUME NEW p \in Processes, Reap(p) PROVE RootOnlyIfGranted'
    BY <1>13, LaunchAssumption, Zenon DEF Reap
<1> QED BY <1>1, <1>2, <1>3, <1>4, <1>5, <1>6, <1>7, <1>8, <1>9, <1>10, <1>11, <1>12, <1>13,
           ZenonT(30) DEF LaunchNext

\* A step that keeps the host services and the environments.
LEMMA TokensFramed ==
    ASSUME LaunchInv, UNCHANGED <<launched, env, host>>,
           step' = step \/ (step \in Before \ {"idle"} /\ step' \in Before \ {"idle"})
             \/ (step \in Running /\ step' \in Running)
    PROVE  TokensApart'
BY Zenon DEF LaunchInv, TokensApart, Before, Running

\* A step that ends a launch takes its host services down.
LEMMA TokensDropped == ASSUME Abandon PROVE TokensApart'
BY Zenon DEF Abandon, TokensApart, Before, Running

\* Every step keeps the token to the process it was drawn for.
LEMMA TokensKept ==
    ASSUME LaunchInv, LaunchNext
    PROVE  TokensApart'
<1> USE DEF fixed, sockets, processes, capture
<1>1. CASE Prepare
    <2>1. step = "prepare" /\ step' = "privilege" /\ UNCHANGED <<launched, env>>
        BY <1>1, Zenon DEF Prepare
    <2>2. host'.token = host.token
        <3>1. host \in Endpoints
            BY <2>1, Zenon DEF LaunchInv, LaunchShape
        <3>2. host' = host \/ host' = [host EXCEPT !.owner = account]
            BY <1>1, Zenon DEF Prepare, prepareSocketDir
        <3> QED BY <3>1, <3>2, Zenon DEF Endpoints
    <2> QED BY <2>1, <2>2, Zenon DEF LaunchInv, TokensApart, Before, Running
<1>2. CASE Privilege
    BY <1>2, TokensFramed, Zenon DEF Privilege, Before, Running
<1>3. CASE Exec
    <2>1. /\ step = "exec" /\ step' = "line" /\ UNCHANGED <<launched, host>>
          /\ env' = [env EXCEPT ![launched] = host.token]
        BY <1>3, Zenon DEF Exec
    <2>2. launched \in Processes /\ env \in [Processes -> Tokens \cup {NoOne}]
        BY <2>1, Zenon DEF LaunchInv, LaunchShape
    <2>3. \A p \in Processes : env[p] # host.token
        BY <2>1, Zenon DEF LaunchInv, TokensApart, Before
    <2>4. env'[launched] = host.token /\ \A p \in Processes \ {launched} : env'[p] = env[p]
        BY <2>1, <2>2, Zenon
    <2> QED BY <2>1, <2>3, <2>4, Zenon DEF TokensApart, Before, Running
<1>4. CASE Answer
    BY <1>4, TokensFramed, Zenon DEF Answer, Before, Running
<1>5. CASE InitAndStart
    BY <1>5, TokensFramed, Zenon DEF InitAndStart, Before, Running
<1>6. CASE NotLaunched \/ cleanupProc \/ Exited \/ SweepOrphans
    BY <1>6, TokensDropped, Zenon DEF NotLaunched, cleanupProc, Exited, SweepOrphans
<1>7. CASE ChangeAccount
    BY <1>7, TokensFramed, Zenon DEF ChangeAccount
<1>8. ASSUME NEW n \in 1..Len(stdout), Write(n) PROVE TokensApart'
    BY <1>8, TokensFramed, Zenon DEF Write
<1>9. ASSUME NEW p \in Processes, NEW token \in Tokens, ListenAuthorized(p, token)
      PROVE  TokensApart'
    <2>1. step' = "prepare" /\ host'.token = token /\ env' = env
        BY <1>9, Zenon DEF ListenAuthorized
    <2>2. \A q \in Processes : env[q] # token
        BY <1>9, Zenon DEF ListenAuthorized, Drawn, Held
    <2> QED BY <2>1, <2>2, Zenon DEF TokensApart, Before, Running
<1>10. ASSUME NEW p \in Processes, Reap(p) PROVE TokensApart'
    <2>1. /\ process[p] = "left" /\ UNCHANGED <<step, launched, host>>
          /\ env' = [env EXCEPT ![p] = NoOne]
        BY <1>10, Zenon DEF Reap
    <2>2. env \in [Processes -> Tokens \cup {NoOne}]
        BY Zenon DEF LaunchInv, LaunchShape
    <2>3. env'[p] = NoOne /\ \A q \in Processes \ {p} : env'[q] = env[q]
        BY <2>1, <2>2, Zenon
    <2>4. step # "idle" => NoOne # host.token
        BY LaunchAssumption, Zenon DEF LaunchInv, LaunchShape, Endpoints
    <2>5. step \in Running => p # launched
        BY <2>1, Zenon DEF LaunchInv, LaunchShape
    <2>6. ASSUME NEW q \in Processes, step # "idle", q = launched => step \notin Running
          PROVE  env'[q] # host.token
        <3>1. step \in Before \cup Running
            BY Zenon DEF LaunchInv, LaunchShape, Before, Running
        <3>2. env[q] # host.token
            BY <2>6, <3>1, Zenon DEF LaunchInv, TokensApart
        <3> QED BY <2>3, <2>4, <2>6, <3>2, Zenon
    <2>7. step \in Running => env'[launched] = host.token
        <3>1. step \in Running => launched \in Processes \ {p} /\ env[launched] = host.token
            BY <2>5, Zenon DEF LaunchInv, LaunchShape, TokensApart, Running
        <3> QED BY <2>3, <3>1, Zenon
    <2>8. step \in Before \ {"idle"} => \A q \in Processes : env'[q] # host.token
        BY <2>6, Zenon DEF Before, Running
    <2>9. step \in Running => \A q \in Processes \ {launched} : env'[q] # host.token
        BY <2>6, Zenon DEF Running
    <2>10. step = "idle" => host = NoOne
        BY Zenon DEF LaunchInv, TokensApart
    <2> QED BY <2>1, <2>7, <2>8, <2>9, <2>10, Zenon DEF TokensApart
<1> QED BY <1>1, <1>2, <1>3, <1>4, <1>5, <1>6, <1>7, <1>8, <1>9, <1>10, Zenon DEF LaunchNext

\* A write keeps the line faithful, wherever it cuts the text.
LEMMA WriteKeepsLine ==
    ASSUME LaunchInv, NEW n \in 1..Len(stdout), Write(n)
    PROVE  LineInv'
<1> DEFINE head == SubSeq(stdout, 1, n)
           rest == SubSeq(stdout, n + 1, Len(stdout))
           text == buf \o head
<1>0. LineInv
    BY Zenon DEF LaunchInv
<1>1. head \in Texts /\ rest \in Texts /\ text \in Texts /\ text \o rest = buf \o stdout
    BY <1>0, WriteCuts, Zenon DEF LineInv
<1>2. /\ step = "line" /\ step' = step /\ heard' = heard /\ said' = said /\ stdout' = rest
      /\ IF line # NoOne THEN UNCHANGED <<buf, line>>
         ELSE IF Complete(text) THEN line' = FirstLine(text) /\ buf' = << >>
         ELSE IF Len(text) > MaxLine THEN line' = << >> /\ buf' = << >>
         ELSE buf' = text /\ UNCHANGED line
    BY Zenon DEF Write, Buffered
<1>3. /\ << >> \in Texts /\ NoOne \notin Texts
      /\ \A s \in Texts : Len(s) \in Nat
    BY LaunchAssumption DEF Texts
<1> HIDE DEF head, rest, text
<1>4. buf' \in Texts
    BY <1>0, <1>1, <1>2, <1>3, ZenonT(30) DEF LineInv
<1>5. line' = NoOne => line = NoOne /\ buf' = text
    <2>1. ASSUME line = NoOne, Complete(text) PROVE FirstLine(text) \in Texts
        <3>1. PICK m \in 1..Len(text) : text[m] = EOL /\ \A j \in 1..(m - 1) : text[j] # EOL
            BY <1>1, <2>1, FirstEnd, Zenon
        <3>2. FirstLine(text) = SubSeq(text, 1, m - 1)
            BY <1>1, <3>1, FirstLineEnds, Zenon
        <3> QED BY <1>1, <3>1, <3>2, SMTT(20) DEF Texts
    <2> QED BY <1>2, <1>3, <2>1, ZenonT(30)
<1>6. line' = NoOne => said' = buf' \o stdout'
    BY <1>0, <1>1, <1>2, <1>5, ZenonT(30) DEF LineInv
<1>7. line' # NoOne =>
         line' = FirstLine(said') \/ (line' = << >> /\ Len(FirstLine(said')) > MaxLine)
    <2>1. CASE line # NoOne
        BY <1>0, <1>2, <2>1, Zenon DEF LineInv
    <2>2. CASE line = NoOne /\ Complete(text)
        <3>1. said = text \o rest
            BY <1>0, <1>1, <1>2, <2>2, Zenon DEF LineInv
        <3>2. FirstLine(said) = FirstLine(text)
            BY <1>1, <2>2, <3>1, FirstLineOfPrefix, Zenon
        <3> QED BY <1>2, <2>2, <3>2, Zenon
    <2>3. CASE line = NoOne /\ ~Complete(text)
        <3>1. said = text \o rest
            BY <1>0, <1>1, <1>2, <2>3, Zenon DEF LineInv
        <3>2. Len(FirstLine(said)) >= Len(text)
            BY <1>1, <2>3, <3>1, FirstLineIsLong, Zenon
        <3>3. FirstLine(said) \in Texts
            <4>1. CASE ~Complete(said)
                BY <1>0, <4>1, ZenonT(30) DEF LineInv, FirstLine, Complete
            <4>2. CASE Complete(said)
                <5>1. PICK m \in 1..Len(said) : said[m] = EOL /\ \A j \in 1..(m - 1) : said[j] # EOL
                    BY <1>0, <4>2, FirstEnd, Zenon DEF LineInv
                <5>2. FirstLine(said) = SubSeq(said, 1, m - 1)
                    BY <1>0, <5>1, FirstLineEnds, ZenonT(30) DEF LineInv
                <5> QED BY <1>0, <5>1, <5>2, SMTT(20) DEF Texts, LineInv
            <4> QED BY <4>1, <4>2, Zenon
        <3>4. Len(text) > MaxLine => Len(FirstLine(said)) > MaxLine
            BY <1>1, <1>3, <3>2, <3>3, LaunchAssumption, SMTT(20)
        <3> QED BY <1>2, <2>3, <3>4, Zenon
    <2> QED BY <2>1, <2>2, <2>3, Zenon
<1>8. heard' = NoOne
    BY <1>0, <1>2, Zenon DEF LineInv
<1> QED BY <1>0, <1>1, <1>2, <1>4, <1>6, <1>7, <1>8, ZenonT(30) DEF LineInv, Running

\* Every step keeps the line faithful.
LEMMA LineKept ==
    ASSUME LaunchInv, LaunchNext
    PROVE  LineInv'
<1>0. LineInv
    BY Zenon DEF LaunchInv
<1>1. CASE Prepare
    BY <1>0, <1>1, Zenon DEF LineInv, Running, capture, Texts, Prepare
<1>2. CASE Privilege
    BY <1>0, <1>2, Zenon DEF LineInv, Running, capture, Texts, Privilege
<1>3. CASE Exec
    <2>1. said' \in Texts /\ << >> \in Texts /\ NoOne \notin Texts /\ stdout' = said'
        <3>1. << >> \in Texts /\ NoOne \notin Texts /\ Outputs \subseteq Texts
            BY LaunchAssumption DEF Texts
        <3>2. said' \in Outputs \/ said' \in {<< >>}
            BY <1>3, Zenon DEF Exec
        <3>3. stdout' = said'
            BY <1>3, Zenon DEF Exec
        <3> QED BY <3>1, <3>2, <3>3, Zenon
    <2>2. said' = << >> \o stdout'
        BY <2>1 DEF Texts
    <2>3. /\ buf = << >> /\ line = NoOne /\ heard = NoOne /\ step' = "line"
          /\ buf' = buf /\ line' = line /\ heard' = heard
        BY <1>0, <1>3, Zenon DEF LineInv, Running, Exec
    <2> QED BY <2>1, <2>2, <2>3, Zenon DEF LineInv, Running
<1>4. CASE Answer
    <2>1. line # << >>
        <3>1. Len(line) = 5
            BY <1>4, Zenon DEF Answer, Accepted, WellFormed
        <3>2. Len(<< >>) = 0 /\ 0 # 5
            OBVIOUS
        <3> QED BY <3>1, <3>2, Zenon
    <2>2. line # NoOne /\ line = FirstLine(said) /\ heard' = Parse(FirstLine(said))
        BY <1>0, <1>4, <2>1, ZenonT(30) DEF LineInv, Answer
    <2>3. /\ said' = said /\ stdout' = stdout /\ buf' = buf /\ line' = line
          /\ step' = "init"
        BY <1>4, Zenon DEF Answer
    <2> QED BY <1>0, <2>2, <2>3, ZenonT(30) DEF LineInv, Running
<1>5. CASE InitAndStart
    BY <1>0, <1>5, Zenon DEF LineInv, Running, capture, Texts, InitAndStart
<1>6. CASE NotLaunched
    BY <1>0, <1>6, ZenonT(30) DEF LineInv, Running, capture, Texts, NotLaunched, Abandon
<1>7. CASE cleanupProc
    BY <1>0, <1>7, SMTT(20) DEF LineInv, Running, capture, Texts, cleanupProc, Abandon
<1>8. CASE Exited
    BY <1>0, <1>8, SMTT(20) DEF LineInv, Running, capture, Texts, Exited, Abandon
<1>9. CASE SweepOrphans
    BY <1>0, <1>9 DEF LineInv, Running, capture, Texts, SweepOrphans, Abandon
<1>10. CASE ChangeAccount
    BY <1>0, <1>10, Zenon DEF LineInv, Running, capture, Texts, ChangeAccount
<1>11. ASSUME NEW n \in 1..Len(stdout), Write(n) PROVE LineInv'
    BY <1>11, WriteKeepsLine, Zenon
<1>12. ASSUME NEW p \in Processes, NEW token \in Tokens, ListenAuthorized(p, token)
       PROVE  LineInv'
    BY <1>0, <1>12, Zenon DEF LineInv, Running, capture, ListenAuthorized
<1>13. ASSUME NEW p \in Processes, Reap(p) PROVE LineInv'
    BY <1>0, <1>13, Zenon DEF LineInv, Running, capture, Reap
<1> QED BY <1>1, <1>2, <1>3, <1>4, <1>5, <1>6, <1>7, <1>8, <1>9, <1>10, <1>11, <1>12, <1>13,
           ZenonT(30) DEF LaunchNext

\* The invariant holds at the start.
LEMMA LaunchStarts == LaunchInit => LaunchInv
<1> SUFFICES ASSUME LaunchInit PROVE LaunchInv
    BY Zenon
<1>1. LaunchShape
    BY Zenon DEF LaunchInit, LaunchShape, Before, Running, Uids
<1>2. Agreed
    BY Zenon DEF LaunchInit, Agreed, Running
<1>3. RootOnlyIfGranted
    BY LaunchAssumption, ZenonT(30) DEF LaunchInit, RootOnlyIfGranted
<1>4. LineInv
    BY DEF LaunchInit, LineInv, Running, Texts
<1>5. TokensApart
    BY Zenon DEF LaunchInit, TokensApart, Before, Running
<1> QED BY <1>1, <1>2, <1>3, <1>4, <1>5, ZenonT(30) DEF LaunchInv

\* The invariant is inductive.
LEMMA LaunchStep == LaunchInv /\ [LaunchNext]_launchVars => LaunchInv'
<1> SUFFICES ASSUME LaunchInv, [LaunchNext]_launchVars PROVE LaunchInv'
    BY Zenon
<1>1. CASE LaunchNext
    BY <1>1, ShapeKept, AgreedKept, RootKept, LineKept, TokensKept, ZenonT(30) DEF LaunchInv
<1>2. CASE UNCHANGED launchVars
    <2>1. /\ UNCHANGED <<mf, euid, account, step, launched, dirOwner, host, cred, process, uid,
                         env, stdout, buf, line, heard, said, steady>>
        BY <1>2, Zenon DEF launchVars, fixed, sockets, processes, capture
    <2>2. LaunchShape'
        BY <2>1, Zenon DEF LaunchInv, LaunchShape
    <2>3. (steady => Agreed)'
        BY <2>1, Zenon DEF LaunchInv, Agreed, Wanted, drops, dropFails, authorizeModulePeer
    <2>4. RootOnlyIfGranted'
        BY <2>1, Zenon DEF LaunchInv, RootOnlyIfGranted, Granted
    <2>5. LineInv'
        BY <2>1, Zenon DEF LaunchInv, LineInv
    <2>6. TokensApart'
        BY <2>1, Zenon DEF LaunchInv, TokensApart
    <2> QED BY <2>2, <2>3, <2>4, <2>5, <2>6, ZenonT(30) DEF LaunchInv
<1> QED BY <1>1, <1>2, Zenon

\* Whatever happens to the service account during a launch, root is only for
\* a module granted it, and no process of an earlier launch is answered, for
\* every number of them; and if nothing happens, the module's socket and its
\* calls to core work.
THEOREM AlwaysRunsAsItsAccount == LaunchSpec => []RunsAsItsAccount
<1>1. LaunchInv => RunsAsItsAccount
    <2> SUFFICES ASSUME LaunchInv PROVE RunsAsItsAccount
        BY Zenon
    <2>1. \A p \in Processes : uid[p] = 0 => mf.privilege = "system" /\ mf.session = "system"
        BY Zenon DEF LaunchInv, RootOnlyIfGranted, Granted
    <2>2. ASSUME step \in Running, steady
          PROVE  MayListen(uid[launched]) /\ Answered(launched)
        <3>1. /\ uid[launched] = cred /\ dirOwner = cred /\ host.owner = cred /\ cred \in host.allowed
              /\ env[launched] = host.token
            BY <2>2, Zenon DEF LaunchInv, LaunchShape, Agreed, TokensApart, Running
        <3> QED BY <3>1, Zenon DEF MayListen, Answered, Accept, MayConnect, peerCred, tokenGate
    <2>3. ASSUME host # NoOne, NEW p \in Processes, process[p] = "left" PROVE ~Answered(p)
        <3>1. step \in Before \ {"idle"} \/ step \in Running
            BY <2>3, Zenon DEF LaunchInv, LaunchShape, TokensApart
        <3>2. step \in Running => p # launched
            BY <2>3, Zenon DEF LaunchInv, LaunchShape
        <3>3. env[p] # host.token
            BY <3>1, <3>2, Zenon DEF LaunchInv, TokensApart
        <3> QED BY <3>3, Zenon DEF Answered, tokenGate
    <2> QED BY <2>1, <2>2, <2>3, Zenon DEF RunsAsItsAccount, Running
<1> QED BY <1>1, LaunchStarts, LaunchStep, PTL DEF LaunchSpec

\* However the writes of the process are cut up, core acts on its first line,
\* and refuses a good one only if it is beyond the cap.
THEOREM LineAlwaysFaithful == LaunchSpec => []LineIsFaithful
<1>1. LaunchInv => LineIsFaithful
    BY Zenon DEF LaunchInv, LineInv, LineIsFaithful
<1> QED BY <1>1, LaunchStarts, LaunchStep, PTL DEF LaunchSpec

-----------------------------------------------------------------------------
(* The package repository.                                                 *)

Signing == {"inrelease", "detached", "export", "ok"}
Zipped == {"release"} \cup Signing
Indexed == {"gzip"} \cup Zipped
Going == {"stanza", "copy"} \cup Indexed

\* Each package listed is the one served, until it changes under the build: in
\* place at once, else when it has been copied.
ListedIsServed ==
    \A stanza \in packages :
        /\ inPlace => stanza[2] = Digest(input[stanza[1]])
        /\ ~inPlace /\ stanza[1] \notin todo => stanza[2] = Digest(outDebs[stanza[1]])
        /\ stanza[1] \in todo =>
              at = "copy" /\ stanza[1] = Min(todo) /\ stanza[2] = Digest(input[stanza[1]])

\* The Release over two indexes.
ReleaseOver(list, zip) == [Packages |-> Digest(list), PackagesGz |-> Digest(zip)]

\* What the variables hold.
FilesShape ==
    /\ at \in {"none", "failed"} \cup Going
    /\ DOMAIN index = {"Packages", "PackagesGz", "Release"}
    /\ DOMAIN signature = {"InRelease", "ReleaseGpg"}
    /\ packages \in Lists /\ todo \in SUBSET Debs
    /\ DOMAIN input = Debs /\ DOMAIN outDebs = Debs

\* How far the files have come.
FilesInv ==
    /\ FilesShape
    /\ at = "stanza" => todo # {} \/ packages # {}
    /\ at = "copy" => todo # {} /\ packages # {}
    /\ at \in Indexed => todo = {} /\ packages # {} /\ index.Packages = packages
    /\ at \in Zipped => index.PackagesGz = [gzip |-> packages]
    /\ at \in Signing => index.Release = ReleaseOver(index.Packages, index.PackagesGz)
    /\ at \in {"inrelease", "detached", "export"} => key
    /\ at \in {"detached", "export"} \/ (at = "ok" /\ key) => signature.InRelease = index.Release
    /\ at = "export" \/ (at = "ok" /\ key) => signature.ReleaseGpg = index.Release

AptInv == FilesInv /\ (at \in Going /\ ~moved => ListedIsServed)

\* The package a build takes next is one it has still to add.
LEMMA NextIsThere ==
    ASSUME NEW S \in SUBSET Debs, S # {}
    PROVE  Min(S) \in S
<1>1. S \in SUBSET Nat
    BY AptAssumption, Zenon
<1>2. \E n \in S : \A m \in S : n <= m
    BY <1>1, LeastNat, Zenon
<1> QED BY <1>2, Zenon DEF Min

\* The directories and what is listed, when neither changes.
LEMMA ListedKept ==
    ASSUME at \in Going /\ ~moved => ListedIsServed,
           at \in Going, at \notin {"copy"}, at' # "copy", UNCHANGED <<inPlace, input, outDebs,
           todo, packages, moved>>
    PROVE  at' \in Going /\ ~moved' => ListedIsServed'
<1> SUFFICES ASSUME ~moved' PROVE ListedIsServed'
    BY Zenon
<1>1. ListedIsServed
    BY Zenon
<1> QED BY <1>1, Zenon DEF ListedIsServed

\* The place of a build among those that FilesInv tells apart.
LEMMA PlacesApart ==
    ASSUME NEW w
    PROVE  /\ w \in {"none", "failed"} \cup {"stanza", "copy"} => w \notin Indexed
           /\ w \in {"none", "failed"} \cup {"stanza", "copy"} \cup {"gzip"} => w \notin Zipped
           /\ w \notin Zipped => w \notin Signing
           /\ w \notin Signing => w \notin {"inrelease", "detached", "export", "ok"}
           /\ w \in Signing => w \in Zipped
           /\ w \in Zipped => w \in Indexed
           /\ w \in Indexed => w \in Going /\ w \notin {"stanza", "copy"}
           /\ w \in {"none", "failed"} => w \notin Going /\ w \notin {"stanza", "copy"}
<1>1. w \in Signing <=> w \in {"inrelease", "detached", "export", "ok"}
    BY Zenon DEF Signing
<1>2. w \in Zipped <=> w = "release" \/ w \in Signing
    BY Zenon DEF Zipped
<1>3. w \in Indexed <=> w = "gzip" \/ w \in Zipped
    BY Zenon DEF Indexed
<1>4. w \in Going <=> w \in {"stanza", "copy"} \/ w \in Indexed
    BY Zenon DEF Going
<1> QED BY <1>1, <1>2, <1>3, <1>4, SMTT(20)

\* A build before its first index has only its packages to answer for.
LEMMA NothingIndexed ==
    ASSUME at' \in {"none", "failed", "stanza", "copy"}, FilesShape',
           at' = "stanza" => todo' # {} \/ packages' # {},
           at' = "copy" => todo' # {} /\ packages' # {}
    PROVE  FilesInv'
<1>1. at' \notin Indexed /\ at' \notin Zipped /\ at' \notin Signing
      /\ at' \notin {"inrelease", "detached", "export", "ok"}
    BY PlacesApart, Zenon
<1>2. /\ at' \notin {"inrelease", "detached", "export"} /\ at' \notin {"detached", "export"}
      /\ at' # "ok" /\ at' # "export"
    BY <1>1, Zenon
<1> QED BY <1>1, <1>2, Zenon DEF FilesInv

\* One that has written its first index answers for the files up to its place.
LEMMA FilesThere ==
    ASSUME FilesShape', at' \in Indexed,
           todo' = {} /\ packages' # {} /\ index'.Packages = packages',
           at' # "gzip" => index'.PackagesGz = [gzip |-> packages'],
           at' \notin {"gzip", "release"} =>
               index'.Release = ReleaseOver(index'.Packages, index'.PackagesGz),
           at' \in {"inrelease", "detached", "export"} => key',
           at' \in {"detached", "export"} \/ (at' = "ok" /\ key') =>
               signature'.InRelease = index'.Release,
           at' = "export" \/ (at' = "ok" /\ key') => signature'.ReleaseGpg = index'.Release
    PROVE  FilesInv'
<1>1. at' # "stanza" /\ at' # "copy"
    BY PlacesApart, Zenon
<1>2. /\ at' \in Zipped => at' # "gzip"
      /\ at' \in Signing => at' \notin {"gzip", "release"}
    <2>1. at' \in Zipped => at' # "gzip"
        BY PlacesApart, Zenon
    <2>2. at' = "release" => at' \notin Signing
        BY Zenon DEF Signing
    <2>3. at' \in Signing => at' \in Zipped
        BY PlacesApart, Zenon
    <2> QED BY <2>1, <2>2, <2>3, Zenon
<1> QED BY <1>1, <1>2, Zenon DEF FilesInv

\* What the assignment of one index leaves.
LEMMA IndexWritten ==
    ASSUME NEW f, DOMAIN f = {"Packages", "PackagesGz", "Release"}, NEW v
    PROVE  /\ LET g == [f EXCEPT !.Packages = v]
              IN  DOMAIN g = DOMAIN f /\ g.Packages = v
           /\ LET g == [f EXCEPT !.PackagesGz = v]
              IN  DOMAIN g = DOMAIN f /\ g.PackagesGz = v /\ g.Packages = f.Packages
           /\ LET g == [f EXCEPT !.Release = v]
              IN  DOMAIN g = DOMAIN f /\ g.Release = v /\ g.Packages = f.Packages
                  /\ g.PackagesGz = f.PackagesGz
    OBVIOUS

\* And that of one signature.
LEMMA SignatureWritten ==
    ASSUME NEW f, DOMAIN f = {"InRelease", "ReleaseGpg"}, NEW v
    PROVE  /\ LET g == [f EXCEPT !.InRelease = v]
              IN  DOMAIN g = DOMAIN f /\ g.InRelease = v
           /\ LET g == [f EXCEPT !.ReleaseGpg = v]
              IN  DOMAIN g = DOMAIN f /\ g.ReleaseGpg = v /\ g.InRelease = f.InRelease
    OBVIOUS

\* A digest is one of its content.
LEMMA DigestTyped ==
    ASSUME NEW c \in Contents
    PROVE  Digest(c) \in [sha256 : Contents]
    BY DEF Digest

\* What writeGzip and releaseFile write is what such a file holds.
LEMMA ZipOfList ==
    ASSUME NEW list \in Lists
    PROVE  [gzip |-> list] \in Zips
    BY DEF Zips

\* The Release of two indexes is one.
LEMMA ReleaseOfIndexes ==
    ASSUME NEW list \in Lists, NEW zip \in Zips
    PROVE  ReleaseOver(list, zip) \in Releases
    BY DEF ReleaseOver, Releases, Digest

\* It has the digest of each.
LEMMA ReleaseNames ==
    ASSUME NEW list, NEW zip
    PROVE  /\ ReleaseOver(list, zip).Packages = Digest(list)
           /\ ReleaseOver(list, zip).PackagesGz = Digest(zip)
    BY DEF ReleaseOver

\* A stanza names a package and the digest of some content.
LEMMA ListedTyped ==
    ASSUME NEW list \in Lists, NEW stanza \in list
    PROVE  /\ stanza[1] \in Debs
           /\ \E n \in Debs, c \in Contents : stanza = <<n, Digest(c)>>
<1>1. stanza \in Debs \X [sha256 : Contents]
    BY DEF Lists
<1>2. PICK n \in Debs, g \in [sha256 : Contents] : stanza = <<n, g>>
    BY <1>1
<1>3. g.sha256 \in Contents /\ g = Digest(g.sha256)
    BY <1>2, ZenonT(30) DEF Digest
<1>4. stanza[1] = n
    BY <1>2
<1> QED BY <1>2, <1>3, <1>4, Zenon

\* So a build that signs has a Release to sign, which is neither absent nor truncated.
LEMMA ReleaseThere ==
    ASSUME FilesInv, at \in Signing
    PROVE  /\ packages \in Lists /\ packages # {} /\ index.Packages = packages
           /\ index.Release = ReleaseOver(index.Packages, index.PackagesGz)
           /\ index.Release \notin {Absent, Empty} /\ packages \notin {Absent, Empty, {}}
<1>1. at \in Indexed /\ at \in Zipped
    BY PlacesApart, Zenon
<1>2. /\ packages \in Lists /\ packages # {} /\ index.Packages = packages
      /\ index.PackagesGz = [gzip |-> packages]
      /\ index.Release = ReleaseOver(index.Packages, index.PackagesGz)
    BY <1>1, Zenon DEF FilesInv, FilesShape
<1>3. index.Release \in Releases
    BY <1>2, ZipOfList, ReleaseOfIndexes, Zenon
<1> QED BY <1>2, <1>3, AptAssumption, Zenon

\* An empty output directory has no file.
LEMMA NoFiles ==
    /\ DOMAIN NoIndex = {"Packages", "PackagesGz", "Release"}
    /\ DOMAIN NoSignature = {"InRelease", "ReleaseGpg"}
<1>1. DOMAIN NoIndex = {"Packages", "PackagesGz", "Release"}
    BY ZenonT(30) DEF NoIndex
<1>2. DOMAIN NoSignature = {"InRelease", "ReleaseGpg"}
    BY ZenonT(30) DEF NoSignature
<1> QED BY <1>1, <1>2, Zenon

\* The files of a build that goes on with its package list.
LEMMA FilesKept ==
    ASSUME AptInv, AptNext
    PROVE  FilesInv'
<1>0. FilesInv /\ FilesShape
    BY Zenon DEF AptInv, FilesInv
<1>1. ASSUME NEW signed \in BOOLEAN, Build(signed) PROVE FilesInv'
    <2>1. /\ todo' = {d \in Debs : input[d] # Absent} /\ todo' # {} /\ packages' = {}
          /\ at' = "stanza" /\ UNCHANGED <<input, outDebs, index, signature>>
        BY <1>1, Zenon DEF Build, dirs, files
    <2>2. packages' \in Lists /\ todo' \in SUBSET Debs
        BY <2>1, Zenon DEF Lists
    <2>3. FilesShape'
        BY <1>0, <2>1, <2>2, Zenon DEF FilesShape, Going
    <2> QED BY <2>1, <2>3, NothingIndexed, Zenon
<1>2. CASE PackageStanza
    <2>1. /\ at = "stanza" /\ todo # {} /\ at' = "copy" /\ readControl(Min(todo))
          /\ packages' = packages \cup {<<Min(todo), Digest(input[Min(todo)])>>}
          /\ UNCHANGED <<input, outDebs, index, signature, todo>>
        BY <1>2, Zenon DEF PackageStanza, dirs, files
    <2>2. Min(todo) \in Debs
        BY <1>0, <2>1, NextIsThere, Zenon DEF FilesShape
    <2>3. Digest(input[Min(todo)]) \in [sha256 : Contents]
        <3>1. input[Min(todo)] \in Contents
            BY <2>1, AptAssumption, Zenon DEF readControl
        <3> QED BY <3>1, DigestTyped, Zenon
    <2>4. packages' \in Lists /\ packages' # {}
        <3>1. <<Min(todo), Digest(input[Min(todo)])>> \in Debs \X [sha256 : Contents]
            BY <2>2, <2>3, Zenon
        <3> QED BY <1>0, <2>1, <3>1, Zenon DEF FilesShape, Lists
    <2>5. FilesShape'
        BY <1>0, <2>1, <2>4, Zenon DEF FilesShape, Going
    <2> QED BY <2>1, <2>4, <2>5, NothingIndexed, Zenon
<1>3. CASE Copy
    <2>1. /\ at = "copy" /\ at' = "stanza" /\ todo' = todo \ {Min(todo)}
          /\ UNCHANGED <<input, index, signature, packages>>
          /\ outDebs' = IF inPlace THEN outDebs ELSE [outDebs EXCEPT ![Min(todo)] = input[Min(todo)]]
        BY <1>3, Zenon DEF Copy, copyFile, files
    <2>2. DOMAIN outDebs' = Debs /\ todo' \in SUBSET Debs
        BY <1>0, <2>1, Zenon DEF FilesShape
    <2>3. FilesShape'
        BY <1>0, <2>1, <2>2, Zenon DEF FilesShape, Going
    <2>4. packages' # {}
        BY <1>0, <2>1, Zenon DEF FilesInv
    <2> QED BY <2>1, <2>3, <2>4, NothingIndexed, Zenon
<1>4. CASE WritePackages
    <2>1. /\ at = "stanza" /\ todo = {} /\ at' = "gzip" /\ index' = [index EXCEPT !.Packages = packages]
          /\ UNCHANGED <<input, outDebs, signature, todo, packages>>
        BY <1>4, Zenon DEF WritePackages, dirs
    <2>2. DOMAIN index' = DOMAIN index /\ index'.Packages = packages
        BY <1>0, <2>1, IndexWritten, Zenon DEF FilesShape
    <2>3. at' \in Indexed /\ at' \in Going
        BY <2>1, PlacesApart, Zenon DEF Indexed
    <2>4. FilesShape'
        BY <1>0, <2>1, <2>2, <2>3, Zenon DEF FilesShape
    <2>5. todo' = {} /\ packages' # {} /\ index'.Packages = packages'
        BY <1>0, <2>1, <2>2, Zenon DEF FilesInv
    <2> QED BY <2>1, <2>3, <2>4, <2>5, FilesThere, Zenon
<1>5. CASE WriteGzip
    <2>1. /\ at = "gzip" /\ at' = "release"
          /\ index' = [index EXCEPT !.PackagesGz = [gzip |-> packages]]
          /\ UNCHANGED <<input, outDebs, signature, todo, packages>>
        BY <1>5, Zenon DEF WriteGzip, dirs
    <2>2. /\ DOMAIN index' = DOMAIN index /\ index'.Packages = index.Packages
          /\ index'.PackagesGz = [gzip |-> packages]
        BY <1>0, <2>1, IndexWritten, Zenon DEF FilesShape
    <2>3. at \in Indexed /\ at' \in Indexed /\ at' \in Going
        BY <2>1, PlacesApart, Zenon DEF Indexed, Zipped
    <2>4. FilesShape'
        BY <1>0, <2>1, <2>2, <2>3, Zenon DEF FilesShape
    <2>5. todo' = {} /\ packages' # {} /\ index'.Packages = packages'
        BY <1>0, <2>1, <2>2, <2>3, Zenon DEF FilesInv
    <2> QED BY <2>1, <2>2, <2>3, <2>4, <2>5, FilesThere, Zenon
<1>6. CASE ReleaseFile
    <2>1. /\ at = "release" /\ at' = (IF key THEN "inrelease" ELSE "ok")
          /\ index' = [index EXCEPT !.Release = ReleaseOver(index.Packages, index.PackagesGz)]
          /\ UNCHANGED <<input, outDebs, signature, todo, packages, key>>
        BY <1>6, Zenon DEF ReleaseFile, ReleaseOver, dirs
    <2>2. /\ DOMAIN index' = DOMAIN index /\ index'.Packages = index.Packages
          /\ index'.PackagesGz = index.PackagesGz
          /\ index'.Release = ReleaseOver(index.Packages, index.PackagesGz)
        BY <1>0, <2>1, IndexWritten, Zenon DEF FilesShape
    <2>3. at \in Zipped /\ at \in Indexed /\ at' \in Indexed /\ at' \in Going
        BY <2>1, PlacesApart, Zenon DEF Zipped, Signing
    <2>4. FilesShape'
        BY <1>0, <2>1, <2>2, <2>3, Zenon DEF FilesShape
    <2>5. /\ todo' = {} /\ packages' # {} /\ index'.Packages = packages'
          /\ index'.PackagesGz = [gzip |-> packages']
          /\ index'.Release = ReleaseOver(index'.Packages, index'.PackagesGz)
        BY <1>0, <2>1, <2>2, <2>3, Zenon DEF FilesInv
    <2>6. /\ at' \in {"inrelease", "detached", "export"} => key'
          /\ at' \notin {"detached", "export"} /\ ~(at' = "ok" /\ key')
        BY <2>1, Zenon
    <2> QED BY <2>3, <2>4, <2>5, <2>6, FilesThere, Zenon
<1>7. CASE InRelease
    <2>1. /\ at = "inrelease" /\ at' = "detached"
          /\ signature' = [signature EXCEPT !.InRelease = index.Release]
          /\ UNCHANGED <<input, outDebs, index, todo, packages, key>>
        BY <1>7, Zenon DEF InRelease, gpg, dirs
    <2>2. DOMAIN signature' = DOMAIN signature /\ signature'.InRelease = index.Release
        BY <1>0, <2>1, SignatureWritten, Zenon DEF FilesShape
    <2>3. at \in Signing /\ at \in Zipped /\ at \in Indexed /\ at' \in Indexed /\ at' \in Going
        BY <2>1, PlacesApart, Zenon DEF Signing
    <2>4. index.Release # Empty
        BY <1>0, <2>3, ReleaseThere, Zenon
    <2>5. FilesShape'
        BY <1>0, <2>1, <2>2, <2>3, <2>4, Zenon DEF FilesShape
    <2>6. /\ todo' = {} /\ packages' # {} /\ index'.Packages = packages'
          /\ index'.PackagesGz = [gzip |-> packages']
          /\ index'.Release = ReleaseOver(index'.Packages, index'.PackagesGz) /\ key'
        BY <1>0, <2>1, <2>3, Zenon DEF FilesInv
    <2>7. at' # "export" /\ at' # "ok"
        BY <2>1, Zenon
    <2> QED BY <2>1, <2>2, <2>3, <2>5, <2>6, <2>7, FilesThere, Zenon
<1>8. CASE Detached
    <2>1. /\ at = "detached" /\ at' = "export"
          /\ signature' = [signature EXCEPT !.ReleaseGpg = index.Release]
          /\ UNCHANGED <<input, outDebs, index, todo, packages, key>>
        BY <1>8, Zenon DEF Detached, gpg, dirs
    <2>2. /\ DOMAIN signature' = DOMAIN signature /\ signature'.InRelease = signature.InRelease
          /\ signature'.ReleaseGpg = index.Release
        BY <1>0, <2>1, SignatureWritten, Zenon DEF FilesShape
    <2>3. at \in Signing /\ at \in Zipped /\ at \in Indexed /\ at' \in Indexed /\ at' \in Going
        BY <2>1, PlacesApart, Zenon DEF Signing
    <2>4. FilesShape'
        BY <1>0, <2>1, <2>2, <2>3, Zenon DEF FilesShape
    <2>5. /\ todo' = {} /\ packages' # {} /\ index'.Packages = packages'
          /\ index'.PackagesGz = [gzip |-> packages']
          /\ index'.Release = ReleaseOver(index'.Packages, index'.PackagesGz) /\ key'
          /\ signature'.InRelease = index'.Release
        BY <1>0, <2>1, <2>2, <2>3, Zenon DEF FilesInv
    <2> QED BY <2>1, <2>2, <2>3, <2>4, <2>5, FilesThere, Zenon
<1>9. CASE Export
    <2>1. /\ at = "export" /\ at' = "ok"
          /\ UNCHANGED <<input, outDebs, index, signature, todo, packages, key>>
        BY <1>9, Zenon DEF Export, dirs, files
    <2>2. at \in Signing /\ at \in Zipped /\ at \in Indexed /\ at' \in Indexed /\ at' \in Going
        BY <2>1, PlacesApart, Zenon DEF Signing
    <2>3. FilesShape'
        BY <1>0, <2>1, <2>2, Zenon DEF FilesShape
    <2>4. /\ todo' = {} /\ packages' # {} /\ index'.Packages = packages'
          /\ index'.PackagesGz = [gzip |-> packages']
          /\ index'.Release = ReleaseOver(index'.Packages, index'.PackagesGz) /\ key'
          /\ signature'.InRelease = index'.Release /\ signature'.ReleaseGpg = index'.Release
        BY <1>0, <2>1, <2>2, Zenon DEF FilesInv
    <2> QED BY <2>2, <2>3, <2>4, FilesThere, Zenon
<1>10. CASE BuildFails
    <2>1. /\ at' = "failed" /\ todo' = {} /\ packages' = {} /\ UNCHANGED input
          /\ outDebs' \in {outDebs, [outDebs EXCEPT ![Min(todo)] = Empty]}
        BY <1>10, SMTT(20) DEF BuildFails
    <2>2. index' \in {index, [index EXCEPT !.Packages = Empty], [index EXCEPT !.PackagesGz = Empty],
                      [index EXCEPT !.Release = Empty]}
        BY <1>10, SMTT(20) DEF BuildFails
    <2>3. /\ \E v \in {Empty, Absent} :
                signature' \in {signature, [signature EXCEPT !.InRelease = v],
                               [signature EXCEPT !.ReleaseGpg = v]}
          /\ DOMAIN outDebs' = Debs
        <3>1. \E v \in {Empty, Absent} :
                 signature' \in {signature, [signature EXCEPT !.InRelease = v],
                                [signature EXCEPT !.ReleaseGpg = v]}
            BY <1>10, SMTT(20) DEF BuildFails
        <3>2. DOMAIN outDebs' = Debs
            BY <1>0, <2>1, Zenon DEF FilesShape
        <3> QED BY <3>1, <3>2, Zenon
    <2>4. DOMAIN index' = DOMAIN index /\ DOMAIN signature' = DOMAIN signature
        BY <1>0, <2>2, <2>3, IndexWritten, SignatureWritten, Zenon DEF FilesShape
    <2>5. packages' \in Lists /\ todo' \in SUBSET Debs
        BY <2>1, Zenon DEF Lists
    <2>6. FilesShape'
        BY <1>0, <2>1, <2>3, <2>4, <2>5, Zenon DEF FilesShape
    <2> QED BY <2>1, <2>6, NothingIndexed, Zenon
<1>11. CASE Clean
    <2>1. /\ at' = "none" /\ todo' = {} /\ packages' = {} /\ input' \in Inputs
          /\ outDebs' = NoDebs /\ index' = NoIndex /\ signature' = NoSignature
        BY <1>11, Zenon DEF Clean
    <2>2. DOMAIN input' = Debs /\ DOMAIN outDebs' = Debs
        BY <2>1, Zenon DEF Inputs, NoDebs
    <2>3. packages' \in Lists /\ todo' \in SUBSET Debs
        BY <2>1, Zenon DEF Lists
    <2>4. FilesShape'
        BY <2>1, <2>2, <2>3, NoFiles, Zenon DEF FilesShape
    <2> QED BY <2>1, <2>4, NothingIndexed, Zenon
<1>12. ASSUME NEW d \in Debs, NEW content \in Contents \cup {Absent}, Rebuild(d, content)
       PROVE  FilesInv'
    <2>1. /\ UNCHANGED <<outDebs, index, signature, key, at, todo, packages>>
          /\ input' = [input EXCEPT ![d] = content]
        BY <1>12, Zenon DEF Rebuild, files
    <2>2. DOMAIN input' = DOMAIN input
        BY <2>1, Zenon
    <2>3. FilesShape'
        BY <1>0, <2>1, <2>2, Zenon DEF FilesShape
    <2> QED BY <1>0, <2>1, <2>3, Zenon DEF FilesInv
<1> QED BY <1>1, <1>2, <1>3, <1>4, <1>5, <1>6, <1>7, <1>8, <1>9, <1>10, <1>11, <1>12,
           ZenonT(30) DEF AptNext

\* Every step keeps the packages listed the ones served.
LEMMA ServedUntouched ==
    ASSUME AptInv, AptNext
    PROVE  (at \in Going /\ ~moved => ListedIsServed)'
<1>0. FilesInv /\ FilesShape /\ (at \in Going /\ ~moved => ListedIsServed)
    BY Zenon DEF AptInv, FilesInv
<1>1. ASSUME NEW signed \in BOOLEAN, Build(signed) PROVE ListedIsServed'
    BY <1>1, ZenonT(30) DEF Build, ListedIsServed
<1>2. CASE PackageStanza
    <2> DEFINE d == Min(todo)
    <2>1. /\ at = "stanza" /\ todo # {} /\ at' = "copy"
          /\ packages' = packages \cup {<<d, Digest(input[d])>>}
          /\ UNCHANGED <<inPlace, input, outDebs, todo, moved>>
        BY <1>2, Zenon DEF PackageStanza, dirs
    <2>2. d \in todo
        BY <1>0, <2>1, NextIsThere, Zenon DEF FilesShape
    <2>3. SUFFICES ASSUME ~moved', NEW stanza \in packages'
                   PROVE  /\ inPlace' => stanza[2] = Digest(input'[stanza[1]])
                          /\ ~inPlace' /\ stanza[1] \notin todo' =>
                                stanza[2] = Digest(outDebs'[stanza[1]])
                          /\ stanza[1] \in todo' => /\ at' = "copy" /\ stanza[1] = Min(todo')
                                                    /\ stanza[2] = Digest(input'[stanza[1]])
        BY Zenon DEF ListedIsServed
    <2>4. CASE stanza \in packages
        <3>1. ListedIsServed /\ at # "copy"
            BY <1>0, <2>1, <2>3, ZenonT(30) DEF Going
        <3> QED BY <2>1, <2>4, <3>1, ZenonT(30) DEF ListedIsServed
    <2>5. CASE stanza = <<d, Digest(input[d])>>
        <3>1. stanza[1] = d /\ stanza[2] = Digest(input[d])
            BY <2>5
        <3> QED BY <2>1, <2>2, <3>1, ZenonT(30)
    <2> QED BY <2>1, <2>3, <2>4, <2>5, ZenonT(30)
<1>3. CASE Copy
    <2> DEFINE d == Min(todo)
    <2>1. /\ at = "copy" /\ at' = "stanza" /\ todo' = todo \ {d}
          /\ UNCHANGED <<inPlace, input, packages, moved>>
          /\ outDebs' = IF inPlace THEN outDebs ELSE [outDebs EXCEPT ![d] = input[d]]
        BY <1>3, Zenon DEF Copy, copyFile
    <2>2. d \in Debs
        <3>1. todo # {} /\ todo \in SUBSET Debs
            BY <1>0, <2>1, Zenon DEF FilesInv, FilesShape
        <3> QED BY <3>1, NextIsThere, ZenonT(30)
    <2>3. SUFFICES ASSUME ~moved', NEW stanza \in packages'
                   PROVE  /\ inPlace' => stanza[2] = Digest(input'[stanza[1]])
                          /\ ~inPlace' /\ stanza[1] \notin todo' =>
                                stanza[2] = Digest(outDebs'[stanza[1]])
                          /\ stanza[1] \notin todo'
        BY ZenonT(30) DEF ListedIsServed
    <2>4. ListedIsServed
        BY <1>0, <2>1, <2>3, ZenonT(30) DEF Going
    <2>5. stanza[1] \in Debs
        BY <1>0, <2>1, <2>3, ListedTyped, Zenon DEF FilesShape
    <2>6. ~inPlace => outDebs'[stanza[1]] = IF stanza[1] = d THEN input[d] ELSE outDebs[stanza[1]]
        BY <1>0, <2>1, <2>2, <2>5, ZenonT(30) DEF FilesShape
    <2>7. stanza[1] \notin todo'
        BY <2>1, <2>4, Zenon DEF ListedIsServed
    <2>8. CASE stanza[1] \in todo
        BY <2>1, <2>4, <2>6, <2>7, <2>8, ZenonT(30) DEF ListedIsServed
    <2>9. CASE stanza[1] \notin todo
        <3>1. stanza[1] # d
            <4>1. todo # {} /\ todo \in SUBSET Debs
                BY <1>0, <2>1, Zenon DEF FilesInv, FilesShape
            <4>2. d \in todo
                BY <4>1, NextIsThere, Zenon
            <4> QED BY <2>9, <4>2, ZenonT(30)
        <3> QED BY <2>1, <2>4, <2>6, <2>7, <2>9, <3>1, ZenonT(30) DEF ListedIsServed
    <2> QED BY <2>8, <2>9, Zenon
<1>4. CASE WritePackages
    <2>1. at = "stanza" /\ at' = "gzip" /\ UNCHANGED <<inPlace, input, outDebs, todo, packages, moved>>
        BY <1>4, Zenon DEF WritePackages, dirs
    <2>2. at \in Going /\ at \notin {"copy"} /\ at' # "copy"
        BY <2>1, Zenon DEF Going, Indexed
    <2> QED BY <1>0, <2>1, <2>2, ListedKept, ZenonT(30)
<1>5. CASE WriteGzip
    <2>1. at = "gzip" /\ at' = "release" /\ UNCHANGED <<inPlace, input, outDebs, todo, packages, moved>>
        BY <1>5, ZenonT(30) DEF WriteGzip, dirs
    <2>2. at \in Going /\ at \notin {"copy"} /\ at' # "copy"
        BY <2>1, Zenon DEF Going, Indexed
    <2> QED BY <1>0, <2>1, <2>2, ListedKept, ZenonT(30)
<1>6. CASE ReleaseFile
    <2>1. /\ at = "release" /\ at' \in {"inrelease", "ok"}
          /\ UNCHANGED <<inPlace, input, outDebs, todo, packages, moved>>
        BY <1>6, ZenonT(30) DEF ReleaseFile, dirs
    <2>2. at \in Going /\ at \notin {"copy"} /\ at' # "copy"
        BY <2>1, Zenon DEF Going, Indexed, Zipped
    <2> QED BY <1>0, <2>1, <2>2, ListedKept, ZenonT(30)
<1>7. CASE InRelease \/ Detached \/ Export
    <2>1. /\ at \in {"inrelease", "detached", "export"} /\ at' \in {"detached", "export", "ok"}
          /\ UNCHANGED <<inPlace, input, outDebs, todo, packages, moved>>
        BY <1>7, ZenonT(30) DEF InRelease, Detached, Export, dirs
    <2>2. at \in Going /\ at \notin {"copy"} /\ at' # "copy"
        BY <2>1, Zenon DEF Going, Indexed, Zipped, Signing
    <2> QED BY <1>0, <2>1, <2>2, ListedKept, ZenonT(30)
<1>8. CASE BuildFails \/ Clean
    <2>1. at' \in {"failed", "none"}
        BY <1>8, Zenon DEF BuildFails, Clean
    <2>2. at' \notin Going
        BY <2>1, PlacesApart, Zenon
    <2> QED BY <2>2, Zenon
<1>9. ASSUME NEW d \in Debs, NEW content \in Contents \cup {Absent}, Rebuild(d, content)
      PROVE  (at \in Going /\ ~moved => ListedIsServed)'
    <2>1. /\ UNCHANGED <<inPlace, outDebs, at, todo, packages>>
          /\ input' = [input EXCEPT ![d] = content]
          /\ moved' = (\/ moved
                       \/ at = "copy" /\ d = Min(todo)
                       \/ inPlace /\ \E c \in Contents : <<d, Digest(c)>> \in packages)
        BY <1>9, Zenon DEF Rebuild
    <2>2. SUFFICES ASSUME at \in Going, ~moved', NEW stanza \in packages
                   PROVE  /\ inPlace => stanza[2] = Digest(input'[stanza[1]])
                          /\ ~inPlace /\ stanza[1] \notin todo =>
                                stanza[2] = Digest(outDebs[stanza[1]])
                          /\ stanza[1] \in todo => /\ at = "copy" /\ stanza[1] = Min(todo)
                                                   /\ stanza[2] = Digest(input'[stanza[1]])
        BY <2>1, Zenon DEF ListedIsServed
    <2>3. ListedIsServed
        BY <1>0, <2>1, <2>2, ZenonT(30)
    <2>4. PICK n \in Debs, c \in Contents : stanza = <<n, Digest(c)>>
        BY <1>0, <2>2, ListedTyped, Zenon DEF FilesShape
    <2>5. stanza[1] = n
        BY <2>4
    <2>6. n # d => input'[n] = input[n]
        BY <1>0, <2>1, Zenon DEF FilesShape
    <2>7. (inPlace => n # d) /\ (at = "copy" /\ n = Min(todo) => n # d)
        BY <2>1, <2>2, <2>4, ZenonT(30)
    <2> QED BY <2>3, <2>5, <2>6, <2>7, ZenonT(30) DEF ListedIsServed
<1> QED BY <1>1, <1>2, <1>3, <1>4, <1>5, <1>6, <1>7, <1>8, <1>9, ZenonT(30) DEF AptNext

\* Every set of packages, every way they change and every step a build may
\* fail at, gpg's among them: a build that reports success has written a
\* Release that leads to what is served and, signed, both signatures of it.
THEOREM BuildAlwaysInstalls == AptSpec => []BuildInstalls
<1>1. AptInit => AptInv
    <2> SUFFICES ASSUME AptInit PROVE AptInv
        OBVIOUS
    <2>1. /\ at = "none" /\ todo = {} /\ packages = {} /\ input \in Inputs
          /\ outDebs = NoDebs /\ index = NoIndex /\ signature = NoSignature
        BY Zenon DEF AptInit
    <2>2. DOMAIN input = Debs /\ DOMAIN outDebs = Debs /\ packages \in Lists
        BY <2>1, ZenonT(30) DEF Inputs, NoDebs, Lists
    <2>3. FilesShape
        BY <2>1, <2>2, NoFiles, Zenon DEF FilesShape
    <2>4. at \notin Going /\ at \notin Indexed /\ at \notin Zipped /\ at \notin Signing
        BY <2>1, PlacesApart, Zenon
    <2>5. FilesInv
        BY <2>1, <2>3, <2>4, Zenon DEF FilesInv
    <2> QED BY <2>4, <2>5, Zenon DEF AptInv
<1>2. AptInv /\ [AptNext]_aptVars => AptInv'
    <2> SUFFICES ASSUME AptInv, [AptNext]_aptVars PROVE AptInv'
        BY Zenon
    <2>1. CASE AptNext
        BY <2>1, FilesKept, ServedUntouched, Zenon DEF AptInv
    <2>2. CASE UNCHANGED aptVars
        <3>1. UNCHANGED <<inPlace, input, outDebs, index, signature, key, at, todo, packages, moved>>
            BY <2>2, Zenon DEF aptVars, dirs, files
        <3>2. FilesInv'
            BY <3>1, ZenonT(30) DEF AptInv, FilesInv, FilesShape
        <3>3. ListedIsServed => ListedIsServed'
            BY <3>1, Zenon DEF ListedIsServed
        <3> QED BY <3>1, <3>2, <3>3, ZenonT(30) DEF AptInv
    <2> QED BY <2>1, <2>2, Zenon
<1>3. AptInv => BuildInstalls
    <2> SUFFICES ASSUME AptInv, at = "ok", ~moved
                 PROVE  /\ IndexesMatch(index.Release) /\ PackagesMatch
                        /\ key \/ signature.InRelease = Absent => verifyRepo
                        /\ key => /\ signature.InRelease = index.Release
                                  /\ signature.ReleaseGpg = index.Release
        BY ZenonT(30) DEF BuildInstalls
    <2>1. at \in Signing /\ at \in Zipped /\ at \in Indexed /\ at \in Going
        BY PlacesApart, Zenon DEF Signing
    <2>2. /\ FilesInv /\ ListedIsServed /\ todo = {}
          /\ key => signature.InRelease = index.Release /\ signature.ReleaseGpg = index.Release
        BY <2>1, Zenon DEF AptInv, FilesInv
    <2>3. /\ packages # {} /\ index.Packages = packages
          /\ index.Release = ReleaseOver(index.Packages, index.PackagesGz)
          /\ index.Release \notin {Absent, Empty} /\ packages \notin {Absent, Empty, {}}
        BY <2>1, <2>2, ReleaseThere, Zenon
    <2>4. IndexesMatch(index.Release)
        <3>1. /\ ReleaseOver(index.Packages, index.PackagesGz).Packages = Digest(index.Packages)
              /\ ReleaseOver(index.Packages, index.PackagesGz).PackagesGz = Digest(index.PackagesGz)
            BY ReleaseNames, Zenon
        <3>2. /\ index.Release.Packages = Digest(index.Packages)
              /\ index.Release.PackagesGz = Digest(index.PackagesGz)
            BY <2>3, <3>1, Zenon
        <3> QED BY <2>3, <3>2, Zenon DEF IndexesMatch
    <2>5. PackagesMatch
        <3>1. \A stanza \in packages : stanza[2] = Digest(Served(stanza[1]))
            BY <2>2, Zenon DEF ListedIsServed, Served
        <3> QED BY <2>3, <3>1, Zenon DEF PackagesMatch
    <2>6. key \/ signature.InRelease = Absent => signature.InRelease # Empty
        BY <2>2, <2>3, AptAssumption, Zenon
    <2> QED BY <2>2, <2>4, <2>5, <2>6, Zenon DEF verifyRepo
<1> QED BY <1>1, <1>2, <1>3, PTL DEF AptSpec

=============================================================================

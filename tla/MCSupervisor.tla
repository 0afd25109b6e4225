---------------------------- MODULE MCSupervisor ----------------------------
(* Small instances of Supervisor for TLC. *)
EXTENDS Supervisor, TLC

CONSTANTS r1, r2, c1, c2

MCRunners == {r1, r2}
MCCallers == {c1, c2}
MCOneCaller == {c1}

\* Runners and callers are interchangeable in the safety runs.
MCSymmetry == Permutations(MCRunners) \cup Permutations(MCCallers)
=============================================================================

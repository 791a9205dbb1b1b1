----------------------------- MODULE MCFileLock -----------------------------
(* Small instances of FileLock for TLC. *)
EXTENDS FileLock, TLC

CONSTANTS p1, p2, p3

TwoProcesses == {p1, p2}
ThreeProcesses == {p1, p2, p3}

\* Processes are interchangeable; used where only safety is checked.
MCSymmetry == Permutations(ThreeProcesses)
=============================================================================

------------------------------- MODULE MCRunDir -------------------------------
(* Two processes on one run directory for TLC. *)
EXTENDS RunDir, TLC

CONSTANTS p1, p2

MCProcesses == {p1, p2}
MCSymmetry == Permutations(MCProcesses)

===============================================================================

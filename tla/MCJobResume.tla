---------------------------- MODULE MCJobResume ----------------------------
(* Two callers of `jobs resume' for TLC.                                   *)
EXTENDS JobResume

CONSTANTS c1, c2, q1, q2, s1, s2

MCCallers  == {c1, c2}
MCRequests == {q1, q2}
MCChildren == {s1, s2}
============================================================================

------------------------- MODULE MCResourceGovernor -------------------------
(* Two threads of two processes for TLC.                                   *)
EXTENDS ResourceGovernor, TLC

CONSTANTS u1, u2, p1, p2

MCUsers  == {u1, u2}
MCProcs  == {p1, p2}
MCProcOf == (u1 :> p1) @@ (u2 :> p2)
============================================================================

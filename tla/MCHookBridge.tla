--------------------------- MODULE MCHookBridge ---------------------------
(* Instances of HookBridge for TLC. *)
EXTENDS HookBridge

Twins == Permutations(Hooks)
=============================================================================

----------------------------- MODULE MCLockFile -----------------------------
(* The lock files of the repository for TLC: the constants have their      *)
(* values in the configuration.                                            *)
EXTENDS LockFile
============================================================================

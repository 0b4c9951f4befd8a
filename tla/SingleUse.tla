------------------------------ MODULE SingleUse ------------------------------
(***************************************************************************)
(* What the continuation of one finished job promises: the session handle  *)
(* of the source is authority for one provider run, and what is said about *)
(* that run is either true or openly unknown.                              *)
(*                                                                         *)
(* `used' counts the provider runs ever started with the handle and `told' *)
(* is what the ledger says of them: "unknown", "spent" or "unspent".       *)
(***************************************************************************)
VARIABLES used, told

Init == /\ used = 0
        /\ told = "unknown"

(* The provider is started: once, and never after it was reported unspent. *)
Use == /\ used = 0
       /\ told = "unknown"
       /\ used' = 1
       /\ UNCHANGED told

(* The ledger reports the run, and only what happened. *)
Report == /\ told = "unknown"
          /\ told' = (IF used = 1 THEN "spent" ELSE "unspent")
          /\ UNCHANGED used

(* A report that nothing was spent is taken back to try again. *)
Reopen == /\ told = "unspent"
          /\ told' = "unknown"
          /\ UNCHANGED used

Next == Use \/ Report \/ Reopen

Spec == Init /\ [][Next]_<<used, told>>
=============================================================================

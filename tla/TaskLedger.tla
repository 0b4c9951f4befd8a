------------------------------ MODULE TaskLedger ------------------------------
(***************************************************************************)
(* What the swarm coordinator promises about each task, with no claims,    *)
(* leases, clocks or locks: the task is worked on at most MaxAttempts      *)
(* times, one attempt at a time, after the tasks it depends on are done;   *)
(* an attempt that may have spent is followed by another only after a      *)
(* human pardons it; done and cancelled are for good, and so is the end of *)
(* the run.                                                                *)
(***************************************************************************)
EXTENDS Naturals

CONSTANTS Tasks, DependsOn, MaxAttempts

VARIABLES
    phase,  \* phase[t]: where task t stands
    used,   \* used[t]: attempts of t so far
    over    \* the run is closed

ledger == <<phase, used, over>>

Phases == {"open", "working", "completed", "failed", "cancelled",
           "blocked", "indeterminate"}
Uncertain == {"blocked", "indeterminate"}
Settled == {"completed", "failed", "cancelled", "blocked"}

Init ==
    /\ phase = [t \in Tasks |-> "open"]
    /\ used = [t \in Tasks |-> 0]
    /\ over = FALSE

Move(t, from, to) ==
    /\ ~over
    /\ phase[t] \in from
    /\ phase' = [phase EXCEPT ![t] = to]
    /\ UNCHANGED over

\* Work starts on an open task.  The coordinator also lets a failed task be
\* tried again.
Start(t) ==
    /\ Move(t, {"open", "failed"}, "working")
    /\ used[t] < MaxAttempts
    /\ \A d \in DependsOn[t] : phase[d] = "completed"
    /\ used' = [used EXCEPT ![t] = @ + 1]

\* The worker hands the task back, or it ends one way or another.
Stop(t, to) ==
    /\ to \in Phases \ {"working"}
    /\ Move(t, {"working"}, to)
    /\ UNCHANGED used

\* A human settles an uncertain task without a retry, or pardons the spend.
Block(t) == Move(t, {"indeterminate"}, "blocked") /\ UNCHANGED used
Pardon(t) == Move(t, Uncertain, "open") /\ UNCHANGED used

End ==
    /\ ~over
    /\ \A t \in Tasks : phase[t] \in Settled
    /\ over' = TRUE
    /\ UNCHANGED <<phase, used>>

Next ==
    \/ \E t \in Tasks :
          \/ Start(t)
          \/ \E to \in Phases : Stop(t, to)
          \/ Block(t)
          \/ Pardon(t)
    \/ End

Spec == Init /\ [][Next]_ledger

=============================================================================

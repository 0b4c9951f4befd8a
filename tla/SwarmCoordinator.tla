--------------------------- MODULE SwarmCoordinator ---------------------------
(***************************************************************************)
(* The claim/lease life cycle of the swarm coordinator                     *)
(* (src/skills/summon/scripts/_swarm_coordinator.py).                      *)
(*                                                                         *)
(* A run is a fixed set of tasks.  Workers claim a task under a lease,     *)
(* renew, publish artifacts and end the claim; operators cancel, a human   *)
(* resolves uncertain spend, and the run is closed once every task is      *)
(* settled.  Each operation takes the run-directory owner lock, replays    *)
(* the journal, checks, appends ONE record and releases the lock, so it is *)
(* one step here.  The exception is the human recovery of an active claim, *)
(* which appends two records under one lock and can stop between them; the *)
(* variable recovering is that window.                                     *)
(*                                                                         *)
(* A claim id is caller-chosen and checked fresh, and the attempt number   *)
(* must be one more than the attempts so far, so <<task, attempt>> names   *)
(* the claim.  Message ids, retries and reordering are in SwarmFrames; the *)
(* lock and the journal file are in RunDir.                                *)
(*                                                                         *)
(* An operator named X_Y, just above operator X, is X with a defect that   *)
(* code could plausibly have; the runs must notice when it replaces X.     *)
(***************************************************************************)
EXTENDS Integers, FiniteSets

CONSTANTS
    Tasks,          \* the tasks of the preparation record
    DependsOn,      \* for each task, the tasks it waits for
    Workers,        \* worker ids (bound to one instance each)
    NoWorker,       \* the worker of a claim not yet issued
    Artifacts,      \* artifact ids
    WorkspaceTasks, \* the tasks whose turns come with a workspace delivery
    Clock,          \* the wall-clock readings the coordinator can see
    MaxAttempts,    \* max_attempts of the run
    MaxLease,       \* MAX_LEASE_MS, in clock ticks
    MaxRenewals     \* MAX_ROUTINE_RENEWALS

ASSUME TasksAssumption ==
    /\ DependsOn \in [Tasks -> SUBSET Tasks]
    /\ WorkspaceTasks \subseteq Tasks
ASSUME BoundsAssumption ==
    /\ MaxAttempts \in Nat \ {0}
    /\ MaxLease \in Nat \ {0}
    /\ MaxRenewals \in Nat
ASSUME WorkersAssumption == NoWorker \notin Workers
ASSUME ClockAssumption == Clock \subseteq Nat /\ Clock # {}

Attempts == 1..MaxAttempts
ClaimIds == Tasks \X Attempts
TaskOf(c) == c[1]
AttemptOf(c) == c[2]

ClaimStatuses == {"unissued", "active", "released", "indeterminate",
                  "completed", "failed", "cancelled", "blocked"}
TaskTerminals == {"none", "completed", "failed", "cancelled",
                  "blocked", "indeterminate"}
DeliveryStates == {"none", "open", "held", "disposed", "settled"}

VARIABLES
    \* per task: len(task["attempts"]), task["terminal"], ...
    attempts, terminal, retryAuthorized, uncertainSpend,
    \* per claim: the claim record, field by field
    claimStatus, claimWorker, leaseGeneration, leaseExpires,
    cancelRequested, cancelAcknowledged, renewals,
    \* the delivery the claim was admitted with, as far as the claims see it
    delivery,
    \* per run
    workers, published, closed,
    \* the claim a human recovery has marked and not yet decided
    recovering,
    \* claims whose retry a human authorised: the retry_authorized records
    authorized,
    now

taskVars   == <<attempts, terminal, retryAuthorized, uncertainSpend>>
leaseVars  == <<claimWorker, leaseGeneration, leaseExpires, renewals>>
cancelVars == <<cancelRequested, cancelAcknowledged>>
claimVars  == <<claimStatus, leaseVars, cancelVars>>
runVars    == <<workers, published, closed>>
humanVars  == <<recovering, authorized>>
vars == <<taskVars, claimVars, delivery, runVars, humanVars, now>>

-----------------------------------------------------------------------------
(* Projections of the state the handlers test. *)

Issued(c) == AttemptOf(c) <= attempts[TaskOf(c)]
Latest(t) == <<t, attempts[t]>>
Live(c)   == claimStatus[c] = "active" /\ leaseExpires[c] > now

\* A delivery that is held for recovery, or was dead-lettered, was interrupted.
Interrupted(c) == delivery[c] \in {"held", "disposed"}
Outstanding(c) == delivery[c] \in {"open", "held"}

\* The owner lock is free (no recovery holds it) and the run accepts mutations.
Mutable == recovering = {} /\ ~closed

ClaimForUpdate_Expired(w, c, g) ==
    /\ claimStatus[c] = "active"
    /\ claimWorker[c] = w
    /\ leaseGeneration[c] = g

\* _claim_for_update: the fence every worker mutation of a claim passes.
ClaimForUpdate(w, c, g) ==
    /\ claimStatus[c] = "active"
    /\ claimWorker[c] = w
    /\ leaseExpires[c] > now
    /\ leaseGeneration[c] = g

Terminable_Retried(c) == c = Latest(TaskOf(c))

\* _apply_record refuses a terminal record of a superseded claim or of a task
\* that already has an outcome; the append is refused with it.
Terminable(c) ==
    /\ c = Latest(TaskOf(c))
    /\ terminal[TaskOf(c)] = "none"

RenewalLeft_OneMore(c) == renewals[c] <= MaxRenewals
RenewalLeft(c) == renewals[c] < MaxRenewals

\* An artifact id is published once, whichever claim it comes from.
Unpublished_ByThisClaim(a, c) == <<a, c>> \notin published
Unpublished(a, c) == \A p \in published : p[1] # a

Completable_Always(c) == TRUE
Completable(c) == ~cancelRequested[c]

\* The endings that leave open whether the worker spent.
MaySpend_NotBlocked(s) == s = "indeterminate"
MaySpend(s) == s \in {"indeterminate", "blocked"}

DeliveriesSettled_NotHeld == \A c \in ClaimIds : delivery[c] # "open"
DeliveriesSettled == \A c \in ClaimIds : ~Outstanding(c)

\* The lease generation a claim frame must carry: one above every earlier one.
NextGeneration(t, g) ==
    LET earlier == {leaseGeneration[<<t, n>>] : n \in 1..attempts[t]}
    IN  /\ \A old \in earlier : old < g
        /\ g - 1 \in earlier \cup {0}

-----------------------------------------------------------------------------
(* The guard of _claim_common, by the question it asks. *)

DependenciesComplete_OrBlocked(t) ==
    \A d \in DependsOn[t] : terminal[d] \in {"completed", "blocked"}
DependenciesComplete(t) == \A d \in DependsOn[t] : terminal[d] = "completed"

NoActiveAttempt_Live(t) == \A n \in 1..attempts[t] : ~Live(<<t, n>>)
NoActiveAttempt(t) ==
    \A n \in 1..attempts[t] : claimStatus[<<t, n>>] # "active"

RetryAllowed_Doubt(t) == terminal[t] \notin {"completed", "cancelled", "blocked"}
RetryAllowed_Blocked(t) ==
    /\ terminal[t] \notin {"completed", "cancelled"}
    /\ terminal[t] = "indeterminate" => retryAuthorized[t]
RetryAllowed(t) ==
    /\ terminal[t] \notin {"completed", "cancelled", "blocked"}
    /\ terminal[t] = "indeterminate" => retryAuthorized[t]

ClaimCommon(t, n, g, e) ==
    /\ DependenciesComplete(t)
    /\ NoActiveAttempt(t)
    /\ RetryAllowed(t)
    /\ n = attempts[t] + 1
    /\ NextGeneration(t, g)
    /\ e > now /\ e <= now + MaxLease

-----------------------------------------------------------------------------
(* create(): the preparation record is the whole journal. *)

Init ==
    /\ attempts = [t \in Tasks |-> 0]
    /\ terminal = [t \in Tasks |-> "none"]
    /\ retryAuthorized = [t \in Tasks |-> FALSE]
    /\ uncertainSpend = [t \in Tasks |-> FALSE]
    /\ claimStatus = [c \in ClaimIds |-> "unissued"]
    /\ claimWorker = [c \in ClaimIds |-> NoWorker]
    /\ leaseGeneration = [c \in ClaimIds |-> 0]
    /\ leaseExpires = [c \in ClaimIds |-> 0]
    /\ cancelRequested = [c \in ClaimIds |-> FALSE]
    /\ cancelAcknowledged = [c \in ClaimIds |-> FALSE]
    /\ renewals = [c \in ClaimIds |-> 0]
    /\ delivery = [c \in ClaimIds |-> "none"]
    /\ workers = {}
    /\ published = {}
    /\ closed = FALSE
    /\ recovering = {}
    /\ authorized = {}
    /\ now \in Clock

RegisterWorker(w) ==
    /\ Mutable
    /\ workers' = workers \cup {w}
    /\ UNCHANGED <<taskVars, claimVars, delivery, published, closed, humanVars, now>>

(* claim_granted, and the claim half of a workspace turn admission. *)
GrantClaim(w, t, n, g, e) ==
    LET c == <<t, n>> IN
    /\ Mutable
    /\ w \in workers
    /\ ClaimCommon(t, n, g, e)
    /\ attempts' = [attempts EXCEPT ![t] = n]
    /\ retryAuthorized' = [retryAuthorized EXCEPT ![t] = FALSE]
    /\ claimStatus' = [claimStatus EXCEPT ![c] = "active"]
    /\ claimWorker' = [claimWorker EXCEPT ![c] = w]
    /\ leaseGeneration' = [leaseGeneration EXCEPT ![c] = g]
    /\ leaseExpires' = [leaseExpires EXCEPT ![c] = e]
    /\ UNCHANGED <<terminal, uncertainSpend, renewals, cancelVars, runVars,
                   humanVars, now>>

Claim(w, t, n, g, e) ==
    /\ GrantClaim(w, t, n, g, e)
    /\ UNCHANGED delivery

AdmitClaim(w, t, n, g, e) ==
    /\ t \in WorkspaceTasks
    /\ GrantClaim(w, t, n, g, e)
    /\ delivery' = [delivery EXCEPT ![<<t, n>>] = "open"]

Renew(w, c, g, e) ==
    /\ Mutable
    /\ w \in workers
    /\ ClaimForUpdate(w, c, g)
    /\ ~cancelRequested[c]
    /\ RenewalLeft(c)
    /\ e > now /\ e <= now + MaxLease
    /\ renewals' = [renewals EXCEPT ![c] = @ + 1]
    /\ leaseExpires' = [leaseExpires EXCEPT ![c] = e]
    /\ UNCHANGED <<taskVars, claimStatus, claimWorker, leaseGeneration,
                   cancelVars, delivery, runVars, humanVars, now>>

PublishArtifact(w, c, g, a) ==
    /\ Mutable
    /\ w \in workers
    /\ ClaimForUpdate(w, c, g)
    /\ Unpublished(a, c)
    /\ published' = published \cup {<<a, c>>}
    /\ UNCHANGED <<taskVars, claimVars, delivery, workers, closed, humanVars, now>>

-----------------------------------------------------------------------------
(* Ending a claim: the terminal branch of _apply_record. *)

EndClaim(c, s) ==
    LET t == TaskOf(c) IN
    /\ claimStatus' = [claimStatus EXCEPT ![c] = s]
    /\ terminal' = IF s = "released" THEN terminal
                   ELSE [terminal EXCEPT ![t] = s]
    /\ uncertainSpend' = IF MaySpend(s)
                         THEN [uncertainSpend EXCEPT ![t] = TRUE]
                         ELSE uncertainSpend
    /\ UNCHANGED <<attempts, leaseVars, cancelVars>>

WorkerEndsClaim(w, c, g, s) ==
    /\ Mutable
    /\ w \in workers
    /\ ClaimForUpdate(w, c, g)
    /\ Terminable(c)
    /\ EndClaim(c, s)
    /\ UNCHANGED <<retryAuthorized, delivery, runVars, humanVars, now>>

Complete(w, c, g) ==
    /\ Completable(c)
    /\ WorkerEndsClaim(w, c, g, "completed")

Fail(w, c, g) == WorkerEndsClaim(w, c, g, "failed")

\* task_blocked and human_question leave the same claim and task state.
Block(w, c, g) == WorkerEndsClaim(w, c, g, "blocked")

Release(w, c, g) == WorkerEndsClaim(w, c, g, "released")

CancelOutcome(w, c, g, s) ==
    /\ s \in {"cancelled", "indeterminate"}
    /\ cancelRequested[c]
    /\ WorkerEndsClaim(w, c, g, s)

\* The operator's request: it names the claim and generation it read, not a
\* worker, and may be repeated.
CancelRequest(c, g) ==
    /\ Mutable
    /\ Live(c)
    /\ leaseGeneration[c] = g
    /\ cancelRequested' = [cancelRequested EXCEPT ![c] = TRUE]
    /\ UNCHANGED <<taskVars, claimStatus, leaseVars, cancelAcknowledged,
                   delivery, runVars, humanVars, now>>

CancelAck(w, c, g) ==
    /\ Mutable
    /\ w \in workers
    /\ ClaimForUpdate(w, c, g)
    /\ cancelRequested[c]
    /\ ~cancelAcknowledged[c]
    /\ cancelAcknowledged' = [cancelAcknowledged EXCEPT ![c] = TRUE]
    /\ UNCHANGED <<taskVars, claimStatus, leaseVars, cancelRequested,
                   delivery, runVars, humanVars, now>>

-----------------------------------------------------------------------------
(* acknowledge_indeterminate and resolve_blocked: a human decides what      *)
(* becomes of a claim that may have spent.  resolve_blocked is the same     *)
(* operation restricted to a blocked claim.                                 *)

Recoverable_NotExpired(t) ==
    /\ ~closed
    /\ attempts[t] > 0
    /\ claimStatus[Latest(t)] \in {"indeterminate", "blocked"}
    /\ terminal[t] \notin {"completed", "failed", "cancelled"}

\* What both decisions require of the task and of its latest claim.
Recoverable(t) ==
    /\ ~closed
    /\ attempts[t] > 0
    /\ claimStatus[Latest(t)] \in {"active", "indeterminate", "blocked"}
    /\ terminal[t] \notin {"completed", "failed", "cancelled"}
    /\ ~(Live(Latest(t)) /\ ~Interrupted(Latest(t)))

AuthorizeRetry(t) ==
    /\ claimStatus[Latest(t)] \in {"indeterminate", "blocked"}
    /\ terminal[t] \in {"indeterminate", "blocked"}
    /\ retryAuthorized' = [retryAuthorized EXCEPT ![t] = TRUE]
    /\ terminal' = [terminal EXCEPT ![t] = "none"]
    /\ authorized' = authorized \cup {Latest(t)}
    /\ UNCHANGED <<attempts, uncertainSpend, claimVars>>

BlockTask(t) ==
    /\ claimStatus[Latest(t)] \in {"active", "indeterminate"}
    /\ terminal[t] \in {"none", "indeterminate"}
    /\ EndClaim(Latest(t), "blocked")
    /\ UNCHANGED <<retryAuthorized, authorized>>

Decide(t, allowRetry) == IF allowRetry THEN AuthorizeRetry(t) ELSE BlockTask(t)

\* The claim already is indeterminate or blocked: one record, unless the same
\* decision is on record (no step) or a retry is already authorised (refused).
Acknowledge(t, allowRetry) ==
    /\ recovering = {}
    /\ Recoverable(t)
    /\ claimStatus[Latest(t)] # "active"
    /\ ~retryAuthorized[t]
    /\ allowRetry \/ terminal[t] # "blocked"
    /\ Decide(t, allowRetry)
    /\ UNCHANGED <<delivery, runVars, recovering, now>>

\* The claim is active: its uncertainty is recorded first, under the lock ...
BeginRecovery(t) ==
    /\ recovering = {}
    /\ Recoverable(t)
    /\ claimStatus[Latest(t)] = "active"
    /\ Terminable(Latest(t))
    /\ EndClaim(Latest(t), "indeterminate")
    /\ recovering' = {Latest(t)}
    /\ UNCHANGED <<retryAuthorized, authorized, delivery, runVars, now>>

\* ... then the decision ...
FinishRecovery(t, allowRetry) ==
    /\ recovering = {Latest(t)}
    /\ Decide(t, allowRetry)
    /\ recovering' = {}
    /\ UNCHANGED <<delivery, runVars, now>>

\* ... or the process dies, loses the lock or is refused the second record.
InterruptRecovery ==
    /\ recovering # {}
    /\ recovering' = {}
    /\ UNCHANGED <<taskVars, claimVars, authorized, delivery, runVars, now>>

-----------------------------------------------------------------------------
(* The workspace records that move a delivery, as far as claims see them:   *)
(* held_for_recovery, dead_lettered with nothing uncertain, any other       *)
(* terminal state with nothing uncertain.                                   *)

AdvanceDelivery(c, d) ==
    /\ Mutable
    /\ <<delivery[c], d>> \in {<<"open", "held">>, <<"open", "settled">>,
                               <<"held", "disposed">>}
    /\ delivery' = [delivery EXCEPT ![c] = d]
    /\ UNCHANGED <<taskVars, claimVars, runVars, humanVars, now>>

Close ==
    /\ Mutable
    /\ \A c \in ClaimIds : claimStatus[c] # "active"
    /\ \A t \in Tasks : terminal[t] \in {"completed", "failed", "cancelled", "blocked"}
    /\ DeliveriesSettled
    /\ closed' = TRUE
    /\ UNCHANGED <<taskVars, claimVars, delivery, workers, published, humanVars, now>>

\* The coordinator reads the wall clock, which may be set forward or back.
SetClock(m) ==
    /\ m \in Clock
    /\ now' = m
    /\ UNCHANGED <<taskVars, claimVars, delivery, runVars, humanVars>>

-----------------------------------------------------------------------------

Expiries == (now + 1)..(now + MaxLease)

\* One applied worker frame for claim c, whatever worker and generation it names.
WorkerFrame(c) ==
    \E w \in Workers, g \in Attempts :
        \/ \E e \in Expiries : Renew(w, c, g, e)
        \/ \E a \in Artifacts : PublishArtifact(w, c, g, a)
        \/ Complete(w, c, g)
        \/ Fail(w, c, g)
        \/ Block(w, c, g)
        \/ Release(w, c, g)
        \/ CancelAck(w, c, g)
        \/ \E s \in {"cancelled", "indeterminate"} : CancelOutcome(w, c, g, s)

StartAttempt(t) ==
    \E w \in Workers, n, g \in Attempts, e \in Expiries :
        Claim(w, t, n, g, e) \/ AdmitClaim(w, t, n, g, e)

HumanDecision(t) ==
    \/ BeginRecovery(t)
    \/ \E allowRetry \in BOOLEAN :
          Acknowledge(t, allowRetry) \/ FinishRecovery(t, allowRetry)

Next ==
    \/ \E w \in Workers : RegisterWorker(w)
    \/ \E t \in Tasks : StartAttempt(t) \/ HumanDecision(t)
    \/ \E c \in ClaimIds : WorkerFrame(c)
    \/ \E c \in ClaimIds, g \in Attempts : CancelRequest(c, g)
    \/ \E c \in ClaimIds, d \in DeliveryStates : AdvanceDelivery(c, d)
    \/ InterruptRecovery
    \/ Close
    \/ \E m \in Clock : SetClock(m)

Spec == Init /\ [][Next]_vars

-----------------------------------------------------------------------------
(* Properties. *)

\* Type correctness of the replayed state.
TypeOK ==
    /\ attempts \in [Tasks -> 0..MaxAttempts]
    /\ terminal \in [Tasks -> TaskTerminals]
    /\ retryAuthorized \in [Tasks -> BOOLEAN]
    /\ uncertainSpend \in [Tasks -> BOOLEAN]
    /\ claimStatus \in [ClaimIds -> ClaimStatuses]
    /\ claimWorker \in [ClaimIds -> Workers \cup {NoWorker}]
    /\ leaseGeneration \in [ClaimIds -> 0..MaxAttempts]
    /\ leaseExpires \in [ClaimIds -> Nat]
    /\ cancelRequested \in [ClaimIds -> BOOLEAN]
    /\ cancelAcknowledged \in [ClaimIds -> BOOLEAN]
    /\ renewals \in [ClaimIds -> 0..MaxRenewals]
    /\ delivery \in [ClaimIds -> DeliveryStates]
    /\ workers \subseteq Workers
    /\ published \subseteq Artifacts \X ClaimIds
    /\ closed \in BOOLEAN
    /\ recovering \subseteq ClaimIds
    /\ authorized \subseteq ClaimIds
    /\ now \in Clock

\* At most one attempt of a task is active, and it is the latest one: no
\* sequence of claims, expiries, clock steps and recoveries lets two workers
\* hold the same task (_claim_common, lines 3139-3145).
OneActiveAttempt ==
    \A c \in ClaimIds : claimStatus[c] = "active" => c = Latest(TaskOf(c))

\* "Uncertain spend is never silently retried": an attempt that has a successor
\* was released by its worker, failed, or had its retry authorised by a human.
NoSilentRespend ==
    \A c \in ClaimIds :
        AttemptOf(c) < attempts[TaskOf(c)] =>
            claimStatus[c] \in {"released", "failed"} \/ c \in authorized

\* A task is attempted only after every task it depends on completed, and those
\* stay completed afterwards (_claim_common, lines 3131-3138).
DependenciesHold ==
    \A t \in Tasks :
        attempts[t] > 0 => \A d \in DependsOn[t] : terminal[d] = "completed"

\* Whatever the order of request, acknowledgement, renewal and outcome, a claim
\* with a cancellation pending does not complete, and none is cancelled or
\* acknowledged that was not asked to be.
CancellationHonoured ==
    \A c \in ClaimIds :
        /\ claimStatus[c] = "completed" => ~cancelRequested[c]
        /\ claimStatus[c] = "cancelled" => cancelRequested[c]
        /\ cancelAcknowledged[c] => cancelRequested[c]

\* A closed run has no live worker, no undecided task and no delivery left open
\* (close(), lines 4227-4242).
ClosedIsSettled ==
    closed =>
        /\ recovering = {}
        /\ \A c \in ClaimIds : claimStatus[c] # "active" /\ ~Outstanding(c)
        /\ \A t \in Tasks : terminal[t] \notin {"none", "indeterminate"}

\* Every attempt that may have spent leaves its mark on the task, through every
\* retry, so that status() can report it; nothing else does.
UncertaintyRecorded ==
    \A t \in Tasks :
        uncertainSpend[t] <=>
            \E n \in Attempts : claimStatus[<<t, n>>] \in {"indeterminate", "blocked"}

\* An artifact id names the publication of one claim, forever.
ArtifactPublishedOnce ==
    \A p, q \in published : p[1] = q[1] => p = q

\* What the replayed records tell stays so: of uncertain spend, and of who
\* published what.
RecordsAgree == UncertaintyRecorded /\ ArtifactPublishedOnce

\* "A late or stale worker can never complete a newer claim": a claim that is
\* not active, or whose lease has run out, is not renewed, does not publish and
\* is not settled by anybody; only a human recovery can still mark it
\* indeterminate or blocked.
StaleClaimFrozen ==
    [][\A c \in ClaimIds :
          ~Live(c) /\ Issued(c) =>
              /\ leaseExpires'[c] = leaseExpires[c]
              /\ cancelRequested'[c] = cancelRequested[c]
              /\ cancelAcknowledged'[c] = cancelAcknowledged[c]
              /\ claimStatus'[c] = claimStatus[c]
                 \/ claimStatus'[c] \in {"indeterminate", "blocked"}
              /\ \A p \in published' \ published : p[2] # c]_vars

\* An outcome is final: a completed, failed or cancelled task keeps it, the
\* claim that produced it too, and nothing about a closed run changes again.
OutcomeFinal ==
    [][/\ \A t \in Tasks :
             terminal[t] \in {"completed", "failed", "cancelled"} =>
                 terminal'[t] = terminal[t]
       /\ \A c \in ClaimIds :
             claimStatus[c] \in {"released", "completed", "failed", "cancelled"} =>
                 claimStatus'[c] = claimStatus[c]
       /\ closed => UNCHANGED <<taskVars, claimVars, delivery, runVars, humanVars>>
      ]_vars

-----------------------------------------------------------------------------
(* The inductive invariant behind the safety properties. *)

\* Claims are issued in order, one per attempt.
IssuedInOrder ==
    \A c \in ClaimIds : claimStatus[c] = "unissued" <=> ~Issued(c)

\* The outcome of a task is the one its latest claim left: none while a claim
\* is active (unless an earlier attempt failed), released, or pardoned.
OutcomeExplained ==
    \A t \in Tasks :
        /\ attempts[t] = 0 => terminal[t] = "none"
        /\ attempts[t] > 0 =>
              LET s == claimStatus[Latest(t)] IN
              \/ terminal[t] = s
              \/ terminal[t] = "failed" /\ s = "active"
              \/ terminal[t] = "none" /\ s \in {"active", "released"}
              \/ /\ terminal[t] = "none"
                 /\ s \in {"indeterminate", "blocked"}
                 /\ retryAuthorized[t]

\* A retry authorisation that is not used up is the latest claim's.
RetryIsPending ==
    \A t \in Tasks :
        retryAuthorized[t] =>
            /\ attempts[t] > 0
            /\ terminal[t] = "none"
            /\ claimStatus[Latest(t)] \in {"indeterminate", "blocked"}
            /\ Latest(t) \in authorized

\* While a recovery holds the lock nothing else decides about its claim, and
\* the run is not closed.
RecoveryUndecided ==
    \A c \in recovering :
        /\ ~closed
        /\ c = Latest(TaskOf(c))
        /\ claimStatus[c] = "indeterminate"
        /\ terminal[TaskOf(c)] = "indeterminate"

\* Holds in every reachable state, and is preserved by every step.
Inv ==
    /\ TypeOK
    /\ IssuedInOrder
    /\ OneActiveAttempt
    /\ OutcomeExplained
    /\ RetryIsPending
    /\ DependenciesHold
    /\ NoSilentRespend
    /\ CancellationHonoured
    /\ RecoveryUndecided
    /\ ClosedIsSettled

-----------------------------------------------------------------------------
(* What can still happen to a task. *)

Settled(t) ==
    /\ terminal[t] \in {"completed", "failed", "cancelled", "blocked"}
    /\ NoActiveAttempt(t)

\* A failed task that was claimed again: its outcome is on record, so no record
\* that would end the new attempt is accepted.
FailedAndRetried(t) == terminal[t] = "failed" /\ ~NoActiveAttempt(t)

\* Released, or pardoned, after the last attempt the run allows.
OutOfAttempts(t) ==
    attempts[t] = MaxAttempts /\ terminal[t] = "none" /\ NoActiveAttempt(t)

TaskMoves(t) ==
    \/ StartAttempt(t)
    \/ HumanDecision(t)
    \/ \E w \in Workers, g \in Attempts :
          LET c == Latest(t) IN
          Complete(w, c, g) \/ Fail(w, c, g) \/ Block(w, c, g) \/ Release(w, c, g)

\* Who can move it: a worker that claims it, the one that holds it, or a human.
Claimable(t) == \E n, g \in Attempts, e \in Expiries : ClaimCommon(t, n, g, e)

Endable(t) ==
    /\ attempts[t] > 0
    /\ Terminable(Latest(t))
    /\ \E w \in workers, g \in Attempts : ClaimForUpdate(w, Latest(t), g)

Decidable(t) ==
    /\ Recoverable(t)
    /\ \/ claimStatus[Latest(t)] = "active" /\ Terminable(Latest(t))
       \/ /\ claimStatus[Latest(t)] # "active" /\ ~retryAuthorized[t]
          /\ terminal[t] \in {"indeterminate", "blocked"}

Movable(t) == Claimable(t) \/ Endable(t) \/ Decidable(t)

\* In a run with a registered worker every task is settled, can be moved on by
\* somebody now, waits for a dependency that is not completed, or is in one of the
\* two dead ends named above; there is no third.  The interplay of the guards of
\* _claim_common, _apply_record and acknowledge_indeterminate.
NoThirdDeadEnd ==
    Mutable /\ workers # {} =>
        \A t \in Tasks :
            \/ Settled(t)
            \/ attempts[t] = 0 /\ ~DependenciesComplete(t)
            \/ FailedAndRetried(t)
            \/ OutOfAttempts(t)
            \/ Movable(t)

\* The same of the operations themselves: what somebody can move, moves.
EveryTaskCanMove ==
    /\ NoThirdDeadEnd
    /\ Mutable /\ workers # {} =>
          \A t \in Tasks : Movable(t) => ENABLED TaskMoves(t)

\* "cancel_requested is acknowledged by ack_cancel, then ends as cancelled or
\* indeterminate" (docs/SUMMON_SWARM_PROTOCOL.md, step 6), read as what the
\* worker may report: while its claim is live and the cancellation pending, the
\* outcome the worker reports is accepted.
\* (It does not hold, and no run checks it: README, "What was found".)
CancelOutcomeAccepted ==
    \A c \in ClaimIds :
        Mutable /\ Live(c) /\ cancelRequested[c] =>
            ENABLED \E w \in Workers, g \in Attempts : CancelOutcome(w, c, g, "cancelled")

\* The same sentence, read as what an acknowledged cancellation ends as (a human
\* may later block the indeterminate claim).
\* (It does not hold, and no run checks it: README, "What was found".)
CancelEndsAsPromised ==
    \A c \in ClaimIds :
        cancelAcknowledged[c] =>
            claimStatus[c] \in {"active", "cancelled", "indeterminate", "blocked"}

-----------------------------------------------------------------------------
(* The coordinator implements the task ledger. *)

Phase(t) ==
    IF attempts[t] > 0 /\ claimStatus[Latest(t)] = "active" THEN "working"
    ELSE IF terminal[t] = "none" THEN "open"
    ELSE terminal[t]

Ledger == INSTANCE TaskLedger WITH
    phase <- [t \in Tasks |-> Phase(t)],
    used  <- attempts,
    over  <- closed

\* Every behaviour of the coordinator is one of the task ledger.
LedgerSpec == Ledger!Spec

=============================================================================
